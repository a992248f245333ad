----------------------------- MODULE VoiceRoute -----------------------------
(***************************************************************************)
(* What is done with a dictated text: VoiceIntentRouter::route and the     *)
(* guards, the normalisation and the grammars it asks                      *)
(* (src-tauri/src/voice_intent).                                           *)
(*                                                                         *)
(* An utterance is a sequence of words <<what the word does, its script>>. *)
(* The script is "en", "hans" or "hant" for Chinese characters that exist  *)
(* in one writing only, and "han" for those that both share; of the words  *)
(* that a grammar lists for one purpose there is one.                      *)
(***************************************************************************)
EXTENDS Naturals, Sequences, SequencesExt

Acts == {"draft", "rewrite", "translateTo", "summarize", "search", "google", "on", "for", "not",
         "said", "quoted", "maybe", "mail", "research", "identifier", "word"}
W(act, script) == <<act, script>>

Locales   == {"en", "hans", "hant"}
Scripts   == Locales \cup {"han"}
Languages == Locales \cup {"auto", "other"}   \* SpeechLanguageMode
Features  == {"draft", "rewrite", "translate", "search"}

\* The words of a command: draft, rewrite this, translate this to, summarize
\* this, search.  "research" is an English word that only contains one.
Commands == {"draft", "rewrite", "translateTo", "summarize", "search"}

\* contains_ascii_command_signal: in every locale, also inside a word
IsAsciiSignal(w) == w[2] = "en" /\ w[1] \in Commands \cup {"research"}

Of(locale, w) == w[2] = locale \/ (locale # "en" /\ w[2] = "han")

HasSignal(locale, u) ==
  \E w \in ToSet(u) :
    IsAsciiSignal(w) \/ (locale # "en" /\ Of(locale, w) /\ w[1] \in Commands)

HasAnySignal(u) == \E locale \in Locales : HasSignal(locale, u)

First(locale, u, acts) == u # <<>> /\ Of(locale, u[1]) /\ u[1][1] \in acts
Rest(u) == Tail(u)
-----------------------------------------------------------------------------
(* guards.rs: why a command that is there is not obeyed                      *)

IsCode(u) == \E w \in ToSet(u) : w[1] = "identifier"

\* " said " stands between words; the Chinese forms stand anywhere.
IsReported(locale, u) ==
  \/ \E i \in DOMAIN u : /\ u[i][1] = "said" /\ Of(locale, u[i])
                         /\ locale = "en" => 1 < i /\ i < Len(u)
  \/ \E w \in ToSet(u) : w[1] = "quoted"

IsNegated(locale, u) == First(locale, u, {"not"}) /\ (locale = "en" => Len(u) > 1)

Guard(locale, u) ==
  IF ~HasSignal(locale, u) THEN "none"
  ELSE IF IsCode(u) THEN "CodeOrIdentifier"
  ELSE IF IsReported(locale, u) THEN "QuotedOrReported"
  ELSE IF IsNegated(locale, u) THEN "Negated"
  ELSE "none"

\* discussed_command_reason
Discussed(locale, u) ==
  IF /\ First(locale, u, {"maybe"}) /\ (locale = "en" => Len(u) > 1)
     /\ HasSignal(locale, u)
  THEN "Ambiguous" ELSE "none"
-----------------------------------------------------------------------------
(* resolve_locale, resolve_automatic_locale                                  *)

Uses(u, script) == \E w \in ToSet(u) : w[2] = script

AutomaticLocale(u) ==
  IF ~HasAnySignal(u) THEN "NoCommand"
  ELSE IF HasSignal("en", u) /\ \E w \in ToSet(u) : w[2] # "en" THEN "Ambiguous"
  ELSE IF HasSignal("en", u) THEN "en"
  ELSE IF Uses(u, "hans") = Uses(u, "hant") THEN "Ambiguous"
  ELSE IF Uses(u, "hans") THEN "hans" ELSE "hant"

Resolve(language, u) ==
  CASE language = "auto"  -> AutomaticLocale(u)
    [] language = "other" -> "UnsupportedLocale"
    [] OTHER              -> language
-----------------------------------------------------------------------------
(* The grammars: "no", "missing" (its text is not there) or "yes"            *)

WithPayload(payload) == IF payload = <<>> THEN "missing" ELSE "yes"

MatchDraft(locale, u) ==
  CASE First(locale, u, {"draft"}) -> WithPayload(Rest(u))
    [] locale = "hans" /\ First(locale, u, {"maybe"}) /\ Len(u) > 1
         /\ u[2] = W("draft", "hans") ->
       \* "I would like to write": a draft if what follows looks like one
       CASE Len(u) = 2                          -> "missing"
         [] W("mail", "hans") \in ToSet(u)      -> "yes"
         [] OTHER                               -> "no"
    [] OTHER -> "no"

MatchesRewrite(locale, u)       == First(locale, u, {"rewrite"})
MatchesTranslation(locale, u)   == First(locale, u, {"translateTo"}) /\ Rest(u) # <<>>
MatchesInformational(locale, u) == First(locale, u, {"summarize"})

Site == W("google", "en")

\* "search ... on google", "search google for ..."
MatchSearchEn(u) ==
  LET rest == Rest(u)
      n == Len(rest)
  IN  IF ~First("en", u, {"search"}) THEN "no"
      ELSE IF rest = <<>> THEN "missing"
      ELSE IF n > 2 /\ rest[n] = Site /\ rest[n-1] = W("on", "en") THEN "yes"
      ELSE IF n > 2 /\ rest[1] = Site /\ rest[2] = W("for", "en") THEN "yes"
      ELSE "no"

\* The same two in Chinese: "on google search ...", "search ... on google"
MatchSearchZh(u) ==
  LET n == Len(u)
      verb == W("search", "han")
      on == W("on", "han")
  IN  CASE n > 2 /\ u[1] = on /\ u[2] = Site /\ u[3] = verb -> WithPayload(SubSeq(u, 4, n))
        [] n > 2 /\ u[1] = verb /\ u[n-1] = on /\ u[n] = Site ->
             WithPayload(SubSeq(u, 2, n - 2))
        [] OTHER -> "no"

MatchSearch(locale, u) == IF locale = "en" THEN MatchSearchEn(u) ELSE MatchSearchZh(u)
-----------------------------------------------------------------------------
(* The router                                                                *)

PlacementOf(kind) ==
  CASE kind \in {"DictateInsert", "DraftInsert", "TranslateInsert"} -> "InsertAtCursor"
    [] kind \in {"RewriteSelection", "TranslateSelection"}          -> "ReplaceSelection"
    [] kind \in {"AskSelection", "OpenQuestion"}                    -> "PopupAnswer"
    [] kind = "Search"                                              -> "OpenUrl"

Intent(kind, reason) == [kind |-> kind, placement |-> PlacementOf(kind), reason |-> reason]

FallbackIntent(mode, selected, reason) ==
  Intent(IF selected THEN "AskSelection"
         ELSE IF mode = "Dictate" THEN "DictateInsert"
         ELSE IF mode = "Ask" THEN "OpenQuestion"
         ELSE "TranslateInsert", reason)

\* A command that matched, if its feature is on
Command(match, feature, kind, r, otherwise) ==
  IF match = "no" THEN otherwise
  ELSE IF match = "missing" THEN FallbackIntent(r.mode, r.selected, "MissingPayload")
  ELSE IF feature \in r.flags THEN Intent(kind, "none")
  ELSE FallbackIntent(r.mode, r.selected, "FeatureDisabled")

YesNo(matches) == IF matches THEN "yes" ELSE "no"

RouteDictate(r, locale) ==
  LET discussed == FallbackIntent("Dictate", r.selected, Discussed(locale, r.utterance))
  IN  IF ~r.selected
      THEN Command(MatchDraft(locale, r.utterance), "draft", "DraftInsert", r, discussed)
      ELSE Command(YesNo(MatchesTranslation(locale, r.utterance)), "translate",
                   "TranslateSelection", r,
             Command(YesNo(MatchesRewrite(locale, r.utterance)), "rewrite",
                     "RewriteSelection", r,
               IF MatchesInformational(locale, r.utterance)
               THEN FallbackIntent("Dictate", TRUE, "none") ELSE discussed))

RouteAsk(r, locale) ==
  LET discussed == FallbackIntent("Ask", r.selected, Discussed(locale, r.utterance))
  IN  IF r.selected THEN discussed
      ELSE Command(MatchSearch(locale, r.utterance), "search", "Search", r,
             Command(MatchDraft(locale, r.utterance), "draft", "DraftInsert", r, discussed))

RouteTranslate(r) ==
  IF ~r.selected THEN Intent("TranslateInsert", "none")
  ELSE Command("yes", "translate", "TranslateSelection", r, Intent("TranslateInsert", "none"))

RouteUnguarded(r, locale) ==                                          \* mutant
  IF r.mode = "Dictate" THEN RouteDictate(r, locale) ELSE RouteAsk(r, locale)

RouteIn(r, locale) ==
  LET guard == Guard(locale, r.utterance)
  IN  IF guard # "none" THEN FallbackIntent(r.mode, r.selected, guard)
      ELSE IF r.mode = "Dictate" THEN RouteDictate(r, locale)
      ELSE RouteAsk(r, locale)

Route(r) ==
  LET locale == Resolve(r.language, r.utterance)
  IN  IF r.mode = "Translate" THEN RouteTranslate(r)
      ELSE IF r.utterance = <<>> THEN FallbackIntent(r.mode, r.selected, "MissingPayload")
      ELSE IF locale = "NoCommand" THEN FallbackIntent(r.mode, r.selected, "none")
      ELSE IF locale \in Locales THEN RouteIn(r, locale)
      ELSE FallbackIntent(r.mode, r.selected, locale)

\* plan_voice_provider_work: a search asks no model; only a plain dictation is
\* inserted while it is generated; Ask gives the focus back before it inserts.
CallsModel(intent)           == intent.kind # "Search"
AllowsStreaming(mode, intent) == mode = "Dictate" /\ intent.kind = "DictateInsert"
RestoresTarget(mode, intent)  == mode = "Ask" /\ intent.kind = "DraftInsert"
=============================================================================
