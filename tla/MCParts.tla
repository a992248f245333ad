------------------------------ MODULE MCParts ------------------------------
(***************************************************************************)
(* The instances of the parts: the words that are said, the settings, the  *)
(* mappings, backups and files that are stored.                            *)
(***************************************************************************)
EXTENDS Parts

\* Utterances: all pairs of words of one language, some mixed ones, and the
\* longer ones that a guard or a grammar tells apart.
En == { W(act, "en") : act \in {"draft", "rewrite", "translateTo", "summarize",
        "search", "google", "on", "for", "not", "said", "quoted", "maybe",
        "research", "identifier", "word"} }
Zh == { W("draft", "hans"), W("draft", "hant"), W("draft", "han"),
        W("rewrite", "hans"), W("rewrite", "hant"), W("translateTo", "hans"),
        W("said", "hans"), W("mail", "hans"), W("maybe", "han"), W("not", "han"),
        W("search", "han"), W("on", "han"), Site }
Mixed == { W("draft", "en"), W("draft", "hans"), W("rewrite", "hant"), W("word", "en") }

Word   == W("word", "en")
Longer == { << W("search", "en"), Word, W("on", "en"), Site >>,
            << W("search", "en"), Site, W("for", "en"), Word >>,
            << Word, W("said", "en"), W("draft", "en") >>,
            << W("maybe", "han"), W("draft", "hans"), W("mail", "hans") >>,
            << W("on", "han"), Site, W("search", "han"), Word >>,
            << W("on", "han"), Site, W("search", "han") >>,
            << W("search", "han"), Word, W("on", "han"), Site >>,
            << W("search", "han"), W("on", "han"), Site >> }

MCUtterances == UNION { BoundedSeq(words, 2) : words \in {En, Zh, Mixed} } \cup Longer
----------------------------------------------------------------------------
\* Settings: those of older versions, and newer ones whose lists, mirrors or
\* scenes are not what they should be.
D == DefaultConfig

LegacyConfigs ==
  { [D EXCEPT !.hotkey = h, !.hotkeyMode = m, !.askHotkey = a, !.outputMode = "clipboard"] :
      h \in {"a", "retired", "invalid"}, m \in {"hold", "toggle"}, a \in {Nothing, "b", "invalid"} }
  \cup
  { [D EXCEPT !.targetLang = l, !.limit = n, !.outputMode = "keyboard", !.provider = p] :
      l \in {"de", "xx"}, n \in {0, 50}, p \in {"deepgram", "glm"} }

NewerConfigs ==
  { D } \cup { [D EXCEPT !.list = l, !.dictation = d] : l \in {<<>>, <<"a", "a2", "b">>}, d \in {"a", "retired"} }
  \cup
  { [D EXCEPT !.targets = ts, !.active = l, !.targetLang = m] :
      ts \in {<<>>, <<"en", "de">>, <<"de", "xx", "fr", "en">>}, l \in {"en", "fr"}, m \in {"de", "xx"} }
  \cup
  { [D EXCEPT !.scenes = {"s1"}, !.assigned = a] : a \in {"s1", "s2", "builtin"} }

PlainConfigs ==
  { [D EXCEPT !.provider = "deepgram", !.key = "k1", !.customKey = "k2", !.llmKey = "k3"],
    [D EXCEPT !.provider = "custom", !.customKey = "k2"] }

MCPlainStores == { [has |-> f, config |-> c] : f \in {{}, NewFields}, c \in PlainConfigs }

MCStores == MCPlainStores \cup { [has |-> {}, config |-> c] : c \in LegacyConfigs }
                        \cup { [has |-> NewFields, config |-> c] : c \in NewerConfigs }

MCWishes ==
  [provider |-> Providers, limit |-> {10, 1000}, targets |-> {<<"fr", "de">>}, target |-> {"de"},
   list |-> {<<"a">>, <<"default", "a">>, <<"a", "a2">>, <<"invalid">>}, asks |-> {<<>>, <<"b", "a">>},
   mode |-> {"hold", "toggle"}, insertion |-> {"paste"}, scenes |-> {{}},
   assign |-> {"s1", Nothing}, hotkey |-> {"a", "retired"}, askHotkey |-> {"b"},
   resave |-> {Nothing}]
----------------------------------------------------------------------------
\* Mappings: none, and a file with a browser as an application and with twins.
Mapping(matcher, scene) ==
  [matcher |-> matcher, scene |-> scene, enabled |-> TRUE, seen |-> matcher]

MCMappings == { <<>>, << Mapping("browser", "s1"), Mapping("mail", NoScene), Mapping("mail", "s1") >> }

\* Policies, backups (with twins, with a text that is not valid, without rules)
\* and files of which the second is an export of the program.
MCPolicies == { [enabled |-> TRUE, max |-> 1, days |-> 0], [enabled |-> TRUE, max |-> 2, days |-> 1],
                [enabled |-> FALSE, max |-> 2, days |-> 1] }

Entry(on)   == [id |-> 0, day |-> on, app |-> "none"]
NewRow(t)   == Row(0, t, TRUE)
FileRow(l, t) == [list |-> l, text |-> t, on |-> TRUE]

MCBackups == { [history |-> << Entry(0), Entry(0) >>, rules |-> << NewRow("foo") >>,
                dictionary |-> << NewRow("Foo"), NewRow("foo"), NewRow("=foo") >>],
               [dictionary |-> << NewRow("'=foo") >>, rules |-> <<>>],
               [history |-> << Entry(0) >>, dictionary |-> << NewRow("bad") >>] }

MCFiles == { [marked |-> FALSE, rows |-> << FileRow("dictionary", "Foo"), FileRow("rules", "foo"),
                                            FileRow("rules", "Foo"), FileRow("rules", "bad") >>],
             [marked |-> TRUE, rows |-> << FileRow("dictionary", "'=foo"), FileRow("dictionary", "=foo") >>] }
----------------------------------------------------------------------------
\* The other parts stay as they began: states are told apart by the one that runs.
PartsView ==
  CASE part = "text"                    -> << part, textVars >>
    [] part = "placement"               -> << part, placeVars >>
    [] part \in {"secrets", "settings"} -> << part, settingsVars >>
    [] part = "speech"                  -> << part, sttVars >>
    [] part = "detector"                -> << part, detectorVars >>
    [] part = "library"                 -> << part, libraryVars >>
    [] part = "keyboard"                -> << part, voiceKeyboardVars >>
============================================================================
