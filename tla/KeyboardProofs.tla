--------------------------- MODULE KeyboardProofs ---------------------------
(***************************************************************************)
(* Theorems about VoiceKeyboard, for every number of dictations and of     *)
(* changes of the editor: what is spoken goes to its field or nowhere, and *)
(* nothing listens that the user does not expect to.  The lemmas about the *)
(* pipeline that the keyboard runs are those of RecognitionProofs.         *)
(***************************************************************************)
EXTENDS VoiceKeyboard, RecognitionProofs, TLAPS

Prepares == {"unprepared", "preparedCaptured", "preparedSystem"}
EndWhats     == {"result", "error"}
CallWhats    == {"start", "cancel"}
Whats    == Prepares \cup EndWhats \cup CallWhats \cup {"partial", "stop"}

Posts  == [what : Whats, token : Nat, run : 0..MaxRuns]
Task   == [run : RunIds, at : {"capture", "transcribed"}]
Places == [epoch : Int, place : Int, selection : Int, plain : BOOLEAN, byHold : BOOLEAN]

PipeTyped ==
  /\ active \in 0..MaxRuns /\ currentId \in 0..MaxRuns /\ attribution \in Int
  /\ pipeState \in PipeStates /\ clobbered \in BOOLEAN
  /\ runs \in [RunIds -> Run] /\ submitted \in Seq(Task) /\ worker \in Work

SystemTyped ==
  /\ looper \in Seq(Posts) /\ sessionToken \in Nat
  /\ session \in [token : Nat, run : 0..MaxRuns]
  /\ awaiting \in BOOLEAN /\ watchdog \in Watchdogs

FieldTyped ==
  /\ activeTarget \in 0..MaxRuns /\ composing \in 0..MaxRuns
  /\ targets \in [Targets -> Places] /\ localIo \in Seq(Targets)
  /\ finger \in {"up", "held"} /\ noticed \in 0..1 /\ edits \in 0..MaxEdits
  /\ editor \in [open : BOOLEAN, sensitive : BOOLEAN, epoch : 0..MaxEdits, place : 0..1]
  /\ committed \subseteq [target : Targets, epoch : Int, place : Int]
  /\ calledOff \subseteq Targets
  /\ editor.epoch <= edits

KbTyped == PipeTyped /\ SystemTyped /\ FieldTyped

InQueue(q) == {q[i] : i \in DOMAIN q}

\* The targets that were taken down, those that are still prepared, and those
\* whose run may have begun.
Taken == {t \in Targets : targets[t] # NotTaken}
PreparedFor(q, t) == \E p \in InQueue(q) : p.what \in Prepares /\ p.run = t
Started == {t \in Taken : t \notin InQueue(localIo) /\ ~PreparedFor(looper, t)}

Distinct(q) == \A i, j \in DOMAIN q : i < j => q[i] # q[j]
PreparedOnce(q) ==
  \A i, j \in DOMAIN q :
    i < j /\ q[i].what \in Prepares /\ q[j].what \in Prepares => q[i].run # q[j].run

\* A target is taken once, and prepared once.
TakenOnce ==
  /\ \E n \in 0..MaxRuns : Taken = 1..n
  /\ InQueue(localIo) \subseteq Taken
  /\ \A t \in 0..MaxRuns : PreparedFor(looper, t) => t \in Taken /\ t \notin InQueue(localIo)
  /\ Distinct(localIo) /\ PreparedOnce(looper)
  /\ activeTarget # NoTarget => activeTarget \in Taken

\* What speaks of a run comes after its preparation, and what ends it after it
\* has left the pipeline.
AfterStart ==
  /\ active # NoRun => active \in Started
  /\ composing # NoTarget => composing \in Started
  /\ worker.run # NoRun => worker.run \in Started
  /\ \A i \in DOMAIN submitted : submitted[i].run \in Started
  /\ \A p \in InQueue(looper) : p.what \in {"partial"} \cup EndWhats => p.run \in Started
  /\ \A p \in InQueue(looper) : p.what \in EndWhats => p.run # active
  /\ worker.say \in EndWhats => worker.pc = "idle"
  /\ worker.pc # "idle" \/ worker.say # "nothing" => worker.run # NoRun
  /\ worker.pc \in {"idle", "ending"} => active = NoRun \/ active # worker.run
  /\ worker.pc = "ending" => worker.out \in EndWhats

\* What is inserted belongs to a target that is over.
InsertedOver ==
  /\ \A c \in committed :
       /\ c.target \in Taken /\ c.epoch = targets[c.target].epoch /\ c.place = targets[c.target].place
       /\ c.target \notin calledOff /\ c.target # activeTarget
  /\ calledOff \subseteq Taken /\ activeTarget \notin calledOff
  /\ composing # NoTarget => composing = activeTarget

\* The run of the pipeline is that of the active target, and not cancelled.
ActiveIs ==
  /\ active # NoRun => activeTarget = active /\ currentId = active /\ ~runs[active].cancelled
  /\ \A r \in RunIds : runs[r].session = "CANCELLED" => runs[r].cancelled
  /\ \A r \in RunIds : r \notin Started => runs[r] = Fresh

\* The run that only the recognizer of the system has.
AtWork(r)  == worker.run = r \/ \E i \in DOMAIN submitted : submitted[i].run = r
BySystem   == active # NoRun /\ runs[active].session = "none"
ServiceRun == BySystem /\ ~AtWork(active)

\* The tokens of the recognizer: at most one post, or its session, is current.
CallOf(p, k) == p.what \in CallWhats /\ p.token = k
OneCall(q, k) ==
  \A i, j \in DOMAIN q : CallOf(q[i], k) /\ CallOf(q[j], k) => i = j
CurrentCall(p) == CallOf(p, sessionToken)
TokensKnown ==
  /\ session # NoSession => session.run # NoRun /\ session.token <= sessionToken
  /\ session = NoSession => ~awaiting
  /\ \A p \in InQueue(looper) : p.what \in CallWhats => p.token <= sessionToken
  /\ OneCall(looper, sessionToken)
  /\ \A p \in InQueue(looper) : CurrentCall(p) => ~IsLive
  /\ \A p \in InQueue(looper) : CurrentCall(p) /\ p.what = "start" => p.run = active /\ ServiceRun
  /\ IsLive => session.run = active /\ ServiceRun
  /\ session # NoSession /\ ~IsLive => \E p \in InQueue(looper) : CurrentCall(p)

\* A run that the service records has it, or is about to.
Starting   == \E p \in InQueue(looper) : CurrentCall(p) /\ p.what = "start"
ServiceHas == BySystem /\ pipeState = "RECORDING" => IsLive \/ Starting

\* The state of the pipeline, as long as no cancelled run has overwritten it.
TooLate == worker.run = active /\ worker.pc \in Later
StateKnown ==
  /\ ~clobbered /\ active # NoRun /\ runs[active].session # "none" /\ ~runs[active].fellBack /\ ~TooLate =>
       pipeState = "RECORDING"
  /\ ~clobbered /\ activeTarget # NoTarget /\ activeTarget \notin Started => pipeState = "IDLE"

\* The end of the hold has reached the recording, or will when it has begun.
StopAfter(q, k) ==
  \E i, j \in DOMAIN q : j < i /\ q[i].what = "stop" /\ q[j].what = "start" /\ q[j].token = k
StopPosted == \E p \in InQueue(looper) : p.what = "stop"
StopComes  == (IsLive /\ (awaiting \/ StopPosted)) \/ StopAfter(looper, sessionToken)
IsStopped ==
  active # NoRun /\ ~runs[active].fellBack =>
    IF runs[active].session = "none" THEN pipeState # "RECORDING" \/ StopComes
    ELSE runs[active].session = "STOPPED" \/ (worker.run = active /\ worker.pc \in Past)
HoldOver ==
  finger = "up" /\ activeTarget # NoTarget /\ targets[activeTarget].byHold /\ ~clobbered =>
    activeTarget \in Started /\ IsStopped

KbInv ==
  /\ KbTyped /\ TakenOnce /\ AfterStart /\ InsertedOver /\ ActiveIs
  /\ TokensKnown /\ ServiceHas /\ StateKnown /\ HoldOver
-----------------------------------------------------------------------------
(* Queues *)

LEMMA PostedAppend ==
  ASSUME NEW S, NEW s \in Seq(S), NEW e \in S
  PROVE  InQueue(Append(s, e)) = InQueue(s) \cup {e}
<1>1. InQueue(Append(s, e)) \subseteq InQueue(s) \cup {e}
  BY AppendIs DEF InQueue
<1>2. InQueue(s) \cup {e} \subseteq InQueue(Append(s, e))
  <2>1. ASSUME NEW i \in DOMAIN s PROVE s[i] \in InQueue(Append(s, e))
    <3>1. i \in DOMAIN Append(s, e) /\ Append(s, e)[i] = s[i]
      BY AppendIs
    <3>2. QED
      BY <3>1 DEF InQueue
  <2>2. e \in InQueue(Append(s, e))
    <3>1. Len(s) + 1 \in DOMAIN Append(s, e) /\ Append(s, e)[Len(s) + 1] = e
      BY AppendIs
    <3>2. QED
      BY <3>1 DEF InQueue
  <2>3. QED
    BY <2>1, <2>2 DEF InQueue
<1>3. QED
  BY <1>1, <1>2

LEMMA PostedTail ==
  ASSUME NEW S, NEW s \in Seq(S), s # << >>
  PROVE  InQueue(s) = InQueue(Tail(s)) \cup {Head(s)}
<1>1. InQueue(Tail(s)) \cup {Head(s)} \subseteq InQueue(s)
  BY TailIs DEF InQueue
<1>2. InQueue(s) \subseteq InQueue(Tail(s)) \cup {Head(s)}
  <2>1. ASSUME NEW i \in DOMAIN s PROVE s[i] \in InQueue(Tail(s)) \cup {Head(s)}
    <3>1. CASE i = 1
      BY <3>1, TailIs
    <3>2. CASE i # 1
      BY <3>2, TailBack DEF InQueue
    <3>3. QED
      BY <3>1, <3>2
  <2>2. QED
    BY <2>1 DEF InQueue
<1>3. QED
  BY <1>1, <1>2

LEMMA PostedIn ==
  ASSUME NEW S, NEW s \in Seq(S)
  PROVE  InQueue(s) \subseteq S
  BY DEF InQueue

LEMMA DistinctQueue ==
  ASSUME NEW S, NEW s \in Seq(S), Distinct(s)
  PROVE  /\ \A e \in S : e \notin InQueue(s) => Distinct(Append(s, e))
         /\ s # << >> => Distinct(Tail(s)) /\ Head(s) \notin InQueue(Tail(s))
<1>1. ASSUME NEW e \in S, e \notin InQueue(s) PROVE Distinct(Append(s, e))
  <2>1. ASSUME NEW i \in DOMAIN Append(s, e), NEW j \in DOMAIN Append(s, e), i < j
        PROVE  Append(s, e)[i] # Append(s, e)[j]
    <3>1. i \in DOMAIN s /\ Append(s, e)[i] = s[i]
      BY <2>1, AppendIs
    <3>2. CASE j \in DOMAIN s /\ Append(s, e)[j] = s[j]
      BY <2>1, <3>1, <3>2 DEF Distinct
    <3>3. CASE Append(s, e)[j] = e
      BY <1>1, <3>1, <3>3 DEF InQueue
    <3>4. QED
      BY <3>2, <3>3, AppendIs
  <2>2. QED
    BY <2>1 DEF Distinct
<1>2. ASSUME s # << >> PROVE Distinct(Tail(s)) /\ Head(s) \notin InQueue(Tail(s))
  <2>1. ASSUME NEW i \in DOMAIN Tail(s), NEW j \in DOMAIN Tail(s), i < j
        PROVE  Tail(s)[i] # Tail(s)[j]
    <3>1. /\ i + 1 \in DOMAIN s /\ j + 1 \in DOMAIN s /\ i + 1 < j + 1
          /\ Tail(s)[i] = s[i + 1] /\ Tail(s)[j] = s[j + 1]
      BY <1>2, <2>1, TailIs
    <3>2. QED
      BY <3>1 DEF Distinct
  <2>2. ASSUME NEW j \in DOMAIN Tail(s) PROVE Tail(s)[j] # Head(s)
    <3>1. /\ 1 \in DOMAIN s /\ j + 1 \in DOMAIN s /\ 1 < j + 1
          /\ Head(s) = s[1] /\ Tail(s)[j] = s[j + 1]
      BY <1>2, <2>2, TailIs
    <3>2. QED
      BY <3>1 DEF Distinct
  <2>3. QED
    BY <2>1, <2>2 DEF Distinct, InQueue
<1>3. QED
  BY <1>1, <1>2

LEMMA PreparedQueue ==
  ASSUME NEW q \in Seq(Posts), PreparedOnce(q)
  PROVE  /\ \A e \in Posts : (e.what \in Prepares => ~PreparedFor(q, e.run)) => PreparedOnce(Append(q, e))
         /\ q # << >> => /\ PreparedOnce(Tail(q))
                         /\ Head(q).what \in Prepares => ~PreparedFor(Tail(q), Head(q).run)
<1>1. ASSUME NEW e \in Posts, e.what \in Prepares => ~PreparedFor(q, e.run) PROVE PreparedOnce(Append(q, e))
  <2>1. ASSUME NEW i \in DOMAIN Append(q, e), NEW j \in DOMAIN Append(q, e), i < j,
               Append(q, e)[i].what \in Prepares, Append(q, e)[j].what \in Prepares
        PROVE  Append(q, e)[i].run # Append(q, e)[j].run
    <3>1. i \in DOMAIN q /\ Append(q, e)[i] = q[i]
      BY <2>1, AppendIs
    <3>2. CASE j \in DOMAIN q /\ Append(q, e)[j] = q[j]
      BY <2>1, <3>1, <3>2 DEF PreparedOnce
    <3>3. CASE Append(q, e)[j] = e
      BY <1>1, <2>1, <3>1, <3>3 DEF InQueue, PreparedFor
    <3>4. QED
      BY <3>2, <3>3, AppendIs
  <2>2. QED
    BY <2>1 DEF PreparedOnce
<1>2. ASSUME q # << >>
      PROVE  /\ PreparedOnce(Tail(q))
             /\ Head(q).what \in Prepares => ~PreparedFor(Tail(q), Head(q).run)
  <2>1. ASSUME NEW i \in DOMAIN Tail(q), NEW j \in DOMAIN Tail(q), i < j,
               Tail(q)[i].what \in Prepares, Tail(q)[j].what \in Prepares
        PROVE  Tail(q)[i].run # Tail(q)[j].run
    <3>1. /\ i + 1 \in DOMAIN q /\ j + 1 \in DOMAIN q /\ i + 1 < j + 1
          /\ Tail(q)[i] = q[i + 1] /\ Tail(q)[j] = q[j + 1]
      BY <1>2, <2>1, TailIs
    <3>2. QED
      BY <2>1, <3>1 DEF PreparedOnce
  <2>2. ASSUME NEW j \in DOMAIN Tail(q), Head(q).what \in Prepares, Tail(q)[j].what \in Prepares
        PROVE  Tail(q)[j].run # Head(q).run
    <3>1. /\ 1 \in DOMAIN q /\ j + 1 \in DOMAIN q /\ 1 < j + 1
          /\ Head(q) = q[1] /\ Tail(q)[j] = q[j + 1]
      BY <1>2, <2>2, TailIs
    <3>2. QED
      BY <2>2, <3>1 DEF PreparedOnce
  <2>3. QED
    BY <2>1, <2>2 DEF PreparedOnce, InQueue, PreparedFor
<1>3. QED
  BY <1>1, <1>2

LEMMA CallQueue ==
  ASSUME NEW q \in Seq(Posts), NEW k \in Nat, OneCall(q, k)
  PROVE  /\ \A e \in Posts : ~CallOf(e, k) \/ (\A p \in InQueue(q) : ~CallOf(p, k)) => OneCall(Append(q, e), k)
         /\ q # << >> => /\ OneCall(Tail(q), k)
                         /\ CallOf(Head(q), k) => \A p \in InQueue(Tail(q)) : ~CallOf(p, k)
<1>1. ASSUME NEW e \in Posts, ~CallOf(e, k) \/ \A p \in InQueue(q) : ~CallOf(p, k)
      PROVE  OneCall(Append(q, e), k)
  <2>1. ASSUME NEW i \in DOMAIN Append(q, e), NEW j \in DOMAIN Append(q, e),
               CallOf(Append(q, e)[i], k), CallOf(Append(q, e)[j], k)
        PROVE  i = j
    <3>1. \/ i \in DOMAIN q /\ Append(q, e)[i] = q[i] /\ q[i] \in InQueue(q)
          \/ i = Len(q) + 1 /\ Append(q, e)[i] = e
      BY <2>1, AppendIs DEF InQueue
    <3>2. \/ j \in DOMAIN q /\ Append(q, e)[j] = q[j] /\ q[j] \in InQueue(q)
          \/ j = Len(q) + 1 /\ Append(q, e)[j] = e
      BY <2>1, AppendIs DEF InQueue
    <3>3. QED
      BY <1>1, <2>1, <3>1, <3>2, Zenon DEF OneCall
  <2>2. QED
    BY <2>1 DEF OneCall
<1>2. ASSUME q # << >>
      PROVE  /\ OneCall(Tail(q), k)
             /\ CallOf(Head(q), k) => \A p \in InQueue(Tail(q)) : ~CallOf(p, k)
  <2>1. ASSUME NEW i \in DOMAIN Tail(q), NEW j \in DOMAIN Tail(q),
               CallOf(Tail(q)[i], k), CallOf(Tail(q)[j], k)
        PROVE  i = j
    <3>1. /\ i + 1 \in DOMAIN q /\ j + 1 \in DOMAIN q /\ i \in Int /\ j \in Int
          /\ Tail(q)[i] = q[i + 1] /\ Tail(q)[j] = q[j + 1]
      BY <1>2, <2>1, TailIs
    <3>2. i + 1 = j + 1
      BY <2>1, <3>1 DEF OneCall
    <3>3. QED
      BY <3>1, <3>2
  <2>2. ASSUME NEW j \in DOMAIN Tail(q), CallOf(Head(q), k) PROVE ~CallOf(Tail(q)[j], k)
    <3>1. /\ 1 \in DOMAIN q /\ j + 1 \in DOMAIN q /\ 1 # j + 1
          /\ Head(q) = q[1] /\ Tail(q)[j] = q[j + 1]
      BY <1>2, <2>2, TailIs
    <3>2. QED
      BY <2>2, <3>1 DEF OneCall
  <2>3. QED
    BY <2>1, <2>2 DEF OneCall, InQueue
<1>3. QED
  BY <1>1, <1>2

LEMMA StopQueue ==
  ASSUME NEW q \in Seq(Posts), NEW k \in Nat
  PROVE  /\ \A e \in Posts : StopAfter(q, k) => StopAfter(Append(q, e), k)
         /\ \A e \in Posts : /\ e.what = "stop"
                             /\ \E p \in InQueue(q) : p.what = "start" /\ p.token = k
                             => StopAfter(Append(q, e), k)
         /\ q # << >> /\ StopAfter(q, k) =>
              \/ StopAfter(Tail(q), k)
              \/ /\ Head(q).what = "start" /\ Head(q).token = k
                 /\ \E p \in InQueue(Tail(q)) : p.what = "stop"
         /\ StopAfter(q, k) => \E p \in InQueue(q) : p.what = "start" /\ p.token = k
         /\ StopAfter(q, k) => \E p \in InQueue(q) : p.what = "stop"
<1>1. ASSUME NEW e \in Posts, StopAfter(q, k) PROVE StopAfter(Append(q, e), k)
  BY <1>1, AppendIs DEF StopAfter
<1>2. ASSUME NEW e \in Posts, e.what = "stop", NEW p \in InQueue(q), p.what = "start", p.token = k
      PROVE  StopAfter(Append(q, e), k)
  <2>1. PICK j \in DOMAIN q : q[j] = p
    BY DEF InQueue
  <2>2. /\ j \in DOMAIN Append(q, e) /\ Append(q, e)[j] = p /\ j < Len(q) + 1
        /\ Len(q) + 1 \in DOMAIN Append(q, e) /\ Append(q, e)[Len(q) + 1] = e
    BY <2>1, AppendIs
  <2>3. QED
    BY <1>2, <2>2 DEF StopAfter
<1>3. ASSUME q # << >>, StopAfter(q, k), ~StopAfter(Tail(q), k)
      PROVE  /\ Head(q).what = "start" /\ Head(q).token = k
             /\ \E p \in InQueue(Tail(q)) : p.what = "stop"
  <2>1. PICK i \in DOMAIN q, j \in DOMAIN q :
          j < i /\ q[i].what = "stop" /\ q[j].what = "start" /\ q[j].token = k
    BY <1>3 DEF StopAfter
  <2>2. i \in Int /\ j \in Int /\ DOMAIN q = 1..Len(q)
    BY <1>3, TailIs
  <2>3. i # 1 /\ i - 1 \in DOMAIN Tail(q) /\ Tail(q)[i - 1] = q[i]
    BY <1>3, <2>1, <2>2, TailBack
  <2>4. j = 1
    <3>1. ASSUME j # 1 PROVE FALSE
      <4>1. j - 1 \in DOMAIN Tail(q) /\ Tail(q)[j - 1] = q[j] /\ j - 1 < i - 1
        BY <1>3, <2>1, <2>2, <3>1, TailBack
      <4>2. QED
        BY <1>3, <2>1, <2>3, <4>1 DEF StopAfter
    <3>2. QED
      BY <3>1
  <2>5. QED
    BY <1>3, <2>1, <2>3, <2>4, TailIs DEF InQueue
<1>4. ASSUME StopAfter(q, k)
      PROVE  /\ \E p \in InQueue(q) : p.what = "start" /\ p.token = k
             /\ \E p \in InQueue(q) : p.what = "stop"
  BY <1>4 DEF StopAfter, InQueue
<1>5. QED
  BY <1>1, <1>2, <1>3, <1>4
-----------------------------------------------------------------------------
(* What stays when little changes *)

\* No target is prepared that was not.
Freed(q) == q = looper \/ (looper # << >> /\ q = Tail(looper))
Moved ==
  \/ Freed(looper')
  \/ \E q \in Seq(Posts), e \in Posts : Freed(q) /\ e.what \notin Prepares /\ looper' = Append(q, e)

LEMMA MovedIs ==
  ASSUME KbTyped, PreparedOnce(looper), Moved
  PROVE  /\ looper' \in Seq(Posts) /\ PreparedOnce(looper')
         /\ \A t : PreparedFor(looper', t) => PreparedFor(looper, t)
<1>1. looper \in Seq(Posts)
  BY DEF KbTyped, SystemTyped
<1>2. ASSUME NEW q, Freed(q)
      PROVE  q \in Seq(Posts) /\ PreparedOnce(q) /\ InQueue(q) \subseteq InQueue(looper)
  <2>1. CASE q = looper
    BY <1>1, <2>1
  <2>2. CASE looper # << >> /\ q = Tail(looper)
    BY <1>1, <2>2, TailIs, PostedTail, PreparedQueue
  <2>3. QED
    BY <1>2, <2>1, <2>2 DEF Freed
<1>3. CASE Freed(looper')
  BY <1>2, <1>3 DEF PreparedFor
<1>4. ASSUME NEW q \in Seq(Posts), NEW e \in Posts, Freed(q), e.what \notin Prepares,
             looper' = Append(q, e)
      PROVE  /\ looper' \in Seq(Posts) /\ PreparedOnce(looper')
             /\ \A t : PreparedFor(looper', t) => PreparedFor(looper, t)
  <2>1. PreparedOnce(q) /\ InQueue(q) \subseteq InQueue(looper)
    BY <1>2, <1>4
  <2>2. looper' \in Seq(Posts) /\ InQueue(looper') = InQueue(q) \cup {e}
    BY <1>4, AppendIs, PostedAppend
  <2>3. PreparedOnce(looper')
    BY <1>4, <2>1, PreparedQueue
  <2>4. QED
    BY <1>4, <2>1, <2>2, <2>3 DEF PreparedFor
<1>5. QED
  BY <1>3, <1>4 DEF Moved

LEMMA TargetsStay ==
  ASSUME KbTyped, TakenOnce, KeepsTargets, Moved, activeTarget' \in {activeTarget, NoTarget}
  PROVE  TakenOnce' /\ Taken' = Taken /\ Started \subseteq Started'
<1>1. /\ looper' \in Seq(Posts) /\ PreparedOnce(looper')
      /\ \A t : PreparedFor(looper', t) => PreparedFor(looper, t)
  BY MovedIs DEF TakenOnce
<1>2. UNCHANGED <<targets, localIo>> /\ Taken' = Taken
  BY DEF KeepsTargets, Taken
<1>3. Started \subseteq Started'
  BY <1>1, <1>2 DEF Started
<1>4. TakenOnce'
  BY <1>1, <1>2 DEF TakenOnce
<1>5. QED
  BY <1>2, <1>3, <1>4

LEMMA RunsStay ==
  ASSUME AfterStart, Started \subseteq Started', active' \in {active, NoRun},
         UNCHANGED <<worker, submitted>>, composing' \in {composing, NoTarget},
         \A p \in InQueue(looper') :
           \/ p \in InQueue(looper) \/ p.what \notin {"partial"} \cup EndWhats
           \/ p.run \in Started /\ (p.what \in EndWhats => p.run # active' /\ p.run # NoRun)
  PROVE  AfterStart'
<1>1. ASSUME NEW p \in InQueue(looper'), p.what \in {"partial"} \cup EndWhats
      PROVE  p.run \in Started' /\ (p.what \in EndWhats => p.run # active')
  <2>1. Started \subseteq RunIds /\ NoRun \notin RunIds
    BY DEF Started, Taken, Targets, RunIds, NoRun
  <2>2. p.run \in Started
    BY <1>1 DEF AfterStart
  <2>3. p.what \in EndWhats => p.run # active'
    BY <1>1, <2>1, <2>2 DEF AfterStart
  <2>4. QED
    BY <2>2, <2>3
<1>2. QED
  BY <1>1 DEF AfterStart, EndWhats

LEMMA ActiveStays ==
  ASSUME ActiveIs, UNCHANGED <<active, currentId, runs>>, Started \subseteq Started',
         activeTarget' = activeTarget \/ active = NoRun
  PROVE  ActiveIs'
  BY DEF ActiveIs

LEMMA InsertedStays ==
  ASSUME InsertedOver, UNCHANGED <<committed, targets, calledOff>>, Taken' = Taken,
         \/ activeTarget' = activeTarget /\ composing' \in {composing, activeTarget, NoTarget}
         \/ activeTarget' = NoTarget /\ composing' = NoTarget
  PROVE  InsertedOver'
<1>1. NoTarget \notin Taken
  BY DEF Taken, Targets, RunIds, NoTarget
<1>2. QED
  BY <1>1 DEF InsertedOver

\* No call of the recognizer comes or goes.
NoCallMoves ==
  \/ looper' = looper
  \/ looper # << >> /\ Head(looper).what \notin CallWhats /\ looper' = Tail(looper)
  \/ \E e \in Posts : e.what \notin CallWhats /\ looper' = Append(looper, e)

LEMMA QuietIs ==
  ASSUME KbTyped, OneCall(looper, sessionToken), NoCallMoves
  PROVE  /\ OneCall(looper', sessionToken)
         /\ \A p \in Posts : p.what \in CallWhats => (p \in InQueue(looper') <=> p \in InQueue(looper))
         /\ InQueue(looper) \subseteq Posts /\ InQueue(looper') \subseteq Posts
<1>1. looper \in Seq(Posts) /\ sessionToken \in Nat /\ InQueue(looper) \subseteq Posts
  BY PostedIn DEF KbTyped, SystemTyped
<1>2. CASE looper' = looper
  BY <1>1, <1>2
<1>3. CASE looper # << >> /\ Head(looper).what \notin CallWhats /\ looper' = Tail(looper)
  BY <1>1, <1>3, TailIs, PostedIn, PostedTail, CallQueue
<1>4. ASSUME NEW e \in Posts, e.what \notin CallWhats, looper' = Append(looper, e)
      PROVE  /\ OneCall(looper', sessionToken)
             /\ \A p \in Posts : p.what \in CallWhats => (p \in InQueue(looper') <=> p \in InQueue(looper))
             /\ InQueue(looper') \subseteq Posts
  BY <1>1, <1>4, PostedAppend, CallQueue DEF CallOf
<1>5. QED
  BY <1>1, <1>2, <1>3, <1>4 DEF NoCallMoves

LEMMA SystemStays ==
  ASSUME KbTyped, TokensKnown, ServiceHas, NoCallMoves, UNCHANGED <<session, sessionToken>>,
         awaiting' = awaiting \/ IsLive,
         ServiceRun => ServiceRun' /\ active' = active,
         BySystem' /\ pipeState' = "RECORDING" => BySystem /\ pipeState = "RECORDING"
  PROVE  TokensKnown' /\ ServiceHas'
<1>1. /\ OneCall(looper', sessionToken)
      /\ \A p \in Posts : p.what \in CallWhats => (p \in InQueue(looper') <=> p \in InQueue(looper))
      /\ InQueue(looper) \subseteq Posts /\ InQueue(looper') \subseteq Posts
  BY QuietIs DEF TokensKnown
<1>2. IsLive' = IsLive
  BY DEF IsLive
<1>3. \A p \in InQueue(looper) : CurrentCall(p) => p \in InQueue(looper') /\ CurrentCall(p)'
  BY <1>1 DEF CurrentCall, CallOf
<1>4. \A p \in InQueue(looper') : p.what \in CallWhats => p \in InQueue(looper) /\ (CurrentCall(p)' => CurrentCall(p))
  BY <1>1 DEF CurrentCall, CallOf
<1>5. ASSUME NEW p \in InQueue(looper'), CurrentCall(p)'
      PROVE  p \in InQueue(looper) /\ CurrentCall(p)
  BY <1>4, <1>5 DEF CurrentCall, CallOf
<1>6. TokensKnown'
  <2>1. /\ session' # NoSession => session'.run # NoRun /\ session'.token <= sessionToken'
        /\ session' = NoSession => ~awaiting'
    BY DEF TokensKnown, IsLive
  <2>2. \A p \in InQueue(looper') : p.what \in CallWhats => p.token <= sessionToken'
    BY <1>4 DEF TokensKnown
  <2>3. /\ \A p \in InQueue(looper') : CurrentCall(p)' => ~IsLive'
        /\ \A p \in InQueue(looper') : CurrentCall(p)' /\ p.what = "start" => p.run = active' /\ ServiceRun'
        /\ IsLive' => session'.run = active' /\ ServiceRun'
    BY <1>2, <1>5 DEF TokensKnown
  <2>4. session' # NoSession /\ ~IsLive' => \E p \in InQueue(looper') : CurrentCall(p)'
    BY <1>2, <1>3 DEF TokensKnown
  <2>5. OneCall(looper, sessionToken)'
    BY <1>1
  <2>6. QED
    BY <2>1, <2>2, <2>3, <2>4, <2>5 DEF TokensKnown
<1>7. Starting => Starting'
  BY <1>3 DEF Starting
<1>8. ServiceHas'
  BY <1>2, <1>7 DEF ServiceHas
<1>9. QED
  BY <1>6, <1>8

\* A stop that is posted stays so, until it is taken.
LEMMA StopStays ==
  ASSUME KbTyped, NoCallMoves, looper # << >> /\ looper' = Tail(looper) => Head(looper).what # "stop",
         UNCHANGED <<session, sessionToken, awaiting>>, StopComes
  PROVE  StopComes'
<1>1. looper \in Seq(Posts) /\ sessionToken \in Nat
  BY DEF KbTyped, SystemTyped
<1>2. IsLive' = IsLive
  BY DEF IsLive
<1>3. (StopPosted => StopPosted') /\ (StopAfter(looper, sessionToken) => StopAfter(looper', sessionToken))
  <2>1. CASE looper' = looper
    BY <2>1 DEF StopPosted
  <2>2. CASE looper # << >> /\ Head(looper).what \notin CallWhats /\ looper' = Tail(looper)
    BY <1>1, <2>2, PostedTail, StopQueue DEF StopPosted, CallWhats
  <2>3. ASSUME NEW e \in Posts, looper' = Append(looper, e)
        PROVE  /\ StopPosted => StopPosted'
               /\ StopAfter(looper, sessionToken) => StopAfter(looper', sessionToken)
    BY <1>1, <2>3, PostedAppend, StopQueue DEF StopPosted
  <2>4. QED
    BY <2>1, <2>2, <2>3 DEF NoCallMoves
<1>4. QED
  BY <1>2, <1>3 DEF StopComes

LEMMA PipeStays ==
  ASSUME KbTyped, StateKnown, HoldOver, UNCHANGED <<active, runs, pipeState, clobbered, targets>>,
         worker' = worker \/ (worker.pc = "idle" /\ worker' = Resting),
         activeTarget' \in {activeTarget, NoTarget}, Started \subseteq Started',
         finger' \in {finger, "held"},
         BySystem /\ pipeState = "RECORDING" /\ StopComes => StopComes'
  PROVE  StateKnown' /\ HoldOver'
<1>1. active # NoRun => (TooLate' <=> TooLate)
  BY DEF TooLate, Resting, Later
<1>2. active # NoRun /\ worker.run = active /\ worker.pc \in Past => worker'.run = active /\ worker'.pc \in Past
  BY DEF Past, Later
<1>3. StateKnown'
  BY <1>1 DEF StateKnown
<1>4. IsStopped => IsStopped'
  BY <1>2 DEF IsStopped, BySystem
<1>5. HoldOver'
  BY <1>4 DEF HoldOver
<1>6. QED
  BY <1>3, <1>5
-----------------------------------------------------------------------------
(* The tokens of the recognizer *)

\* What was posted before a token is given out does not have it.
LEMMA TokenIsNew ==
  ASSUME KbTyped, TokensKnown, sessionToken' = sessionToken + 1
  PROVE  /\ \A p \in InQueue(looper) : ~CallOf(p, sessionToken')
         /\ \A p \in InQueue(looper) : p.what \in CallWhats => p.token <= sessionToken'
         /\ session.token # sessionToken' \/ session = NoSession
<1>1. /\ sessionToken \in Nat /\ InQueue(looper) \subseteq Posts /\ session.token \in Nat
  BY PostedIn DEF KbTyped, SystemTyped
<1>2. ASSUME NEW p \in InQueue(looper), p.what \in CallWhats
      PROVE  p.token # sessionToken' /\ p.token <= sessionToken'
  <2>1. p.token <= sessionToken /\ p.token \in Nat
    BY <1>1, <1>2 DEF TokensKnown, Posts
  <2>2. QED
    BY <1>1, <2>1
<1>3. session # NoSession => session.token # sessionToken'
  BY <1>1 DEF TokensKnown
<1>4. QED
  BY <1>2, <1>3 DEF CallOf

\* A call that is posted with a new token is the current one.
LEMMA CallIsNew ==
  ASSUME KbTyped, TokensKnown, sessionToken' = sessionToken + 1, UNCHANGED <<session, awaiting>>,
         NEW q \in Seq(Posts), InQueue(q) \subseteq InQueue(looper),
         NEW e \in Posts, e.what \in CallWhats, e.token = sessionToken + 1, looper' = Append(q, e),
         e.what = "start" => e.run = active' /\ ServiceRun'
  PROVE  /\ TokensKnown' /\ e \in InQueue(looper') /\ CallOf(e, sessionToken')
<1>1. sessionToken \in Nat /\ sessionToken' \in Nat /\ session.token \in Nat
  BY DEF KbTyped, SystemTyped
<1>2. /\ \A p \in InQueue(q) : ~CallOf(p, sessionToken')
      /\ \A p \in InQueue(q) : p.what \in CallWhats => p.token <= sessionToken'
      /\ session.token # sessionToken' \/ session = NoSession
  BY TokenIsNew
<1>3. InQueue(looper') = InQueue(q) \cup {e} /\ CallOf(e, sessionToken')
  BY PostedAppend DEF CallOf
<1>4. ~IsLive'
  BY <1>2 DEF IsLive
<1>5. OneCall(looper', sessionToken')
  <2>1. OneCall(q, sessionToken')
    BY <1>2 DEF OneCall, InQueue
  <2>2. QED
    BY <1>1, <1>2, <2>1, CallQueue
<1>6. \A p \in InQueue(looper') : p.what \in CallWhats => p.token <= sessionToken'
  BY <1>1, <1>2, <1>3
<1>7. \A p \in InQueue(looper') : CurrentCall(p)' => p = e
  BY <1>2, <1>3 DEF CurrentCall
<1>8. /\ session' # NoSession => session'.run # NoRun /\ session'.token <= sessionToken'
      /\ session' = NoSession => ~awaiting'
  BY <1>1 DEF TokensKnown
<1>9. session' # NoSession => \E p \in InQueue(looper') : CurrentCall(p)'
  BY <1>3 DEF CurrentCall
<1>10. TokensKnown'
  BY <1>4, <1>5, <1>6, <1>7, <1>8, <1>9 DEF TokensKnown
<1>11. QED
  BY <1>3, <1>10

\* The session that ends takes its token with it.
LEMMA SessionGone ==
  ASSUME KbTyped, TokensKnown, sessionToken' = sessionToken + 1, Destroyed,
         \A p \in InQueue(looper') : p \in InQueue(looper) \/ p.what \notin CallWhats
  PROVE  TokensKnown' /\ ~IsLive' /\ ~Starting'
<1>1. session' = NoSession /\ awaiting' = FALSE
  BY DEF Destroyed
<1>2. \A p \in InQueue(looper') : ~CallOf(p, sessionToken')
  BY TokenIsNew DEF CallOf
<1>3. \A p \in InQueue(looper') : p.what \in CallWhats => p.token <= sessionToken'
  BY TokenIsNew
<1>4. OneCall(looper', sessionToken')
  BY <1>2 DEF OneCall, InQueue
<1>5. ~IsLive' /\ ~Starting'
  BY <1>1, <1>2 DEF IsLive, Starting, CurrentCall
<1>6. TokensKnown'
  BY <1>1, <1>2, <1>3, <1>4, <1>5 DEF TokensKnown, CurrentCall
<1>7. QED
  BY <1>5, <1>6
-----------------------------------------------------------------------------
(* The beginning *)

LEMMA KbInitially == KeyboardInit => KbInv
<1> SUFFICES ASSUME KeyboardInit PROVE KbInv
  OBVIOUS
<1>1. /\ active = NoRun /\ pipeState = "IDLE" /\ currentId = NoRun
      /\ runs = [r \in RunIds |-> Fresh]
      /\ submitted = << >> /\ worker = Resting /\ attribution = BaseContext /\ clobbered = FALSE
  BY DEF KeyboardInit, VoiceInit
<1>2. looper = << >> /\ sessionToken = 0 /\ session = NoSession /\ awaiting = FALSE /\ watchdog = "off"
  BY DEF KeyboardInit, SystemInit
<1>3. /\ activeTarget = NoTarget /\ targets = [t \in Targets |-> NotTaken] /\ localIo = << >>
      /\ editor = [open |-> TRUE, sensitive |-> FALSE, epoch |-> 0, place |-> 0]
      /\ noticed = 0 /\ composing = NoTarget /\ finger = "up"
      /\ committed = {} /\ calledOff = {} /\ edits = 0
  BY DEF KeyboardInit
<1>4. 0 \in 0..MaxRuns /\ 0 \in 0..MaxEdits /\ MaxRuns \in Nat
  BY VoiceAssumption, KeyboardAssumption
<1>5. PipeTyped
  <2>1. Fresh \in Run /\ Resting \in Work
    BY <1>4 DEF Fresh, Run, EndStates, Resting, Work, WorkerPc, Said, NoRun, BaseContext
  <2>2. submitted \in Seq(Task) /\ runs \in [RunIds -> Run] /\ worker \in Work
    BY <1>1, <2>1
  <2>3. /\ active \in 0..MaxRuns /\ currentId \in 0..MaxRuns /\ attribution \in Int
        /\ pipeState \in PipeStates /\ clobbered \in BOOLEAN
    <3>1. /\ active = NoRun /\ pipeState = "IDLE" /\ currentId = NoRun
          /\ attribution = BaseContext /\ clobbered = FALSE
      BY <1>1
    <3>2. active \in 0..MaxRuns /\ currentId \in 0..MaxRuns /\ attribution \in Int
      BY <1>4, <3>1 DEF NoRun, BaseContext
    <3>3. pipeState \in PipeStates
      BY <3>1 DEF PipeStates
    <3>4. clobbered \in BOOLEAN
      BY <3>1
    <3>5. QED
      BY <3>2, <3>3, <3>4
  <2>4. QED
    BY <2>2, <2>3 DEF PipeTyped
<1>6. SystemTyped
  <2>1. looper \in Seq(Posts) /\ session \in [token : Nat, run : 0..MaxRuns]
    BY <1>2, <1>4 DEF NoSession, NoRun
  <2>2. QED
    BY <1>2, <2>1 DEF SystemTyped, Watchdogs
<1>7. FieldTyped
  <2>1. NotTaken \in Places
    BY DEF NotTaken, Places
  <2>2. QED
    BY <1>3, <1>4, <2>1 DEF FieldTyped, NoTarget
<1>8. InQueue(looper) = {} /\ InQueue(localIo) = {} /\ Taken = {}
  BY <1>2, <1>3 DEF InQueue, Taken
<1>9. TakenOnce
  BY <1>2, <1>3, <1>4, <1>8 DEF TakenOnce, PreparedFor, Distinct, PreparedOnce
<1>10. AfterStart
  BY <1>1, <1>2, <1>3, <1>8 DEF AfterStart, Resting, EndWhats, NoRun
<1>11. InsertedOver
  BY <1>3, <1>8 DEF InsertedOver
<1>12. ActiveIs
  BY <1>1 DEF ActiveIs, Fresh
<1>13. TokensKnown /\ ServiceHas
  BY <1>1, <1>2, <1>8 DEF TokensKnown, ServiceHas, IsLive, OneCall, BySystem
<1>14. StateKnown /\ HoldOver
  BY <1>1, <1>3 DEF StateKnown, HoldOver
<1>15. QED
  BY <1>5, <1>6, <1>7, <1>9, <1>10, <1>11, <1>12, <1>13, <1>14 DEF KbInv, KbTyped

-----------------------------------------------------------------------------
(* The posts for the listener of the pipeline *)

Insertion == [target |-> activeTarget, epoch |-> targets[activeTarget].epoch,
              place |-> targets[activeTarget].place]

\* A post is taken from the queue; the active target may end, when no run is in
\* the pipeline.
PostTaken ==
  /\ looper # << >> /\ looper' = Tail(looper)
  /\ Head(looper).what \in Prepares \cup EndWhats \cup {"partial"}
  /\ UNCHANGED << voiceVars, sessionToken, session, awaiting, watchdog, editor, noticed, edits,
                  targets, localIo, finger, calledOff >>
  /\ \/ /\ activeTarget' = activeTarget /\ committed' = committed
        /\ composing' = composing \/ (activeTarget \in Started /\ composing' = activeTarget)
     \/ /\ activeTarget # NoTarget /\ active = NoRun
        /\ activeTarget' = NoTarget /\ composing' = NoTarget
        /\ committed' \in {committed, committed \cup {Insertion}}

\* The first post is one of the queue.
LEMMA FirstPostIs ==
  ASSUME KbInv, looper # << >>
  PROVE  FirstPost \in InQueue(looper) /\ FirstPost \in Posts
  BY TailIs, PostedTail DEF KbInv, KbTyped, SystemTyped, FirstPost

LEMMA PostTakenIs ==
  ASSUME KbInv,
         PostIsStale \/ PrepareEnds \/ ShowsPartial \/ ResultArrives \/ ErrorArrives
  PROVE  PostTaken
<1> USE DEF KeepsEditor, KeepsGhosts, KeepsTargets
<1>1. CASE PostIsStale
  <2>1. /\ looper # << >> /\ Head(looper).what \in Prepares \cup EndWhats \cup {"partial"}
        /\ looper' = Tail(looper)
    BY <1>1 DEF PostIsStale, OnMain, PostDone, FirstPost, Prepares, EndWhats
  <2>2. QED
    BY <1>1, <2>1 DEF PostIsStale, PostTaken
<1>2. CASE PrepareEnds
  <2>1. looper # << >> /\ FirstPost.what \in Prepares /\ activeTarget = FirstPost.run
    BY <1>2 DEF PrepareEnds, IsForActive, OnMain, Prepares
  <2>2. PreparedFor(looper, activeTarget)
    BY <2>1, FirstPostIs DEF PreparedFor
  <2>3. activeTarget # NoTarget /\ activeTarget \notin Started
    <3>1. activeTarget \in 0..MaxRuns
      BY DEF KbInv, KbTyped, FieldTyped
    <3>2. activeTarget \in Taken
      BY <2>2, <3>1 DEF KbInv, TakenOnce
    <3>3. QED
      BY <2>2, <3>2 DEF Taken, Targets, RunIds, NoTarget, Started
  <2>4. active = NoRun /\ composing = NoTarget
    BY <2>3 DEF KbInv, ActiveIs, AfterStart, InsertedOver
  <2>5. /\ Head(looper).what \in Prepares \cup EndWhats \cup {"partial"}
        /\ looper' = Tail(looper) /\ activeTarget' = NoTarget
    BY <1>2, <2>1 DEF PrepareEnds, PostDone, FirstPost
  <2>6. QED
    BY <1>2, <2>1, <2>3, <2>4, <2>5 DEF PrepareEnds, PostTaken
<1>3. CASE ShowsPartial
  <2>1. looper # << >> /\ FirstPost.what = "partial" /\ activeTarget = FirstPost.run
    BY <1>3 DEF ShowsPartial, IsForActive, OnMain
  <2>2. activeTarget \in Started
    BY <2>1, FirstPostIs DEF KbInv, AfterStart
  <2>3. /\ Head(looper).what \in Prepares \cup EndWhats \cup {"partial"}
        /\ looper' = Tail(looper) /\ composing' \in {composing, activeTarget}
    BY <1>3, <2>1 DEF ShowsPartial, PostDone, FirstPost
  <2>4. QED
    BY <1>3, <2>1, <2>2, <2>3 DEF ShowsPartial, PostTaken
<1>4. ASSUME looper # << >>, FirstPost.what \in EndWhats, activeTarget = FirstPost.run
      PROVE  /\ activeTarget # NoTarget /\ active = NoRun
             /\ CompositionCleared(activeTarget) => composing' = NoTarget
  <2>1. activeTarget \in Started /\ activeTarget # active
    BY <1>4, FirstPostIs DEF KbInv, AfterStart
  <2>2. activeTarget # NoTarget
    BY <2>1 DEF Started, Taken, Targets, RunIds, NoTarget
  <2>3. active = NoRun
    BY <2>1 DEF KbInv, ActiveIs
  <2>4. composing \in {activeTarget, NoTarget}
    BY DEF KbInv, InsertedOver
  <2>5. QED
    BY <2>2, <2>3, <2>4 DEF CompositionCleared
<1>5. CASE ResultArrives
  <2>1. /\ looper # << >> /\ FirstPost.what = "result" /\ activeTarget = FirstPost.run
        /\ CompositionCleared(activeTarget)
    BY <1>5 DEF ResultArrives, IsForActive, OnMain
  <2>2. committed' \in {committed, committed \cup {Insertion}}
    BY <1>5 DEF ResultArrives, StillValid, Insertion
  <2>3. activeTarget # NoTarget /\ active = NoRun /\ composing' = NoTarget
    BY <1>4, <2>1 DEF EndWhats
  <2>4. /\ Head(looper).what \in Prepares \cup EndWhats \cup {"partial"}
        /\ looper' = Tail(looper) /\ activeTarget' = NoTarget
    BY <1>5, <2>1 DEF ResultArrives, PostDone, FirstPost, EndWhats
  <2>5. QED
    BY <1>5, <2>1, <2>2, <2>3, <2>4 DEF ResultArrives, PostTaken
<1>6. CASE ErrorArrives
  <2>1. /\ looper # << >> /\ FirstPost.what = "error" /\ activeTarget = FirstPost.run
        /\ CompositionCleared(activeTarget)
    BY <1>6 DEF ErrorArrives, IsForActive, OnMain
  <2>2. activeTarget # NoTarget /\ active = NoRun /\ composing' = NoTarget
    BY <1>4, <2>1 DEF EndWhats
  <2>3. /\ Head(looper).what \in Prepares \cup EndWhats \cup {"partial"}
        /\ looper' = Tail(looper) /\ activeTarget' = NoTarget
    BY <1>6, <2>1 DEF ErrorArrives, PostDone, FirstPost, EndWhats
  <2>4. QED
    BY <1>6, <2>1, <2>2, <2>3 DEF ErrorArrives, PostTaken
<1>7. QED
  BY <1>1, <1>2, <1>3, <1>5, <1>6

LEMMA PostTakenStep ==
  ASSUME KbInv, PostTaken
  PROVE  KbInv'
<1>1. /\ looper # << >> /\ looper' = Tail(looper)
      /\ Head(looper).what \in Prepares \cup EndWhats \cup {"partial"}
      /\ UNCHANGED voiceVars
      /\ UNCHANGED << sessionToken, session, awaiting, watchdog, editor, noticed, edits,
                      targets, localIo, finger, calledOff >>
      /\ activeTarget' \in {activeTarget, NoTarget}
  BY DEF PostTaken
<1>2. UNCHANGED <<active, pipeState, currentId, runs, submitted, worker, attribution, clobbered>>
  BY <1>1 DEF voiceVars
<1>3. KbTyped /\ TakenOnce /\ NoCallMoves /\ Moved /\ Head(looper).what # "stop"
  <2>1. Head(looper).what \notin CallWhats /\ Head(looper).what # "stop"
    BY <1>1 DEF CallWhats, Prepares, EndWhats
  <2>2. QED
    BY <1>1, <2>1 DEF KbInv, NoCallMoves, Moved, Freed
<1>4. TakenOnce' /\ Taken' = Taken /\ Started \subseteq Started' /\ looper' \in Seq(Posts)
  BY <1>1, <1>3, TargetsStay, MovedIs DEF KeepsTargets, TakenOnce
<1>5. InQueue(looper') \subseteq InQueue(looper)
  BY <1>1, PostedTail DEF KbInv, KbTyped, SystemTyped
<1>6. NoTarget \notin Taken /\ activeTarget \in 0..MaxRuns /\ NoTarget \in 0..MaxRuns /\ Taken \subseteq Targets
  BY VoiceAssumption DEF Taken, Targets, RunIds, NoTarget, KbInv, KbTyped, FieldTyped
<1>7. \/ activeTarget' = activeTarget /\ committed' = committed
         /\ (composing' = composing \/ (activeTarget \in Started /\ composing' = activeTarget))
      \/ /\ activeTarget # NoTarget /\ active = NoRun
         /\ activeTarget' = NoTarget /\ composing' = NoTarget
         /\ committed' \in {committed, committed \cup {Insertion}}
  BY DEF PostTaken
<1>8. activeTarget # NoTarget => activeTarget \in Taken
  BY DEF KbInv, TakenOnce
<1>9. KbTyped'
  <2>1. PipeTyped'
    BY <1>2 DEF KbInv, KbTyped, PipeTyped
  <2>2. SystemTyped'
    BY <1>1, <1>4 DEF KbInv, KbTyped, SystemTyped
  <2>3. activeTarget # NoTarget => Insertion \in [target : Targets, epoch : Int, place : Int]
    <3>1. ASSUME activeTarget # NoTarget PROVE targets[activeTarget] \in Places /\ activeTarget \in Targets
      BY <1>6, <1>8, <3>1 DEF KbInv, KbTyped, FieldTyped
    <3>2. QED
      BY <3>1 DEF Places, Insertion
  <2>4. committed' \subseteq [target : Targets, epoch : Int, place : Int]
    BY <1>7, <2>3 DEF KbInv, KbTyped, FieldTyped
  <2>5. composing' \in 0..MaxRuns /\ activeTarget' \in 0..MaxRuns
    BY <1>1, <1>6, <1>7 DEF KbInv, KbTyped, FieldTyped
  <2>6. FieldTyped'
    BY <1>1, <2>4, <2>5 DEF KbInv, KbTyped, FieldTyped
  <2>7. QED
    BY <2>1, <2>2, <2>6 DEF KbTyped
<1>10. AfterStart'
  <2>1. CASE composing' \in {composing, NoTarget}
    BY <1>2, <1>4, <1>5, <2>1, RunsStay DEF KbInv
  <2>2. CASE activeTarget \in Started /\ composing' = activeTarget
    BY <1>2, <1>4, <1>5, <2>2 DEF KbInv, AfterStart
  <2>3. QED
    BY <1>7, <2>1, <2>2
<1>11. InsertedOver'
  <2>1. CASE committed' = committed
    BY <1>1, <1>4, <1>7, <2>1, InsertedStays DEF KbInv
  <2>2. CASE committed' # committed
    <3>1. /\ activeTarget # NoTarget /\ activeTarget' = NoTarget /\ composing' = NoTarget
          /\ committed' = committed \cup {Insertion}
      BY <1>7, <2>2
    <3>2. InsertedOver
      BY DEF KbInv
    <3>3. ASSUME NEW c \in committed'
          PROVE  /\ c.target \in Taken /\ c.epoch = targets[c.target].epoch
                 /\ c.place = targets[c.target].place /\ c.target \notin calledOff
      <4>1. CASE c \in committed
        BY <3>2, <4>1 DEF InsertedOver
      <4>2. CASE c = Insertion
        BY <1>8, <3>1, <3>2, <4>2 DEF InsertedOver, Insertion
      <4>3. QED
        BY <3>1, <3>3, <4>1, <4>2
    <3>4. QED
      BY <1>1, <1>4, <1>6, <3>1, <3>2, <3>3 DEF InsertedOver
  <2>3. QED
    BY <2>1, <2>2
<1>12. ActiveIs'
  BY <1>2, <1>4, <1>7, ActiveStays DEF KbInv
<1>13. TokensKnown' /\ ServiceHas'
  <2>1. (ServiceRun => ServiceRun' /\ active' = active) /\ (BySystem' <=> BySystem)
    BY <1>2 DEF ServiceRun, BySystem, AtWork
  <2>2. QED
    BY <1>1, <1>2, <1>3, <2>1, SystemStays DEF KbInv
<1>14. StateKnown' /\ HoldOver'
  <2>1. StopComes => StopComes'
    BY <1>1, <1>3, StopStays
  <2>2. QED
    BY <1>1, <1>2, <1>3, <1>4, <2>1, PipeStays DEF KbInv
<1>15. QED
  BY <1>4, <1>9, <1>10, <1>11, <1>12, <1>13, <1>14 DEF KbInv
-----------------------------------------------------------------------------
(* The user and the editor *)

\* The editor, or a key that is pressed.
EditorStep ==
  /\ UNCHANGED << voiceVars, systemVars, activeTarget, targets, localIo, composing, committed,
                  calledOff >>
  /\ finger' \in {finger, "held"} /\ noticed' \in 0..1 /\ edits' \in 0..MaxEdits
  /\ editor' \in [open : BOOLEAN, sensitive : BOOLEAN, epoch : 0..MaxEdits, place : 0..1]
  /\ editor'.epoch <= edits'

LEMMA EditorKeeps ==
  ASSUME KbInv, EditorStep
  PROVE  KbInv'
<1>1. /\ UNCHANGED <<active, pipeState, currentId, runs, submitted, worker, attribution, clobbered>>
      /\ UNCHANGED <<looper, sessionToken, session, awaiting, watchdog>>
      /\ UNCHANGED <<activeTarget, targets, localIo, composing, committed, calledOff>>
  BY DEF EditorStep, voiceVars, systemVars
<1>2. KbTyped /\ TakenOnce /\ NoCallMoves /\ Moved
  BY <1>1 DEF KbInv, NoCallMoves, Moved, Freed
<1>3. KbTyped'
  <2>1. PipeTyped' /\ SystemTyped'
    BY <1>1 DEF KbInv, KbTyped, PipeTyped, SystemTyped
  <2>2. finger' \in {"up", "held"}
    BY DEF EditorStep, KbInv, KbTyped, FieldTyped
  <2>3. FieldTyped'
    BY <1>1, <2>2 DEF KbInv, KbTyped, FieldTyped, EditorStep
  <2>4. QED
    BY <2>1, <2>3 DEF KbTyped
<1>4. TakenOnce' /\ Taken' = Taken /\ Started \subseteq Started'
  BY <1>1, <1>2, TargetsStay DEF KeepsTargets
<1>5. AfterStart'
  BY <1>1, <1>4, RunsStay DEF KbInv
<1>6. InsertedOver'
  BY <1>1, <1>4, InsertedStays DEF KbInv
<1>7. ActiveIs'
  BY <1>1, <1>4, ActiveStays DEF KbInv
<1>8. TokensKnown' /\ ServiceHas'
  <2>1. (ServiceRun => ServiceRun' /\ active' = active) /\ (BySystem' <=> BySystem)
    BY <1>1 DEF ServiceRun, BySystem, AtWork
  <2>2. QED
    BY <1>1, <1>2, <2>1, SystemStays DEF KbInv
<1>9. StateKnown' /\ HoldOver'
  <2>1. StopComes => StopComes'
    BY <1>1 DEF StopComes, IsLive, StopPosted
  <2>2. QED
    BY <1>1, <1>2, <1>4, <2>1, PipeStays DEF KbInv, EditorStep
<1>10. QED
  BY <1>3, <1>4, <1>5, <1>6, <1>7, <1>8, <1>9 DEF KbInv

\* stopRecording(), of a tap or of the end of a hold, and an end that finds
\* nothing to stop but a run that is past it.
KeyStops ==
  /\ \/ StopsRecording /\ pipeState = "RECORDING"
     \/ /\ UNCHANGED << voiceVars, systemVars >>
        /\ pipeState # "RECORDING" /\ (activeTarget # NoTarget => pipeState # "IDLE")
  /\ UNCHANGED << activeTarget, targets, localIo, composing, committed, calledOff, editor,
                  noticed, edits >>
  /\ finger' \in {"up", "held"}

StopPost == OnSystem("stop", 0, NoRun)

LEMMA StopsIs ==
  ASSUME KbInv, KeyStops
  PROVE  /\ UNCHANGED <<active, pipeState, currentId, submitted, worker, attribution, clobbered>>
         /\ UNCHANGED <<sessionToken, session, awaiting, watchdog>>
         /\ \/ looper' = looper
            \/ looper' = Append(looper, StopPost) /\ BySystem /\ runs' = runs
         /\ \/ runs' = runs
            \/ /\ active # NoRun /\ runs[active].session # "none"
               /\ runs' = [runs EXCEPT ![active].session = Stopped(@)]
         /\ pipeState # "RECORDING" => runs' = runs /\ (activeTarget # NoTarget => pipeState # "IDLE")
         /\ pipeState = "RECORDING" /\ BySystem => looper' = Append(looper, StopPost)
         /\ pipeState = "RECORDING" /\ active # NoRun /\ ~BySystem =>
              runs' = [runs EXCEPT ![active].session = Stopped(@)]
<1>1. CASE StopsRecording /\ pipeState = "RECORDING"
  <2>1. UNCHANGED <<active, pipeState, currentId, submitted, worker, attribution, clobbered>>
    BY <1>1 DEF StopsRecording
  <2>2. CASE active = NoRun
    BY <1>1, <2>1, <2>2 DEF StopsRecording, CanStop, systemVars, BySystem
  <2>3. CASE active # NoRun /\ runs[active].session # "none"
    BY <1>1, <2>1, <2>3 DEF StopsRecording, CanStop, StopsCapture, systemVars, BySystem
  <2>4. CASE active # NoRun /\ runs[active].session = "none"
    BY <1>1, <2>1, <2>4 DEF StopsRecording, CanStop, SystemStops, Post, KeepsSession, StopPost, BySystem
  <2>5. QED
    BY <2>2, <2>3, <2>4
<1>2. CASE /\ UNCHANGED << voiceVars, systemVars >>
           /\ pipeState # "RECORDING" /\ (activeTarget # NoTarget => pipeState # "IDLE")
  BY <1>2 DEF voiceVars, systemVars
<1>3. QED
  BY <1>1, <1>2 DEF KeyStops

LEMMA KeyStopsStep ==
  ASSUME KbInv, KeyStops
  PROVE  KbInv'
<1>1. /\ UNCHANGED <<active, pipeState, currentId, submitted, worker, attribution, clobbered>>
      /\ UNCHANGED <<sessionToken, session, awaiting, watchdog>>
      /\ UNCHANGED <<activeTarget, targets, localIo, composing, committed, calledOff, editor,
                     noticed, edits>>
  BY StopsIs DEF KeyStops
<1> DEFINE stopped == [runs EXCEPT ![active].session = Stopped(@)]
<1>2. looper' = looper \/ (looper' = Append(looper, StopPost) /\ BySystem /\ runs' = runs)
  BY StopsIs
<1>3. runs' = runs \/ (active # NoRun /\ runs[active].session # "none" /\ runs' = stopped)
  BY StopsIs
<1>4. StopPost \in Posts /\ StopPost.what = "stop"
  BY VoiceAssumption DEF StopPost, OnSystem, Posts, Whats, NoRun
<1>5. KbTyped /\ TakenOnce /\ NoCallMoves /\ Moved
  <2>1. "stop" \notin Prepares /\ "stop" \notin CallWhats
    BY DEF Prepares, CallWhats
  <2>2. looper \in Seq(Posts)
    BY DEF KbInv, KbTyped, SystemTyped
  <2>3. QED
    BY <1>2, <1>4, <2>1, <2>2 DEF KbInv, NoCallMoves, Moved, Freed
<1>6. /\ active \in 0..MaxRuns /\ runs \in [RunIds -> Run] /\ looper \in Seq(Posts)
      /\ looper' \in Seq(Posts)
  BY <1>5, MovedIs DEF KbInv, KbTyped, PipeTyped, SystemTyped, TakenOnce
<1>7. active # NoRun => active \in RunIds
  BY <1>6 DEF RunIds, NoRun
<1>8. /\ runs' \in [RunIds -> Run]
      /\ \A r \in RunIds : /\ runs'[r].cancelled = runs[r].cancelled
                           /\ runs'[r].fellBack = runs[r].fellBack
                           /\ runs'[r].session = "CANCELLED" => runs[r].session = "CANCELLED"
                           /\ runs'[r].session = "none" <=> runs[r].session = "none"
                           /\ runs[r].session = "none" => runs'[r] = runs[r]
                           /\ runs[r].session = "STOPPED" => runs'[r].session = "STOPPED"
  <2>1. CASE runs' = runs
    BY <1>6, <2>1
  <2>2. CASE active # NoRun /\ runs[active].session # "none" /\ runs' = stopped
    <3>1. active \in RunIds /\ runs[active] \in Run
      BY <1>6, <1>7, <2>2
    <3>2. stopped[active] = [runs[active] EXCEPT !.session = Stopped(@)]
      BY <1>6, <3>1
    <3>3. Stopped(runs[active].session) \in {runs[active].session, "STOPPED"} \ {"none"}
      BY <2>2 DEF Stopped
    <3>4. /\ stopped[active] \in Run /\ stopped[active].cancelled = runs[active].cancelled
          /\ stopped[active].fellBack = runs[active].fellBack
          /\ stopped[active].session \in {runs[active].session, "STOPPED"} \ {"none"}
      BY <3>1, <3>2, <3>3 DEF Run, EndStates
    <3>5. stopped \in [RunIds -> Run] /\ \A r \in RunIds : r # active => stopped[r] = runs[r]
      BY <1>6, <3>1, <3>4
    <3>6. QED
      BY <1>6, <2>2, <3>1, <3>4, <3>5
  <2>3. QED
    BY <1>3, <2>1, <2>2
<1>9. TakenOnce' /\ Taken' = Taken /\ Started \subseteq Started'
  BY <1>1, <1>5, TargetsStay DEF KeepsTargets
<1>10. KbTyped'
  <2>1. PipeTyped'
    BY <1>1, <1>8 DEF KbInv, KbTyped, PipeTyped
  <2>2. SystemTyped'
    BY <1>1, <1>6 DEF KbInv, KbTyped, SystemTyped
  <2>3. FieldTyped'
    BY <1>1 DEF KbInv, KbTyped, FieldTyped, KeyStops
  <2>4. QED
    BY <2>1, <2>2, <2>3 DEF KbTyped
<1>11. InQueue(looper') \subseteq InQueue(looper) \cup {StopPost}
  BY <1>2, <1>4, <1>6, PostedAppend
<1>12. AfterStart'
  <2>1. "stop" \notin {"partial"} \cup EndWhats
    BY DEF EndWhats
  <2>2. QED
    BY <1>1, <1>4, <1>9, <1>11, <2>1, RunsStay DEF KbInv
<1>13. InsertedOver'
  BY <1>1, <1>9, InsertedStays DEF KbInv
<1>14. ActiveIs'
  <2>1. ActiveIs
    BY DEF KbInv
  <2>2. active # NoRun => activeTarget' = active' /\ currentId' = active' /\ ~runs'[active'].cancelled
    BY <1>1, <1>7, <1>8, <2>1 DEF ActiveIs
  <2>3. \A r \in RunIds : runs'[r].session = "CANCELLED" => runs'[r].cancelled
    BY <1>8, <2>1 DEF ActiveIs
  <2>4. \A r \in RunIds : r \notin Started' => runs'[r] = Fresh
    <3>1. Fresh.session = "none"
      BY DEF Fresh
    <3>2. QED
      BY <1>8, <1>9, <2>1, <3>1 DEF ActiveIs
  <2>5. QED
    BY <1>1, <2>2, <2>3, <2>4 DEF ActiveIs
<1>15. (BySystem' <=> BySystem) /\ (ServiceRun => ServiceRun')
  BY <1>1, <1>7, <1>8 DEF ServiceRun, BySystem, AtWork
<1>16. TokensKnown' /\ ServiceHas'
  BY <1>1, <1>5, <1>15, SystemStays DEF KbInv
<1>17. StateKnown'
  BY <1>1, <1>7, <1>8, <1>9 DEF KbInv, StateKnown, TooLate
<1>18. ASSUME ~clobbered, active # NoRun, ~runs[active].fellBack
       PROVE  IF runs'[active].session = "none" THEN pipeState # "RECORDING" \/ StopComes'
              ELSE runs'[active].session = "STOPPED" \/ (worker.run = active /\ worker.pc \in Past)
  <2>1. CASE pipeState # "RECORDING"
    <3>1. runs[active].session # "none" => worker.run = active /\ worker.pc \in Later
      BY <1>18, <2>1 DEF KbInv, StateKnown, TooLate
    <3>2. QED
      BY <1>7, <1>8, <1>18, <2>1, <3>1 DEF Past
  <2>2. CASE pipeState = "RECORDING" /\ BySystem
    <3>1. looper' = Append(looper, StopPost)
      BY <2>2, StopsIs
    <3>2. IsLive \/ Starting
      BY <2>2 DEF KbInv, ServiceHas
    <3>3. sessionToken \in Nat
      BY DEF KbInv, KbTyped, SystemTyped
    <3>4. ASSUME IsLive PROVE StopComes'
      <4>1. StopPost \in InQueue(looper')
        BY <1>4, <1>6, <3>1, PostedAppend
      <4>2. IsLive' /\ StopPosted'
        BY <1>1, <1>4, <3>4, <4>1 DEF IsLive, StopPosted
      <4>3. QED
        BY <4>2 DEF StopComes
    <3>5. ASSUME Starting PROVE StopComes'
      <4>1. \E p \in InQueue(looper) : p.what = "start" /\ p.token = sessionToken
        BY <3>5 DEF Starting, CurrentCall, CallOf
      <4>2. StopAfter(Append(looper, StopPost), sessionToken)
        BY <1>4, <1>6, <3>3, <4>1, StopQueue
      <4>3. QED
        BY <1>1, <3>1, <4>2 DEF StopComes
    <3>6. runs'[active].session = "none"
      BY <1>7, <1>8, <1>18, <2>2 DEF BySystem
    <3>7. QED
      BY <3>2, <3>4, <3>5, <3>6 DEF StopComes
  <2>3. CASE pipeState = "RECORDING" /\ ~BySystem
    <3>1. runs' = stopped
      BY <1>18, <2>3, StopsIs
    <3>2. runs[active].session \in {"ACTIVE", "STOPPED"}
      <4>1. runs[active].session \in EndStates
        BY <1>6, <1>7, <1>18 DEF Run
      <4>2. runs[active].session # "CANCELLED" /\ runs[active].session # "none"
        BY <1>7, <1>18, <2>3 DEF KbInv, ActiveIs, BySystem
      <4>3. QED
        BY <4>1, <4>2 DEF EndStates
    <3>3. runs'[active].session = "STOPPED"
      <4>1. runs'[active] = [runs[active] EXCEPT !.session = Stopped(@)]
        BY <1>6, <1>7, <1>18, <3>1
      <4>2. runs[active] \in Run
        BY <1>6, <1>7, <1>18
      <4>3. QED
        BY <3>2, <4>1, <4>2 DEF Stopped, Run
    <3>4. QED
      BY <3>3
  <2>4. QED
    BY <2>1, <2>2, <2>3
<1>19. HoldOver'
  <2>1. ASSUME activeTarget # NoTarget, ~clobbered PROVE activeTarget \in Started
    <3>1. pipeState # "IDLE"
      BY <2>1, StopsIs
    <3>2. QED
      BY <2>1, <3>1 DEF KbInv, StateKnown
  <2>2. ~clobbered => IsStopped'
    BY <1>1, <1>7, <1>8, <1>18 DEF IsStopped
  <2>3. QED
    BY <1>1, <1>9, <2>1, <2>2 DEF HoldOver
<1>20. QED
  BY <1>9, <1>10, <1>12, <1>13, <1>14, <1>16, <1>17, <1>19 DEF KbInv
-----------------------------------------------------------------------------
(* A dictation that is cancelled *)

CancelPost == OnSystem("cancel", sessionToken + 1, NoRun)
CancelledRuns ==
  [runs EXCEPT ![active].cancelled = TRUE,
               ![active].session = IF @ = "none" THEN @ ELSE "CANCELLED"]

\* The queue as a cancel finds it.
AsItIs(q) == q = looper \/ (looper # << >> /\ Head(looper).what = "partial" /\ q = Tail(looper))

Cancelled ==
  /\ active' = NoRun /\ currentId' = NoRun /\ pipeState' = "IDLE"
  /\ UNCHANGED <<submitted, worker, attribution, clobbered, session, awaiting, watchdog,
                 committed, targets, localIo>>
  /\ \/ active = NoRun /\ runs' = runs /\ AsItIs(looper') /\ sessionToken' = sessionToken
     \/ /\ active # NoRun /\ runs' = CancelledRuns /\ sessionToken' = sessionToken + 1
        /\ \E q \in Seq(Posts) : AsItIs(q) /\ looper' = Append(q, CancelPost)
  /\ activeTarget' = NoTarget /\ composing' = NoTarget
  /\ \/ calledOff' = calledOff
     \/ activeTarget # NoTarget /\ calledOff' = calledOff \cup {activeTarget}

FieldKept ==
  /\ finger' \in {"up", "held"} /\ noticed' \in 0..1 /\ edits' \in 0..MaxEdits
  /\ editor' \in [open : BOOLEAN, sensitive : BOOLEAN, epoch : 0..MaxEdits, place : 0..1]
  /\ editor'.epoch <= edits'

LEMMA CancelsIs ==
  ASSUME KbInv, CancelsDictation
  PROVE  Cancelled
<1>1. looper \in Seq(Posts)
  BY DEF KbInv, KbTyped, SystemTyped
<1>2. composing' = NoTarget
  BY DEF CancelsDictation, CompositionCleared, KbInv, InsertedOver
<1>3. /\ CancelsRun /\ KeepsSession /\ UNCHANGED <<submitted, worker, attribution, clobbered>>
      /\ active = NoRun => UNCHANGED <<looper, sessionToken>>
      /\ active # NoRun => SystemCancels
  BY DEF CancelsDictation, CancelsPipeline
<1>4. /\ activeTarget' = NoTarget /\ UNCHANGED <<committed, targets, localIo>>
      /\ \/ calledOff' = calledOff
         \/ activeTarget # NoTarget /\ calledOff' = calledOff \cup {activeTarget}
  BY DEF CancelsDictation
<1>5. CASE active = NoRun
  BY <1>2, <1>3, <1>4, <1>5 DEF CancelsRun, KeepsSession, Cancelled, AsItIs
<1>6. CASE active # NoRun
  <2>1. /\ active' = NoRun /\ currentId' = NoRun /\ pipeState' = "IDLE" /\ runs' = CancelledRuns
    BY <1>3, <1>6 DEF CancelsRun, CancelledRuns
  <2>2. sessionToken' = sessionToken + 1 /\ AsItIs(looper) /\ looper' = Append(looper, CancelPost)
    BY <1>3, <1>6 DEF SystemCancels, Post, CancelPost, AsItIs
  <2>3. QED
    BY <1>1, <1>2, <1>3, <1>4, <1>6, <2>1, <2>2 DEF Cancelled, KeepsSession
<1>7. QED
  BY <1>5, <1>6

LEMMA PartialFindsIs ==
  ASSUME KbInv, PartialFindsOther
  PROVE  Cancelled
<1>1. /\ looper # << >> /\ Head(looper).what = "partial" /\ activeTarget = FirstPost.run
      /\ FirstPost = Head(looper)
  BY DEF PartialFindsOther, OnMain, FirstPost, IsForActive
<1>2. AsItIs(Tail(looper)) /\ Tail(looper) \in Seq(Posts)
  BY <1>1, TailIs DEF KbInv, KbTyped, SystemTyped, AsItIs
<1>3. activeTarget # NoTarget
  <2>1. activeTarget \in Started
    BY <1>1, FirstPostIs DEF KbInv, AfterStart
  <2>2. QED
    BY <2>1 DEF Started, Taken, Targets, RunIds, NoTarget
<1>4. composing' = NoTarget
  BY DEF PartialFindsOther, CompositionCleared, KbInv, InsertedOver
<1>5. /\ CancelsRun /\ UNCHANGED <<submitted, worker, attribution, clobbered>>
      /\ UNCHANGED <<session, awaiting, watchdog, committed, targets, localIo>>
      /\ activeTarget' = NoTarget /\ calledOff' = calledOff \cup {activeTarget}
  BY DEF PartialFindsOther, KeepsSession, KeepsTargets
<1>6. CASE active = NoRun
  <2>1. looper' = Tail(looper) /\ sessionToken' = sessionToken
    BY <1>6 DEF PartialFindsOther, PostDone
  <2>2. QED
    BY <1>2, <1>3, <1>4, <1>5, <1>6, <2>1 DEF Cancelled, CancelsRun
<1>7. CASE active # NoRun
  <2>1. sessionToken' = sessionToken + 1 /\ looper' = Append(Tail(looper), CancelPost)
    BY <1>7 DEF PartialFindsOther, CancelPost
  <2>2. active' = NoRun /\ currentId' = NoRun /\ pipeState' = "IDLE" /\ runs' = CancelledRuns
    BY <1>5, <1>7 DEF CancelsRun, CancelledRuns
  <2>3. QED
    BY <1>2, <1>3, <1>4, <1>5, <1>7, <2>1, <2>2 DEF Cancelled
<1>8. QED
  BY <1>6, <1>7

LEMMA CancelledStep ==
  ASSUME KbInv, Cancelled, FieldKept
  PROVE  KbInv'
<1>1. /\ active' = NoRun /\ currentId' = NoRun /\ pipeState' = "IDLE"
      /\ UNCHANGED <<submitted, worker, attribution, clobbered, session, awaiting, watchdog,
                     committed, targets, localIo>>
      /\ activeTarget' = NoTarget /\ composing' = NoTarget
      /\ \/ calledOff' = calledOff
         \/ activeTarget # NoTarget /\ calledOff' = calledOff \cup {activeTarget}
  BY DEF Cancelled
<1>2. \/ active = NoRun /\ runs' = runs /\ AsItIs(looper') /\ sessionToken' = sessionToken
      \/ /\ active # NoRun /\ runs' = CancelledRuns /\ sessionToken' = sessionToken + 1
         /\ \E q \in Seq(Posts) : AsItIs(q) /\ looper' = Append(q, CancelPost)
  BY DEF Cancelled
<1>3. /\ KbTyped /\ TakenOnce /\ looper \in Seq(Posts) /\ sessionToken \in Nat
      /\ active \in 0..MaxRuns /\ runs \in [RunIds -> Run] /\ 0 \in 0..MaxRuns
  BY VoiceAssumption DEF KbInv, KbTyped, SystemTyped, PipeTyped
<1>4. CancelPost \in Posts /\ CancelPost.what = "cancel" /\ CancelPost.token = sessionToken + 1
  BY <1>3 DEF CancelPost, OnSystem, Posts, Whats, CallWhats, NoRun
<1>5. "cancel" \notin Prepares /\ "cancel" \in CallWhats /\ "partial" \notin CallWhats /\ "cancel" \notin EndWhats
  BY DEF Prepares, CallWhats, EndWhats
<1>6. Moved
  BY <1>2, <1>4, <1>5 DEF Moved, AsItIs, Freed
<1>7. TakenOnce' /\ Taken' = Taken /\ Started \subseteq Started' /\ looper' \in Seq(Posts)
  BY <1>1, <1>3, <1>6, TargetsStay, MovedIs DEF KeepsTargets, TakenOnce
<1>8. ASSUME NEW q, AsItIs(q)
      PROVE  q \in Seq(Posts) /\ InQueue(q) \subseteq InQueue(looper) /\ InQueue(q) \subseteq Posts
  BY <1>3, <1>8, TailIs, PostedTail, PostedIn DEF AsItIs
<1>9. InQueue(looper') \subseteq InQueue(looper) \cup {CancelPost}
  <2>1. CASE AsItIs(looper')
    BY <1>8, <2>1
  <2>2. ASSUME NEW q \in Seq(Posts), AsItIs(q), looper' = Append(q, CancelPost)
        PROVE  InQueue(looper') \subseteq InQueue(looper) \cup {CancelPost}
    <3>1. InQueue(looper') = InQueue(q) \cup {CancelPost}
      BY <1>4, <2>2, PostedAppend
    <3>2. QED
      BY <1>8, <2>2, <3>1
  <2>3. QED
    BY <1>2, <2>1, <2>2
<1>10. active # NoRun => active \in RunIds
  BY <1>3 DEF RunIds, NoRun
<1>11. /\ runs' \in [RunIds -> Run]
       /\ \A r \in RunIds : runs'[r] = runs[r] \/ (r = active /\ runs'[r].cancelled)
  <2>1. CASE runs' = runs
    BY <1>3, <2>1
  <2>2. CASE active # NoRun /\ runs' = CancelledRuns
    <3>1. active \in RunIds /\ runs[active] \in Run
      BY <1>3, <1>10, <2>2
    <3>2. CancelledRuns[active] =
            [runs[active] EXCEPT !.cancelled = TRUE, !.session = IF @ = "none" THEN @ ELSE "CANCELLED"]
      BY <1>3, <3>1 DEF CancelledRuns
    <3>3. CancelledRuns[active] \in Run /\ CancelledRuns[active].cancelled
      BY <3>1, <3>2 DEF Run, EndStates
    <3>4. \A r \in RunIds : r # active => CancelledRuns[r] = runs[r]
      BY <1>3 DEF CancelledRuns
    <3>5. CancelledRuns \in [RunIds -> Run]
      BY <1>3, <3>1, <3>3, <3>4 DEF CancelledRuns
    <3>6. QED
      BY <2>2, <3>3, <3>4, <3>5
  <2>3. QED
    BY <1>2, <2>1, <2>2
<1>12. KbTyped'
  <2>1. PipeTyped'
    BY <1>1, <1>3, <1>11 DEF KbTyped, PipeTyped, NoRun, PipeStates
  <2>2. sessionToken' \in Nat
    BY <1>2, <1>3
  <2>3. SystemTyped'
    BY <1>1, <1>3, <1>7, <2>2 DEF KbTyped, SystemTyped
  <2>4. calledOff' \subseteq Targets
    <3>1. calledOff \subseteq Targets /\ activeTarget \in 0..MaxRuns
      BY <1>3 DEF KbTyped, FieldTyped
    <3>2. activeTarget # NoTarget => activeTarget \in Targets
      BY <3>1 DEF Targets, RunIds, NoTarget
    <3>3. QED
      BY <1>1, <3>1, <3>2
  <2>5. FieldTyped'
    BY <1>1, <1>3, <2>4 DEF KbTyped, FieldTyped, FieldKept, NoTarget
  <2>6. QED
    BY <2>1, <2>3, <2>5 DEF KbTyped
<1>13. AfterStart'
  <2>1. "cancel" \notin {"partial"} \cup EndWhats
    BY <1>5
  <2>2. QED
    BY <1>1, <1>4, <1>7, <1>9, <2>1, RunsStay DEF KbInv
<1>14. InsertedOver'
  <2>1. InsertedOver /\ NoTarget \notin Taken /\ (activeTarget # NoTarget => activeTarget \in Taken)
    BY <1>3 DEF KbInv, TakenOnce, Taken, Targets, RunIds, NoTarget
  <2>2. QED
    BY <1>1, <1>7, <2>1 DEF InsertedOver
<1>15. ActiveIs'
  <2>1. ActiveIs /\ (active # NoRun => active \in Started)
    BY DEF KbInv, AfterStart
  <2>2. \A r \in RunIds : runs'[r].session = "CANCELLED" => runs'[r].cancelled
    BY <1>11, <2>1 DEF ActiveIs
  <2>3. ASSUME NEW r \in RunIds, r \notin Started' PROVE runs'[r] = Fresh
    <3>1. r \notin Started /\ r # active
      BY <1>7, <1>10, <2>1, <2>3, <1>11 DEF RunIds, NoRun
    <3>2. QED
      BY <1>11, <2>1, <3>1 DEF ActiveIs
  <2>4. QED
    BY <1>1, <2>2, <2>3 DEF ActiveIs
<1>16. ~BySystem' /\ ~ServiceRun'
  BY <1>1 DEF BySystem, ServiceRun
<1>17. TokensKnown' /\ ServiceHas'
  <2>1. CASE active = NoRun
    <3>1. NoCallMoves
      BY <1>2, <1>5, <2>1 DEF NoCallMoves, AsItIs
    <3>2. ~ServiceRun /\ sessionToken' = sessionToken
      BY <1>2, <2>1 DEF ServiceRun, BySystem
    <3>3. QED
      BY <1>1, <1>3, <1>16, <3>1, <3>2, SystemStays DEF KbInv
  <2>2. CASE active # NoRun
    <3>1. TokensKnown /\ sessionToken' = sessionToken + 1
      BY <1>2, <2>2 DEF KbInv
    <3>2. PICK q \in Seq(Posts) : AsItIs(q) /\ looper' = Append(q, CancelPost)
      BY <1>2, <2>2
    <3>3. InQueue(q) \subseteq InQueue(looper) /\ CancelPost.what # "start"
      BY <1>4, <1>8, <3>2
    <3>4. TokensKnown'
      BY <1>1, <1>3, <1>4, <1>5, <3>1, <3>2, <3>3, CallIsNew
    <3>5. QED
      BY <1>16, <3>4 DEF ServiceHas
  <2>3. QED
    BY <2>1, <2>2
<1>18. StateKnown' /\ HoldOver'
  BY <1>1 DEF StateKnown, HoldOver
<1>19. QED
  BY <1>7, <1>12, <1>13, <1>14, <1>15, <1>17, <1>18 DEF KbInv
-----------------------------------------------------------------------------
(* A target that is taken, prepared and started *)

LEMMA NextIs ==
  ASSUME KbInv, CanTake
  PROVE  /\ NextTarget \in Targets /\ targets[NextTarget] = NotTaken
         /\ \E n \in 0..MaxRuns : Taken \cup {NextTarget} = 1..n
<1>1. PICK n \in 0..MaxRuns : Taken = 1..n
  BY DEF KbInv, TakenOnce
<1>2. MaxRuns \in Nat /\ n \in Nat
  BY VoiceAssumption
<1>3. PICK t \in Targets : targets[t] = NotTaken
  BY DEF CanTake
<1>4. t \notin 1..n
  BY <1>1, <1>3 DEF Taken
<1>5. n + 1 \in Targets /\ n + 1 \notin 1..n
  BY <1>2, <1>3, <1>4 DEF Targets, RunIds
<1>6. targets[n + 1] = NotTaken
  BY <1>1, <1>5 DEF Taken
<1>7. \A s \in Targets : s < n + 1 => targets[s] # NotTaken
  <2>1. ASSUME NEW s \in Targets, s < n + 1 PROVE s \in 1..n
    BY <1>2, <2>1 DEF Targets, RunIds
  <2>2. QED
    BY <1>1, <2>1 DEF Taken
<1>8. /\ NextTarget \in Targets /\ targets[NextTarget] = NotTaken
      /\ \A s \in Targets : s < NextTarget => targets[s] # NotTaken
  BY <1>5, <1>6, <1>7 DEF NextTarget
<1>9. NextTarget = n + 1
  <2>1. NextTarget \in Int /\ ~(n + 1 < NextTarget) /\ ~(NextTarget < n + 1)
    BY <1>2, <1>5, <1>6, <1>7, <1>8 DEF Targets, RunIds
  <2>2. QED
    BY <1>2, <2>1
<1>10. Taken \cup {NextTarget} = 1..(n + 1) /\ n + 1 \in 0..MaxRuns
  BY <1>1, <1>2, <1>5, <1>9 DEF Targets, RunIds
<1>11. QED
  BY <1>8, <1>10

\* captureTarget()
Takes(t, place) ==
  /\ pipeState = "IDLE" /\ activeTarget = NoTarget
  /\ t \in Targets /\ targets[t] = NotTaken /\ \E n \in 0..MaxRuns : Taken \cup {t} = 1..n
  /\ place \in Places /\ place # NotTaken /\ targets' = [targets EXCEPT ![t] = place]
  /\ activeTarget' = t /\ localIo' = Append(localIo, t)
  /\ UNCHANGED << voiceVars, systemVars, composing, committed, calledOff, editor, noticed, edits >>
  /\ finger' \in {finger, "held"} /\ (place.byHold => finger' = "held")

LEMMA TakesIs ==
  ASSUME KbInv, NEW hold \in BOOLEAN, ToggleBegins(hold), KeepsEditor, KeepsGhosts,
         UNCHANGED composing, finger' \in {finger, "held"}, hold => finger' = "held"
  PROVE  \E t \in Targets, place \in Places : Takes(t, place)
<1> DEFINE place(plain) == [epoch |-> editor.epoch, place |-> editor.place, selection |-> noticed,
                            plain |-> plain, byHold |-> hold]
<1>1. PICK plain \in BOOLEAN : targets' = [targets EXCEPT ![NextTarget] = place(plain)]
  BY DEF ToggleBegins
<1>2. /\ NextTarget \in Targets /\ targets[NextTarget] = NotTaken
      /\ \E n \in 0..MaxRuns : Taken \cup {NextTarget} = 1..n
  BY NextIs DEF ToggleBegins, CanBegin
<1>3. editor.epoch \in Nat /\ editor.place \in Int /\ noticed \in Int
  BY KeyboardAssumption DEF KbInv, KbTyped, FieldTyped
<1>4. place(plain) \in Places /\ place(plain).byHold = hold
  BY <1>3 DEF Places
<1>5. place(plain) # NotTaken
  <2>1. place(plain).epoch # -1 /\ NotTaken.epoch = -1
    BY <1>3 DEF NotTaken
  <2>2. QED
    BY <2>1
<1>6. Takes(NextTarget, place(plain))
  BY <1>1, <1>2, <1>4, <1>5 DEF Takes, ToggleBegins, CanBegin, KeepsEditor, KeepsGhosts
<1>7. QED
  BY <1>2, <1>4, <1>6

LEMMA TakesStep ==
  ASSUME KbInv, NEW t \in Targets, NEW place \in Places, Takes(t, place)
  PROVE  KbInv'
<1>1. /\ pipeState = "IDLE" /\ activeTarget = NoTarget /\ targets[t] = NotTaken
      /\ place # NotTaken /\ targets' = [targets EXCEPT ![t] = place]
      /\ activeTarget' = t /\ localIo' = Append(localIo, t)
      /\ UNCHANGED <<composing, committed, calledOff, editor, noticed, edits>>
      /\ finger' \in {finger, "held"} /\ (place.byHold => finger' = "held")
  BY DEF Takes
<1>2. /\ UNCHANGED <<active, pipeState, currentId, runs, submitted, worker, attribution, clobbered>>
      /\ UNCHANGED <<looper, sessionToken, session, awaiting, watchdog>>
  BY DEF Takes, voiceVars, systemVars
<1>3. /\ KbTyped /\ looper \in Seq(Posts) /\ localIo \in Seq(Targets)
      /\ targets \in [Targets -> Places] /\ t \in 0..MaxRuns /\ t # NoTarget
  BY VoiceAssumption DEF KbInv, KbTyped, SystemTyped, FieldTyped, Targets, RunIds, NoTarget
<1>4. /\ targets'[t] = place /\ \A s \in Targets : s # t => targets'[s] = targets[s]
      /\ targets' \in [Targets -> Places]
  BY <1>1, <1>3
<1>5. Taken' = Taken \cup {t} /\ t \notin Taken
  BY <1>1, <1>4 DEF Taken
<1>6. localIo' \in Seq(Targets) /\ InQueue(localIo') = InQueue(localIo) \cup {t}
  BY <1>1, <1>3, AppendIs, PostedAppend
<1>7. TakenOnce /\ InsertedOver /\ AfterStart /\ ActiveIs
  BY DEF KbInv
<1>8. /\ t \notin InQueue(localIo) /\ ~PreparedFor(looper, t)
      /\ \A s : PreparedFor(looper', s) <=> PreparedFor(looper, s)
  BY <1>2, <1>3, <1>5, <1>7 DEF TakenOnce
<1>9. Started' = Started /\ t \notin Started'
  BY <1>2, <1>5, <1>6, <1>8 DEF Started
<1>10. KbTyped'
  <2>1. PipeTyped' /\ SystemTyped'
    BY <1>2 DEF KbInv, KbTyped, PipeTyped, SystemTyped
  <2>2. finger' \in {"up", "held"}
    BY <1>1 DEF KbInv, KbTyped, FieldTyped
  <2>3. FieldTyped'
    BY <1>1, <1>3, <1>4, <1>6, <2>2 DEF KbInv, KbTyped, FieldTyped
  <2>4. QED
    BY <2>1, <2>3 DEF KbTyped
<1>11. TakenOnce'
  <2>1. \E n \in 0..MaxRuns : Taken' = 1..n
    BY <1>5 DEF Takes
  <2>2. Distinct(localIo')
    BY <1>1, <1>3, <1>7, <1>8, DistinctQueue DEF TakenOnce
  <2>3. \A s \in 0..MaxRuns : PreparedFor(looper', s) => s \in Taken' /\ s \notin InQueue(localIo')
    BY <1>5, <1>6, <1>7, <1>8 DEF TakenOnce
  <2>4. PreparedOnce(looper') /\ InQueue(localIo') \subseteq Taken'
    BY <1>2, <1>5, <1>6, <1>7 DEF TakenOnce
  <2>5. QED
    BY <1>1, <1>5, <2>1, <2>2, <2>3, <2>4 DEF TakenOnce
<1>12. AfterStart'
  BY <1>1, <1>2, <1>7, <1>9, RunsStay
<1>13. active = NoRun /\ composing = NoTarget
  BY <1>1, <1>3, <1>7 DEF ActiveIs, InsertedOver, NoTarget, NoRun
<1>14. InsertedOver'
  <2>1. ASSUME NEW c \in committed
        PROVE  c.target \in Taken' /\ c.target # t /\ targets'[c.target] = targets[c.target]
    <3>1. c.target \in Taken
      BY <1>7, <2>1 DEF InsertedOver
    <3>2. QED
      BY <1>4, <1>5, <3>1 DEF Taken
  <2>2. QED
    BY <1>1, <1>5, <1>7, <1>13, <2>1 DEF InsertedOver
<1>15. ActiveIs'
  BY <1>2, <1>7, <1>9, <1>13, ActiveStays
<1>16. TokensKnown' /\ ServiceHas'
  <2>1. (ServiceRun => ServiceRun' /\ active' = active) /\ (BySystem' <=> BySystem) /\ NoCallMoves
    BY <1>2 DEF ServiceRun, BySystem, AtWork, NoCallMoves
  <2>2. QED
    BY <1>2, <1>3, <2>1, SystemStays DEF KbInv
<1>17. StateKnown'
  BY <1>1, <1>2, <1>13 DEF StateKnown
<1>18. HoldOver'
  BY <1>1, <1>4 DEF HoldOver
<1>19. QED
  BY <1>10, <1>11, <1>12, <1>14, <1>15, <1>16, <1>17, <1>18 DEF KbInv
-----------------------------------------------------------------------------
(* What is posted *)

LEMMA LoadsStep ==
  ASSUME KbInv, LoadsSettings
  PROVE  KbInv'
<1>1. /\ UNCHANGED <<active, pipeState, currentId, runs, submitted, worker, attribution, clobbered>>
      /\ UNCHANGED <<sessionToken, session, awaiting, watchdog>>
      /\ UNCHANGED <<activeTarget, targets, composing, committed, calledOff, editor, noticed, edits, finger>>
      /\ localIo # << >> /\ localIo' = Tail(localIo)
  BY DEF LoadsSettings, KeepsEditor, KeepsGhosts, voiceVars
<1> DEFINE t == Head(localIo)
<1>2. PICK what \in Prepares : looper' = Append(looper, Lambda(what, t))
  BY DEF LoadsSettings, Post, Prepares
<1> DEFINE e == Lambda(what, t)
<1>3. /\ KbTyped /\ TakenOnce /\ looper \in Seq(Posts) /\ localIo \in Seq(Targets)
  BY DEF KbInv, KbTyped, SystemTyped, FieldTyped
<1>4. t \in Targets /\ localIo' \in Seq(Targets) /\ t \in 0..MaxRuns
  BY <1>1, <1>3, TailIs, VoiceAssumption DEF Targets, RunIds
<1>5. e \in Posts /\ e.what \in Prepares /\ e.run = t
  BY <1>2, <1>4 DEF Lambda, Posts, Whats
<1>6. /\ InQueue(localIo) = InQueue(localIo') \cup {t} /\ t \notin InQueue(localIo')
      /\ Distinct(localIo')
  BY <1>1, <1>3, PostedTail, DistinctQueue DEF TakenOnce
<1>7. looper' \in Seq(Posts) /\ InQueue(looper') = InQueue(looper) \cup {e}
  BY <1>2, <1>3, <1>5, AppendIs, PostedAppend
<1>8. \A s : PreparedFor(looper', s) <=> (PreparedFor(looper, s) \/ s = t)
  BY <1>5, <1>7 DEF PreparedFor
<1>9. Taken' = Taken /\ t \in Taken /\ ~PreparedFor(looper, t)
  BY <1>1, <1>3, <1>4, <1>6 DEF Taken, TakenOnce
<1>10. Started' = Started
  BY <1>6, <1>8, <1>9 DEF Started
<1>11. KbTyped'
  <2>1. PipeTyped'
    BY <1>1, <1>3 DEF KbTyped, PipeTyped
  <2>2. SystemTyped'
    BY <1>1, <1>3, <1>7 DEF KbTyped, SystemTyped
  <2>3. FieldTyped'
    BY <1>1, <1>3, <1>4 DEF KbTyped, FieldTyped
  <2>4. QED
    BY <2>1, <2>2, <2>3 DEF KbTyped
<1>12. TakenOnce'
  <2>1. PreparedOnce(looper')
    BY <1>2, <1>3, <1>5, <1>9, PreparedQueue DEF TakenOnce
  <2>2. \A s \in 0..MaxRuns : PreparedFor(looper', s) => s \in Taken' /\ s \notin InQueue(localIo')
    BY <1>3, <1>6, <1>8, <1>9 DEF TakenOnce
  <2>3. InQueue(localIo') \subseteq Taken'
    BY <1>3, <1>6, <1>9 DEF TakenOnce
  <2>4. /\ \E n \in 0..MaxRuns : Taken' = 1..n
        /\ activeTarget' # NoTarget => activeTarget' \in Taken'
    BY <1>1, <1>3, <1>9 DEF TakenOnce
  <2>5. QED
    BY <1>6, <2>1, <2>2, <2>3, <2>4 DEF TakenOnce
<1>13. AfterStart'
  <2>1. Prepares \cap ({"partial"} \cup EndWhats) = {}
    BY DEF Prepares, EndWhats
  <2>2. QED
    BY <1>1, <1>5, <1>7, <1>10, <2>1, RunsStay DEF KbInv
<1>14. InsertedOver' /\ ActiveIs'
  BY <1>1, <1>9, <1>10, InsertedStays, ActiveStays DEF KbInv
<1>15. NoCallMoves /\ ~(looper' = Tail(looper) /\ looper # << >>)
  <2>1. e.what \notin CallWhats
    BY <1>5 DEF CallWhats, Prepares
  <2>2. Len(looper') = Len(looper) + 1 /\ (looper # << >> => Len(Tail(looper)) = Len(looper) - 1)
    BY <1>2, <1>3, <1>5
  <2>3. Len(looper) \in Nat
    BY <1>3
  <2>4. QED
    BY <1>2, <1>5, <2>1, <2>2, <2>3 DEF NoCallMoves
<1>16. TokensKnown' /\ ServiceHas'
  <2>1. (ServiceRun => ServiceRun' /\ active' = active) /\ (BySystem' <=> BySystem)
    BY <1>1 DEF ServiceRun, BySystem, AtWork
  <2>2. QED
    BY <1>1, <1>3, <1>15, <2>1, SystemStays DEF KbInv
<1>17. StateKnown' /\ HoldOver'
  <2>1. StopComes => StopComes'
    BY <1>1, <1>3, <1>15, StopStays
  <2>2. QED
    BY <1>1, <1>3, <1>10, <2>1, PipeStays DEF KbInv
<1>18. QED
  BY <1>11, <1>12, <1>13, <1>14, <1>16, <1>17 DEF KbInv

\* A call of the listener of the pipeline: it posts.
SaysPost(e) ==
  /\ e \in Posts /\ e.what \in {"partial"} \cup EndWhats /\ looper' = Append(looper, e)
  /\ e.run \in Started /\ (e.what \in EndWhats => e.run # active)
  /\ worker' = worker \/ (worker.pc = "idle" /\ worker' = Resting)
  /\ UNCHANGED << active, pipeState, currentId, runs, submitted, attribution, clobbered,
                  sessionToken, session, awaiting, watchdog, keyboardVars >>

LEMMA SaysStep ==
  ASSUME KbInv, NEW e, SaysPost(e)
  PROVE  KbInv'
<1>1. /\ UNCHANGED <<active, pipeState, currentId, runs, submitted, attribution, clobbered>>
      /\ UNCHANGED <<sessionToken, session, awaiting, watchdog>>
      /\ UNCHANGED <<activeTarget, targets, localIo, composing, committed, calledOff, editor,
                     noticed, edits, finger>>
      /\ worker' = worker \/ (worker.pc = "idle" /\ worker' = Resting)
      /\ e \in Posts /\ e.what \in {"partial"} \cup EndWhats /\ looper' = Append(looper, e)
      /\ e.run \in Started /\ (e.what \in EndWhats => e.run # active)
  BY DEF SaysPost, keyboardVars
<1>2. KbTyped /\ TakenOnce /\ looper \in Seq(Posts)
  BY DEF KbInv, KbTyped, SystemTyped
<1>3. NoCallMoves /\ Moved
  <2>1. e.what \notin CallWhats /\ e.what \notin Prepares
    BY <1>1 DEF CallWhats, Prepares, EndWhats
  <2>2. QED
    BY <1>1, <1>2, <2>1 DEF NoCallMoves, Moved, Freed
<1>4. ~(looper' = Tail(looper) /\ looper # << >>)
  <2>1. Len(looper') = Len(looper) + 1 /\ (looper # << >> => Len(Tail(looper)) = Len(looper) - 1)
    BY <1>1, <1>2
  <2>2. Len(looper) \in Nat
    BY <1>2
  <2>3. QED
    BY <2>1, <2>2
<1>5. TakenOnce' /\ Taken' = Taken /\ Started \subseteq Started' /\ looper' \in Seq(Posts)
  BY <1>1, <1>2, <1>3, TargetsStay, MovedIs DEF KeepsTargets, TakenOnce
<1>6. Resting \in Work /\ Resting.run = NoRun /\ Resting.pc = "idle" /\ Resting.say = "nothing"
  BY VoiceAssumption DEF Work, Resting, WorkerPc, Said, NoRun, BaseContext
<1>7. KbTyped'
  <2>1. worker' \in Work
    BY <1>1, <1>2, <1>6 DEF KbTyped, PipeTyped
  <2>2. PipeTyped'
    BY <1>1, <1>2, <2>1 DEF KbTyped, PipeTyped
  <2>3. SystemTyped' /\ FieldTyped'
    BY <1>1, <1>2, <1>5 DEF KbTyped, SystemTyped, FieldTyped
  <2>4. QED
    BY <2>2, <2>3 DEF KbTyped
<1>8. InQueue(looper') = InQueue(looper) \cup {e}
  BY <1>1, <1>2, PostedAppend
<1>9. AfterStart'
  <2>1. AfterStart
    BY DEF KbInv
  <2>2. /\ \A p \in InQueue(looper') : p.what \in {"partial"} \cup EndWhats => p.run \in Started'
        /\ \A p \in InQueue(looper') : p.what \in EndWhats => p.run # active'
    BY <1>1, <1>5, <1>8, <2>1 DEF AfterStart
  <2>3. /\ active' # NoRun => active' \in Started'
        /\ composing' # NoTarget => composing' \in Started'
        /\ \A i \in DOMAIN submitted' : submitted'[i].run \in Started'
    BY <1>1, <1>5, <2>1 DEF AfterStart
  <2>4. /\ worker'.run # NoRun => worker'.run \in Started'
        /\ worker'.say \in EndWhats => worker'.pc = "idle"
        /\ worker'.pc # "idle" \/ worker'.say # "nothing" => worker'.run # NoRun
        /\ worker'.pc \in {"idle", "ending"} => active' = NoRun \/ active' # worker'.run
        /\ worker'.pc = "ending" => worker'.out \in EndWhats
    BY <1>1, <1>5, <1>6, <2>1 DEF AfterStart
  <2>5. QED
    BY <2>2, <2>3, <2>4 DEF AfterStart
<1>10. InsertedOver' /\ ActiveIs'
  BY <1>1, <1>5, InsertedStays, ActiveStays DEF KbInv
<1>11. TokensKnown' /\ ServiceHas'
  <2>1. (ServiceRun => ServiceRun' /\ active' = active) /\ (BySystem' <=> BySystem)
    BY <1>1, <1>6 DEF ServiceRun, BySystem, AtWork
  <2>2. QED
    BY <1>1, <1>2, <1>3, <2>1, SystemStays DEF KbInv
<1>12. StateKnown' /\ HoldOver'
  <2>1. StopComes => StopComes'
    BY <1>1, <1>2, <1>3, <1>4, StopStays
  <2>2. QED
    BY <1>1, <1>2, <1>5, <2>1, PipeStays DEF KbInv
<1>13. QED
  BY <1>5, <1>7, <1>9, <1>10, <1>11, <1>12 DEF KbInv

LEMMA ListenerStep ==
  ASSUME KbInv, PartialHeard \/ WorkerSays
  PROVE  KbInv'
<1>1. AfterStart /\ active \in 0..MaxRuns /\ worker \in Work
  BY DEF KbInv, KbTyped, PipeTyped
<1>2. CASE PartialHeard
  <2>1. active # NoRun /\ looper' = Append(looper, Lambda("partial", active))
    BY <1>2 DEF PartialHeard, Post
  <2>2. /\ Lambda("partial", active) \in Posts /\ Lambda("partial", active).what = "partial"
        /\ Lambda("partial", active).run = active
    BY <1>1 DEF Lambda, Posts, Whats
  <2>3. active \in Started /\ "partial" \notin EndWhats
    BY <1>1, <2>1 DEF AfterStart, EndWhats
  <2>4. SaysPost(Lambda("partial", active))
    BY <1>2, <2>1, <2>2, <2>3 DEF SaysPost, PartialHeard, KeepsKeyboard, voiceVars
  <2>5. QED
    BY <2>4, SaysStep
<1>3. CASE WorkerSays
  <2>1. worker.say \in EndWhats /\ looper' = Append(looper, Lambda(worker.say, worker.run))
    BY <1>3 DEF WorkerSays, Post, EndWhats
  <2>2. /\ Lambda(worker.say, worker.run) \in Posts /\ Lambda(worker.say, worker.run).what = worker.say
        /\ Lambda(worker.say, worker.run).run = worker.run
    BY <1>1, <2>1 DEF Lambda, Posts, Whats, Work
  <2>3. worker.pc = "idle" /\ worker.run \in Started
    BY <1>1, <2>1 DEF AfterStart, EndWhats
  <2>4. worker.run # active
    <3>1. worker.run # NoRun
      BY <2>3 DEF Started, Taken, Targets, RunIds, NoRun
    <3>2. QED
      BY <1>1, <2>3, <3>1 DEF AfterStart
  <2>5. worker' = Resting
    BY <1>3, <2>3 DEF WorkerSays, ListenerReturns
  <2>6. SaysPost(Lambda(worker.say, worker.run))
    BY <1>3, <2>1, <2>2, <2>3, <2>4, <2>5 DEF SaysPost, WorkerSays
  <2>7. QED
    BY <2>6, SaysStep
<1>4. QED
  BY <1>2, <1>3
-----------------------------------------------------------------------------
(* The pipeline starts *)

LEMMA PipelineStartsStep ==
  ASSUME KbInv, PipelineStarts
  PROVE  KbInv'
<1> DEFINE t == activeTarget
<1> DEFINE captured == FirstPost.what = "preparedCaptured"
<1> DEFINE post == OnSystem("start", sessionToken + 1, t)
<1>1. /\ KbTyped /\ TakenOnce /\ AfterStart /\ ActiveIs /\ TokensKnown /\ ServiceHas
      /\ looper \in Seq(Posts) /\ sessionToken \in Nat /\ active \in 0..MaxRuns
      /\ runs \in [RunIds -> Run] /\ submitted \in Seq(Task) /\ t \in 0..MaxRuns
  BY DEF KbInv, KbTyped, SystemTyped, PipeTyped, FieldTyped
<1>2. /\ looper # << >> /\ FirstPost = Head(looper) /\ t = FirstPost.run
      /\ FirstPost.what \in {"preparedCaptured", "preparedSystem"} /\ FirstPost.what \in Prepares
      /\ FirstPost \in InQueue(looper)
  BY FirstPostIs DEF PipelineStarts, OnMain, FirstPost, IsForActive, Prepares
<1>3. /\ t \in Taken /\ t \notin InQueue(localIo) /\ t \notin Started /\ t \in RunIds /\ t # NoRun
  <2>1. PreparedFor(looper, t)
    BY <1>2 DEF PreparedFor
  <2>2. QED
    BY <1>1, <2>1 DEF TakenOnce, Started, Taken, Targets, RunIds, NoRun
<1>4. active = NoRun
  BY <1>1, <1>3 DEF ActiveIs, AfterStart
<1>5. /\ currentId' = t /\ active' = t /\ pipeState' = "RECORDING" /\ activeTarget' = t
      /\ UNCHANGED <<worker, attribution, clobbered, session, awaiting, watchdog>>
      /\ UNCHANGED <<targets, localIo, composing, committed, calledOff, editor, noticed, edits, finger>>
  BY <1>4 DEF PipelineStarts, StartsRun, RunRefused, KeepsSession, KeepsEditor, KeepsGhosts, KeepsTargets
<1>6. \/ /\ captured /\ looper' = Tail(looper) /\ sessionToken' = sessionToken
         /\ runs' = [runs EXCEPT ![t].session = "ACTIVE"]
         /\ submitted' = Append(submitted, [run |-> t, at |-> "capture"])
      \/ /\ ~captured /\ looper' = Append(Tail(looper), post) /\ sessionToken' = sessionToken + 1
         /\ runs' = runs /\ submitted' = submitted
  BY <1>4 DEF PipelineStarts, StartsRun, RunRefused, Submit, PostDone
<1>7. post \in Posts /\ post.what = "start" /\ post.token = sessionToken + 1 /\ post.run = t
  BY <1>1 DEF OnSystem, Posts, Whats, CallWhats
<1>8. "start" \notin Prepares /\ "start" \in CallWhats /\ "start" \notin {"partial"} \cup EndWhats
  BY DEF Prepares, CallWhats, EndWhats
<1>9. /\ Tail(looper) \in Seq(Posts) /\ InQueue(Tail(looper)) \subseteq InQueue(looper)
      /\ ~PreparedFor(Tail(looper), t)
  BY <1>1, <1>2, TailIs, PostedTail, PreparedQueue DEF TakenOnce
<1>10. Moved
  BY <1>6, <1>7, <1>8, <1>9, <1>2 DEF Moved, Freed
<1>11. TakenOnce' /\ Taken' = Taken /\ Started \subseteq Started' /\ looper' \in Seq(Posts)
  BY <1>1, <1>5, <1>10, TargetsStay, MovedIs DEF KeepsTargets, TakenOnce
<1>12. InQueue(looper') \subseteq InQueue(Tail(looper)) \cup {post}
  <2>1. InQueue(Append(Tail(looper), post)) = InQueue(Tail(looper)) \cup {post}
    <3>1. post \in Posts /\ Tail(looper) \in Seq(Posts)
      BY <1>7, <1>9
    <3>2. \A q \in Seq(Posts), e \in Posts : InQueue(Append(q, e)) = InQueue(q) \cup {e}
      BY PostedAppend
    <3>3. QED
      BY <3>1, <3>2, Zenon
  <2>2. QED
    BY <1>6, <2>1
<1>13. t \in Started'
  BY <1>3, <1>5, <1>7, <1>8, <1>9, <1>11, <1>12 DEF Started, PreparedFor
<1>14. Fresh = runs[t] /\ Fresh.session = "none" /\ ~Fresh.cancelled
  BY <1>1, <1>3 DEF ActiveIs, Fresh
<1>15. /\ runs' \in [RunIds -> Run] /\ \A r \in RunIds : r # t => runs'[r] = runs[r]
       /\ ~runs'[t].cancelled /\ runs'[t].session \in {"none", "ACTIVE"}
       /\ captured => runs'[t].session = "ACTIVE"
       /\ ~captured => runs'[t].session = "none"
  <2>1. CASE ~captured
    BY <1>1, <1>6, <1>14, <2>1
  <2>2. CASE captured
    <3>1. runs' = [runs EXCEPT ![t].session = "ACTIVE"] /\ runs[t] \in Run
      BY <1>1, <1>3, <1>6, <2>2
    <3>2. runs'[t] = [runs[t] EXCEPT !.session = "ACTIVE"] /\ \A r \in RunIds : r # t => runs'[r] = runs[r]
      BY <1>1, <1>3, <3>1
    <3>3. runs'[t] \in Run /\ runs'[t].session = "ACTIVE" /\ runs'[t].cancelled = runs[t].cancelled
      BY <3>1, <3>2 DEF Run, EndStates
    <3>4. runs' \in [RunIds -> Run]
      BY <1>1, <3>1, <3>2, <3>3
    <3>5. QED
      BY <1>14, <2>2, <3>2, <3>3, <3>4
  <2>3. QED
    BY <2>1, <2>2
<1>16. /\ submitted' \in Seq(Task)
       /\ \A i \in DOMAIN submitted' : submitted'[i].run \in Started \/ submitted'[i].run = t
       /\ ~captured => \A i \in DOMAIN submitted' : submitted'[i].run \in Started
  <2>1. \A i \in DOMAIN submitted : submitted[i].run \in Started
    BY <1>1 DEF AfterStart
  <2>2. CASE ~captured
    BY <1>1, <1>6, <2>1, <2>2
  <2>3. CASE captured
    <3>1. [run |-> t, at |-> "capture"] \in Task
      BY <1>3 DEF Task
    <3>2. submitted' = Append(submitted, [run |-> t, at |-> "capture"])
      BY <1>6, <2>3
    <3>3. /\ submitted' \in Seq(Task)
          /\ \A i \in DOMAIN submitted' :
               \/ i \in DOMAIN submitted /\ submitted'[i] = submitted[i]
               \/ submitted'[i] = [run |-> t, at |-> "capture"]
      BY <1>1, <3>1, <3>2, AppendIs
    <3>4. QED
      BY <2>1, <2>3, <3>3
  <2>4. QED
    BY <2>2, <2>3
<1>17. KbTyped'
  <2>1. PipeTyped'
    BY <1>1, <1>5, <1>15, <1>16 DEF KbTyped, PipeTyped, PipeStates
  <2>2. sessionToken' \in Nat
    BY <1>1, <1>6
  <2>3. SystemTyped'
    BY <1>1, <1>5, <1>11, <2>2 DEF KbTyped, SystemTyped
  <2>4. FieldTyped'
    BY <1>1, <1>5 DEF KbTyped, FieldTyped
  <2>5. QED
    BY <2>1, <2>3, <2>4 DEF KbTyped
<1>18. AfterStart'
  <2>1. ASSUME NEW p \in InQueue(looper'), p.what \in {"partial"} \cup EndWhats
        PROVE  p.run \in Started' /\ (p.what \in EndWhats => p.run # active')
    <3>1. p \in InQueue(looper)
      BY <1>7, <1>8, <1>9, <1>12, <2>1
    <3>2. p.run \in Started
      BY <1>1, <2>1, <3>1 DEF AfterStart
    <3>3. QED
      BY <1>3, <1>5, <1>11, <3>2
  <2>2. /\ worker.run # NoRun => worker.run \in Started'
        /\ worker.run # t
    BY <1>1, <1>3, <1>11 DEF AfterStart
  <2>3. \A i \in DOMAIN submitted' : submitted'[i].run \in Started'
    BY <1>11, <1>13, <1>16
  <2>4. composing # NoTarget => composing \in Started'
    BY <1>1, <1>11 DEF AfterStart
  <2>5. /\ worker.say \in EndWhats => worker.pc = "idle"
        /\ worker.pc # "idle" \/ worker.say # "nothing" => worker.run # NoRun
        /\ worker.pc = "ending" => worker.out \in EndWhats
    BY <1>1 DEF AfterStart
  <2>6. QED
    BY <1>5, <1>13, <2>1, <2>2, <2>3, <2>4, <2>5 DEF AfterStart
<1>19. InsertedOver'
  BY <1>5, <1>11, InsertedStays DEF KbInv
<1>20. ActiveIs'
  <2>1. \A r \in RunIds : runs'[r].session = "CANCELLED" => runs'[r].cancelled
    BY <1>1, <1>15 DEF ActiveIs
  <2>2. \A r \in RunIds : r \notin Started' => runs'[r] = Fresh
    BY <1>1, <1>11, <1>13, <1>15 DEF ActiveIs
  <2>3. QED
    BY <1>5, <1>15, <2>1, <2>2 DEF ActiveIs
<1>21. ~BySystem /\ ~ServiceRun /\ (BySystem' <=> ~captured)
  BY <1>3, <1>4, <1>5, <1>15 DEF BySystem, ServiceRun
<1>22. TokensKnown' /\ ServiceHas'
  <2>1. CASE captured
    <3>1. NoCallMoves
      BY <1>2, <1>6, <2>1 DEF NoCallMoves, Prepares, CallWhats
    <3>2. QED
      BY <1>1, <1>5, <1>6, <1>21, <2>1, <3>1, SystemStays
  <2>2. CASE ~captured
    <3>1. ~AtWork(active)'
      BY <1>1, <1>3, <1>5, <1>16, <2>2 DEF AtWork, AfterStart
    <3>2. ServiceRun'
      BY <1>21, <2>2, <3>1 DEF ServiceRun
    <3>3. /\ sessionToken' = sessionToken + 1 /\ looper' = Append(Tail(looper), post)
      BY <1>6, <2>2
    <3>4. TokensKnown' /\ post \in InQueue(looper') /\ CallOf(post, sessionToken')
      BY <1>1, <1>5, <1>7, <1>8, <1>9, <3>2, <3>3, CallIsNew
    <3>5. Starting'
      BY <1>7, <3>4 DEF Starting, CurrentCall
    <3>6. QED
      BY <3>4, <3>5 DEF ServiceHas
  <2>3. QED
    BY <2>1, <2>2
<1>23. StateKnown'
  BY <1>5, <1>13 DEF StateKnown
<1>24. HoldOver'
  BY <1>3, <1>5 DEF KbInv, HoldOver, NoTarget, NoRun
<1>25. QED
  BY <1>11, <1>17, <1>18, <1>19, <1>20, <1>22, <1>23, <1>24 DEF KbInv
-----------------------------------------------------------------------------
(* The posts and the events of the recognizer *)

\* A step of the recognizer that the pipeline does not hear of.
LEMMA RecognizerStep ==
  ASSUME KbInv, UNCHANGED << voiceVars, keyboardVars, sessionToken >>, SystemTyped', Freed(looper'),
         TokensKnown', ServiceHas', BySystem /\ pipeState = "RECORDING" /\ StopComes => StopComes'
  PROVE  KbInv'
<1>1. /\ UNCHANGED <<active, pipeState, currentId, runs, submitted, worker, attribution, clobbered>>
      /\ UNCHANGED <<activeTarget, targets, localIo, composing, committed, calledOff, editor,
                     noticed, edits, finger>>
  BY DEF voiceVars, keyboardVars
<1>2. KbTyped /\ TakenOnce /\ Moved
  BY DEF KbInv, Moved
<1>3. TakenOnce' /\ Taken' = Taken /\ Started \subseteq Started'
  BY <1>1, <1>2, TargetsStay DEF KeepsTargets
<1>4. InQueue(looper') \subseteq InQueue(looper)
  <2>1. looper \in Seq(Posts)
    BY <1>2 DEF KbTyped, SystemTyped
  <2>2. QED
    BY <2>1, PostedTail DEF Freed
<1>5. KbTyped'
  BY <1>1, <1>2 DEF KbTyped, PipeTyped, FieldTyped
<1>6. AfterStart'
  BY <1>1, <1>3, <1>4, RunsStay DEF KbInv
<1>7. InsertedOver' /\ ActiveIs'
  BY <1>1, <1>3, InsertedStays, ActiveStays DEF KbInv
<1>8. StateKnown' /\ HoldOver'
  BY <1>1, <1>2, <1>3, PipeStays DEF KbInv
<1>9. QED
  BY <1>3, <1>5, <1>6, <1>7, <1>8 DEF KbInv

\* What is left in the queue when a call is taken from it.
LEMMA CallTaken ==
  ASSUME KbTyped, TokensKnown, looper # << >>, looper' = Tail(looper), UNCHANGED sessionToken,
         Head(looper).what \in CallWhats
  PROVE  /\ Tail(looper) \in Seq(Posts) /\ OneCall(looper', sessionToken)
         /\ InQueue(looper) = InQueue(looper') \cup {Head(looper)} /\ Head(looper) \in Posts
         /\ \A p \in InQueue(looper') : p.what \in CallWhats => p.token <= sessionToken
         /\ CurrentCall(Head(looper)) => \A p \in InQueue(looper') : ~CallOf(p, sessionToken)
         /\ StopAfter(looper, sessionToken) =>
              \/ StopAfter(looper', sessionToken)
              \/ CurrentCall(Head(looper)) /\ Head(looper).what = "start" /\ StopPosted'
<1>1. looper \in Seq(Posts) /\ sessionToken \in Nat
  BY DEF KbTyped, SystemTyped
<1>2. /\ Tail(looper) \in Seq(Posts) /\ Head(looper) \in Posts
      /\ InQueue(looper) = InQueue(looper') \cup {Head(looper)}
  BY <1>1, TailIs, PostedTail
<1>3. /\ OneCall(looper', sessionToken)
      /\ CurrentCall(Head(looper)) => \A p \in InQueue(looper') : ~CallOf(p, sessionToken)
  BY <1>1, CallQueue DEF TokensKnown, CurrentCall
<1>4. \A p \in InQueue(looper') : p.what \in CallWhats => p.token <= sessionToken
  BY <1>2 DEF TokensKnown
<1>5. StopAfter(looper, sessionToken) =>
        \/ StopAfter(looper', sessionToken)
        \/ CurrentCall(Head(looper)) /\ Head(looper).what = "start" /\ StopPosted'
  <2>1. StopAfter(looper, sessionToken) =>
          \/ StopAfter(Tail(looper), sessionToken)
          \/ /\ Head(looper).what = "start" /\ Head(looper).token = sessionToken
             /\ \E p \in InQueue(Tail(looper)) : p.what = "stop"
    BY <1>1, StopQueue
  <2>2. QED
    BY <2>1 DEF StopPosted, CurrentCall, CallOf
<1>6. QED
  BY <1>2, <1>3, <1>4, <1>5

LEMMA SystemPostStep ==
  ASSUME KbInv, SystemPost
  PROVE  KbInv'
<1>1. /\ looper # << >> /\ looper' = Tail(looper) /\ FirstPost = Head(looper)
      /\ UNCHANGED <<voiceVars, keyboardVars, sessionToken>>
      /\ \/ FirstPost.what = "start" /\ SessionBegins(FirstPost)
         \/ FirstPost.what = "stop" /\ StopsOnMain
         \/ FirstPost.what = "cancel" /\ CancelsOnMain(FirstPost)
  BY DEF SystemPost, OnMain, FirstPost, PostDone, KeepsKeyboard, SessionBegins, StopsOnMain, CancelsOnMain
<1>2. UNCHANGED <<active, pipeState, currentId, runs, submitted, worker, attribution, clobbered>>
  BY <1>1 DEF voiceVars
<1>3. /\ KbTyped /\ TokensKnown /\ ServiceHas /\ looper \in Seq(Posts)
      /\ FirstPost \in InQueue(looper) /\ FirstPost \in Posts /\ Freed(looper')
  BY <1>1, FirstPostIs DEF KbInv, KbTyped, SystemTyped, Freed
<1>4. /\ sessionToken \in Nat /\ session \in [token : Nat, run : 0..MaxRuns]
      /\ awaiting \in BOOLEAN /\ watchdog \in Watchdogs /\ active \in 0..MaxRuns
  BY <1>3 DEF KbTyped, SystemTyped, PipeTyped
<1>5. Tail(looper) \in Seq(Posts)
  BY <1>1, <1>3, TailIs
<1>6. ASSUME session' \in [token : Nat, run : 0..MaxRuns], awaiting' \in BOOLEAN, watchdog' \in Watchdogs
      PROVE  SystemTyped'
  BY <1>1, <1>4, <1>5, <1>6 DEF SystemTyped
<1>7. (ServiceRun <=> ServiceRun') /\ (BySystem' <=> BySystem)
  BY <1>2 DEF ServiceRun, BySystem, AtWork
<1>8. CASE FirstPost.what = "stop" /\ StopsOnMain
  <2>1. /\ UNCHANGED session
        /\ \/ IsLive /\ awaiting' = TRUE /\ watchdog' = "afterStop"
           \/ ~IsLive /\ watchdog' = "off" /\ awaiting' = awaiting
    BY <1>8 DEF StopsOnMain
  <2>2. SystemTyped'
    BY <1>4, <1>6, <2>1 DEF Watchdogs
  <2>3. Head(looper).what \notin CallWhats /\ NoCallMoves
    BY <1>1, <1>8 DEF NoCallMoves, CallWhats
  <2>4. TokensKnown' /\ ServiceHas'
    BY <1>1, <1>2, <1>3, <1>7, <2>1, <2>3, SystemStays
  <2>5. StopComes => StopComes'
    <3>1. IsLive' = IsLive
      BY <1>1, <2>1 DEF IsLive
    <3>2. IsLive => StopComes'
      BY <2>1, <3>1 DEF StopComes
    <3>3. StopAfter(looper, sessionToken) => StopAfter(looper', sessionToken)
      <4>1. FirstPost.what # "start"
        BY <1>8
      <4>2. QED
        BY <1>1, <1>3, <1>4, <4>1, StopQueue
    <3>4. QED
      BY <1>1, <3>2, <3>3 DEF StopComes
  <2>6. QED
    BY <1>1, <1>3, <2>2, <2>4, <2>5, RecognizerStep
<1>9. ASSUME FirstPost.what \in CallWhats
      PROVE  /\ OneCall(looper', sessionToken)
             /\ InQueue(looper) = InQueue(looper') \cup {FirstPost}
             /\ \A p \in InQueue(looper') : p.what \in CallWhats => p.token <= sessionToken
             /\ CurrentCall(FirstPost) => \A p \in InQueue(looper') : ~CallOf(p, sessionToken)
             /\ StopAfter(looper, sessionToken) =>
                  \/ StopAfter(looper', sessionToken)
                  \/ CurrentCall(FirstPost) /\ FirstPost.what = "start" /\ StopPosted'
  BY <1>1, <1>3, <1>9, CallTaken
<1>10. ASSUME FirstPost.what \in CallWhats, FirstPost.token # sessionToken, KeepsSession
       PROVE  KbInv'
  <2>1. UNCHANGED <<session, awaiting, watchdog>> /\ ~CurrentCall(FirstPost)
    BY <1>10 DEF KeepsSession, CurrentCall, CallOf
  <2>2. IsLive' = IsLive /\ \A p : CurrentCall(p)' = CurrentCall(p)
    BY <1>1, <2>1 DEF IsLive, CurrentCall
  <2>3. InQueue(looper') \subseteq InQueue(looper) /\ \A p \in InQueue(looper) : CurrentCall(p) => p \in InQueue(looper')
    BY <1>9, <1>10, <2>1
  <2>4. TokensKnown'
    <3>1. /\ session' # NoSession => session'.run # NoRun /\ session'.token <= sessionToken'
          /\ session' = NoSession => ~awaiting'
      BY <1>1, <1>3, <2>1 DEF TokensKnown
    <3>2. /\ \A p \in InQueue(looper') : p.what \in CallWhats => p.token <= sessionToken'
          /\ OneCall(looper', sessionToken')
      BY <1>1, <1>9, <1>10
    <3>3. /\ \A p \in InQueue(looper') : CurrentCall(p)' => ~IsLive'
          /\ \A p \in InQueue(looper') : CurrentCall(p)' /\ p.what = "start" => p.run = active' /\ ServiceRun'
          /\ IsLive' => session'.run = active' /\ ServiceRun'
      BY <1>2, <1>3, <1>7, <2>1, <2>2, <2>3 DEF TokensKnown
    <3>4. session' # NoSession /\ ~IsLive' => \E p \in InQueue(looper') : CurrentCall(p)'
      BY <1>3, <2>1, <2>2, <2>3 DEF TokensKnown
    <3>5. QED
      BY <3>1, <3>2, <3>3, <3>4 DEF TokensKnown
  <2>5. ServiceHas'
    <3>1. Starting => Starting'
      BY <2>2, <2>3 DEF Starting
    <3>2. QED
      BY <1>2, <1>3, <1>7, <2>2, <3>1 DEF ServiceHas
  <2>6. StopComes => StopComes'
    <3>1. StopPosted => StopPosted'
      BY <1>9, <1>10 DEF StopPosted, CallWhats
    <3>2. QED
      BY <1>1, <1>9, <1>10, <2>1, <2>2, <3>1 DEF StopComes
  <2>7. SystemTyped'
    BY <1>4, <1>6, <2>1
  <2>8. QED
    BY <1>1, <1>3, <2>4, <2>5, <2>6, <2>7, RecognizerStep
<1>11. ASSUME FirstPost.what \in CallWhats, FirstPost.token = sessionToken
       PROVE  /\ CurrentCall(FirstPost) /\ ~IsLive
              /\ \A p \in InQueue(looper') : ~CallOf(p, sessionToken)
              /\ \A p \in InQueue(looper) : CurrentCall(p) => p = FirstPost
              /\ FirstPost.what = "start" => FirstPost.run = active /\ ServiceRun
  <2>1. CurrentCall(FirstPost)
    BY <1>11 DEF CurrentCall, CallOf
  <2>2. \A p \in InQueue(looper') : ~CallOf(p, sessionToken)
    BY <1>9, <1>11, <2>1
  <2>3. \A p \in InQueue(looper) : CurrentCall(p) => p = FirstPost
    BY <1>9, <1>11, <2>2 DEF CurrentCall
  <2>4. QED
    BY <1>3, <2>1, <2>2, <2>3 DEF TokensKnown
<1>12. CASE FirstPost.what = "start" /\ FirstPost.token = sessionToken /\ SessionBegins(FirstPost)
  <2>1. /\ session' = [token |-> FirstPost.token, run |-> FirstPost.run] /\ awaiting' = FALSE
        /\ watchdog' = "limit"
    BY <1>12 DEF SessionBegins
  <2>2. FirstPost.what \in CallWhats
    BY <1>12 DEF CallWhats
  <2>3. /\ ~IsLive /\ FirstPost.run = active /\ ServiceRun
        /\ \A p \in InQueue(looper') : ~CallOf(p, sessionToken)
    BY <1>11, <1>12, <2>2
  <2>4. active # NoRun
    BY <2>3 DEF ServiceRun, BySystem
  <2>5. /\ session'.run = active /\ session'.token = sessionToken /\ session' # NoSession
        /\ session' \in [token : Nat, run : 0..MaxRuns]
    BY <1>3, <1>4, <1>12, <2>1, <2>3, <2>4 DEF NoSession, Posts
  <2>6. IsLive' /\ ~\E p \in InQueue(looper') : CurrentCall(p)'
    BY <1>1, <2>3, <2>5 DEF IsLive, CurrentCall
  <2>7. TokensKnown'
    <3>1. /\ session' # NoSession => session'.run # NoRun /\ session'.token <= sessionToken'
          /\ session' = NoSession => ~awaiting'
      BY <1>1, <1>4, <2>1, <2>4, <2>5
    <3>2. /\ \A p \in InQueue(looper') : p.what \in CallWhats => p.token <= sessionToken'
          /\ OneCall(looper', sessionToken')
      BY <1>1, <1>9, <2>2
    <3>3. IsLive' => session'.run = active' /\ ServiceRun'
      BY <1>2, <1>7, <2>3, <2>5
    <3>4. QED
      BY <2>6, <3>1, <3>2, <3>3 DEF TokensKnown
  <2>8. ServiceHas'
    BY <2>6 DEF ServiceHas
  <2>9. StopComes => StopComes'
    <3>1. StopComes => StopAfter(looper, sessionToken)
      BY <2>3 DEF StopComes
    <3>2. QED
      BY <1>1, <1>9, <2>2, <2>6, <3>1 DEF StopComes
  <2>10. SystemTyped'
    BY <1>6, <2>1, <2>5 DEF Watchdogs
  <2>11. QED
    BY <1>1, <1>3, <2>7, <2>8, <2>9, <2>10, RecognizerStep
<1>13. CASE FirstPost.what = "cancel" /\ FirstPost.token = sessionToken /\ CancelsOnMain(FirstPost)
  <2>1. session' = NoSession /\ awaiting' = FALSE /\ watchdog' = "off"
    BY <1>13 DEF CancelsOnMain, Destroyed
  <2>2. FirstPost.what \in CallWhats
    BY <1>13 DEF CallWhats
  <2>3. /\ ~IsLive /\ \A p \in InQueue(looper') : ~CallOf(p, sessionToken)
        /\ \A p \in InQueue(looper) : CurrentCall(p) => p = FirstPost
    BY <1>11, <1>13, <2>2
  <2>4. ~IsLive' /\ ~\E p \in InQueue(looper') : CurrentCall(p)'
    BY <1>1, <2>1, <2>3 DEF IsLive, CurrentCall
  <2>5. TokensKnown'
    <3>1. /\ \A p \in InQueue(looper') : p.what \in CallWhats => p.token <= sessionToken'
          /\ OneCall(looper', sessionToken')
      BY <1>1, <1>9, <2>2
    <3>2. QED
      BY <2>1, <2>4, <3>1 DEF TokensKnown
  <2>6. ~Starting
    BY <1>13, <2>3 DEF Starting
  <2>7. ServiceHas' /\ ~(BySystem /\ pipeState = "RECORDING")
    BY <1>2, <1>3, <1>7, <2>3, <2>6 DEF ServiceHas
  <2>8. NoSession \in [token : Nat, run : 0..MaxRuns]
    BY VoiceAssumption DEF NoSession, NoRun
  <2>9. SystemTyped'
    BY <1>6, <2>1, <2>8 DEF Watchdogs
  <2>10. QED
    BY <1>1, <1>3, <2>5, <2>7, <2>9, RecognizerStep
<1>14. "start" \in CallWhats /\ "cancel" \in CallWhats
  BY DEF CallWhats
<1>15. CASE FirstPost.what = "start" /\ SessionBegins(FirstPost)
  BY <1>10, <1>12, <1>14, <1>15 DEF SessionBegins
<1>16. CASE FirstPost.what = "cancel" /\ CancelsOnMain(FirstPost)
  BY <1>10, <1>13, <1>14, <1>16 DEF CancelsOnMain
<1>17. QED
  BY <1>1, <1>8, <1>15, <1>16

\* The end of the speech, and the timeout that asks for one.
LEMMA AwaitsStep ==
  ASSUME KbInv, ServiceEnds \/ RecordingTimeout
  PROVE  KbInv'
<1>1. /\ IsLive /\ awaiting' = TRUE /\ watchdog' \in {"afterStop", "afterEnd"}
      /\ UNCHANGED <<looper, sessionToken, session, voiceVars, keyboardVars>>
  BY DEF ServiceEnds, RecordingTimeout, EndOfSpeech, LimitReached, KeepsKeyboard
<1>2. UNCHANGED <<active, pipeState, currentId, runs, submitted, worker, attribution, clobbered>>
  BY <1>1 DEF voiceVars
<1>3. KbTyped /\ TokensKnown /\ ServiceHas /\ NoCallMoves /\ Freed(looper')
  BY <1>1 DEF KbInv, NoCallMoves, Freed
<1>4. SystemTyped'
  BY <1>1, <1>3 DEF KbTyped, SystemTyped, Watchdogs
<1>5. (ServiceRun => ServiceRun' /\ active' = active) /\ (BySystem' <=> BySystem)
  BY <1>2 DEF ServiceRun, BySystem, AtWork
<1>6. TokensKnown' /\ ServiceHas'
  BY <1>1, <1>2, <1>3, <1>5, SystemStays
<1>7. StopComes'
  BY <1>1 DEF StopComes, IsLive
<1>8. QED
  BY <1>1, <1>3, <1>4, <1>6, <1>7, RecognizerStep
-----------------------------------------------------------------------------
(* The session of the recognizer ends *)

\* The run that has a session, or is about to get it, is that of the pipeline.
LEMMA SessionIs ==
  ASSUME KbInv,
         \/ IsLive
         \/ /\ OnMain({"start"}) /\ FirstPost.token = sessionToken
  PROVE  /\ active # NoRun /\ active \in RunIds /\ active \in Started /\ activeTarget = active
         /\ runs[active].session = "none" /\ RunIsCurrent(active)
         /\ IsLive => session.run = active
         /\ ~IsLive => FirstPost.run = active
<1>1. /\ TokensKnown /\ ActiveIs /\ AfterStart /\ active \in 0..MaxRuns
  BY DEF KbInv, KbTyped, PipeTyped
<1>2. ServiceRun /\ (IsLive => session.run = active) /\ (~IsLive => FirstPost.run = active)
  <2>1. CASE IsLive
    BY <1>1, <2>1 DEF TokensKnown
  <2>2. CASE ~IsLive
    <3>1. looper # << >> /\ FirstPost.what = "start" /\ FirstPost.token = sessionToken
      BY <2>2 DEF OnMain
    <3>2. FirstPost \in InQueue(looper)
      BY <3>1, FirstPostIs
    <3>3. CurrentCall(FirstPost)
      BY <3>1 DEF CurrentCall, CallOf, CallWhats
    <3>4. QED
      BY <1>1, <2>2, <3>1, <3>2, <3>3 DEF TokensKnown
  <2>3. QED
    BY <2>1, <2>2
<1>3. active # NoRun /\ runs[active].session = "none"
  BY <1>2 DEF ServiceRun, BySystem
<1>4. QED
  BY <1>1, <1>2, <1>3 DEF ActiveIs, AfterStart, RunIsCurrent, RunIds, NoRun

\* The end of a session that ends the run, too: it is told to the keyboard.
RunOver(q) ==
  /\ active # NoRun /\ active \in Started /\ active' = NoRun /\ pipeState' = "IDLE"
  /\ UNCHANGED << submitted, runs, currentId, worker, attribution, clobbered, keyboardVars >>
  /\ sessionToken' = sessionToken + 1 /\ Destroyed
  /\ Freed(q) /\ looper' = Append(q, Lambda("error", active))

LEMMA RunOverStep ==
  ASSUME KbInv, NEW q, RunOver(q)
  PROVE  KbInv'
<1>1. /\ active # NoRun /\ active \in Started /\ active' = NoRun /\ pipeState' = "IDLE"
      /\ UNCHANGED <<submitted, runs, currentId, worker, attribution, clobbered>>
      /\ UNCHANGED <<activeTarget, targets, localIo, composing, committed, calledOff, editor,
                     noticed, edits, finger>>
      /\ sessionToken' = sessionToken + 1 /\ Destroyed
      /\ session' = NoSession /\ awaiting' = FALSE /\ watchdog' = "off"
      /\ Freed(q) /\ looper' = Append(q, Lambda("error", active))
  BY DEF RunOver, keyboardVars, Destroyed
<1> DEFINE e == Lambda("error", active)
<1>2. /\ KbTyped /\ TakenOnce /\ TokensKnown /\ AfterStart /\ looper \in Seq(Posts)
      /\ sessionToken \in Nat /\ active \in 0..MaxRuns
  BY DEF KbInv, KbTyped, SystemTyped, PipeTyped
<1>3. e \in Posts /\ e.what = "error" /\ e.run = active
  BY <1>2 DEF Lambda, Posts, Whats, EndWhats
<1>4. "error" \notin Prepares /\ "error" \notin CallWhats /\ "error" \in EndWhats
  BY DEF Prepares, CallWhats, EndWhats
<1>5. q \in Seq(Posts) /\ InQueue(q) \subseteq InQueue(looper)
  BY <1>1, <1>2, TailIs, PostedTail DEF Freed
<1>6. InQueue(looper') = InQueue(q) \cup {e} /\ looper' \in Seq(Posts)
  BY <1>1, <1>3, <1>5, AppendIs, PostedAppend
<1>7. Moved
  BY <1>1, <1>3, <1>4, <1>5 DEF Moved
<1>8. TakenOnce' /\ Taken' = Taken /\ Started \subseteq Started'
  BY <1>1, <1>2, <1>7, TargetsStay DEF KeepsTargets
<1>9. KbTyped'
  <2>1. PipeTyped'
    <3>1. active' \in 0..MaxRuns /\ pipeState' \in PipeStates
      BY <1>1, VoiceAssumption DEF PipeStates, NoRun
    <3>2. QED
      BY <1>1, <1>2, <3>1 DEF KbTyped, PipeTyped
  <2>2. SystemTyped'
    <3>1. NoSession \in [token : Nat, run : 0..MaxRuns]
      BY VoiceAssumption DEF NoSession, NoRun
    <3>2. sessionToken' \in Nat /\ watchdog' \in Watchdogs
      BY <1>1, <1>2 DEF Watchdogs
    <3>3. QED
      BY <1>1, <1>6, <3>1, <3>2 DEF SystemTyped
  <2>3. FieldTyped'
    BY <1>1, <1>2 DEF KbTyped, FieldTyped
  <2>4. QED
    BY <2>1, <2>2, <2>3 DEF KbTyped
<1>10. AfterStart'
  <2>1. \A p \in InQueue(looper') :
          \/ p \in InQueue(looper)
          \/ p.run \in Started /\ p.run # active' /\ p.run # NoRun
    BY <1>1, <1>3, <1>5, <1>6
  <2>2. QED
    BY <1>1, <1>2, <1>8, <2>1, RunsStay
<1>11. InsertedOver'
  BY <1>1, <1>8, InsertedStays DEF KbInv
<1>12. ActiveIs'
  BY <1>1, <1>8 DEF KbInv, ActiveIs
<1>13. TokensKnown' /\ ServiceHas'
  <2>1. \A p \in InQueue(looper') : p \in InQueue(looper) \/ p.what \notin CallWhats
    BY <1>3, <1>4, <1>5, <1>6
  <2>2. TokensKnown'
    BY <1>1, <1>2, <2>1, SessionGone
  <2>3. QED
    BY <1>1, <2>2 DEF ServiceHas, BySystem
<1>14. StateKnown' /\ HoldOver'
  BY <1>1, <1>8 DEF KbInv, StateKnown, HoldOver, IsStopped
<1>15. QED
  BY <1>8, <1>9, <1>10, <1>11, <1>12, <1>13, <1>14 DEF KbInv

\* The end of a session that the run outlives: the worker has a task.
Handed ==
  /\ IsLive /\ sessionToken' = sessionToken + 1 /\ Destroyed
  /\ UNCHANGED << active, currentId, worker, attribution, clobbered, looper, keyboardVars >>
  /\ \/ /\ pipeState' = "TRANSCRIBING" /\ runs' = runs
        /\ submitted' = Append(submitted, [run |-> active, at |-> "transcribed"])
     \/ /\ pipeState' = "RECORDING"
        /\ submitted' = Append(submitted, [run |-> active, at |-> "capture"])
        /\ runs' = [runs EXCEPT ![active].fellBack = TRUE, ![active].session = "ACTIVE"]

LEMMA HandedStep ==
  ASSUME KbInv, Handed
  PROVE  KbInv'
<1>1. /\ IsLive /\ sessionToken' = sessionToken + 1 /\ Destroyed
      /\ UNCHANGED <<active, currentId, worker, attribution, clobbered, looper>>
      /\ UNCHANGED <<activeTarget, targets, localIo, composing, committed, calledOff, editor,
                     noticed, edits, finger>>
      /\ session' = NoSession /\ awaiting' = FALSE /\ watchdog' = "off"
  BY DEF Handed, keyboardVars, Destroyed
<1>2. /\ KbTyped /\ TakenOnce /\ TokensKnown /\ AfterStart /\ ActiveIs /\ looper \in Seq(Posts)
      /\ sessionToken \in Nat /\ runs \in [RunIds -> Run] /\ submitted \in Seq(Task)
  BY DEF KbInv, KbTyped, SystemTyped, PipeTyped
<1>3. /\ active # NoRun /\ active \in RunIds /\ active \in Started /\ activeTarget = active
      /\ runs[active].session = "none"
  BY <1>1, SessionIs
<1> DEFINE fallen == [runs EXCEPT ![active].fellBack = TRUE, ![active].session = "ACTIVE"]
<1>4. \/ pipeState' = "TRANSCRIBING" /\ runs' = runs
      \/ pipeState' = "RECORDING" /\ runs' = fallen
  BY DEF Handed
<1>5. submitted' \in Seq(Task) /\ \A i \in DOMAIN submitted' : submitted'[i].run \in Started
  <2>1. PICK at \in {"capture", "transcribed"} : submitted' = Append(submitted, [run |-> active, at |-> at])
    BY DEF Handed
  <2>2. [run |-> active, at |-> at] \in Task /\ [run |-> active, at |-> at].run = active
    BY <1>3 DEF Task
  <2>3. /\ submitted' \in Seq(Task)
        /\ \A i \in DOMAIN submitted' :
             \/ i \in DOMAIN submitted /\ submitted'[i] = submitted[i]
             \/ submitted'[i] = [run |-> active, at |-> at]
    BY <1>2, <2>1, <2>2, AppendIs
  <2>4. QED
    BY <1>2, <1>3, <2>2, <2>3 DEF AfterStart
<1>6. /\ runs' \in [RunIds -> Run] /\ \A r \in RunIds : r # active => runs'[r] = runs[r]
      /\ runs'[active].cancelled = runs[active].cancelled
      /\ \/ pipeState' = "TRANSCRIBING" /\ runs'[active] = runs[active]
         \/ /\ pipeState' = "RECORDING" /\ runs'[active].session = "ACTIVE"
            /\ runs'[active].fellBack
  <2>1. CASE runs' = runs /\ pipeState' = "TRANSCRIBING"
    BY <1>2, <2>1
  <2>2. CASE runs' = fallen /\ pipeState' = "RECORDING"
    <3>1. runs[active] \in Run
      BY <1>2, <1>3
    <3>2. /\ fallen[active] = [runs[active] EXCEPT !.fellBack = TRUE, !.session = "ACTIVE"]
          /\ \A r \in RunIds : r # active => fallen[r] = runs[r]
      BY <1>2, <1>3
    <3>3. /\ fallen[active] \in Run /\ fallen[active].cancelled = runs[active].cancelled
          /\ fallen[active].session = "ACTIVE" /\ fallen[active].fellBack
      BY <3>1, <3>2 DEF Run, EndStates
    <3>4. fallen \in [RunIds -> Run]
      BY <1>2, <3>2, <3>3
    <3>5. QED
      BY <2>2, <3>2, <3>3, <3>4
  <2>3. QED
    BY <1>4, <2>1, <2>2
<1>7. Moved
  BY <1>1 DEF Moved, Freed
<1>8. TakenOnce' /\ Taken' = Taken /\ Started \subseteq Started'
  BY <1>1, <1>2, <1>7, TargetsStay DEF KeepsTargets
<1>9. KbTyped'
  <2>1. pipeState' \in PipeStates
    BY <1>4 DEF PipeStates
  <2>2. PipeTyped'
    BY <1>1, <1>2, <1>5, <1>6, <2>1 DEF KbTyped, PipeTyped
  <2>3. SystemTyped'
    <3>1. NoSession \in [token : Nat, run : 0..MaxRuns]
      BY VoiceAssumption DEF NoSession, NoRun
    <3>2. sessionToken' \in Nat /\ watchdog' \in Watchdogs
      BY <1>1, <1>2 DEF Watchdogs
    <3>3. QED
      BY <1>1, <1>2, <3>1, <3>2 DEF SystemTyped
  <2>4. FieldTyped'
    BY <1>1, <1>2 DEF KbTyped, FieldTyped
  <2>5. QED
    BY <2>2, <2>3, <2>4 DEF KbTyped
<1>10. AfterStart'
  <2>1. \A i \in DOMAIN submitted' : submitted'[i].run \in Started'
    BY <1>5, <1>8
  <2>2. QED
    BY <1>1, <1>2, <1>8, <2>1 DEF AfterStart
<1>11. InsertedOver'
  BY <1>1, <1>8, InsertedStays DEF KbInv
<1>12. ActiveIs'
  <2>1. \A r \in RunIds : runs'[r].session = "CANCELLED" => runs'[r].cancelled
    BY <1>2, <1>6 DEF ActiveIs
  <2>2. \A r \in RunIds : r \notin Started' => runs'[r] = Fresh
    BY <1>2, <1>3, <1>6, <1>8 DEF ActiveIs
  <2>3. QED
    BY <1>1, <1>2, <1>3, <1>6, <2>1, <2>2 DEF ActiveIs
<1>13. TokensKnown' /\ ServiceHas'
  <2>1. TokensKnown'
    BY <1>1, <1>2, SessionGone
  <2>2. BySystem' => pipeState' = "TRANSCRIBING"
    BY <1>1, <1>6 DEF BySystem
  <2>3. QED
    BY <2>1, <2>2 DEF ServiceHas
<1>14. StateKnown'
  BY <1>1, <1>3, <1>6, <1>8 DEF StateKnown
<1>15. HoldOver'
  <2>1. IsStopped'
    BY <1>1, <1>3, <1>6 DEF IsStopped
  <2>2. QED
    BY <1>1, <1>3, <1>8, <2>1 DEF HoldOver
<1>16. QED
  BY <1>8, <1>9, <1>10, <1>11, <1>12, <1>13, <1>14, <1>15 DEF KbInv

LEMMA SessionEndStep ==
  ASSUME KbInv, SystemStartFails \/ ServiceFails \/ ServiceHears
  PROVE  KbInv'
<1>1. CASE SystemStartFails
  <2>1. /\ OnMain({"start"}) /\ FirstPost.token = sessionToken /\ sessionToken' = sessionToken + 1
        /\ Destroyed /\ PipelineFails(FirstPost.run) /\ KeepsWorker /\ KeepsKeyboard
    BY <1>1 DEF SystemStartFails, SessionBeginFails
  <2>2. /\ FirstPost \in InQueue(looper) /\ CurrentCall(FirstPost)
    BY <2>1, FirstPostIs DEF OnMain, CurrentCall, CallOf, CallWhats
  <2>3. ~IsLive
    BY <2>2 DEF KbInv, TokensKnown
  <2>4. FirstPost.run = active /\ active # NoRun /\ active \in Started /\ RunIsCurrent(active)
    BY <2>1, <2>3, SessionIs
  <2>5. /\ looper' = Append(Tail(looper), Lambda("error", active)) /\ Freed(Tail(looper))
    BY <1>1, <2>1, <2>4 DEF SystemStartFails, OnMain, Freed
  <2>6. RunOver(Tail(looper))
    BY <2>1, <2>4, <2>5 DEF RunOver, PipelineFails, KeepsWorker, KeepsKeyboard
  <2>7. QED
    BY <2>6, RunOverStep
<1>2. ASSUME IsLive, session.run = active, sessionToken' = sessionToken + 1, Destroyed, KeepsWorker,
             KeepsKeyboard, FallsBack(active), looper' = looper
      PROVE  Handed
  BY <1>2 DEF Handed, FallsBack, Submit, KeepsWorker, KeepsKeyboard
<1>3. CASE ServiceFails
  <2>1. /\ IsLive /\ sessionToken' = sessionToken + 1 /\ Destroyed /\ SessionFails(session.run, looper)
        /\ KeepsWorker /\ KeepsKeyboard
    BY <1>3 DEF ServiceFails, SessionEnds, SessionFails
  <2>2. session.run = active /\ active # NoRun /\ active \in Started /\ RunIsCurrent(active)
    BY <2>1, SessionIs
  <2>3. CASE FallsBack(session.run) /\ looper' = looper
    BY <1>2, <2>1, <2>2, <2>3, HandedStep
  <2>4. CASE PipelineFails(session.run) /\ looper' = Append(looper, Lambda("error", active))
    <3>1. RunOver(looper)
      BY <2>1, <2>2, <2>4 DEF RunOver, PipelineFails, KeepsWorker, KeepsKeyboard, Freed
    <3>2. QED
      BY <3>1, RunOverStep
  <2>5. QED
    BY <2>1, <2>2, <2>3, <2>4 DEF SessionFails
<1>4. CASE ServiceHears
  <2>1. /\ IsLive /\ sessionToken' = sessionToken + 1 /\ Destroyed /\ PipelineHears(session.run)
        /\ KeepsWorker /\ KeepsKeyboard /\ looper' = looper
    BY <1>4 DEF ServiceHears, Recognized, SessionEnds
  <2>2. session.run = active /\ RunIsCurrent(active)
    BY <2>1, SessionIs
  <2>3. Handed
    BY <2>1, <2>2 DEF Handed, PipelineHears, Submit, KeepsWorker, KeepsKeyboard
  <2>4. QED
    BY <2>3, HandedStep
<1>5. QED
  BY <1>1, <1>3, <1>4
-----------------------------------------------------------------------------
(* The worker *)

LEMMA WorkerMovesStep ==
  ASSUME KbInv, WorkerMoves
  PROVE  KbInv'
<1>1. /\ UNCHANGED <<looper, sessionToken, session, awaiting, watchdog>>
      /\ UNCHANGED <<activeTarget, targets, localIo, composing, committed, calledOff, editor,
                     noticed, edits, finger>>
      /\ ExecutorStep /\ clobbered' = (clobbered \/ Overwrites)
  BY DEF WorkerMoves, WorkerRuns, systemVars, keyboardVars
<1>2. /\ KbTyped /\ TakenOnce /\ TokensKnown /\ ServiceHas /\ AfterStart /\ ActiveIs /\ StateKnown
      /\ HoldOver /\ submitted \in Seq(Task) /\ active \in 0..MaxRuns
      /\ clobbered \in BOOLEAN /\ worker \in Work /\ pipeState \in PipeStates
      /\ attribution \in Int /\ currentId \in 0..MaxRuns /\ runs \in [RunIds -> Run]
  BY DEF KbInv, KbTyped, PipeTyped
<1>3. submitted # << >> =>
        /\ Head(submitted) \in Task /\ Tail(submitted) \in Seq(Task)
        /\ Head(submitted).run \in RunIds /\ Head(submitted).at \in {"capture", "transcribed"}
        /\ Head(submitted) = submitted[1] /\ 1 \in DOMAIN submitted
        /\ \A i \in DOMAIN Tail(submitted) : i + 1 \in DOMAIN submitted /\ Tail(submitted)[i] = submitted[i + 1]
  <2>1. submitted # << >> =>
          /\ Head(submitted) \in Task /\ Tail(submitted) \in Seq(Task)
          /\ Head(submitted) = submitted[1] /\ 1 \in DOMAIN submitted
          /\ \A i \in DOMAIN Tail(submitted) : i + 1 \in DOMAIN submitted /\ Tail(submitted)[i] = submitted[i + 1]
    BY <1>2, TailIs
  <2>2. \A task \in Task : task.run \in RunIds /\ task.at \in {"capture", "transcribed"}
    BY DEF Task
  <2>3. QED
    BY <2>1, <2>2
<1>4. WorkerMoved
  <2>1. WorkerTyped
    BY <1>2, <1>3 DEF WorkerTyped, AfterStart, EndWhats
  <2>2. QED
    BY <1>1, <2>1, WorkerIs
<1>5. /\ worker' \in Work /\ pipeState' \in PipeStates /\ UNCHANGED <<currentId, runs, attribution>>
      /\ active' = active \/ (active = Mine /\ active' = NoRun)
      /\ \/ submitted' = submitted /\ worker' = Resting
         \/ submitted' = submitted /\ worker'.run = Mine /\ worker.pc # "idle"
         \/ /\ submitted # << >> /\ submitted' = Tail(submitted) /\ worker.pc = "idle"
            /\ worker' = Resting \/ (worker'.run = Head(submitted).run /\ worker'.pc # "idle")
  BY <1>4 DEF WorkerMoved
<1>6. Resting.run = NoRun /\ Resting.pc = "idle" /\ Resting.say = "nothing"
  BY DEF Resting
<1>7. submitted' \in Seq(Task) /\ \A i \in DOMAIN submitted' : \E j \in DOMAIN submitted : submitted'[i] = submitted[j]
  BY <1>2, <1>3, <1>5
<1>8. NoCallMoves /\ Moved
  BY <1>1 DEF NoCallMoves, Moved, Freed
<1>9. TakenOnce' /\ Taken' = Taken /\ Started' = Started
  <2>1. Started' = Started
    BY <1>1 DEF Started, Taken
  <2>2. QED
    BY <1>1, <1>2, <1>8, <2>1, TargetsStay DEF KeepsTargets
<1>10. KbTyped'
  <2>1. active' \in 0..MaxRuns
    BY <1>2, <1>5, VoiceAssumption DEF NoRun
  <2>2. clobbered' \in BOOLEAN
    BY <1>1
  <2>3. PipeTyped'
    BY <1>2, <1>5, <1>7, <2>1, <2>2 DEF PipeTyped
  <2>4. SystemTyped' /\ FieldTyped'
    BY <1>1, <1>2 DEF KbTyped, SystemTyped, FieldTyped
  <2>5. QED
    BY <2>3, <2>4 DEF KbTyped
<1>11. NoRun \notin Started /\ Started \subseteq RunIds
  BY DEF Started, Taken, Targets, RunIds, NoRun
<1>12. /\ worker'.run = NoRun \/ worker'.run = Mine \/ (\E i \in DOMAIN submitted : worker'.run = submitted[i].run)
       /\ worker'.run # NoRun => worker'.run \in Started
  <2>1. worker'.run = NoRun \/ worker'.run = Mine \/ \E i \in DOMAIN submitted : worker'.run = submitted[i].run
    BY <1>3, <1>5, <1>6
  <2>2. QED
    BY <1>2, <2>1 DEF AfterStart, Mine
<1>13. AfterStart'
  <2>1. /\ active' # NoRun => active' \in Started'
        /\ composing' # NoTarget => composing' \in Started'
        /\ worker'.run # NoRun => worker'.run \in Started'
    BY <1>1, <1>2, <1>5, <1>9, <1>12 DEF AfterStart
  <2>2. \A i \in DOMAIN submitted' : submitted'[i].run \in Started'
    BY <1>2, <1>7, <1>9 DEF AfterStart
  <2>3. ASSUME NEW p \in InQueue(looper'), p.what \in {"partial"} \cup EndWhats
        PROVE  p.run \in Started' /\ (p.what \in EndWhats => p.run # active')
    <3>1. p.run \in Started /\ (p.what \in EndWhats => p.run # active)
      BY <1>1, <1>2, <2>3 DEF AfterStart
    <3>2. QED
      BY <1>5, <1>9, <1>11, <3>1
  <2>4. worker'.say \in EndWhats => worker'.pc = "idle"
    BY <1>4 DEF WorkerMoved, EndWhats
  <2>5. worker'.pc # "idle" \/ worker'.say # "nothing" => worker'.run # NoRun
    <3>1. worker.pc # "idle" => Mine # NoRun
      BY <1>2 DEF AfterStart, Mine
    <3>2. submitted # << >> => Head(submitted).run # NoRun
      BY <1>3 DEF RunIds, NoRun
    <3>3. QED
      BY <1>5, <1>6, <3>1, <3>2
  <2>6. worker'.pc = "ending" => active' = NoRun /\ worker'.out \in EndWhats
    BY <1>4 DEF WorkerMoved, EndWhats
  <2>7. ASSUME worker'.pc = "idle" PROVE active' = NoRun \/ active' # worker'.run
    <3>1. CASE worker' = Resting
      BY <1>6, <3>1
    <3>2. CASE worker' # Resting
      <4>1. worker.pc = "ending"
        BY <1>4, <2>7, <3>2 DEF WorkerMoved
      <4>2. worker'.run = Mine /\ (active = NoRun \/ active # Mine)
        BY <1>2, <1>5, <3>2, <4>1 DEF AfterStart, Mine
      <4>3. QED
        BY <1>5, <4>2
    <3>3. QED
      BY <3>1, <3>2
  <2>8. QED
    BY <2>1, <2>2, <2>3, <2>4, <2>5, <2>6, <2>7 DEF AfterStart
<1>14. InsertedOver'
  BY <1>1, <1>9, InsertedStays DEF KbInv
<1>15. ActiveIs'
  BY <1>1, <1>2, <1>5, <1>9 DEF ActiveIs
<1>16. TokensKnown' /\ ServiceHas'
  <2>1. ASSUME ServiceRun PROVE ServiceRun' /\ active' = active
    <3>1. /\ active # NoRun /\ runs[active].session = "none" /\ worker.run # active
          /\ \A i \in DOMAIN submitted : submitted[i].run # active
      BY <2>1 DEF ServiceRun, BySystem, AtWork
    <3>2. active' = active /\ worker'.run # active
      BY <1>5, <1>12, <3>1 DEF Mine
    <3>3. \A i \in DOMAIN submitted' : submitted'[i].run # active
      BY <1>7, <3>1
    <3>4. QED
      BY <1>5, <3>1, <3>2, <3>3 DEF ServiceRun, BySystem, AtWork
  <2>2. pipeState' = pipeState \/ pipeState' # "RECORDING"
    BY <1>4 DEF WorkerMoved
  <2>3. BySystem' /\ pipeState' = "RECORDING" => BySystem /\ pipeState = "RECORDING"
    BY <1>5, <2>2 DEF BySystem
  <2>4. QED
    BY <1>1, <1>2, <1>8, <2>1, <2>3, SystemStays
<1>17. ~clobbered' => ~clobbered /\ ~Overwrites
  <2>1. clobbered' = (clobbered \/ Overwrites)
    BY <1>1
  <2>2. QED
    BY <2>1, Zenon
<1>18. \/ pipeState' = pipeState
       \/ /\ worker.pc \in {"checked", "polishes"} /\ active' = active
          /\ worker'.pc \in Later /\ worker'.run = Mine /\ pipeState' # "RECORDING"
       \/ worker.pc = "ending" /\ pipeState' = "IDLE" /\ active' = active
  BY <1>4 DEF WorkerMoved
<1>19. active # NoRun /\ worker.run = active => RunIsCurrent(Mine)
  BY <1>2 DEF ActiveIs, RunIsCurrent, Mine
<1>20. StateKnown'
  <2>1. ASSUME ~clobbered', active' # NoRun, runs'[active'].session # "none",
               ~runs'[active'].fellBack, ~TooLate'
        PROVE  pipeState' = "RECORDING"
    <3>1. active' = active /\ ~clobbered /\ ~Overwrites
      BY <1>5, <1>17, <2>1
    <3>2. CASE pipeState' = pipeState
      <4>1. TooLate => TooLate'
        BY <1>4, <1>19, <2>1, <3>1 DEF TooLate, WorkerMoved, Mine
      <4>2. QED
        BY <1>2, <1>5, <2>1, <3>1, <3>2, <4>1 DEF StateKnown
    <3>3. CASE pipeState' # pipeState
      <4>1. active # Mine
        <5>1. CASE worker.pc = "ending"
          BY <1>2, <2>1, <3>1, <5>1 DEF AfterStart, Mine
        <5>2. CASE worker.pc # "ending"
          BY <1>18, <2>1, <3>1, <3>3, <5>2 DEF TooLate, Mine
        <5>3. QED
          BY <5>1, <5>2
      <4>2. Overwrites
        BY <2>1, <3>1, <3>3, <4>1 DEF Overwrites
      <4>3. QED
        BY <3>1, <4>2
    <3>4. QED
      BY <3>2, <3>3
  <2>2. ASSUME ~clobbered', activeTarget' # NoTarget, activeTarget' \notin Started'
        PROVE  pipeState' = "IDLE"
    <3>1. pipeState = "IDLE" /\ active = NoRun /\ ~Overwrites
      BY <1>1, <1>2, <1>9, <1>17, <2>2 DEF StateKnown, ActiveIs, AfterStart
    <3>2. CASE pipeState' = pipeState
      BY <3>1, <3>2
    <3>3. CASE pipeState' # pipeState /\ worker.pc # "ending"
      <4>1. worker.pc # "idle"
        BY <1>18, <3>3
      <4>2. active # Mine
        BY <1>2, <3>1, <4>1 DEF AfterStart, Mine
      <4>3. Overwrites
        BY <3>3, <4>2 DEF Overwrites
      <4>4. QED
        BY <3>1, <4>3
    <3>4. CASE worker.pc = "ending"
      BY <1>18, <3>1, <3>4
    <3>5. QED
      BY <3>2, <3>3, <3>4
  <2>3. QED
    BY <2>1, <2>2 DEF StateKnown
<1>21. HoldOver'
  <2>1. IsStopped => IsStopped'
    <3>1. pipeState' = pipeState \/ pipeState' # "RECORDING"
      BY <1>18
    <3>2. StopComes' = StopComes
      BY <1>1 DEF StopComes, IsLive, StopPosted
    <3>3. active' # NoRun /\ worker.run = active /\ worker.pc \in Past =>
            worker'.run = active /\ worker'.pc \in Past
      BY <1>4, <1>5, <1>19 DEF WorkerMoved, Mine
    <3>4. QED
      BY <1>5, <3>1, <3>2, <3>3 DEF IsStopped
  <2>2. QED
    BY <1>1, <1>2, <1>9, <1>17, <2>1 DEF HoldOver
<1>22. QED
  BY <1>9, <1>10, <1>13, <1>14, <1>15, <1>16, <1>20, <1>21 DEF KbInv

LEMMA WorkerStopsStep ==
  ASSUME KbInv, WorkerStopsItself
  PROVE  KbInv'
<1>1. /\ UNCHANGED <<looper, sessionToken, session, awaiting, watchdog>>
      /\ UNCHANGED <<activeTarget, targets, localIo, composing, committed, calledOff, editor,
                     noticed, edits, finger>>
      /\ UNCHANGED <<active, pipeState, currentId, submitted, worker, attribution, clobbered>>
      /\ worker.pc = "capturing" /\ runs[Mine].session = "ACTIVE"
      /\ runs' = [runs EXCEPT ![Mine].session = Stopped(@)]
  BY DEF WorkerStopsItself, VadStops, WorkerAt, RecorderSession, systemVars, keyboardVars
<1>2. /\ KbTyped /\ TakenOnce /\ AfterStart /\ ActiveIs /\ runs \in [RunIds -> Run]
      /\ worker \in Work /\ active \in 0..MaxRuns
  BY DEF KbInv, KbTyped, PipeTyped
<1>3. Mine \in Started /\ Mine \in RunIds /\ runs[Mine] \in Run
  BY <1>1, <1>2 DEF AfterStart, Mine, Started, Taken, Targets
<1>4. /\ runs' \in [RunIds -> Run] /\ \A r \in RunIds : r # Mine => runs'[r] = runs[r]
      /\ runs'[Mine].cancelled = runs[Mine].cancelled /\ runs'[Mine].fellBack = runs[Mine].fellBack
      /\ runs'[Mine].session = "STOPPED"
  <2>1. /\ runs'[Mine] = [runs[Mine] EXCEPT !.session = Stopped(@)]
        /\ \A r \in RunIds : r # Mine => runs'[r] = runs[r]
    BY <1>1, <1>2, <1>3
  <2>2. /\ runs'[Mine] \in Run /\ runs'[Mine].cancelled = runs[Mine].cancelled
        /\ runs'[Mine].fellBack = runs[Mine].fellBack /\ runs'[Mine].session = "STOPPED"
    BY <1>1, <1>3, <2>1 DEF Run, EndStates, Stopped
  <2>3. runs' \in [RunIds -> Run]
    BY <1>1, <1>2, <2>1, <2>2
  <2>4. QED
    BY <2>1, <2>2, <2>3
<1>5. active # NoRun => active \in RunIds
  BY <1>2 DEF RunIds, NoRun
<1>6. NoCallMoves /\ Moved
  BY <1>1 DEF NoCallMoves, Moved, Freed
<1>7. TakenOnce' /\ Taken' = Taken /\ Started \subseteq Started'
  BY <1>1, <1>2, <1>6, TargetsStay DEF KeepsTargets
<1>8. KbTyped'
  <2>1. PipeTyped'
    BY <1>1, <1>2, <1>4 DEF KbTyped, PipeTyped
  <2>2. SystemTyped' /\ FieldTyped'
    BY <1>1, <1>2 DEF KbTyped, SystemTyped, FieldTyped
  <2>3. QED
    BY <2>1, <2>2 DEF KbTyped
<1>9. AfterStart'
  BY <1>1, <1>2, <1>7, RunsStay
<1>10. InsertedOver'
  BY <1>1, <1>7, InsertedStays DEF KbInv
<1>11. ActiveIs'
  <2>1. active # NoRun => activeTarget = active /\ currentId = active /\ ~runs'[active].cancelled
    BY <1>2, <1>3, <1>4, <1>5 DEF ActiveIs
  <2>2. \A r \in RunIds : runs'[r].session = "CANCELLED" => runs'[r].cancelled
    BY <1>2, <1>4 DEF ActiveIs
  <2>3. \A r \in RunIds : r \notin Started' => runs'[r] = Fresh
    BY <1>2, <1>3, <1>4, <1>7 DEF ActiveIs
  <2>4. QED
    BY <1>1, <2>1, <2>2, <2>3 DEF ActiveIs
<1>12. active # NoRun => /\ runs'[active].session = "none" <=> runs[active].session = "none"
                         /\ runs'[active].fellBack = runs[active].fellBack
                         /\ runs[active].session = "STOPPED" => runs'[active].session = "STOPPED"
  BY <1>1, <1>3, <1>4, <1>5
<1>13. TokensKnown' /\ ServiceHas'
  <2>1. (ServiceRun => ServiceRun' /\ active' = active) /\ (BySystem' <=> BySystem)
    BY <1>1, <1>12 DEF ServiceRun, BySystem, AtWork
  <2>2. QED
    BY <1>1, <1>2, <1>6, <2>1, SystemStays DEF KbInv
<1>14. StateKnown'
  BY <1>1, <1>7, <1>12 DEF KbInv, StateKnown, TooLate
<1>15. HoldOver'
  <2>1. StopComes' = StopComes
    BY <1>1 DEF StopComes, IsLive, StopPosted
  <2>2. IsStopped => IsStopped'
    BY <1>1, <1>12, <2>1 DEF IsStopped
  <2>3. QED
    BY <1>1, <1>7, <2>2 DEF KbInv, HoldOver
<1>16. QED
  BY <1>7, <1>8, <1>9, <1>10, <1>11, <1>13, <1>14, <1>15 DEF KbInv
-----------------------------------------------------------------------------
(* Every step *)

\* What the user does: a key, a hold, a cancel, another field or place.
LEMMA UserStep ==
  ASSUME KbInv,
         \/ TapsMicrophone \/ HoldsKey \/ LetsGo \/ PressesCancel
         \/ FieldChanges \/ CursorMoves \/ SelectionUpdated
  PROVE  KbInv'
<1> USE DEF KeepsEditor, KeepsGhosts, KeepsTargets
<1>1. /\ finger \in {"up", "held"} /\ noticed \in 0..1 /\ edits \in 0..MaxEdits
      /\ editor \in [open : BOOLEAN, sensitive : BOOLEAN, epoch : 0..MaxEdits, place : 0..1]
      /\ editor.epoch <= edits
  BY DEF KbInv, KbTyped, FieldTyped
<1>2. /\ editor.place \in 0..1 /\ editor.epoch \in 0..MaxEdits /\ editor.open \in BOOLEAN
      /\ editor.sensitive \in BOOLEAN
  BY <1>1
<1>3. CASE TapsMicrophone
  <2>1. UNCHANGED <<editor, noticed, edits, committed, calledOff, composing, finger>>
    BY <1>3 DEF TapsMicrophone
  <2>2. CASE ToggleStops
    <3>1. KeyStops
      BY <1>1, <2>1, <2>2 DEF ToggleStops, KeyStops
    <3>2. QED
      BY <3>1, KeyStopsStep
  <2>3. CASE ToggleBegins(FALSE)
    <3>1. PICK t \in Targets, place \in Places : Takes(t, place)
      BY <2>1, <2>3, TakesIs
    <3>2. QED
      BY <3>1, TakesStep
  <2>4. QED
    BY <1>3, <2>2, <2>3, Zenon DEF TapsMicrophone
<1>4. CASE HoldsKey
  <2>1. UNCHANGED <<editor, noticed, edits, committed, calledOff, composing>> /\ finger' = "held"
    BY <1>4 DEF HoldsKey
  <2>2. CASE ToggleStops
    <3>1. KeyStops
      BY <2>1, <2>2 DEF ToggleStops, KeyStops
    <3>2. QED
      BY <3>1, KeyStopsStep
  <2>3. CASE ToggleBegins(TRUE)
    <3>1. PICK t \in Targets, place \in Places : Takes(t, place)
      BY <2>1, <2>3, TakesIs
    <3>2. QED
      BY <3>1, TakesStep
  <2>4. CASE TogglesNothing
    <3>1. EditorStep
      BY <1>1, <2>1, <2>4 DEF TogglesNothing, EditorStep
    <3>2. QED
      BY <3>1, EditorKeeps
  <2>5. QED
    BY <1>4, <2>2, <2>3, <2>4, Zenon DEF HoldsKey
<1>5. CASE LetsGo
  <2>1. UNCHANGED <<editor, noticed, edits>> /\ finger' = "up"
    BY <1>5 DEF LetsGo
  <2>2. CASE TooShort /\ CancelsDictation
    <3>1. Cancelled /\ FieldKept
      BY <1>1, <2>1, <2>2, CancelsIs DEF FieldKept
    <3>2. QED
      BY <3>1, CancelledStep
  <2>3. CASE /\ ~TooShort /\ UNCHANGED <<committed, calledOff, targets, localIo, activeTarget, composing>>
             /\ IF pipeState = "RECORDING" THEN StopsRecording ELSE UNCHANGED << voiceVars, systemVars >>
    <3>1. KeyStops
      BY <2>1, <2>3 DEF TooShort, KeyStops
    <3>2. QED
      BY <3>1, KeyStopsStep
  <2>4. QED
    BY <1>5, <2>2, <2>3 DEF LetsGo
<1>6. CASE PressesCancel
  <2>1. Cancelled /\ FieldKept
    BY <1>1, <1>6, CancelsIs DEF PressesCancel, FieldKept
  <2>2. QED
    BY <2>1, CancelledStep
<1>7. CASE FieldChanges
  <2>1. /\ edits < MaxEdits /\ edits' = edits + 1 /\ CancelsDictation /\ noticed' = 0 /\ finger' = finger
    BY <1>7 DEF FieldChanges
  <2>2. PICK open \in BOOLEAN, sensitive \in BOOLEAN :
          editor' = [open |-> open, sensitive |-> sensitive, epoch |-> editor.epoch + 1, place |-> 0]
    BY <1>7 DEF FieldChanges
  <2>3. editor.epoch + 1 \in 0..MaxEdits /\ editor.epoch + 1 <= edits' /\ edits' \in 0..MaxEdits
    BY <1>1, <1>2, <2>1, KeyboardAssumption
  <2>4. FieldKept
    BY <1>1, <2>1, <2>2, <2>3 DEF FieldKept
  <2>5. QED
    BY <2>1, <2>4, CancelsIs, CancelledStep
<1>8. CASE CursorMoves
  <2>1. /\ edits < MaxEdits /\ edits' = edits + 1 /\ editor' = [editor EXCEPT !.place = 1 - @]
        /\ UNCHANGED <<committed, calledOff, targets, localIo, noticed, activeTarget, composing, finger,
                       voiceVars, systemVars>>
    BY <1>8 DEF CursorMoves
  <2>2. /\ editor' \in [open : BOOLEAN, sensitive : BOOLEAN, epoch : 0..MaxEdits, place : 0..1]
        /\ editor'.epoch = editor.epoch
    BY <1>1, <1>2, <2>1
  <2>3. edits' \in 0..MaxEdits /\ editor'.epoch <= edits'
    BY <1>1, <1>2, <2>1, <2>2, KeyboardAssumption
  <2>4. EditorStep
    BY <1>1, <2>1, <2>2, <2>3 DEF EditorStep
  <2>5. QED
    BY <2>4, EditorKeeps
<1>9. CASE SelectionUpdated
  <2>1. noticed' = editor.place /\ UNCHANGED <<editor, finger, edits>>
    BY <1>9 DEF SelectionUpdated
  <2>2. CASE CancelsDictation
    <3>1. Cancelled /\ FieldKept
      BY <1>1, <1>2, <2>1, <2>2, CancelsIs DEF FieldKept
    <3>2. QED
      BY <3>1, CancelledStep
  <2>3. CASE UNCHANGED <<committed, calledOff, targets, localIo, activeTarget, composing, voiceVars, systemVars>>
    <3>1. EditorStep
      BY <1>1, <1>2, <2>1, <2>3 DEF EditorStep
    <3>2. QED
      BY <3>1, EditorKeeps
  <2>4. QED
    BY <1>9, <2>2, <2>3 DEF SelectionUpdated
<1>10. QED
  BY <1>3, <1>4, <1>5, <1>6, <1>7, <1>8, <1>9

LEMMA KbStep == KbInv /\ [KeyboardNext]_voiceKeyboardVars => KbInv'
<1> SUFFICES ASSUME KbInv, [KeyboardNext]_voiceKeyboardVars PROVE KbInv'
  OBVIOUS
<1>1. CASE MainStep
  <2>1. CASE PostIsStale \/ PrepareEnds \/ ShowsPartial \/ ResultArrives \/ ErrorArrives
    BY <2>1, PostTakenIs, PostTakenStep
  <2>2. CASE PipelineStarts
    BY <2>2, PipelineStartsStep
  <2>3. CASE PartialFindsOther
    <3>1. FieldKept
      BY <2>3 DEF PartialFindsOther, KeepsEditor, FieldKept, KbInv, KbTyped, FieldTyped
    <3>2. QED
      BY <2>3, <3>1, PartialFindsIs, CancelledStep
  <2>4. CASE SystemPost
    BY <2>4, SystemPostStep
  <2>5. CASE SystemStartFails
    BY <2>5, SessionEndStep
  <2>6. QED
    BY <1>1, <2>1, <2>2, <2>3, <2>4, <2>5 DEF MainStep
<1>2. CASE \/ TapsMicrophone \/ HoldsKey \/ LetsGo \/ PressesCancel
           \/ FieldChanges \/ CursorMoves \/ SelectionUpdated
  BY <1>2, UserStep
<1>3. CASE LoadsSettings
  BY <1>3, LoadsStep
<1>4. CASE ServiceFails \/ ServiceHears
  BY <1>4, SessionEndStep
<1>5. CASE ServiceEnds \/ RecordingTimeout
  BY <1>5, AwaitsStep
<1>6. CASE PartialHeard \/ WorkerSays
  BY <1>6, ListenerStep
<1>7. CASE WorkerMoves
  BY <1>7, WorkerMovesStep
<1>8. CASE WorkerStopsItself
  BY <1>8, WorkerStopsStep
<1>9. CASE UNCHANGED voiceKeyboardVars
  <2>1. EditorStep
    BY <1>9 DEF voiceKeyboardVars, keyboardVars, EditorStep, KbInv, KbTyped, FieldTyped
  <2>2. QED
    BY <2>1, EditorKeeps
<1>10. QED
  BY <1>1, <1>2, <1>3, <1>4, <1>5, <1>6, <1>7, <1>8, <1>9 DEF KeyboardNext
-----------------------------------------------------------------------------
(* The theorems *)

LEMMA KbAlways == KeyboardSpec => []KbInv
  BY KbInitially, KbStep, PTL DEF KeyboardSpec

\* The states of the pipeline, of the recognizer and of the keyboard are of
\* their types, however many dictations are begun (VoicePipeline.java,
\* AndroidSystemRecognizer.java, OpenTypelessImeService.java).
THEOREM KeyboardTypes == KeyboardSpec => []KeyboardTypeOK
<1>1. KbInv => KeyboardTypeOK
  <2> SUFFICES ASSUME KbInv PROVE KeyboardTypeOK
    OBVIOUS
  <2>1. PipeTyped /\ SystemTyped /\ FieldTyped
    BY DEF KbInv, KbTyped
  <2>2. 0..MaxRuns = RunIds \cup {NoRun} /\ 0..MaxRuns = Targets \cup {NoTarget}
    BY VoiceAssumption DEF RunIds, NoRun, Targets, NoTarget
  <2>3. VoiceTypeOK
    <3>1. \A i \in DOMAIN submitted : submitted[i] \in Task
      BY <2>1 DEF PipeTyped
    <3>2. QED
      BY <2>1, <2>2, <3>1 DEF PipeTyped, VoiceTypeOK, Run, Work, Task
  <2>4. SystemTypeOK
    BY <2>1, <2>2 DEF SystemTyped, SystemTypeOK
  <2>5. QED
    BY <2>1, <2>2, <2>3, <2>4 DEF FieldTyped, KeyboardTypeOK
<1>2. QED
  BY <1>1, KbAlways, PTL

\* What is spoken for one place of one field is inserted there or nowhere, and
\* not after a cancel: whatever was posted before the cursor or the focus went
\* elsewhere (captureTarget, targetStillValid and commitResult of
\* OpenTypelessImeService.java).
THEOREM SpokenStays == KeyboardSpec => []SpokenTextStaysInItsField
<1>1. KbInv => SpokenTextStaysInItsField
  BY DEF KbInv, InsertedOver, SpokenTextStaysInItsField
<1>2. QED
  BY <1>1, KbAlways, PTL

\* What a hold of the key began does not listen once the key is up, a recognizer
\* of the system that nobody waits for is about to be destroyed, and no start of
\* the pipeline meets a run (finishHoldToTalk of OpenTypelessImeService.java,
\* AndroidSystemRecognizer.java).
THEOREM NothingListens == KeyboardSpec => []NothingListensUnasked
<1>1. KbInv => NothingListensUnasked
  <2> SUFFICES ASSUME KbInv PROVE NothingListensUnasked
    OBVIOUS
  <2>1. TokensKnown /\ ActiveIs /\ HoldOver
    BY DEF KbInv
  <2>2. looper \in Seq(Posts) /\ sessionToken \in Nat
    BY DEF KbInv, KbTyped, SystemTyped
  <2>3. ASSUME NEW p \in InQueue(looper) PROVE \E i \in DOMAIN looper : looper[i] = p
    BY DEF InQueue
  <2>4. NeverRefused
    BY <2>1 DEF ActiveIs, NeverRefused
  <2>5. NoRecognizerIsLeft
    <3>1. ASSUME session # NoSession, ~IsLive
          PROVE  \E i \in DOMAIN looper : looper[i].what \in CallWhats /\ looper[i].token = sessionToken
      <4>1. PICK p \in InQueue(looper) : CurrentCall(p)
        BY <2>1, <3>1 DEF TokensKnown
      <4>2. QED
        BY <2>3, <4>1 DEF CurrentCall, CallOf
    <3>2. QED
      BY <3>1 DEF NoRecognizerIsLeft, CallWhats
  <2>6. FingerUpNothingListens
    <3>1. ASSUME active # NoRun, targets[active].byHold, finger = "up", ~runs[active].fellBack, ~clobbered
          PROVE  AskedToStop(active)
      <4>1. activeTarget = active /\ activeTarget # NoTarget
        BY <2>1, <3>1 DEF ActiveIs, NoTarget, NoRun
      <4>2. IsStopped
        BY <2>1, <3>1, <4>1 DEF HoldOver
      <4>3. StopComes => awaiting \/ \E i \in DOMAIN looper : looper[i].what = "stop"
        <5>1. StopComes => awaiting \/ \E p \in InQueue(looper) : p.what = "stop"
          BY <2>2, StopQueue DEF StopComes, StopPosted
        <5>2. QED
          BY <2>3, <5>1
      <4>4. CASE runs[active].session = "none"
        BY <3>1, <4>2, <4>3, <4>4 DEF IsStopped, AskedToStop
      <4>5. CASE runs[active].session # "none"
        BY <3>1, <4>2, <4>5 DEF IsStopped, AskedToStop, Past, Later
      <4>6. QED
        BY <4>4, <4>5
    <3>2. QED
      BY <3>1 DEF FingerUpNothingListens
  <2>7. QED
    BY <2>4, <2>5, <2>6 DEF NothingListensUnasked
<1>2. QED
  BY <1>1, KbAlways, PTL
=============================================================================
