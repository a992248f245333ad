-------------------------- MODULE RecognitionProofs --------------------------
(***************************************************************************)
(* Lemmas about VoicePipeline for the theorems about its two users, the    *)
(* recognition service and the keyboard (KeyboardProofs cites them too):   *)
(* what a step of the worker does to what is shared, for every number of   *)
(* runs; and how a queue grows and shrinks.  Then the theorems about       *)
(* RecognitionService, for every number of clients: its sessions do not    *)
(* mix, whatever the threads and the callers do.                           *)
(***************************************************************************)
EXTENDS RecognitionService, TLAPS

-----------------------------------------------------------------------------
(* Sequences *)

LEMMA AppendIs ==
  ASSUME NEW S, NEW s \in Seq(S), NEW e \in S
  PROVE  /\ Append(s, e) \in Seq(S)
         /\ \A i \in DOMAIN Append(s, e) : \/ i \in DOMAIN s /\ Append(s, e)[i] = s[i]
                                           \/ i = Len(s) + 1 /\ Append(s, e)[i] = e
         /\ \A i \in DOMAIN s : i \in Int /\ i <= Len(s)
         /\ \A i \in DOMAIN s : i \in DOMAIN Append(s, e) /\ Append(s, e)[i] = s[i]
         /\ Len(s) \in Int /\ Len(s) + 1 \in DOMAIN Append(s, e) /\ Append(s, e)[Len(s) + 1] = e
  OBVIOUS

LEMMA TailIs ==
  ASSUME NEW S, NEW s \in Seq(S), s # << >>
  PROVE  /\ Tail(s) \in Seq(S) /\ Head(s) = s[1] /\ Head(s) \in S /\ 1 \in DOMAIN s
         /\ \A i \in DOMAIN Tail(s) : i \in Int /\ i + 1 \in DOMAIN s /\ i + 1 > 1 /\ Tail(s)[i] = s[i + 1]
         /\ \A i \in DOMAIN s : i \in Int
  OBVIOUS

LEMMA TailBack ==
  ASSUME NEW S, NEW s \in Seq(S), s # << >>
  PROVE  \A i \in DOMAIN s : i = 1 \/ (i - 1 \in DOMAIN Tail(s) /\ Tail(s)[i - 1] = s[i])
<1>1. Len(Tail(s)) = Len(s) - 1 /\ DOMAIN Tail(s) = 1..Len(Tail(s)) /\ DOMAIN s = 1..Len(s) /\ Len(s) \in Nat
  OBVIOUS
<1>2. ASSUME NEW i \in DOMAIN s, i # 1
      PROVE  i - 1 \in DOMAIN Tail(s) /\ Tail(s)[i - 1] = s[i]
  <2>1. i - 1 \in 1..(Len(s) - 1) /\ (i - 1) + 1 = i
    BY <1>1, <1>2
  <2>2. \A j \in 1..(Len(s) - 1) : Tail(s)[j] = s[j + 1]
    OBVIOUS
  <2>3. QED
    BY <1>1, <2>1, <2>2
<1>3. QED
  BY <1>2

-----------------------------------------------------------------------------
(* The pipeline: what it keeps, and what the steps of the worker do *)

Recording == {"capture", "opened", "created", "capturing"}
Later     == {"transcribing", "transcribed", "polishes", "polishing", "done"}
Past      == {"captured", "checked"} \cup Later

Run  == [session : EndStates, cancelled : BOOLEAN, fellBack : BOOLEAN]
Work == [run : 0..MaxRuns, pc : WorkerPc, say : Said, as : Int, heard : BOOLEAN, out : Said]

\* What the worker finds.
WorkerTyped ==
  /\ worker \in Work /\ pipeState \in PipeStates /\ attribution \in Int
  /\ submitted # << >> =>
       Head(submitted).run \in RunIds /\ Head(submitted).at \in {"capture", "transcribed"}
  /\ worker.pc = "ending" => worker.out \in {"result", "error"}

\* The worker goes on with its run, or has nothing to do any more.
GoesOn(pc, say) ==
  /\ worker' \in Work /\ worker'.run = Mine /\ worker'.as = worker.as
  /\ worker'.pc = pc /\ worker'.say = say
Rests == worker' = Resting /\ active' = active

\* The run leaves the pipeline and goes to its end.
Leaves ==
  \/ Rests /\ active # Mine
  \/ /\ active = Mine /\ active' = NoRun
     /\ GoesOn("ending", "nothing") /\ worker'.out \in {"result", "error"}

LEMMA WorkerGoesOn ==
  ASSUME WorkerTyped, NEW pc \in WorkerPc, NEW say \in Said,
         worker' = [worker EXCEPT !.pc = pc, !.say = say]
  PROVE  GoesOn(pc, say)
<1>1. worker \in Work
  BY DEF WorkerTyped
<1>2. worker' \in Work
  BY <1>1 DEF Work
<1>3. QED
  BY <1>1, <1>2 DEF GoesOn, Work, Mine

LEMMA RunLeavesIs ==
  ASSUME WorkerTyped, NEW out \in {"result", "error"}, RunLeaves(out)
  PROVE  Leaves
<1>1. worker \in Work /\ "ending" \in WorkerPc /\ {"result", "error", "nothing"} \subseteq Said
  BY DEF WorkerTyped, WorkerPc, Said
<1>2. CASE active = Mine
  <2>1. active' = NoRun /\ worker' = [worker EXCEPT !.pc = "ending", !.say = "nothing", !.out = out]
    BY <1>2 DEF RunLeaves
  <2>2. worker' \in Work
    BY <1>1, <2>1 DEF Work
  <2>3. QED
    BY <1>1, <1>2, <2>1, <2>2 DEF Leaves, GoesOn, Work, Mine
<1>3. CASE active # Mine
  BY <1>3 DEF RunLeaves, Leaves, Rests
<1>4. QED
  BY <1>2, <1>3

\* What all steps of the worker have in common.
WorkerMoved ==
  /\ worker' \in Work /\ pipeState' \in PipeStates
  /\ UNCHANGED <<currentId, runs, attribution>>
  /\ \/ active' = active
     \/ active = Mine /\ active' = NoRun /\ worker'.run = Mine /\ worker'.pc = "ending"
  /\ \/ submitted' = submitted /\ worker' = Resting
     \/ submitted' = submitted /\ worker'.run = Mine /\ worker.pc # "idle"
     \/ /\ submitted # << >> /\ submitted' = Tail(submitted) /\ worker.pc = "idle"
        /\ active' = active
        /\ \/ worker' = Resting
           \/ /\ worker'.run = Head(submitted).run /\ worker'.pc = Head(submitted).at
              /\ worker'.say = "nothing" /\ worker'.pc \in {"capture", "transcribed"}
  /\ worker'.pc = "idle" =>
       worker' = Resting \/ (worker.pc = "ending" /\ worker'.say = worker.out)
  /\ worker'.say \in {"result", "error"} => worker'.pc = "idle"
  /\ worker'.say = "processing" => worker'.pc \in Later
  /\ worker'.pc = "ending" =>
       active = Mine /\ active' = NoRun /\ worker'.out \in {"result", "error"}
  /\ worker'.pc \in Recording => worker.pc \in Recording \/ worker.pc = "idle"
  /\ worker'.pc = "created" => worker'.as = attribution /\ worker.pc = "opened"
  /\ worker'.pc = "capturing" =>
       /\ worker'.as = worker.as
       /\ worker.pc = "capturing" \/ (worker.pc = "created" /\ runs[Mine].session = "ACTIVE")
  /\ \/ pipeState' = pipeState
     \/ /\ worker.pc \in {"checked", "polishes"} /\ active' = active
        /\ pipeState' # "RECORDING" /\ worker'.pc \in Later /\ worker'.run = Mine
     \/ worker.pc = "ending" /\ pipeState' = "IDLE" /\ active' = active
  /\ worker.pc \in Later /\ RunIsCurrent(Mine) =>
       active' = NoRun \/ (worker'.run = Mine /\ worker'.pc \in Later)
  /\ worker.pc \in Past /\ RunIsCurrent(Mine) =>
       active' = NoRun \/ (worker'.run = Mine /\ worker'.pc \in Past)

LEMMA WorkerIs ==
  ASSUME WorkerTyped, ExecutorStep
  PROVE  WorkerMoved
<1>1. /\ worker \in Work /\ pipeState \in PipeStates /\ Resting \in Work
      /\ Resting.pc = "idle" /\ Resting.say = "nothing"
  BY VoiceAssumption DEF WorkerTyped, Work, Resting, WorkerPc, Said, NoRun, BaseContext
<1> DEFINE Keeps == UNCHANGED <<currentId, runs, submitted, attribution>>
<1>2. CASE TaskBegins
  <2>1. /\ submitted # << >> /\ submitted' = Tail(submitted) /\ worker.pc = "idle"
        /\ UNCHANGED <<active, pipeState, currentId, runs, attribution>>
    BY <1>2 DEF TaskBegins, WorkerAt
  <2> DEFINE task == Head(submitted)
  <2>2. task.run \in RunIds /\ task.at \in {"capture", "transcribed"}
    BY <2>1 DEF WorkerTyped
  <2>3. worker' = Resting \/ worker' = [Resting EXCEPT !.run = task.run, !.pc = task.at]
    BY <1>2 DEF TaskBegins
  <2>4. [Resting EXCEPT !.run = task.run, !.pc = task.at] \in Work
    <3>1. task.run \in 0..MaxRuns /\ task.at \in WorkerPc
      BY <2>2, VoiceAssumption DEF RunIds, WorkerPc
    <3>2. QED
      BY <1>1, <3>1 DEF Work
  <2>5. \/ worker' = Resting
        \/ worker'.run = task.run /\ worker'.pc = task.at /\ worker'.say = "nothing"
    BY <2>3 DEF Resting
  <2>6. worker' \in Work /\ (worker'.say = "nothing") /\ worker'.pc \in {"idle", "capture", "transcribed"}
    BY <1>1, <2>2, <2>3, <2>4, <2>5
  <2>7. QED
    BY <1>1, <2>1, <2>2, <2>5, <2>6 DEF WorkerMoved, Recording, Later, Past
<1>3. CASE RecorderOpens
  <2>1. worker.pc = "capture" /\ pipeState' = pipeState /\ Keeps
    BY <1>3 DEF RecorderOpens, WorkerAt, KeepsCalls
  <2>2. (GoesOn("opened", "nothing") /\ active' = active) \/ Leaves
    BY <1>3, WorkerGoesOn, RunLeavesIs DEF RecorderOpens, WorkerGoes, RunFails, Rests, WorkerPc, Said
  <2>3. QED
    BY <1>1, <2>1, <2>2 DEF WorkerMoved, Recording, Later, Past, GoesOn, Leaves, Rests, RunIsCurrent
<1>4. CASE RecorderCreates
  <2>1. worker.pc = "opened" /\ pipeState' = pipeState /\ Keeps
    BY <1>4 DEF RecorderCreates, WorkerAt, KeepsCalls
  <2>2. CASE RunFails
    BY <1>1, <2>1, <2>2, RunLeavesIs DEF WorkerMoved, Recording, Later, Past, RunFails, Leaves, GoesOn, Rests
  <2>3. CASE ~RunFails
    <3>1. /\ worker' = [worker EXCEPT !.pc = "created", !.say = "nothing", !.as = attribution]
          /\ active' = active
      BY <1>4, <2>3 DEF RecorderCreates
    <3>2. attribution \in Int
      BY VoiceAssumption DEF WorkerTyped
    <3>3. worker' \in Work
      BY <1>1, <3>1, <3>2 DEF Work, WorkerPc, Said
    <3>4. worker'.run = Mine /\ worker'.pc = "created" /\ worker'.say = "nothing" /\ worker'.as = attribution
      BY <1>1, <3>1 DEF Work, Mine
    <3>5. QED
      BY <1>1, <2>1, <3>1, <3>3, <3>4 DEF WorkerMoved, Recording, Later, Past
  <2>4. QED
    BY <2>2, <2>3
<1>5. CASE RecorderStarts
  <2>1. worker.pc = "created" /\ pipeState' = pipeState /\ Keeps
    BY <1>5 DEF RecorderStarts, WorkerAt, KeepsCalls
  <2>2. CASE RunFails
    BY <1>1, <2>1, <2>2, RunLeavesIs DEF WorkerMoved, Recording, Later, Past, RunFails, Leaves, GoesOn, Rests
  <2>3. CASE ~RunFails
    <3>1. /\ runs[Mine].session = "ACTIVE" /\ active' = active
          /\ \E say \in {"ready", "nothing"} : worker' = [worker EXCEPT !.pc = "capturing", !.say = say]
      BY <1>5, <2>3 DEF RecorderStarts, WorkerCalls, MayRecord, RecorderSession
    <3>2. PICK say \in {"ready", "nothing"} : GoesOn("capturing", say)
      BY <3>1, WorkerGoesOn DEF WorkerPc, Said
    <3>3. QED
      BY <1>1, <2>1, <3>1, <3>2 DEF WorkerMoved, Recording, Later, Past, GoesOn
  <2>4. QED
    BY <2>2, <2>3
<1>6. CASE RecorderHears
  <2>1. worker.pc = "capturing" /\ UNCHANGED <<active, pipeState>> /\ Keeps
    BY <1>6 DEF RecorderHears, WorkerAt, KeepsShared, KeepsCalls
  <2>2. PICK say \in {"beginning", "nothing"} : worker' = [worker EXCEPT !.heard = TRUE, !.say = say]
    BY <1>6 DEF RecorderHears
  <2>3. worker' \in Work
    BY <1>1, <2>2 DEF Work, Said
  <2>4. worker'.run = Mine /\ worker'.pc = "capturing" /\ worker'.say = say /\ worker'.as = worker.as
    BY <1>1, <2>1, <2>2 DEF Work, Mine
  <2>5. QED
    BY <1>1, <2>1, <2>3, <2>4 DEF WorkerMoved, Recording, Later, Past
<1>7. CASE RecorderEnds
  <2>1. worker.pc = "capturing" /\ pipeState' = pipeState /\ Keeps
    BY <1>7 DEF RecorderEnds, WorkerAt, KeepsCalls
  <2>2. (GoesOn("captured", "nothing") /\ active' = active) \/ Leaves
    BY <1>7, WorkerGoesOn, RunLeavesIs DEF RecorderEnds, WorkerGoes, RunFails, Rests, WorkerPc, Said
  <2>3. QED
    BY <1>1, <2>1, <2>2 DEF WorkerMoved, Recording, Later, Past, GoesOn, Leaves, Rests, RunIsCurrent
<1>8. CASE RecorderChecked
  <2>1. worker.pc = "captured" /\ UNCHANGED <<active, pipeState>> /\ Keeps
    BY <1>8 DEF RecorderChecked, WorkerAt, KeepsShared, KeepsCalls
  <2>2. CASE RunIsCurrent(Mine)
    <3>1. GoesOn("checked", "nothing")
      BY <1>8, <2>2, WorkerGoesOn DEF RecorderChecked, WorkerPc, Said
    <3>2. QED
      BY <1>1, <2>1, <3>1 DEF WorkerMoved, Recording, Later, Past, GoesOn
  <2>3. CASE ~RunIsCurrent(Mine)
    <3>1. worker' = Resting
      BY <1>8, <2>3 DEF RecorderChecked
    <3>2. QED
      BY <1>1, <2>1, <2>3, <3>1 DEF WorkerMoved, Recording, Later, Past, RunIsCurrent
  <2>4. QED
    BY <2>2, <2>3
<1>9. CASE RunTranscribes
  <2>1. worker.pc = "checked" /\ pipeState' = "TRANSCRIBING" /\ active' = active /\ Keeps
    BY <1>9 DEF RunTranscribes, WorkerAt, KeepsCalls
  <2>2. GoesOn("transcribing", "processing")
    BY <1>9, WorkerGoesOn DEF RunTranscribes, WorkerPc, Said
  <2>3. QED
    BY <1>1, <2>1, <2>2 DEF WorkerMoved, Recording, Later, Past, GoesOn, PipeStates
<1>10. CASE RunAnswered
  <2>1. worker.pc = "transcribing" /\ pipeState' = pipeState /\ Keeps
    BY <1>10 DEF RunAnswered, WorkerAt, KeepsCalls
  <2>2. (GoesOn("transcribed", "nothing") /\ active' = active) \/ Leaves
    BY <1>10, WorkerGoesOn, RunLeavesIs DEF RunAnswered, WorkerGoes, RunFails, Rests, WorkerPc, Said
  <2>3. QED
    BY <1>1, <2>1, <2>2 DEF WorkerMoved, Recording, Later, Past, GoesOn, Leaves, Rests, RunIsCurrent
<1>11. CASE RunPersonalizes
  <2>1. worker.pc = "transcribed" /\ pipeState' = pipeState /\ Keeps
    BY <1>11 DEF RunPersonalizes, WorkerAt, KeepsCalls
  <2>2. \/ ~RunIsCurrent(Mine) /\ Rests
        \/ (GoesOn("done", "nothing") \/ GoesOn("polishes", "nothing")) /\ active' = active
        \/ RunIsCurrent(Mine) /\ Leaves
    BY <1>11, WorkerGoesOn, RunLeavesIs DEF RunPersonalizes, WorkerGoes, RunFails, Rests, WorkerPc, Said
  <2>3. RunIsCurrent(Mine) => active = Mine
    BY DEF RunIsCurrent
  <2>4. QED
    BY <1>1, <2>1, <2>2, <2>3 DEF WorkerMoved, Recording, Later, Past, GoesOn, Leaves, Rests
<1>12. CASE RunPolishes
  <2>1. worker.pc = "polishes" /\ pipeState' = "POLISHING" /\ active' = active /\ Keeps
    BY <1>12 DEF RunPolishes, WorkerAt, KeepsCalls
  <2>2. GoesOn("polishing", "processing")
    BY <1>12, WorkerGoesOn DEF RunPolishes, WorkerPc, Said
  <2>3. QED
    BY <1>1, <2>1, <2>2 DEF WorkerMoved, Recording, Later, Past, GoesOn, PipeStates
<1>13. CASE RunPolished
  <2>1. worker.pc = "polishing" /\ pipeState' = pipeState /\ Keeps
    BY <1>13 DEF RunPolished, WorkerAt, KeepsCalls
  <2>2. (GoesOn("done", "nothing") /\ active' = active) \/ Leaves
    BY <1>13, WorkerGoesOn, RunLeavesIs DEF RunPolished, WorkerGoes, RunFails, Rests, WorkerPc, Said
  <2>3. QED
    BY <1>1, <2>1, <2>2 DEF WorkerMoved, Recording, Later, Past, GoesOn, Leaves, Rests, RunIsCurrent
<1>14. CASE RunDone
  <2>1. worker.pc = "done" /\ pipeState' = pipeState /\ Keeps
    BY <1>14 DEF RunDone, WorkerAt, KeepsCalls
  <2>2. (~RunIsCurrent(Mine) /\ Rests) \/ (RunIsCurrent(Mine) /\ Leaves)
    BY <1>14, RunLeavesIs DEF RunDone, Rests
  <2>4. QED
    BY <1>1, <2>1, <2>2 DEF WorkerMoved, Recording, Later, Past, GoesOn, Leaves, Rests, RunIsCurrent
<1>15. CASE RunEnds
  <2>1. worker.pc = "ending" /\ pipeState' = "IDLE" /\ active' = active /\ Keeps
    BY <1>15 DEF RunEnds, WorkerAt, KeepsCalls
  <2>2. worker' = [Resting EXCEPT !.run = Mine, !.say = worker.out]
    BY <1>15 DEF RunEnds
  <2>3. worker' \in Work
    BY <1>1, <2>2 DEF Work, Mine
  <2>4. worker'.run = Mine /\ worker'.pc = "idle" /\ worker'.say = worker.out
    BY <2>2 DEF Resting
  <2>5. worker.out \in {"result", "error"}
    BY <2>1 DEF WorkerTyped
  <2>6. QED
    BY <1>1, <2>1, <2>3, <2>4, <2>5 DEF WorkerMoved, Recording, Later, Past, PipeStates
<1>16. QED
  BY <1>2, <1>3, <1>4, <1>5, <1>6, <1>7, <1>8, <1>9, <1>10, <1>11, <1>12, <1>13, <1>14, <1>15 DEF ExecutorStep

-----------------------------------------------------------------------------
(* The recognition service: the inductive invariant                          *)

RunningPhases == {"PREPARING", "RUNNING"}

Tellings == {"ready", "beginning", "end", "results", "error"}
Message  == [to : Clients, what : Tellings]
Capture  == [run : RunIds, at : {"capture"}]
Client   == [who : 0..MaxRuns, state : {"IDLE", "STARTING", "LISTENING", "PROCESSING"},
             ready : BOOLEAN, beginning : BOOLEAN, ended : BOOLEAN]

EngineTyped ==
  /\ active \in 0..MaxRuns /\ currentId \in 0..MaxRuns /\ attribution \in 0..MaxRuns
  /\ pipeState \in PipeStates /\ clobbered \in BOOLEAN
  /\ runs \in [RunIds -> Run] /\ submitted \in Seq(Capture) /\ worker \in Work

ServiceTyped ==
  /\ came \in 0..MaxRuns /\ activeCallback \in 0..MaxRuns /\ controller \in Client
  /\ phase \in {"IDLE", "PREPARING", "RUNNING", "SHUTDOWN"} /\ token \in 0..MaxRuns
  /\ preparations \in Seq(Clients) /\ preparing \in 0..MaxRuns /\ endTold \subseteq Clients
  /\ mainThread \in {"free", "stopping", "failing", "cancelling"}
  /\ posts \in Seq(Message) /\ answers \in [Clients -> Seq(Tellings)]

\* Controller, engine and recorder speak of the client that is served; only
\* what the main thread has yet to do makes them differ.
Served ==
  /\ activeCallback <= came
  /\ controller.who \in {Nobody, activeCallback}
  /\ phase \in RunningPhases =>
       token # Nobody /\ token = activeCallback /\ attribution = token
  /\ phase \in RunningPhases /\ mainThread # "cancelling" => controller.who = token
  /\ phase \notin RunningPhases => token = Nobody /\ attribution = BaseContext /\ active = NoRun
  /\ controller.who # Nobody /\ mainThread # "failing" => phase \in RunningPhases
  /\ controller.who = Nobody => controller = NoClient
  /\ phase = "PREPARING" => active = NoRun
  /\ active # NoRun => active = token /\ currentId = active /\ ~runs[active].cancelled

\* What the main thread has begun.
MainKnown ==
  /\ mainThread # "free" => activeCallback # Nobody
  /\ mainThread = "cancelling" => controller.who = Nobody
  /\ mainThread = "failing" => phase = "IDLE" /\ controller.who = activeCallback
  /\ phase = "SHUTDOWN" => mainThread = "free" /\ activeCallback = Nobody

\* A session is prepared once and run once.
Awaited == {preparations[i] : i \in DOMAIN preparations} \cup {preparing}
OnceEach ==
  /\ \A i \in DOMAIN preparations : preparations[i] <= came /\ preparations[i] # preparing
  /\ \A i, j \in DOMAIN preparations : i < j => preparations[i] # preparations[j]
  /\ preparing <= came
  /\ phase = "RUNNING" => token \notin Awaited
  /\ phase = "PREPARING" => token \in Awaited
  /\ \A i \in DOMAIN submitted : submitted[i].run \notin Awaited /\ submitted[i].run <= came
  /\ \A i \in DOMAIN submitted : submitted[i].run # worker.run
  /\ \A i, j \in DOMAIN submitted : i < j => submitted[i].run # submitted[j].run
  /\ worker.run # NoRun => worker.run \notin Awaited /\ worker.run <= came
  /\ \A r \in RunIds : r > came \/ r \in Awaited => ~runs[r].cancelled

\* The run of the worker has left the pipeline before its end is told.
WorkerKnown ==
  /\ worker.pc # "idle" => worker.run # NoRun
  /\ worker.say \in {"result", "error"} => worker.pc = "idle"
  /\ worker.say # "nothing" => worker.run # NoRun
  /\ worker.run # NoRun /\ worker.pc \in {"idle", "ending"} => active # worker.run
  /\ worker.say = "processing" => worker.pc \in Later
  /\ worker.pc = "ending" => worker.out \in {"result", "error"}

\* A recording that may go on is that of the client that is served.
Owned(r, run, client) == run = r /\ client = r
RecordingOwned ==
  /\ \A i \in DOMAIN submitted :
       runs[submitted[i].run].session = "ACTIVE" => Owned(submitted[i].run, active, attribution)
  /\ worker.pc \in Recording /\ runs[Mine].session = "ACTIVE" => Owned(Mine, active, attribution)
  /\ worker.pc = "created" /\ runs[Mine].session = "ACTIVE" => worker.as = Mine
  /\ worker.pc = "capturing" => worker.as = Mine

\* As long as no cancelled run has overwritten it, the state is that of the run.
PastStop == Mine = active /\ worker.pc \in Later     \* to stop the recording
EngineKnown == ~clobbered /\ active # NoRun /\ ~PastStop => pipeState = "RECORDING"

\* The stop of the client has reached the recording, or came when it was over.
StopReached ==
  /\ phase = "PREPARING" /\ mainThread # "stopping" => controller.state # "PROCESSING"
  /\ controller.state = "PROCESSING" /\ mainThread # "stopping" /\ ~clobbered =>
       active = NoRun \/ runs[active].session # "ACTIVE" \/ PastStop

\* How far the session of the controller has come, as its client is told.
Level(s) == IF s.ended THEN 3 ELSE IF s.beginning THEN 2 ELSE IF s.ready THEN 1 ELSE 0

Ascending(p, c) ==
  \A i, j \in DOMAIN p : i < j /\ p[i].to = c /\ p[j].to = c => Rank(p[i].what) < Rank(p[j].what)
Above(p, c, s) ==
  \A j \in DOMAIN p : p[j].to = c => \A i \in DOMAIN s : Rank(s[i]) < Rank(p[j].what)
UpTo(p, c, l)  == \A j \in DOMAIN p : p[j].to = c => Rank(p[j].what) <= l
HeardUpTo(s, l) == \A i \in DOMAIN s : Rank(s[i]) <= l
InOrder(s) == \A i, j \in DOMAIN s : i < j => Rank(s[i]) < Rank(s[j])

\* What p has for client c, who has heard s, is in order, new to it and not past l.
Fitting(p, c, s, l) ==
  /\ p \in Seq(Message) /\ s \in Seq(Tellings)
  /\ Ascending(p, c) /\ Above(p, c, s) /\ UpTo(p, c, l)

Telling ==
  /\ \A c \in Clients : InOrder(answers[c]) /\ (c > came => answers[c] = << >>)
  /\ \A i \in DOMAIN posts : posts[i].to <= came
  /\ activeCallback # Nobody => Fitting(posts, activeCallback, answers[activeCallback], 4)
  /\ controller.who # Nobody =>
       /\ Fitting(posts, controller.who, answers[controller.who], Level(controller))
       /\ HeardUpTo(answers[controller.who], Level(controller))
  /\ controller.beginning => controller.ready
  /\ controller.ended => controller.state = "PROCESSING"

RecInv ==
  /\ EngineTyped /\ ServiceTyped /\ Served /\ MainKnown /\ OnceEach /\ WorkerKnown
  /\ RecordingOwned /\ EngineKnown /\ StopReached /\ Telling

RecSteps == [RecognitionNext]_recognitionVars
-----------------------------------------------------------------------------
(* What the steps do *)

\* The tasks of this service are recordings from their beginning.
SessionMoved == WorkerMoved /\ (worker.pc = "idle" => worker'.pc \in {"idle", "capture"})

LEMMA SessionMovedIs ==
  ASSUME EngineTyped, WorkerKnown, ExecutorStep, worker.say = "nothing"
  PROVE  SessionMoved
<1>1. ASSUME submitted # << >> PROVE Head(submitted) \in Capture
  BY <1>1 DEF EngineTyped
<1>2. submitted # << >> => Head(submitted).run \in RunIds /\ Head(submitted).at = "capture"
  BY <1>1 DEF Capture
<1>3. WorkerTyped
  BY <1>2, VoiceAssumption DEF WorkerTyped, EngineTyped, WorkerKnown
<1>4. WorkerMoved
  BY <1>3, WorkerIs
<1>5. CASE worker.pc = "idle"
  <2>1. worker' = Resting \/ worker'.pc = Head(submitted).at
    BY <1>4, <1>5 DEF WorkerMoved
  <2>2. CASE worker' = Resting
    BY <1>4, <2>2 DEF SessionMoved, Resting
  <2>3. CASE worker' # Resting
    BY <1>2, <1>4, <1>5, <2>1, <2>3 DEF WorkerMoved, SessionMoved
  <2>4. QED
    BY <2>2, <2>3
<1>6. QED
  BY <1>4, <1>5 DEF SessionMoved

\* A client is served only when nothing of a session is left.
LEMMA StartIs ==
  ASSUME EngineTyped, ServiceTyped, Served, StartsListening
  PROVE  /\ IsFree /\ came < MaxRuns /\ came' = came + 1 /\ came' \in Clients
         /\ activeCallback = Nobody /\ controller = NoClient /\ phase = "IDLE" /\ active = NoRun
         /\ activeCallback' = came' /\ attribution' = came' /\ token' = came' /\ phase' = "PREPARING"
         /\ controller' = [NoClient EXCEPT !.who = came', !.state = "STARTING"]
         /\ preparations' = Append(preparations, came')
         /\ UNCHANGED <<posts, answers, active, pipeState, currentId, runs, submitted, worker, preparing,
                        endTold, mainThread, clobbered>>
<1>1. /\ IsFree /\ came < MaxRuns /\ activeCallback = Nobody /\ came' = came + 1
      /\ UNCHANGED <<active, pipeState, currentId, runs, submitted, worker, preparing, endTold,
                     mainThread, clobbered>>
  BY DEF StartsListening
<1>2. came' \in Clients
  BY <1>1, VoiceAssumption DEF ServiceTyped, Clients, RunIds
<1>3. controller = NoClient /\ phase = "IDLE" /\ active = NoRun
  BY <1>1 DEF Served, ServiceTyped, RunningPhases, IsFree, Nobody
<1>4. QED
  BY <1>1, <1>2, <1>3 DEF StartsListening, NoClient

\* A session that is prepared meets no other run.
LEMMA SessionStartIs ==
  ASSUME EngineTyped, ServiceTyped, Served, SessionStarts
  PROVE  /\ preparing # Nobody /\ preparing' = Nobody
         /\ UNCHANGED <<worker, attribution, came, activeCallback, preparations, endTold,
                        mainThread, answers, clobbered, posts, controller>>
         /\ \/ /\ ~IsPrepared(preparing)
               /\ UNCHANGED <<active, pipeState, currentId, runs, submitted, phase, token>>
            \/ /\ phase = "PREPARING" /\ token = preparing /\ active = NoRun
               /\ phase' = "RUNNING" /\ token' = token
               /\ active' = preparing /\ currentId' = preparing /\ pipeState' = "RECORDING"
               /\ runs' = [runs EXCEPT ![preparing].session = "ACTIVE"]
               /\ submitted' = Append(submitted, [run |-> preparing, at |-> "capture"])
<1>1. /\ preparing # Nobody /\ preparing' = Nobody
      /\ UNCHANGED <<worker, attribution, came, activeCallback, preparations, endTold, mainThread,
                     answers, clobbered>>
  BY DEF SessionStarts
<1>2. CASE ~IsPrepared(preparing)
  BY <1>1, <1>2 DEF SessionStarts, ControlsNothing
<1>3. CASE IsPrepared(preparing)
  <2>1. phase = "PREPARING" /\ token = preparing /\ active = NoRun /\ ~RunRefused
    BY <1>3 DEF IsPrepared, Served, RunRefused
  <2>2. StartsRun(preparing, TRUE) /\ phase' = "RUNNING" /\ token' = token /\ ControlsNothing
    BY <1>3, <2>1, Zenon DEF SessionStarts
  <2>3. QED
    BY <1>1, <2>1, <2>2 DEF StartsRun, Submit, ControlsNothing
<1>4. QED
  BY <1>2, <1>3

\* The next thing that client c is told comes after l and gets to m.
TellsNext(c, l, m) ==
  \/ \E x \in Tellings : posts' = Append(posts, [to |-> c, what |-> x]) /\ Rank(x) > l /\ Rank(x) = m
  \/ \E x, y \in Tellings :
       /\ posts' = Append(Append(posts, [to |-> c, what |-> x]), [to |-> c, what |-> y])
       /\ Rank(x) > l /\ Rank(y) > Rank(x) /\ Rank(y) = m

\* An event that is told is the next of its session.
LEMMA ControlsIs ==
  ASSUME ServiceTyped, Telling, NEW c \in Clients,
         NEW what \in {"ready", "beginning", "processing", "result", "error"}, Controls(c, what)
  PROVE  \/ UNCHANGED <<posts, controller>> /\ (what \in {"result", "error"} => controller.who # c)
         \/ /\ controller.who = c
            /\ \/ what \in {"ready", "beginning", "processing"} /\ controller'.who = c
               \/ what \in {"result", "error"} /\ controller' = NoClient
            /\ controller' \in Client
            /\ (controller'.state = "PROCESSING" <=> controller.state = "PROCESSING" \/ what = "processing")
               \/ what \in {"result", "error"}
            /\ controller'.beginning => controller'.ready
            /\ controller'.ended => controller'.state = "PROCESSING"
            /\ Level(controller) \in 0..3
            /\ TellsNext(c, Level(controller),
                    IF what \in {"result", "error"} THEN 4 ELSE Level(controller'))
<1> DEFINE s == controller
           l == Level(controller)
<1>1. /\ s \in Client /\ posts \in Seq(Message) /\ c # Nobody
      /\ s.beginning \in BOOLEAN /\ s.ready \in BOOLEAN /\ s.ended \in BOOLEAN
      /\ (s.beginning => s.ready) /\ (s.ended => s.state = "PROCESSING")
  BY VoiceAssumption DEF ServiceTyped, Telling, Client, Clients, RunIds, Nobody
<1>2. ASSUME NEW x \in Tellings, NEW y \in Tellings
      PROVE  /\ posts \o TellingOf(c, <<x>>) = Append(posts, [to |-> c, what |-> x])
             /\ posts \o TellingOf(c, <<x, y>>) =
                  Append(Append(posts, [to |-> c, what |-> x]), [to |-> c, what |-> y])
  <2>1. TellingOf(c, <<x>>) = <<[to |-> c, what |-> x]>>
    BY DEF TellingOf
  <2>2. TellingOf(c, <<x, y>>) = <<[to |-> c, what |-> x], [to |-> c, what |-> y]>>
    BY DEF TellingOf
  <2>3. [to |-> c, what |-> x] \in Message /\ [to |-> c, what |-> y] \in Message
    BY DEF Message
  <2>4. \A m, n \in Message : /\ posts \o <<m>> = Append(posts, m)
                               /\ posts \o <<m, n>> = Append(Append(posts, m), n)
    BY <1>1
  <2>5. QED
    BY <2>1, <2>2, <2>3, <2>4
<1>3. posts \o TellingOf(c, << >>) = posts
  BY <1>1 DEF TellingOf
<1>4. CASE EventsOf(c, what) = << >>
  <2>1. UNCHANGED <<posts, controller>>
    BY <1>3, <1>4 DEF Controls
  <2>2. what \in {"result", "error"} => controller.who # c
    BY <1>4 DEF EventsOf
  <2>3. QED
    BY <2>1, <2>2
<1>5. CASE EventsOf(c, what) # << >>
  <2>1. /\ s.who = c /\ controller' = After(what)
        /\ posts' = posts \o TellingOf(c, EventsOf(c, what))
    BY <1>5 DEF Controls, EventsOf
  <2>2. Rank("ready") = 1 /\ Rank("beginning") = 2 /\ Rank("end") = 3 /\ Rank("results") = 4 /\ Rank("error") = 4
    BY DEF Rank
  <2>3. CASE what = "ready"
    <3>1. EventsOf(c, what) = <<"ready">> /\ s.state # "PROCESSING" /\ ~s.ready
      BY <1>5, <2>1, <2>3 DEF EventsOf
    <3>2. controller' = [controller EXCEPT !.ready = TRUE, !.state = "LISTENING"]
      BY <2>1, <2>3 DEF After
    <3>3. /\ controller' \in Client /\ controller'.who = c /\ controller'.state = "LISTENING"
          /\ controller'.ready /\ controller'.beginning = s.beginning /\ controller'.ended = s.ended
      BY <1>1, <2>1, <3>2 DEF Client
    <3>4. l = 0 /\ Level(controller') = 1
      BY <1>1, <3>1, <3>3 DEF Level
    <3>5. posts' = Append(posts, [to |-> c, what |-> "ready"])
      BY <1>2, <2>1, <3>1 DEF Tellings
    <3>6. QED
      BY <1>1, <2>1, <2>2, <2>3, <3>1, <3>3, <3>4, <3>5 DEF Tellings, TellsNext
  <2>4. CASE what = "beginning"
    <3>1. /\ EventsOf(c, what) = IF s.ready THEN <<"beginning">> ELSE <<"ready", "beginning">>
          /\ s.state # "PROCESSING" /\ ~s.beginning
      BY <1>5, <2>1, <2>4 DEF EventsOf
    <3>2. controller' = [controller EXCEPT !.ready = TRUE, !.beginning = TRUE, !.state = "LISTENING"]
      BY <2>1, <2>4 DEF After
    <3>3. /\ controller' \in Client /\ controller'.who = c /\ controller'.state = "LISTENING"
          /\ controller'.ready /\ controller'.beginning /\ controller'.ended = s.ended
      BY <1>1, <2>1, <3>2 DEF Client
    <3>4. l \in 0..1 /\ (~s.ready => l = 0) /\ Level(controller') = 2
      BY <1>1, <3>1, <3>3 DEF Level
    <3>5. CASE s.ready
      <4>1. posts' = Append(posts, [to |-> c, what |-> "beginning"])
        BY <1>2, <2>1, <3>1, <3>5 DEF Tellings
      <4>2. QED
        BY <1>1, <2>1, <2>2, <2>4, <3>1, <3>3, <3>4, <4>1 DEF Tellings, TellsNext
    <3>6. CASE ~s.ready
      <4>1. posts' = Append(Append(posts, [to |-> c, what |-> "ready"]), [to |-> c, what |-> "beginning"])
        BY <1>2, <2>1, <3>1, <3>6 DEF Tellings
      <4>2. TellsNext(c, l, 2)
        BY <2>2, <3>4, <3>6, <4>1 DEF Tellings, TellsNext
      <4>3. QED
        BY <1>1, <2>1, <2>4, <3>1, <3>3, <3>4, <4>2
    <3>7. QED
      BY <1>1, <3>5, <3>6
  <2>5. CASE what = "processing"
    <3>1. EventsOf(c, what) = <<"end">> /\ ~s.ended
      BY <1>5, <2>1, <2>5 DEF EventsOf
    <3>2. controller' = [controller EXCEPT !.ended = TRUE, !.state = "PROCESSING"]
      BY <2>1, <2>5 DEF After
    <3>3. /\ controller' \in Client /\ controller'.who = c /\ controller'.state = "PROCESSING"
          /\ controller'.ended /\ controller'.beginning = s.beginning /\ controller'.ready = s.ready
      BY <1>1, <2>1, <3>2 DEF Client
    <3>4. l \in 0..2 /\ Level(controller') = 3
      BY <1>1, <3>1, <3>3 DEF Level
    <3>5. posts' = Append(posts, [to |-> c, what |-> "end"])
      BY <1>2, <2>1, <3>1 DEF Tellings
    <3>6. QED
      BY <1>1, <2>1, <2>2, <2>5, <3>1, <3>3, <3>4, <3>5 DEF Tellings, TellsNext
  <2>6. CASE what \in {"result", "error"}
    <3>1. controller' = NoClient
      BY <2>1, <2>6 DEF After
    <3>2. /\ NoClient \in Client /\ ~NoClient.beginning /\ ~NoClient.ended
      BY VoiceAssumption DEF NoClient, Client, Nobody
    <3>3. l \in 0..3 /\ (~s.ended => l \in 0..2)
      BY <1>1 DEF Level
    <3>4. EventsOf(c, what) = IF what = "error" THEN <<"error">>
                              ELSE IF s.ended THEN <<"results">> ELSE <<"end", "results">>
      BY <2>1, <2>6 DEF EventsOf
    <3>5. CASE what = "error" \/ s.ended
      <4>1. PICK x \in {"error", "results"} : posts' = Append(posts, [to |-> c, what |-> x])
        BY <1>2, <2>1, <3>4, <3>5 DEF Tellings
      <4>2. x \in Tellings /\ Rank(x) = 4 /\ l < 4
        BY <2>2, <3>3 DEF Tellings
      <4>3. TellsNext(c, l, 4)
        BY <4>1, <4>2 DEF TellsNext
      <4>4. QED
        BY <2>1, <2>6, <3>1, <3>2, <3>3, <4>3
    <3>6. CASE ~(what = "error" \/ s.ended)
      <4>1. posts' = Append(Append(posts, [to |-> c, what |-> "end"]), [to |-> c, what |-> "results"])
        BY <1>2, <2>1, <3>4, <3>6 DEF Tellings
      <4>2. QED
        BY <1>1, <2>1, <2>2, <2>6, <3>1, <3>2, <3>3, <3>6, <4>1 DEF Tellings, TellsNext
    <3>7. QED
      BY <3>5, <3>6
  <2>7. QED
    BY <2>3, <2>4, <2>5, <2>6
<1>6. QED
  BY <1>4, <1>5
-----------------------------------------------------------------------------
(* Types *)

LEMMA RecInitially == RecognitionInit => RecInv
<1> SUFFICES ASSUME RecognitionInit PROVE RecInv
  OBVIOUS
<1>1. /\ MaxRuns \in Nat /\ active = 0 /\ pipeState = "IDLE" /\ currentId = 0
      /\ runs = [r \in RunIds |-> Fresh] /\ submitted = << >> /\ worker = Resting /\ attribution = 0
      /\ clobbered = FALSE /\ came = 0 /\ activeCallback = 0 /\ controller = NoClient
      /\ phase = "IDLE" /\ token = 0 /\ preparations = << >> /\ preparing = 0 /\ endTold = {}
      /\ mainThread = "free" /\ posts = << >> /\ answers = [c \in Clients |-> << >>]
  BY VoiceAssumption DEF RecognitionInit, VoiceInit, NoRun, Nobody, BaseContext
<1>2. Resting \in Work /\ Resting.run = 0 /\ Resting.pc = "idle" /\ Resting.say = "nothing"
  BY <1>1 DEF Work, Resting, WorkerPc, Said, NoRun, BaseContext
<1>3. /\ NoClient \in Client /\ NoClient.who = 0 /\ NoClient.state = "IDLE"
      /\ ~NoClient.ready /\ ~NoClient.beginning /\ ~NoClient.ended
  BY <1>1 DEF NoClient, Client, Nobody
<1>4. Fresh \in Run
  BY DEF Fresh, Run, EndStates
<1>5. EngineTyped
  <2>1. runs \in [RunIds -> Run] /\ submitted \in Seq(Capture) /\ pipeState \in PipeStates
    BY <1>1, <1>4 DEF PipeStates
  <2>2. active \in 0..MaxRuns /\ currentId \in 0..MaxRuns /\ attribution \in 0..MaxRuns
    BY <1>1
  <2>3. clobbered \in BOOLEAN /\ worker \in Work
    BY <1>1, <1>2
  <2>4. QED
    BY <2>1, <2>2, <2>3 DEF EngineTyped
<1>6. ServiceTyped
  BY <1>1, <1>3 DEF ServiceTyped
<1>7. Served /\ MainKnown
  BY <1>1, <1>3 DEF Served, MainKnown, RunningPhases, Nobody, NoRun, BaseContext
<1>8. OnceEach /\ WorkerKnown
  BY <1>1, <1>2, <1>4 DEF Fresh, OnceEach, WorkerKnown, Awaited, NoRun, Nobody, Later
<1>9. RecordingOwned /\ EngineKnown /\ StopReached
  BY <1>1, <1>2, <1>3 DEF RecordingOwned, EngineKnown, StopReached, PastStop, Recording, NoRun
<1>10. Telling
  BY <1>1, <1>3 DEF Telling, InOrder, Nobody
<1>11. QED
  BY <1>5, <1>6, <1>7, <1>8, <1>9, <1>10 DEF RecInv

LEMMA CancelTyped ==
  ASSUME EngineTyped, CancelsRun
  PROVE  /\ active' = NoRun /\ currentId' = NoRun /\ pipeState' = "IDLE" /\ runs' \in [RunIds -> Run]
         /\ \A r \in RunIds : runs'[r].session = "ACTIVE" => runs[r].session = "ACTIVE" /\ r # active
         /\ \A r \in RunIds : r # active => runs'[r] = runs[r]
<1>1. active \in 0..MaxRuns /\ runs \in [RunIds -> Run] /\ MaxRuns \in Nat
  BY VoiceAssumption DEF EngineTyped
<1>2. active' = NoRun /\ currentId' = NoRun /\ pipeState' = "IDLE"
  BY DEF CancelsRun
<1>3. CASE active = NoRun
  <2>1. runs' = runs /\ \A r \in RunIds : r # active
    BY <1>1, <1>3 DEF CancelsRun, NoRun, RunIds
  <2>2. QED
    BY <1>1, <1>2, <2>1
<1>4. CASE active # NoRun
  <2>1. PICK s \in EndStates :
          /\ runs' = [runs EXCEPT ![active] = [@ EXCEPT !.cancelled = TRUE, !.session = s]]
          /\ s # "ACTIVE" /\ active \in RunIds
    <3>1. runs' = [runs EXCEPT ![active].cancelled = TRUE,
                               ![active].session = IF @ = "none" THEN @ ELSE "CANCELLED"]
      BY <1>4 DEF CancelsRun
    <3>2. active \in RunIds /\ runs[active] \in Run
      BY <1>1, <1>4 DEF NoRun, RunIds
    <3>3. QED
      BY <1>1, <3>1, <3>2 DEF Run, EndStates
  <2>2. [runs[active] EXCEPT !.cancelled = TRUE, !.session = s] \in Run
    BY <1>1, <2>1 DEF Run
  <2>3. runs' \in [RunIds -> Run]
    BY <1>1, <2>1, <2>2
  <2>4. runs'[active].session = s
    BY <1>1, <2>1 DEF Run
  <2>5. QED
    BY <1>1, <1>2, <2>1, <2>3, <2>4
<1>5. QED
  BY <1>3, <1>4

LEMMA StopTyped ==
  ASSUME EngineTyped, NEW r \in RunIds, runs' = [runs EXCEPT ![r].session = Stopped(@)]
  PROVE  /\ runs' \in [RunIds -> Run] /\ runs'[r].session # "ACTIVE"
         /\ \A q \in RunIds : runs'[q].cancelled = runs[q].cancelled
         /\ \A q \in RunIds : q # r => runs'[q] = runs[q]
<1>1. runs \in [RunIds -> Run] /\ runs[r] \in Run
  BY DEF EngineTyped
<1>2. Stopped(runs[r].session) \in EndStates \ {"ACTIVE"}
  BY <1>1 DEF Stopped, Run, EndStates
<1>3. [runs[r] EXCEPT !.session = Stopped(runs[r].session)] \in Run
  BY <1>1, <1>2 DEF Run
<1>4. runs' = [runs EXCEPT ![r] = [runs[r] EXCEPT !.session = Stopped(runs[r].session)]]
  BY <1>1
<1>5. runs'[r] = [runs[r] EXCEPT !.session = Stopped(runs[r].session)]
  BY <1>1, <1>4
<1>6. runs'[r].session = Stopped(runs[r].session) /\ runs'[r].cancelled = runs[r].cancelled
  BY <1>1, <1>5 DEF Run
<1>7. QED
  BY <1>1, <1>2, <1>3, <1>4, <1>6

LEMMA PipeStep ==
  ASSUME EngineTyped, ServiceTyped, Served, WorkerKnown, RecSteps
  PROVE  EngineTyped'
<1>1. /\ runs \in [RunIds -> Run] /\ submitted \in Seq(Capture) /\ worker \in Work
      /\ active \in 0..MaxRuns /\ attribution \in 0..MaxRuns /\ BaseContext \in 0..MaxRuns
      /\ NoRun \in 0..MaxRuns /\ RunIds = 1..MaxRuns /\ MaxRuns \in Nat /\ Resting \in Work
      /\ pipeState \in PipeStates /\ "IDLE" \in PipeStates /\ "RECORDING" \in PipeStates
      /\ currentId \in 0..MaxRuns /\ clobbered \in BOOLEAN /\ preparing \in 0..MaxRuns
  BY VoiceAssumption
      DEF EngineTyped, ServiceTyped, BaseContext, NoRun, RunIds, Resting, Work, WorkerPc, Said,
     PipeStates
<1>2. CASE UNCHANGED voiceVars
  BY <1>1, <1>2 DEF EngineTyped, voiceVars
<1>3. CASE StartsListening
  BY <1>1, <1>3, StartIs DEF EngineTyped, Clients
<1>4. CASE EngineStops
  <2>1. /\ attribution' \in {attribution, BaseContext}
        /\ UNCHANGED <<active, pipeState, currentId, submitted, worker, clobbered>>
    BY <1>4 DEF EngineStops
  <2>2. runs' \in [RunIds -> Run]
    <3>1. CASE runs' = runs
      BY <1>1, <3>1
    <3>2. CASE runs' # runs
      <4>1. CanStop /\ StopsCapture
        BY <1>4, <3>2 DEF EngineStops
      <4>2. active \in RunIds
        BY <1>1, <4>1 DEF CanStop, NoRun
      <4>3. QED
        BY <4>1, <4>2, StopTyped DEF StopsCapture
    <3>3. QED
      BY <3>1, <3>2
  <2>3. QED
    BY <1>1, <2>1, <2>2 DEF EngineTyped
<1>5. CASE EngineCancels \/ ServiceDestroyed
  <2>1. CancelsRun /\ attribution' = BaseContext /\ UNCHANGED <<submitted, worker, clobbered>>
    BY <1>5 DEF EngineCancels, ServiceDestroyed
  <2>2. QED
    BY <1>1, <2>1, CancelTyped DEF EngineTyped
<1>6. CASE SessionStarts
  <2>1. CASE UNCHANGED <<active, pipeState, currentId, runs, submitted>>
    BY <1>1, <1>6, <2>1, SessionStartIs DEF EngineTyped
  <2>2. CASE ~UNCHANGED <<active, pipeState, currentId, runs, submitted>>
    <3>1. /\ preparing # Nobody /\ active' = preparing /\ currentId' = preparing
          /\ pipeState' = "RECORDING" /\ runs' = [runs EXCEPT ![preparing].session = "ACTIVE"]
          /\ submitted' = Append(submitted, [run |-> preparing, at |-> "capture"])
          /\ UNCHANGED <<worker, attribution, clobbered>>
      BY <1>6, <2>2, SessionStartIs
    <3>2. preparing \in RunIds
      BY <1>1, <3>1 DEF Nobody
    <3>3. [runs[preparing] EXCEPT !.session = "ACTIVE"] \in Run
      BY <1>1, <3>2 DEF Run, EndStates
    <3>4. runs' \in [RunIds -> Run]
      BY <1>1, <3>1, <3>3
    <3>5. [run |-> preparing, at |-> "capture"] \in Capture
      BY <3>2 DEF Capture
    <3>6. submitted' \in Seq(Capture)
      BY <1>1, <3>1, <3>5
    <3>7. QED
      BY <1>1, <3>1, <3>4, <3>6 DEF EngineTyped
  <2>3. QED
    BY <2>1, <2>2
<1>7. CASE PreparationFails
  BY <1>1, <1>7 DEF PreparationFails, EngineTyped
<1>8. CASE SessionMoves
  <2>1. SessionMoved
    BY <1>8, SessionMovedIs DEF SessionMoves, WorkerRuns
  <2>2. clobbered' \in BOOLEAN
    BY <1>1, <1>8, Zenon DEF SessionMoves, WorkerRuns
  <2>3. submitted' \in Seq(Capture) /\ active' \in 0..MaxRuns
    BY <1>1, <2>1 DEF SessionMoved, WorkerMoved
  <2>4. QED
    BY <1>1, <2>1, <2>2, <2>3 DEF SessionMoved, WorkerMoved, EngineTyped
<1>9. CASE SessionStopsItself
  <2>1. /\ worker.pc = "capturing" /\ runs' = [runs EXCEPT ![Mine].session = Stopped(@)]
        /\ UNCHANGED <<active, pipeState, currentId, submitted, worker, attribution, clobbered>>
    BY <1>9 DEF SessionStopsItself, VadStops, WorkerAt
  <2>2. Mine \in RunIds
    BY <1>1, <2>1 DEF WorkerKnown, Work, Mine, NoRun
  <2>3. QED
    BY <1>1, <2>1, <2>2, StopTyped DEF EngineTyped
<1>10. ListenerReturns => worker' \in Work
  BY <1>1 DEF ListenerReturns, Work, Said
<1>11. CASE WorkerTells
  BY <1>1, <1>10, <1>11 DEF WorkerTells, EngineTyped
<1>12. CASE WorkerFinishes
  <2>1. /\ worker' \in Work /\ attribution' \in {attribution, BaseContext}
        /\ UNCHANGED <<submitted, clobbered>>
    BY <1>10, <1>12 DEF WorkerFinishes
  <2>2. CancelsRun \/ UNCHANGED <<active, currentId, pipeState, runs>>
    BY <1>12, Zenon DEF WorkerFinishes
  <2>3. QED
    BY <1>1, <2>1, <2>2, CancelTyped DEF EngineTyped
<1>13. QED
  <2>1. \/ UNCHANGED voiceVars \/ StartsListening \/ EngineStops \/ EngineCancels \/ ServiceDestroyed
        \/ SessionStarts \/ PreparationFails \/ SessionMoves \/ SessionStopsItself \/ WorkerTells
        \/ WorkerFinishes
    BY Zenon
        DEF RecSteps, RecognitionNext, ServiceStep, PreparationStep, WorkerOwnStep,
       recognitionVars,
           ClientRefused, StopsListening, CancelsListening, StoppedTooEarly, ClientIsGone,
           ClientHears, DeliveryFails, PreparationTaken
  <2>2. QED
    BY <1>2, <1>3, <1>4, <1>5, <1>6, <1>7, <1>8, <1>9, <1>11, <1>12, <2>1

LEMMA ServiceStepTyped ==
  ASSUME EngineTyped, ServiceTyped, Served, MainKnown, WorkerKnown, Telling, RecSteps
  PROVE  ServiceTyped'
<1>1. /\ MaxRuns \in Nat /\ Clients = 1..MaxRuns /\ Nobody \in 0..MaxRuns /\ NoClient \in Client
      /\ came \in 0..MaxRuns /\ activeCallback \in 0..MaxRuns /\ controller \in Client
      /\ phase \in {"IDLE", "PREPARING", "RUNNING", "SHUTDOWN"} /\ token \in 0..MaxRuns
      /\ preparations \in Seq(Clients) /\ preparing \in 0..MaxRuns /\ endTold \subseteq Clients
      /\ mainThread \in {"free", "stopping", "failing", "cancelling"}
      /\ posts \in Seq(Message) /\ answers \in [Clients -> Seq(Tellings)] /\ worker \in Work
  BY VoiceAssumption DEF ServiceTyped, Clients, RunIds, Nobody, NoClient, Client, EngineTyped
<1>2. \A c \in Clients, what \in {"ready", "beginning", "processing", "result", "error"} :
        Controls(c, what) => controller' \in Client /\ posts' \in Seq(Message)
  <2> SUFFICES ASSUME NEW c \in Clients,
                      NEW what \in {"ready", "beginning", "processing", "result", "error"}, Controls(c, what)
               PROVE  controller' \in Client /\ posts' \in Seq(Message)
    OBVIOUS
  <2>1. CASE UNCHANGED <<posts, controller>>
    BY <1>1, <2>1
  <2>2. CASE ~UNCHANGED <<posts, controller>>
    <3>1. controller' \in Client
      BY <2>2, ControlsIs
    <3>2. \A x \in Tellings : [to |-> c, what |-> x] \in Message
      BY DEF Message
    <3>3. \/ \E x \in Tellings : posts' = Append(posts, [to |-> c, what |-> x])
          \/ \E x, y \in Tellings :
               posts' = Append(Append(posts, [to |-> c, what |-> x]), [to |-> c, what |-> y])
      <4>1. PICK l, m : TellsNext(c, l, m)
        BY <2>2, ControlsIs
      <4>2. QED
        BY <4>1, Zenon DEF TellsNext
    <3>4. \A m, n \in Message : Append(posts, m) \in Seq(Message) /\ Append(Append(posts, m), n) \in Seq(Message)
      BY <1>1
    <3>5. QED
      BY <3>1, <3>2, <3>3, <3>4
  <2>3. QED
    BY <2>1, <2>2
<1>3. \A c \in Clients, x \in Tellings : Tell(c, x) => answers' \in [Clients -> Seq(Tellings)]
  BY <1>1 DEF Tell
<1>4. CASE StartsListening
  <2>1. /\ came' \in Clients /\ controller' = [NoClient EXCEPT !.who = came', !.state = "STARTING"]
        /\ preparations' = Append(preparations, came')
    BY <1>4, StartIs
  <2>2. came' \in 0..MaxRuns
    BY <1>1, <2>1
  <2>3. controller' \in Client
    BY <1>1, <2>1, <2>2 DEF Client
  <2>4. preparations' \in Seq(Clients)
    BY <1>1, <2>1
  <2>5. QED
    BY <1>1, <1>4, <2>2, <2>3, <2>4, StartIs DEF ServiceTyped
<1>5. CASE ClientRefused
  <2>1. came' \in Clients
    BY <1>1, <1>5 DEF ClientRefused
  <2>2. answers' \in [Clients -> Seq(Tellings)]
    BY <1>3, <1>5, <2>1 DEF ClientRefused, Tellings
  <2>3. QED
    BY <1>1, <1>5, <2>1, <2>2 DEF ClientRefused, ServiceTyped
<1>6. CASE StopsListening
  <2>1. controller' \in Client
    BY <1>1, <1>6 DEF StopsListening, Client
  <2>2. QED
    BY <1>1, <1>6, <2>1 DEF StopsListening, ServiceTyped
<1>7. CASE CancelsListening \/ DeliveryFails
  <2>1. /\ activeCallback' \in {activeCallback, Nobody} /\ controller' \in {controller, NoClient}
        /\ mainThread' \in {mainThread, "cancelling"} /\ posts' \in {posts, Tail(posts)}
        /\ (posts # << >> \/ posts' = posts)
        /\ UNCHANGED <<came, phase, token, preparations, preparing, endTold, answers>>
    BY <1>7 DEF CancelsListening, DeliveryFails, Forgets
  <2>2. posts # << >> => Tail(posts) \in Seq(Message)
    BY <1>1
  <2>3. posts' \in Seq(Message)
    BY <1>1, <2>1, <2>2
  <2>4. QED
    BY <1>1, <2>1, <2>3 DEF ServiceTyped
<1>8. CASE EngineStops \/ EngineCancels \/ ServiceDestroyed
  <2>1. /\ activeCallback' \in {activeCallback, Nobody} /\ controller' \in {controller, NoClient}
        /\ mainThread' \in {mainThread, "failing", "free"} /\ phase' \in {phase, "IDLE", "SHUTDOWN"}
        /\ token' \in {token, Nobody}
        /\ UNCHANGED <<came, preparations, preparing, endTold, posts, answers>>
    BY <1>8 DEF EngineStops, EngineCancels, ServiceDestroyed
  <2>2. QED
    BY <1>1, <2>1 DEF ServiceTyped
<1>9. CASE StoppedTooEarly
  <2>1. activeCallback \in Clients
    BY <1>1, <1>9 DEF StoppedTooEarly, MainKnown, Nobody
  <2>2. QED
    BY <1>1, <1>2, <1>9, <2>1 DEF StoppedTooEarly, ServiceTyped
<1>10. CASE ClientIsGone \/ ClientHears
  <2>1. /\ posts # << >> /\ posts' = Tail(posts) /\ activeCallback' \in {activeCallback, Nobody}
        /\ UNCHANGED <<came, controller, phase, token, preparations, preparing, endTold, mainThread>>
    BY <1>10 DEF ClientIsGone, ClientHears
  <2>2. posts' \in Seq(Message) /\ Posted \in Message
    BY <1>1, <2>1 DEF Posted
  <2>3. answers' \in [Clients -> Seq(Tellings)]
    <3>1. CASE answers' = answers
      BY <1>1, <3>1
    <3>2. CASE Tell(Posted.to, Posted.what)
      BY <1>3, <2>2, <3>2 DEF Message
    <3>3. QED
      BY <1>10, <3>1, <3>2 DEF ClientIsGone, ClientHears
  <2>4. QED
    BY <1>1, <2>1, <2>2, <2>3 DEF ServiceTyped
<1>11. CASE PreparationTaken
  <2>1. Head(preparations) \in Clients /\ Tail(preparations) \in Seq(Clients)
    BY <1>1, <1>11 DEF PreparationTaken
  <2>2. QED
    BY <1>1, <1>11, <2>1 DEF PreparationTaken, ServiceTyped
<1>12. CASE SessionStarts
  BY <1>1, <1>12, SessionStartIs DEF ServiceTyped
<1>13. CASE PreparationFails
  <2>1. preparing \in Clients
    BY <1>1, <1>13 DEF PreparationFails, Nobody
  <2>2. /\ preparing' = Nobody /\ phase' \in {phase, "IDLE"} /\ token' \in {token, Nobody}
        /\ UNCHANGED <<came, activeCallback, preparations, endTold, mainThread, answers>>
    BY <1>13 DEF PreparationFails
  <2>3. Controls(preparing, "error") \/ ControlsNothing
    BY <1>13, Zenon DEF PreparationFails
  <2>4. controller' \in Client /\ posts' \in Seq(Message)
    BY <1>1, <1>2, <2>1, <2>3 DEF ControlsNothing
  <2>5. QED
    BY <1>1, <2>2, <2>4 DEF ServiceTyped
<1>14. CASE WorkerTells
  <2>1. Mine \in Clients /\ worker.say \in {"ready", "beginning", "processing"}
    BY <1>1, <1>14 DEF WorkerTells, WorkerKnown, Mine, Work, NoRun
  <2>2. /\ endTold' \subseteq endTold \cup {Mine}
        /\ UNCHANGED <<came, activeCallback, phase, token, preparations, preparing, mainThread, answers>>
    BY <1>14 DEF WorkerTells
  <2>3. Controls(Mine, worker.say) \/ ControlsNothing
    BY <1>14, Zenon DEF WorkerTells
  <2>4. controller' \in Client /\ posts' \in Seq(Message)
    BY <1>1, <1>2, <2>1, <2>3 DEF ControlsNothing
  <2>5. QED
    BY <1>1, <2>1, <2>2, <2>4 DEF ServiceTyped
<1>15. CASE WorkerFinishes
  <2>1. Mine \in Clients /\ worker.say \in {"result", "error"}
    BY <1>1, <1>15 DEF WorkerFinishes, WorkerKnown, Mine, Work, NoRun
  <2>2. /\ phase' \in {phase, "IDLE"} /\ token' \in {token, Nobody}
        /\ UNCHANGED <<came, activeCallback, preparations, preparing, endTold, mainThread, answers>>
    BY <1>15 DEF WorkerFinishes
  <2>3. Controls(Mine, worker.say) \/ ControlsNothing
    BY <1>15, Zenon DEF WorkerFinishes
  <2>4. controller' \in Client /\ posts' \in Seq(Message)
    BY <1>1, <1>2, <2>1, <2>3 DEF ControlsNothing
  <2>5. QED
    BY <1>1, <2>2, <2>4 DEF ServiceTyped
<1>16. CASE UNCHANGED serviceVars
  BY <1>1, <1>16 DEF serviceVars, ServiceTyped
<1>17. QED
  <2>1. SessionMoves \/ SessionStopsItself \/ UNCHANGED recognitionVars => UNCHANGED serviceVars
    BY DEF SessionMoves, SessionStopsItself, recognitionVars
  <2>2. QED
    BY <1>4, <1>5, <1>6, <1>7, <1>8, <1>9, <1>10, <1>11, <1>12, <1>13, <1>14, <1>15, <1>16, <2>1
       DEF RecSteps, RecognitionNext, ServiceStep, PreparationStep, WorkerOwnStep
-----------------------------------------------------------------------------
(* What the threads do to the client that is served *)

LEMMA RecCases ==
  ASSUME RecSteps
  PROVE  \/ StartsListening \/ ClientRefused \/ StopsListening \/ CancelsListening
         \/ ServiceDestroyed \/ EngineStops \/ StoppedTooEarly \/ EngineCancels \/ ClientIsGone
         \/ ClientHears \/ DeliveryFails \/ PreparationTaken \/ SessionStarts \/ PreparationFails
         \/ SessionMoves \/ WorkerTells \/ WorkerFinishes \/ SessionStopsItself
         \/ UNCHANGED recognitionVars
  BY Zenon DEF RecSteps, RecognitionNext, ServiceStep, PreparationStep, WorkerOwnStep

\* Only the end of its session takes the client from the controller.
LEMMA WhoIs ==
  ASSUME ServiceTyped, Served, Telling, NEW c \in Clients,
         NEW what \in {"ready", "beginning", "processing", "result", "error"}, Controls(c, what)
  PROVE  /\ controller'.who \in {controller.who, Nobody}
         /\ controller'.who = Nobody => controller' = NoClient
         /\ what \notin {"result", "error"} => controller'.who = controller.who
         /\ what \in {"result", "error"} /\ controller.who \in {c, Nobody} => controller' = NoClient
         /\ what # "processing" /\ controller'.state = "PROCESSING" => controller.state = "PROCESSING"
<1>1. c # Nobody /\ NoClient.who = Nobody /\ NoClient.state = "IDLE"
  BY VoiceAssumption DEF Clients, RunIds, Nobody, NoClient
<1>2. CASE UNCHANGED <<posts, controller>> /\ (what \in {"result", "error"} => controller.who # c)
  BY <1>1, <1>2 DEF Served
<1>3. CASE controller.who = c
  <2>1. \/ UNCHANGED <<posts, controller>> /\ (what \in {"result", "error"} => controller.who # c)
        \/ what \in {"ready", "beginning", "processing"} /\ controller'.who = c
        \/ what \in {"result", "error"} /\ controller' = NoClient
    BY ControlsIs
  <2>2. \/ UNCHANGED <<posts, controller>>
        \/ (controller'.state = "PROCESSING" <=> controller.state = "PROCESSING" \/ what = "processing")
        \/ what \in {"result", "error"}
    BY ControlsIs
  <2>3. QED
    BY <1>1, <1>3, <2>1, <2>2 DEF Served
<1>4. QED
  BY <1>2, <1>3, ControlsIs

LEMMA StoppedIs ==
  ASSUME ServiceTyped, Served, MainKnown, Telling, StoppedTooEarly
  PROVE  /\ mainThread = "failing" /\ mainThread' = "free" /\ phase = "IDLE"
         /\ activeCallback \in Clients /\ controller.who = activeCallback
         /\ controller' = NoClient /\ Controls(activeCallback, "error")
         /\ UNCHANGED <<voiceVars, came, activeCallback, phase, token, preparations, preparing,
                        endTold, answers>>
<1>1. /\ mainThread = "failing" /\ mainThread' = "free" /\ Controls(activeCallback, "error")
      /\ UNCHANGED <<voiceVars, came, activeCallback, phase, token, preparations, preparing,
                     endTold, answers>>
  BY DEF StoppedTooEarly
<1>2. phase = "IDLE" /\ controller.who = activeCallback /\ activeCallback # Nobody
  BY <1>1 DEF MainKnown
<1>3. activeCallback \in Clients
  BY <1>2, VoiceAssumption DEF ServiceTyped, Clients, RunIds, Nobody
<1>4. controller' = NoClient
  BY <1>1, <1>2, <1>3, WhoIs
<1>5. QED
  BY <1>1, <1>2, <1>3, <1>4

\* A session that cannot be prepared has no run yet.
LEMMA FailIs ==
  ASSUME EngineTyped, ServiceTyped, Served, MainKnown, OnceEach, Telling, PreparationFails
  PROVE  /\ preparing \in Clients /\ preparing' = Nobody
         /\ UNCHANGED <<active, pipeState, currentId, runs, submitted, worker, came,
                        activeCallback, preparations, endTold, mainThread, answers, clobbered>>
         /\ \/ token # preparing /\ UNCHANGED <<phase, token, attribution, posts, controller>>
            \/ /\ token = preparing /\ phase = "PREPARING" /\ active = NoRun
               /\ phase' = "IDLE" /\ token' = Nobody /\ attribution' = BaseContext
               /\ controller' = NoClient /\ Controls(preparing, "error")
<1>1. /\ preparing # Nobody /\ preparing' = Nobody
      /\ UNCHANGED <<active, pipeState, currentId, runs, submitted, worker, came,
                     activeCallback, preparations, endTold, mainThread, answers, clobbered>>
  BY DEF PreparationFails
<1>2. preparing \in Clients
  BY <1>1, VoiceAssumption DEF ServiceTyped, Clients, RunIds, Nobody
<1>3. CASE token # preparing
  BY <1>1, <1>2, <1>3 DEF PreparationFails, ControlsNothing
<1>4. CASE token = preparing
  <2>1. /\ phase' = "IDLE" /\ token' = Nobody /\ attribution' = BaseContext
        /\ Controls(preparing, "error")
    BY <1>4, Zenon DEF PreparationFails
  <2>2. phase = "PREPARING" /\ active = NoRun
    BY <1>1, <1>4 DEF Served, OnceEach, Awaited, RunningPhases
  <2>3. controller.who \in {preparing, Nobody}
    BY <1>4, <2>2 DEF Served, RunningPhases
  <2>4. controller' = NoClient
    BY <1>2, <2>1, <2>3, WhoIs
  <2>5. QED
    BY <1>1, <1>2, <1>4, <2>1, <2>2, <2>4
<1>5. QED
  BY <1>3, <1>4

LEMMA TellIs ==
  ASSUME EngineTyped, ServiceTyped, Served, WorkerKnown, OnceEach, Telling, WorkerTells
  PROVE  /\ Mine \in Clients /\ worker.say \in {"ready", "beginning", "processing"}
         /\ worker' = Resting \/ (worker' = [worker EXCEPT !.say = "nothing"] /\ worker.pc # "idle")
         /\ worker' \in Work /\ (worker.say = "processing" => worker.pc \in Later /\ worker'.pc = worker.pc
                                                              /\ worker'.run = Mine)
         /\ UNCHANGED <<active, pipeState, currentId, runs, submitted, attribution, came,
                        activeCallback, phase, token, preparations, preparing, mainThread, answers,
                        clobbered>>
         /\ \/ UNCHANGED <<posts, controller>>
            \/ token = Mine /\ phase = "RUNNING" /\ Controls(Mine, worker.say)
<1>1. /\ worker.say \in {"ready", "beginning", "processing"} /\ ListenerReturns
      /\ UNCHANGED <<active, pipeState, currentId, runs, submitted, attribution, came,
                     activeCallback, phase, token, preparations, preparing, mainThread, answers,
                     clobbered>>
  BY DEF WorkerTells
<1>2. worker.run # NoRun /\ worker \in Work /\ Mine \in Clients
  BY <1>1, VoiceAssumption DEF WorkerKnown, EngineTyped, Work, Mine, Clients, RunIds, NoRun
<1>3. worker' = Resting \/ (worker' = [worker EXCEPT !.say = "nothing"] /\ worker.pc # "idle")
  BY <1>1 DEF ListenerReturns
<1>4. worker' \in Work
  <2>1. Resting \in Work
    BY VoiceAssumption DEF Work, Resting, Said, WorkerPc, NoRun, BaseContext
  <2>2. "nothing" \in Said
    BY DEF Said
  <2>3. QED
    BY <1>2, <1>3, <2>1, <2>2 DEF Work
<1>5. worker.say = "processing" => worker.pc \in Later /\ worker'.pc = worker.pc /\ worker'.run = Mine
  <2>1. SUFFICES ASSUME worker.say = "processing"
                 PROVE  worker.pc \in Later /\ worker'.pc = worker.pc /\ worker'.run = Mine
    OBVIOUS
  <2>2. worker.pc \in Later /\ worker.pc # "idle"
    BY <2>1 DEF WorkerKnown, Later
  <2>3. worker' = [worker EXCEPT !.say = "nothing"]
    BY <1>1, <2>2 DEF ListenerReturns
  <2>4. QED
    BY <1>2, <2>2, <2>3 DEF Work, Mine
<1>6. \/ UNCHANGED <<posts, controller>>
      \/ token = Mine /\ Controls(Mine, worker.say)
  BY Zenon DEF WorkerTells, ControlsNothing
<1>7. token = Mine => phase = "RUNNING"
  BY <1>2 DEF Served, OnceEach, RunningPhases, Mine, NoRun, Nobody
<1>8. QED
  BY <1>1, <1>2, <1>3, <1>4, <1>5, <1>6, <1>7

\* A run that is over has left the pipeline; that of the session is the last.
LEMMA FinishIs ==
  ASSUME EngineTyped, ServiceTyped, Served, MainKnown, WorkerKnown, OnceEach, Telling, WorkerFinishes
  PROVE  /\ Mine \in Clients /\ worker.say \in {"result", "error"} /\ worker' = Resting
         /\ UNCHANGED <<submitted, came, activeCallback, preparations, preparing, endTold,
                        mainThread, answers, clobbered>>
         /\ \/ /\ token # Mine
               /\ UNCHANGED <<posts, controller, phase, token, attribution, active, currentId,
                              pipeState, runs>>
            \/ /\ token = Mine /\ phase = "RUNNING" /\ phase' = "IDLE" /\ token' = Nobody
               /\ attribution' = BaseContext /\ active = NoRun /\ active' = NoRun /\ runs' = runs
               /\ controller' = NoClient /\ Controls(Mine, worker.say)
<1>1. /\ worker.say \in {"result", "error"} /\ ListenerReturns
      /\ UNCHANGED <<submitted, came, activeCallback, preparations, preparing, endTold,
                     mainThread, answers, clobbered>>
  BY DEF WorkerFinishes
<1>2. worker.run # NoRun /\ worker \in Work /\ Mine \in Clients
  BY <1>1, VoiceAssumption DEF WorkerKnown, EngineTyped, Work, Mine, Clients, RunIds, NoRun
<1>3. worker.pc = "idle" /\ active # Mine /\ worker' = Resting
  BY <1>1, <1>2 DEF WorkerKnown, ListenerReturns, Mine
<1>4. CASE token # Mine
  BY <1>1, <1>2, <1>3, <1>4 DEF WorkerFinishes, ControlsNothing
<1>5. CASE token = Mine
  <2>1. /\ phase' = "IDLE" /\ token' = Nobody /\ attribution' = BaseContext
        /\ Controls(Mine, worker.say)
        /\ CancelsRun \/ UNCHANGED <<active, currentId, pipeState, runs>>
    BY <1>5, Zenon DEF WorkerFinishes
  <2>2. phase = "RUNNING"
    BY <1>2, <1>5 DEF Served, OnceEach, RunningPhases, Mine, NoRun, Nobody
  <2>3. active = NoRun
    BY <1>3, <1>5 DEF Served
  <2>4. active' = NoRun /\ runs' = runs
    BY <2>1, <2>3 DEF CancelsRun
  <2>5. controller.who \in {Mine, Nobody}
    BY <1>5, <2>2 DEF Served, RunningPhases
  <2>6. controller' = NoClient
    BY <1>1, <1>2, <2>1, <2>5, WhoIs
  <2>7. QED
    BY <1>1, <1>2, <1>3, <1>5, <2>1, <2>2, <2>3, <2>4, <2>6
<1>6. QED
  BY <1>4, <1>5

\* The stop of the client ends the preparation, or reaches the recording.
LEMMA StopIs ==
  ASSUME EngineTyped, EngineStops
  PROVE  /\ mainThread = "stopping"
         /\ UNCHANGED <<active, pipeState, currentId, submitted, worker, came, activeCallback,
                        controller, preparations, preparing, endTold, posts, answers, clobbered>>
         /\ \/ /\ phase = "PREPARING" /\ phase' = "IDLE" /\ token' = Nobody
               /\ attribution' = BaseContext /\ mainThread' = "failing" /\ runs' = runs
            \/ /\ phase # "PREPARING" /\ mainThread' = "free"
               /\ UNCHANGED <<phase, token, attribution>>
               /\ \/ ~(phase = "RUNNING" /\ CanStop) /\ runs' = runs
                  \/ CanStop /\ active \in RunIds /\ runs' = [runs EXCEPT ![active].session = Stopped(@)]
<1>1. /\ mainThread = "stopping"
      /\ UNCHANGED <<active, pipeState, currentId, submitted, worker, came, activeCallback,
                     controller, preparations, preparing, endTold, posts, answers, clobbered>>
  BY DEF EngineStops
<1>2. CASE phase = "PREPARING"
  BY <1>1, <1>2 DEF EngineStops
<1>3. CASE phase # "PREPARING"
  <2>1. CanStop => active \in RunIds
    BY VoiceAssumption DEF CanStop, EngineTyped, RunIds, NoRun
  <2>2. QED
    BY <1>1, <1>3, <2>1 DEF EngineStops, StopsCapture
<1>4. QED
  BY <1>2, <1>3

\* When the end of its session is delivered, the controller has forgotten it.
LEMMA EndIs ==
  ASSUME ServiceTyped, Served, Telling, posts # << >>, ForOwn
  PROVE  /\ activeCallback \in Clients /\ Posted \in Message /\ Posted = posts[1]
         /\ Posted.to = activeCallback /\ activeCallback <= came
         /\ IsEnd => controller.who = Nobody
<1>1. Posted = posts[1] /\ 1 \in DOMAIN posts /\ Posted \in Message
  BY DEF Posted, ServiceTyped
<1>2. activeCallback = Posted.to /\ activeCallback \in Clients /\ activeCallback # Nobody
  BY <1>1, VoiceAssumption DEF ForOwn, Message, Clients, RunIds, Nobody
<1>3. ASSUME IsEnd, controller.who # Nobody
      PROVE  FALSE
  <2>1. controller.who = activeCallback
    BY <1>3 DEF Served
  <2>2. UpTo(posts, activeCallback, Level(controller))
    BY <1>3, <2>1 DEF Telling, Fitting
  <2>3. Rank(Posted.what) = 4 /\ Level(controller) \in 0..3
    BY <1>3 DEF IsEnd, Rank, Level
  <2>4. QED
    BY <1>1, <1>2, <2>2, <2>3 DEF UpTo
<1>4. QED
  BY <1>1, <1>2, <1>3 DEF Served
-----------------------------------------------------------------------------
(* The client that is served *)

LEMMA ServedStep ==
  ASSUME EngineTyped, ServiceTyped, Served, MainKnown, OnceEach, WorkerKnown, Telling, RecSteps
  PROVE  Served' /\ MainKnown'
<1>1. /\ MaxRuns \in Nat /\ came \in 0..MaxRuns /\ Nobody = 0 /\ NoRun = 0 /\ BaseContext = 0
      /\ NoClient.who = Nobody /\ activeCallback \in 0..MaxRuns /\ controller \in Client
      /\ preparing \in 0..MaxRuns
  BY VoiceAssumption DEF ServiceTyped, Nobody, NoRun, BaseContext, NoClient
<1> USE DEF RunningPhases
<1>2. CASE StartsListening
  <2>1. /\ came' = came + 1 /\ activeCallback' = came' /\ attribution' = came' /\ token' = came'
        /\ phase' = "PREPARING" /\ active = NoRun /\ active' = active /\ mainThread' = "free"
        /\ controller' = [NoClient EXCEPT !.who = came', !.state = "STARTING"]
    BY <1>2, StartIs DEF IsFree
  <2>2. controller'.who = came' /\ came' # Nobody
    BY <1>1, <2>1 DEF NoClient
  <2>3. QED
    BY <1>1, <2>1, <2>2 DEF Served, MainKnown
<1>3. CASE ClientRefused
  BY <1>1, <1>3 DEF ClientRefused, voiceVars, Served, MainKnown
<1>4. CASE StopsListening
  <2>1. controller'.who = controller.who
    BY <1>1, <1>4 DEF StopsListening, Client
  <2>2. QED
    BY <1>1, <1>4, <2>1 DEF StopsListening, IsFree, voiceVars, Served, MainKnown
<1>5. CASE CancelsListening
  <2>1. CASE controller.who # Nobody
    BY <1>1, <1>5, <2>1 DEF CancelsListening, Forgets, IsFree, voiceVars, Served, MainKnown
  <2>2. CASE controller.who = Nobody
    BY <1>1, <1>5, <2>2 DEF CancelsListening, IsFree, voiceVars, Served, MainKnown
  <2>3. QED
    BY <2>1, <2>2
<1>6. CASE ServiceDestroyed
  BY <1>1, <1>6 DEF ServiceDestroyed, IsFree, CancelsRun, Served, MainKnown
<1>7. CASE EngineStops
  <2>1. controller.who = Nobody \/ phase \in {"PREPARING", "RUNNING"}
    BY <1>7 DEF EngineStops, Served
  <2>2. CASE phase = "PREPARING"
    BY <1>1, <1>7, <2>2, StopIs DEF Served, MainKnown
  <2>3. CASE phase # "PREPARING"
    <3>1. /\ mainThread = "stopping" /\ mainThread' = "free"
          /\ UNCHANGED <<phase, token, attribution, active, currentId, came, activeCallback, controller>>
      BY <1>7, <2>3, StopIs
    <3>2. active # NoRun => runs'[active].cancelled = runs[active].cancelled
      <4>1. CASE runs' = runs
        BY <4>1
      <4>2. CASE runs' # runs
        BY <1>7, <2>3, <4>2, StopIs, StopTyped
      <4>3. QED
        BY <4>1, <4>2
    <3>3. Served'
      BY <1>1, <3>1, <3>2 DEF Served
    <3>4. MainKnown'
      BY <1>1, <3>1 DEF MainKnown
    <3>5. QED
      BY <3>3, <3>4
  <2>4. QED
    BY <2>2, <2>3
<1>8. CASE StoppedTooEarly
  BY <1>1, <1>8, StoppedIs DEF voiceVars, Served, MainKnown
<1>9. CASE EngineCancels
  BY <1>1, <1>9 DEF EngineCancels, CancelsRun, Served, MainKnown
<1>10. CASE ClientIsGone
  BY <1>1, <1>10 DEF ClientIsGone, voiceVars, Served, MainKnown
<1>11. CASE ClientHears \/ DeliveryFails
  <2>1. /\ activeCallback # Nobody /\ (IsEnd => controller.who = Nobody)
    BY <1>1, <1>11, EndIs, VoiceAssumption DEF ClientHears, DeliveryFails, Clients, RunIds
  <2>2. /\ mainThread = "free" /\ activeCallback' = (IF IsEnd THEN Nobody ELSE activeCallback)
        /\ \/ UNCHANGED <<controller, mainThread>>
           \/ ~IsEnd /\ controller' = NoClient /\ mainThread' = "cancelling"
        /\ UNCHANGED <<voiceVars, came, phase, token>>
    BY <1>11 DEF ClientHears, DeliveryFails, Forgets
  <2>3. phase \in RunningPhases => controller.who = token /\ token # Nobody
    BY <2>2 DEF Served
  <2>4. QED
    BY <1>1, <2>1, <2>2, <2>3 DEF voiceVars, Served, MainKnown
<1>12. CASE PreparationTaken
  BY <1>1, <1>12 DEF PreparationTaken, voiceVars, Served, MainKnown
<1>13. CASE SessionStarts
  <2>1. /\ preparing # Nobody
        /\ UNCHANGED <<attribution, came, activeCallback, mainThread, controller>>
    BY <1>13, SessionStartIs
  <2>2. CASE ~IsPrepared(preparing)
    <3>1. UNCHANGED <<active, currentId, runs, phase, token>>
      BY <1>13, <2>2, SessionStartIs DEF IsPrepared
    <3>2. QED
      BY <2>1, <3>1 DEF Served, MainKnown
  <2>3. CASE IsPrepared(preparing)
    <3>1. /\ phase = "PREPARING" /\ token = preparing /\ phase' = "RUNNING" /\ token' = token
          /\ active' = preparing /\ currentId' = preparing
          /\ runs' = [runs EXCEPT ![preparing].session = "ACTIVE"]
      BY <1>13, <2>3, SessionStartIs DEF IsPrepared
    <3>2. ~runs'[preparing].cancelled
      <4>1. preparing \in RunIds /\ runs \in [RunIds -> Run]
        BY <1>1, <2>1 DEF RunIds, EngineTyped
      <4>2. ~runs[preparing].cancelled
        BY <4>1 DEF OnceEach, Awaited
      <4>3. QED
        BY <3>1, <4>1, <4>2 DEF Run
    <3>3. QED
      BY <1>1, <2>1, <3>1, <3>2 DEF Served, MainKnown
  <2>4. QED
    BY <2>2, <2>3
<1>14. CASE PreparationFails
  <2>1. CASE UNCHANGED <<phase, token, attribution, posts, controller>>
    BY <1>14, <2>1, FailIs DEF Served, MainKnown
  <2>2. CASE token = preparing /\ phase = "PREPARING"
    BY <1>1, <1>14, <2>2, FailIs DEF Served, MainKnown
  <2>3. QED
    BY <1>14, <2>1, <2>2, FailIs
<1>15. CASE SessionMoves
  <2>1. SessionMoved /\ UNCHANGED serviceVars
    BY <1>15, SessionMovedIs DEF SessionMoves, WorkerRuns
  <2>2. UNCHANGED <<currentId, runs, attribution>> /\ active' \in {active, NoRun}
    BY <2>1 DEF SessionMoved, WorkerMoved
  <2>3. QED
    BY <1>1, <2>1, <2>2 DEF serviceVars, Served, MainKnown
<1>16. CASE WorkerTells
  <2>1. Mine \in Clients /\ worker.say \in {"ready", "beginning", "processing"}
    BY <1>16, TellIs
  <2>2. CASE UNCHANGED <<posts, controller>>
    BY <1>16, <2>2, TellIs DEF Served, MainKnown
  <2>3. CASE token = Mine /\ phase = "RUNNING" /\ Controls(Mine, worker.say)
    <3>1. /\ controller'.who = controller.who
          /\ (controller'.who = Nobody => controller' = NoClient)
      BY <2>1, <2>3, WhoIs
    <3>2. QED
      BY <1>16, <2>3, <3>1, TellIs DEF Served, MainKnown
  <2>4. QED
    BY <1>16, <2>2, <2>3, TellIs
<1>17. CASE WorkerFinishes
  <2>1. UNCHANGED <<came, activeCallback, mainThread>>
    BY <1>17, FinishIs
  <2>2. CASE token # Mine
    <3>1. UNCHANGED <<controller, phase, token, attribution, active, currentId, runs>>
      BY <1>17, <2>2, FinishIs
    <3>2. QED
      BY <2>1, <3>1 DEF Served, MainKnown
  <2>3. CASE token = Mine
    <3>1. /\ phase = "RUNNING" /\ phase' = "IDLE" /\ token' = Nobody /\ attribution' = BaseContext
          /\ active' = NoRun /\ controller' = NoClient
      BY <1>17, <2>3, FinishIs
    <3>2. QED
      BY <1>1, <2>1, <3>1 DEF Served, MainKnown
  <2>4. QED
    BY <2>2, <2>3
<1>18. CASE SessionStopsItself
  <2>1. /\ worker.pc = "capturing" /\ runs' = [runs EXCEPT ![Mine].session = Stopped(@)]
        /\ UNCHANGED <<active, currentId, attribution>> /\ UNCHANGED serviceVars
    BY <1>18 DEF SessionStopsItself, VadStops, WorkerAt
  <2>2. Mine \in RunIds
    BY <1>1, <2>1 DEF WorkerKnown, EngineTyped, Work, Mine, RunIds
  <2>3. active # NoRun => runs'[active].cancelled = runs[active].cancelled
    <3>1. active # NoRun => active \in RunIds
      BY <1>1 DEF EngineTyped, RunIds
    <3>2. QED
      BY <2>1, <2>2, <3>1, StopTyped
  <2>4. QED
    BY <2>1, <2>3 DEF serviceVars, Served, MainKnown
<1>19. CASE UNCHANGED recognitionVars
  BY <1>19 DEF recognitionVars, voiceVars, serviceVars, Served, MainKnown
<1>20. QED
  BY <1>2, <1>3, <1>4, <1>5, <1>6, <1>7, <1>8, <1>9, <1>10, <1>11, <1>12, <1>13, <1>14, <1>15,
     <1>16, <1>17, <1>18, <1>19, RecCases
-----------------------------------------------------------------------------
(* A session is prepared once and run once *)

LEMMA OnceStep ==
  ASSUME EngineTyped, ServiceTyped, Served, MainKnown, OnceEach, WorkerKnown, Telling, RecSteps
  PROVE  OnceEach'
<1>1. /\ MaxRuns \in Nat /\ came \in 0..MaxRuns /\ Nobody = 0 /\ NoRun = 0
      /\ preparing \in 0..MaxRuns /\ preparations \in Seq(Clients) /\ submitted \in Seq(Capture)
      /\ Clients = 1..MaxRuns /\ RunIds = 1..MaxRuns /\ worker \in Work /\ Resting.run = NoRun
      /\ token \in 0..MaxRuns /\ active \in 0..MaxRuns
  BY VoiceAssumption DEF ServiceTyped, EngineTyped, Nobody, NoRun, Clients, RunIds, Resting
<1>a. ASSUME NEW i \in DOMAIN submitted
      PROVE  submitted[i].run \in RunIds /\ submitted[i].run # NoRun
  <2>1. submitted[i] \in Capture
    BY <1>1
  <2>2. QED
    BY <1>1, <2>1 DEF Capture
<1> USE DEF RunningPhases
<1>2. CASE StartsListening
  <2>1. /\ came' = came + 1 /\ came' \in Clients /\ preparations' = Append(preparations, came')
        /\ phase' = "PREPARING" /\ token' = came'
        /\ UNCHANGED <<preparing, submitted, worker, runs>>
    BY <1>2, StartIs
  <2>2. /\ \A i \in DOMAIN preparations' : \/ i \in DOMAIN preparations /\ preparations'[i] = preparations[i]
                                           \/ i = Len(preparations) + 1 /\ preparations'[i] = came'
        /\ \A i \in DOMAIN preparations : i \in Int /\ i <= Len(preparations) /\ preparations[i] \in Clients
    <3>1. \A i \in DOMAIN preparations : preparations[i] \in Clients
      BY <1>1
    <3>2. /\ \A i \in DOMAIN preparations' : \/ i \in DOMAIN preparations /\ preparations'[i] = preparations[i]
                                             \/ i = Len(preparations) + 1 /\ preparations'[i] = came'
          /\ \A i \in DOMAIN preparations : i \in Int /\ i <= Len(preparations)
      BY <1>1, <2>1, AppendIs
    <3>3. QED
      BY <3>1, <3>2
  <2>3. Awaited' = Awaited \cup {came'}
    <3>1. /\ Len(preparations) + 1 \in DOMAIN preparations' /\ preparations'[Len(preparations) + 1] = came'
          /\ \A i \in DOMAIN preparations : i \in DOMAIN preparations' /\ preparations'[i] = preparations[i]
      BY <1>1, <2>1
    <3>2. {preparations'[i] : i \in DOMAIN preparations'} = {preparations[i] : i \in DOMAIN preparations} \cup {came'}
      BY <2>2, <3>1
    <3>3. QED
      BY <2>1, <3>2 DEF Awaited
  <2>4. came' > came /\ came' \in Int /\ came \in Int /\ Len(preparations) \in Nat
    BY <1>1, <2>1
  <2>5. /\ \A i \in DOMAIN preparations' : preparations'[i] <= came' /\ preparations'[i] # preparing'
        /\ preparing' <= came'
    BY <1>1, <2>1, <2>2, <2>4 DEF OnceEach
  <2>6. \A i, j \in DOMAIN preparations' : i < j => preparations'[i] # preparations'[j]
    BY <1>1, <2>1, <2>2, <2>4 DEF OnceEach
  <2>7. \A i \in DOMAIN submitted : submitted[i].run \in RunIds
    BY <1>a
  <2>8. \A r \in RunIds : r > came' \/ r \in Awaited' => ~runs'[r].cancelled
    BY <1>1, <2>1, <2>3, <2>4 DEF OnceEach
  <2>9. \A i \in DOMAIN submitted : submitted[i].run \notin Awaited' /\ submitted[i].run <= came'
    BY <1>1, <2>1, <2>3, <2>4, <2>7 DEF OnceEach
  <2>10. worker.run # NoRun => worker.run \notin Awaited' /\ worker.run <= came'
    BY <1>1, <2>1, <2>3, <2>4 DEF OnceEach, Work
  <2>11. QED
    BY <2>1, <2>3, <2>5, <2>6, <2>8, <2>9, <2>10 DEF OnceEach
<1>3. CASE ClientRefused
  <2>1. came' = came + 1 /\ came' > came /\ came \in Int /\ came' \in Int
        /\ UNCHANGED <<preparing, preparations, submitted, worker, runs, phase, token>>
    BY <1>1, <1>3 DEF ClientRefused, voiceVars
  <2>2. Awaited' = Awaited
    BY <2>1 DEF Awaited
  <2>3. \A i \in DOMAIN submitted : submitted[i].run \in RunIds
    BY <1>a
  <2>4. \A i \in DOMAIN preparations : preparations[i] \in Clients
    BY <1>1
  <2>5. worker.run \in Int
    BY <1>1 DEF Work
  <2>6. /\ \A i \in DOMAIN preparations : preparations[i] <= came'
        /\ preparing <= came'
        /\ \A i \in DOMAIN submitted : submitted[i].run <= came'
        /\ worker.run # NoRun => worker.run <= came'
        /\ \A r \in RunIds : r > came' => r > came
    BY <1>1, <2>1, <2>3, <2>4, <2>5 DEF OnceEach
  <2>7. QED
    BY <2>1, <2>2, <2>6 DEF OnceEach
<1>4. ASSUME UNCHANGED <<preparing, preparations, submitted, came, runs>>,
             worker'.run \in {worker.run, NoRun},
             phase' \notin RunningPhases \/ UNCHANGED <<phase, token>>
      PROVE  OnceEach'
  <2>1. Awaited' = Awaited
    BY <1>4 DEF Awaited
  <2>2. \A i \in DOMAIN submitted : submitted[i].run # NoRun
    BY <1>a
  <2>3. QED
    BY <1>4, <2>1, <2>2 DEF OnceEach
<1>5. CASE StopsListening \/ CancelsListening \/ ClientIsGone \/ ClientHears \/ DeliveryFails \/ StoppedTooEarly
  BY <1>4, <1>5
      DEF StopsListening, CancelsListening, ClientIsGone, ClientHears, DeliveryFails,
     StoppedTooEarly, voiceVars
<1>6. CASE ServiceDestroyed \/ EngineCancels
  <2>1. /\ UNCHANGED <<preparing, preparations, submitted, came, worker>> /\ phase' \notin RunningPhases
        /\ CancelsRun
    BY <1>6 DEF ServiceDestroyed, EngineCancels
  <2>2. Awaited' = Awaited
    BY <2>1 DEF Awaited
  <2>3. active # NoRun => active \notin Awaited /\ active <= came
    BY <1>1 DEF Served, OnceEach
  <2>4. \A r \in RunIds : r # active => runs'[r] = runs[r]
    BY <2>1, CancelTyped
  <2>5. \A r \in RunIds : r > came \/ r \in Awaited => ~runs'[r].cancelled
    BY <1>1, <2>3, <2>4 DEF OnceEach
  <2>6. QED
    BY <2>1, <2>2, <2>5 DEF OnceEach
<1>7. ASSUME UNCHANGED <<preparing, preparations, submitted, came, worker, phase, token>>,
             \A r \in RunIds : runs'[r].cancelled = runs[r].cancelled
      PROVE  OnceEach'
  <2>1. Awaited' = Awaited
    BY <1>7 DEF Awaited
  <2>2. QED
    BY <1>7, <2>1 DEF OnceEach
<1>8. CASE EngineStops
  <2>1. UNCHANGED <<preparing, preparations, submitted, came, worker>>
    BY <1>8, StopIs
  <2>2. CASE phase = "PREPARING"
    BY <1>4, <1>8, <2>1, <2>2, StopIs
  <2>3. CASE phase # "PREPARING"
    <3>1. UNCHANGED <<phase, token>>
      BY <1>8, <2>3, StopIs
    <3>2. runs' = runs \/ \A r \in RunIds : runs'[r].cancelled = runs[r].cancelled
      BY <1>8, <2>3, StopIs, StopTyped
    <3>3. QED
      BY <1>7, <2>1, <3>1, <3>2
  <2>4. QED
    BY <2>2, <2>3
<1>9. CASE SessionStopsItself
  <2>1. /\ worker.pc = "capturing" /\ runs' = [runs EXCEPT ![Mine].session = Stopped(@)]
        /\ UNCHANGED <<submitted, worker>> /\ UNCHANGED serviceVars
    BY <1>9 DEF SessionStopsItself, VadStops, WorkerAt
  <2>2. Mine \in RunIds
    BY <1>1, <2>1 DEF WorkerKnown, EngineTyped, Work, Mine
  <2>3. \A r \in RunIds : runs'[r].cancelled = runs[r].cancelled
    BY <2>1, <2>2, StopTyped
  <2>4. QED
    BY <1>7, <2>1, <2>3 DEF serviceVars
<1>10. CASE PreparationTaken
  <2>1. /\ preparing = Nobody /\ preparations # << >> /\ preparing' = Head(preparations)
        /\ preparations' = Tail(preparations)
        /\ UNCHANGED <<came, phase, token, submitted, worker, runs>>
    BY <1>10 DEF PreparationTaken, voiceVars
  <2>2. /\ preparing' = preparations[1] /\ preparing' \in Clients /\ 1 \in DOMAIN preparations
        /\ \A i \in DOMAIN preparations' : i \in Int /\ i + 1 \in DOMAIN preparations /\ i + 1 > 1
                                           /\ preparations'[i] = preparations[i + 1]
    BY <1>1, <2>1, TailIs
  <2>3. Awaited' \subseteq Awaited
    BY <2>2 DEF Awaited
  <2>4. \A i \in DOMAIN preparations : i = 1 \/ (i - 1 \in DOMAIN preparations' /\ preparations'[i - 1] = preparations[i])
    BY <1>1, <2>1, TailBack
  <2>5. \A x \in Awaited : x = Nobody \/ x \in Awaited'
    BY <2>1, <2>2, <2>4 DEF Awaited
  <2>6. \A i, j \in DOMAIN preparations' : i < j => preparations'[i] # preparations'[j]
    BY <2>2 DEF OnceEach
  <2>7. \A i \in DOMAIN preparations' : preparations'[i] <= came /\ preparations'[i] # preparing'
    BY <2>2 DEF OnceEach
  <2>8. preparing' <= came /\ (phase = "PREPARING" => token \in Awaited')
    BY <2>2, <2>5 DEF OnceEach, Served
  <2>9. QED
    BY <2>1, <2>3, <2>6, <2>7, <2>8 DEF OnceEach
<1>11. CASE SessionStarts \/ PreparationFails
  <2>1. preparing # Nobody /\ preparing' = Nobody /\ UNCHANGED <<preparations, came, worker>>
    BY <1>11, SessionStartIs, FailIs, <1>1
  <2>2. Awaited' \subseteq Awaited \cup {Nobody} /\ preparing \notin Awaited'
    BY <2>1 DEF Awaited, OnceEach
  <2>3. \A x \in Awaited : x = preparing \/ x \in Awaited'
    BY <2>1 DEF Awaited
  <2>4. \A i \in DOMAIN preparations : preparations[i] # Nobody
    BY <1>1
  <2>5. \A i \in DOMAIN submitted : submitted[i].run \in RunIds
    BY <1>a
  <2>6. CASE /\ token # preparing \/ phase # "PREPARING"
             /\ UNCHANGED <<phase, token, submitted, runs>>
    <3>1. phase = "RUNNING" => token \notin Awaited'
      BY <1>1, <2>2 DEF OnceEach, Served
    <3>2. phase = "PREPARING" => token \in Awaited'
      BY <2>3, <2>6 DEF OnceEach
    <3>3. \A i \in DOMAIN submitted : submitted[i].run \notin Awaited'
      BY <1>1, <2>2, <2>5 DEF OnceEach
    <3>4. worker.run # NoRun => worker.run \notin Awaited'
      BY <1>1, <2>2 DEF OnceEach
    <3>5. \A r \in RunIds : r > came \/ r \in Awaited' => ~runs[r].cancelled
      BY <1>1, <2>2 DEF OnceEach
    <3>6. QED
      BY <1>1, <2>1, <2>4, <2>6, <3>1, <3>2, <3>3, <3>4, <3>5 DEF OnceEach
  <2>7. CASE /\ PreparationFails /\ token = preparing /\ phase = "PREPARING"
    <3>1. phase' = "IDLE" /\ UNCHANGED <<submitted, runs>>
      BY <1>1, <2>1, <2>7, FailIs
    <3>2. \A i \in DOMAIN submitted : submitted[i].run \notin Awaited'
      BY <1>1, <2>2, <2>5 DEF OnceEach
    <3>3. worker.run # NoRun => worker.run \notin Awaited'
      BY <1>1, <2>2 DEF OnceEach
    <3>4. \A r \in RunIds : r > came \/ r \in Awaited' => ~runs[r].cancelled
      BY <1>1, <2>2 DEF OnceEach
    <3>5. QED
      BY <1>1, <2>1, <2>4, <3>1, <3>2, <3>3, <3>4 DEF OnceEach
  <2>8. CASE SessionStarts /\ IsPrepared(preparing)
    <3>1. /\ token = preparing /\ phase' = "RUNNING" /\ token' = token
          /\ runs' = [runs EXCEPT ![preparing].session = "ACTIVE"]
          /\ submitted' = Append(submitted, [run |-> preparing, at |-> "capture"])
      BY <2>8, SessionStartIs
    <3>2. preparing \in RunIds /\ runs \in [RunIds -> Run]
      BY <1>1, <2>1 DEF EngineTyped
    <3>3. \A r \in RunIds : runs'[r].cancelled = runs[r].cancelled
      BY <3>1, <3>2 DEF Run
    <3>4. /\ \A i \in DOMAIN submitted' :
               \/ i \in DOMAIN submitted /\ submitted'[i] = submitted[i]
               \/ i = Len(submitted) + 1 /\ submitted'[i].run = preparing
          /\ \A i \in DOMAIN submitted : i \in Int /\ i <= Len(submitted)
      <4>1. [run |-> preparing, at |-> "capture"] \in Capture
        BY <3>2 DEF Capture
      <4>2. QED
        BY <1>1, <3>1, <4>1, AppendIs
    <3>5. preparing <= came /\ preparing \in Awaited
      BY DEF OnceEach, Awaited
    <3>6. \A i \in DOMAIN submitted' : submitted'[i].run \notin Awaited' /\ submitted'[i].run <= came
      BY <1>1, <2>2, <2>5, <3>4, <3>5 DEF OnceEach
    <3>7. \A i \in DOMAIN submitted' : submitted'[i].run # worker.run
      BY <1>1, <2>1, <3>4, <3>5 DEF OnceEach
    <3>8. \A i, j \in DOMAIN submitted' : i < j => submitted'[i].run # submitted'[j].run
      <4>1. Len(submitted) \in Nat
        BY <1>1
      <4>2. QED
        BY <3>4, <3>5, <4>1 DEF OnceEach
    <3>9. worker.run # NoRun => worker.run \notin Awaited'
      BY <1>1, <2>2 DEF OnceEach
    <3>10. \A r \in RunIds : r > came \/ r \in Awaited' => ~runs'[r].cancelled
      BY <1>1, <2>2, <3>3 DEF OnceEach
    <3>11. QED
      BY <1>1, <2>1, <2>2, <2>4, <3>1, <3>6, <3>7, <3>8, <3>9, <3>10 DEF OnceEach
  <2>9. QED
    <3>1. CASE PreparationFails
      BY <1>1, <2>1, <2>6, <2>7, <3>1, FailIs
    <3>2. CASE SessionStarts
      BY <2>6, <2>8, <3>2, SessionStartIs DEF IsPrepared
    <3>3. QED
      BY <1>11, <3>1, <3>2
<1>12. CASE SessionMoves
  <2>1. SessionMoved /\ UNCHANGED serviceVars
    BY <1>12, SessionMovedIs DEF SessionMoves, WorkerRuns
  <2>2. UNCHANGED <<preparing, preparations, came, runs, phase, token>>
    BY <2>1 DEF serviceVars, SessionMoved, WorkerMoved
  <2>3. CASE submitted' = submitted /\ worker'.run \in {worker.run, NoRun}
    BY <1>4, <2>2, <2>3
  <2>4. CASE submitted # << >> /\ submitted' = Tail(submitted) /\ worker'.run \in {NoRun, Head(submitted).run}
    <3>1. Awaited' = Awaited
      BY <2>2 DEF Awaited
    <3>2. /\ Head(submitted) = submitted[1] /\ 1 \in DOMAIN submitted
          /\ \A i \in DOMAIN submitted' : i \in Int /\ i + 1 \in DOMAIN submitted /\ i + 1 > 1
                                          /\ submitted'[i] = submitted[i + 1]
      BY <1>1, <2>4, TailIs
    <3>3. \A i \in DOMAIN submitted : submitted[i].run # NoRun
      BY <1>a
    <3>4. \A i \in DOMAIN submitted' : /\ submitted'[i].run \notin Awaited /\ submitted'[i].run <= came
                                       /\ submitted'[i].run # worker'.run
      BY <2>4, <3>2, <3>3 DEF OnceEach
    <3>5. \A i, j \in DOMAIN submitted' : i < j => submitted'[i].run # submitted'[j].run
      BY <3>2 DEF OnceEach
    <3>6. worker'.run # NoRun => worker'.run \notin Awaited /\ worker'.run <= came
      BY <2>4, <3>2 DEF OnceEach
    <3>7. QED
      BY <2>2, <3>1, <3>4, <3>5, <3>6 DEF OnceEach
  <2>5. QED
    BY <1>1, <2>1, <2>3, <2>4 DEF SessionMoved, WorkerMoved, Mine
<1>13. CASE WorkerTells
  <2>1. worker'.run \in {worker.run, NoRun}
    <3>1. worker' = Resting \/ worker' = [worker EXCEPT !.say = "nothing"]
      BY <1>13, TellIs
    <3>2. QED
      BY <1>1, <3>1 DEF Work
  <2>2. QED
    BY <1>4, <1>13, <2>1, TellIs
<1>14. CASE WorkerFinishes
  <2>1. /\ UNCHANGED <<preparing, preparations, submitted, came>> /\ worker' = Resting
        /\ runs' = runs /\ (phase' = "IDLE" \/ UNCHANGED <<phase, token>>)
    BY <1>14, FinishIs
  <2>2. QED
    BY <1>1, <1>4, <2>1
<1>15. CASE UNCHANGED recognitionVars
  BY <1>4, <1>15 DEF recognitionVars, voiceVars, serviceVars
<1>16. QED
  BY <1>2, <1>3, <1>5, <1>6, <1>8, <1>9, <1>10, <1>11, <1>12, <1>13, <1>14, <1>15, RecCases
-----------------------------------------------------------------------------
(* The worker *)

LEMMA EngineStep ==
  ASSUME EngineTyped, ServiceTyped, Served, MainKnown, OnceEach, WorkerKnown, Telling, RecSteps
  PROVE  WorkerKnown'
<1>1. /\ Nobody = 0 /\ NoRun = 0 /\ worker \in Work
      /\ Resting.run = NoRun /\ Resting.pc = "idle" /\ Resting.say = "nothing"
  BY DEF EngineTyped, Nobody, NoRun, Resting
<1>2. ASSUME worker' = worker, active' \in {active, NoRun}
      PROVE  WorkerKnown'
  BY <1>2 DEF WorkerKnown
<1>3. ASSUME worker' = Resting
      PROVE  WorkerKnown'
  BY <1>1, <1>3 DEF WorkerKnown
<1>4. CASE \/ StartsListening \/ ClientRefused \/ StopsListening \/ CancelsListening
           \/ ServiceDestroyed \/ EngineStops \/ StoppedTooEarly \/ EngineCancels \/ ClientIsGone
           \/ ClientHears \/ DeliveryFails \/ PreparationTaken \/ PreparationFails
           \/ SessionStopsItself \/ UNCHANGED recognitionVars
  <2>1. worker' = worker
    BY <1>4
       DEF StartsListening, ClientRefused, StopsListening, CancelsListening, ServiceDestroyed,
            EngineStops, StoppedTooEarly, EngineCancels, ClientIsGone, ClientHears,
           DeliveryFails,
            PreparationTaken, PreparationFails, SessionStopsItself, VadStops, voiceVars,
           recognitionVars
  <2>2. active' \in {active, NoRun}
    BY <1>4
       DEF StartsListening, ClientRefused, StopsListening, CancelsListening, ServiceDestroyed,
            EngineStops, StoppedTooEarly, EngineCancels, ClientIsGone, ClientHears,
           DeliveryFails,
           PreparationTaken, PreparationFails, SessionStopsItself, VadStops, voiceVars,
           recognitionVars, CancelsRun
  <2>3. QED
    BY <1>2, <2>1, <2>2
<1>5. CASE SessionStarts
  <2>1. preparing # Nobody /\ worker' = worker /\ active' \in {active, preparing}
    BY <1>5, SessionStartIs
  <2>2. worker.run # NoRun => worker.run # preparing
    BY DEF OnceEach, Awaited
  <2>3. QED
    BY <2>1, <2>2 DEF WorkerKnown
<1>6. CASE SessionMoves
  <2>1. SessionMoved /\ worker.say = "nothing"
    BY <1>6, SessionMovedIs DEF SessionMoves, WorkerRuns
  <2>2. CASE worker' = Resting
    BY <1>3, <2>2
  <2>3. CASE submitted' = submitted /\ worker'.run = Mine /\ worker.pc # "idle" /\ worker' # Resting
    <3>1. Mine # NoRun
      BY <2>3 DEF WorkerKnown, Mine
    <3>2. worker'.pc \in {"idle", "ending"} => active' # worker'.run
      BY <2>1, <2>3, <3>1 DEF SessionMoved, WorkerMoved, WorkerKnown, Mine
    <3>3. QED
      BY <2>1, <2>3, <3>1, <3>2 DEF SessionMoved, WorkerMoved, WorkerKnown
  <2>4. CASE /\ submitted # << >> /\ worker'.run = Head(submitted).run /\ worker'.pc = "capture"
             /\ worker'.say = "nothing"
    <3>1. Head(submitted) \in Capture
      BY <2>4, TailIs DEF EngineTyped
    <3>2. worker'.run # NoRun
      BY <1>1, <2>4, <3>1 DEF Capture, RunIds
    <3>3. QED
      BY <2>4, <3>2 DEF WorkerKnown
  <2>5. QED
    BY <2>1, <2>2, <2>3, <2>4 DEF SessionMoved, WorkerMoved
<1>7. CASE WorkerTells
  <2>1. CASE worker' = Resting
    BY <1>3, <2>1
  <2>2. CASE worker' = [worker EXCEPT !.say = "nothing"]
    <3>1. /\ worker'.run = worker.run /\ worker'.pc = worker.pc /\ worker'.say = "nothing"
          /\ worker'.out = worker.out
      BY <1>1, <2>2 DEF Work
    <3>2. active' = active
      BY <1>7, TellIs
    <3>3. QED
      BY <3>1, <3>2 DEF WorkerKnown
  <2>3. QED
    BY <1>7, <2>1, <2>2, TellIs
<1>8. CASE WorkerFinishes
  BY <1>3, <1>8, FinishIs
<1>9. QED
  BY <1>4, <1>5, <1>6, <1>7, <1>8, RecCases

LEMMA RecordingStep ==
  ASSUME EngineTyped, ServiceTyped, Served, MainKnown, OnceEach, WorkerKnown, RecordingOwned, Telling,
         RecSteps
  PROVE  RecordingOwned'
<1>1. /\ Nobody = 0 /\ NoRun = 0 /\ worker \in Work /\ RunIds = 1..MaxRuns /\ MaxRuns \in Nat
      /\ Resting.pc = "idle" /\ runs \in [RunIds -> Run] /\ active \in 0..MaxRuns
  BY VoiceAssumption DEF EngineTyped, Nobody, NoRun, Resting, RunIds
<1>2. ASSUME NEW i \in DOMAIN submitted
      PROVE  submitted[i].run \in RunIds /\ submitted[i].run # NoRun
  <2>1. submitted[i] \in Capture
    BY DEF EngineTyped
  <2>2. QED
    BY <1>1, <2>1 DEF Capture
<1>3. worker.pc \in Recording => Mine \in RunIds /\ Mine # NoRun
  BY <1>1 DEF WorkerKnown, Recording, Work, Mine
\* Nothing may be recorded any more for a run that is not the pipeline's.
<1>4. ASSUME submitted' = submitted, worker' = worker,
             \A r \in RunIds : runs'[r].session = "ACTIVE" =>
               runs[r].session = "ACTIVE" /\ (Owned(r, active, attribution) => Owned(r, active', attribution'))
      PROVE  RecordingOwned'
  BY <1>2, <1>3, <1>4 DEF RecordingOwned, Mine, Recording
<1>5. ASSUME submitted' = submitted, worker' = worker,
             \A r \in RunIds : runs'[r].session = "ACTIVE" => runs[r].session = "ACTIVE" /\ ~Owned(r, active, attribution)
      PROVE  RecordingOwned'
  BY <1>4, <1>5
<1>6. CASE \/ ClientRefused \/ StopsListening \/ CancelsListening \/ StoppedTooEarly
           \/ ClientIsGone \/ ClientHears \/ DeliveryFails \/ PreparationTaken
           \/ UNCHANGED recognitionVars
  <2>1. UNCHANGED <<submitted, worker, runs, active, attribution>>
    BY <1>6
       DEF ClientRefused, StopsListening, CancelsListening, StoppedTooEarly, ClientIsGone,
           ClientHears, DeliveryFails, PreparationTaken, voiceVars, recognitionVars
  <2>2. QED
    BY <1>4, <2>1 DEF Owned
<1>7. CASE StartsListening
  BY <1>1, <1>5, <1>7, StartIs DEF Owned
<1>8. CASE ServiceDestroyed \/ EngineCancels
  <2>1. UNCHANGED <<submitted, worker>> /\ CancelsRun
    BY <1>8 DEF ServiceDestroyed, EngineCancels
  <2>2. QED
    BY <1>5, <2>1, CancelTyped DEF Owned
<1>9. CASE EngineStops
  <2>1. UNCHANGED <<submitted, worker, active>>
    BY <1>9, StopIs
  <2>2. CASE phase = "PREPARING"
    <3>1. active = NoRun /\ runs' = runs
      BY <1>9, <2>2, StopIs DEF Served
    <3>2. QED
      BY <1>1, <1>5, <2>1, <3>1 DEF Owned
  <2>3. CASE phase # "PREPARING"
    <3>1. attribution' = attribution
      BY <1>9, <2>3, StopIs
    <3>2. \A r \in RunIds : runs'[r].session = "ACTIVE" => runs[r].session = "ACTIVE"
      <4>1. CASE runs' = runs
        BY <4>1
      <4>2. CASE active \in RunIds /\ runs' = [runs EXCEPT ![active].session = Stopped(@)]
        BY <4>2, StopTyped
      <4>3. QED
        BY <1>9, <2>3, <4>1, <4>2, StopIs
    <3>3. QED
      BY <1>4, <2>1, <3>1, <3>2 DEF Owned
  <2>4. QED
    BY <2>2, <2>3
<1>10. CASE SessionStarts
  <2>1. /\ preparing # Nobody /\ UNCHANGED <<worker, attribution>>
    BY <1>10, SessionStartIs
  <2>2. CASE UNCHANGED <<active, runs, submitted>>
    BY <1>4, <2>1, <2>2 DEF Owned
  <2>3. CASE IsPrepared(preparing)
    <3>1. /\ token = preparing /\ phase = "PREPARING" /\ active = NoRun /\ active' = preparing
          /\ runs' = [runs EXCEPT ![preparing].session = "ACTIVE"]
          /\ submitted' = Append(submitted, [run |-> preparing, at |-> "capture"])
      BY <1>10, <2>3, SessionStartIs DEF IsPrepared
    <3>2. preparing \in RunIds
      BY <1>1, <2>1 DEF ServiceTyped
    <3>3. /\ \A r \in RunIds : r # preparing => runs'[r] = runs[r]
          /\ Owned(preparing, active', attribution') /\ \A r \in RunIds : ~Owned(r, active, attribution)
      BY <1>1, <2>1, <3>1, <3>2 DEF Owned, Served, RunningPhases
    <3>4. \A i \in DOMAIN submitted' :
               \/ i \in DOMAIN submitted /\ submitted'[i] = submitted[i]
               \/ submitted'[i].run = preparing
      <4>1. [run |-> preparing, at |-> "capture"] \in Capture /\ submitted \in Seq(Capture)
        BY <3>2 DEF Capture, EngineTyped
      <4>2. QED
        BY <3>1, <4>1, AppendIs
    <3>5. worker.run # preparing
      BY <1>1, <2>1 DEF OnceEach, Awaited
    <3>6. \A i \in DOMAIN submitted' : runs'[submitted'[i].run].session = "ACTIVE" => Owned(submitted'[i].run, active', attribution')
      <4>1. ASSUME NEW i \in DOMAIN submitted', runs'[submitted'[i].run].session = "ACTIVE"
            PROVE  submitted'[i].run = preparing
        BY <1>2, <3>3, <3>4, <4>1 DEF RecordingOwned
      <4>2. QED
        BY <3>3, <4>1 DEF Owned
    <3>7. worker.pc \in Recording => runs'[Mine].session # "ACTIVE"
      BY <1>3, <3>3, <3>5 DEF RecordingOwned, Mine
    <3>8. QED
      BY <2>1, <3>6, <3>7 DEF RecordingOwned, Mine, Recording, Owned
  <2>4. QED
    BY <1>10, <2>2, <2>3, SessionStartIs DEF IsPrepared
<1>11. CASE PreparationFails
  <2>1. UNCHANGED <<active, runs, submitted, worker>>
    BY <1>11, FailIs
  <2>2. attribution' = attribution \/ active = NoRun
    BY <1>11, FailIs
  <2>3. QED
    BY <1>1, <1>4, <2>1, <2>2 DEF Owned
<1>12. CASE SessionMoves
  <2>1. SessionMoved
    BY <1>12, SessionMovedIs DEF SessionMoves, WorkerRuns
  <2>2. runs' = runs /\ attribution' = attribution
    BY <2>1 DEF SessionMoved, WorkerMoved
  <2>3. \A r \in RunIds : r # Mine /\ Owned(r, active, attribution) => Owned(r, active', attribution')
    BY <2>1, <2>2 DEF SessionMoved, WorkerMoved, Owned
  <2>4. ASSUME NEW i \in DOMAIN submitted', runs'[submitted'[i].run].session = "ACTIVE"
        PROVE  Owned(submitted'[i].run, active', attribution')
    <3>1. PICK j \in DOMAIN submitted : submitted'[i] = submitted[j]
      <4>1. CASE submitted' = submitted
        BY <4>1
      <4>2. CASE submitted # << >> /\ submitted' = Tail(submitted)
        BY <4>2, TailIs DEF EngineTyped
      <4>3. QED
        BY <2>1, <4>1, <4>2 DEF SessionMoved, WorkerMoved
    <3>2. submitted[j].run \in RunIds /\ submitted[j].run # Mine /\ Owned(submitted[j].run, active, attribution)
      BY <1>2, <2>2, <2>4, <3>1 DEF OnceEach, RecordingOwned, Mine
    <3>3. Owned(submitted[j].run, active', attribution')
      BY <2>2, <2>3, <3>1, <3>2, <2>1 DEF SessionMoved, WorkerMoved, Owned
    <3>4. QED
      BY <3>1, <3>3 DEF Owned
  <2>5. CASE worker' = Resting
    BY <1>1, <2>4, <2>5 DEF RecordingOwned, Recording
  <2>6. CASE /\ submitted # << >> /\ worker'.run = Head(submitted).run /\ worker'.pc = "capture"
             /\ active' = active
    <3>1. 1 \in DOMAIN submitted /\ Head(submitted) = submitted[1]
      BY <2>6, TailIs DEF EngineTyped
    <3>2. runs[worker'.run].session = "ACTIVE" => Owned(worker'.run, active', attribution')
      BY <2>2, <2>6, <3>1 DEF RecordingOwned, Owned
    <3>3. QED
      BY <2>2, <2>4, <2>6, <3>2 DEF RecordingOwned, Mine, Owned
  <2>7. CASE worker'.run = Mine /\ worker.pc # "idle"
    <3>1. worker'.pc \in Recording => worker.pc \in Recording /\ active' = active
      BY <2>1, <2>7 DEF SessionMoved, WorkerMoved, Recording
    <3>2. worker'.pc \in Recording /\ runs[Mine].session = "ACTIVE" => Owned(Mine, active, attribution) /\ Owned(worker'.run, active', attribution')
      BY <2>2, <2>7, <3>1 DEF RecordingOwned, Owned
    <3>3. worker'.pc = "created" /\ runs[Mine].session = "ACTIVE" => worker'.as = Mine
      BY <2>1, <2>2, <3>2 DEF SessionMoved, WorkerMoved, Owned, Recording
    <3>4. worker'.pc = "capturing" => worker'.as = Mine
      BY <2>1 DEF SessionMoved, WorkerMoved, RecordingOwned
    <3>5. QED
      BY <2>2, <2>4, <2>7, <3>2, <3>3, <3>4 DEF RecordingOwned, Mine, Owned
  <2>8. QED
    BY <2>1, <2>5, <2>6, <2>7 DEF SessionMoved, WorkerMoved
<1>13. CASE WorkerTells
  <2>1. UNCHANGED <<active, runs, submitted, attribution>>
    BY <1>13, TellIs
  <2>2. CASE worker' = Resting
    BY <1>1, <2>1, <2>2 DEF RecordingOwned, Recording, Owned
  <2>3. CASE worker' = [worker EXCEPT !.say = "nothing"]
    <3>1. worker'.run = worker.run /\ worker'.pc = worker.pc /\ worker'.as = worker.as
      BY <1>1, <2>3 DEF Work
    <3>2. QED
      BY <2>1, <3>1 DEF RecordingOwned, Mine, Owned
  <2>4. QED
    BY <1>13, <2>2, <2>3, TellIs
<1>14. CASE WorkerFinishes
  <2>1. worker' = Resting /\ UNCHANGED <<submitted, runs>>
    BY <1>14, FinishIs
  <2>2. active' = active /\ (active = NoRun \/ attribution' = attribution)
    BY <1>14, FinishIs
  <2>3. \A i \in DOMAIN submitted' : runs'[submitted'[i].run].session = "ACTIVE" => Owned(submitted'[i].run, active', attribution')
    BY <1>2, <2>1, <2>2 DEF RecordingOwned, Owned
  <2>4. QED
    BY <1>1, <2>1, <2>3 DEF RecordingOwned, Recording
<1>15. CASE SessionStopsItself
  <2>1. /\ worker.pc = "capturing" /\ runs' = [runs EXCEPT ![Mine].session = Stopped(@)]
        /\ UNCHANGED <<active, submitted, worker, attribution>>
    BY <1>15 DEF SessionStopsItself, VadStops, WorkerAt
  <2>2. \A r \in RunIds : runs'[r].session = "ACTIVE" => runs[r].session = "ACTIVE"
    BY <1>3, <2>1, StopTyped DEF Recording
  <2>3. QED
    BY <1>4, <2>1, <2>2 DEF Owned
<1>16. QED
  BY <1>6, <1>7, <1>8, <1>9, <1>10, <1>11, <1>12, <1>13, <1>14, <1>15, RecCases
-----------------------------------------------------------------------------
(* The stop reaches the recording *)

LEMMA StateStep ==
  ASSUME EngineTyped, ServiceTyped, Served, MainKnown, OnceEach, WorkerKnown, EngineKnown, Telling,
         RecSteps
  PROVE  EngineKnown' /\ (active' # NoRun /\ active' = active /\ PastStop => PastStop')
<1> USE DEF PastStop
<1>1. worker \in Work /\ Resting.pc = "idle" /\ "idle" \notin Later /\ NoRun = 0 /\ Nobody = 0
  BY DEF EngineTyped, Resting, Later, NoRun, Nobody
<1>2. ASSUME UNCHANGED <<pipeState, clobbered, worker>>, active' \in {active, NoRun}
      PROVE  EngineKnown' /\ (active' # NoRun /\ active' = active /\ PastStop => PastStop')
  BY <1>2 DEF EngineKnown, Mine
<1>3. CASE \/ StartsListening \/ ClientRefused \/ StopsListening \/ CancelsListening
           \/ EngineStops \/ StoppedTooEarly \/ ClientIsGone
           \/ ClientHears \/ DeliveryFails \/ PreparationTaken \/ PreparationFails
           \/ SessionStopsItself \/ UNCHANGED recognitionVars
  BY <1>2, <1>3
     DEF StartsListening, ClientRefused, StopsListening, CancelsListening,
         EngineStops, StoppedTooEarly, ClientIsGone, ClientHears, DeliveryFails,
          PreparationTaken, PreparationFails, SessionStopsItself, VadStops, voiceVars,
         recognitionVars
<1>4. CASE ServiceDestroyed \/ EngineCancels
  <2>1. active' = NoRun
    BY <1>4 DEF ServiceDestroyed, EngineCancels, CancelsRun
  <2>2. QED
    BY <2>1 DEF EngineKnown
<1>5. CASE SessionStarts
  <2>1. preparing # Nobody /\ UNCHANGED <<worker, clobbered>>
    BY <1>5, SessionStartIs
  <2>2. CASE UNCHANGED <<active, pipeState>>
    BY <1>2, <2>1, <2>2
  <2>3. CASE active = NoRun /\ active' = preparing /\ pipeState' = "RECORDING"
    BY <1>1, <2>1, <2>3 DEF EngineKnown
  <2>4. QED
    BY <1>5, <2>2, <2>3, SessionStartIs
<1>6. CASE SessionMoves
  <2>1. SessionMoved /\ clobbered' = (clobbered \/ Overwrites)
    BY <1>6, SessionMovedIs DEF SessionMoves, WorkerRuns
  <2>2. CASE active' = NoRun
    BY <2>2 DEF EngineKnown
  <2>3. CASE active' # NoRun
    <3>1. active' = active /\ active # NoRun
      BY <2>1, <2>3 DEF SessionMoved, WorkerMoved
    <3>2. RunIsCurrent(active)
      BY <3>1 DEF Served, RunIsCurrent
    <3>3. PastStop => worker'.run = Mine /\ worker'.pc \in Later
      BY <2>1, <2>3, <3>2 DEF SessionMoved, WorkerMoved
    <3>4. PastStop => PastStop'
      BY <3>1, <3>3 DEF Mine
    <3>5. CASE pipeState' = pipeState
      <4>1. ~clobbered' => ~clobbered
        BY <2>1, Zenon
      <4>2. QED
        BY <3>1, <3>4, <3>5, <4>1 DEF EngineKnown
    <3>6. CASE pipeState' # pipeState
      <4>1. worker.pc = "ending" => active # Mine
        BY <1>1, <3>1 DEF WorkerKnown, Mine
      <4>2. ~clobbered' => active = Mine /\ worker.pc # "ending"
        BY <2>1, <3>1, <3>6, <4>1, Zenon DEF Overwrites
      <4>3. worker.pc # "ending" => worker'.pc \in Later
        BY <2>1, <3>6 DEF SessionMoved, WorkerMoved
      <4>4. worker'.pc \in Later => worker'.run = Mine
        BY <1>1, <2>1 DEF SessionMoved, WorkerMoved, Later
      <4>5. ~clobbered' => PastStop'
        BY <3>1, <4>2, <4>3, <4>4 DEF Mine
      <4>6. QED
        BY <3>4, <4>5 DEF EngineKnown
    <3>7. QED
      BY <3>5, <3>6
  <2>4. QED
    BY <2>2, <2>3
<1>7. CASE WorkerTells
  <2>1. UNCHANGED <<active, pipeState, clobbered>>
    BY <1>7, TellIs
  <2>2. worker.pc = "idle" \/ (worker'.run = Mine /\ worker'.pc = worker.pc)
    BY <1>1, <1>7 DEF WorkerTells, ListenerReturns, Work, Mine
  <2>3. QED
    BY <1>1, <2>1, <2>2 DEF EngineKnown, Mine
<1>8. CASE WorkerFinishes
  <2>1. worker.pc = "idle" /\ worker' = Resting /\ clobbered' = clobbered
    BY <1>8, FinishIs DEF WorkerKnown
  <2>2. active' = NoRun \/ UNCHANGED <<active, pipeState>>
    BY <1>8, FinishIs
  <2>3. QED
    BY <1>1, <2>1, <2>2 DEF EngineKnown
<1>9. QED
  BY <1>3, <1>4, <1>5, <1>6, <1>7, <1>8, RecCases

LEMMA StopStep ==
  ASSUME EngineTyped, ServiceTyped, Served, MainKnown, OnceEach, WorkerKnown, EngineKnown, StopReached,
         Telling, RecSteps
  PROVE  StopReached'
<1>1. /\ NoClient.state = "IDLE" /\ NoRun = 0 /\ Nobody = 0 /\ runs \in [RunIds -> Run]
      /\ controller \in Client /\ active \in 0..MaxRuns /\ MaxRuns \in Nat /\ RunIds = 1..MaxRuns
      /\ worker \in Work
  BY VoiceAssumption DEF NoClient, NoRun, Nobody, EngineTyped, ServiceTyped, RunIds
<1>2. active' # NoRun /\ active' = active /\ PastStop => PastStop'
  BY StateStep
\* What a step must leave alone, when nobody is asked to stop.
<1>3. ASSUME controller'.state = "PROCESSING" => controller.state = "PROCESSING",
             mainThread = "stopping" => mainThread' = "stopping", ~clobbered' => ~clobbered,
             phase' = "PREPARING" => phase = "PREPARING",
             active' \in {active, NoRun},
             active # NoRun /\ runs[active].session # "ACTIVE" => runs'[active].session # "ACTIVE"
      PROVE  StopReached'
  <2>1. phase' = "PREPARING" /\ mainThread' # "stopping" => controller'.state # "PROCESSING"
    BY <1>3 DEF StopReached
  <2>2. ASSUME controller'.state = "PROCESSING", mainThread' # "stopping", ~clobbered', active' # NoRun
        PROVE  runs'[active'].session # "ACTIVE" \/ PastStop'
    <3>1. active' = active
      BY <1>3, <2>2
    <3>2. runs[active].session # "ACTIVE" \/ PastStop
      BY <1>3, <2>2, <3>1 DEF StopReached, PastStop
    <3>3. QED
      BY <1>2, <1>3, <2>2, <3>1, <3>2
  <2>3. QED
    BY <2>1, <2>2, Zenon DEF StopReached, PastStop
<1>4. ASSUME controller' = NoClient
      PROVE  StopReached'
  BY <1>1, <1>4 DEF StopReached
<1>5. CASE ClientRefused \/ ClientIsGone \/ ClientHears \/ PreparationTaken \/ UNCHANGED recognitionVars
  <2>1. UNCHANGED <<controller, mainThread, clobbered, phase, active, runs>>
     BY <1>5 DEF ClientRefused, ClientIsGone, ClientHears, PreparationTaken, voiceVars,
       serviceVars,
                recognitionVars
  <2>2. QED
    BY <1>3, <2>1
<1>6. CASE ServiceDestroyed \/ StoppedTooEarly
  BY <1>4, <1>6, StoppedIs DEF ServiceDestroyed
<1>7. CASE CancelsListening \/ DeliveryFails
  <2>1. controller' = NoClient
        \/ UNCHANGED <<controller, mainThread, clobbered, phase, active, runs>>
    BY <1>7 DEF CancelsListening, DeliveryFails, Forgets, voiceVars
  <2>2. QED
    BY <1>3, <1>4, <2>1
<1>8. CASE StartsListening
  <2>1. /\ controller' = [NoClient EXCEPT !.who = came', !.state = "STARTING"]
    BY <1>8, StartIs
  <2>2. controller'.state = "STARTING"
    BY <2>1 DEF NoClient
  <2>3. QED
    BY <2>2 DEF StopReached
<1>9. CASE StopsListening
  BY <1>9 DEF StopsListening, StopReached
<1>10. CASE EngineStops
  <2>1. UNCHANGED <<active, worker, controller, clobbered>> /\ mainThread = "stopping"
    BY <1>10, StopIs
  <2>2. CASE phase = "PREPARING"
    BY <1>10, <2>1, <2>2, StopIs DEF Served, StopReached
  <2>3. CASE phase # "PREPARING"
    <3>1. phase' = phase /\ mainThread' = "free"
      BY <1>10, <2>3, StopIs
    <3>2. CASE active = NoRun
      BY <2>1, <2>3, <3>1, <3>2 DEF StopReached
    <3>3. CASE active # NoRun
      <4>1. phase = "RUNNING"
        BY <2>3, <3>3 DEF Served, RunningPhases
      <4>2. CASE CanStop
        <5>1. active \in RunIds /\ runs' = [runs EXCEPT ![active].session = Stopped(@)]
          BY <1>10, <2>3, <4>1, <4>2, StopIs
        <5>2. runs'[active].session # "ACTIVE"
          BY <5>1, StopTyped
        <5>3. QED
          BY <2>1, <2>3, <3>1, <5>2 DEF StopReached
      <4>3. CASE ~CanStop
        <5>1. ~clobbered => PastStop
          BY <3>3, <4>3 DEF CanStop, EngineKnown, PastStop
        <5>2. QED
          BY <1>2, <2>1, <2>3, <3>1, <3>3, <5>1 DEF StopReached, PastStop
      <4>4. QED
        BY <4>2, <4>3
    <3>4. QED
      BY <3>2, <3>3
  <2>4. QED
    BY <2>2, <2>3
<1>11. CASE EngineCancels
  BY <1>11 DEF EngineCancels, CancelsRun, StopReached
<1>12. CASE SessionStarts
  <2>1. UNCHANGED <<controller, mainThread, clobbered>>
    BY <1>12, SessionStartIs
  <2>2. CASE UNCHANGED <<active, runs, phase>>
    BY <1>3, <2>1, <2>2
  <2>3. CASE phase = "PREPARING" /\ phase' = "RUNNING"
    <3>1. mainThread' # "stopping" => controller'.state # "PROCESSING"
      BY <2>1, <2>3 DEF StopReached
    <3>2. QED
      BY <2>3, <3>1 DEF StopReached
  <2>4. QED
    BY <1>12, <2>2, <2>3, SessionStartIs
<1>13. CASE PreparationFails
  <2>1. controller' = NoClient \/ UNCHANGED <<controller, phase>>
    BY <1>13, FailIs
  <2>2. UNCHANGED <<active, runs, mainThread, clobbered>>
    BY <1>13, FailIs
  <2>3. QED
    BY <1>3, <1>4, <2>1, <2>2
<1>14. CASE SessionMoves
  <2>1. SessionMoved /\ (~clobbered' => ~clobbered) /\ UNCHANGED serviceVars
    BY <1>14, SessionMovedIs DEF SessionMoves, WorkerRuns
  <2>2. UNCHANGED <<controller, phase, mainThread, runs>> /\ active' \in {active, NoRun}
    BY <2>1 DEF serviceVars, SessionMoved, WorkerMoved
  <2>3. QED
    BY <1>3, <2>1, <2>2
<1>15. CASE WorkerTells
  <2>1. UNCHANGED <<active, runs, mainThread, clobbered, phase>>
    BY <1>15, TellIs
  <2>2. CASE controller'.state = "PROCESSING" => controller.state = "PROCESSING"
    BY <1>3, <2>1, <2>2
  <2>3. CASE ~(controller'.state = "PROCESSING" => controller.state = "PROCESSING")
    <3>1. Mine \in Clients /\ token = Mine /\ phase = "RUNNING" /\ Controls(Mine, worker.say)
      BY <1>15, <2>3, TellIs
    <3>2. worker.say = "processing"
      BY <1>15, <2>3, <3>1, TellIs, WhoIs
    <3>3. worker'.pc \in Later /\ worker'.run = Mine
      BY <1>15, <3>2, TellIs
    <3>4. active # NoRun => active = Mine
      BY <3>1 DEF Served
    <3>5. active' # NoRun => worker'.run = active' /\ worker'.pc \in Later
      BY <2>1, <3>3, <3>4
    <3>6. QED
      BY <2>1, <3>1, <3>5 DEF StopReached, PastStop, Mine
  <2>4. QED
    BY <2>2, <2>3
<1>16. CASE WorkerFinishes
  <2>1. controller' = NoClient \/ UNCHANGED <<controller, phase, active, runs, mainThread, clobbered>>
    BY <1>16, FinishIs
  <2>2. QED
    BY <1>3, <1>4, <2>1
<1>17. CASE SessionStopsItself
  <2>1. /\ worker.pc = "capturing" /\ runs' = [runs EXCEPT ![Mine].session = Stopped(@)]
        /\ UNCHANGED <<active, clobbered>> /\ UNCHANGED serviceVars
    BY <1>17 DEF SessionStopsItself, VadStops, WorkerAt
  <2>2. Mine \in RunIds
    BY <1>1, <2>1 DEF WorkerKnown, Work, Mine
  <2>3. active # NoRun /\ runs[active].session # "ACTIVE" => runs'[active].session # "ACTIVE"
    <3>1. active # NoRun => active \in RunIds
      BY <1>1
    <3>2. active # NoRun => active = Mine \/ runs'[active] = runs[active]
      BY <2>1, <2>2, <3>1, StopTyped
    <3>3. runs'[Mine].session # "ACTIVE"
      BY <2>1, <2>2, StopTyped
    <3>4. QED
      BY <3>2, <3>3
  <2>4. QED
    BY <1>3, <2>1, <2>3 DEF serviceVars
<1>18. QED
   BY <1>5, <1>6, <1>7, <1>8, <1>9, <1>10, <1>11, <1>12, <1>13, <1>14, <1>15, <1>16, <1>17,
     RecCases
-----------------------------------------------------------------------------
(* What a client is told *)

LEMMA RankIs == \A x \in Tellings : Rank(x) \in 1..4
  BY DEF Tellings, Rank

LEMMA FitMore ==
  ASSUME NEW p, NEW c, NEW s, NEW l \in Int, NEW m \in Int, l <= m, Fitting(p, c, s, l)
  PROVE  Fitting(p, c, s, m)
<1>1. ASSUME NEW j \in DOMAIN p
      PROVE  Rank(p[j].what) \in Int
  <2>1. p[j] \in Message
    BY DEF Fitting
  <2>2. QED
    BY <2>1, RankIs DEF Message
<1>2. QED
  BY <1>1 DEF Fitting, UpTo

\* What is posted next to a client fits.
LEMMA FitAppend ==
  ASSUME NEW p, NEW c \in Clients, NEW s, NEW l \in Int, NEW x \in Tellings, Rank(x) > l,
         Fitting(p, c, s, l), HeardUpTo(s, l)
  PROVE  Fitting(Append(p, [to |-> c, what |-> x]), c, s, Rank(x)) /\ HeardUpTo(s, Rank(x))
<1> DEFINE m == [to |-> c, what |-> x]
           q == Append(p, m)
<1>1. m \in Message /\ m.to = c /\ m.what = x /\ p \in Seq(Message) /\ s \in Seq(Tellings) /\ Rank(x) \in Int
  BY RankIs DEF Message, Fitting
<1>2. /\ q \in Seq(Message)
      /\ \A i \in DOMAIN q : \/ i \in DOMAIN p /\ q[i] = p[i]
                             \/ i = Len(p) + 1 /\ q[i] = m
      /\ \A i \in DOMAIN p : i \in Int /\ i <= Len(p)
      /\ Len(p) \in Nat
  BY <1>1, AppendIs
<1>3. ASSUME NEW j \in DOMAIN p, p[j].to = c
      PROVE  Rank(p[j].what) \in Int /\ Rank(p[j].what) <= l /\ Rank(p[j].what) < Rank(x)
  <2>1. p[j] \in Message
    BY <1>1
  <2>2. Rank(p[j].what) \in Int
    BY <2>1, RankIs DEF Message
  <2>3. Rank(p[j].what) <= l
    BY <1>3 DEF Fitting, UpTo
  <2>4. QED
    BY <1>1, <2>2, <2>3
<1>4. ASSUME NEW i \in DOMAIN s
      PROVE  Rank(s[i]) \in Int /\ Rank(s[i]) <= l /\ Rank(s[i]) < Rank(x)
  <2>1. s[i] \in Tellings
    BY <1>1
  <2>2. Rank(s[i]) \in Int /\ Rank(s[i]) <= l
    BY <2>1, RankIs DEF HeardUpTo
  <2>3. QED
    BY <1>1, <2>2
<1> HIDE DEF m, q
<1>5. Ascending(q, c)
  BY <1>1, <1>2, <1>3 DEF Fitting, Ascending
<1>6. Above(q, c, s)
  BY <1>1, <1>2, <1>4 DEF Fitting, Above
<1>7. UpTo(q, c, Rank(x))
  <2>1. ASSUME NEW j \in DOMAIN q, q[j].to = c
        PROVE  Rank(q[j].what) <= Rank(x)
    <3>1. CASE j \in DOMAIN p /\ q[j] = p[j]
      BY <1>1, <1>3, <2>1, <3>1
    <3>2. CASE q[j] = m
      BY <1>1, <3>2
    <3>3. QED
      BY <1>2, <3>1, <3>2
  <2>2. QED
    BY <2>1 DEF UpTo
<1>8. HeardUpTo(s, Rank(x))
  BY <1>1, <1>4 DEF HeardUpTo
<1>9. Fitting(q, c, s, Rank(x))
  BY <1>1, <1>2, <1>5, <1>6, <1>7 DEF Fitting
<1>10. QED
  BY <1>8, <1>9 DEF m, q

\* The posts are taken one by one.
LEMMA FitTail ==
  ASSUME NEW p, NEW c, NEW s, NEW l \in Int, Fitting(p, c, s, l), p # << >>
  PROVE  Fitting(Tail(p), c, s, l)
<1>1. /\ p \in Seq(Message) /\ Tail(p) \in Seq(Message)
      /\ \A i \in DOMAIN Tail(p) : i \in Int /\ i + 1 \in DOMAIN p /\ Tail(p)[i] = p[i + 1]
  BY TailIs DEF Fitting
<1>2. QED
  BY <1>1 DEF Fitting, Ascending, Above, UpTo

LEMMA FitHeard ==
  ASSUME NEW p, NEW c \in Clients, NEW s, NEW l \in Int, Fitting(p, c, s, l), InOrder(s), p # << >>,
         Head(p).to = c
  PROVE  /\ Fitting(Tail(p), c, Append(s, Head(p).what), l)
         /\ InOrder(Append(s, Head(p).what)) /\ Rank(Head(p).what) <= l
<1> DEFINE x == Head(p).what
           t == Append(s, x)
<1>1. /\ p \in Seq(Message) /\ Tail(p) \in Seq(Message) /\ s \in Seq(Tellings)
      /\ Head(p) = p[1] /\ Head(p) \in Message /\ 1 \in DOMAIN p /\ x \in Tellings
      /\ \A i \in DOMAIN Tail(p) : i \in Int /\ i + 1 \in DOMAIN p /\ i + 1 > 1 /\ Tail(p)[i] = p[i + 1]
  <2>1. p \in Seq(Message) /\ s \in Seq(Tellings)
    BY DEF Fitting
  <2>2. Head(p) \in Message
    BY <2>1, TailIs
  <2>3. x \in Tellings
    BY <2>2 DEF Message
  <2>4. QED
    BY <2>1, <2>2, <2>3, TailIs
<1>2. /\ t \in Seq(Tellings)
      /\ \A i \in DOMAIN t : \/ i \in DOMAIN s /\ t[i] = s[i]
                             \/ i = Len(s) + 1 /\ t[i] = x
      /\ \A i \in DOMAIN s : i \in Int /\ i <= Len(s)
      /\ Len(s) \in Nat
  BY <1>1, AppendIs
<1> HIDE DEF t
<1>3. \A i \in DOMAIN s : Rank(s[i]) < Rank(x)
  BY <1>1 DEF Fitting, Above
<1>4. InOrder(t)
  BY <1>2, <1>3 DEF InOrder
<1>5. Above(Tail(p), c, t)
  <2>1. ASSUME NEW j \in DOMAIN Tail(p), Tail(p)[j].to = c
        PROVE  /\ Rank(x) < Rank(Tail(p)[j].what)
               /\ \A i \in DOMAIN s : Rank(s[i]) < Rank(Tail(p)[j].what)
    BY <1>1, <2>1 DEF Fitting, Ascending, Above
  <2>2. QED
    BY <1>2, <2>1 DEF Above
<1>6. Ascending(Tail(p), c) /\ UpTo(Tail(p), c, l)
  BY FitTail DEF Fitting
<1>7. Rank(x) <= l
  BY <1>1 DEF Fitting, UpTo
<1>8. QED
  BY <1>1, <1>2, <1>4, <1>5, <1>6, <1>7 DEF Fitting, t

\* An event fits, and so does the session after it.
LEMMA FitControls ==
  ASSUME ServiceTyped, Served, Telling, NEW c \in Clients,
         NEW what \in {"ready", "beginning", "processing", "result", "error"}, Controls(c, what),
         UNCHANGED <<came, answers, activeCallback>>
  PROVE  Telling'
<1>1. c # Nobody /\ NoClient.who = Nobody /\ ~NoClient.beginning /\ ~NoClient.ended
  BY VoiceAssumption DEF Clients, RunIds, Nobody, NoClient
<1>2. CASE UNCHANGED <<posts, controller>>
  BY <1>2 DEF Telling
<1>3. CASE ~UNCHANGED <<posts, controller>>
  <2> DEFINE l == Level(controller)
             s == answers[c]
             m == IF what \in {"result", "error"} THEN 4 ELSE Level(controller')
  <2>1. /\ controller.who = c /\ activeCallback = c /\ c <= came /\ l \in 0..3 /\ TellsNext(c, l, m)
        /\ (what \in {"ready", "beginning", "processing"} /\ controller'.who = c)
           \/ (what \in {"result", "error"} /\ controller' = NoClient)
        /\ (controller'.beginning => controller'.ready)
        /\ (controller'.ended => controller'.state = "PROCESSING")
    BY <1>1, <1>3, ControlsIs DEF Served
  <2>2. Fitting(posts, c, s, l) /\ HeardUpTo(s, l)
    BY <1>1, <2>1 DEF Telling
  <2>3. /\ Fitting(posts', c, s, m) /\ HeardUpTo(s, m) /\ m \in 1..4
        /\ \A i \in DOMAIN posts' : posts'[i].to = c \/ (i \in DOMAIN posts /\ posts'[i] = posts[i])
    <3>1. CASE \E x \in Tellings :
                 posts' = Append(posts, [to |-> c, what |-> x]) /\ Rank(x) > l /\ Rank(x) = m
      <4>1. PICK x \in Tellings : posts' = Append(posts, [to |-> c, what |-> x]) /\ Rank(x) > l /\ Rank(x) = m
        BY <3>1
      <4>2. l \in Int /\ m \in 1..4 /\ [to |-> c, what |-> x] \in Message
        BY <2>1, <4>1, RankIs DEF Message
      <4>3. Fitting(posts', c, s, m) /\ HeardUpTo(s, m)
        BY <2>2, <4>1, <4>2, FitAppend
      <4>4. \A i \in DOMAIN posts' : posts'[i].to = c \/ (i \in DOMAIN posts /\ posts'[i] = posts[i])
        BY <4>1, <4>2, AppendIs DEF ServiceTyped
      <4>5. QED
        BY <4>2, <4>3, <4>4
    <3>2. CASE \E x, y \in Tellings :
                 /\ posts' = Append(Append(posts, [to |-> c, what |-> x]), [to |-> c, what |-> y])
                 /\ Rank(x) > l /\ Rank(y) > Rank(x) /\ Rank(y) = m
      <4>1. PICK x \in Tellings, y \in Tellings :
                 /\ posts' = Append(Append(posts, [to |-> c, what |-> x]), [to |-> c, what |-> y])
                 /\ Rank(x) > l /\ Rank(y) > Rank(x) /\ Rank(y) = m
        BY <3>2
      <4>2. /\ l \in Int /\ Rank(x) \in Int /\ m \in 1..4
            /\ [to |-> c, what |-> x] \in Message /\ [to |-> c, what |-> y] \in Message
        BY <2>1, <4>1, RankIs DEF Message
      <4> DEFINE q == Append(posts, [to |-> c, what |-> x])
      <4>3. Fitting(q, c, s, Rank(x)) /\ HeardUpTo(s, Rank(x))
        BY <2>2, <4>1, <4>2, FitAppend
      <4>4. /\ q \in Seq(Message)
            /\ \A i \in DOMAIN q : q[i].to = c \/ (i \in DOMAIN posts /\ q[i] = posts[i])
        BY <4>2, AppendIs DEF ServiceTyped
      <4>5. posts' = Append(q, [to |-> c, what |-> y])
        BY <4>1
      <4> HIDE DEF q
      <4>x. Rank(y) > Rank(x) /\ Rank(y) = m
        BY <4>1
      <4>6. Fitting(posts', c, s, m) /\ HeardUpTo(s, m)
        <5>1. Fitting(Append(q, [to |-> c, what |-> y]), c, s, Rank(y)) /\ HeardUpTo(s, Rank(y))
          BY <4>2, <4>3, <4>x, FitAppend
        <5>2. QED
          BY <4>5, <4>x, <5>1
      <4>7. \A i \in DOMAIN posts' : posts'[i].to = c \/ (i \in DOMAIN q /\ posts'[i] = q[i])
        BY <4>2, <4>4, <4>5, AppendIs
      <4>8. QED
        BY <4>2, <4>4, <4>6, <4>7
    <3>3. QED
      BY <2>1, <3>1, <3>2, Zenon DEF TellsNext
  <2> HIDE DEF l, s, m
  <2>4. \A i \in DOMAIN posts' : posts'[i].to <= came
    BY <2>1, <2>3 DEF Telling
  <2>5. Fitting(posts', c, s, 4)
    BY <2>3, FitMore
  <2>6. controller'.who # Nobody =>
          controller'.who = c /\ Fitting(posts', c, s, Level(controller')) /\ HeardUpTo(s, Level(controller'))
    BY <1>1, <2>1, <2>3 DEF m
  <2>7. QED
    BY <2>1, <2>4, <2>5, <2>6 DEF Telling, s
<1>4. QED
  BY <1>2, <1>3
LEMMA TellingStep ==
  ASSUME EngineTyped, ServiceTyped, Served, MainKnown, OnceEach, WorkerKnown, Telling, RecSteps
  PROVE  Telling'
<1>1. /\ Nobody = 0 /\ came \in 0..MaxRuns /\ MaxRuns \in Nat /\ Clients = 1..MaxRuns
      /\ NoClient.who = Nobody /\ ~NoClient.beginning /\ ~NoClient.ended /\ controller \in Client
      /\ answers \in [Clients -> Seq(Tellings)] /\ activeCallback \in 0..MaxRuns /\ posts \in Seq(Message)
  BY VoiceAssumption DEF ServiceTyped, Nobody, NoClient, Clients, RunIds
<1>2. Level(controller) \in Int
  BY DEF Level
<1>3. ASSUME UNCHANGED <<came, posts, answers>>, activeCallback' \in {activeCallback, Nobody},
             controller' \in {controller, NoClient}
      PROVE  Telling'
  BY <1>1, <1>3 DEF Telling
<1>4. CASE \/ CancelsListening \/ ServiceDestroyed \/ EngineStops \/ EngineCancels
           \/ PreparationTaken \/ SessionMoves \/ SessionStopsItself \/ UNCHANGED recognitionVars
  <2>1. UNCHANGED <<came, posts, answers>>
     BY <1>4 DEF CancelsListening, ServiceDestroyed, EngineStops, EngineCancels,
       PreparationTaken,
                SessionMoves, SessionStopsItself, serviceVars, recognitionVars
  <2>2. activeCallback' \in {activeCallback, Nobody} /\ controller' \in {controller, NoClient}
     BY <1>4 DEF CancelsListening, ServiceDestroyed, EngineStops, EngineCancels,
       PreparationTaken,
                SessionMoves, SessionStopsItself, serviceVars, recognitionVars, Forgets
  <2>3. QED
    BY <1>3, <2>1, <2>2
<1>5. CASE StartsListening
  <2>1. /\ came' = came + 1 /\ came' \in Clients /\ activeCallback' = came'
        /\ controller' = [NoClient EXCEPT !.who = came', !.state = "STARTING"]
        /\ UNCHANGED <<posts, answers>>
    BY <1>5, StartIs
  <2>2. /\ controller'.who = came' /\ ~controller'.beginning /\ ~controller'.ended
        /\ came' > came /\ came' # Nobody
    BY <1>1, <2>1 DEF NoClient
  <2>3. answers[came'] = << >>
    BY <2>1, <2>2 DEF Telling
  <2>4. \A i \in DOMAIN posts : posts[i].to <= came /\ posts[i].to \in Clients
    <3>1. \A i \in DOMAIN posts : posts[i] \in Message
      BY <1>1
    <3>2. QED
      BY <3>1 DEF Telling, Message
  <2>5. \A i \in DOMAIN posts : posts[i].to # came' /\ posts[i].to <= came'
    BY <1>1, <2>1, <2>4
  <2>6. \A l : Fitting(posts, came', answers[came'], l) /\ HeardUpTo(answers[came'], l)
    BY <1>1, <2>3, <2>5 DEF Fitting, Ascending, Above, UpTo, HeardUpTo
  <2>7. \A c \in Clients : c > came' => answers[c] = << >>
    BY <1>1, <2>1 DEF Telling
  <2>8. QED
    BY <2>1, <2>2, <2>5, <2>6, <2>7 DEF Telling
<1>6. CASE ClientRefused
  <2>1. /\ came' = came + 1 /\ came' \in Clients /\ came' > came
        /\ answers' = [answers EXCEPT ![came'] = Append(@, "error")]
        /\ UNCHANGED <<posts, activeCallback, controller>>
    BY <1>1, <1>6 DEF ClientRefused, Tell
  <2>2. answers'[came'] = <<"error">> /\ \A c \in Clients : c # came' => answers'[c] = answers[c]
    <3>1. answers[came'] = << >>
      BY <2>1 DEF Telling
    <3>2. Append(<< >>, "error") = <<"error">>
      OBVIOUS
    <3>3. QED
      BY <1>1, <2>1, <3>1, <3>2
  <2>3. InOrder(answers'[came'])
    BY <2>2 DEF InOrder
  <2>4. activeCallback # came' /\ controller.who \in {Nobody, activeCallback}
    BY <1>1, <2>1 DEF Served
  <2>5. /\ activeCallback # Nobody => answers'[activeCallback] = answers[activeCallback]
        /\ controller.who # Nobody => answers'[controller.who] = answers[controller.who]
    BY <1>1, <2>2, <2>4
  <2>6. \A c \in Clients : InOrder(answers'[c]) /\ (c > came' => answers'[c] = << >>)
    BY <1>1, <2>1, <2>2, <2>3 DEF Telling
  <2>7. \A i \in DOMAIN posts : posts[i].to <= came'
    <3>1. ASSUME NEW i \in DOMAIN posts
          PROVE  posts[i].to <= came'
      <4>1. posts[i] \in Message
        BY <1>1
      <4>2. posts[i].to \in Int
        BY <1>1, <4>1 DEF Message
      <4>3. posts[i].to <= came
        BY DEF Telling
      <4>4. QED
        BY <1>1, <2>1, <4>2, <4>3
    <3>2. QED
      BY <2>1, <3>1
  <2>8. QED
    BY <2>1, <2>5, <2>6, <2>7 DEF Telling
<1>7. CASE StopsListening
  <2>1. /\ controller' = [controller EXCEPT !.state = "PROCESSING"]
        /\ UNCHANGED <<came, posts, answers, activeCallback>>
    BY <1>7 DEF StopsListening
  <2>2. /\ controller'.who = controller.who /\ controller'.state = "PROCESSING"
        /\ controller'.ready = controller.ready /\ controller'.beginning = controller.beginning
        /\ controller'.ended = controller.ended
    BY <1>1, <2>1 DEF Client
  <2>3. Level(controller') = Level(controller)
    BY <2>2 DEF Level
  <2>4. QED
    BY <2>1, <2>2, <2>3 DEF Telling
<1>8. CASE StoppedTooEarly
  BY <1>8, StoppedIs, FitControls
<1>9. CASE PreparationFails
  <2>1. UNCHANGED <<came, answers, activeCallback>> /\ preparing \in Clients
    BY <1>9, FailIs
  <2>2. CASE UNCHANGED <<posts, controller>>
    BY <1>3, <2>1, <2>2
  <2>3. CASE Controls(preparing, "error")
    BY <2>1, <2>3, FitControls
  <2>4. QED
    BY <1>9, <2>2, <2>3, FailIs
<1>10. CASE WorkerTells
  <2>1. /\ UNCHANGED <<came, answers, activeCallback>> /\ Mine \in Clients
        /\ worker.say \in {"ready", "beginning", "processing"}
    BY <1>10, TellIs
  <2>2. CASE UNCHANGED <<posts, controller>>
    BY <1>3, <2>1, <2>2
  <2>3. CASE Controls(Mine, worker.say)
    BY <2>1, <2>3, FitControls
  <2>4. QED
    BY <1>10, <2>2, <2>3, TellIs
<1>11. CASE WorkerFinishes
  <2>1. /\ UNCHANGED <<came, answers, activeCallback>> /\ Mine \in Clients
        /\ worker.say \in {"result", "error"}
    BY <1>11, FinishIs
  <2>2. CASE UNCHANGED <<posts, controller>>
    BY <1>3, <2>1, <2>2
  <2>3. CASE Controls(Mine, worker.say)
    BY <2>1, <2>3, FitControls
  <2>4. QED
    BY <1>11, <2>2, <2>3, FinishIs
<1>12. CASE SessionStarts
  BY <1>3, <1>12, SessionStartIs
\* The posts are taken.
<1>13. CASE ClientIsGone \/ DeliveryFails
  <2>1. /\ posts # << >> /\ posts' = Tail(posts) /\ UNCHANGED <<came, answers>>
        /\ activeCallback' \in {activeCallback, Nobody} /\ controller' \in {controller, NoClient}
    BY <1>13 DEF ClientIsGone, DeliveryFails, Forgets
  <2>2. \A i \in DOMAIN posts' : posts'[i].to <= came
    BY <1>1, <2>1, TailIs DEF Telling
  <2>3. activeCallback # Nobody => Fitting(posts', activeCallback, answers[activeCallback], 4)
    BY <2>1, FitTail DEF Telling
  <2>4. controller.who # Nobody => Fitting(posts', controller.who, answers[controller.who], Level(controller))
    BY <1>2, <2>1, FitTail DEF Telling
  <2>5. QED
    BY <1>1, <2>1, <2>2, <2>3, <2>4 DEF Telling
<1>14. CASE ClientHears
  <2> DEFINE c == activeCallback
             s == answers[c]
             t == Append(s, Posted.what)
  <2>1. /\ posts # << >> /\ ForOwn /\ posts' = Tail(posts)
        /\ answers' = [answers EXCEPT ![Posted.to] = Append(@, Posted.what)]
        /\ UNCHANGED <<came, controller>> /\ activeCallback' \in {activeCallback, Nobody}
    BY <1>14 DEF ClientHears, Tell
  <2>2. /\ c \in Clients /\ c # Nobody /\ Posted.to = c /\ c <= came
        /\ Posted = Head(posts)
    BY <1>1, <2>1, EndIs DEF Posted
  <2>3. answers'[c] = t /\ \A d \in Clients : d # c => answers'[d] = answers[d]
    BY <1>1, <2>1, <2>2
  <2>4. Fitting(posts, c, s, 4) /\ InOrder(s)
    BY <2>2 DEF Telling
  <2>5. Fitting(posts', c, t, 4) /\ InOrder(t)
    BY <2>1, <2>2, <2>4, FitHeard
  <2>6. controller.who # Nobody =>
          /\ controller.who = c
          /\ Fitting(posts', c, t, Level(controller)) /\ HeardUpTo(t, Level(controller))
    <3>1. SUFFICES ASSUME controller.who # Nobody
                   PROVE  /\ controller.who = c
                          /\ Fitting(posts', c, t, Level(controller)) /\ HeardUpTo(t, Level(controller))
      OBVIOUS
    <3>2. /\ controller.who = c /\ Fitting(posts, c, s, Level(controller))
          /\ HeardUpTo(s, Level(controller))
      BY <3>1 DEF Served, Telling
    <3>3. Fitting(posts', c, t, Level(controller)) /\ Rank(Posted.what) <= Level(controller)
      BY <1>2, <2>1, <2>2, <2>4, <3>2, FitHeard
    <3>4. HeardUpTo(t, Level(controller))
      <4>1. s \in Seq(Tellings) /\ Posted.what \in Tellings
        <5>1. Posted \in Message
          BY <2>1, EndIs
        <5>2. QED
          BY <3>2, <5>1 DEF Fitting, Message
      <4>2. \A i \in DOMAIN t : \/ i \in DOMAIN s /\ t[i] = s[i]
                                \/ t[i] = Posted.what
        BY <4>1, AppendIs
      <4>3. QED
        BY <3>2, <3>3, <4>2 DEF HeardUpTo
    <3>5. QED
      BY <3>2, <3>3, <3>4
  <2> HIDE DEF t
  <2>7. \A d \in Clients : InOrder(answers'[d]) /\ (d > came => answers'[d] = << >>)
    BY <1>1, <2>2, <2>3, <2>5 DEF Telling
  <2>8. \A i \in DOMAIN posts' : posts'[i].to <= came
    BY <1>1, <2>1, TailIs DEF Telling
  <2>9. QED
    BY <2>1, <2>2, <2>3, <2>5, <2>6, <2>7, <2>8 DEF Telling
<1>15. QED
  BY <1>4, <1>5, <1>6, <1>7, <1>8, <1>9, <1>10, <1>11, <1>12, <1>13, <1>14, RecCases
-----------------------------------------------------------------------------
(* The theorems *)

LEMMA RecKeeps == RecInv /\ RecSteps => RecInv'
<1> SUFFICES ASSUME RecInv, RecSteps PROVE RecInv'
  OBVIOUS
<1> USE DEF RecInv
<1>1. EngineTyped'
  BY PipeStep
<1>2. ServiceTyped'
  BY ServiceStepTyped
<1>3. Served' /\ MainKnown'
  BY ServedStep
<1>4. OnceEach' /\ WorkerKnown'
  BY OnceStep, EngineStep
<1>5. RecordingOwned' /\ EngineKnown' /\ StopReached'
  BY RecordingStep, StateStep, StopStep
<1>6. Telling'
  BY TellingStep
<1>7. QED
  BY <1>1, <1>2, <1>3, <1>4, <1>5, <1>6

LEMMA RecTypes == RecInv => RecognitionTypeOK
<1> SUFFICES ASSUME RecInv PROVE RecognitionTypeOK
  OBVIOUS
<1>1. EngineTyped /\ ServiceTyped
  BY DEF RecInv
<1>2. 0..MaxRuns = RunIds \cup {NoRun}
  BY VoiceAssumption DEF RunIds, NoRun
<1>3. ASSUME NEW i \in DOMAIN submitted
      PROVE  submitted[i] \in [run : RunIds, at : {"capture", "transcribed"}]
  <2>1. submitted[i] \in Capture
    BY <1>1 DEF EngineTyped
  <2>2. QED
    BY <2>1 DEF Capture
<1>4. VoiceTypeOK
  BY <1>1, <1>2, <1>3 DEF EngineTyped, VoiceTypeOK, Run, Work
<1>5. QED
  BY <1>1, <1>4 DEF ServiceTyped, RecognitionTypeOK, Client

LEMMA RecImplies == RecInv => SessionsDoNotMix
<1> SUFFICES ASSUME RecInv PROVE SessionsDoNotMix
  OBVIOUS
<1> USE DEF RecInv
<1>1. RecordedInOwnName
  BY DEF RecordedInOwnName, RecordingOwned
<1>2. ToldInOrder
  BY DEF ToldInOrder, Telling, InOrder
<1>3. FreeIsFree
  <2>1. SUFFICES ASSUME IsFree, activeCallback = Nobody
                 PROVE  controller.who = Nobody /\ phase = "IDLE" /\ active = NoRun /\ attribution = BaseContext
    BY DEF FreeIsFree
  <2>2. QED
    BY <2>1 DEF Served, ServiceTyped, RunningPhases, IsFree
<1>4. StoppedStops
  <2>1. SUFFICES ASSUME mainThread = "free", controller.who # Nobody,
                        controller.state = "PROCESSING", ~clobbered
                 PROVE  runs[controller.who].session # "ACTIVE" \/ ~Listens(controller.who)
    BY DEF StoppedStops
  <2>2. ASSUME runs[controller.who].session = "ACTIVE", Listens(controller.who)
        PROVE  FALSE
    <3>1. Mine = controller.who /\ worker.pc = "capturing"
      BY <2>2 DEF Listens, Mine
    <3>2. active = Mine
      BY <2>2, <3>1 DEF RecordingOwned, Recording, Owned
    <3>3. active # NoRun
      BY <2>1, <3>1, <3>2 DEF Nobody, NoRun
    <3>4. QED
      BY <2>1, <2>2, <3>1, <3>2, <3>3 DEF StopReached, PastStop, Later
  <2>3. QED
    BY <2>2
<1>5. QED
  BY <1>1, <1>2, <1>3, <1>4 DEF SessionsDoNotMix

\* The sections of the recognition service keep its variables in their types
\* (OpenTypelessRecognitionService, its controller, its engine, the pipeline).
THEOREM RecognitionTypes == RecognitionSpec => []RecognitionTypeOK
<1>1. RecognitionInit => RecInv
  BY RecInitially
<1>2. RecInv /\ [RecognitionNext]_recognitionVars => RecInv'
  BY RecKeeps DEF RecSteps
<1>3. RecInv => RecognitionTypeOK
  BY RecTypes
<1>4. QED
  BY <1>1, <1>2, <1>3, PTL DEF RecognitionSpec

\* One session of the recognition service does not touch another: it records in
\* the name of its own client, tells it each thing once and in order, leaves
\* nothing that would refuse the next one, and its stop reaches the recording.
THEOREM OneSession == RecognitionSpec => []SessionsDoNotMix
<1>1. RecognitionInit => RecInv
  BY RecInitially
<1>2. RecInv /\ [RecognitionNext]_recognitionVars => RecInv'
  BY RecKeeps DEF RecSteps
<1>3. RecInv => SessionsDoNotMix
  BY RecImplies
<1>4. QED
  BY <1>1, <1>2, <1>3, PTL DEF RecognitionSpec
==============================================================================
