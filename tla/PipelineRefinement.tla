------------------------- MODULE PipelineRefinement -------------------------
(***************************************************************************)
(* Pipeline implements Dictation: a take is a dictation, and the shared    *)
(* fields, the lock, the tasks and the session ids are how the code keeps  *)
(* the promise.                                                            *)
(***************************************************************************)
EXTENDS Pipeline

Stage(t) ==
  IF t > takes THEN "none"
  ELSE IF StopInFlight(t) THEN "stopped"
  ELSE IF InFlight(t) THEN "begun" ELSE "over"

\* What the last check of the flag, of stop() or of its worker, let go out.
GoesOut(t) ==
  \/ stop[t] \in {"routed", "executing"}
  \/ worker[t] = "typing"

Promise == INSTANCE Dictation WITH
  stage     <- [t \in Takes |-> Stage(t)],
  listening <- {t \in Takes : mic[t]},
  calledOff <- cancelled,
  due       <- {t \in Takes : GoesOut(t)},
  delivered <- given

\* The dictations of the pipeline are those of Dictation: one at a time, with
\* one microphone, and nothing of a text goes out that was called off before the
\* last check of abort_flag, however start(), stop(), abort(), the streaming
\* worker and the tasks interleave.  The rest of a text whose beginning the
\* worker has typed goes out even when it was called off since (pipeline.rs
\* checks the flag only afterwards); Dictation allows that and nothing more.
KeepsThePromise == Promise!Spec
=============================================================================
