----------------------------- MODULE MCPipeline -----------------------------
(* Instances of Pipeline for TLC. *)
EXTENDS PipelineRefinement, TLC

\* The first text of a task stands for those that follow it in the same
\* dictation, and a text is streamed in the first take only: what the later one
\* has beside it, the tasks of the earlier, is nothing that streaming touches.
TakesFollowed ==
  /\ \A t \in Takes : task[t] = "appending" => t \notin accumulated
  /\ \A t \in Takes : t > 1 => worker[t] = "idle"

\* The orderly behaviours of these takes.
FollowedSpec == Init /\ [][Next /\ ~raced' /\ TakesFollowed']_vars
=============================================================================
