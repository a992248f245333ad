------------------------------ MODULE Dictation ------------------------------
(***************************************************************************)
(* What the desktop app promises of its dictations, whatever its callers,  *)
(* tasks and timers do: they come one at a time, each is begun, stopped    *)
(* and over in that order, only one of them holds the microphone, and text *)
(* reaches the user's application between the stop and the end of its own  *)
(* dictation.  Nothing goes out once that was called off, except what the  *)
(* last check had let go and the rest of a text of which a part is out.    *)
(***************************************************************************)
CONSTANT Takes  \* the dictations

VARIABLES
  stage,      \* of each dictation
  listening,  \* the dictations whose microphone is on
  calledOff,  \* the dictations that the user called off
  due,        \* those whose text goes out next, as the last check decided
  delivered   \* what the application has got of each: nothing, part or whole

vars == <<stage, listening, calledOff, due, delivered>>

UnderWay(t) == stage[t] \in {"begun", "stopped"}

Init ==
  /\ stage = [t \in Takes |-> "none"]
  /\ listening = {} /\ calledOff = {} /\ due = {}
  /\ delivered = [t \in Takes |-> "nothing"]

\* The others are over; at most a stop that was called off is still on its way.
Begins(t) ==
  /\ stage[t] = "none"
  /\ \A u \in Takes : UnderWay(u) => stage[u] = "stopped" /\ u \in calledOff
  /\ stage' = [stage EXCEPT ![t] = "begun"]
  /\ UNCHANGED <<listening, calledOff, due, delivered>>

Listens(t) ==
  /\ stage[t] = "begun" /\ listening = {}
  /\ listening' = {t}
  /\ UNCHANGED <<stage, calledOff, due, delivered>>

Hushes ==
  /\ listening' = {}
  /\ UNCHANGED <<stage, calledOff, due, delivered>>

Stops(t) ==
  /\ stage[t] = "begun"
  /\ stage' = [stage EXCEPT ![t] = "stopped"]
  /\ UNCHANGED <<listening, calledOff, due, delivered>>

Decides(t) ==
  /\ stage[t] = "stopped" /\ t \notin calledOff
  /\ due' = due \cup {t}
  /\ UNCHANGED <<stage, listening, calledOff, delivered>>

\* The model is asked first, or the text goes elsewhere.
Reconsiders(t) ==
  /\ due' = due \ {t}
  /\ UNCHANGED <<stage, listening, calledOff, delivered>>

\* A part of what was decided goes out,
Streams(t) ==
  /\ stage[t] = "stopped" /\ t \in due
  /\ delivered' = [delivered EXCEPT ![t] = "part"]
  /\ due' = due \ {t}
  /\ UNCHANGED <<stage, listening, calledOff>>

\* or the whole of it, or the rest of what has gone out in part.
Delivers(t) ==
  /\ stage[t] = "stopped"
  /\ t \in due \/ delivered[t] = "part"
  /\ delivered' = [delivered EXCEPT ![t] = "whole"]
  /\ due' = due \ {t}
  /\ UNCHANGED <<stage, listening, calledOff>>

Ends(t) ==
  /\ UnderWay(t) /\ t \notin due
  /\ stage' = [stage EXCEPT ![t] = "over"]
  /\ listening' = listening \ {t}
  /\ UNCHANGED <<calledOff, due, delivered>>

CallsOff ==
  /\ calledOff' = calledOff \cup {t \in Takes : UnderWay(t)}
  /\ UNCHANGED <<stage, listening, due, delivered>>

Next ==
  \/ \E t \in Takes : \/ Begins(t) \/ Listens(t) \/ Stops(t) \/ Decides(t)
                      \/ Reconsiders(t) \/ Streams(t) \/ Delivers(t) \/ Ends(t)
  \/ Hushes \/ CallsOff

Spec == Init /\ [][Next]_vars
=============================================================================
