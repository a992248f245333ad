------------------------------- MODULE Input -------------------------------
(***************************************************************************)
(* The parts of the input, from the hotkeys of the desktop to the service  *)
(* that other applications of a telephone call, each on its own instance:  *)
(* they share no state, so a behaviour is one of the part that is chosen   *)
(* at its start.                                                           *)
(***************************************************************************)
EXTENDS HotkeyRegistration, NativeKeys, NativeMonitor, Shortcuts, RecognitionService

VARIABLE part

partVars  == << regVars, keyVars, monVars, shortVars, recognitionVars >>
inputVars == << part, partVars >>

InputInit ==
  /\ part \in {"registration", "keys", "monitor", "shortcuts", "service"}
  /\ RegInit /\ KeysInit /\ MonInit /\ ShortInit /\ RecognitionInit
  /\ part # "keys" => mac
  /\ part # "monitor" => platform = "mac"
  /\ part # "shortcuts" => mode = "hold"

Registration(Step) ==
  part = "registration" /\ Step /\ UNCHANGED << part, keyVars, monVars, shortVars, recognitionVars >>
Monitor(Step) ==
  part = "monitor" /\ Step /\ UNCHANGED << part, regVars, keyVars, shortVars, recognitionVars >>
Service(Step) ==
  part = "service" /\ Step /\ UNCHANGED << part, regVars, keyVars, monVars, shortVars >>

\* At most three events of the service wait for the main thread.
PostsFollowed == Len(posts) <= 3

InputNext ==
  \/ Registration(RegNext)
  \/ Monitor(MonNext)
  \/ part = "keys" /\ KeysNext /\ UNCHANGED << part, regVars, monVars, shortVars, recognitionVars >>
  \/ part = "shortcuts" /\ ShortNext /\ UNCHANGED << part, regVars, keyVars, monVars, recognitionVars >>
  \/ Service(RecognitionNext) /\ PostsFollowed'

\* The fairness of RegSpec, of MonSpec and of RecognitionSpec.
InputFairness ==
  /\ WF_inputVars(Registration(RetryStep)) /\ WF_inputVars(Registration(CommandStep))
  /\ WF_inputVars(Monitor(OwnerStep)) /\ WF_inputVars(Monitor(ThreadStep))
  /\ WF_inputVars(Service(ServiceStep)) /\ WF_inputVars(Service(PreparationStep))
  /\ WF_inputVars(Service(WorkerOwnStep))

InputSpec == InputInit /\ [][InputNext]_inputVars /\ InputFairness

\* The type invariants of the parts.
InputTypeOK == RegTypeOK /\ KeysTypeOK /\ MonTypeOK /\ ShortTypeOK /\ RecognitionTypeOK

\* RegistrationSettles, of the behaviours that are about the registration: an
\* attempt to register comes to an end.
InputRegistrationSettles == part = "registration" => RegistrationSettles
============================================================================
