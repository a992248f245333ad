--------------------------- MODULE MCAskDictation ---------------------------
(* Instances of AskDictation for TLC. *)
EXTENDS AskDictation, TLC
=============================================================================
