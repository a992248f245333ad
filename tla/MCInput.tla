------------------------------ MODULE MCInput ------------------------------
(***************************************************************************)
(* Constants for the model checking of Input.                              *)
(***************************************************************************)
EXTENDS Input

B(mods, key) == [mods |-> mods, key |-> key]

MCModifierOf == [alt |-> "alt", option |-> "alt", cmd |-> "super"]
MCCodeOf     == [slash |-> "Slash", period |-> "Period"]
MCNativeOf   == (B({}, "fn") :> "fn") @@ (B({}, "rightalt") :> "rightalt")

Empty == [r \in Roles |-> << >>]
C1 == [Empty EXCEPT !["dictation"] = << B({"alt"}, "slash") >>,
                    !["ask"]       = << B({"cmd"}, "period") >>]
C2 == [Empty EXCEPT !["dictation"] = << B({}, "fn"), B({"cmd"}, "period") >>,
                    !["translate"] = << B({"alt"}, "slash") >>]
\* Refused: one shortcut under two names; a key that has no name.
C3 == [Empty EXCEPT !["dictation"] = << B({"alt"}, "slash") >>,
                    !["open"]      = << B({"option"}, "slash") >>]
C4 == [Empty EXCEPT !["dictation"] = << B({"alt"}, "nokey") >>]

MCConfigs == {C1, C2, C3, C4}
============================================================================
