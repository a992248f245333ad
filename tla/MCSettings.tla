----------------------------- MODULE MCSettings -----------------------------
(* Settings of which the speech provider is the custom one, while the key of *)
(* the provider before it still waits in them as plain text.                 *)
EXTENDS Settings

LeftoverStores ==
  { [has |-> NewFields, config |-> [DefaultConfig EXCEPT !.provider = "custom", !.key = "k1",
                                                         !.customKey = "k2"]] }

NoEdits == [resave |-> {Nothing}]
=============================================================================
