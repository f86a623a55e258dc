---------------------------- MODULE MCEphemeral ----------------------------
(* Ephemeral with two processes and two pids of one host: at the same time   *)
(* with different ones, one after the other with the same.                  *)
EXTENDS Ephemeral

CONSTANTS p, q

MCProcs  == {p, q}
OneHost  == [x \in MCProcs |-> "host"]
=============================================================================
