----------------------------- MODULE MCCapture -----------------------------
(* Capture on every migration of at most three statements. *)
EXTENDS Capture

MaxStatements == 3
MCScripts == UNION {[1 .. n -> Kinds] : n \in 0 .. MaxStatements}
=============================================================================
