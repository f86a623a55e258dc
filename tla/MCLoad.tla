------------------------------- MODULE MCLoad -------------------------------
(* Load on every plan with at most one statement of each kind that has to    *)
(* succeed and at most two of each kind that may be refused, in the order of *)
(* the code.                                                                 *)
EXTENDS Load

Times(n, kind) == [m \in 1 .. n |-> kind]

MCPlans ==
  {Times(a, "ddl") \o Times(b, "partition") \o Times(c, "copy")
     \o Times(d, "index") \o Times(e, "constraint") \o Times(f, "reset") :
     a, b, c \in 0 .. 1, d, e, f \in 0 .. 2}
=============================================================================
