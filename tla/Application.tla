---------------------------- MODULE Application ----------------------------
(***************************************************************************)
(* What applying a migration to a database promises, with no sessions,     *)
(* transactions or timers: statements take effect one at a time and in     *)
(* order, and the run stops once, for one of four reasons.                 *)
(*                                                                         *)
(* Capture.tla, the model of internal/validate/capture.go, implements it.  *)
(***************************************************************************)
EXTENDS Naturals

VARIABLES
  todo,     \* the positions of the statements that have to take effect
  effects,  \* the positions of those that have
  outcome   \* how the run ended, or "running"

avars == <<todo, effects, outcome>>

Outcomes ==
  {"running",
   "complete",  \* every statement took effect
   "rejected",  \* the server refused the next statement
   "cut",       \* the next statement did not finish inside the ceiling
   "lost"}      \* an error of the driver's, which does not tell the next one's fate

AInit == /\ todo \subseteq Nat
         /\ effects = {}
         /\ outcome = "running"

\* The next statement takes effect: never out of order, never twice.
TakeEffect(k) ==
  /\ outcome = "running"
  /\ k \in todo \ effects
  /\ \A j \in todo : j < k => j \in effects
  /\ effects' = effects \union {k}
  /\ UNCHANGED <<todo, outcome>>

\* "complete" is only said when nothing is missing; "rejected" and "cut" are
\* only said when something is.
Stop(o) ==
  /\ outcome = "running"
  /\ o = "complete" => effects = todo
  /\ o \in {"rejected", "cut"} => effects # todo
  /\ outcome' = o
  /\ UNCHANGED <<todo, effects>>

ANext == \/ \E k \in todo : TakeEffect(k)
         \/ \E o \in Outcomes \ {"running"} : Stop(o)

ASpec == AInit /\ [][ANext]_avars
=============================================================================
