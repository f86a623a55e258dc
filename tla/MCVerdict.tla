----------------------------- MODULE MCVerdict -----------------------------
(* Verdict with two facts, of which one may be recorded twice, and every    *)
(* report of at most two findings and every mix of their kinds.             *)
EXTENDS Verdict

CONSTANTS unique, orphans   \* a column's uniqueness; its references' orphans

MCFacts == {unique, orphans}

Once  == {{c} : c \in Confidences} \union {{}}
Twice == {{c, d} : c, d \in Confidences} \union {{}}

MCFixtures == {f \in [MCFacts -> Twice] : f[unique] \in Once}

\* The generic finding is an error about the failure, it rests on no fact and it
\* has its remediation; the others come in every form.
MCFindings ==
  {f \in Findings :
     /\ Generic(f) => f.severity = "error" /\ f.deps = {} /\ f.fix
     /\ ~f.fix => f.severity = "error"}

MaxFindings == 2
MCReports == {r \in UNION {[1 .. n -> MCFindings] : n \in 0 .. MaxFindings} :
                \A m, n \in DOMAIN r : Generic(r[m]) /\ Generic(r[n]) => m = n}
=============================================================================
