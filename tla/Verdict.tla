------------------------------ MODULE Verdict ------------------------------
(***************************************************************************)
(* From findings to a verdict and an exit code: the confidence-capping     *)
(* engine (internal/verdict/capping.go) and BuildResult, the loop that     *)
(* feeds it (internal/validate/validate.go), up to the exit code           *)
(* (internal/verdict/verdict.go).                                          *)
(*                                                                         *)
(* The analyzers' findings are the input: a report, in the order in which  *)
(* the analyzers produced them.  A finding keeps its position there; what  *)
(* the verdict carries is the set of the positions it surfaces.            *)
(***************************************************************************)
EXTENDS Naturals, Sequences

CONSTANTS
  Facts,     \* the fixture facts a finding can depend on
  Fixtures,  \* the fixtures: for each fact, the confidences recorded for it
  Reports    \* what the analyzers may produce for one capture

(***************************************************************************)
(* internal/fixture/confidence.go.  A fact may be recorded more than once  *)
(* (a column with two references has two orphan fractions) or not at all.  *)
(***************************************************************************)
Confidences == {"exact", "measured", "estimated", "declared"}
Levels      == Confidences \union {"absent"}

Rank(c) == IF c = "exact" THEN 4
           ELSE IF c = "measured" THEN 3
           ELSE IF c = "estimated" THEN 2
           ELSE IF c = "declared" THEN 1 ELSE 0

AtLeast(c, d) == Rank(c) >= Rank(d)

\* fixture.Min, over a set.
Weakest(S) == CHOOSE c \in S : \A d \in S : AtLeast(d, c)

Severities == {"error", "warn", "info", ""}    \* verdict.ValidSeverity
Verdicts   == {"PASS", "WARN", "FAIL"}

\* `fix' says whether the finding has a remediation.
Findings == [code     : {"RS-APPLY-001", "RS"},
             severity : Severities \union {"unheard of"},
             deps     : SUBSET Facts,
             fix      : BOOLEAN]

Generic(f) == f.code = "RS-APPLY-001"

ASSUME FixturesAssumption == Fixtures \subseteq [Facts -> SUBSET Confidences]

\* rsApply reports an error, and nothing but an error.
ASSUME ReportsAssumption ==
  /\ Reports \subseteq Seq(Findings)
  /\ \A r \in Reports : \A n \in 1 .. Len(r) : Generic(r[n]) => r[n].severity = "error"

VARIABLES
  fixture,      \* the confidences of the facts
  groundTruth,  \* validated against a provided live branch
  report,       \* the analyzers' findings
  success,      \* Capture.Success
  timedOut,     \* Capture.TimedOut
  pc,           \* where BuildResult, and then runValidate, is
  i,            \* the finding at hand
  verdict,      \* the verdict so far
  surfaced,     \* the positions of the findings the result carries
  exit          \* the process's exit code, or NotYet

inputs == <<fixture, groundTruth, report, success, timedOut>>
vars   == <<fixture, groundTruth, report, success, timedOut,
            pc, i, verdict, surfaced, exit>>

NotYet == 255

(***************************************************************************)
(* The analyzer rsApply reports RS-APPLY-001 exactly when the migration    *)
(* was rejected.  What Capture.tla proves of a capture holds here: a run   *)
(* that timed out was not rejected.                                        *)
(***************************************************************************)
Init ==
  /\ fixture \in Fixtures /\ groundTruth \in BOOLEAN
  /\ report \in Reports
  /\ success = \A n \in 1 .. Len(report) : ~Generic(report[n])
  /\ timedOut \in BOOLEAN /\ (timedOut => success)
  /\ pc = "judge" /\ i = 1
  /\ verdict = "PASS" /\ surfaced = {} /\ exit = NotYet
-----------------------------------------------------------------------------
(* The capping engine *)

\* Mutant of FactConfidence: the strongest record of a fact speaks for it.
FactConfidenceStrongest(d) ==
  IF fixture[d] = {} THEN "absent"
  ELSE CHOOSE c \in fixture[d] : \A e \in fixture[d] : AtLeast(c, e)

FactConfidence(d) ==
  IF fixture[d] = {} THEN "absent" ELSE Weakest(fixture[d])

DependencyConfidence(deps) ==
  Weakest({"exact"} \union {FactConfidence(d) : d \in deps})

Ceiling(c) == IF AtLeast(c, "measured") THEN "PASS" ELSE "WARN"

WantFor(severity) ==
  IF severity = "error" THEN "FAIL"
  ELSE IF severity = "warn" THEN "WARN"
  ELSE IF severity \in {"info", ""} THEN "PASS"
  ELSE "WARN"

\* Cap: the verdict a finding produces.  Only a PASS is ever lowered.
Got(f) ==
  LET want == WantFor(f.severity) IN
  IF ~groundTruth /\ want = "PASS" THEN Ceiling(DependencyConfidence(f.deps))
  ELSE want

Capped(f) == Got(f) # WantFor(f.severity)

\* The severity the result shows, and the fact its "Resolve:" clause names.
ShownSeverity(f) == IF Capped(f) THEN "warn" ELSE f.severity

\* Mutant of WeakestTarget: the comparison is the wrong way round.
StrongestTarget(deps) ==
  CHOOSE d \in deps : \A e \in deps : AtLeast(FactConfidence(d), FactConfidence(e))

WeakestTarget(deps) ==
  CHOOSE d \in deps : \A e \in deps : AtLeast(FactConfidence(e), FactConfidence(d))

VerdictRank(v) == IF v = "FAIL" THEN 2 ELSE IF v = "WARN" THEN 1 ELSE 0

Combine(v, w) == IF VerdictRank(w) > VerdictRank(v) THEN w ELSE v
-----------------------------------------------------------------------------
(* BuildResult *)

\* Mutant of Judge: the position surfaced is the next one.
JudgeOffByOne ==
  /\ pc = "judge" /\ i <= Len(report)
  /\ LET f == report[i] IN
     /\ verdict' = Combine(verdict, Got(f))
     /\ surfaced' = IF Got(f) = "PASS" /\ ShownSeverity(f) = "info"
                    THEN surfaced ELSE surfaced \union {i + 1}
  /\ i' = i + 1
  /\ UNCHANGED <<inputs, pc, exit>>

\* One finding: judged, combined, and surfaced unless it certifies silently.
Judge ==
  /\ pc = "judge" /\ i <= Len(report)
  /\ LET f == report[i] IN
     /\ verdict' = Combine(verdict, Got(f))
     /\ surfaced' = IF Got(f) = "PASS" /\ ShownSeverity(f) = "info"
                    THEN surfaced ELSE surfaced \union {i}
  /\ i' = i + 1
  /\ UNCHANGED <<inputs, pc, exit>>

\* dropGenericApplyFailure: the generic finding goes when another error stays.
Explained == \E n \in surfaced : ~Generic(report[n]) /\ ShownSeverity(report[n]) = "error"

\* Mutant of WithoutGeneric: the generic finding is dropped, explained or not.
WithoutGenericEver == {n \in surfaced : ~Generic(report[n])}

WithoutGeneric ==
  IF Explained THEN {n \in surfaced : ~Generic(report[n])} ELSE surfaced

\* The floors: a rejected migration is a FAIL, one that was cut off a WARN.
Floor ==
  /\ pc = "judge" /\ i > Len(report)
  /\ pc' = "emit"
  /\ verdict' = Combine(Combine(verdict, IF success THEN "PASS" ELSE "FAIL"),
                        IF timedOut THEN "WARN" ELSE "PASS")
  /\ surfaced' = IF success THEN surfaced ELSE WithoutGeneric
  /\ UNCHANGED <<inputs, i, exit>>

\* Result.Validate.
Malformed ==
  \E n \in surfaced :
    \/ ShownSeverity(report[n]) \notin Severities
    \/ ShownSeverity(report[n]) = "error" /\ ~report[n].fix

ExitCode(warnFails) ==
  IF verdict = "FAIL" THEN 1
  ELSE IF verdict = "WARN" THEN (IF warnFails THEN 1 ELSE 2)
  ELSE 0

Emit ==
  /\ pc = "emit"
  /\ pc' = "done"
  /\ \E warnFails \in BOOLEAN :
       exit' = IF Malformed THEN 3 ELSE ExitCode(warnFails)
  /\ UNCHANGED <<inputs, i, verdict, surfaced>>

Exited == pc = "done" /\ UNCHANGED vars

Next == Judge \/ Floor \/ Emit \/ Exited

Spec == Init /\ [][Next]_vars
-----------------------------------------------------------------------------
(* Properties *)

\* Every variable has its type, and the index stays in the report.
TypeOK ==
  /\ fixture \in [Facts -> SUBSET Confidences] /\ groundTruth \in BOOLEAN
  /\ report \in Seq(Findings)
  /\ success \in BOOLEAN /\ timedOut \in BOOLEAN
  /\ pc \in {"judge", "emit", "done"}
  /\ i \in 1 .. Len(report) + 1
  /\ verdict \in Verdicts
  /\ surfaced \subseteq 1 .. Len(report)
  /\ exit \in {0, 1, 2, 3, NotYet}

\* The facts a finding rests on are evidence: each is recorded, and no record
\* of it is weaker than measured (capping.go:42-59, 156-171).
Solid(deps) ==
  \A d \in deps : fixture[d] # {} /\ fixture[d] \subseteq {"exact", "measured"}

\* The migration deserves a PASS: it ran to its end and no finding speaks
\* against it, nor rests on facts that could hide a problem.
Clean ==
  /\ success /\ ~timedOut
  /\ \A n \in 1 .. Len(report) :
       report[n].severity \in {"info", ""} /\ (groundTruth \/ Solid(report[n].deps))

\* Exit 0 certifies.  It is given to the migrations that deserve it, and to no
\* other: not to one that timed out, not on a severity nobody recognises, not
\* on one weak sibling among strong facts.
PassIsEarned == pc = "done" => (exit = 0 <=> Clean)

\* A verdict of FAIL rests on a defect that was seen, and a defect that was seen
\* always ends in FAIL: capping never softens an error, and never invents one
\* (capping.go:71-73).
Defect == ~success \/ \E n \in 1 .. Len(report) : report[n].severity = "error"

FailMeansDefect == pc \in {"emit", "done"} => (verdict = "FAIL" <=> Defect)

\* A verdict that is FAIL says why: dropping the generic finding never leaves it
\* without an error (validate.go:193-206), and one that is emitted can be acted
\* on (INV-VERDICT-STABLE: remediation on every error).
FailSaysWhy ==
  /\ (pc = "done" /\ verdict = "FAIL") =>
       \E n \in surfaced : report[n].severity = "error"
  /\ (pc = "done" /\ exit # 3) =>
       \A n \in surfaced : report[n].severity = "error" => report[n].fix

\* A PASS that was capped is loud and actionable: the finding is surfaced, as a
\* warning, and names a fact that does fall short (capping.go:67-73).
CapIsActionable ==
  \A n \in 1 .. i - 1 :
    Capped(report[n]) =>
      /\ n \in surfaced /\ ShownSeverity(report[n]) = "warn"
      /\ LET d == WeakestTarget(report[n].deps) IN
         d \in report[n].deps /\ ~Solid({d})
=============================================================================
