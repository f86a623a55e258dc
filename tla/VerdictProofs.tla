--------------------------- MODULE VerdictProofs ---------------------------
(***************************************************************************)
(* Proofs about Verdict, for every fixture and every report.               *)
(*                                                                         *)
(* The argument: a finding argues for PASS exactly when it is harmless and *)
(* rests on solid facts (GotPass), which needs the weakest of a set of     *)
(* confidences to exist (WeakestExists); the loop keeps the verdict equal  *)
(* to the worst finding so far (JInv); the floors and the contract check   *)
(* keep what that says of the exit code (EInv).                            *)
(***************************************************************************)
EXTENDS Verdict, TLAPS

LEMMA WeakestExists ==
  ASSUME NEW S, S \subseteq Levels, S # {}
  PROVE  /\ Weakest(S) \in S
         /\ \A d \in S : AtLeast(d, Weakest(S))
<1>1. \E c \in S : \A d \in S : AtLeast(d, c)
  <2>1. \A c \in S : c \in {"exact", "measured", "estimated", "declared", "absent"}
    BY DEF Levels, Confidences
  <2>2. CASE "absent" \in S
    <3>1. \A d \in S : AtLeast(d, "absent")
      BY <2>1 DEF AtLeast, Rank
    <3> QED BY <2>2, <3>1
  <2>3. CASE "absent" \notin S /\ "declared" \in S
    <3>1. \A d \in S : AtLeast(d, "declared")
      BY <2>1, <2>3 DEF AtLeast, Rank
    <3> QED BY <2>3, <3>1
  <2>4. CASE "absent" \notin S /\ "declared" \notin S /\ "estimated" \in S
    <3>1. \A d \in S : AtLeast(d, "estimated")
      BY <2>1, <2>4 DEF AtLeast, Rank
    <3> QED BY <2>4, <3>1
  <2>5. CASE /\ "absent" \notin S /\ "declared" \notin S /\ "estimated" \notin S
             /\ "measured" \in S
    <3>1. \A d \in S : AtLeast(d, "measured")
      BY <2>1, <2>5 DEF AtLeast, Rank
    <3> QED BY <2>5, <3>1
  <2>6. CASE /\ "absent" \notin S /\ "declared" \notin S /\ "estimated" \notin S
             /\ "measured" \notin S
    <3>1. \A d \in S : d = "exact"
      BY <2>1, <2>6
    <3> QED BY <3>1 DEF AtLeast, Rank
  <2> QED BY <2>2, <2>3, <2>4, <2>5, <2>6
<1> QED BY <1>1 DEF Weakest

\* A recorded fact has the confidence of its weakest record.
LEMMA FactConfidenceSolid ==
  ASSUME fixture \in [Facts -> SUBSET Confidences], NEW d \in Facts
  PROVE  /\ FactConfidence(d) \in Levels
         /\ AtLeast(FactConfidence(d), "measured") <=> Solid({d})
<1>1. CASE fixture[d] = {}
  BY <1>1 DEF FactConfidence, Levels, AtLeast, Rank, Solid
<1>2. CASE fixture[d] # {}
  <2>1. fixture[d] \subseteq Levels
    BY DEF Levels
  <2>2. /\ Weakest(fixture[d]) \in fixture[d]
        /\ \A c \in fixture[d] : AtLeast(c, Weakest(fixture[d]))
    BY <1>2, <2>1, WeakestExists
  <2>3. FactConfidence(d) = Weakest(fixture[d])
    BY <1>2 DEF FactConfidence
  <2>4. FactConfidence(d) \in Levels
    BY <2>1, <2>2, <2>3
  <2>5. ASSUME AtLeast(FactConfidence(d), "measured")
        PROVE  fixture[d] \subseteq {"exact", "measured"}
    <3>1. SUFFICES ASSUME NEW c \in fixture[d]
                   PROVE  c \in {"exact", "measured"}
      OBVIOUS
    <3>2. AtLeast(c, FactConfidence(d))
      BY <2>2, <2>3
    <3> QED BY <2>1, <2>4, <2>5, <3>2 DEF Levels, Confidences, AtLeast, Rank
  <2>6. ASSUME fixture[d] \subseteq {"exact", "measured"}
        PROVE  AtLeast(FactConfidence(d), "measured")
    <3>1. FactConfidence(d) \in {"exact", "measured"}
      BY <2>2, <2>3, <2>6
    <3> QED BY <3>1 DEF AtLeast, Rank
  <2> QED BY <1>2, <2>4, <2>5, <2>6 DEF Solid
<1> QED BY <1>1, <1>2

\* The minimum across the dependencies certifies when every one of them is solid.
LEMMA CeilingPass ==
  ASSUME fixture \in [Facts -> SUBSET Confidences], NEW deps \in SUBSET Facts
  PROVE  /\ Ceiling(DependencyConfidence(deps)) \in {"PASS", "WARN"}
         /\ Ceiling(DependencyConfidence(deps)) = "PASS" <=> Solid(deps)
<1> DEFINE S == {"exact"} \union {FactConfidence(d) : d \in deps}
<1>1. S \subseteq Levels /\ S # {}
  BY FactConfidenceSolid DEF Levels, Confidences
<1>2. /\ Weakest(S) \in S
      /\ \A c \in S : AtLeast(c, Weakest(S))
  <2> HIDE DEF S
  <2> QED BY <1>1, WeakestExists
<1>3. AtLeast(Weakest(S), "measured") <=> \A c \in S : AtLeast(c, "measured")
  <2> HIDE DEF S
  <2>1. \A c, d \in Levels : AtLeast(c, d) /\ AtLeast(d, "measured") => AtLeast(c, "measured")
    BY DEF Levels, Confidences, AtLeast, Rank
  <2> QED BY <1>1, <1>2, <2>1
<1>4. (\A c \in S : AtLeast(c, "measured")) <=> \A d \in deps : AtLeast(FactConfidence(d), "measured")
  <2>1. AtLeast("exact", "measured")
    BY DEF AtLeast, Rank
  <2> QED BY <2>1, Zenon
<1>5. (\A d \in deps : AtLeast(FactConfidence(d), "measured")) <=> Solid(deps)
  BY FactConfidenceSolid DEF Solid
<1>6. DependencyConfidence(deps) = Weakest(S)
  BY DEF DependencyConfidence
<1> HIDE DEF S
<1>7. AtLeast(DependencyConfidence(deps), "measured") <=> Solid(deps)
  BY <1>3, <1>4, <1>5, <1>6
<1>8. CASE Solid(deps)
  <2>1. AtLeast(DependencyConfidence(deps), "measured") = TRUE
    BY <1>7, <1>8 DEF AtLeast
  <2> QED BY <2>1, <1>8 DEF Ceiling
<1>9. CASE ~Solid(deps)
  <2>1. AtLeast(DependencyConfidence(deps), "measured") = FALSE
    BY <1>7, <1>9 DEF AtLeast
  <2> QED BY <2>1, <1>9 DEF Ceiling
<1> QED BY <1>8, <1>9

\* A finding certifies when it is harmless and rests on solid facts; an error
\* argues for FAIL whatever it rests on.
LEMMA GotVerdict ==
  ASSUME fixture \in [Facts -> SUBSET Confidences], groundTruth \in BOOLEAN,
         NEW f \in Findings
  PROVE  /\ Got(f) \in Verdicts
         /\ Got(f) = "PASS" <=> /\ f.severity \in {"info", ""}
                                /\ groundTruth \/ Solid(f.deps)
         /\ Got(f) = "FAIL" <=> f.severity = "error"
         /\ Capped(f) => /\ f.severity \in {"info", ""}
                         /\ Got(f) = "WARN" /\ ~Solid(f.deps)
<1>1. f.deps \in SUBSET Facts
  BY DEF Findings
<1>2. /\ Ceiling(DependencyConfidence(f.deps)) \in {"PASS", "WARN"}
      /\ Ceiling(DependencyConfidence(f.deps)) = "PASS" <=> Solid(f.deps)
  BY <1>1, CeilingPass
<1>3. CASE f.severity \in {"info", ""}
  <2>1. WantFor(f.severity) = "PASS"
    BY <1>3 DEF WantFor
  <2>2. Got(f) = IF ~groundTruth THEN Ceiling(DependencyConfidence(f.deps)) ELSE "PASS"
    BY <2>1 DEF Got
  <2>3. CASE Solid(f.deps)
    BY <1>2, <1>3, <2>1, <2>2, <2>3 DEF Capped, Verdicts
  <2>4. CASE ~Solid(f.deps)
    BY <1>2, <1>3, <2>1, <2>2, <2>4 DEF Capped, Verdicts
  <2> QED BY <2>3, <2>4
<1>4. CASE f.severity \notin {"info", ""}
  BY <1>4 DEF Got, WantFor, Capped, Verdicts
<1> QED BY <1>3, <1>4

\* The weakest dependency of a capped finding does fall short.
LEMMA TargetFallsShort ==
  ASSUME fixture \in [Facts -> SUBSET Confidences], NEW deps \in SUBSET Facts,
         ~Solid(deps)
  PROVE  /\ WeakestTarget(deps) \in deps
         /\ ~Solid({WeakestTarget(deps)})
<1> DEFINE S == {FactConfidence(d) : d \in deps}
<1>1. PICK e \in deps : ~Solid({e})
  BY DEF Solid
<1>2. S \subseteq Levels /\ S # {}
  BY <1>1, FactConfidenceSolid
<1>3. PICK c \in S : \A d \in S : AtLeast(d, c)
  <2> HIDE DEF S
  <2> QED BY <1>2, WeakestExists
<1>4. PICK d \in deps : c = FactConfidence(d)
  BY <1>3
<1>5. \A g \in deps : AtLeast(FactConfidence(g), FactConfidence(d))
  BY <1>3, <1>4
<1>6. /\ WeakestTarget(deps) \in deps
      /\ \A g \in deps : AtLeast(FactConfidence(g), FactConfidence(WeakestTarget(deps)))
  BY <1>4, <1>5 DEF WeakestTarget
<1>7. ~AtLeast(FactConfidence(e), "measured")
  BY <1>1, FactConfidenceSolid
<1>8. \A a, b \in Levels : AtLeast(a, b) /\ AtLeast(b, "measured") => AtLeast(a, "measured")
  BY DEF Levels, Confidences, AtLeast, Rank
<1>9. ~AtLeast(FactConfidence(WeakestTarget(deps)), "measured")
  BY <1>1, <1>6, <1>7, <1>8, FactConfidenceSolid
<1> QED BY <1>6, <1>9, FactConfidenceSolid

(***************************************************************************)
(* The loop.                                                               *)
(***************************************************************************)
Silent(f) == Got(f) = "PASS" /\ ShownSeverity(f) = "info"

Errors(m) == \E n \in 1 .. m : report[n].severity = "error"

AllPass(m) == \A n \in 1 .. m : Got(report[n]) = "PASS"

\* What the inputs are, and what every step keeps of them.
InputInv ==
  /\ fixture \in [Facts -> SUBSET Confidences] /\ groundTruth \in BOOLEAN
  /\ report \in Seq(Findings)
  /\ \A n \in 1 .. Len(report) : Generic(report[n]) => report[n].severity = "error"
  /\ success \in BOOLEAN /\ timedOut \in BOOLEAN
  /\ success <=> \A n \in 1 .. Len(report) : ~Generic(report[n])

\* While judging, the verdict is the worst so far and the silent findings are
\* those that are missing.
JudgeInv ==
  pc = "judge" =>
    /\ verdict = "FAIL" <=> Errors(i - 1)
    /\ verdict = "PASS" <=> AllPass(i - 1)
    /\ \A n \in 1 .. i - 1 : n \in surfaced <=> ~Silent(report[n])
    /\ surfaced \subseteq 1 .. i - 1

\* After the floors.
FloorInv ==
  pc \in {"emit", "done"} =>
    /\ i = Len(report) + 1
    /\ verdict = "FAIL" <=> Defect
    /\ verdict = "PASS" <=> Clean
    /\ \A n \in 1 .. Len(report) :
         n \in surfaced => ~Silent(report[n])
    /\ \A n \in 1 .. Len(report) :
         ~Silent(report[n]) => n \in surfaced \/ Generic(report[n])
    /\ verdict = "FAIL" => \E n \in surfaced : report[n].severity = "error"

ExitInv ==
  pc = "done" =>
    /\ exit = 0 <=> verdict = "PASS"
    /\ exit # 3 => ~Malformed

IInv == TypeOK /\ InputInv /\ JudgeInv /\ FloorInv /\ ExitInv

\* What a finding in the report is, in one place.
LEMMA ReportFinding ==
  ASSUME InputInv, NEW n \in 1 .. Len(report)
  PROVE  /\ report[n] \in Findings
         /\ report[n].deps \in SUBSET Facts
         /\ Got(report[n]) \in Verdicts
         /\ Got(report[n]) = "PASS" <=>
              (report[n].severity \in {"info", ""} /\ (groundTruth \/ Solid(report[n].deps)))
         /\ Got(report[n]) = "FAIL" <=> report[n].severity = "error"
         /\ Capped(report[n]) =>
              (/\ report[n].severity \in {"info", ""}
               /\ Got(report[n]) = "WARN" /\ ~Solid(report[n].deps))
         /\ ShownSeverity(report[n]) = "error" <=> report[n].severity = "error"
         /\ Generic(report[n]) => report[n].severity = "error"
<1>1. report[n] \in Findings
  <2>1. \A s \in Seq(Findings) : \A k \in 1 .. Len(s) : s[k] \in Findings
    OBVIOUS
  <2> QED BY <2>1 DEF InputInv
<1>2. report[n].deps \in SUBSET Facts
  BY <1>1 DEF Findings
<1>3. /\ Got(report[n]) \in Verdicts
      /\ Got(report[n]) = "PASS" <=>
           (report[n].severity \in {"info", ""} /\ (groundTruth \/ Solid(report[n].deps)))
      /\ Got(report[n]) = "FAIL" <=> report[n].severity = "error"
      /\ Capped(report[n]) =>
           (/\ report[n].severity \in {"info", ""}
            /\ Got(report[n]) = "WARN" /\ ~Solid(report[n].deps))
  BY <1>1, GotVerdict DEF InputInv
<1>4. ShownSeverity(report[n]) = "error" <=> report[n].severity = "error"
  BY <1>3 DEF ShownSeverity
<1>5. Generic(report[n]) => report[n].severity = "error"
  BY DEF InputInv
<1> QED BY <1>1, <1>2, <1>3, <1>4, <1>5

LEMMA CombineVerdicts ==
  ASSUME NEW v \in Verdicts, NEW w \in Verdicts
  PROVE  /\ Combine(v, w) \in Verdicts
         /\ Combine(v, w) = "FAIL" <=> (v = "FAIL" \/ w = "FAIL")
         /\ Combine(v, w) = "PASS" <=> (v = "PASS" /\ w = "PASS")
BY DEF Verdicts, Combine, VerdictRank

LEMMA InitIInv == Init => IInv
<1> SUFFICES ASSUME Init PROVE IInv
  OBVIOUS
<1>1. InputInv
  BY FixturesAssumption, ReportsAssumption DEF Init, InputInv
<1>2. TypeOK
  <2>1. Len(report) \in Nat
    BY <1>1 DEF InputInv
  <2>2. 1 \in 1 .. Len(report) + 1
    BY <2>1
  <2> QED BY <1>1, <2>2 DEF Init, InputInv, TypeOK, Verdicts
<1>3. JudgeInv
  BY DEF Init, JudgeInv, Errors, AllPass
<1>4. FloorInv /\ ExitInv
  BY DEF Init, FloorInv, ExitInv
<1> QED BY <1>1, <1>2, <1>3, <1>4 DEF IInv

\* The inputs never change, so what is said of them alone never does.
LEMMA InputsKeep ==
  ASSUME IInv, UNCHANGED inputs
  PROVE  /\ InputInv'
         /\ \A f : Got(f)' = Got(f) /\ Capped(f)' = Capped(f)
         /\ \A f : ShownSeverity(f)' = ShownSeverity(f)
         /\ \A f : Silent(f)' = Silent(f)
         /\ Defect' = Defect /\ Clean' = Clean
<1>1. InputInv'
  BY DEF IInv, InputInv, inputs
<1>2. \A f : Got(f)' = Got(f)
  BY DEF inputs, Got, DependencyConfidence, FactConfidence
<1>3. \A f : Capped(f)' = Capped(f)
  BY <1>2 DEF Capped
<1>4. \A f : ShownSeverity(f)' = ShownSeverity(f)
  BY <1>3 DEF ShownSeverity
<1>5. \A f : Silent(f)' = Silent(f)
  BY <1>2, <1>4 DEF Silent
<1>6. Defect' = Defect /\ Clean' = Clean
  BY DEF inputs, Defect, Clean, Solid
<1> QED BY <1>1, <1>2, <1>3, <1>4, <1>5, <1>6

LEMMA JudgeKeeps == IInv /\ Judge => IInv'
<1> SUFFICES ASSUME IInv, Judge PROVE IInv'
  OBVIOUS
<1> DEFINE f == report[i]
<1>1. UNCHANGED inputs /\ UNCHANGED <<pc, exit>> /\ pc = "judge" /\ i' = i + 1
  BY DEF Judge
<1>2. InputInv /\ TypeOK /\ JudgeInv
  BY DEF IInv
<1>3. i \in 1 .. Len(report) /\ Len(report) \in Nat
  BY <1>2 DEF Judge, TypeOK, InputInv
<1>4. /\ Got(f) \in Verdicts
      /\ Got(f) = "FAIL" <=> f.severity = "error"
  BY <1>2, <1>3, ReportFinding
<1>5. /\ verdict' \in Verdicts
      /\ verdict' = "FAIL" <=> (verdict = "FAIL" \/ Got(f) = "FAIL")
      /\ verdict' = "PASS" <=> (verdict = "PASS" /\ Got(f) = "PASS")
  BY <1>2, <1>4, CombineVerdicts DEF Judge, TypeOK
<1>6. surfaced' = IF Silent(f) THEN surfaced ELSE surfaced \union {i}
  BY DEF Judge, Silent
<1>7. TypeOK'
  <2>1. UNCHANGED <<fixture, groundTruth, report, success, timedOut>>
    BY <1>1 DEF inputs
  <2>2. surfaced' \subseteq 1 .. Len(report)
    BY <1>2, <1>3, <1>6 DEF TypeOK
  <2>3. i' \in 1 .. Len(report) + 1
    BY <1>1, <1>3
  <2> QED BY <1>1, <1>2, <1>5, <2>1, <2>2, <2>3 DEF TypeOK
<1>8. InputInv'
  BY <1>1, InputsKeep
<1>9. JudgeInv'
  <2>1. 1 .. i' - 1 = (1 .. i - 1) \union {i} /\ i \notin 1 .. i - 1
    BY <1>1, <1>3
  <2>2. report' = report
    BY <1>1 DEF inputs
  <2>3. (verdict = "FAIL" <=> Errors(i - 1)) /\ (verdict = "PASS" <=> AllPass(i - 1))
    BY <1>1, <1>2 DEF JudgeInv
  <2>4. verdict' = "FAIL" <=> Errors(i - 1)'
    <3>1. Errors(i - 1)' <=> \E n \in 1 .. i' - 1 : report[n].severity = "error"
      BY <2>2 DEF Errors
    <3> QED BY <1>4, <1>5, <2>1, <2>3, <3>1 DEF Errors
  <2>5. verdict' = "PASS" <=> AllPass(i - 1)'
    <3>1. AllPass(i - 1)' <=> \A n \in 1 .. i' - 1 : Got(report[n]) = "PASS"
      BY <1>1, <2>2, InputsKeep DEF AllPass
    <3> QED BY <1>5, <2>1, <2>3, <3>1 DEF AllPass
  <2>6. ASSUME NEW n \in 1 .. i' - 1
        PROVE  n \in surfaced' <=> ~Silent(report[n])
    <3>1. CASE n = i
      <4>1. i \notin surfaced
        BY <1>1, <1>2, <2>1 DEF JudgeInv
      <4> QED BY <1>6, <3>1, <4>1
    <3>2. CASE n \in 1 .. i - 1
      BY <1>1, <1>2, <1>6, <2>1, <3>2 DEF JudgeInv
    <3> QED BY <2>1, <3>1, <3>2
  <2>7. \A g : Silent(g)' = Silent(g)
    BY <1>1, InputsKeep
  <2>8. surfaced' \subseteq 1 .. i' - 1
    BY <1>1, <1>2, <1>6, <2>1 DEF JudgeInv
  <2>9. (\A n \in 1 .. i - 1 : n \in surfaced <=> ~Silent(report[n]))'
    BY <2>2, <2>6, <2>7
  <2> QED BY <2>4, <2>5, <2>8, <2>9 DEF JudgeInv
<1>10. FloorInv' /\ ExitInv'
  BY <1>1 DEF FloorInv, ExitInv
<1> QED BY <1>7, <1>8, <1>9, <1>10 DEF IInv

LEMMA FloorKeeps == IInv /\ Floor => IInv'
<1> SUFFICES ASSUME IInv, Floor PROVE IInv'
  OBVIOUS
<1>1. UNCHANGED inputs /\ UNCHANGED <<i, exit>> /\ pc = "judge" /\ pc' = "emit"
  BY DEF Floor
<1>2. InputInv /\ TypeOK /\ JudgeInv
  BY DEF IInv
<1>3. i = Len(report) + 1 /\ Len(report) \in Nat /\ 1 .. i - 1 = 1 .. Len(report)
  BY <1>2 DEF Floor, TypeOK, InputInv
<1>4. /\ verdict = "FAIL" <=> Errors(Len(report))
      /\ verdict = "PASS" <=> AllPass(Len(report))
      /\ \A n \in 1 .. Len(report) : n \in surfaced <=> ~Silent(report[n])
  BY <1>1, <1>2, <1>3 DEF JudgeInv, Errors, AllPass
<1>5. /\ verdict' \in Verdicts
      /\ verdict' = "FAIL" <=> (verdict = "FAIL" \/ ~success)
      /\ verdict' = "PASS" <=> (verdict = "PASS" /\ success /\ ~timedOut)
  <2> DEFINE v == Combine(verdict, IF success THEN "PASS" ELSE "FAIL")
  <2>1. /\ v \in Verdicts
        /\ v = "FAIL" <=> (verdict = "FAIL" \/ ~success)
        /\ v = "PASS" <=> (verdict = "PASS" /\ success)
    BY <1>2, CombineVerdicts DEF TypeOK, Verdicts
  <2>2. verdict' = Combine(v, IF timedOut THEN "WARN" ELSE "PASS")
    BY DEF Floor
  <2> HIDE DEF v
  <2> QED BY <2>1, <2>2, CombineVerdicts DEF Verdicts
<1>6. surfaced' = IF success THEN surfaced ELSE WithoutGeneric
  BY DEF Floor
<1>7. TypeOK'
  <2>1. UNCHANGED <<fixture, groundTruth, report, success, timedOut>>
    BY <1>1 DEF inputs
  <2>2. surfaced' \subseteq 1 .. Len(report)
    BY <1>2, <1>6 DEF TypeOK, WithoutGeneric
  <2> QED BY <1>1, <1>2, <1>5, <2>1, <2>2 DEF TypeOK
<1>8. InputInv'
  BY <1>1, InputsKeep
<1>9. FloorInv'
  <2>1. verdict' = "FAIL" <=> Defect
    BY <1>4, <1>5 DEF Errors, Defect
  <2>2. verdict' = "PASS" <=> Clean
    <3>1. AllPass(Len(report)) <=>
            \A n \in 1 .. Len(report) :
              report[n].severity \in {"info", ""} /\ (groundTruth \/ Solid(report[n].deps))
      BY <1>2, ReportFinding DEF AllPass
    <3> QED BY <1>4, <1>5, <3>1 DEF Clean
  <2>3. \A n \in 1 .. Len(report) : n \in surfaced' => ~Silent(report[n])
    BY <1>4, <1>6 DEF WithoutGeneric
  <2>4. \A n \in 1 .. Len(report) :
          ~Silent(report[n]) => n \in surfaced' \/ Generic(report[n])
    BY <1>4, <1>6 DEF WithoutGeneric
  <2>5. ASSUME Defect
        PROVE  \E n \in surfaced' : report[n].severity = "error"
    <3>1. \E n \in 1 .. Len(report) : report[n].severity = "error"
      BY <1>2, <2>5 DEF Defect, InputInv
    <3>2. PICK n \in 1 .. Len(report) : report[n].severity = "error"
      BY <3>1
    <3>3. n \in surfaced
      BY <1>2, <1>4, <3>2, ReportFinding DEF Silent
    <3>4. CASE ~success /\ Explained
      <4>1. PICK k \in surfaced : ~Generic(report[k]) /\ ShownSeverity(report[k]) = "error"
        BY <3>4 DEF Explained
      <4>2. report[k].severity = "error"
        BY <1>2, <4>1, ReportFinding DEF TypeOK
      <4> QED BY <1>6, <3>4, <4>1, <4>2 DEF WithoutGeneric
    <3>5. CASE success \/ ~Explained
      BY <1>6, <3>2, <3>3, <3>5 DEF WithoutGeneric
    <3> QED BY <3>4, <3>5
  <2>6. report' = report /\ i' = i
    BY <1>1 DEF inputs
  <2>7. Defect' = Defect /\ Clean' = Clean /\ \A f : Silent(f)' = Silent(f)
    BY <1>1, InputsKeep
  <2> QED BY <1>3, <2>1, <2>2, <2>3, <2>4, <2>5, <2>6, <2>7 DEF FloorInv, Generic
<1>10. JudgeInv' /\ ExitInv'
  BY <1>1 DEF JudgeInv, ExitInv
<1> QED BY <1>7, <1>8, <1>9, <1>10 DEF IInv

LEMMA EmitKeeps == IInv /\ Emit => IInv'
<1> SUFFICES ASSUME IInv, Emit PROVE IInv'
  OBVIOUS
<1>1. UNCHANGED inputs /\ UNCHANGED <<i, verdict, surfaced>> /\ pc = "emit" /\ pc' = "done"
  BY DEF Emit
<1>2. InputInv /\ TypeOK /\ FloorInv
  BY DEF IInv
<1>3. UNCHANGED <<fixture, groundTruth, report, success, timedOut>>
  BY <1>1 DEF inputs
<1>4. PICK warnFails \in BOOLEAN : exit' = IF Malformed THEN 3 ELSE ExitCode(warnFails)
  BY DEF Emit
<1>5. TypeOK'
  BY <1>1, <1>2, <1>3, <1>4 DEF TypeOK, ExitCode
<1>6. InputInv' /\ JudgeInv'
  BY <1>1, InputsKeep DEF JudgeInv
<1>7. FloorInv'
  <2>1. Defect' = Defect /\ Clean' = Clean /\ \A f : Silent(f)' = Silent(f)
    BY <1>1, InputsKeep
  <2> QED BY <1>1, <1>2, <1>3, <2>1 DEF FloorInv, Generic
<1>8. ExitInv'
  <2>1. Malformed' = Malformed
    BY <1>1, <1>3, InputsKeep DEF Malformed
  <2>2. exit' = 0 <=> verdict = "PASS"
    <3>1. verdict = "PASS" => ~Malformed
      <4>1. SUFFICES ASSUME verdict = "PASS", NEW n \in surfaced
                     PROVE  /\ ShownSeverity(report[n]) \in Severities
                            /\ ShownSeverity(report[n]) # "error"
        BY DEF Malformed
      <4>2. n \in 1 .. Len(report)
        BY <1>2 DEF TypeOK
      <4>3. report[n].severity \in {"info", ""}
        BY <1>1, <1>2, <4>1, <4>2 DEF FloorInv, Clean
      <4> QED BY <4>3 DEF ShownSeverity, Severities
    <3>2. verdict \in Verdicts
      BY <1>2 DEF TypeOK
    <3> QED BY <1>4, <3>1, <3>2 DEF ExitCode, Verdicts
  <2>3. exit' # 3 => ~Malformed
    BY <1>4
  <2> QED BY <1>1, <2>1, <2>2, <2>3 DEF ExitInv
<1> QED BY <1>5, <1>6, <1>7, <1>8 DEF IInv

LEMMA NextIInv == IInv /\ [Next]_vars => IInv'
<1> SUFFICES ASSUME IInv, [Next]_vars PROVE IInv'
  OBVIOUS
<1>1. CASE UNCHANGED vars
  <2>1. UNCHANGED inputs
    BY <1>1 DEF vars, inputs
  <2>2. /\ InputInv' /\ Defect' = Defect /\ Clean' = Clean
        /\ \A f : Silent(f)' = Silent(f) /\ Got(f)' = Got(f)
        /\ \A f : ShownSeverity(f)' = ShownSeverity(f)
    BY <2>1, InputsKeep
  <2>3. TypeOK'
    BY <1>1 DEF IInv, TypeOK, vars
  <2>4. JudgeInv'
    BY <1>1, <2>2 DEF IInv, JudgeInv, Errors, AllPass, vars
  <2>5. FloorInv'
    BY <1>1, <2>2 DEF IInv, FloorInv, Generic, vars
  <2>6. ExitInv'
    BY <1>1, <2>2 DEF IInv, ExitInv, Malformed, vars
  <2> QED BY <2>2, <2>3, <2>4, <2>5, <2>6 DEF IInv
<1> QED BY <1>1, JudgeKeeps, FloorKeeps, EmitKeeps DEF Next, Exited

\* The inductive invariant of the judging of a capture (validate.go:160-233).
THEOREM Invariance == Spec => []IInv
BY InitIInv, NextIInv, PTL DEF Spec

\* Every variable keeps its type: the verdict is one of the three the contract
\* has, the index never leaves the report.
THEOREM TypeCorrect == Spec => []TypeOK
<1>1. IInv => TypeOK
  BY DEF IInv
<1> QED BY <1>1, Invariance, PTL

\* Exit 0 is given exactly to the migrations that deserve it, whatever the
\* fixture, the number of findings and the order the analyzers produce them in.
THEOREM CertificateIsEarned == Spec => []PassIsEarned
<1>1. IInv => PassIsEarned
  BY DEF IInv, FloorInv, ExitInv, PassIsEarned
<1> QED BY <1>1, Invariance, PTL

\* Capping never softens a defect that was seen and never invents one.
THEOREM CappingKeepsDefects == Spec => []FailMeansDefect
<1>1. IInv => FailMeansDefect
  BY DEF IInv, FloorInv, FailMeansDefect
<1> QED BY <1>1, Invariance, PTL

\* Dropping the generic finding never leaves a FAIL without an error, and an
\* emitted error has its remediation.
THEOREM FailIsExplained == Spec => []FailSaysWhy
<1>1. IInv => FailSaysWhy
  <2> SUFFICES ASSUME IInv, pc = "done" PROVE FailSaysWhy
    BY DEF FailSaysWhy
  <2>1. verdict = "FAIL" => \E n \in surfaced : report[n].severity = "error"
    BY DEF IInv, FloorInv
  <2>2. ASSUME exit # 3, NEW n \in surfaced, report[n].severity = "error"
        PROVE  report[n].fix
    <3>1. n \in 1 .. Len(report) /\ InputInv
      BY DEF IInv, TypeOK
    <3>2. ShownSeverity(report[n]) = "error"
      BY <2>2, <3>1, ReportFinding
    <3> QED BY <2>2, <3>2 DEF IInv, ExitInv, Malformed
  <2> QED BY <2>1, <2>2 DEF FailSaysWhy
<1> QED BY <1>1, Invariance, PTL

\* A capped finding is surfaced as a warning that names a fact which falls short.
THEOREM CappingIsActionable == Spec => []CapIsActionable
<1>1. IInv => CapIsActionable
  <2> SUFFICES ASSUME IInv, NEW n \in 1 .. i - 1, Capped(report[n])
               PROVE  /\ n \in surfaced /\ ShownSeverity(report[n]) = "warn"
                      /\ WeakestTarget(report[n].deps) \in report[n].deps
                      /\ ~Solid({WeakestTarget(report[n].deps)})
    BY DEF CapIsActionable
  <2>1. n \in 1 .. Len(report) /\ InputInv /\ Len(report) \in Nat
    BY DEF IInv, TypeOK, InputInv
  <2>2. /\ report[n].severity \in {"info", ""}
        /\ Got(report[n]) = "WARN" /\ ~Solid(report[n].deps)
        /\ report[n].deps \in SUBSET Facts /\ ~Generic(report[n])
    BY <2>1, ReportFinding
  <2>3. ShownSeverity(report[n]) = "warn"
    BY DEF ShownSeverity
  <2>4. n \in surfaced
    <3>1. ~Silent(report[n])
      BY <2>2 DEF Silent
    <3>2. CASE pc = "judge"
      BY <3>1, <3>2 DEF IInv, JudgeInv
    <3>3. CASE pc \in {"emit", "done"}
      BY <2>1, <2>2, <3>1, <3>3 DEF IInv, FloorInv
    <3> QED BY <3>2, <3>3 DEF IInv, TypeOK
  <2>5. fixture \in [Facts -> SUBSET Confidences]
    BY <2>1 DEF InputInv
  <2> QED BY <2>2, <2>3, <2>4, <2>5, TargetFallsShort
<1> QED BY <1>1, Invariance, PTL
=============================================================================
