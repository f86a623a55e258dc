------------------------- MODULE ValidateRunProofs -------------------------
(***************************************************************************)
(* Proofs about ValidateRun: that validate writes to no host its guards    *)
(* have not cleared, and that its exit codes speak of runs that took       *)
(* place, for all flags, hosts, spellings and fixtures.                    *)
(***************************************************************************)
EXTENDS ValidateRun, TLAPS

(***************************************************************************)
(* Each refusal leaves behind what it has ruled out, for the steps after   *)
(* it; the steps up to the runs write nothing; and the number of captures  *)
(* goes with the step.                                                     *)
(***************************************************************************)
UpToUsage      == {"fixture", "usage"}
UpToMigrations == UpToUsage \union {"migrations"}
UpToSandbox    == UpToMigrations \union {"sandbox"}
UpToScale      == UpToSandbox \union {"scale"}
UpToTarget     == UpToScale \union {"target"}
UpToHost       == UpToTarget \union {"host"}
UpToWrite      == UpToHost \union {"write"}
UpToCalibrate  == UpToWrite \union {"calibrate"}

HostCleared == HasHost => CheckHost(HostOf)

Cleared ==
  /\ opts.target.given # opts.ephemeral.given
  /\ migration # "unsupported"
  /\ ~(opts.calibrate /\ opts.maxRows)
  /\ GroundTruth  => ~opts.calibrate /\ (source # Unknown \/ opts.iKnow)
  /\ ~GroundTruth => migration # "partitions"
  /\ HostCleared

RuledOut ==
  /\ pc \notin UpToUsage \union {"done"} => ~(opts.target.given /\ opts.ephemeral.given)
  /\ pc \notin UpToMigrations \union {"done"} => migration # "unsupported"
  /\ pc \notin UpToSandbox \union {"done"} => (GroundTruth \/ migration # "partitions")
  /\ pc \notin UpToScale \union {"done"} => ~(opts.calibrate /\ opts.maxRows)
  /\ pc \notin UpToTarget \union {"done"} => (opts.target.given \/ opts.ephemeral.given)
  /\ pc \notin UpToHost \union {"done"} => HostCleared
  /\ pc \notin UpToWrite \union {"done"} =>
       (GroundTruth => source # Unknown \/ opts.iKnow)
  /\ pc \notin UpToCalibrate \union {"done"} => (GroundTruth => ~opts.calibrate)

Wanted == IF opts.calibrate THEN 2 ELSE 1

Counted ==
  /\ pc \in UpToCalibrate => wrote = {} /\ captures = <<>> /\ exit = NotYet
  /\ pc = "apply" =>
       Len(captures) < Wanted /\ exit = NotYet
  /\ pc = "judge" => Len(captures) = Wanted /\ exit = NotYet

WroteInside == \A h \in wrote : \E n \in 1 .. Len(DSN.hosts) : h = DSN.hosts[n]

IInv ==
  /\ TypeOK
  /\ RuledOut
  /\ Counted
  /\ wrote # {} => Cleared
  /\ WroteInside
  /\ ExitIsHonest

LEMMA StepsAre ==
  Steps = UpToCalibrate \union {"apply", "judge", "done"}
BY DEF Steps, UpToUsage, UpToMigrations, UpToSandbox, UpToScale, UpToTarget,
       UpToHost, UpToWrite, UpToCalibrate

\* What depends on the inputs alone does not change.
LEMMA InputsKeep ==
  ASSUME UNCHANGED inputs
  PROVE  /\ DSN' = DSN
         /\ GroundTruth' <=> GroundTruth
         /\ HostCleared' <=> HostCleared
         /\ Wanted' = Wanted
         /\ Cleared' <=> Cleared
BY DEF inputs, DSN, GroundTruth, HostCleared, HasHost, HostOf, CheckHost, HostAliases,
       HashSource, Wanted, Cleared

\* What the refusals have ruled out is what the runs need.
LEMMA RunsAreCleared ==
  ASSUME RuledOut, pc \in {"apply", "judge"}
  PROVE  Cleared
BY DEF RuledOut, Cleared, UpToUsage, UpToMigrations, UpToSandbox, UpToScale,
       UpToTarget, UpToHost, UpToWrite, UpToCalibrate, GroundTruth, HostCleared

LEMMA InitIInv == Init => IInv
<1> SUFFICES ASSUME Init PROVE IInv
  OBVIOUS
<1>1. TypeOK
  BY CallsAssumption DEF Init, TypeOK, Steps
<1>2. RuledOut
  BY DEF Init, RuledOut, UpToUsage, UpToMigrations, UpToSandbox, UpToScale,
         UpToTarget, UpToHost, UpToWrite, UpToCalibrate
<1>3. Counted
  BY DEF Init, Counted, UpToUsage, UpToMigrations, UpToSandbox, UpToScale,
         UpToTarget, UpToHost, UpToWrite, UpToCalibrate
<1> QED
  BY <1>1, <1>2, <1>3 DEF Init, IInv, WroteInside, ExitIsHonest

\* A refusal, taken or not.
LEMMA GateKeeps ==
  ASSUME IInv, NEW pass \in BOOLEAN, NEW at \in UpToCalibrate,
         NEW to \in Steps \ {"judge", "done"}, Gate(at, pass, to),
         pass => RuledOut',
         to = "apply" => captures = <<>>
  PROVE  IInv'
<1> USE DEF Gate, ToolError
<1>1. TypeOK'
  BY DEF IInv, TypeOK, inputs, Steps
<1>2. wrote = {} /\ captures = <<>> /\ exit = NotYet /\ pc = at
  BY DEF IInv, Counted
<1>3. RuledOut'
  BY DEF RuledOut
<1>4. Counted'
  <2>1. Wanted' \in {1, 2} /\ "done" \notin UpToCalibrate /\ Len(captures') = 0
    BY <1>2 DEF Wanted, UpToUsage, UpToMigrations, UpToSandbox, UpToScale,
                UpToTarget, UpToHost, UpToWrite, UpToCalibrate
  <2> QED
    BY <1>2, <2>1 DEF Counted
<1>5. WroteInside' /\ (wrote' # {} => Cleared')
  BY <1>2 DEF WroteInside
<1>6. ExitIsHonest'
  BY <1>2 DEF ExitIsHonest, NotYet
<1> QED
  BY <1>1, <1>3, <1>4, <1>5, <1>6 DEF IInv

LEMMA RefusalsKeep ==
  ASSUME IInv,
         \/ ReadFixture \/ CheckUsage \/ CheckMigrations \/ CheckSandbox \/ CheckScale
         \/ CheckTarget \/ CheckSource \/ CheckWrite \/ CheckCalibrate
  PROVE  IInv'
<1> DEFINE Names == /\ "fixture" \in UpToCalibrate /\ "usage" \in UpToCalibrate
                    /\ "migrations" \in UpToCalibrate /\ "sandbox" \in UpToCalibrate
                    /\ "scale" \in UpToCalibrate /\ "target" \in UpToCalibrate
                    /\ "host" \in UpToCalibrate /\ "write" \in UpToCalibrate
                    /\ "calibrate" \in UpToCalibrate
                    /\ Steps \ {"judge", "done"} = UpToCalibrate \union {"apply"}
<1>a. Names
  BY DEF Steps, UpToUsage, UpToMigrations, UpToSandbox, UpToScale, UpToTarget,
         UpToHost, UpToWrite, UpToCalibrate
<1>b. pc \in UpToCalibrate => captures = <<>>
  BY DEF IInv, Counted
<1>c. RuledOut
  BY DEF IInv
<1> HIDE DEF Names
<1> USE DEF UpToUsage, UpToMigrations, UpToSandbox, UpToScale, UpToTarget,
            UpToHost, UpToWrite, UpToCalibrate
<1>1. CASE ReadFixture
  <2>1. PICK parses \in BOOLEAN : Gate("fixture", parses, "usage")
    BY <1>1 DEF ReadFixture
  <2>2. parses => RuledOut'
    BY <2>1 DEF Gate, RuledOut
  <2> QED
    BY <2>1, <2>2, <1>a, GateKeeps DEF Names
<1>2. CASE CheckUsage
  <2>1. ~(opts.target.given /\ opts.ephemeral.given) => RuledOut'
    BY <1>2, <1>c DEF CheckUsage, Gate, RuledOut, inputs
  <2> QED
    BY <1>2, <2>1, <1>a, GateKeeps DEF CheckUsage, Names
<1>3. CASE CheckMigrations
  <2>1. migration # "unsupported" => RuledOut'
    BY <1>3, <1>c DEF CheckMigrations, Gate, RuledOut, inputs
  <2> QED
    BY <1>3, <2>1, <1>a, GateKeeps DEF CheckMigrations, Names
<1>4. CASE CheckSandbox
  <2>1. (GroundTruth \/ migration # "partitions") => RuledOut'
    BY <1>4, <1>c DEF CheckSandbox, Gate, RuledOut, inputs, GroundTruth
  <2> QED
    BY <1>4, <2>1, <1>a, GateKeeps DEF CheckSandbox, Names
<1>5. CASE CheckScale
  <2>1. ~(opts.calibrate /\ opts.maxRows) => RuledOut'
    BY <1>5, <1>c DEF CheckScale, Gate, RuledOut, inputs, GroundTruth
  <2> QED
    BY <1>5, <2>1, <1>a, GateKeeps DEF CheckScale, Names
<1>6. CASE CheckTarget
  <2>1. (opts.target.given \/ opts.ephemeral.given) => RuledOut'
    BY <1>6, <1>c DEF CheckTarget, Gate, RuledOut, inputs, GroundTruth
  <2> QED
    BY <1>6, <2>1, <1>a, GateKeeps DEF CheckTarget, Names
<1>7. CASE CheckSource
  <2>1. UNCHANGED inputs /\ pc = "host" /\ captures = <<>>
    BY <1>7, <1>b DEF CheckSource, Gate
  <2>2. /\ GroundTruth' <=> GroundTruth
        /\ HostCleared' <=> HostCleared
    BY <2>1, InputsKeep
  <2>3. HostCleared => RuledOut'
    <3>1. CASE GroundTruth
      BY <3>1, <1>7, <1>c, <2>1, <2>2 DEF CheckSource, Gate, RuledOut, inputs, HostCleared
    <3>2. CASE ~GroundTruth
      BY <3>2, <1>7, <1>c, <2>1, <2>2 DEF CheckSource, Gate, RuledOut, inputs, HostCleared
    <3> QED
      BY <3>1, <3>2
  <2>4. Gate("host", HostCleared, IF GroundTruth THEN "write" ELSE "apply")
    BY <1>7 DEF CheckSource, HostCleared
  <2>5. HostCleared \in BOOLEAN
    BY DEF HostCleared, CheckHost
  <2> QED
    BY <2>1, <2>3, <2>4, <2>5, <1>a, GateKeeps DEF Names
<1>8. CASE CheckWrite
  <2>1. UNCHANGED inputs /\ pc = "write"
    BY <1>8 DEF CheckWrite, Gate
  <2>2. /\ GroundTruth' <=> GroundTruth
        /\ HostCleared' <=> HostCleared
    BY <2>1, InputsKeep
  <2>3. CheckWriteTarget => RuledOut'
    BY <1>8, <1>c, <2>1, <2>2 DEF CheckWrite, CheckWriteTarget, Gate, RuledOut, inputs
  <2>4. CheckWriteTarget \in BOOLEAN
    BY DEF CheckWriteTarget
  <2> QED
    BY <1>8, <2>3, <2>4, <1>a, GateKeeps DEF CheckWrite, Names
<1>9. CASE CheckCalibrate
  <2>1. UNCHANGED inputs /\ pc = "calibrate" /\ captures = <<>>
    BY <1>9, <1>b DEF CheckCalibrate, Gate
  <2>2. /\ GroundTruth' <=> GroundTruth
        /\ HostCleared' <=> HostCleared
    BY <2>1, InputsKeep
  <2>3. ~opts.calibrate => RuledOut'
    BY <1>9, <1>c, <2>1, <2>2 DEF CheckCalibrate, Gate, RuledOut, inputs
  <2> QED
    BY <1>9, <2>1, <2>3, <1>a, GateKeeps DEF CheckCalibrate, Names
<1> QED
  BY <1>1, <1>2, <1>3, <1>4, <1>5, <1>6, <1>7, <1>8, <1>9

\* A migration that runs, once or twice, writes where the guards have cleared.
LEMMA ApplyKeeps == ASSUME IInv, Apply PROVE IInv'
<1>1. UNCHANGED inputs /\ pc = "apply" /\ exit' = exit
  BY DEF Apply
<1>2. /\ DSN' = DSN
      /\ GroundTruth' <=> GroundTruth
      /\ HostCleared' <=> HostCleared
      /\ Wanted' = Wanted
      /\ Cleared' <=> Cleared
  BY <1>1, InputsKeep
<1>3. Cleared
  BY <1>1, RunsAreCleared DEF IInv
<1>4. PICK n \in 1 .. Len(DSN.hosts) : wrote' = wrote \union {DSN.hosts[n]}
  BY DEF Apply, Write
<1>5. PICK c \in Captures : captures' = Append(captures, c)
  BY DEF Apply
<1>6. captures \in Seq(Captures) /\ Len(captures') = Len(captures) + 1
  BY <1>5 DEF IInv, TypeOK
<1>7. DSN.hosts[n] \in Spellings
  BY <1>4 DEF IInv, TypeOK, Options, DSNs, DSN
<1>8. TypeOK'
  <2>1. captures' \in Seq(Captures)
    BY <1>5, <1>6
  <2>2. pc' \in Steps
    BY DEF Apply, Steps
  <2> QED
    BY <1>1, <1>4, <1>7, <2>1, <2>2 DEF IInv, TypeOK, inputs
<1>9. RuledOut'
  <2>1. pc' \in {"apply", "judge"}
    BY DEF Apply
  <2> QED
    BY <2>1, <1>1, <1>2 DEF IInv, RuledOut, inputs, UpToUsage, UpToMigrations,
                            UpToSandbox, UpToScale, UpToTarget, UpToHost, UpToWrite,
                            UpToCalibrate
<1>10. Counted'
  <2>1. Wanted \in {1, 2} /\ (opts.calibrate <=> Wanted = 2)
    BY DEF Wanted
  <2>2. Len(captures) < Wanted /\ exit = NotYet
    BY <1>1 DEF IInv, Counted
  <2>3. Len(captures) \in Nat /\ (captures = <<>> <=> Len(captures) = 0)
    BY <1>6
  <2>4. pc' = IF opts.calibrate /\ captures = <<>> THEN "apply" ELSE "judge"
    BY DEF Apply
  <2>5. pc' \notin UpToCalibrate
    BY <2>4 DEF UpToUsage, UpToMigrations, UpToSandbox, UpToScale, UpToTarget,
                UpToHost, UpToWrite, UpToCalibrate
  <2>6. CASE pc' = "apply"
    <3>1. opts.calibrate /\ captures = <<>>
      BY <2>4, <2>6
    <3>2. Len(captures') = 1 /\ Wanted' = 2
      BY <3>1, <2>1, <2>3, <1>2, <1>6
    <3> QED
      BY <3>2, <2>2, <2>5, <2>6, <1>1 DEF Counted
  <2>7. CASE pc' = "judge"
    <3>1. ~(opts.calibrate /\ captures = <<>>)
      BY <2>4, <2>7
    <3>2. Len(captures') = Wanted'
      BY <3>1, <2>1, <2>2, <2>3, <1>2, <1>6
    <3> QED
      BY <3>2, <2>2, <2>5, <2>7, <1>1 DEF Counted
  <2> QED
    BY <2>4, <2>6, <2>7
<1>11. WroteInside'
  BY <1>2, <1>4 DEF IInv, WroteInside
<1>12. ExitIsHonest'
  BY DEF Apply, ExitIsHonest
<1> QED
  BY <1>2, <1>3, <1>8, <1>9, <1>10, <1>11, <1>12 DEF IInv

LEMMA ApplyFailsKeeps == ASSUME IInv, ApplyFails PROVE IInv'
<1>1. UNCHANGED <<inputs, captures>> /\ pc = "apply" /\ pc' = "done" /\ exit' = 3
  BY DEF ApplyFails, ToolError
<1>2. DSN' = DSN /\ (Cleared' <=> Cleared)
  BY <1>1, InputsKeep
<1>3. Cleared
  BY <1>1, RunsAreCleared DEF IInv
<1>4. \/ wrote' = wrote
      \/ \E n \in 1 .. Len(DSN.hosts) : wrote' = wrote \union {DSN.hosts[n]}
  BY DEF ApplyFails, Write
<1>5. \A n \in 1 .. Len(DSN.hosts) : DSN.hosts[n] \in Spellings
  BY DEF IInv, TypeOK, Options, DSNs, DSN
<1>6. TypeOK'
  BY <1>1, <1>4, <1>5 DEF IInv, TypeOK, inputs, Steps
<1>7. RuledOut' /\ Counted'
  BY <1>1 DEF RuledOut, Counted, UpToUsage, UpToMigrations, UpToSandbox, UpToScale,
              UpToTarget, UpToHost, UpToWrite, UpToCalibrate
<1>8. WroteInside'
  BY <1>2, <1>4 DEF IInv, WroteInside
<1>9. ExitIsHonest'
  BY <1>1 DEF ExitIsHonest
<1> QED
  BY <1>2, <1>3, <1>6, <1>7, <1>8, <1>9 DEF IInv

LEMMA JudgeKeeps == ASSUME IInv, Judge PROVE IInv'
<1>1. UNCHANGED <<inputs, captures, wrote>> /\ pc = "judge" /\ pc' = "done"
  BY DEF Judge, ToolError
<1>2. DSN' = DSN /\ (Cleared' <=> Cleared)
  BY <1>1, InputsKeep
<1>3. exit' = 3 \/ \E v \in Verdicts : exit' = ExitCode(v)
  BY DEF Judge, ToolError
<1>4. captures \in Seq(Captures) /\ Len(captures) = Wanted /\ Wanted \in {1, 2}
  BY <1>1 DEF IInv, TypeOK, Counted, Wanted
<1>5. captures[1] \in Captures
  BY <1>4
<1>6. /\ exit' \in {0, 1, 2, 3}
      /\ exit' = 0 => captures[1] = "applied"
      /\ captures[1] = "rejected" => exit' \in {1, 3}
  <2>1. CASE exit' = 3
    BY <2>1
  <2>2. ASSUME NEW v \in Verdicts, exit' = ExitCode(v)
        PROVE  <1>6!1 /\ <1>6!2 /\ <1>6!3
    <3>1. v \in {"PASS", "WARN", "FAIL"}
      BY DEF Verdicts
    <3>2. captures[1] = "rejected" => v = "FAIL"
      BY DEF Verdicts
    <3>3. v = "PASS" => captures[1] = "applied"
      BY <1>5 DEF Verdicts, Captures
    <3>4. CASE v = "FAIL"
      BY <2>2, <3>4 DEF ExitCode
    <3>5. CASE v = "WARN"
      <4>1. exit' \in {1, 2}
        BY <2>2, <3>5 DEF ExitCode
      <4> QED
        BY <4>1, <3>2, <3>5
    <3>6. CASE v = "PASS"
      <4>1. exit' = 0
        BY <2>2, <3>6 DEF ExitCode
      <4> QED
        BY <4>1, <3>3, <3>6
    <3> QED
      BY <3>1, <3>4, <3>5, <3>6
  <2> QED
    BY <1>3, <2>1, <2>2
<1>7. TypeOK'
  BY <1>1, <1>6 DEF IInv, TypeOK, inputs, Steps
<1>8. RuledOut' /\ Counted'
  BY <1>1 DEF RuledOut, Counted, UpToUsage, UpToMigrations, UpToSandbox, UpToScale,
              UpToTarget, UpToHost, UpToWrite, UpToCalibrate
<1>9. WroteInside'
  BY <1>1, <1>2 DEF IInv, WroteInside
<1>10. ExitIsHonest'
  BY <1>1, <1>4, <1>6 DEF ExitIsHonest, Wanted, inputs
<1> QED
  BY <1>1, <1>2, <1>7, <1>8, <1>9, <1>10 DEF IInv

LEMMA NextIInv == IInv /\ [Next]_vars => IInv'
<1> SUFFICES ASSUME IInv, [Next]_vars PROVE IInv'
  OBVIOUS
<1>1. CASE Apply
  BY <1>1, ApplyKeeps
<1>2. CASE ApplyFails
  BY <1>2, ApplyFailsKeeps
<1>3. CASE Judge
  BY <1>3, JudgeKeeps
<1>4. CASE UNCHANGED vars
  <2>1. UNCHANGED inputs
    BY <1>4 DEF vars, inputs
  <2>2. DSN' = DSN /\ (GroundTruth' <=> GroundTruth) /\ (HostCleared' <=> HostCleared)
        /\ Wanted' = Wanted /\ (Cleared' <=> Cleared)
    BY <2>1, InputsKeep
  <2>3. TypeOK' /\ ExitIsHonest'
    BY <1>4 DEF vars, IInv, TypeOK, ExitIsHonest
  <2>4. RuledOut'
    BY <1>4, <2>2 DEF vars, IInv, RuledOut
  <2>5. Counted'
    BY <1>4, <2>2 DEF vars, IInv, Counted
  <2>6. WroteInside'
    BY <1>4, <2>2 DEF vars, IInv, WroteInside
  <2> QED
    BY <1>4, <2>2, <2>3, <2>4, <2>5, <2>6 DEF vars, IInv
<1>5. CASE \/ ReadFixture \/ CheckUsage \/ CheckMigrations \/ CheckSandbox \/ CheckScale
           \/ CheckTarget \/ CheckSource \/ CheckWrite \/ CheckCalibrate
  BY <1>5, RefusalsKeep
<1> QED
  BY <1>1, <1>2, <1>3, <1>4, <1>5 DEF Next, Exited

\* The inductive invariant holds in every state of every run.
THEOREM Invariance == Spec => []IInv
  BY InitIInv, NextIInv, PTL DEF Spec

\* Every variable keeps its type, for any flags, hosts and spellings.
THEOREM TypeCorrect == Spec => []TypeOK
<1>1. IInv => TypeOK
  BY DEF IInv
<1> QED
  BY <1>1, Invariance, PTL

\* Nothing is written before every refusal has had its say, in whatever order
\* runValidate asks them (cmd/validate.go:101-176).
THEOREM WritesNeedPermission == Spec => []WritesArePermitted
<1>1. IInv => WritesArePermitted
  BY DEF IInv, Cleared, WritesArePermitted
<1> QED
  BY <1>1, Invariance, PTL

\* CheckHost refuses every spelling of the source it can know, so a connection
\* string with one host never leads to the host the fixture was pulled from.
THEOREM SourceIsNotWritten == Spec => []HostGuard
<1>1. ASSUME IInv PROVE HostGuard
  <2> SUFFICES ASSUME source # Unknown, Len(DSN.hosts) = 1, NEW h \in wrote,
                      SameHost(source, h)
               PROVE  FALSE
    BY DEF HostGuard
  <2>1. h = DSN.hosts[1] /\ HostCleared
    BY <1>1 DEF IInv, WroteInside, Cleared
  <2>2. HasHost /\ HostOf = h
    BY <2>1 DEF HasHost, HostOf
  <2>3. \A a \in HostAliases(h) : Normalized[a] # Normalized[source]
    BY <2>1, <2>2 DEF HostCleared, CheckHost, HashSource
  <2>4. CASE Normalized[source] = Normalized[h]
    BY <2>3, <2>4 DEF HostAliases
  <2>5. CASE /\ Normalized[h] \in Loopback
             /\ \E l \in LoopbackNames : Normalized[source] = Normalized[l]
    BY <2>3, <2>5 DEF HostAliases
  <2> QED
    BY <2>4, <2>5 DEF SameHost
<1> QED
  BY <1>1, Invariance, PTL

\* An exit code that is a verdict speaks of runs that took place.
THEOREM ExitCodesAreHonest == Spec => []ExitIsHonest
<1>1. IInv => ExitIsHonest
  BY DEF IInv
<1> QED
  BY <1>1, Invariance, PTL
=============================================================================
