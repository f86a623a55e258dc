---------------------------- MODULE ValidateRun ----------------------------
(***************************************************************************)
(* cmd/validate.go: runValidate, from its flags to its exit code: the      *)
(* refusals, the host guard (internal/validate/validate.go: CheckHost,     *)
(* CheckWriteTarget), one or two runs of the migration, the verdict.       *)
(*                                                                         *)
(* What happens inside a run is in Ephemeral.tla, Load.tla and             *)
(* Capture.tla, and how the verdict is reached in Verdict.tla; here a run  *)
(* is one step that writes to a server and leaves a capture.               *)
(***************************************************************************)
EXTENDS Naturals, Sequences

(***************************************************************************)
(* A host is known by its spellings, and a spelling has a normal form      *)
(* (profile.NormalizeHost: case, the final dot, brackets).                 *)
(***************************************************************************)
CONSTANTS
  Spellings,      \* the ways in which the hosts can be written
  Normalized,     \* the normal form of each
  Loopback,       \* the normal forms that isLoopback accepts
  LoopbackNames   \* the spellings hostAliases adds for any of these

Unknown == "unknown"   \* the fixture records no source host

ASSUME SpellingsAssumption ==
  /\ Normalized \in [Spellings -> Spellings]
  /\ \A s \in Spellings : Normalized[Normalized[s]] = Normalized[s]
  /\ Loopback \subseteq Spellings /\ LoopbackNames \subseteq Spellings
  /\ \A s \in LoopbackNames : Normalized[s] \in Loopback
  /\ Unknown \notin Spellings

\* A connection string names hosts, tried in that order; with no host in it, it
\* is one that does not parse.
DSNs    == [given : BOOLEAN, hosts : Seq(Spellings)]
Options == [target : DSNs, ephemeral : DSNs, calibrate : BOOLEAN,
            maxRows : BOOLEAN, iKnow : BOOLEAN, warnFail : BOOLEAN]

CONSTANT Calls   \* the flags runValidate may be called with

ASSUME CallsAssumption == Calls \subseteq Options

Migrations == {"plain", "partitions", "unreadable", "unsupported"}
Captures   == {"applied", "rejected", "timed out"}   \* Capture.tla: a third outcome

VARIABLES
  opts,       \* the flags
  migration,  \* what --migrations points at
  source,     \* meta.source: the host the fixture was pulled from
  pc,         \* the step runValidate is at
  captures,   \* what the runs of the migration left
  wrote,      \* the hosts written to
  exit        \* the exit code, or NotYet

inputs == <<opts, migration, source>>
vars   == <<opts, migration, source, pc, captures, wrote, exit>>

NotYet == 255
Steps  == {"fixture", "usage", "migrations", "sandbox", "scale", "target", "host",
           "write", "calibrate", "apply", "judge", "done"}

Init ==
  /\ opts \in Calls /\ migration \in Migrations
  /\ source \in Spellings \union {Unknown}
  /\ pc = "fixture" /\ captures = <<>> /\ wrote = {} /\ exit = NotYet

GroundTruth == opts.target.given
DSN         == IF GroundTruth THEN opts.target ELSE opts.ephemeral

\* hostOf: what pgx calls the host is the first of them.
HasHost == DSN.hosts # <<>>
HostOf  == Head(DSN.hosts)
-----------------------------------------------------------------------------
(* The host guard *)

\* profile.HashSource: two spellings have one hash iff they have one normal form.
HashSource(s) == Normalized[s]

\* Mutant of HostAliases: the other names of this machine are not considered.
HostAliasesAsGiven(host) == {host, Normalized[host]}

HostAliases(host) ==
  {host, Normalized[host]}
    \union (IF Normalized[host] \in Loopback THEN LoopbackNames ELSE {})

CheckHost(host) ==
  source # Unknown => \A a \in HostAliases(host) : HashSource(a) # HashSource(source)

CheckWriteTarget ==
  /\ HasHost => CheckHost(HostOf)
  /\ source # Unknown \/ opts.iKnow
-----------------------------------------------------------------------------
(* The refusals, in the order of runValidate *)

ToolError == pc' = "done" /\ exit' = 3

Gate(at, pass, to) ==
  /\ pc = at
  /\ IF pass THEN pc' = to /\ UNCHANGED exit ELSE ToolError
  /\ UNCHANGED <<inputs, captures, wrote>>

ReadFixture     == \E parses \in BOOLEAN : Gate("fixture", parses, "usage")
CheckUsage      == Gate("usage", ~(opts.target.given /\ opts.ephemeral.given), "migrations")
CheckMigrations == Gate("migrations", migration # "unsupported", "sandbox")
\* Mutant of CheckSandbox: it asks for a live target where it should for none.
CheckSandboxSwapped == Gate("sandbox", ~GroundTruth \/ migration # "partitions", "scale")

CheckSandbox    == Gate("sandbox", GroundTruth \/ migration # "partitions", "scale")
CheckScale      == Gate("scale", ~(opts.calibrate /\ opts.maxRows), "target")
CheckTarget     == Gate("target", opts.target.given \/ opts.ephemeral.given, "host")
CheckSource     == Gate("host", HasHost => CheckHost(HostOf),
                        IF GroundTruth THEN "write" ELSE "apply")
CheckWrite      == Gate("write", CheckWriteTarget, "calibrate")
CheckCalibrate  == Gate("calibrate", ~opts.calibrate, "apply")
-----------------------------------------------------------------------------
(* The runs: one against a live target, one or two against disposable       *)
(* databases.  Every connection is to the first host that answers.          *)

Write == \E n \in 1 .. Len(DSN.hosts) : wrote' = wrote \union {DSN.hosts[n]}

\* Mutant of Apply: the second run of --calibrate is left out.
ApplyOnce ==
  /\ pc = "apply" /\ migration # "unreadable"
  /\ Write
  /\ \E c \in Captures : captures' = Append(captures, c)
  /\ pc' = "judge"
  /\ UNCHANGED <<inputs, exit>>

Apply ==
  /\ pc = "apply" /\ migration # "unreadable"
  /\ Write
  /\ \E c \in Captures : captures' = Append(captures, c)
  /\ pc' = IF opts.calibrate /\ captures = <<>> THEN "apply" ELSE "judge"
  /\ UNCHANGED <<inputs, exit>>

\* No connection, no database, no hydration, or a migration that cannot be read;
\* the disposable database may have been created by then.
ApplyFails ==
  /\ pc = "apply"
  /\ ToolError
  /\ \/ UNCHANGED wrote
     \/ ~GroundTruth /\ Write
  /\ UNCHANGED <<inputs, captures>>

(***************************************************************************)
(* BuildResult judges the first capture alone: the durations of the second *)
(* are what --calibrate wants of it.  The findings may add to the floors.  *)
(***************************************************************************)
Verdicts ==
  IF captures[1] = "rejected" THEN {"FAIL"}
  ELSE IF captures[1] = "timed out" THEN {"WARN", "FAIL"}
  ELSE {"PASS", "WARN", "FAIL"}

\* Mutant of ExitCode: --warn-fail is added to the code of a WARN.
ExitCodeAdded(verdict) ==
  IF verdict = "FAIL" THEN 1
  ELSE IF verdict = "WARN" THEN 2 + (IF opts.warnFail THEN 2 ELSE 0)
  ELSE 0

ExitCode(verdict) ==
  IF verdict = "FAIL" THEN 1
  ELSE IF verdict = "WARN" THEN (IF opts.warnFail THEN 1 ELSE 2)
  ELSE 0

\* A malformed verdict, and one that cannot be written, are tool errors.
Judge ==
  /\ pc = "judge"
  /\ \/ ToolError
     \/ \E v \in Verdicts : pc' = "done" /\ exit' = ExitCode(v)
  /\ UNCHANGED <<inputs, captures, wrote>>

Exited == pc = "done" /\ UNCHANGED vars

Next ==
  \/ ReadFixture \/ CheckUsage \/ CheckMigrations \/ CheckSandbox \/ CheckScale
  \/ CheckTarget \/ CheckSource \/ CheckWrite \/ CheckCalibrate
  \/ Apply \/ ApplyFails \/ Judge \/ Exited

Spec == Init /\ [][Next]_vars
-----------------------------------------------------------------------------
(* Properties *)

\* Every variable has its type.
TypeOK ==
  /\ opts \in Options /\ migration \in Migrations
  /\ source \in Spellings \union {Unknown}
  /\ pc \in Steps
  /\ captures \in Seq(Captures)
  /\ wrote \subseteq Spellings
  /\ exit \in {0, 1, 2, 3, NotYet}

\* Nothing is written before every refusal has had its say, whatever the order
\* they are asked in: one target and no more, migrations that can be captured and
\* represented, flags that make sense together, and for a live target a known
\* source or the user's word (cmd/validate.go:101-176).
WritesArePermitted ==
  wrote # {} =>
    /\ opts.target.given # opts.ephemeral.given
    /\ migration # "unsupported"
    /\ ~(opts.calibrate /\ opts.maxRows)
    /\ GroundTruth  => ~opts.calibrate /\ (source # Unknown \/ opts.iKnow)
    /\ ~GroundTruth => migration # "partitions"

\* Two spellings that are one host by definition: the same normal form, or a name
\* of this machine among those that hostAliases lists and a loopback address.
SameHost(from, to) ==
  \/ Normalized[from] = Normalized[to]
  \/ /\ Normalized[to] \in Loopback
     /\ \E l \in LoopbackNames : Normalized[from] = Normalized[l]

\* validate never writes to the host the fixture was pulled from, whatever the flags
\* (validate.go:76-101) and in whichever of the spellings that hostAliases lists.  The
\* connection string names one host here; with more, see SourceNeverTouched.
HostGuard ==
  (source # Unknown /\ Len(DSN.hosts) = 1) => \A h \in wrote : ~SameHost(source, h)

\* An exit code that is a verdict speaks of runs that took place, all that were
\* asked for; a rejected migration is exit 1 and nothing else, and an exit of 0
\* means it applied.  With no run there is no verdict: exit 3.
ExitIsHonest ==
  pc = "done" =>
    /\ exit # 3 => Len(captures) = (IF opts.calibrate THEN 2 ELSE 1)
    /\ exit = 0 => captures[1] = "applied"
    /\ (captures # <<>> /\ captures[1] = "rejected") => exit \in {1, 3}

\* validate.go:68: "validate only ever touches a disposable or provided target,
\* never production", the host the fixture names.
SourceNeverTouched == source \notin wrote
=============================================================================
