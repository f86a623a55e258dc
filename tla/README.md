# A verification of rowshape

rowshape is a type-checker for database migrations. `rowshape pull` describes a
production PostgreSQL as a fixture (`rowshape.yaml`): its schema and facts about its
data, each with a confidence. `rowshape validate` fills a disposable database from the
fixture, applies a migration to it, and answers PASS, WARN or FAIL with exit code 0, 2
or 1, or with 3 when it could not reach a verdict. `rowshape init --agent` wires a
repository for coding agents. This directory models the way from a production database to
its fixture, from the fixture to a filled database, from a migration to the findings about
it and from the findings to the exit code, and the files `init` edits; it checks all of it
with TLC and proves the core with TLAPS.

Everything here is translated from the Go code; paths below are relative to `src/`.

## The system's parts

| part | state it keeps | operations | what makes it correct |
|---|---|---|---|
| capture, `internal/validate/capture.go` | the `Capture`, one database session | apply each statement in a transaction of its own or directly, read its locks, stop at the first error or timeout | the capture tells what happened on the server, however the connection fares |
| verdict engine, `internal/validate/validate.go`, `internal/verdict` | the findings and the verdict so far | cap each finding by the weakest fact under it, combine, floor, drop the generic finding, exit code | exit 0 is earned, a FAIL has a reason that can be acted on |
| disposable database, `internal/target/target.go`, `teardown.go` | a name on an admin server shared with other processes | reset, create, connect, close under a context of its own | nobody works on, or drops, another run's database; none is left behind in silence |
| load, `internal/target/load.go`, `ddl.go` | one transaction and its savepoints | schema, partitions, rows; then indexes, constraints and identity resets that may be refused | a failure leaves the target clean, a success reports what is missing |
| validate command, `cmd/validate.go`, `cmd/root.go` | flags, target, captures | refusals, host guard, one or two runs, verdict | nothing is written before all refusals, never to the source; exit codes tell the truth |
| analyzers, `internal/findings` | transaction depth and epoch, constraints added, tables locked | findings from a capture and a fixture | a hazard is reported whatever comes before or beside it, and a certificate rests on a proof |
| pull, `internal/profile`, `cmd/pull.go` | one read-only transaction, the fixture so far | catalog reads, guarded profiling reads that degrade, escalation, privacy | a fact is absent or true, and an absent one is warned of |
| hydrate engine, `internal/hydrate` | generated rows | row counts at a scale, a budget, values, foreign keys | what is generated fits the schema and the memory |
| agent set-up, `cmd/init_agent*.go`, `internal/agentrule`, `cmd/atomicwrite.go` | seven files of a repository, most of them the user's | merge a server, upsert a rule, install a hook | what is the user's survives, and a second run changes nothing |
| statement splitter, `internal/validate/validate.go:379` | a scanner's position | split a script | agrees with PostgreSQL's lexer |
| privacy and leak check, `internal/profile/privacy.go`, `internal/fixture/leaks.go` | the fixture | redact, check | what is emitted passes the check |
| fixture format, `internal/fixture` | the file | emit, digest, parse and verify | an edited fixture is refused |
| estimates, `internal/estimate` | none | extrapolate, calibrate | monotone buckets |
| annotate, verify, `cmd/annotate.go`, `cmd/verify.go` | the fixture file | edit, rewrite atomically, compare | no crash loses the file |
| container, `internal/target/container.go` | a docker container | start, wait, remove | always removed |
| plan, runners, MCP server, rendering | none | read and report | see `PROJECT.json` |

How they interact: `pull` (Pull) writes the fixture that everything else reads.
`Generate` (Hydrate, Synthesis) makes rows of it, which `Load` puts into a target with the
statements of `ddl.go`. `validate` (ValidateRun) calls `NewEphemeral` (Ephemeral), `Load`
(Load), `ApplyWithTimeout` (Capture) and `Close` (Ephemeral) in that order, once, or
twice with `--calibrate`; the capture goes to the analyzers, whose findings go to
`BuildResult` (Verdict). The only concurrency inside a process is that of signals with
everything else; between processes it is the admin server that they share. What can fail
is every call to a server, before or after it took effect.

`PROJECT.json` lists the hazards of the code, each at its line, with the properties that
cover it or the reason why none does yet.

## Modules

| module | code | state |
|---|---|---|
| `Application` | none: what applying a migration promises | `effects`, `outcome` |
| `Capture` | `capture.go`, `sqlkind.go` | client: `pc`, `i`, `stmts`, `success`, `timedOut`, `poisoned`, `ceiling`; server: `session`, `landed`; between them `link` |
| `Verdict` | `BuildResult`, `capping.go`, `verdict.go`, `confidence.go` | `verdict`, `surfaced`, `exit` over `fixture`, `report`, `success`, `timedOut` |
| `Ephemeral` | `target.go`, `teardown.go`, `hydrateApplyEphemeral`, `Execute` | per process `pc`, `run`, `failed`, `signals`, `warned`, `unanswered`; server: `catalogue`, `attached` |
| `Load` | `load.go` | `tx`, `made`, `kept`, `reported`, `durable`, `refused` |
| `ValidateRun` | `runValidate`, `CheckHost`, `CheckWriteTarget` | `pc`, `captures`, `wrote`, `exit` over `opts`, `migration`, `source` |
| `Pull` | `cmd/pull.go`, `internal/profile` | `stage`, `t`, `left`, `todo`; session: `inside`, `tx`, `error`; fixture: `facts`, `warned`; other sessions: `dropped` |
| `Analyzers` | `internal/findings`, `resolve.go` | `depth`, `epoch`, `adds`, `fkCols`, `bounded`, `locking`, `findings`; server: `open`, `tx`, `rewinds`, `made`, `truth` |
| `Synthesis` | `internal/hydrate`: values, fan-out, CHECK domains | none: operators |
| `Hydrate` | `engine.go`, `ddl.go`, on top of `Synthesis` and `Load` | `stage`, `counts`, `rows`, and those of `Load` |
| `AgentSetup` | `cmd/init_agent*.go`, `agentrule`, `atomicwrite.go` | `fs`, `pc`, `todo`, `io`, `new`, `failed`, `exit` over `origin`, `version` |

Each that has variables of its own, but for `Application`, has an `MC...` module with
small constants and a `...Proofs` module; that of `Load` is a part of `HydrateProofs`,
since `Hydrate` extends `Load`. A definition whose comment begins "Mutant of" is a broken variant of the one
after it: a plausible bug, put there to show that the property it is paired with in
`PROJECT.json` notices.

**Capture.** One action per step of the loop and of `applyOne`. Client and server are
apart: `landed` is what is durable on the server, which the client never sees. `Sever`
takes the connection away between any two steps; a commit or a statement outside a
transaction that is under way may have been done by then. The lock query is a step
that may poison the transaction. A statement is its kind: ordinary, a SET of
`statement_timeout` (to 0, or to a limit of its own), one that has to run outside a
transaction, transaction control, or blank. The texts of errors, the locks and durations
are left out.

**Verdict.** The report is any sequence of findings an analyzer could produce, with a
severity nobody recognises and errors without remediation among them; a fact may be recorded
more than once or not at all. `success` and `timedOut` are tied together by what Capture
proves (`ThirdOutcome`), and the generic finding is there iff the migration was rejected
(`rsapply.go`).

**Ephemeral.** A process is a run of the command, and pids are used again once their
process is dead. `catalogue` maps a database's name to the incarnation it stands for, so
that a database and its successor of the same name differ. A cancelled context disables
the client's ordinary steps; its calls fail instead. Teardown is detached from it.

**Load.** An object is its position in the plan; the plan is DDL, partitions, rows,
indexes, constraints, identity resets, as `Load` orders them. `kept` is the savepoint.

**ValidateRun.** Nine `Gate`s in the order of the code, then one step per run of the
migration. A connection string is its sequence of hosts, tried in that order.

**Pull.** A group is the reads that share a savepoint, or one read without any; `todo` is
what the current stage has still to read. A guarded read that the server cancels
(`ReadTimesOut`, then `Degrade`) loses its fact and, in the code's own words, what follows
it in its column or table; any other error, and any in a read that is not guarded, is
fatal. A column is what the reads find in it: its category, what the planner says, whether
a value occurs twice. The transaction is READ COMMITTED, so `Drop` may take away a table
that was listed. `NoReadAfterAbort` is about `tx`, which the client cannot see.

**Analyzers.** `Read` passes one statement to all analyzers, each a set of findings over
what it remembers, and beside them to the server (`Serve`), which knows transactions,
files and savepoints as PostgreSQL does. A statement is its kind and its clauses; a key
word is where a clause brings it. `Capping` is an instance of `Verdict`: what a finding
comes to is what the capping engine makes of it, with the confidences of the fixture.
Durations, examples and the parsing of SQL are left out. A fixture is what the format
allows (`FixturesAssumption`), but for a `unique` fact of confidence measured, which no
`pull` writes and which `rsData` lets certify a key (see `findings`).

**Synthesis and Hydrate.** A value is a shape and a number; a cell's generator gives any
number, the same one whenever that cell is asked for again. `Hydrate` computes the row
counts and the budget in integers of `Widest`, fills one table per step, and then takes
the steps of `Load`, which it extends (`Loading`), over a plan that is `Statements`, the
statements `ddl.go` makes of the fixture; the server refuses just those that the rows do
not satisfy (`Judged`). `Load`'s own `Plans` are not used there, its variables are shared,
and what both modules have is told apart by a prefix (`HydrateInit`, `HydrateSpec`,
`HydrateTypeOK`). That the connection is lost is left to `Load`'s own run. What a fixture
may say is `RunsAssumption`: the kinds of constraints of the format, columns of the `Types`
(one of which stands for all that are not supported), an enum with a label, and a range
only where `numericBounds` does not ignore it (`lo <= hi`); the numbers of rows, of distinct
values, of a fan-out and of orphans may be any integers.

**AgentSetup.** One action per read and decision, and per step of a write: a temporary
file and a rename (`WriteTemp`, `Rename`) or a truncation and a fill (`Truncate`, `Fill`).
`WriteFails` and `Crash` may come at each. A run follows another, of either version; a
text is a sequence of marks and pieces of prose, a client's config a set of servers and
our own, a framework's config a sequence of repos with their hooks. `Theirs` are the
servers and hooks that are not rowshape's.

## What is checked

Runs that pass:

| run | properties | bounds | why these bounds |
|---|---|---|---|
| `capture` | `FateKnown`, `SuccessMeansLanded`, `ThirdOutcome`, `CeilingBoundsRun`, `ImplementsApplication` | `MaxStatements` = 3, every kind at every place | a statement's fate depends on its own steps and on the session that the ones before it left: two to set it up, one to suffer |
| `verdict` | `PassIsEarned`, `FailSaysWhy`, `CapIsActionable` | two facts, one of them recorded up to twice, `MaxFindings` = 2 | findings meet pairwise only, in `Combine` and in `WithoutGeneric` |
| `ephemeral` | `HoldsItsDatabase`, `OrphansAreReported`, `DropIsNeverRefused`, `InterruptEnds` | two processes, two pids, `MaxRuns` = 2, at most 2 signals each | the hazards are between a run and one other: concurrent with another pid, or dead with the same |
| `load` | `FailureLeavesTargetClean`, `DifferencesAreReported` | one statement of each kind that must succeed, two of each that may be refused | a refusal, and one more statement of the same and of a later kind to be hurt by it |
| `validate_run` | `WritesArePermitted`, `HostGuard`, `ExitIsHonest` | every flag, `MaxHosts` = 2, five spellings of two hosts | two spellings of a server, and three of this machine of which `hostAliases` lists two |
| `pull` | `NoReadAfterAbort`, `AbsentFactsAreWarned`, `UniqueIsReal`, `PullEnds` | five databases of one or two tables with one or two columns, every mode and privacy | between them every category, key, reference and size; a timeout reaches no further than its own table, a drop no further than the next one |
| `analyzers` | `RefusalIsAnError`, `SameTransactionIsReported`, `DataRisksAreJudged`, `MassWritesAreReported` | `MaxStatements` = 4, three fixtures; a family is the statements of one hazard, or any one statement beside SET lock_timeout | a hazard of order takes an opening, two statements and one in between; the other analyzers look at one statement at a time; windows lie on both sides of `MassDML` and of `Widest` (8, for 2^63) |
| `hydrate` | `WithinBudget`, `RowsFitTheSchema`, `DifferencesAreTold`, `IdentityContinues` | tables of up to 6 rows, `Widest` = 64 for 2^63, fractions in quarters | orphans, whales and medians part from each other at 4 rows over 3 parents; products and sums overflow 64 both to the negative and round to the small |
| `agent_setup` | `UserContentSurvives`, `Settled` | `MaxRuns` = 2, two versions, every kind of content in each file | an upgrade, or a run after one that was cut off; the hazards need the state one run leaves to the next |

Each run also checks the module's `TypeOK` (`HydrateTypeOK` for `hydrate`).

* `FateKnown`: what the capture records without an error is durable and what it records
  as failed is not. The one exception is the last statement, when the driver lost the
  server under it.
* `ImplementsApplication`: `App!ASpec` with `effects <- landed` and the outcome read off
  the capture. Statements take effect in order and once; "complete" is said only when
  nothing is missing.
* `PassIsEarned`: an equivalence. Exit 0 goes to the migrations that deserve it and to
  no other.
* `HoldsItsDatabase`: from CREATE to the end of the teardown a run's name stands for the
  database that run created. It needs one pid namespace; see below.
* `HostGuard`: for a connection string of one host, `validate` does not write to the
  source, in whichever of the spellings `hostAliases` lists.

The other properties are stated, with the lines they are about, in the modules.

* These properties name in their formulas, or in an assumption, the cases in which the code
  does not keep them; where the repository says otherwise, the exception is a finding in
  `PROJECT.json`. Within the rest they are checked against what the server, or the file
  system, really does.

  | property | excepts |
  |---|---|
  | `HoldsItsDatabase` | several pid namespaces on one admin server (`OneNamespace`) |
  | `HostGuard` | names of this machine that `hostAliases` does not list |
  | `DifferencesAreReported` | identity resets that were refused |
  | `AbsentFactsAreWarned` | counts what a lost sample or the lost references take with them as warned of |
  | `UniqueIsReal` | keys with an expression, invalid indexes |
  | `RefusalIsAnError`, `SameTransactionIsReported` | a transaction that was rolled back to a savepoint; for the first, `Unlisted`: REINDEX of a schema or a database |
  | `DataRisksAreJudged` | statements whose clauses the analyzers confuse, a nameless CHECK, a column of two foreign keys, PRIMARY KEY |
  | `MassWritesAreReported` | `Overlooked`: a write without WHERE on a name that is not resolved, a small window of literals on a column that is no key of integers, a window so large that its span wraps, a unique column compared with no single value, a null fraction of a sample. And `ChosenByCaller`, a window whose bounds are not in the SQL, which is no finding: the code says it cannot know |
  | `RowsFitTheSchema` | keys and references that are not `Synthesizable` |
  | `DifferencesAreTold` | `Unreported`: exclusion constraints, CHECKs that `privacy:strict` withholds, keys not shown to contain the partition key. And partial indexes whose predicate is withheld |
  | `UserContentSurvives` | rule files whose marks are broken, hooks beside ours in one entry, the framework's configuration when its write is cut off |

* `MassWritesAreReported`: `rsPerf` and `rsBackfill` divide the mass writes between
  them; the property does not care which reports one. What a write may touch (`MayMatch`) is
  computed from the facts, not from the rules: a window of an integer key by the integers in
  it, without a width, while the rule's own `Span` wraps.
* `DifferencesAreTold` goes through the fixture, not through the statements: what it has
  and the target has not must be in the report, with the exceptions above.

Runs that end in a violation, each of one sentence of the repository that the code does
not keep:

| run | what the counterexample shows |
|---|---|
| `source_never_touched` | a second host in the connection string leads past the host guard |
| `combining_loses_nothing` | ADD COLUMN hides a change of type in the same ALTER TABLE |
| `only_our_bytes_move` | an upgrade of the hook removes the user's hooks beside it |

`findings` in `PROJECT.json` quotes these and the other disagreements between the code and
its own words that were met while modelling; most of those are exceptions in a property
or an assumption of a proof.

### Fairness

* `Capture!FairSpec` is `WF_vars(Progress)`. `Progress` holds the client's own steps,
  which Go runs without waiting for anybody, and `TimerFires`, which the server does when
  `statement_timeout` is set. That the server ever finishes a statement, or that a
  lost connection comes back, is not assumed.
* `Ephemeral!FairSpec`: a cancelled call returns (`GiveUp`: pgx watches the context), and
  a teardown ends at its deadline (`CloseFails`: `teardownGrace`). Nothing is assumed of
  the server.
* `Pull!Fairness`: `WF_vars(Client)`, the steps the process makes by itself, and, when a
  statement timeout is set, `WF_vars(Server)`: a statement then ends, with an answer or with
  the cancellation. Without a timeout `PullEnds` promises nothing.

The other modules have safety properties only. Every model may stutter at its end
(`Returned`, `Exited`, `AllEnded`, `Done`, `Ended`), so deadlock is checked everywhere.

## What is proved

The `...Proofs` modules prove with TLAPS, for every value of the constants, all safety
properties that the runs check, and the refinement:

| module | assumptions | inductive invariant |
|---|---|---|
| `CaptureProofs` | `ScriptsAssumption` | the loop's position against the statements recorded: a statement recorded without an error has landed, nothing past the current one has, and in `commit` the transaction is what `poisoned` says |
| `VerdictProofs` | `FixturesAssumption`, `ReportsAssumption` | the verdict and the surfaced positions are what the findings before `i` make them, up to the floors after |
| `EphemeralProofs` | `RunsAssumption`, `OneNamespace` | who owns what the catalogue holds: a live run's name is its own, what dead runs left is under pids no living process has, a session is on a database of its process, and a stale database about to be dropped has no session left |
| `HydrateProofs`, about `Load` | `PlansAssumption` | what exists in the transaction is the part of the plan behind `i` that was not refused, at the savepoint as well |
| `HydrateProofs`, about `Hydrate` | `RunsAssumption`, `HydrateAssumption`, `SynthesisAssumption` | `Load`'s, and beside it: no sum or product that `Fits` passed has wrapped, so what was passed is exact (`Stages`); the rows of a table are as many as its count, with a value in every column that is inserted (`Grown`); the plan is the fixture's statements, and a reset that was refused is one that the rows do not admit (`Sent`). `LoadableInv`: each cell is what its column's generator or the assigned parent gives (`Made`), and a table's rows or a foreign key were refused, or a key was made, by the rows alone (`Judgements`) |
| `ValidateRunProofs` | `SpellingsAssumption`, `CallsAssumption` | each gate that lies behind has been passed, and the number of captures goes with the step |
| `AnalyzersProofs` | `FixturesAssumption`, `ClausesAssumption`, `BoundsAssumption`, `WindowsAssumption`, `OneConstraint` | what rsTx and rsConstraint remember follows the server: while its transaction is open and no savepoint was rolled back to, the depth is above zero, and each constraint added NOT VALID since is in `notValidAdds` under the current epoch. `DataInv`: what the analyzers without memory say of a statement is among the findings, a foreign key whose name is borne once is in `fkCols` with its column, and a VALIDATE of it was judged by that column |
| `PullProofs` | `DatabasesAssumption` | the reader is at a table that exists when it takes its keys for proofs; `NoReadAfterAbort` is inductive by itself. `ToldInv`: each fact that is sought is in the fixture, accounted for by a warning, or due to a read in `todo`; behind a sample stands only the question whether its column is unique; a table that lies behind has nothing due |
| `AgentSetupProofs` | `VersionsAssumption`, `ReposAssumption` | `KeptInv`: every file but the one open for a write in place has what the user had, and so has the content about to be written. `Listed`, `Handled`: of a run that has not failed, the files of the phases behind hold what its version leaves alone, those of this phase do or are in `todo`, and which files a phase has is not changed by writing them |

In each, the invariant is shown to hold initially and to be kept by every action, one
step of the proof per action; every property follows from it. Most properties are not
inductive themselves: they say nothing of the places in between (a transaction that is
open, a gate that was passed), which the next action relies on.

`OneNamespace` is the assumption that the admin server is used from one pid namespace.
The code needs it: the first process in each of two containers has pid 1, and they name
their databases alike (see `findings`). `OneConstraint`, a hypothesis of
`SameTransactionsAreReported` alone, says that a statement adds at most one named
constraint: of several, `parseAddConstraint` reads the first. `DatabasesAssumption` says
that the server enforces the keys it has.

`RunsWorkOnTheirOwn`, `CappingKeepsDefects` and `FailuresAreLocal` are proved of
properties that no run lists: `WorksOnItsOwn`, `FailMeansDefect` and
`OneFailureCostsOne`.

`DataRisksJudged` and `MassWritesReported` take the facts of a fixture through the
analyzers to a verdict: what `Capping` makes of a finding is computed in the proof from
the confidences of the facts it rests on. `FirstOf` takes the least position at which a
key word stands; that there is one is `LeastNatural`, from the well-foundedness of `<`.
`MassWriteWarns` goes through the rules that silence a write: a window that is passed over and
is not `Mismeasured` has as many keys as its `Span` says, since fewer than 2^63 do not wrap
(`SpanIs`), and so fewer than `MassDML`. `WindowsAssumption` says that literals are 64-bit.

`UserContentIsKept` compares texts by position: `SameProse` is an order isomorphism
between the prose of two texts, and composes, so that each write need only be compared
with what it was made of. `UpsertIdempotent` is the lemma under `RunsSettle`, for texts of
any length: the block that `Upsert` writes is the first one `FindBlock` finds.

`GeneratedWithinBudget` is about any number of tables: `FitsWithin` follows the running
total of `Fits`, which wraps, beside the one in integers without a width; a product that
wrapped does not divide back, and a sum of two that did not wrap is negative if it wraps
itself. `HydrateDifferencesTold` follows a constraint, index or reference of the fixture to
its statement (`StatementsAre`) and that to the target or the report (`AllSent`).
`HydrateIdentityContinues` needs that a finite set of integers has a highest
(`FiniteHighest`), and that a reset is refused only if none of the rows is above zero.

`HydrateRowsFit` has two halves. A unique column of an int, a text or a uuid gives the row
of each ordinal a value of its own (`OwnAre`), so that a key over it holds whatever the
other columns draw (`InjectiveDistinct`), and `ParentIDValue` gives the child the parent's
value, or that of a parent past the last (`ParentIDIsOwn`). And a child is past the last
if and only if orphans are due (`OrphansAssigned`): however the counts are reconciled, the
smallest group keeps a child (`ReconciledFirst`), so that the first group set aside for
orphans is never an empty one, and not all groups are set aside.

Only model-checked: the liveness properties `CeilingBoundsRun`, `InterruptEnds` and
`PullEnds`; liveness and fairness are beyond the prover.

## What is not modelled

Left out of what is modelled: texts, layout and logging; DNS; the shape of the SQL that
`ddl.go` writes and that the analyzers read; floating-point arithmetic; third-party code.
A failed CONCURRENTLY build leaves an INVALID index behind; `Pull` knows of such an index,
but `Capture`'s statement is all or nothing. `pg_terminate_backend` takes effect at once
in `Ephemeral`. That `--calibrate` hydrates the second time under a new name is modelled;
that its rows differ is not.

Not modelled at all:

* the statement splitter: a scanner over characters, whose reference is PostgreSQL's
  lexer; a model would be the scanner once more;
* the estimates: floating-point models and their calibration;
* fixture emission, digest, parsing and the leak check's patterns: serialisation and
  regular expressions, with no state;
* `annotate`, `verify`, `plan`, `explain`, `inspect` and the MCP tools: one reading of a
  fixture or of findings and one answer; the atomic write of `annotate` is the one
  `AgentSetup` models;
* the container: one `docker run` and a deferred removal; the same hazards are modelled
  for the database in `Ephemeral`;
* detection of migration runners: a reading of the file system, an input of `ValidateRun`
  and `AgentSetup`;
* rendering and documentation.

What could be added: a composition of `ValidateRun` with `Ephemeral` and `Capture` in
place of its one-step runs, and of `Analyzers` with `Verdict` over whole reports.

## Running

    tlc -workers 2 -config Capture.cfg MCCapture
    tlapm CaptureProofs.tla

and likewise for the others; each run's module and configuration are in `PROJECT.json`.
