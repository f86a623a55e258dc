----------------------------- MODULE Ephemeral -----------------------------
(***************************************************************************)
(* The life of a disposable database (internal/target/target.go and        *)
(* teardown.go), as `rowshape validate --ephemeral' drives it              *)
(* (cmd/validate.go: hydrateApplyEphemeral): several processes share one   *)
(* admin server, each creates a database, fills it, applies a migration to *)
(* it and drops it, once, or twice with --calibrate.                       *)
(*                                                                         *)
(* A process may be interrupted (cmd/root.go) or killed at any point, and  *)
(* any call to the server may fail, before or after it took effect.  An    *)
(* operating system gives the id of a dead process to a new one.           *)
(***************************************************************************)
EXTENDS Naturals

CONSTANTS
  Procs,    \* the processes, over all time
  HostOf,   \* the pid namespace each runs in: a machine, or a container
  Pids,     \* the ids an operating system gives out
  MaxRuns   \* 2: the two hydrations of --calibrate

Names        == Pids \X (1 .. MaxRuns)    \* ephemeralName: the pid and a counter
Incarnations == Procs \X (1 .. MaxRuns)   \* the databases ever created
None         == <<>>

ASSUME RunsAssumption == MaxRuns \in Nat \ {0}

VARIABLES
  pid,         \* os.Getpid() of each process
  forceDrop,   \* the server is PostgreSQL 13 or later: DROP DATABASE WITH (FORCE)
  pc,          \* the call each process is in
  runs,        \* how many hydrations it was asked for
  run,         \* ephemeralCounter
  failed,      \* hydrateApplyEphemeral is returning an error
  signals,     \* the signals it has been sent, counted up to 2
  warned,      \* it has told the user that a database may be left (warnTeardown)
  unanswered,  \* the databases whose CREATE it never got an answer to
  catalogue,   \* the server: the database each name stands for, or None
  attached     \* the server: the database each process has a session on

process == <<pc, runs, run, failed, signals, warned, unanswered>>
server  == <<catalogue, attached>>
world   == <<pid, forceDrop>>
vars    == <<pid, forceDrop, pc, runs, run, failed, signals, warned, unanswered,
             catalogue, attached>>

Creating == {"reset", "resetDrop", "create"}               \* NewEphemeral
Working  == {"connect", "load", "reconnect", "apply"}      \* Load, applyStatements
Closing  == {"close", "closeDrop"}                         \* Ephemeral.Close
Ended    == {"exited", "killed"}

Locations == {"off"} \union Creating \union Working \union Closing \union Ended

Alive(p)     == pc[p] \in Creating \union Working \union Closing
Cancelled(p) == signals[p] > 0
\* Mutant of Name: the counter alone, the pid left out.
NameByCounter(p) == <<CHOOSE n \in Pids : TRUE, run[p]>>

Name(p)      == <<pid[p], run[p]>>
Own(p)       == <<p, run[p]>>

Init ==
  /\ pid \in [Procs -> Pids] /\ forceDrop \in BOOLEAN
  /\ pc = [p \in Procs |-> "off"]
  /\ runs = [p \in Procs |-> 1]
  /\ run = [p \in Procs |-> 1]
  /\ failed = [p \in Procs |-> FALSE]
  /\ signals = [p \in Procs |-> 0]
  /\ warned = [p \in Procs |-> FALSE]
  /\ unanswered = [p \in Procs |-> {}]
  /\ catalogue = [n \in Names |-> None]
  /\ attached = [p \in Procs |-> None]

Goto(p, loc) == pc' = [pc EXCEPT ![p] = loc]

\* A pid belongs to one living process of a machine at a time.
Start(p) ==
  /\ pc[p] = "off"
  /\ \A q \in Procs : Alive(q) => HostOf[q] # HostOf[p] \/ pid[q] # pid[p]
  /\ Goto(p, "reset")
  /\ \E n \in 1 .. MaxRuns : runs' = [runs EXCEPT ![p] = n]
  /\ UNCHANGED <<world, run, failed, signals, warned, unanswered, server>>
-----------------------------------------------------------------------------
(* dropDatabase: before PostgreSQL 13 the sessions go in a call of their own. *)

AttachedTo(n) == {q \in Procs : attached[q] # None /\ attached[q] = catalogue[n]}

Detach(Q) == attached' = [q \in Procs |-> IF q \in Q THEN None ELSE attached[q]]

ForceDrop(n) ==
  /\ forceDrop
  /\ Detach(AttachedTo(n))
  /\ catalogue' = [catalogue EXCEPT ![n] = None]

\* Mutant of Terminate: not at all.
TerminateNobody(n) == ~forceDrop /\ UNCHANGED server

Terminate(n) ==
  /\ ~forceDrop
  /\ Detach(AttachedTo(n))
  /\ UNCHANGED catalogue

PlainDrop(n) ==
  /\ AttachedTo(n) = {}
  /\ catalogue' = [catalogue EXCEPT ![n] = None]
  /\ UNCHANGED attached
-----------------------------------------------------------------------------
(* NewEphemeral *)

Reset(p) ==
  /\ pc[p] = "reset" /\ ~Cancelled(p)
  /\ \/ ForceDrop(Name(p)) /\ Goto(p, "create")
     \/ Terminate(Name(p)) /\ Goto(p, "resetDrop")
  /\ UNCHANGED <<world, runs, run, failed, signals, warned, unanswered>>

ResetDrop(p) ==
  /\ pc[p] = "resetDrop" /\ ~Cancelled(p)
  /\ PlainDrop(Name(p))
  /\ Goto(p, "create")
  /\ UNCHANGED <<world, runs, run, failed, signals, warned, unanswered>>

CreateDatabase(p) ==
  /\ catalogue[Name(p)] = None
  /\ catalogue' = [catalogue EXCEPT ![Name(p)] = Own(p)]
  /\ UNCHANGED attached

Create(p) ==
  /\ pc[p] = "create" /\ ~Cancelled(p)
  /\ CreateDatabase(p)
  /\ Goto(p, "connect")
  /\ UNCHANGED <<world, runs, run, failed, signals, warned, unanswered>>

\* An error from NewEphemeral ends the command: there is no Target to close.
NewFails(p) ==
  /\ pc[p] \in Creating
  /\ Goto(p, "exited")
  /\ \/ UNCHANGED <<server, unanswered>>
     \/ /\ pc[p] = "create" /\ CreateDatabase(p)      \* done, but not answered
        /\ unanswered' = [unanswered EXCEPT ![p] = @ \union {Own(p)}]
  /\ UNCHANGED <<world, runs, run, failed, signals, warned>>
-----------------------------------------------------------------------------
(* Load and applyStatements: each connects by name and closes its session. *)

Connect(p) ==
  /\ pc[p] \in {"connect", "reconnect"} /\ ~Cancelled(p)
  /\ catalogue[Name(p)] # None
  /\ attached' = [attached EXCEPT ![p] = catalogue[Name(p)]]
  /\ Goto(p, IF pc[p] = "connect" THEN "load" ELSE "apply")
  /\ UNCHANGED <<world, runs, run, failed, signals, warned, unanswered,
                 catalogue>>

WorkDone(p) ==
  /\ pc[p] \in {"load", "apply"} /\ ~Cancelled(p)
  /\ attached[p] # None
  /\ attached' = [attached EXCEPT ![p] = None]
  /\ Goto(p, IF pc[p] = "load" THEN "reconnect" ELSE "close")
  /\ UNCHANGED <<world, runs, run, failed, signals, warned, unanswered,
                 catalogue>>

\* A failure leads to the deferred Close; the server may not have noticed that
\* the session is over.  ApplyWithTimeout records its failures and returns no
\* error.
WorkFails(p) ==
  /\ pc[p] \in Working
  /\ Goto(p, "close")
  /\ failed' = [failed EXCEPT ![p] = @ \/ pc[p] # "apply"]
  /\ attached' \in {attached, [attached EXCEPT ![p] = None]}
  /\ UNCHANGED <<world, runs, run, signals, warned, unanswered, catalogue>>

\* The server notices.
SessionEnds(p) ==
  /\ attached[p] # None /\ pc[p] \notin {"load", "apply"}
  /\ attached' = [attached EXCEPT ![p] = None]
  /\ UNCHANGED <<world, process, catalogue>>
-----------------------------------------------------------------------------
(* Close, under TeardownContext: detached from the run's cancellation, with *)
(* a deadline of its own.                                                    *)

\* hydrateApplyEphemeral returns; --calibrate runs it a second time.
\* Mutant of Return: one hydration too many.
ReturnLate(p) ==
  IF ~failed[p] /\ run[p] <= runs[p]
  THEN Goto(p, "reset") /\ run' = [run EXCEPT ![p] = @ + 1]
  ELSE Goto(p, "exited") /\ UNCHANGED run

Return(p) ==
  IF ~failed[p] /\ run[p] < runs[p]
  THEN Goto(p, "reset") /\ run' = [run EXCEPT ![p] = @ + 1]
  ELSE Goto(p, "exited") /\ UNCHANGED run

Close(p) ==
  /\ pc[p] = "close"
  /\ \/ ForceDrop(Name(p)) /\ Return(p)
     \/ Terminate(Name(p)) /\ Goto(p, "closeDrop") /\ UNCHANGED run
  /\ UNCHANGED <<world, runs, failed, signals, warned, unanswered>>

CloseDrop(p) ==
  /\ pc[p] = "closeDrop"
  /\ PlainDrop(Name(p))
  /\ Return(p)
  /\ UNCHANGED <<world, runs, failed, signals, warned, unanswered>>

\* Mutant of CloseWarns: the error of Close is discarded.
CloseSilent(p) ==
  /\ Return(p)
  /\ UNCHANGED <<world, runs, failed, signals, warned, unanswered, attached>>

\* An error from Close is a warning, and the command goes on.
CloseWarns(p) ==
  /\ warned' = [warned EXCEPT ![p] = TRUE]
  /\ Return(p)
  /\ UNCHANGED <<world, runs, failed, signals, unanswered, attached>>

\* Mutant of CloseFails: detached from the cancellation, with no deadline of its own.
CloseWaits(p) ==
  /\ pc[p] \in Closing /\ ~Cancelled(p)
  /\ CloseWarns(p)
  /\ UNCHANGED catalogue

CloseFails(p) ==
  /\ pc[p] \in Closing
  /\ CloseWarns(p)
  /\ UNCHANGED catalogue
-----------------------------------------------------------------------------
(* Signals *)

\* SIGINT and SIGTERM.  signal.NotifyContext stays registered until Execute
\* returns, so a second one only fills its channel.
Signal(p) ==
  /\ Alive(p) /\ signals[p] < 2
  /\ signals' = [signals EXCEPT ![p] = @ + 1]
  /\ UNCHANGED <<world, pc, runs, run, failed, warned, unanswered, server>>

\* SIGKILL, or the machine goes; the call it was in may have been answered.
Kill(p) ==
  /\ Alive(p)
  /\ Goto(p, "killed")
  /\ UNCHANGED <<world, runs, run, failed, signals, warned, unanswered>>
  /\ \/ UNCHANGED server
     \/ pc[p] = "create" /\ CreateDatabase(p)

\* All processes are over.
AllEnded == (\A p \in Procs : pc[p] \in Ended) /\ UNCHANGED vars

Step(p) ==
  \/ Start(p) \/ Reset(p) \/ ResetDrop(p) \/ Create(p) \/ NewFails(p)
  \/ Connect(p) \/ WorkDone(p) \/ WorkFails(p) \/ SessionEnds(p)
  \/ Close(p) \/ CloseDrop(p) \/ CloseFails(p)
  \/ Signal(p) \/ Kill(p)

Next == (\E p \in Procs : Step(p)) \/ AllEnded

Spec == Init /\ [][Next]_vars

\* What a process does without the server: a cancelled call returns, and so does
\* one that is past its deadline.
GiveUp(p) == Cancelled(p) /\ (NewFails(p) \/ WorkFails(p))

FairSpec == Spec /\ \A p \in Procs : WF_vars(GiveUp(p)) /\ WF_vars(CloseFails(p))
-----------------------------------------------------------------------------
(* Properties *)

\* Every variable has its type.
TypeOK ==
  /\ pid \in [Procs -> Pids]
  /\ forceDrop \in BOOLEAN
  /\ pc \in [Procs -> Locations]
  /\ runs \in [Procs -> 1 .. MaxRuns] /\ run \in [Procs -> 1 .. MaxRuns]
  /\ failed \in [Procs -> BOOLEAN] /\ warned \in [Procs -> BOOLEAN]
  /\ signals \in [Procs -> 0 .. 2]
  /\ unanswered \in [Procs -> SUBSET Incarnations]
  /\ catalogue \in [Names -> Incarnations \union {None}]
  /\ attached \in [Procs -> Incarnations \union {None}]

\* From the CREATE to the end of its teardown a run's name stands for the
\* database that run created: no reset, drop or crash of another process, dead
\* or alive, takes it away or puts another in its place, and none was left of an
\* earlier run for it to find.
HoldsItsDatabase ==
  \A p \in Procs : pc[p] \in Working \union Closing => catalogue[Name(p)] = Own(p)

\* So what is loaded and migrated is always the run's own database, with its
\* session still open.
WorksOnItsOwn ==
  \A p \in Procs : pc[p] \in {"load", "apply"} => attached[p] = Own(p)

\* A process that ends in an orderly way leaves no database behind that it has
\* not warned of (validate.go:487-496): cancellation stops the work and still
\* permits the cleanup.  One it never knew to exist is excepted.
OrphansAreReported ==
  \A p \in Procs : pc[p] = "exited" =>
    \A n \in Names :
      (catalogue[n] # None /\ catalogue[n][1] = p) =>
        warned[p] \/ catalogue[n] \in unanswered[p]

\* A lingering session never keeps a database alive, on any server version
\* (target.go:113-122, 188-190): before PostgreSQL 13 nobody is attached any more
\* when the plain DROP is sent, so that "is being accessed by other users" is never
\* its answer.
DropIsNeverRefused ==
  \A p \in Procs : pc[p] \in {"resetDrop", "closeDrop"} => AttachedTo(Name(p)) = {}

\* An interrupted command ends, whether or not the server still answers.
InterruptEnds == \A p \in Procs : (Alive(p) /\ Cancelled(p)) ~> pc[p] \in Ended
=============================================================================
