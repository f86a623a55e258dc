------------------------------ MODULE Capture ------------------------------
(***************************************************************************)
(* internal/validate/capture.go: ApplyWithTimeout runs the statements of a *)
(* migration against one PostgreSQL session and records what happened.     *)
(*                                                                         *)
(* The client (the Go code) and the server are separate: `landed' and      *)
(* `session' are the server's, everything else is what the client knows.   *)
(* The link between them can go away at any moment, because the process    *)
(* is interrupted (cmd/root.go cancels the context on SIGINT and SIGTERM), *)
(* the network fails or the server restarts.                               *)
(***************************************************************************)
EXTENDS Naturals, Sequences

CONSTANT Scripts   \* the migrations: sequences of statement kinds

(***************************************************************************)
(* What a statement is to this code.  A SET is an ordinary statement to    *)
(* it; the two SET kinds are those that replace the session's              *)
(* statement_timeout with 0 and with a limit of the migration's own.       *)
(***************************************************************************)
Transactional == {"plain", "setOff", "setOwn"}
Direct        == {"direct"}     \* ... CONCURRENTLY: refused inside a transaction
TxControl     == {"txctl"}      \* BEGIN, COMMIT, SAVEPOINT ...
Blank         == {"blank"}
Kinds         == Transactional \union Direct \union TxControl \union Blank

Runs(kind) == kind \in Transactional \union Direct

NoError       == "none"
QueryCanceled == "57014"
ServerErrors  == {"sql"}               \* constraint, syntax, lock timeout ...
LinkErrors    == {"TXBEGIN", "EXEC"}   \* the driver's, with no SQLSTATE
ErrCodes      == {NoError, QueryCanceled} \union ServerErrors \union LinkErrors

ASSUME ScriptsAssumption == Scripts \subseteq Seq(Kinds)

VARIABLES
  script,    \* the migration
  pc,        \* where ApplyWithTimeout is
  i,         \* the statement it is at
  ceiling,   \* timeout > 0: the run claims a ceiling
  stmts,     \* Capture.Statements
  success,   \* Capture.Success
  timedOut,  \* Capture.TimedOut
  poisoned,  \* the open transaction failed after the statement succeeded
  link,      \* "up" or "down"
  session,   \* the server's statement_timeout: "none", "own" or "ceiling"
  landed     \* the statements whose effects are durable on the server

client == <<script, pc, i, ceiling, stmts, success, timedOut, poisoned>>
server == <<link, session, landed>>
vars   == <<script, pc, i, ceiling, stmts, success, timedOut, poisoned,
            link, session, landed>>

Locations == {"setup", "loop", "exec", "lock", "commit", "direct", "done"}

Init ==
  /\ script \in Scripts
  /\ pc = "setup" /\ i = 1
  /\ ceiling \in BOOLEAN           \* --statement-timeout > 0
  /\ stmts = <<>> /\ success = TRUE /\ timedOut = FALSE
  /\ poisoned = FALSE
  /\ link = "up"                    \* applyStatements has connected
  /\ session \in {"none", "own"}    \* the DSN or the server may set its own
  /\ landed = {}

Current == script[i]

(***************************************************************************)
(* What the loop does with the result of one statement: a 57014 under a    *)
(* ceiling is a timeout and not an error; a timeout or an error ends the   *)
(* loop.                                                                   *)
(***************************************************************************)
IsCut(err) == ceiling /\ err = QueryCanceled

\* Mutant of Statement: the index is that of the slice, not of the script.
StatementFromZero(err) == [at  |-> i - 1,
                           err |-> IF IsCut(err) THEN NoError ELSE err,
                           cut |-> IsCut(err)]

Statement(err) == [at  |-> i,
                   err |-> IF IsCut(err) THEN NoError ELSE err,
                   cut |-> IsCut(err)]

\* Mutants of Conclude: a timeout counts as a rejection too; a timeout does not
\* end the loop.
ConcludeCutIsRejected(err) ==
  /\ stmts' = Append(stmts, Statement(err))
  /\ timedOut' = (timedOut \/ IsCut(err))
  /\ success' = (success /\ err = NoError)
  /\ \/ err = NoError /\ pc' = "loop" /\ i' = i + 1
     \/ err # NoError /\ pc' = "done" /\ i' = i
  /\ poisoned' = FALSE
  /\ UNCHANGED <<script, ceiling>>

ConcludeGoesOn(err) ==
  /\ stmts' = Append(stmts, Statement(err))
  /\ timedOut' = (timedOut \/ IsCut(err))
  /\ success' = (success /\ (err = NoError \/ IsCut(err)))
  /\ \/ (err = NoError \/ IsCut(err)) /\ pc' = "loop" /\ i' = i + 1
     \/ err # NoError /\ ~IsCut(err) /\ pc' = "done" /\ i' = i
  /\ poisoned' = FALSE
  /\ UNCHANGED <<script, ceiling>>

Conclude(err) ==
  /\ stmts' = Append(stmts, Statement(err))
  /\ timedOut' = (timedOut \/ IsCut(err))
  /\ success' = (success /\ (err = NoError \/ IsCut(err)))
  /\ \/ err = NoError /\ pc' = "loop" /\ i' = i + 1
     \/ err # NoError /\ pc' = "done" /\ i' = i
  /\ poisoned' = FALSE
  /\ UNCHANGED <<script, ceiling>>

Goto(loc) ==
  /\ pc' = loc
  /\ UNCHANGED <<script, i, ceiling, stmts, success, timedOut, poisoned>>

(***************************************************************************)
(* SET statement_timeout, before the first statement.  When it is refused  *)
(* the run goes on without claiming a ceiling.                             *)
(***************************************************************************)
\* Mutant of SetCeiling: its error is ignored and the ceiling claimed all the same.
SetCeilingUnchecked ==
  /\ pc = "setup" /\ pc' = "loop"
  /\ \/ ceiling /\ link = "up" /\ session' = "ceiling"
     \/ UNCHANGED session
  /\ UNCHANGED <<script, i, ceiling, stmts, success, timedOut, poisoned, link, landed>>

SetCeiling ==
  /\ pc = "setup" /\ pc' = "loop"
  /\ \/ /\ ceiling /\ link = "up"
        /\ session' = "ceiling"
        /\ UNCHANGED ceiling
     \/ ceiling' = FALSE /\ UNCHANGED session
  /\ UNCHANGED <<script, i, stmts, success, timedOut, poisoned, link, landed>>

\* Mutant of SkipBlank: a break where the code has a continue.
SkipBlankBreaks ==
  /\ pc = "loop" /\ i <= Len(script) /\ Current \in Blank
  /\ Goto("done")
  /\ UNCHANGED server

SkipBlank ==
  /\ pc = "loop" /\ i <= Len(script) /\ Current \in Blank
  /\ i' = i + 1
  /\ UNCHANGED <<script, pc, ceiling, stmts, success, timedOut, poisoned, server>>

RecordTxControl ==
  /\ pc = "loop" /\ i <= Len(script) /\ Current \in TxControl
  /\ Conclude(NoError)
  /\ UNCHANGED server

Begin ==
  /\ pc = "loop" /\ i <= Len(script) /\ Current \in Transactional
  /\ \/ link = "up" /\ Goto("exec")
     \/ link = "down" /\ Conclude("TXBEGIN")
  /\ UNCHANGED server

SendDirect ==
  /\ pc = "loop" /\ i <= Len(script) /\ Current \in Direct
  /\ Goto("direct")
  /\ UNCHANGED server

AllApplied ==
  /\ pc = "loop" /\ i > Len(script)
  /\ Goto("done")
  /\ UNCHANGED server

(***************************************************************************)
(* The statement in its transaction, the query for the strongest lock, the *)
(* commit.  A failed statement is rolled back in the same step.  The lock  *)
(* query's error is ignored, but it aborts the transaction, and the commit *)
(* of an aborted transaction is an error of the driver's.                  *)
(***************************************************************************)
ExecSucceeds == pc = "exec" /\ link = "up" /\ Goto("lock") /\ UNCHANGED server

ReadLock ==
  /\ pc = "lock"
  /\ pc' = "commit"
  /\ poisoned' \in IF link = "up" THEN BOOLEAN ELSE {TRUE}
  /\ UNCHANGED <<script, i, ceiling, stmts, success, timedOut, server>>

CommitSucceeds ==
  /\ pc = "commit" /\ link = "up" /\ ~poisoned
  /\ landed' = landed \union {i}
  /\ session' = CASE Current = "setOff" -> "none"
                  [] Current = "setOwn" -> "own"
                  [] OTHER              -> session
  /\ Conclude(NoError)
  /\ UNCHANGED link

\* Mutant of CommitRollsBack: the error of Commit is not looked at.
CommitUnchecked ==
  /\ pc = "commit" /\ link = "up" /\ poisoned
  /\ Conclude(NoError)
  /\ UNCHANGED server

CommitRollsBack ==
  /\ pc = "commit" /\ link = "up" /\ poisoned
  /\ Conclude("EXEC")
  /\ UNCHANGED server

\* A statement outside a transaction, answered.
DirectSucceeds ==
  /\ pc = "direct" /\ link = "up"
  /\ landed' = landed \union {i}
  /\ Conclude(NoError)
  /\ UNCHANGED <<link, session>>

InFlight == pc \in {"exec", "direct"} \/ (pc = "commit" /\ ~poisoned)

\* The server refuses: the statement, or at commit a deferred constraint.
Refused ==
  /\ InFlight /\ link = "up"
  /\ \E err \in ServerErrors : Conclude(err)
  /\ UNCHANGED server

\* The session's statement_timeout fires, or somebody calls pg_cancel_backend.
TimerFires ==
  /\ InFlight /\ link = "up" /\ session # "none"
  /\ Conclude(QueryCanceled)
  /\ UNCHANGED server

Cancelled ==
  /\ InFlight /\ link = "up"
  /\ Conclude(QueryCanceled)
  /\ UNCHANGED server

(***************************************************************************)
(* The link goes away.  A statement outside a transaction, or a commit,    *)
(* may have been done by then; the client is told EXEC either way.         *)
(***************************************************************************)
MayLandUnseen == pc = "direct" \/ (pc = "commit" /\ ~poisoned)

Sever ==
  /\ pc # "done" /\ link = "up"
  /\ link' = "down"
  /\ \/ landed' = landed
     \/ MayLandUnseen /\ landed' = landed \union {i}
  /\ UNCHANGED <<client, session>>

LinkFails ==
  /\ pc \in {"exec", "direct", "commit"} /\ link = "down"
  /\ Conclude("EXEC")
  /\ UNCHANGED server

\* ApplyWithTimeout has returned.
Returned == pc = "done" /\ UNCHANGED vars

\* Steps that come whatever the statement does: the client's own, and the timer.
Progress ==
  \/ SetCeiling \/ SkipBlank \/ RecordTxControl \/ Begin \/ SendDirect
  \/ AllApplied \/ ReadLock \/ CommitRollsBack \/ LinkFails \/ TimerFires

Next ==
  \/ SetCeiling \/ SkipBlank \/ RecordTxControl \/ Begin \/ SendDirect
  \/ AllApplied \/ ExecSucceeds \/ ReadLock \/ CommitSucceeds
  \/ CommitRollsBack \/ DirectSucceeds \/ Refused \/ TimerFires \/ Cancelled
  \/ Sever \/ LinkFails \/ Returned

Spec     == Init /\ [][Next]_vars
FairSpec == Spec /\ WF_vars(Progress)
-----------------------------------------------------------------------------
(* Properties *)

\* Every variable has its type, and the loop index stays in the script.
TypeOK ==
  /\ script \in Scripts
  /\ pc \in Locations
  /\ i \in 1 .. Len(script) + 1
  /\ ceiling \in BOOLEAN /\ success \in BOOLEAN /\ timedOut \in BOOLEAN
  /\ poisoned \in BOOLEAN
  /\ stmts \in Seq([at : 1 .. Len(script), err : ErrCodes, cut : BOOLEAN])
  /\ link \in {"up", "down"}
  /\ session \in {"none", "own", "ceiling"}
  /\ landed \subseteq 1 .. Len(script)

Failed(st) == st.err # NoError \/ st.cut

\* The capture tells the fate of every statement: what it records without an
\* error has landed, what it records as failed or cut off has not.  One
\* statement is excepted, the last, and only when the driver lost the server
\* under it (a commit whose answer never came).
FateKnown ==
  \A n \in 1 .. Len(stmts) :
    LET st == stmts[n] IN
    /\ Failed(st) => n = Len(stmts)
    /\ Runs(script[st.at]) =>
         \/ Failed(st) = (st.at \notin landed)
         \/ st.err = "EXEC" /\ link = "down"

\* "Success is true when every statement applied without error"
\* (capture.go:29): a finished run that reports success and no timeout has
\* every statement of the migration durable, none skipped.
SuccessMeansLanded ==
  (pc = "done" /\ success /\ ~timedOut) =>
    \A k \in 1 .. Len(script) : Runs(script[k]) => k \in landed

\* A timeout is a third outcome (capture.go:83-93): it is never reported
\* together with a rejection, a rejection always has a statement that carries
\* its error (RS-APPLY-001 is built from it), and a timed-out run names the
\* statement it was cut at.
ThirdOutcome ==
  /\ timedOut => success
  /\ ~success <=> \E n \in 1 .. Len(stmts) : stmts[n].err # NoError
  /\ timedOut <=> \E n \in 1 .. Len(stmts) : stmts[n].cut

\* Where a ceiling is claimed and the migration does not lift it, the run ends
\* even if the server never finishes a statement (capture.go:118-126).
NeverLifted == \A k \in 1 .. Len(script) : script[k] # "setOff"

CeilingBoundsRun == (pc = "loop" /\ ceiling /\ NeverLifted) ~> (pc = "done")

\* The detailed run implements Application: each statement takes effect in
\* order and once, and the run's outcome is what Application allows to be said.
Outcome ==
  IF pc # "done" THEN "running"
  ELSE IF timedOut THEN "cut"
  ELSE IF success THEN "complete"
  ELSE IF stmts[Len(stmts)].err \in LinkErrors THEN "lost"
  ELSE "rejected"

Todo == {k \in 1 .. Len(script) : Runs(script[k])}

App == INSTANCE Application
         WITH todo    <- Todo,
              effects <- landed,
              outcome <- Outcome

ImplementsApplication == App!ASpec
=============================================================================
