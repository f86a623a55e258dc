-------------------------------- MODULE Load --------------------------------
(***************************************************************************)
(* internal/target/load.go: Load fills a target from a fixture inside one  *)
(* transaction.  Schema, partitions and rows have to succeed; secondary    *)
(* indexes, deferred constraints and identity resets are each tried inside *)
(* a savepoint of their own (execGuarded), and what the server refuses is  *)
(* left out.                                                               *)
(*                                                                         *)
(* An object of the plan is known by its position.  The connection can go  *)
(* away at any moment; a cancelled context closes it, which is the same.   *)
(***************************************************************************)
EXTENDS Naturals, Sequences

CONSTANT Plans   \* the statements of a load, by kind, in the order of the code

Fatal   == {"ddl", "partition", "copy"}
Guarded == {"index", "constraint", "reset"}
Kinds   == Fatal \union Guarded

ASSUME PlansAssumption == Plans \subseteq Seq(Kinds)

VARIABLES
  plan,      \* DDL, Partitions, the tables, SecondaryIndexes, ...
  pc,        \* where Load is
  i,         \* the statement at hand
  link,      \* "up" or "down"
  tx,        \* the server's transaction: "none", "open" or "aborted"
  made,      \* what exists inside the transaction
  kept,      \* what existed at the last savepoint
  reported,  \* LoadReport.SkippedIndexes and SkippedConstraints
  durable,   \* what is committed
  refused    \* the statements the server refused for what they are

vars == <<plan, pc, i, link, tx, made, kept, reported, durable, refused>>

Locations == {"begin", "exec", "guarded", "rollback to", "release", "commit",
              "rollback", "loaded", "failed"}
Returned  == {"loaded", "failed"}

Init ==
  /\ plan \in Plans
  /\ pc = "begin" /\ i = 1
  /\ link = "up" /\ tx = "none"
  /\ made = {} /\ kept = {} /\ reported = {} /\ durable = {} /\ refused = {}

Kind == plan[i]

Begin ==
  /\ pc = "begin" /\ link = "up"
  /\ pc' = "exec" /\ tx' = "open"
  /\ UNCHANGED <<plan, i, link, made, kept, reported, durable, refused>>

\* Mutant of Exec: on the connection, outside the transaction.
ExecAutocommits ==
  /\ pc = "exec" /\ i <= Len(plan) /\ Kind \in Fatal
  /\ link = "up" /\ tx = "open"
  /\ \/ made' = made \union {i} /\ durable' = durable \union {i} /\ i' = i + 1
        /\ UNCHANGED <<pc, tx, refused>>
     \/ tx' = "aborted" /\ refused' = refused \union {i} /\ pc' = "rollback"
        /\ UNCHANGED <<made, durable, i>>
  /\ UNCHANGED <<plan, link, kept, reported>>

Exec ==
  /\ pc = "exec" /\ i <= Len(plan) /\ Kind \in Fatal
  /\ link = "up" /\ tx = "open"
  /\ \/ made' = made \union {i} /\ i' = i + 1
        /\ UNCHANGED <<pc, tx, refused>>
     \/ tx' = "aborted" /\ refused' = refused \union {i} /\ pc' = "rollback"
        /\ UNCHANGED <<made, i>>
  /\ UNCHANGED <<plan, link, kept, reported, durable>>

\* In an aborted transaction every statement fails, whatever it is.
Savepoint ==
  /\ pc = "exec" /\ i <= Len(plan) /\ Kind \in Guarded
  /\ link = "up"
  /\ IF tx = "open" THEN pc' = "guarded" /\ kept' = made
                    ELSE pc' = "rollback" /\ UNCHANGED kept
  /\ UNCHANGED <<plan, i, link, tx, made, reported, durable, refused>>

ExecGuarded ==
  /\ pc = "guarded" /\ link = "up" /\ tx = "open"
  /\ \/ made' = made \union {i} /\ pc' = "release"
        /\ UNCHANGED <<tx, refused>>
     \/ tx' = "aborted" /\ refused' = refused \union {i}
        /\ pc' = "rollback to" /\ UNCHANGED made
  /\ UNCHANGED <<plan, i, link, kept, reported, durable>>

\* Mutant of RollbackTo: skipped constraints are thrown away with the resets.
RollbackToForgets ==
  /\ pc = "rollback to" /\ link = "up"
  /\ tx' = "open" /\ made' = kept
  /\ reported' = IF Kind \in {"constraint", "reset"} THEN reported ELSE reported \union {i}
  /\ i' = i + 1 /\ pc' = "exec"
  /\ UNCHANGED <<plan, link, kept, durable, refused>>

\* The list of the skipped identity resets is thrown away by Load.
RollbackTo ==
  /\ pc = "rollback to" /\ link = "up"
  /\ tx' = "open" /\ made' = kept
  /\ reported' = IF Kind = "reset" THEN reported ELSE reported \union {i}
  /\ i' = i + 1 /\ pc' = "exec"
  /\ UNCHANGED <<plan, link, kept, durable, refused>>

\* Mutant of Release: the index is advanced twice.
ReleaseTwice ==
  /\ pc = "release" /\ link = "up"
  /\ i' = i + 2 /\ pc' = "exec"
  /\ UNCHANGED <<plan, link, tx, made, kept, reported, durable, refused>>

Release ==
  /\ pc = "release" /\ link = "up"
  /\ i' = i + 1 /\ pc' = "exec"
  /\ UNCHANGED <<plan, link, tx, made, kept, reported, durable, refused>>

SendCommit ==
  /\ pc = "exec" /\ i > Len(plan)
  /\ pc' = "commit"
  /\ UNCHANGED <<plan, i, link, tx, made, kept, reported, durable, refused>>

\* The commit of an aborted transaction is a rollback, and an error.
Commit ==
  /\ pc = "commit" /\ link = "up"
  /\ IF tx = "open" THEN durable' = made /\ pc' = "loaded"
                    ELSE pc' = "failed" /\ UNCHANGED durable
  /\ tx' = "none" /\ made' = {}
  /\ UNCHANGED <<plan, i, link, kept, reported, refused>>

\* The server may refuse to commit (a full disk, an administrator's shutdown).
CommitRefused ==
  /\ pc = "commit" /\ link = "up"
  /\ tx' = "none" /\ made' = {} /\ pc' = "failed"
  /\ UNCHANGED <<plan, i, link, kept, reported, durable, refused>>

\* The deferred Rollback.
Rollback ==
  /\ pc = "rollback" /\ link = "up"
  /\ tx' = "none" /\ made' = {} /\ pc' = "failed"
  /\ UNCHANGED <<plan, i, link, kept, reported, durable, refused>>

\* The server ends a transaction it has lost the client of; a commit it has
\* received is done all the same.
Sever ==
  /\ pc \notin Returned /\ link = "up"
  /\ link' = "down" /\ tx' = "none" /\ made' = {}
  /\ \/ durable' = durable
     \/ pc = "commit" /\ tx = "open" /\ durable' = made
  /\ UNCHANGED <<plan, pc, i, kept, reported, refused>>

LinkFails ==
  /\ pc \notin Returned /\ link = "down"
  /\ pc' = "failed"
  /\ UNCHANGED <<plan, i, link, tx, made, kept, reported, durable, refused>>

Done == pc \in Returned /\ UNCHANGED vars

Next ==
  \/ Begin \/ Exec \/ Savepoint \/ ExecGuarded \/ RollbackTo \/ Release
  \/ SendCommit \/ Commit \/ CommitRefused \/ Rollback
  \/ Sever \/ LinkFails \/ Done

Spec == Init /\ [][Next]_vars
-----------------------------------------------------------------------------
(* Properties *)

\* Every variable has its type.
TypeOK ==
  /\ plan \in Seq(Kinds)
  /\ pc \in Locations /\ link \in {"up", "down"}
  /\ tx \in {"none", "open", "aborted"}
  /\ i \in 1 .. Len(plan) + 1
  /\ made \subseteq 1 .. Len(plan) /\ kept \subseteq 1 .. Len(plan)
  /\ reported \subseteq 1 .. Len(plan) /\ durable \subseteq 1 .. Len(plan)
  /\ refused \subseteq 1 .. Len(plan)

\* "All inside one transaction so a failure leaves the target clean"
\* (load.go:47-49): after an error nothing is committed.  The one exception is a
\* commit whose answer was lost; then everything is.
FailureLeavesTargetClean ==
  pc = "failed" =>
    \/ durable = {}
    \/ link = "down" /\ durable = (1 .. Len(plan)) \ refused

\* A load that succeeds tells every way in which the target falls short of the
\* fixture: what is not there was reported (load.go:175-177), identity resets
\* excepted, and the schema and rows are all there.
DifferencesAreReported ==
  pc = "loaded" =>
    \A k \in 1 .. Len(plan) :
      \/ k \in durable
      \/ k \in reported
      \/ plan[k] = "reset" /\ k \in refused

\* One failure costs one object: what is skipped was refused for what it is,
\* and never because an earlier failure poisoned the transaction
\* (load.go:116-121, 171-174).
OneFailureCostsOne ==
  /\ reported \subseteq refused
  /\ tx = "aborted" => pc \in {"rollback to", "rollback"}
=============================================================================
