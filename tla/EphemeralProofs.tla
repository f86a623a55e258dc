-------------------------- MODULE EphemeralProofs --------------------------
(***************************************************************************)
(* Proofs about Ephemeral, for any number of processes that share one pid  *)
(* namespace (OneNamespace), any pids and any number of runs.              *)
(*                                                                         *)
(* The argument: the operating system keeps the pids of living processes   *)
(* apart (PidsApart), so the only catalogue entry a process touches is its *)
(* own name's; the ledger (Ledger) says what the databases of a process    *)
(* can be at each point of its life, and where they are.                   *)
(***************************************************************************)
EXTENDS Ephemeral, TLAPS

OneNamespace == \A p, q \in Procs : HostOf[p] = HostOf[q]

\* Living processes have different pids.
PidsApart ==
  \A p, q \in Procs : (p # q /\ Alive(p) /\ Alive(q)) => pid[p] # pid[q]

\* The databases of a process stand under its own names; while it is in an
\* orderly state each is the current run's or one it has to account for.
Accounted(p, d) ==
  \/ warned[p]
  \/ d \in unanswered[p]
  \/ pc[p] \in Working \union Closing /\ d = Own(p)
  \/ pc[p] = "killed"

Ledger ==
  \A n \in Names, p \in Procs, k \in 1 .. MaxRuns :
    catalogue[n] = <<p, k>> =>
      /\ n = <<pid[p], k>>
      /\ pc[p] # "off"
      /\ k <= run[p]
      /\ Accounted(p, <<p, k>>)

\* A session is on a database of its process.
Sessions ==
  \A p \in Procs :
    /\ attached[p] # None => attached[p][1] = p
    /\ pc[p] = "closeDrop" => attached[p] # Own(p)

\* Once the sessions on a stale database of its name are terminated, a run that is
\* about to drop it is the only one to know the name.
ResetIsClear ==
  \A p \in Procs : pc[p] = "resetDrop" => AttachedTo(Name(p)) = {}

IInv == /\ TypeOK /\ PidsApart /\ HoldsItsDatabase /\ WorksOnItsOwn
        /\ Ledger /\ Sessions /\ ResetIsClear

LEMMA LocationsAre ==
  Locations = {"off", "reset", "resetDrop", "create", "connect", "load", "reconnect",
               "apply", "close", "closeDrop", "exited", "killed"}
BY DEF Locations, Creating, Working, Closing, Ended

LEMMA TypesOfNames ==
  ASSUME TypeOK, NEW p \in Procs
  PROVE  /\ Name(p) \in Names /\ Own(p) \in Incarnations
         /\ run[p] \in 1 .. MaxRuns /\ pc[p] \in Locations
         /\ None \notin Incarnations /\ Own(p) # None
BY DEF TypeOK, Name, Own, Names, Incarnations, None

\* What a step of p leaves alone.
Frame(p) ==
  /\ pid' = pid
  /\ \A q \in Procs \ {p} :
       /\ pc'[q] = pc[q] /\ run'[q] = run[q]
       /\ warned'[q] = warned[q] /\ unanswered'[q] = unanswered[q]
       /\ attached'[q] # attached[q] =>
            attached'[q] = None /\ Alive(p) /\ attached[q] = catalogue[Name(p)]
  /\ \A n \in Names \ {Name(p)} : catalogue'[n] = catalogue[n]
  /\ catalogue' # catalogue => Alive(p)
  /\ run'[p] \in {run[p], run[p] + 1} /\ run'[p] \in 1 .. MaxRuns
  /\ warned[p] => warned'[p]
  /\ unanswered[p] \subseteq unanswered'[p]
  /\ pc'[p] \in Locations

LEMMA StepTypes ==
  ASSUME TypeOK, NEW p \in Procs, Step(p)
  PROVE  TypeOK'
<1> USE DEF Step, Start, Reset, ResetDrop, Create, NewFails, Connect, WorkDone,
            WorkFails, SessionEnds, Close, CloseDrop, CloseFails,
            CloseWarns, Signal, Kill
<1>1. /\ Name(p) \in Names /\ Own(p) \in Incarnations
      /\ run[p] \in 1 .. MaxRuns
  BY TypesOfNames
<1>2. pid' = pid /\ forceDrop' = forceDrop
  BY DEF world
<1>3. pc' \in [Procs -> Locations]
  BY LocationsAre DEF TypeOK, process, Return, Goto
<1>4. runs' \in [Procs -> 1 .. MaxRuns]
  BY DEF TypeOK, process
<1>5. run' \in [Procs -> 1 .. MaxRuns]
  BY <1>1, RunsAssumption DEF TypeOK, process, Return, Goto
<1>6. failed' \in [Procs -> BOOLEAN] /\ warned' \in [Procs -> BOOLEAN]
  BY DEF TypeOK, process
<1>7. signals' \in [Procs -> 0 .. 2]
  <2>1. CASE Signal(p)
    <3>1. signals[p] + 1 \in 0 .. 2
      BY <2>1 DEF TypeOK
    <3> QED BY <2>1, <3>1 DEF TypeOK
  <2>2. CASE ~Signal(p)
    BY <2>2 DEF TypeOK, process
  <2> QED BY <2>1, <2>2
<1>8. unanswered' \in [Procs -> SUBSET Incarnations]
  BY <1>1 DEF TypeOK, process
<1>9. catalogue' \in [Names -> Incarnations \union {None}]
  BY <1>1 DEF TypeOK, server, ForceDrop, Terminate, PlainDrop, Detach, CreateDatabase
<1>10. attached' \in [Procs -> Incarnations \union {None}]
  BY <1>1 DEF TypeOK, server, ForceDrop, Terminate, PlainDrop, Detach, CreateDatabase
<1> QED BY <1>2, <1>3, <1>4, <1>5, <1>6, <1>7, <1>8, <1>9, <1>10 DEF TypeOK

LEMMA StepFrame ==
  ASSUME TypeOK, NEW p \in Procs, Step(p)
  PROVE  Frame(p)
<1> USE DEF Step, Start, Reset, ResetDrop, Create, NewFails, Connect, WorkDone,
            WorkFails, SessionEnds, Close, CloseDrop, CloseFails,
            CloseWarns, Signal, Kill
<1>1. /\ Name(p) \in Names /\ run[p] \in 1 .. MaxRuns
  BY TypesOfNames
<1>2. pid' = pid
  BY DEF world
<1>3. \A q \in Procs \ {p} : pc'[q] = pc[q]
  BY DEF TypeOK, process, Return, Goto
<1>4. /\ \A q \in Procs \ {p} : run'[q] = run[q]
      /\ run'[p] \in {run[p], run[p] + 1} /\ run'[p] \in 1 .. MaxRuns
  <2>1. UNCHANGED run \/ run' = [run EXCEPT ![p] = run[p] + 1]
    BY DEF process, Return
  <2>2. run' \in [Procs -> 1 .. MaxRuns]
    BY StepTypes DEF TypeOK
  <2> QED BY <1>1, <2>1, <2>2 DEF TypeOK
<1>5. /\ \A q \in Procs \ {p} : warned'[q] = warned[q]
      /\ warned[p] => warned'[p]
  BY DEF TypeOK, process
<1>6. /\ \A q \in Procs \ {p} : unanswered'[q] = unanswered[q]
      /\ unanswered[p] \subseteq unanswered'[p]
  BY DEF TypeOK, process
<1>7. ASSUME NEW q \in Procs \ {p}, attached'[q] # attached[q]
      PROVE  attached'[q] = None /\ Alive(p) /\ attached[q] = catalogue[Name(p)]
  BY <1>7 DEF TypeOK, server, ForceDrop, Terminate, PlainDrop, Detach, AttachedTo,
              CreateDatabase, Alive, Creating, Closing
<1>8. /\ \A n \in Names \ {Name(p)} : catalogue'[n] = catalogue[n]
      /\ catalogue' # catalogue => Alive(p)
  BY <1>1 DEF TypeOK, server, ForceDrop, Terminate, PlainDrop, CreateDatabase,
              Alive, Creating, Closing
<1>9. pc'[p] \in Locations
  BY StepTypes DEF TypeOK
<1> QED BY <1>2, <1>3, <1>4, <1>5, <1>6, <1>7, <1>8, <1>9 DEF Frame

\* The operating system gives a pid to one living process at a time.
LEMMA PidsStayApart ==
  ASSUME OneNamespace, TypeOK, PidsApart, NEW p \in Procs, Step(p)
  PROVE  PidsApart'
<1>1. Frame(p)
  BY StepFrame
<1>2. \A q \in Procs \ {p} : Alive(q)' <=> Alive(q)
  BY <1>1 DEF Frame, Alive
<1>3. CASE Start(p)
  <2>1. \A q \in Procs : Alive(q) => pid[q] # pid[p]
    BY <1>3 DEF OneNamespace, Start
  <2> QED BY <1>1, <1>2, <2>1 DEF PidsApart, Frame
<1>4. CASE ~Start(p)
  <2>1. Alive(p)' => Alive(p)
    BY <1>4, LocationsAre DEF Step, Reset, ResetDrop, Create, NewFails, Connect, WorkDone,
            WorkFails, SessionEnds, Close, CloseDrop, CloseFails,
            CloseWarns, Signal, Kill, Return, Goto, Alive, process, TypeOK,
            Creating, Working, Closing
  <2> QED BY <1>1, <1>2, <2>1 DEF PidsApart, Frame
<1> QED BY <1>3, <1>4

\* No step of one process reaches the database of another.
LEMMA OthersKeepTheirs ==
  ASSUME OneNamespace, IInv, NEW p \in Procs, Step(p),
         NEW q \in Procs \ {p}, Alive(q)
  PROVE  /\ Name(q)' = Name(q) /\ Own(q)' = Own(q)
         /\ catalogue'[Name(q)] = catalogue[Name(q)]
         /\ catalogue[Name(q)] = Own(q) => attached'[q] = attached[q] \/ attached[q] # Own(q)
<1>1. Frame(p) /\ Name(p) \in Names /\ Name(q) \in Names
  BY StepFrame, TypesOfNames DEF IInv
<1>2. Name(q)' = Name(q) /\ Own(q)' = Own(q)
  BY <1>1 DEF Frame, Name, Own
<1>3. Alive(p) => Name(p) # Name(q)
  BY DEF IInv, PidsApart, Name
<1>4. catalogue'[Name(q)] = catalogue[Name(q)]
  BY <1>1, <1>3 DEF Frame
<1>5. ASSUME catalogue[Name(q)] = Own(q), attached'[q] # attached[q], attached[q] = Own(q)
      PROVE  FALSE
  <2>1. Alive(p) /\ catalogue[Name(p)] = Own(q)
    BY <1>1, <1>5 DEF Frame
  <2>2. Name(p) = <<pid[q], run[q]>>
    BY <1>1, <2>1, TypesOfNames DEF IInv, Ledger, Own
  <2> QED BY <1>3, <2>1, <2>2 DEF Name
<1> QED BY <1>2, <1>4, <1>5

LEMMA HoldingKeeps ==
  ASSUME OneNamespace, IInv, NEW p \in Procs, Step(p)
  PROVE  HoldsItsDatabase'
<1> USE DEF Step, Start, Reset, ResetDrop, Create, NewFails, Connect, WorkDone,
            WorkFails, SessionEnds, Close, CloseDrop, CloseFails,
            CloseWarns, Signal, Kill
<1>1. Frame(p) /\ TypeOK /\ Name(p) \in Names
  BY StepFrame, TypesOfNames DEF IInv
<1>2. ASSUME NEW q \in Procs \ {p}, pc'[q] \in Working \union Closing
      PROVE  catalogue'[Name(q)'] = Own(q)'
  <2>1. pc[q] \in Working \union Closing /\ Alive(q)
    BY <1>1, <1>2 DEF Frame, Alive
  <2>2. catalogue[Name(q)] = Own(q)
    BY <2>1 DEF IInv, HoldsItsDatabase
  <2> QED BY <2>1, <2>2, OthersKeepTheirs
<1>3. ASSUME pc'[p] \in Working \union Closing
      PROVE  catalogue'[Name(p)'] = Own(p)'
  <2>1. CASE Create(p)
    BY <1>1, <2>1 DEF TypeOK, CreateDatabase, Name, Own, world
  <2>2. CASE ~Create(p)
    <3>1. /\ pc[p] \in Working \union Closing
          /\ UNCHANGED <<catalogue, run, pid>>
      BY <1>1, <1>3, <2>2 DEF TypeOK, Goto, Return, process, server, world, Working, Closing,
         Creating, Ended, Terminate
    <3>2. catalogue[Name(p)] = Own(p)
      BY <3>1 DEF IInv, HoldsItsDatabase
    <3> QED BY <3>1, <3>2 DEF Name, Own
  <2> QED BY <2>1, <2>2
<1> QED BY <1>2, <1>3 DEF HoldsItsDatabase

LEMMA SessionsKeep ==
  ASSUME OneNamespace, IInv, NEW p \in Procs, Step(p)
  PROVE  Sessions' /\ WorksOnItsOwn'
<1> USE DEF Step, Start, Reset, ResetDrop, Create, NewFails, Connect, WorkDone,
            WorkFails, SessionEnds, Close, CloseDrop, CloseFails,
            CloseWarns, Signal, Kill
<1>1. Frame(p) /\ TypeOK /\ Name(p) \in Names /\ Own(p) # None
  BY StepFrame, TypesOfNames DEF IInv
<1>2. ASSUME NEW q \in Procs \ {p}
      PROVE  /\ attached'[q] # None => attached'[q][1] = q
             /\ pc'[q] = "closeDrop" => attached'[q] # Own(q)'
             /\ pc'[q] \in {"load", "apply"} => attached'[q] = Own(q)'
  <2>1. attached'[q] \in {attached[q], None}
    BY <1>1 DEF Frame
  <2>2. Own(q)' = Own(q) /\ Own(q) # None /\ pc'[q] = pc[q]
    BY <1>1, TypesOfNames DEF Frame, Own
  <2>3. ASSUME pc[q] \in {"load", "apply"}
        PROVE  attached'[q] = Own(q)
    <3>1. pc[q] \in Working \union Closing /\ Alive(q)
      BY <2>3 DEF Alive, Working
    <3>2. catalogue[Name(q)] = Own(q) /\ attached[q] = Own(q)
      BY <2>3, <3>1 DEF IInv, HoldsItsDatabase, WorksOnItsOwn
    <3> QED BY <3>1, <3>2, OthersKeepTheirs
  <2> QED BY <2>1, <2>2, <2>3 DEF IInv, Sessions
<1>3. /\ attached'[p] # None => attached'[p][1] = p
      /\ pc'[p] \in {"load", "apply"} => attached'[p] = Own(p)'
  <2>1. CASE Connect(p)
    <3>1. catalogue[Name(p)] = Own(p)
      BY <2>1 DEF IInv, HoldsItsDatabase, Working
    <3> QED BY <1>1, <2>1, <3>1 DEF TypeOK, Own
  <2>2. CASE ~Connect(p)
    <3>1. attached'[p] \in {attached[p], None}
      BY <1>1, <2>2 DEF TypeOK, server, ForceDrop, Terminate, PlainDrop, Detach, CreateDatabase
    <3>2. pc'[p] \in {"load", "apply"} =>
            pc[p] \in {"load", "apply"} /\ attached'[p] = attached[p] /\ run'[p] = run[p]
      BY <1>1, <2>2 DEF TypeOK, server, process, Goto, Return
    <3> QED BY <3>1, <3>2 DEF IInv, Sessions, WorksOnItsOwn, Own
  <2> QED BY <2>1, <2>2
<1>4. pc'[p] = "closeDrop" => attached'[p] # Own(p)'
  <2>1. CASE Close(p)
    <3>1. catalogue[Name(p)] = Own(p)
      BY <2>1 DEF IInv, HoldsItsDatabase, Closing
    <3>2. Own(p)' = Own(p) \/ pc'[p] # "closeDrop"
      BY <1>1, <2>1 DEF TypeOK, Own, Goto, Return
    <3>3. ForceDrop(Name(p)) \/ Terminate(Name(p))
      BY <2>1
    <3>4. attached'[p] # Own(p)
      <4>1. attached' = [q \in Procs |-> IF q \in AttachedTo(Name(p)) THEN None ELSE attached[q]]
        BY <3>3 DEF ForceDrop, Terminate, Detach
      <4>2. attached[p] = Own(p) => p \in AttachedTo(Name(p))
        BY <1>1, <3>1 DEF AttachedTo
      <4> QED BY <1>1, <4>1, <4>2
    <3> QED BY <3>2, <3>4
  <2>2. CASE ~Close(p)
    <3>1. pc'[p] = "closeDrop" =>
            pc[p] = "closeDrop" /\ attached'[p] \in {attached[p], None} /\ run'[p] = run[p]
      BY <1>1, <2>2 DEF TypeOK, server, process, Goto, Return
    <3> QED BY <1>1, <3>1 DEF IInv, Sessions, Own
  <2> QED BY <2>1, <2>2
<1> QED BY <1>2, <1>3, <1>4 DEF Sessions, WorksOnItsOwn

\* At the second step of a teardown no session is left, so it is not refused.
LEMMA RefusalsNever ==
  ASSUME IInv, NEW p \in Procs, pc[p] = "closeDrop"
  PROVE  AttachedTo(Name(p)) = {}
<1>1. catalogue[Name(p)] = Own(p) /\ Own(p) # None
  BY TypesOfNames DEF IInv, HoldsItsDatabase, Closing
<1>2. ASSUME NEW q \in Procs, attached[q] = Own(p), attached[q] # None
      PROVE  FALSE
  <2>1. attached[q][1] = q
    BY <1>2 DEF IInv, Sessions
  <2>2. attached[q] = <<p, run[p]>>
    BY <1>2 DEF Own
  <2>3. q = p
    BY <2>1, <2>2
  <2> QED BY <1>2, <2>3 DEF IInv, Sessions
<1> QED BY <1>1, <1>2 DEF AttachedTo

LEMMA ResetClearKeeps ==
  ASSUME OneNamespace, IInv, NEW p \in Procs, Step(p)
  PROVE  ResetIsClear'
<1> USE DEF Step, Start, Reset, ResetDrop, Create, NewFails, Connect, WorkDone,
            WorkFails, SessionEnds, Close, CloseDrop, CloseFails,
            CloseWarns, Signal, Kill
<1>1. Frame(p) /\ TypeOK /\ Name(p) \in Names
  BY StepFrame, TypesOfNames DEF IInv
<1> SUFFICES ASSUME NEW q \in Procs, pc'[q] = "resetDrop", NEW r \in Procs,
                    attached'[r] # None, attached'[r] = catalogue'[Name(q)']
             PROVE  FALSE
  BY DEF ResetIsClear, AttachedTo
<1>2. CASE q = p
  <2>1. CASE Reset(p)
    <3>1. Terminate(Name(p)) /\ Name(p)' = Name(p)
      BY <1>1, <1>2, <2>1 DEF Goto, TypeOK, Name, world
    <3>2. attached' = [x \in Procs |-> IF x \in AttachedTo(Name(p)) THEN None ELSE attached[x]]
      BY <3>1 DEF Terminate, Detach
    <3>3. r \notin AttachedTo(Name(p)) /\ attached'[r] = attached[r]
      BY <3>2
    <3>4. attached[r] = catalogue[Name(p)]
      BY <1>2, <3>1, <3>3 DEF Terminate
    <3> QED BY <3>3, <3>4 DEF AttachedTo
  <2>2. CASE ~Reset(p)
    <3>1. /\ pc[p] = "resetDrop" /\ Name(p)' = Name(p) /\ catalogue' = catalogue
          /\ attached'[r] \in {attached[r], None}
      BY <1>1, <1>2, <2>2 DEF Goto, Return, TypeOK, Name, process, server, world
    <3> QED BY <1>2, <3>1 DEF IInv, ResetIsClear, AttachedTo
  <2> QED BY <2>1, <2>2
<1>3. CASE q # p
  <2>1. pc[q] = "resetDrop" /\ Alive(q)
    BY <1>1, <1>3 DEF Frame, Alive, Creating
  <2>2. Name(q)' = Name(q) /\ catalogue'[Name(q)] = catalogue[Name(q)]
    BY <1>3, <2>1, OthersKeepTheirs
  <2>3. attached[r] # None => attached[r] # catalogue[Name(q)]
    BY <2>1 DEF IInv, ResetIsClear, AttachedTo
  <2>4. r = p
    BY <1>1, <2>2, <2>3 DEF Frame
  <2>5. CASE Connect(p)
    <3>1. catalogue[Name(p)] = Own(p) /\ attached'[p] = Own(p) /\ Alive(p)
      BY <1>1, <2>5 DEF IInv, HoldsItsDatabase, TypeOK, Working, Alive
    <3>2. Name(q) = Name(p)
      <4>1. catalogue[Name(q)] = <<p, run[p]>>
        BY <2>2, <2>4, <3>1 DEF Own
      <4>2. Name(q) \in Names /\ run[p] \in 1 .. MaxRuns
        BY TypesOfNames DEF IInv
      <4>3. Name(q) = <<pid[p], run[p]>>
        BY <4>1, <4>2 DEF IInv, Ledger
      <4> QED BY <4>3 DEF Name
    <3> QED BY <1>3, <2>1, <3>1, <3>2 DEF IInv, PidsApart, Name
  <2>6. CASE ~Connect(p)
    <3>1. attached'[p] \in {attached[p], None}
      BY <1>1, <2>6 DEF TypeOK, server, ForceDrop, Terminate, PlainDrop, Detach, CreateDatabase
    <3> QED BY <2>2, <2>3, <2>4, <3>1
  <2> QED BY <2>5, <2>6
<1> QED BY <1>2, <1>3

LEMMA LedgerKeeps ==
  ASSUME OneNamespace, IInv, NEW p \in Procs, Step(p)
  PROVE  Ledger'
<1> USE DEF Step, Start, Reset, ResetDrop, Create, NewFails, Connect, WorkDone,
            WorkFails, SessionEnds, Close, CloseDrop, CloseFails,
            CloseWarns, Signal, Kill
<1>1. Frame(p) /\ TypeOK /\ Name(p) \in Names /\ Own(p) # None
  BY StepFrame, TypesOfNames DEF IInv
<1>2. TypeOK'
  BY <1>1, StepTypes
<1> SUFFICES ASSUME NEW n \in Names, NEW q \in Procs, NEW k \in 1 .. MaxRuns,
                    catalogue'[n] = <<q, k>>
             PROVE  /\ n = <<pid'[q], k>>
                    /\ pc'[q] # "off"
                    /\ k <= run'[q]
                    /\ Accounted(q, <<q, k>>)'
  BY DEF Ledger
<1>3. CASE catalogue'[n] = catalogue[n]
  <2>1. /\ n = <<pid[q], k>>
        /\ pc[q] # "off"
        /\ k <= run[q]
        /\ Accounted(q, <<q, k>>)
    BY <1>3 DEF IInv, Ledger
  <2>2. CASE q # p
    BY <1>1, <2>1, <2>2 DEF Frame, Accounted, Own
  <2>3. CASE q = p
    <3>1. pc'[p] # "off" /\ pid'[p] = pid[p] /\ run'[p] \in {run[p], run[p] + 1}
      BY <1>1, <2>1, <2>3 DEF Frame, TypeOK, Goto, Return, process
    <3>2. k <= run'[q]
      BY <1>1, <2>1, <2>3, <3>1 DEF TypeOK
    <3>3. CASE warned[p] \/ <<p, k>> \in unanswered[p]
      BY <1>1, <2>1, <2>3, <3>1, <3>2, <3>3 DEF Frame, Accounted
    <3>4. CASE pc[p] = "killed"
      <4>1. pc'[p] = "killed"
        BY <3>4 DEF process, Creating, Working, Closing, Alive
      <4> QED BY <2>1, <2>3, <3>1, <3>2, <4>1 DEF Accounted
    <3>5. CASE pc[p] \in Working \union Closing /\ <<p, k>> = Own(p)
      <4>1. n = Name(p)
        BY <2>1, <2>3, <3>5 DEF Name, Own
      <4>2. \/ pc'[p] \in Working \union Closing /\ run'[p] = run[p]
            \/ pc'[p] = "killed" \/ warned'[p] \/ catalogue'[n] = None
        BY <1>1, <3>5, <4>1 DEF TypeOK, Goto, Return, process, world, Working, Closing,
           Creating, ForceDrop, Terminate, PlainDrop
      <4>3. catalogue'[n] # None
        BY DEF None
      <4>4. Accounted(p, <<p, k>>)'
        BY <3>5, <4>2, <4>3 DEF Accounted, Own
      <4> QED BY <2>1, <2>3, <3>1, <3>2, <4>4
    <3> QED BY <2>1, <2>3, <3>3, <3>4, <3>5 DEF Accounted
  <2> QED BY <2>2, <2>3
<1>4. CASE catalogue'[n] # catalogue[n]
  <2>1. n = Name(p)
    BY <1>1, <1>4 DEF Frame
  <2>2. /\ catalogue'[n] = Own(p) /\ run'[p] = run[p] /\ pid' = pid
        /\ \/ pc'[p] = "connect"
           \/ Own(p) \in unanswered'[p] /\ pc'[p] = "exited"
           \/ pc'[p] = "killed"
    <3>1. catalogue'[n] # None
      BY DEF None
    <3>2. ~ForceDrop(Name(p)) /\ ~Terminate(Name(p)) /\ ~PlainDrop(Name(p))
      BY <1>1, <1>4, <2>1, <3>1 DEF TypeOK, ForceDrop, Terminate, PlainDrop
    <3>3. catalogue' # catalogue
      BY <1>4
    <3>4. Create(p) \/ (NewFails(p) /\ CreateDatabase(p)) \/ (Kill(p) /\ CreateDatabase(p))
      BY <3>2, <3>3 DEF server
    <3>5. catalogue'[n] = Own(p)
      BY <1>1, <2>1, <3>4 DEF TypeOK, CreateDatabase
    <3>6. CASE Create(p)
      BY <1>1, <3>5, <3>6 DEF TypeOK, world, Goto
    <3>7. CASE NewFails(p) /\ CreateDatabase(p)
      BY <1>1, <3>3, <3>5, <3>7 DEF TypeOK, server, world, Goto
    <3>8. CASE Kill(p)
      BY <1>1, <3>5, <3>8 DEF TypeOK, world, Goto
    <3> QED BY <3>4, <3>6, <3>7, <3>8
  <2>3. q = p /\ k = run[p]
    BY <2>2 DEF Own
  <2>4. k <= run[p]
    BY <1>1, <2>3 DEF TypeOK
  <2> QED BY <2>1, <2>2, <2>3, <2>4 DEF Accounted, Own, Name, Working
<1> QED BY <1>3, <1>4

LEMMA InitIInv == Init => IInv
<1> SUFFICES ASSUME Init PROVE IInv
  OBVIOUS
<1>1. TypeOK
  <2>1. 1 \in 1 .. MaxRuns /\ "off" \in Locations /\ 0 \in 0 .. 2
    BY RunsAssumption, LocationsAre
  <2> QED BY <2>1 DEF Init, TypeOK
<1>2. PidsApart /\ HoldsItsDatabase /\ WorksOnItsOwn /\ Sessions
  BY DEF Init, PidsApart, HoldsItsDatabase, WorksOnItsOwn, Sessions, Alive, None,
         Creating, Working, Closing
<1>3. Ledger /\ ResetIsClear
  BY DEF Init, Ledger, ResetIsClear, None
<1> QED BY <1>1, <1>2, <1>3 DEF IInv

LEMMA StutterIInv == IInv /\ UNCHANGED vars => IInv'
<1> SUFFICES ASSUME IInv, UNCHANGED vars PROVE IInv'
  OBVIOUS
<1> USE DEF vars, IInv
<1>1. TypeOK'
  BY DEF TypeOK
<1>2. PidsApart' /\ HoldsItsDatabase' /\ WorksOnItsOwn' /\ Sessions'
  BY DEF PidsApart, HoldsItsDatabase, WorksOnItsOwn, Sessions, Alive, Name, Own
<1>3. Ledger' /\ ResetIsClear'
  BY DEF Ledger, Accounted, Own, ResetIsClear, AttachedTo, Name
<1> QED BY <1>1, <1>2, <1>3

LEMMA NextIInv == OneNamespace /\ IInv /\ [Next]_vars => IInv'
<1> SUFFICES ASSUME OneNamespace, IInv, [Next]_vars PROVE IInv'
  OBVIOUS
<1>1. ASSUME NEW p \in Procs, Step(p)
      PROVE  IInv'
  <2>1. TypeOK' /\ PidsApart'
    BY <1>1, StepTypes, PidsStayApart DEF IInv
  <2>2. HoldsItsDatabase' /\ WorksOnItsOwn' /\ Sessions'
    BY <1>1, HoldingKeeps, SessionsKeep
  <2>3. Ledger' /\ ResetIsClear'
    BY <1>1, LedgerKeeps, ResetClearKeeps
  <2> QED BY <2>1, <2>2, <2>3 DEF IInv
<1>2. CASE UNCHANGED vars
  BY <1>2, StutterIInv
<1> QED BY <1>1, <1>2 DEF Next, AllEnded

\* The inductive invariant of processes that share a pid namespace.
THEOREM Invariance ==
  ASSUME OneNamespace
  PROVE  Spec => []IInv
<1>1. Init => IInv
  BY InitIInv
<1>2. IInv /\ [Next]_vars => IInv'
  BY NextIInv
<1> QED BY <1>1, <1>2, PTL DEF Spec

\* Every variable keeps its type.
THEOREM TypeCorrect == ASSUME OneNamespace PROVE Spec => []TypeOK
<1>1. IInv => TypeOK
  BY DEF IInv
<1>2. Spec => []IInv
  BY Invariance
<1> QED BY <1>1, <1>2, PTL

\* A run's name stands for the run's own database from its CREATE to the end of
\* its teardown, whatever other processes do, die or leave behind
\* (target.go:84-111, 198-203).
THEOREM RunsHoldTheirDatabase == ASSUME OneNamespace PROVE Spec => []HoldsItsDatabase
<1>1. IInv => HoldsItsDatabase
  BY DEF IInv
<1>2. Spec => []IInv
  BY Invariance
<1> QED BY <1>1, <1>2, PTL

\* Rows are loaded into, and the migration is applied to, the run's own database.
THEOREM RunsWorkOnTheirOwn == ASSUME OneNamespace PROVE Spec => []WorksOnItsOwn
<1>1. IInv => WorksOnItsOwn
  BY DEF IInv
<1>2. Spec => []IInv
  BY Invariance
<1> QED BY <1>1, <1>2, PTL

\* An orderly end accounts for every database the process is known to have made.
THEOREM OrphansAccounted == ASSUME OneNamespace PROVE Spec => []OrphansAreReported
<1>1. IInv => OrphansAreReported
  <2> SUFFICES ASSUME IInv, NEW p \in Procs, pc[p] = "exited",
                      NEW n \in Names, catalogue[n] # None, catalogue[n][1] = p
               PROVE  warned[p] \/ catalogue[n] \in unanswered[p]
    BY DEF OrphansAreReported
  <2>1. PICK k \in 1 .. MaxRuns : catalogue[n] = <<p, k>>
    BY DEF IInv, TypeOK, Incarnations
  <2>2. Accounted(p, <<p, k>>)
    BY <2>1 DEF IInv, Ledger
  <2> QED BY <2>1, <2>2 DEF Accounted, Working, Closing
<1>2. Spec => []IInv
  BY Invariance
<1> QED BY <1>1, <1>2, PTL

\* A plain DROP is never refused for a session that lingers, whether it is the
\* drop of a teardown or of a stale database (target.go:113-122).
THEOREM TeardownNeverRefused == ASSUME OneNamespace PROVE Spec => []DropIsNeverRefused
<1>1. IInv => DropIsNeverRefused
  BY RefusalsNever DEF IInv, ResetIsClear, DropIsNeverRefused
<1>2. Spec => []IInv
  BY Invariance
<1> QED BY <1>1, <1>2, PTL
=============================================================================
