-------------------------- MODULE AnalyzersProofs --------------------------
(***************************************************************************)
(* Proofs about Analyzers, for any fixtures, any families of statements    *)
(* and migrations of any length.                                           *)
(*                                                                         *)
(* The argument has two halves.  What an analyzer remembers follows what   *)
(* the server is in: while a transaction is open and no savepoint of it    *)
(* has been rolled back to, the depth is above zero (DepthFollows), and a  *)
(* constraint added NOT VALID in it since the last savepoint stands in     *)
(* notValidAdds under the epoch that is current (EpochFollows).  And what  *)
(* is reported of a statement stays reported (DataInv), so that whether    *)
(* the data it rests on was judged is a question about one statement, the  *)
(* fixture, and the foreign key a VALIDATE names.                          *)
(***************************************************************************)
EXTENDS Analyzers, FiniteSetTheorems, TLAPS

\* A statement adds at most one named constraint: parseAddConstraint reads the first.
OneConstraint ==
  \A F \in Families : \A s \in F : \A i, j \in AddConstraint(s) : i = j

\* What the proofs need of the type of the state.
Shape ==
  /\ family \in Families /\ script \in Seq(family)
  /\ depth \in Nat /\ epoch \in Nat /\ tx \in Nat /\ rewinds \in Nat
  /\ open \in BOOLEAN
  /\ \A x \in truth : x.at \in DOMAIN script

\* rsTx knows that a transaction is open.
DepthFollows == open /\ rewinds = 0 => depth > 0

TxInv == Shape /\ DepthFollows /\ RefusalIsAnError

\* The transactions of the constraints are those begun so far.
MadeBefore ==
  /\ open => tx >= 1
  /\ \A x \in made : x.tx \in 0 .. tx /\ (x.tx = tx => x.rewinds \in 0 .. rewinds)

\* rsConstraint knows the constraints of the open transaction.
EpochFollows ==
  \A x \in made :
    open /\ x.tx = tx /\ x.rewinds = rewinds =>
      \E y \in adds : y.name = x.name /\ y.epoch = epoch

ConstraintInv == Shape /\ MadeBefore /\ EpochFollows /\ SameTransactionIsReported
-----------------------------------------------------------------------------
\* What is true of a statement stays true when others are read after it.
LEMMA Appended ==
  ASSUME Shape, NEW s \in family, NEW new \in BOOLEAN, Read(s, new)
  PROVE  /\ script' \in Seq(family)
         /\ Len(script) + 1 \in DOMAIN script'
         /\ script'[Len(script) + 1] = s
         /\ \A n \in DOMAIN script : n \in DOMAIN script' /\ script'[n] = script[n]
BY DEF Shape, Read

\* Whether a transaction is open after a statement, which one, and its savepoints.
Ends == {"COMMIT", "ROLLBACK", "ABORT"}

LEMMA Served ==
  ASSUME Shape, NEW s \in family, NEW new \in BOOLEAN, Read(s, new)
  PROVE  /\ s.is = "BEGIN" => open' = TRUE
         /\ s.is \in Ends => open' = FALSE
         /\ s.is \notin Ends \union {"BEGIN"} => open' = (open /\ ~new)
         /\ tx' = IF s.is = "BEGIN" /\ ~(open /\ ~new) THEN tx + 1 ELSE tx
         /\ rewinds' = IF s.is = "BEGIN" /\ ~(open /\ ~new) THEN 0
                       ELSE IF s.is = "ROLLBACK TO" THEN rewinds + 1 ELSE rewinds
<1>1. open' = CASE s.is = "BEGIN" -> TRUE
                [] s.is \in Ends -> FALSE
                [] OTHER -> (open /\ ~new)
  BY Zenon DEF Read, Serve, Ends
<1>2. /\ tx' = IF s.is = "BEGIN" /\ ~(open /\ ~new) THEN tx + 1 ELSE tx
      /\ rewinds' = IF s.is = "BEGIN" /\ ~(open /\ ~new) THEN 0
                    ELSE IF s.is = "ROLLBACK TO" THEN rewinds + 1 ELSE rewinds
  BY Zenon DEF Read, Serve
<1>3. s.is = "BEGIN" => s.is \notin Ends
  BY DEF Ends
<1> QED  BY <1>1, <1>2, <1>3

\* What the server refuses, and the constraints it validates in the transaction that made
\* them, are all that a statement adds to the truth.
LEMMA Learned ==
  ASSUME NEW s \in family, NEW new \in BOOLEAN, Read(s, new),
         NEW x \in truth', x \notin truth
  PROVE  \/ /\ x = [at |-> Len(script) + 1, is |-> "refused", rewound |-> rewinds > 0]
            /\ open /\ ~new /\ Refuses(s)
         \/ \E y \in made :
              /\ x = [at |-> Len(script) + 1, is |-> "same transaction",
                      rewound |-> y.rewinds # rewinds]
              /\ open /\ ~new /\ y.tx = tx
              /\ Says(s, "VALIDATE CONSTRAINT") /\ y.name = First(s, "VALIDATE CONSTRAINT").name
BY Zenon DEF Read, Serve

\* Findings are never taken back.
LEMMA FindingsGrow ==
  ASSUME Next
  PROVE  findings \subseteq findings'
<1>1. ASSUME NEW s \in family, NEW new \in BOOLEAN, Read(s, new)
      PROVE  findings \subseteq findings'
  BY <1>1 DEF Read, Analyze
<1>2. Return => findings \subseteq findings'
  BY DEF Return
<1>3. Ended => findings \subseteq findings'
  BY DEF Ended, vars
<1> QED  BY <1>1, <1>2, <1>3 DEF Next

LEMMA ShapeInit ==
  ASSUME Init
  PROVE  Shape
<1>1. script = <<>> /\ family \in Families
  BY DEF Init
<1>2. script \in Seq(family)
  BY <1>1
<1>3. /\ depth \in Nat /\ epoch \in Nat /\ tx \in Nat /\ rewinds \in Nat
      /\ open \in BOOLEAN /\ truth = {}
  BY DEF Init
<1> QED  BY <1>1, <1>2, <1>3 DEF Shape

LEMMA ShapeStep ==
  ASSUME Shape, [Next]_vars
  PROVE  Shape'
<1>1. CASE UNCHANGED vars
  BY <1>1 DEF Shape, vars
<1>2. ASSUME NEW s \in family, NEW new \in BOOLEAN, Read(s, new)
      PROVE  Shape'
  <2>1. family' \in Families /\ script' \in Seq(family')
    BY <1>2, Appended DEF Shape, Read
  <2>2. depth' \in Nat
    <3>1. depth' = Deeper(s)
      BY <1>2 DEF Read, Analyze
    <3>2. Deeper(s) \in {depth + 1, depth} \/ (depth > 0 /\ Deeper(s) = depth - 1)
      BY DEF Deeper
    <3> QED  BY <3>1, <3>2 DEF Shape
  <2>3. epoch' \in Nat
    <3>1. epoch' \in {Epoch(s, new), Epoch(s, new) + 1}
      BY <1>2 DEF Read, Analyze
    <3>2. Epoch(s, new) \in {epoch, epoch + 1}
      BY DEF Epoch
    <3> QED  BY <3>1, <3>2 DEF Shape
  <2>4. tx' \in Nat /\ rewinds' \in Nat /\ open' \in BOOLEAN
    <3>1. tx' \in {tx, tx + 1} /\ rewinds' \in {0, rewinds, rewinds + 1}
      BY <1>2, Served
    <3>2. open' \in BOOLEAN
      BY <1>2, Served DEF Ends
    <3> QED  BY <3>1, <3>2 DEF Shape
  <2>5. \A x \in truth' : x.at \in DOMAIN script'
    <3>1. SUFFICES ASSUME NEW x \in truth' PROVE x.at \in DOMAIN script'
      OBVIOUS
    <3>2. x \in truth \/ x.at = Len(script) + 1
      <4>1. SUFFICES ASSUME x \notin truth PROVE x.at = Len(script) + 1
        OBVIOUS
      <4>2. \E b, kind : x = [at |-> Len(script) + 1, is |-> kind, rewound |-> b]
        BY <1>2, <4>1, Learned
      <4> QED  BY <4>2
    <3> QED  BY <1>2, <3>2, Appended DEF Shape
  <2> QED  BY <2>1, <2>2, <2>3, <2>4, <2>5 DEF Shape
<1>3. CASE Return
  BY <1>3 DEF Return, Shape, server
<1>4. CASE Ended
  BY <1>4 DEF Ended, Shape, vars
<1> QED  BY <1>1, <1>2, <1>3, <1>4 DEF Next
-----------------------------------------------------------------------------
(* rsTx *)

\* What the server refuses in a transaction is on rsTx's list, or Unlisted.
LEMMA ListCovers ==
  ASSUME NEW s, Refuses(s), ~Unlisted(s)
  PROVE  NonTransactional(s)
BY DEF Refuses, NonTransactional, Unlisted

LEMMA DepthStep ==
  ASSUME TxInv, [Next]_vars
  PROVE  DepthFollows'
<1>1. CASE UNCHANGED vars
  BY <1>1 DEF TxInv, DepthFollows, vars
<1>2. ASSUME NEW s \in family, NEW new \in BOOLEAN, Read(s, new)
      PROVE  DepthFollows'
  <2>1. SUFFICES ASSUME open', rewinds' = 0 PROVE depth' > 0
    BY DEF DepthFollows
  <2>2. depth \in Nat /\ rewinds \in Nat
    BY DEF TxInv, Shape
  <2>3. depth' = Deeper(s)
    BY <1>2 DEF Read, Analyze
  <2>4. CASE s.is = "BEGIN"
    BY <2>2, <2>3, <2>4 DEF Deeper
  <2>5. CASE s.is # "BEGIN"
    <3>1. open /\ ~new /\ s.is \notin Ends
      BY <1>2, <2>1, <2>5, Served DEF TxInv, Ends
    <3>2. s.is # "ROLLBACK TO" /\ rewinds = 0
      <4>1. rewinds' = IF s.is = "ROLLBACK TO" THEN rewinds + 1 ELSE rewinds
        BY <1>2, <2>5, Served DEF TxInv
      <4>2. rewinds' = 0
        BY <2>1
      <4>3. rewinds + 1 # 0
        BY <2>2
      <4> QED  BY <4>1, <4>2, <4>3
    <3>3. depth > 0
      BY <3>1, <3>2 DEF TxInv, DepthFollows
    <3> QED  BY <2>3, <2>5, <3>1, <3>2, <3>3 DEF Deeper, IsTxEnd, Ends
  <2> QED  BY <2>4, <2>5
<1>3. CASE Return
  BY <1>3 DEF Return, TxInv, DepthFollows, server
<1>4. CASE Ended
  BY <1>4 DEF Ended, TxInv, DepthFollows, vars
<1> QED  BY <1>1, <1>2, <1>3, <1>4 DEF Next

LEMMA RefusalStep ==
  ASSUME TxInv, [Next]_vars
  PROVE  RefusalIsAnError'
<1>1. CASE UNCHANGED vars
  BY <1>1 DEF TxInv, RefusalIsAnError, vars
<1>2. ASSUME NEW s \in family, NEW new \in BOOLEAN, Read(s, new)
      PROVE  RefusalIsAnError'
  <2> DEFINE n == Len(script) + 1
  <2>1. SUFFICES ASSUME NEW x \in truth', x.is = "refused", ~x.rewound, ~Unlisted(script'[x.at])
                 PROVE  \E y \in findings' : /\ y.at = x.at /\ y.what.code = "RS-TX-001"
                                             /\ y.what.severity = "error"
    BY DEF RefusalIsAnError
  <2>2. Shape
    BY DEF TxInv
  <2>3. CASE x \in truth
    <3>1. script'[x.at] = script[x.at]
      BY <1>2, <2>2, <2>3, Appended DEF Shape
    <3>2. PICK y \in findings : /\ y.at = x.at /\ y.what.code = "RS-TX-001"
                                /\ y.what.severity = "error"
      BY <2>1, <2>3, <3>1 DEF TxInv, RefusalIsAnError
    <3> QED  BY <1>2, <3>2 DEF Read, Analyze
  <2>4. CASE x \notin truth
    <3>1. x = [at |-> n, is |-> "refused", rewound |-> rewinds > 0] /\ open /\ Refuses(s)
      <4>1. ASSUME NEW y,
                   x = [at |-> n, is |-> "same transaction", rewound |-> y.rewinds # rewinds]
            PROVE  FALSE
        BY <2>1, <4>1
      <4> QED  BY <1>2, <2>4, <4>1, Learned
    <3>2. depth > 0
      <4>1. rewinds \in Nat /\ ~(rewinds > 0)
        BY <2>1, <2>2, <3>1 DEF Shape
      <4> QED  BY <3>1, <4>1 DEF TxInv, DepthFollows
    <3>3. NonTransactional(s)
      <4>1. script'[n] = s
        BY <1>2, <2>2, Appended
      <4> QED  BY <2>1, <3>1, <4>1, ListCovers
    <3>4. RsTx(s) = {Finding("RS-TX-001", "error", {})}
      BY <3>2, <3>3 DEF RsTx
    <3>5. [at |-> n, what |-> Finding("RS-TX-001", "error", {})] \in findings'
      BY <1>2, <3>4 DEF Read, Analyze, At
    <3> QED  BY <3>1, <3>5 DEF Finding
  <2> QED  BY <2>3, <2>4
<1>3. CASE Return
  BY <1>3, FindingsGrow DEF Return, TxInv, RefusalIsAnError, server
<1>4. CASE Ended
  BY <1>4 DEF Ended, TxInv, RefusalIsAnError, vars
<1> QED  BY <1>1, <1>2, <1>3, <1>4 DEF Next

\* A statement the server refuses in a transaction is an error, for every migration.
THEOREM RefusalsAreErrors == Spec => []RefusalIsAnError
<1>1. Init => TxInv
  BY ShapeInit DEF Init, TxInv, DepthFollows, RefusalIsAnError
<1>2. TxInv /\ [Next]_vars => TxInv'
  BY ShapeStep, DepthStep, RefusalStep DEF TxInv
<1>3. TxInv => RefusalIsAnError
  BY DEF TxInv
<1> QED  BY <1>1, <1>2, <1>3, PTL DEF Spec
-----------------------------------------------------------------------------
(* rsConstraint *)

\* Only ALTER TABLE makes constraints, in the transaction it runs in.
LEMMA Made ==
  ASSUME NEW s \in family, NEW new \in BOOLEAN, Read(s, new),
         NEW x \in made', x \notin made
  PROVE  /\ s.is = "ALTER TABLE"
         /\ \E i \in AddConstraint(s) :
              /\ Clauses(s)[i].notValid
              /\ x = [name |-> Clauses(s)[i].name, on |-> s.on,
                      tx |-> IF open /\ ~new THEN tx ELSE 0, rewinds |-> rewinds]
<1>1. PICK i \in AddConstraint(s) :
        /\ Clauses(s)[i].notValid
        /\ x = [name |-> Clauses(s)[i].name, on |-> s.on,
                tx |-> IF open /\ ~new THEN tx ELSE 0, rewinds |-> rewinds]
  BY Zenon DEF Read, Serve
<1>2. s.is = "ALTER TABLE"
  <2>1. DOMAIN Clauses(s) # {}
    BY <1>1 DEF AddConstraint, Places
  <2>2. Clauses(s) # <<>>
    BY <2>1
  <2> QED  BY <2>2 DEF Clauses
<1> QED  BY <1>1, <1>2

\* An entry of the map is replaced only by one of its name.
LEMMA PutKeeps ==
  ASSUME NEW map, NEW entries, NEW x \in map
  PROVE  \E y \in Put(map, entries) : y.name = x.name /\ (y = x \/ y \in entries)
BY DEF Put

\* The constraint a statement adds NOT VALID is remembered in the epoch it runs in.
LEMMA Remembers ==
  ASSUME OneConstraint, family \in Families, NEW s \in family, NEW e,
         NEW i \in AddConstraint(s), Clauses(s)[i].notValid
  PROVE  \E y \in Adding(s, e) : y.name = Clauses(s)[i].name /\ y.epoch = e
<1>1. \A j \in AddConstraint(s) : j = i
  BY DEF OneConstraint
<1>2. NotValid(s)
  BY DEF NotValid, AddConstraint
<1>3. FirstOf(s, AddConstraint(s)) = Clauses(s)[i]
  <2>1. i \in Nat
    BY ClausesAssumption DEF AddConstraint, Places
  <2>2. (CHOOSE k \in AddConstraint(s) : \A j \in AddConstraint(s) : k <= j) = i
    <3> DEFINE k == CHOOSE k \in AddConstraint(s) : \A j \in AddConstraint(s) : k <= j
    <3>1. i <= i
      BY <2>1
    <3>2. \E k2 \in AddConstraint(s) : \A j \in AddConstraint(s) : k2 <= j
      BY <1>1, <3>1
    <3>3. k \in AddConstraint(s)
      BY Zenon, <3>2
    <3> QED  BY <1>1, <3>3
  <2> QED  BY <2>2 DEF FirstOf, Earliest
<1>4. Adding(s, e) = {[name |-> Clauses(s)[i].name, table |-> Target(s), epoch |-> e]}
  BY <1>2, <1>3 DEF Adding
<1> QED  BY <1>4

LEMMA MadeStep ==
  ASSUME ConstraintInv, [Next]_vars
  PROVE  MadeBefore'
<1> USE DEF ConstraintInv
<1>1. CASE UNCHANGED vars
  BY <1>1 DEF MadeBefore, vars
<1>2. ASSUME NEW s \in family, NEW new \in BOOLEAN, Read(s, new)
      PROVE  MadeBefore'
  <2>1. tx \in Nat /\ rewinds \in Nat /\ open \in BOOLEAN
    BY DEF Shape
  <2>2. open' => tx' >= 1
    <3>1. CASE s.is = "BEGIN"
      <4>1. tx' = IF open /\ ~new THEN tx ELSE tx + 1
        BY <1>2, <3>1, Served
      <4>2. open => tx >= 1
        BY DEF MadeBefore
      <4> QED  BY <2>1, <4>1, <4>2
    <3>2. CASE s.is # "BEGIN"
      BY <1>2, <2>1, <3>2, Served DEF MadeBefore, Ends
    <3> QED  BY <3>1, <3>2
  <2>3. ASSUME NEW x \in made'
        PROVE  x.tx \in 0 .. tx' /\ (x.tx = tx' => x.rewinds \in 0 .. rewinds')
    <3>1. CASE x \in made
      <4>1. x.tx \in 0 .. tx /\ (x.tx = tx => x.rewinds \in 0 .. rewinds)
        BY <3>1 DEF MadeBefore
      <4>2. tx' = tx + 1 \/ (tx' = tx /\ rewinds' \in {rewinds, rewinds + 1})
        BY <1>2, Served
      <4>3. CASE tx' = tx + 1
        BY <2>1, <4>1, <4>3
      <4>4. CASE tx' = tx /\ rewinds' \in {rewinds, rewinds + 1}
        BY <2>1, <4>1, <4>4
      <4> QED  BY <4>2, <4>3, <4>4
    <3>2. CASE x \notin made
      <4>1. s.is = "ALTER TABLE" /\ x.tx \in {0, tx} /\ x.rewinds = rewinds
        <5>1. s.is = "ALTER TABLE"
          BY <1>2, <2>3, <3>2, Made
        <5>2. PICK i \in AddConstraint(s) :
                /\ Clauses(s)[i].notValid
                /\ x = [name |-> Clauses(s)[i].name, on |-> s.on,
                        tx |-> IF open /\ ~new THEN tx ELSE 0, rewinds |-> rewinds]
          BY <1>2, <2>3, <3>2, Made
        <5> QED  BY <5>1, <5>2
      <4>2. tx' = tx /\ rewinds' = rewinds
        BY <1>2, <4>1, Served DEF Ends
      <4>3. {0, tx} \subseteq 0 .. tx /\ rewinds \in 0 .. rewinds
        BY <2>1
      <4> QED  BY <4>1, <4>2, <4>3
    <3> QED  BY <3>1, <3>2
  <2> QED  BY <2>2, <2>3 DEF MadeBefore
<1>3. CASE Return
  BY <1>3 DEF Return, MadeBefore, server
<1>4. CASE Ended
  BY <1>4 DEF Ended, MadeBefore, vars
<1> QED  BY <1>1, <1>2, <1>3, <1>4 DEF Next

LEMMA EpochStep ==
  ASSUME OneConstraint, ConstraintInv, [Next]_vars
  PROVE  EpochFollows'
<1> USE DEF ConstraintInv
<1>1. CASE UNCHANGED vars
  BY <1>1 DEF EpochFollows, vars
<1>2. ASSUME NEW s \in family, NEW new \in BOOLEAN, Read(s, new)
      PROVE  EpochFollows'
  <2>1. SUFFICES ASSUME NEW x \in made', open', x.tx = tx', x.rewinds = rewinds'
                 PROVE  \E y \in adds' : y.name = x.name /\ y.epoch = epoch'
    BY DEF EpochFollows
  <2>2. tx \in Nat /\ rewinds \in Nat /\ open \in BOOLEAN /\ family \in Families
    BY DEF Shape
  <2>3. ASSUME open, ~new, s.is \notin Ends \union {"ROLLBACK TO"}
        PROVE  epoch' = epoch /\ adds' = Put(adds, Adding(s, epoch))
    <3>1. ~IsTxEnd(s) /\ Epoch(s, new) = epoch
      BY <2>3 DEF IsTxEnd, Ends, Epoch
    <3>2. epoch' = IF IsTxEnd(s) THEN Epoch(s, new) + 1 ELSE Epoch(s, new)
      BY <1>2 DEF Read, Analyze
    <3>3. adds' = Put(adds, Adding(s, Epoch(s, new)))
      BY <1>2 DEF Read, Analyze
    <3> QED  BY <3>1, <3>2, <3>3
  <2>4. CASE x \in made
    <3>1. x.tx \in 0 .. tx /\ (x.tx = tx => x.rewinds \in 0 .. rewinds)
      BY <2>4 DEF MadeBefore
    <3>2. tx' # tx + 1
      BY <2>1, <2>2, <3>1
    <3>3. open /\ ~new
      BY <1>2, <2>1, <2>2, <3>2, Served DEF Ends
    <3>4. tx' = tx
      BY <1>2, <3>3, Served
    <3>5. s.is \notin Ends \union {"ROLLBACK TO"} /\ rewinds' = rewinds
      <4>1. s.is \notin Ends
        BY <1>2, <2>1, Served
      <4>2. rewinds' = IF s.is = "ROLLBACK TO" THEN rewinds + 1 ELSE rewinds
        BY <1>2, <3>3, Served
      <4>3. rewinds' # rewinds + 1
        BY <2>1, <2>2, <3>1, <3>4
      <4> QED  BY <4>1, <4>2, <4>3
    <3>6. PICK y \in adds : y.name = x.name /\ y.epoch = epoch
      BY <2>1, <2>4, <3>3, <3>4, <3>5 DEF EpochFollows
    <3>7. PICK z \in Put(adds, Adding(s, epoch)) :
            z.name = y.name /\ (z = y \/ z \in Adding(s, epoch))
      BY PutKeeps
    <3>8. z.epoch = epoch
      BY <3>6, <3>7 DEF Adding
    <3> QED  BY <2>3, <3>3, <3>5, <3>6, <3>7, <3>8
  <2>5. CASE x \notin made
    <3>1. PICK i \in AddConstraint(s) : Clauses(s)[i].notValid /\ x.name = Clauses(s)[i].name
      <4>1. PICK i \in AddConstraint(s) :
              /\ Clauses(s)[i].notValid
              /\ x = [name |-> Clauses(s)[i].name, on |-> s.on,
                      tx |-> IF open /\ ~new THEN tx ELSE 0, rewinds |-> rewinds]
        BY <1>2, <2>1, <2>5, Made
      <4> QED  BY <4>1
    <3>2. s.is = "ALTER TABLE"
      BY <1>2, <2>1, <2>5, Made
    <3>3. open /\ ~new
      BY <1>2, <2>1, <2>2, <3>2, Served DEF Ends
    <3>4. PICK y \in Adding(s, epoch) : y.name = Clauses(s)[i].name /\ y.epoch = epoch
      BY <2>2, <3>1, Remembers
    <3>5. y \in Put(adds, Adding(s, epoch))
      BY DEF Put
    <3> QED  BY <2>3, <3>1, <3>2, <3>3, <3>4, <3>5 DEF Ends
  <2> QED  BY <2>4, <2>5
<1>3. CASE Return
  BY <1>3 DEF Return, EpochFollows, server
<1>4. CASE Ended
  BY <1>4 DEF Ended, EpochFollows, vars
<1> QED  BY <1>1, <1>2, <1>3, <1>4 DEF Next

LEMMA SameTransactionStep ==
  ASSUME ConstraintInv, [Next]_vars
  PROVE  SameTransactionIsReported'
<1> USE DEF ConstraintInv
<1>1. CASE UNCHANGED vars
  BY <1>1 DEF SameTransactionIsReported, vars
<1>2. ASSUME NEW s \in family, NEW new \in BOOLEAN, Read(s, new)
      PROVE  SameTransactionIsReported'
  <2> DEFINE n == Len(script) + 1
  <2>1. SUFFICES ASSUME NEW x \in truth', x.is = "same transaction", ~x.rewound
                 PROVE  \E y \in findings' : y.at = x.at /\ y.what.code = "RS-CONSTRAINT-001"
    BY DEF SameTransactionIsReported
  <2>2. CASE x \in truth
    <3>1. PICK y \in findings : y.at = x.at /\ y.what.code = "RS-CONSTRAINT-001"
      BY <2>1, <2>2 DEF SameTransactionIsReported
    <3>2. findings \subseteq findings'
      BY FindingsGrow, <1>2 DEF Next
    <3> QED  BY <3>1, <3>2
  <2>3. CASE x \notin truth
    <3>1. ASSUME x = [at |-> n, is |-> "refused", rewound |-> rewinds > 0]
          PROVE  FALSE
      BY <2>1, <3>1
    <3>2. PICK c \in made :
            /\ x = [at |-> n, is |-> "same transaction", rewound |-> c.rewinds # rewinds]
            /\ open /\ ~new /\ c.tx = tx
            /\ Says(s, "VALIDATE CONSTRAINT") /\ c.name = First(s, "VALIDATE CONSTRAINT").name
      BY <1>2, <2>3, <3>1, Learned
    <3>3. c.rewinds = rewinds /\ x.at = n
      BY <2>1, <3>2
    <3>4. PICK y \in adds : y.name = c.name /\ y.epoch = epoch
      BY <3>2, <3>3 DEF EpochFollows
    <3>5. PICK z \in Put(adds, Adding(s, epoch)) :
            z.name = y.name /\ (z = y \/ z \in Adding(s, epoch))
      BY PutKeeps
    <3>6. z.epoch = epoch
      BY <3>4, <3>5 DEF Adding
    <3>7. Finding("RS-CONSTRAINT-001", "warn", Rows(z.table)) \in RsConstraint(s, epoch)
      BY <3>2, <3>4, <3>5, <3>6 DEF RsConstraint
    <3>8. [at |-> n, what |-> Finding("RS-CONSTRAINT-001", "warn", Rows(z.table))] \in findings'
      <4>1. findings' = findings \union
                          At(n, RsTx(s) \union RsConstraint(s, Epoch(s, new)) \union Alone(s))
        BY <1>2 DEF Read, Analyze
      <4>2. Epoch(s, new) = epoch
        BY <3>2 DEF Epoch
      <4> QED  BY <3>7, <4>1, <4>2 DEF At
    <3> QED  BY <3>3, <3>8 DEF Finding
  <2> QED  BY <2>2, <2>3
<1>3. CASE Return
  BY <1>3, FindingsGrow DEF Return, SameTransactionIsReported, server
<1>4. CASE Ended
  BY <1>4 DEF Ended, SameTransactionIsReported, vars
<1> QED  BY <1>1, <1>2, <1>3, <1>4 DEF Next

\* A constraint validated in the transaction that added it NOT VALID is reported, for
\* every migration whose statements add one constraint each.
THEOREM SameTransactionsAreReported ==
  ASSUME OneConstraint
  PROVE  Spec => []SameTransactionIsReported
<1>1. Init => ConstraintInv
  BY ShapeInit DEF Init, ConstraintInv, MadeBefore, EpochFollows, SameTransactionIsReported
<1>2. ConstraintInv /\ [Next]_vars => ConstraintInv'
  BY ShapeStep, MadeStep, EpochStep, SameTransactionStep DEF ConstraintInv
<1>3. ConstraintInv => SameTransactionIsReported
  BY DEF ConstraintInv
<1> QED  BY <1>1, <1>2, <1>3, PTL DEF Spec
(* The type of the state *)

Graded(found) == \A x \in found : x.severity \in Levels

LEMMA GradedUnions ==
  ASSUME NEW A, NEW B, Graded(A), Graded(B)
  PROVE  Graded(A \union B)
BY DEF Graded

\* A finding is graded as it is made.
LEMMA GradedFinding ==
  ASSUME NEW code, NEW severity \in Levels, NEW deps
  PROVE  Finding(code, severity, deps).severity \in Levels
BY DEF Finding

LEMMA GradedOwn ==
  ASSUME NEW s
  PROVE  /\ Graded(RsTx(s)) /\ Graded(RsLock(s)) /\ Graded(RsPerf(s))
         /\ Graded(RsBackfill(s)) /\ Graded(RsReverse(s)) /\ Graded(RsDeploy(s))
         /\ Graded(RsExclusive(s)) /\ Graded(RsSequence)
<1> USE GradedFinding DEF Graded, Levels
<1>1. Graded(RsTx(s))
  BY DEF RsTx
<1>2. Graded(RsLock(s))
  BY DEF RsLock
<1>3. Graded(RsPerf(s))
  BY DEF RsPerf
<1>4. Graded(RsBackfill(s))
  BY DEF RsBackfill
<1>5. Graded(RsReverse(s))
  BY DEF RsReverse
<1>6. Graded(RsDeploy(s))
  BY DEF RsDeploy
<1>7. Graded(RsExclusive(s))
  BY DEF RsExclusive
<1>8. Graded(RsSequence)
  BY DEF RsSequence
<1> QED  BY <1>1, <1>2, <1>3, <1>4, <1>5, <1>6, <1>7, <1>8

LEMMA GradedUnique ==
  ASSUME NEW code, NEW t, NEW cols
  PROVE  Graded(UniqueFinding(code, t, cols))
BY GradedFinding DEF UniqueFinding, Graded, Levels

LEMMA GradedIndex ==
  ASSUME NEW s
  PROVE  Graded(RsIndex(s))
<1> USE GradedFinding DEF Levels
<1>1. Graded(IndexUnique(s))
  BY GradedUnique DEF IndexUnique, Graded
<1> QED  BY <1>1 DEF RsIndex, Graded

LEMMA GradedConstraint ==
  ASSUME NEW s, NEW e
  PROVE  Graded(RsConstraint(s, e))
<1> USE GradedFinding DEF Levels
<1>1. ASSUME NEW t, NEW check PROVE Graded(CheckConflict(t, check))
  BY DEF CheckConflict, Graded
<1> QED  BY <1>1 DEF RsConstraint, Graded

LEMMA GradedData ==
  ASSUME NEW s
  PROVE  Graded(RsData(s))
<1> USE GradedFinding DEF Levels
<1>1. ASSUME NEW code, NEW recorded, NEW dep PROVE Graded(Fraction(code, recorded, dep))
  BY DEF Fraction, Graded
<1>2. ASSUME NEW t, NEW col PROVE Graded(NotNull(t, col)) /\ Graded(Orphaned(t, col))
  BY <1>1 DEF NotNull, Orphaned
<1>3. ASSUME NEW S PROVE Graded(UNION {Orphaned(x.table, x.col) : x \in S})
  BY <1>2 DEF Graded
<1> QED
  <2> DEFINE a == IF Says(s, "UNIQUE") THEN UniqueFinding("RS-DATA-014", Target(s), First(s, "UNIQUE").cols) ELSE {}
             b == IF Says(s, "SET NOT NULL") THEN NotNull(Target(s), First(s, "SET NOT NULL").col) ELSE {}
             c == IF NotValid(s) THEN {} ELSE UNION {Orphaned(x.table, x.col) : x \in Referencing(s)}
             d == IF ~Says(s, "VALIDATE CONSTRAINT") THEN {}
                  ELSE UNION {Orphaned(x.table, x.col) :
                         x \in {x \in Put(fkCols, Referencing(s)) :
                                  x.name = First(s, "VALIDATE CONSTRAINT").name}}
  <2>1. Graded(a)
    BY GradedUnique DEF Graded
  <2>2. Graded(b)
    BY <1>2 DEF Graded
  <2>3. Graded(c)
    <3>1. Graded({})
      BY DEF Graded
    <3> QED  BY <1>3, <3>1
  <2>4. Graded(d)
    <3>1. Graded({})
      BY DEF Graded
    <3> HIDE DEF d
    <3>2. Graded(UNION {Orphaned(x.table, x.col) :
                         x \in {x \in Put(fkCols, Referencing(s)) :
                                  x.name = First(s, "VALIDATE CONSTRAINT").name}})
      BY <1>3
    <3> QED  BY <3>1, <3>2 DEF d
  <2>5. RsData(s) = UNION {a, b, c, d}
    BY DEF RsData
  <2> HIDE DEF a, b, c, d
  <2> QED  BY <2>1, <2>2, <2>3, <2>4, <2>5 DEF Graded

LEMMA GradedAll ==
  ASSUME NEW s, NEW e
  PROVE  Graded(RsTx(s) \union RsConstraint(s, e) \union Alone(s))
<1>1. Alone(s) = UNION {RsData(s), RsLock(s), RsIndex(s), RsExclusive(s), RsPerf(s),
                        RsBackfill(s), RsReverse(s), RsDeploy(s)}
  BY DEF Alone
<1>2. Graded(Alone(s))
  BY <1>1, GradedOwn, GradedIndex, GradedData DEF Graded
<1>3. Graded(RsTx(s)) /\ Graded(RsConstraint(s, e))
  BY GradedOwn, GradedConstraint
<1> QED  BY <1>2, <1>3 DEF Graded
\* The type is that of the initial state.
LEMMA TypeInit ==
  ASSUME Init
  PROVE  TypeOK
<1>1. script = <<>> /\ family \in Families /\ fixture \in Fixtures
  BY DEF Init
<1>2. script \in Seq(family) /\ Len(script) = 0
  BY <1>1
<1>3. /\ depth = 0 /\ epoch = 0 /\ tx = 0 /\ rewinds = 0
      /\ done \in BOOLEAN /\ bounded \in BOOLEAN /\ open \in BOOLEAN
      /\ adds = {} /\ locking = {} /\ findings = {} /\ made = {} /\ truth = {}
  BY DEF Init
<1> QED  BY <1>1, <1>2, <1>3, BoundsAssumption DEF TypeOK

\* What reading a statement does to the counters.
LEMMA Counters ==
  ASSUME TypeOK, NEW s \in family, NEW new \in BOOLEAN, Read(s, new)
  PROVE  /\ Len(script') = Len(script) + 1
         /\ depth' \in 0 .. Len(script') /\ epoch' \in 0 .. 2 * Len(script')
         /\ Epoch(s, new) \in 0 .. epoch' /\ epoch <= epoch'
         /\ tx' \in 0 .. Len(script') /\ rewinds' \in 0 .. Len(script') /\ tx <= tx'
<1>1. Len(script') = Len(script) + 1 /\ Len(script) \in Nat
  BY DEF TypeOK, Read
<1>2. Shape
  <2>1. \A n \in 0 .. Len(script) : n \in Nat
    BY <1>1
  <2>2. epoch \in Nat
    BY <1>1 DEF TypeOK
  <2> QED  BY <2>1, <2>2 DEF TypeOK, Shape
<1>3. depth' \in 0 .. Len(script')
  <2>1. depth' = Deeper(s)
    BY DEF Read, Analyze
  <2>2. Deeper(s) \in {depth + 1, depth} \/ (depth > 0 /\ Deeper(s) = depth - 1)
    BY DEF Deeper
  <2> QED  BY <1>1, <2>1, <2>2 DEF TypeOK
<1>4. epoch' \in 0 .. 2 * Len(script') /\ Epoch(s, new) \in 0 .. epoch' /\ epoch <= epoch'
  <2>1. epoch' \in {Epoch(s, new), Epoch(s, new) + 1}
    BY DEF Read, Analyze
  <2>2. Epoch(s, new) \in {epoch, epoch + 1}
    BY DEF Epoch
  <2>3. epoch \in 0 .. 2 * Len(script)
    BY DEF TypeOK
  <2> QED  BY <1>1, <2>1, <2>2, <2>3
<1>5. tx' \in 0 .. Len(script') /\ rewinds' \in 0 .. Len(script') /\ tx <= tx'
  <2>1. tx' \in {tx, tx + 1} /\ rewinds' \in {0, rewinds, rewinds + 1}
    BY <1>2, Served
  <2> QED  BY <1>1, <2>1 DEF TypeOK
<1> QED  BY <1>1, <1>3, <1>4, <1>5

LEMMA TypeStep ==
  ASSUME TypeOK, [Next]_vars
  PROVE  TypeOK'
<1>0. Len(script) \in Nat
  BY DEF TypeOK
<1>1. CASE UNCHANGED vars
  BY <1>1 DEF TypeOK, vars
<1>2. ASSUME NEW s \in family, NEW new \in BOOLEAN, Read(s, new)
      PROVE  TypeOK'
  <2>0. Shape
    <3>1. epoch \in Nat
      BY <1>0 DEF TypeOK
    <3> QED  BY <1>0, <3>1 DEF TypeOK, Shape
  <2>1. /\ fixture' \in Fixtures /\ family' \in Families /\ done' \in BOOLEAN
        /\ script' \in Seq(family') /\ Len(script') <= MaxStatements
    <3>1. script' = Append(script, s) /\ Len(script) < MaxStatements
          /\ fixture' = fixture /\ family' = family /\ done' = done
      BY <1>2 DEF Read
    <3> QED  BY <3>1, <1>0, BoundsAssumption DEF TypeOK
  <2>2. /\ depth' \in 0 .. Len(script') /\ epoch' \in 0 .. 2 * Len(script')
        /\ tx' \in 0 .. Len(script') /\ rewinds' \in 0 .. Len(script')
    BY <1>2, Counters
  <2>3. \A x \in adds' : x.epoch \in 0 .. epoch'
    <3>1. SUFFICES ASSUME NEW x \in adds' PROVE x.epoch \in 0 .. epoch'
      OBVIOUS
    <3>2. adds' = Put(adds, Adding(s, Epoch(s, new)))
      BY <1>2 DEF Read, Analyze
    <3>3. CASE x \in adds
      <4>1. x.epoch \in 0 .. epoch /\ epoch \in Nat
        BY <3>3, <1>0 DEF TypeOK
      <4>2. epoch <= epoch' /\ epoch' \in Nat
        BY <1>2, <1>0, Counters
      <4> QED  BY <4>1, <4>2
    <3>4. CASE x \in Adding(s, Epoch(s, new))
      <4>1. x.epoch = Epoch(s, new)
        BY <3>4 DEF Adding
      <4> QED  BY <4>1, <1>2, Counters
    <3> QED  BY <3>2, <3>3, <3>4 DEF Put
  <2>4. bounded' \in BOOLEAN
    BY <1>2 DEF Read, Analyze
  <2>5. \A x \in locking' : x.at \in DOMAIN script'
    <3>1. locking' = locking \union
            {[table |-> t, at |-> Len(script) + 1] : t \in TakesAccessExclusive(s)}
      BY <1>2 DEF Read, Analyze
    <3>2. \A x \in locking : x.at \in DOMAIN script
      BY DEF TypeOK
    <3> QED  BY <1>2, <2>0, <3>1, <3>2, Appended
  <2>6. \A x \in findings' : x.at \in 0 .. Len(script') /\ x.what.severity \in Levels
    <3>1. SUFFICES ASSUME NEW x \in findings'
                   PROVE  x.at \in 0 .. Len(script') /\ x.what.severity \in Levels
      OBVIOUS
    <3>2. Len(script') = Len(script) + 1
      BY <1>2, Counters
    <3>3. findings' = findings \union At(Len(script) + 1,
                        RsTx(s) \union RsConstraint(s, Epoch(s, new)) \union Alone(s))
      BY <1>2 DEF Read, Analyze
    <3>4. CASE x \in findings
      BY <1>0, <3>2, <3>4 DEF TypeOK
    <3>5. CASE x \notin findings
      <4>1. PICK y \in RsTx(s) \union RsConstraint(s, Epoch(s, new)) \union Alone(s) :
              x = [at |-> Len(script) + 1, what |-> y]
        BY <3>3, <3>5 DEF At
      <4>2. y.severity \in Levels
        BY GradedAll DEF Graded
      <4> QED  BY <1>0, <3>2, <4>1, <4>2
    <3> QED  BY <3>4, <3>5
  <2>7. open' \in BOOLEAN
    BY <1>2, <2>0, Served DEF Ends, Shape
  <2>8. \A x \in made' : x.tx \in 0 .. tx' /\ x.rewinds \in 0 .. Len(script')
    <3>1. SUFFICES ASSUME NEW x \in made'
                   PROVE  x.tx \in 0 .. tx' /\ x.rewinds \in 0 .. Len(script')
      OBVIOUS
    <3>2. Len(script') = Len(script) + 1 /\ tx <= tx' /\ tx' \in Nat /\ tx \in Nat
      BY <1>0, <1>2, Counters DEF TypeOK
    <3>3. CASE x \in made
      <4>1. x.tx \in 0 .. tx /\ x.rewinds \in 0 .. Len(script)
        BY <3>3 DEF TypeOK
      <4> QED  BY <1>0, <3>2, <4>1
    <3>4. CASE x \notin made
      <4>1. x.tx \in {0, tx} /\ x.rewinds = rewinds
        <5>1. PICK i \in AddConstraint(s) :
                /\ Clauses(s)[i].notValid
                /\ x = [name |-> Clauses(s)[i].name, on |-> s.on,
                        tx |-> IF open /\ ~new THEN tx ELSE 0, rewinds |-> rewinds]
          BY <1>2, <3>1, <3>4, Made
        <5> QED  BY <5>1
      <4>2. rewinds \in 0 .. Len(script)
        BY DEF TypeOK
      <4> QED  BY <1>0, <3>2, <4>1, <4>2
    <3> QED  BY <3>3, <3>4
  <2>9. \A x \in truth' : x.at \in DOMAIN script'
    BY <1>2, <2>0, ShapeStep DEF Shape, Next
  <2> QED  BY <2>1, <2>2, <2>3, <2>4, <2>5, <2>6, <2>7, <2>8, <2>9 DEF TypeOK
<1>3. CASE Return
  <2>1. \A x \in findings' : x.at \in 0 .. Len(script') /\ x.what.severity \in Levels
    <3>1. SUFFICES ASSUME NEW x \in findings'
                   PROVE  x.at \in 0 .. Len(script') /\ x.what.severity \in Levels
      OBVIOUS
    <3>2. findings' = findings \union At(0, RsSequence) /\ script' = script
      BY <1>3 DEF Return
    <3>3. CASE x \in findings
      BY <3>2, <3>3 DEF TypeOK
    <3>4. CASE x \notin findings
      <4>1. PICK y \in RsSequence : x = [at |-> 0, what |-> y]
        BY <3>2, <3>4 DEF At
      <4>2. y.severity \in Levels
        BY GradedOwn DEF Graded
      <4> QED  BY <1>0, <3>2, <4>1, <4>2
    <3> QED  BY <3>3, <3>4
  <2>2. /\ UNCHANGED <<fixture, family, script, depth, epoch, adds, bounded, locking>>
        /\ UNCHANGED <<open, tx, rewinds, made, truth>> /\ done' = TRUE
    BY <1>3 DEF Return, server
  <2> QED  BY <2>1, <2>2 DEF TypeOK
<1>4. CASE Ended
  BY <1>4 DEF Ended, TypeOK, vars
<1> QED  BY <1>1, <1>2, <1>3, <1>4 DEF Next

\* What the analyzers remember and report is of the statements they have read, and every
\* finding has a severity the verdict knows, for every fixture and every migration.
THEOREM AnalyzersTypeCorrect == Spec => []TypeOK
<1>1. Init => TypeOK
  BY TypeInit
<1>2. TypeOK /\ [Next]_vars => TypeOK'
  BY TypeStep
<1> QED  BY <1>1, <1>2, PTL DEF Spec
-----------------------------------------------------------------------------
(* What is reported of a statement and the fixture alone *)

\* The findings that rest on no other statement, of those the data is judged by.
OfChecks(s) ==
  IF AddConstraint(s) # {} /\ Says(s, "CHECK")
  THEN CheckConflict(Target(s), First(s, "CHECK")) ELSE {}
OfUnique(s) ==
  IF Says(s, "UNIQUE") THEN UniqueFinding("RS-DATA-014", Target(s), First(s, "UNIQUE").cols) ELSE {}
OfNotNull(s) ==
  IF Says(s, "SET NOT NULL") THEN NotNull(Target(s), First(s, "SET NOT NULL").col) ELSE {}
OfKeys(s) ==
  IF NotValid(s) THEN {} ELSE UNION {Orphaned(x.table, x.col) : x \in Referencing(s)}

Steady(s) ==
  UNION {OfChecks(s), OfUnique(s), OfNotNull(s), OfKeys(s),
         RsExclusive(s), RsPerf(s), RsBackfill(s)}

LEMMA FrozenTables ==
  ASSUME fixture' = fixture
  PROVE  /\ Tables' = Tables
         /\ \A t : Known(t)' = Known(t) /\ Of(t)' = Of(t) /\ Columns(t)' = Columns(t)
         /\ \A raw : Meant(raw)' = Meant(raw) /\ ResolveTable(raw)' = ResolveTable(raw)
         /\ \A s : Target(s)' = Target(s)
         /\ \A t, c, fact : FactsOf(t, c, fact)' = FactsOf(t, c, fact)
<1>1. Tables' = Tables
  BY DEF Tables
<1>2. \A t : Known(t)' = Known(t)
  BY <1>1 DEF Known
<1>3. \A t : Of(t)' = Of(t)
  BY DEF Of
<1>4. \A t : Columns(t)' = Columns(t)
  BY <1>2, <1>3 DEF Columns
<1>5. \A raw : Meant(raw)' = Meant(raw)
  BY <1>1 DEF Meant
<1>6. \A raw : ResolveTable(raw)' = ResolveTable(raw)
  BY <1>5 DEF ResolveTable
<1>7. \A s : Target(s)' = Target(s)
  BY <1>6 DEF Target
<1>8. \A t, c, fact : FactsOf(t, c, fact)' = FactsOf(t, c, fact)
  BY <1>3, <1>4 DEF FactsOf
<1> QED  BY <1>1, <1>2, <1>3, <1>4, <1>5, <1>6, <1>7, <1>8

LEMMA FrozenFacts ==
  ASSUME fixture' = fixture
  PROVE  /\ \A t, cols, v : Exactly(t, cols, v)' = Exactly(t, cols, v)
         /\ \A t, col : NotNull(t, col)' = NotNull(t, col) /\ Orphaned(t, col)' = Orphaned(t, col)
         /\ \A t, check : CheckConflict(t, check)' = CheckConflict(t, check)
         /\ \A t : Cascades(t)' = Cascades(t)
<1>1. \A t, cols, v : Exactly(t, cols, v)' = Exactly(t, cols, v)
  BY FrozenTables DEF Exactly
<1>2. \A t, col : References(t, col)' = References(t, col)
  BY FrozenTables DEF References
<1>3. \A t, col : Orphans(t, col)' = Orphans(t, col)
  BY <1>2, FrozenTables DEF Orphans
<1>4. \A t, col : NotNull(t, col)' = NotNull(t, col)
  BY FrozenTables DEF NotNull
<1>5. \A t, col : Orphaned(t, col)' = Orphaned(t, col)
  BY <1>3 DEF Orphaned
<1>6. \A t, check : CheckConflict(t, check)' = CheckConflict(t, check)
  BY FrozenTables DEF CheckConflict
<1>7. \A t : Cascades(t)' = Cascades(t)
  BY FrozenTables DEF Cascades
<1> QED  BY <1>1, <1>4, <1>5, <1>6, <1>7

LEMMA FrozenSteady ==
  ASSUME fixture' = fixture, NEW s
  PROVE  Steady(s)' = Steady(s)
<1>1. OfChecks(s)' = OfChecks(s)
  BY FrozenTables, FrozenFacts DEF OfChecks
<1>2. OfUnique(s)' = OfUnique(s)
  <2>1. \A code, t, cols : UniqueFinding(code, t, cols)' = UniqueFinding(code, t, cols)
    BY FrozenFacts DEF UniqueFinding
  <2> QED  BY <2>1, FrozenTables DEF OfUnique
<1>3. OfNotNull(s)' = OfNotNull(s)
  BY FrozenTables, FrozenFacts DEF OfNotNull
<1>4. OfKeys(s)' = OfKeys(s)
  <2>1. Referencing(s)' = Referencing(s)
    BY FrozenTables DEF Referencing
  <2> QED  BY <2>1, FrozenFacts DEF OfKeys
<1>5. RsExclusive(s)' = RsExclusive(s)
  <2> DEFINE found == {t \in Tables : s.name \in Of(t).indexes}
             body ==
               CASE s.is = "DROP INDEX" /\ ~s.concurrent ->
                      {Finding("RS-INDEX-003", "warn", IF found = {} THEN {} ELSE Rows(OneOf(found)))}
                 [] Says(s, "ATTACH PARTITION") -> {Finding("RS-LOCK-003", "warn", {})}
                 [] ~Says(s, "ATTACH PARTITION") /\ AddConstraint(s) # {} /\ ~NotValid(s)
                      /\ (Says(s, "CHECK") \/ Says(s, "FOREIGN KEY")) /\ Known(Target(s)) ->
                      {Finding("RS-CONSTRAINT-020", "warn", Rows(Target(s)))}
                 [] OTHER -> {}
  <2>1. found' = found
    BY FrozenTables
  <2>2. RsExclusive(s) = body
    BY Zenon DEF RsExclusive
  <2>3. RsExclusive(s)' = body'
    BY Zenon DEF RsExclusive
  <2>4. body' = body
    <3> HIDE DEF found
    <3>1. Target(s)' = Target(s) /\ Known(Target(s))' = Known(Target(s))
      BY FrozenTables
    <3> QED  BY <2>1, <3>1
  <2> QED  BY <2>2, <2>3, <2>4
<1>6. RsPerf(s)' = RsPerf(s)
  BY FrozenTables, FrozenFacts DEF RsPerf
<1>7. RsBackfill(s)' = RsBackfill(s)
  <2>1. \A t, w : Window(t, w)' = Window(t, w)
    BY FrozenTables DEF Window
  <2>2. \A t, w : UniqueEquality(t, w)' = UniqueEquality(t, w)
    BY FrozenFacts DEF UniqueEquality
  <2>3. \A t, w : Affected(t, w)' = Affected(t, w)
    BY FrozenTables DEF Affected
  <2> QED  BY <2>1, <2>2, <2>3, FrozenTables DEF RsBackfill
<1> QED  BY <1>1, <1>2, <1>3, <1>4, <1>5, <1>6, <1>7 DEF Steady
-----------------------------------------------------------------------------
(* What is reported of a foreign key validated later *)

\* The foreign keys of that name, of the statements up to n.
UpTo(n) == {script[m] : m \in 1 .. n}
Keys(n, name) == {x \in UNION {Referencing(s) : s \in UpTo(n)} : x.name = name}

SteadyReported ==
  \A n \in DOMAIN script, s \in family : s = script[n] => At(n, Steady(s)) \subseteq findings

\* fkCols has an entry for every name, and an entry is a foreign key of the migration.
KeysFollow ==
  /\ \A x \in fkCols : \E s \in UpTo(Len(script)) : x \in Referencing(s)
  /\ \A s \in UpTo(Len(script)) : \A x \in Referencing(s) : \E y \in fkCols : y.name = x.name

\* Of a name that some foreign key goes by, one of that name is reported.
ValidatedName(s) == First(s, "VALIDATE CONSTRAINT").name
LateReported ==
  \A n \in DOMAIN script, s \in family :
    s = script[n] /\ Says(s, "VALIDATE CONSTRAINT") /\ Keys(n, ValidatedName(s)) # {} =>
      \E x \in Keys(n, ValidatedName(s)) : At(n, Orphaned(x.table, x.col)) \subseteq findings

DataInv == Shape /\ SteadyReported /\ KeysFollow /\ LateReported

LEMMA FrozenKeys ==
  ASSUME fixture' = fixture
  PROVE  /\ \A s : Referencing(s)' = Referencing(s)
         /\ \A t, col : Orphaned(t, col)' = Orphaned(t, col)
<1>1. \A s : Referencing(s)' = Referencing(s)
  BY FrozenTables DEF Referencing
<1> QED  BY <1>1, FrozenFacts

LEMMA ReadReports ==
  ASSUME Shape, NEW s \in family, NEW new \in BOOLEAN, Read(s, new)
  PROVE  /\ fixture' = fixture /\ findings \subseteq findings'
         /\ At(Len(script) + 1, Steady(s)) \subseteq findings'
         /\ At(Len(script) + 1, RsData(s)) \subseteq findings'
         /\ fkCols' = Put(fkCols, Referencing(s))
<1>1. fixture' = fixture /\ fkCols' = Put(fkCols, Referencing(s))
  BY DEF Read, Analyze
<1> DEFINE all == RsTx(s) \union RsConstraint(s, Epoch(s, new)) \union Alone(s)
<1>2. findings' = findings \union At(Len(script) + 1, all)
  BY DEF Read, Analyze
<1>3. RsData(s) \subseteq all
  BY DEF Alone
<1>4. Steady(s) \subseteq all
  <2>1. OfChecks(s) \subseteq RsConstraint(s, Epoch(s, new))
    BY DEF OfChecks, RsConstraint
  <2>2. OfUnique(s) \subseteq RsData(s) /\ OfNotNull(s) \subseteq RsData(s) /\ OfKeys(s) \subseteq RsData(s)
    <3>1. OfUnique(s) \subseteq RsData(s)
      BY DEF OfUnique, RsData
    <3>2. OfNotNull(s) \subseteq RsData(s)
      BY DEF OfNotNull, RsData
    <3>3. OfKeys(s) \subseteq RsData(s)
      BY DEF OfKeys, RsData
    <3> QED  BY <3>1, <3>2, <3>3
  <2>3. RsExclusive(s) \subseteq Alone(s) /\ RsPerf(s) \subseteq Alone(s) /\ RsBackfill(s) \subseteq Alone(s)
    BY DEF Alone
  <2> QED  BY <1>3, <2>1, <2>2, <2>3 DEF Steady
<1> HIDE DEF all
<1>5. \A A \in SUBSET all : At(Len(script) + 1, A) \subseteq At(Len(script) + 1, all)
  BY DEF At
<1> QED  BY <1>1, <1>2, <1>3, <1>4, <1>5

LEMMA DataInvStep ==
  ASSUME DataInv, [Next]_vars
  PROVE  DataInv'
<1> USE DEF DataInv
<1>1. Shape'
  BY ShapeStep
<1>2. ASSUME NEW s \in family, NEW new \in BOOLEAN, Read(s, new)
      PROVE  SteadyReported' /\ KeysFollow' /\ LateReported'
  <2>0. PICK k : k = Len(script) + 1
    OBVIOUS
  <2>1. /\ k \in DOMAIN script' /\ script'[k] = s /\ k = Len(script') /\ k \in Nat
        /\ DOMAIN script' = 1 .. k /\ DOMAIN script = 1 .. k - 1
        /\ \A n \in DOMAIN script : n \in DOMAIN script' /\ script'[n] = script[n] /\ n # k
        /\ \A n \in DOMAIN script' : n = k \/ n \in DOMAIN script
    <3>1. script' = Append(script, s) /\ script \in Seq(family)
      BY <1>2 DEF Read, Shape
    <3> QED  BY <2>0, <3>1
  <2>2. /\ fixture' = fixture /\ findings \subseteq findings'
        /\ At(k, Steady(s)) \subseteq findings' /\ At(k, RsData(s)) \subseteq findings'
        /\ fkCols' = Put(fkCols, Referencing(s))
    BY <1>2, <2>0, ReadReports
  <2>3. \A r : Referencing(r)' = Referencing(r)
    BY <2>2, FrozenKeys
  <2>4. \A t, col : Orphaned(t, col)' = Orphaned(t, col)
    BY <2>2, FrozenKeys
  <2>5. SteadyReported'
    <3>1. SUFFICES ASSUME NEW n \in DOMAIN script', NEW r \in family', r = script'[n]
                   PROVE  At(n, Steady(r))' \subseteq findings'
      BY DEF SteadyReported
    <3>2. At(n, Steady(r))' = At(n, Steady(r))
      BY <2>2, FrozenSteady DEF At
    <3>3. CASE n = k
      BY <2>1, <2>2, <3>1, <3>2, <3>3
    <3>4. CASE n \in DOMAIN script
      <4>1. r = script[n] /\ r \in family
        BY <1>2, <2>1, <3>1, <3>4 DEF Read
      <4> QED  BY <2>2, <3>2, <3>4, <4>1 DEF SteadyReported
    <3> QED  BY <2>1, <3>3, <3>4
  <2>6. /\ UpTo(Len(script))' = UpTo(Len(script)) \union {s}
        /\ UpTo(k)' = UpTo(Len(script))'
        /\ \A n \in DOMAIN script : UpTo(n)' = UpTo(n)
    <3>1. \A n \in DOMAIN script : \A m \in 1 .. n : m \in DOMAIN script
      BY <2>1
    <3>2. \A n \in DOMAIN script : UpTo(n)' = UpTo(n)
      BY <2>1, <3>1 DEF UpTo
    <3>3. UpTo(Len(script))' = {script'[m] : m \in DOMAIN script'}
      BY <2>1 DEF UpTo
    <3>4. UpTo(k)' = {script'[m] : m \in DOMAIN script'}
      BY <2>1 DEF UpTo
    <3>5. UpTo(Len(script)) = {script[m] : m \in DOMAIN script}
      <4>1. DOMAIN script = 1 .. Len(script)
        BY DEF Shape
      <4> QED  BY <4>1 DEF UpTo
    <3>6. {script'[m] : m \in DOMAIN script'} = {script[m] : m \in DOMAIN script} \union {s}
      BY <2>1
    <3> QED  BY <3>2, <3>3, <3>4, <3>5, <3>6
  <2>7. KeysFollow'
    <3>1. ASSUME NEW x \in fkCols' PROVE \E r \in UpTo(Len(script))' : x \in Referencing(r)
      <4>1. CASE x \in fkCols
        BY <2>6, <4>1 DEF KeysFollow
      <4>2. CASE x \in Referencing(s)
        BY <2>6, <4>2
      <4> QED  BY <2>2, <3>1, <4>1, <4>2 DEF Put
    <3>2. ASSUME NEW r \in UpTo(Len(script))', NEW x \in Referencing(r)
          PROVE  \E y \in fkCols' : y.name = x.name
      <4>1. CASE r = s
        BY <2>2, <3>2, <4>1 DEF Put
      <4>2. CASE r \in UpTo(Len(script))
        <5>1. PICK z \in fkCols : z.name = x.name
          BY <3>2, <4>2 DEF KeysFollow
        <5> QED  BY <2>2, <5>1, PutKeeps
      <4> QED  BY <2>6, <4>1, <4>2
    <3> QED  BY <2>3, <3>1, <3>2 DEF KeysFollow
  <2>8. \A n, name : Keys(n, name)' = {x \in UNION {Referencing(r) : r \in UpTo(n)'} : x.name = name}
    BY <2>3 DEF Keys
  <2>9. LateReported'
    <3>1. SUFFICES ASSUME NEW n \in DOMAIN script', NEW r \in family', r = script'[n],
                          Says(r, "VALIDATE CONSTRAINT"), Keys(n, ValidatedName(r))' # {}
                   PROVE  \E x \in Keys(n, ValidatedName(r))' :
                            At(n, Orphaned(x.table, x.col)) \subseteq findings'
      BY <2>4 DEF LateReported, At
    <3>2. CASE n \in DOMAIN script
      <4>1. Keys(n, ValidatedName(r))' = Keys(n, ValidatedName(r))
        BY <2>6, <2>8, <3>2 DEF Keys
      <4>2. r = script[n] /\ r \in family
        BY <1>2, <2>1, <3>1, <3>2 DEF Read
      <4>3. PICK x \in Keys(n, ValidatedName(r)) : At(n, Orphaned(x.table, x.col)) \subseteq findings
        BY <3>1, <3>2, <4>1, <4>2 DEF LateReported
      <4> QED  BY <2>2, <4>1, <4>3
    <3>3. CASE n = k
      <4> DEFINE name == ValidatedName(s)
      <4>0. r = s
        BY <2>1, <3>1, <3>3
      <4>1. PICK x \in Keys(k, name)' : TRUE
        BY <3>1, <3>3, <4>0
      <4>2. PICK q \in UpTo(k)' : x \in Referencing(q)
        BY <2>8, <4>1
      <4>3. x.name = name
        BY <2>8, <4>1
      <4>4. PICK y \in fkCols' : y.name = x.name
        BY <2>3, <2>6, <2>7, <4>2 DEF KeysFollow
      <4>5. PICK z \in UpTo(k)' : y \in Referencing(z)
        BY <2>3, <2>6, <2>7, <4>4 DEF KeysFollow
      <4>6. y \in Keys(k, name)'
        BY <2>8, <4>3, <4>4, <4>5
      <4>7. Orphaned(y.table, y.col) \subseteq RsData(s)
        <5>1. y \in {v \in Put(fkCols, Referencing(s)) : v.name = First(s, "VALIDATE CONSTRAINT").name}
          BY <2>2, <4>3, <4>4 DEF ValidatedName
        <5>2. Says(s, "VALIDATE CONSTRAINT")
          BY <3>1, <4>0
        <5> QED  BY <5>1, <5>2 DEF RsData
      <4>8. At(k, Orphaned(y.table, y.col)) \subseteq findings'
        BY <2>2, <4>7 DEF At
      <4> QED  BY <3>3, <4>0, <4>6, <4>8
    <3> QED  BY <2>1, <3>2, <3>3
  <2> QED  BY <2>5, <2>7, <2>9
<1>3. ASSUME UNCHANGED <<fixture, family, script, fkCols>>, findings \subseteq findings'
      PROVE  SteadyReported' /\ KeysFollow' /\ LateReported'
  <2>1. \A r : Referencing(r)' = Referencing(r)
    BY <1>3, FrozenKeys
  <2>2. \A t, col : Orphaned(t, col)' = Orphaned(t, col)
    BY <1>3, FrozenKeys
  <2>3. \A n, r : At(n, Steady(r))' = At(n, Steady(r))
    BY <1>3, FrozenSteady DEF At
  <2>4. SteadyReported'
    BY <1>3, <2>3 DEF SteadyReported
  <2>5. \A n : UpTo(n)' = UpTo(n)
    BY <1>3 DEF UpTo
  <2>6. KeysFollow'
    BY <1>3, <2>1, <2>5 DEF KeysFollow
  <2>7. \A n, name : Keys(n, name)' = Keys(n, name)
    BY <2>1, <2>5 DEF Keys
  <2>8. LateReported'
    <3>1. SUFFICES ASSUME NEW n \in DOMAIN script, NEW r \in family, r = script[n],
                          Says(r, "VALIDATE CONSTRAINT"), Keys(n, ValidatedName(r)) # {}
                   PROVE  \E x \in Keys(n, ValidatedName(r)) :
                            At(n, Orphaned(x.table, x.col)) \subseteq findings'
      BY <1>3, <2>2, <2>7 DEF LateReported, At
    <3> QED  BY <1>3, <3>1 DEF LateReported
  <2> QED  BY <2>4, <2>6, <2>8
<1>4. UNCHANGED vars \/ Return \/ Ended => /\ UNCHANGED <<fixture, family, script, fkCols>>
                                          /\ findings \subseteq findings'
  BY DEF vars, Return, Ended
<1> QED  BY <1>1, <1>2, <1>3, <1>4 DEF Next

LEMMA DataInvInit ==
  ASSUME Init
  PROVE  DataInv
<1>1. script = <<>> /\ fkCols = {}
  BY DEF Init
<1>2. DOMAIN script = {} /\ UpTo(Len(script)) = {}
  BY <1>1 DEF UpTo
<1> QED  BY <1>1, <1>2, ShapeInit DEF DataInv, SteadyReported, KeysFollow, LateReported
-----------------------------------------------------------------------------
(* The verdicts on the findings *)

\* A weakest element: one that all others are at least.
LEMMA WeakestIs ==
  ASSUME NEW S, NEW c \in S, \A d \in S : Capping!AtLeast(d, c)
  PROVE  /\ Capping!Weakest(S) \in S
         /\ \A d \in S : Capping!AtLeast(d, Capping!Weakest(S))
<1> DEFINE P(x) == x \in S /\ \A d \in S : Capping!AtLeast(d, x)
<1>1. Capping!Weakest(S) = CHOOSE x \in S : \A d \in S : Capping!AtLeast(d, x)
  BY Zenon DEF Capping!Weakest
<1>2. \E x \in S : \A d \in S : Capping!AtLeast(d, x)
  OBVIOUS
<1> QED  BY Zenon, <1>1, <1>2

LEMMA WeakestExists ==
  ASSUME NEW S, S # {}
  PROVE  /\ Capping!Weakest(S) \in S
         /\ \A d \in S : Capping!AtLeast(d, Capping!Weakest(S))
<1>1. \A c : Capping!Rank(c) \in 0 .. 4
  BY DEF Capping!Rank
<1>2. \E c \in S : \A d \in S : Capping!Rank(d) >= Capping!Rank(c)
  <2> DEFINE with(k) == \E c \in S : Capping!Rank(c) = k
  <2>1. with(0) \/ with(1) \/ with(2) \/ with(3) \/ with(4)
    BY <1>1
  <2>2. CASE with(0)
    BY <1>1, <2>2
  <2>3. CASE ~with(0) /\ with(1)
    BY <1>1, <2>3
  <2>4. CASE ~with(0) /\ ~with(1) /\ with(2)
    BY <1>1, <2>4
  <2>5. CASE ~with(0) /\ ~with(1) /\ ~with(2) /\ with(3)
    BY <1>1, <2>5
  <2>6. CASE ~with(0) /\ ~with(1) /\ ~with(2) /\ ~with(3) /\ with(4)
    BY <1>1, <2>6
  <2> QED  BY <2>1, <2>2, <2>3, <2>4, <2>5, <2>6
<1> QED  BY <1>2, WeakestIs DEF Capping!AtLeast

LEMMA GotCertain ==
  ASSUME NEW f
  PROVE  /\ f.severity = "error" => Capping!Got(f) = "FAIL"
         /\ f.severity = "warn" => Capping!Got(f) = "WARN"
BY DEF Capping!Got, Capping!WantFor

\* A finding that asks for a PASS on a fact that is not proven is a warning.
LEMMA GotUnproven ==
  ASSUME NEW x \in findings, x.what.severity = "info", NEW d, x.what.deps = {d},
         \A c \in Recorded(d[1], d[2], d[3]) : c \notin {"exact", "measured"}
  PROVE  Capping!Got(x.what) = "WARN"
<1> DEFINE known == [e \in Cited |-> Recorded(e[1], e[2], e[3])]
           fc == IF known[d] = {} THEN "absent" ELSE Capping!Weakest(known[d])
<1>1. d \in Cited
  BY DEF Cited
<1>2. known[d] = Recorded(d[1], d[2], d[3])
  BY <1>1
<1>3. Capping!FactConfidence(d) = fc
  BY Zenon DEF Capping!FactConfidence
<1>4. fc \notin {"exact", "measured"}
  <2>1. CASE known[d] = {}
    BY <2>1
  <2>2. CASE known[d] # {}
    <3>1. Capping!Weakest(known[d]) \in known[d]
      BY <2>2, WeakestExists
    <3> QED  BY <1>2, <2>2, <3>1
  <2> QED  BY <2>1, <2>2
<1> HIDE DEF known, fc
<1>5. Capping!DependencyConfidence({d}) = Capping!Weakest({"exact", fc})
  <2>1. {"exact"} \union {Capping!FactConfidence(e) : e \in {d}} = {"exact", fc}
    BY <1>3
  <2>2. Capping!DependencyConfidence({d})
          = Capping!Weakest({"exact"} \union {Capping!FactConfidence(e) : e \in {d}})
    BY Zenon DEF Capping!DependencyConfidence
  <2> QED  BY <2>1, <2>2
<1>6. Capping!Rank("exact") = 4 /\ Capping!Rank("measured") = 3 /\ Capping!Rank(fc) \in 0 .. 2
  BY <1>4 DEF Capping!Rank
<1>7. Capping!Weakest({"exact", fc}) = fc
  <2>1. /\ Capping!Weakest({"exact", fc}) \in {"exact", fc}
        /\ \A e \in {"exact", fc} : Capping!AtLeast(e, Capping!Weakest({"exact", fc}))
    BY WeakestExists
  <2>2. ~Capping!AtLeast(fc, "exact")
    BY <1>6 DEF Capping!AtLeast
  <2> QED  BY <2>1, <2>2
<1>8. Capping!Ceiling(fc) = "WARN"
  <2>1. ~Capping!AtLeast(fc, "measured")
    BY <1>6 DEF Capping!AtLeast
  <2> QED  BY <2>1 DEF Capping!Ceiling
<1>9. Capping!WantFor(x.what.severity) = "PASS"
  BY DEF Capping!WantFor
<1> QED  BY <1>5, <1>7, <1>8, <1>9 DEF Capping!Got
-----------------------------------------------------------------------------
(* The tables and their facts *)

LEMMA WellFormed ==
  ASSUME fixture \in Fixtures
  PROVE  /\ IsFiniteSet(Tables)
         /\ \A t \in Tables :
              /\ t[1] # Unqualified /\ Of(t).rows \in Nat /\ Whole \notin DOMAIN Of(t).cols
              /\ \A c \in DOMAIN Of(t).cols :
                   /\ \A x \in Of(t).cols[c].nulls : x.n \in 0 .. Of(t).rows
                   /\ \A x, y \in Of(t).cols[c].nulls : x = y
                   /\ \A u \in Of(t).cols[c].unique : u.value \in BOOLEAN /\ u.conf # "measured"
              /\ IsFiniteSet(DOMAIN Of(t).refs) /\ DOMAIN Of(t).refs \subseteq Nat
              /\ \A i \in DOMAIN Of(t).refs : \A x \in Of(t).refs[i].orphans : x.n \in Nat
BY Zenon, FixturesAssumption DEF Tables, Of

\* A name is of the one table it may mean, or of none that the fixture knows.
LEMMA Resolved ==
  ASSUME fixture \in Fixtures, NEW raw
  PROVE  /\ \A t : Meant(raw) = {t} => ResolveTable(raw) = t /\ Known(t)
         /\ Cardinality(Meant(raw)) = 1 => \E t : Meant(raw) = {t}
         /\ (~\E t : Meant(raw) = {t}) => ~Known(ResolveTable(raw))
         /\ \A t \in Meant(raw) : Known(ResolveTable(raw)) => ResolveTable(raw) = t
<1>1. IsFiniteSet(Meant(raw)) /\ Meant(raw) \subseteq Tables
  <2>1. IsFiniteSet(Tables) /\ Meant(raw) \subseteq Tables
    BY WellFormed DEF Meant
  <2> QED  BY <2>1, FS_Subset
<1>2. Cardinality(Meant(raw)) = 1 <=> \E t : Meant(raw) = {t}
  BY <1>1, FS_Singleton
<1>3. \A t : Meant(raw) = {t} => ResolveTable(raw) = t /\ Known(t)
  <2>1. SUFFICES ASSUME NEW t, Meant(raw) = {t} PROVE ResolveTable(raw) = t /\ Known(t)
    OBVIOUS
  <2>2. OneOf({t}) = t
    <3>1. \E x \in {t} : TRUE
      OBVIOUS
    <3>2. OneOf({t}) \in {t}
      BY Zenon, <3>1 DEF OneOf
    <3> QED  BY <3>2
  <2>3. ResolveTable(raw) = t
    BY <1>2, <2>1, <2>2 DEF ResolveTable
  <2> QED  BY <1>1, <2>1, <2>3 DEF Known
<1>4. (~\E t : Meant(raw) = {t}) => ~Known(ResolveTable(raw))
  <2>1. SUFFICES ASSUME ~\E t : Meant(raw) = {t}, Known(ResolveTable(raw)) PROVE FALSE
    OBVIOUS
  <2>2. ResolveTable(raw) = raw
    BY <1>2, <2>1 DEF ResolveTable
  <2>3. raw \in Meant(raw) /\ raw[1] # Unqualified
    BY <2>1, <2>2, WellFormed DEF Meant, Known
  <2>4. Meant(raw) = {raw}
    BY <2>3 DEF Meant
  <2> QED  BY <2>1, <2>4
<1>5. \A t \in Meant(raw) : Known(ResolveTable(raw)) => ResolveTable(raw) = t
  BY <1>3, <1>4
<1> QED  BY <1>2, <1>3, <1>4, <1>5
-----------------------------------------------------------------------------
(* Mass writes *)

\* A finding of the statement itself is in the report.
LEMMA Reported ==
  ASSUME DataInv, NEW n \in DOMAIN script, NEW x \in Steady(script[n])
  PROVE  [at |-> n, what |-> x] \in findings
<1>1. script[n] \in family
  BY DEF DataInv, Shape
<1> QED  BY <1>1 DEF DataInv, SteadyReported, At

\* A warning of the statement itself keeps it from passing.
LEMMA Warned ==
  ASSUME DataInv, NEW n \in DOMAIN script,
         NEW x \in Steady(script[n]), x.severity = "warn"
  PROVE  NotPassed(n)
<1>1. [at |-> n, what |-> x] \in findings
  BY Reported
<1>2. Capping!Got(x) = "WARN"
  BY GotCertain
<1> DEFINE y == [at |-> n, what |-> x]
<1>3. y \in {z \in findings : z.at = n} /\ y.what = x
  BY <1>1
<1> HIDE DEF y
<1>4. "WARN" \in VerdictsOn(n)
  BY <1>2, <1>3 DEF VerdictsOn
<1> QED  BY <1>4 DEF NotPassed

\* A number that a word can hold is not changed by it.
LEMMA WrapKeeps ==
  ASSUME NEW x \in Nat, x < Widest
  PROVE  Wrap(x) = x
<1>1. Widest \in Nat \ {0}
  BY BoundsAssumption
<1>2. x + Widest \in 0 .. 2 * Widest - 1 /\ 2 * Widest \in Nat \ {0}
  BY <1>1
<1>3. (x + Widest) % (2 * Widest) = x + Widest
  <2>1. \A a \in Nat, m \in Nat \ {0} : a < m => a % m = a
    OBVIOUS
  <2>2. PICK a \in Nat, m \in Nat \ {0} : a = x + Widest /\ m = 2 * Widest /\ a < m
    BY <1>2
  <2> QED  BY <2>1, <2>2
<1> QED  BY <1>1, <1>3 DEF Wrap

\* The span of a window is the number of its keys, up to the width of a word.
LEMMA SpanIs ==
  ASSUME NEW w, w.lo \in Int, w.hi \in Int
  PROVE  KeysWithin(w) \in Nat /\ (KeysWithin(w) < Widest => Span(w) = KeysWithin(w))
<1>1. KeysWithin(w) = IF w.lo > w.hi THEN 0 ELSE w.hi - w.lo + 1
  BY FS_Interval DEF KeysWithin
<1>2. KeysWithin(w) \in Nat
  BY <1>1
<1>3. CASE w.hi < w.lo
  BY <1>1, <1>3 DEF Span
<1>4. CASE ~(w.hi < w.lo)
  <2>1. Span(w) = Wrap(KeysWithin(w))
    BY <1>1, <1>4 DEF Span
  <2> QED  BY <1>2, <2>1, WrapKeeps
<1> QED  BY <1>2, <1>3, <1>4

\* The rows a predicate may match are among the table's, when they are several.
LEMMA MayMatchWithin ==
  ASSUME fixture \in Fixtures, NEW t \in Tables, NEW w,
         w.p = "within" /\ w.literal => w.lo \in Int /\ w.hi \in Int
  PROVE  MayMatch(t, w) \in Nat /\ (MayMatch(t, w) > 1 => MayMatch(t, w) <= Of(t).rows)
<1>0. Of(t).rows \in Nat
  BY WellFormed
<1>1. CASE w.p = "null" /\ NullsMatched(t, w) # {}
  <2>1. MayMatch(t, w) \in NullsMatched(t, w)
    BY <1>1, Zenon DEF MayMatch, OneOf
  <2>2. PICK x \in FactsOf(t, w.col, "nulls") : MayMatch(t, w) = IF w.negated THEN Of(t).rows - x.n ELSE x.n
    BY <2>1 DEF NullsMatched
  <2>3. x.n \in 0 .. Of(t).rows
    BY <2>2, WellFormed DEF FactsOf, Columns
  <2> QED  BY <1>0, <2>2, <2>3
<1>2. CASE w.p = "within" /\ w.literal /\ IntegerKey(t, w.col) /\ KeysWithin(w) < Of(t).rows
  <2>1. MayMatch(t, w) = KeysWithin(w)
    BY <1>2 DEF MayMatch
  <2> QED  BY <1>0, <1>2, <2>1, SpanIs
<1>3. CASE w.p = "equal" /\ w.value /\ Exactly(t, {w.col}, TRUE)
  <2>1. MayMatch(t, w) = 1
    BY <1>3 DEF MayMatch
  <2> QED  BY <2>1
<1>4. CASE /\ ~(w.p = "null" /\ NullsMatched(t, w) # {})
           /\ ~(w.p = "within" /\ w.literal /\ IntegerKey(t, w.col) /\ KeysWithin(w) < Of(t).rows)
           /\ ~(w.p = "equal" /\ w.value /\ Exactly(t, {w.col}, TRUE))
  <2>1. MayMatch(t, w) = Of(t).rows
    BY <1>4 DEF MayMatch
  <2> QED  BY <1>0, <2>1
<1> QED  BY <1>1, <1>2, <1>3, <1>4

\* A window that is passed over has fewer keys than a mass write has rows.
LEMMA WindowsAreMeasured ==
  ASSUME fixture \in Fixtures, NEW t \in Tables, NEW w, Window(t, w),
         w.p = "within" /\ w.literal => w.lo \in Int /\ w.hi \in Int,
         ~ChosenByCaller(t, w), ~Mismeasured(t, w), MayMatch(t, w) >= MassDML
  PROVE  FALSE
<1>1. w.p = "within" /\ w.col \in Columns(t) /\ w.literal /\ Span(w) < MassDML
  BY DEF Window, ChosenByCaller
<1>2. KeysWithin(w) \in Nat /\ MassDML \in Nat /\ Widest \in Nat /\ Of(t).rows \in Nat
  BY <1>1, SpanIs, BoundsAssumption, WellFormed
<1>3. KeysWithin(w) < Widest /\ (KeysWithin(w) < MassDML => IntegerKey(t, w.col))
  BY <1>1, <1>2 DEF Mismeasured
<1>4. KeysWithin(w) < MassDML /\ IntegerKey(t, w.col)
  BY <1>1, <1>3, SpanIs
<1>5. CASE KeysWithin(w) < Of(t).rows
  <2>1. MayMatch(t, w) = KeysWithin(w)
    BY <1>1, <1>4, <1>5 DEF MayMatch
  <2> QED  BY <1>2, <1>4, <2>1
<1>6. CASE ~(KeysWithin(w) < Of(t).rows)
  <2>1. MayMatch(t, w) = Of(t).rows
    BY <1>1, <1>6 DEF MayMatch
  <2> QED  BY <1>2, <1>4, <1>6, <2>1
<1> QED  BY <1>5, <1>6

\* Nulls that are few enough to be passed over are those of no sample.
LEMMA NullsAreCounted ==
  ASSUME fixture \in Fixtures, NEW t \in Tables, NEW w, ~Sampled(t, w),
         NEW n \in Affected(t, w), n < MassDML
  PROVE  MayMatch(t, w) = n
<1>1. w.p = "null"
  BY DEF Affected
<1>2. PICK x \in FactsOf(t, w.col, "nulls") : n = IF w.negated THEN Of(t).rows - x.n ELSE x.n
  BY <1>1 DEF Affected
<1>3. \A y \in FactsOf(t, w.col, "nulls") : y = x
  BY <1>2, WellFormed DEF FactsOf, Columns
<1>4. AtLeastMeasured(x)
  BY <1>1, <1>2 DEF Sampled
<1>5. NullsMatched(t, w) = {n}
  BY <1>2, <1>3, <1>4 DEF NullsMatched
<1>6. OneOf({n}) = n
  BY DEF OneOf
<1> QED  BY <1>1, <1>5, <1>6 DEF MayMatch

\* A write that is not overlooked and may touch many rows has a warning of its own.
LEMMA MassWriteWarns ==
  ASSUME fixture \in Fixtures, family \in Families, NEW s \in family, DML(s),
         NEW t \in Meant(s.on), MayMatch(t, s.where) >= MassDML,
         ~(Known(Target(s)) /\ ChosenByCaller(t, s.where)), ~Overlooked(t, s)
  PROVE  \E x \in Steady(s) : x.severity = "warn"
<1>0. t \in Tables /\ Of(t).rows \in Nat /\ MassDML \in Nat /\ MassDML > 1
  BY WellFormed, BoundsAssumption DEF Meant
<1>1. s.where.p = "within" /\ s.where.literal => s.where.lo \in Int /\ s.where.hi \in Int
  BY WindowsAssumption, BoundsAssumption
<1>2. Known(Target(s)) => Target(s) = t
  BY Resolved DEF Target
<1>3. MayMatch(t, s.where) \in Nat /\ (MayMatch(t, s.where) > 1 => MayMatch(t, s.where) <= Of(t).rows)
  BY <1>0, <1>1, MayMatchWithin
<1>4. MayMatch(t, s.where) > 1 /\ Of(t).rows >= MassDML
  BY <1>0, <1>3
<1>5. CASE s.where.p = "none"
  <2>1. Target(s) = t /\ Known(t)
    BY <1>2, <1>5 DEF Overlooked
  <2>2. Finding("RS-PERF-002", "warn", Rows(Target(s))) \in RsPerf(s)
    BY <1>4, <1>5, <2>1 DEF RsPerf
  <2> QED  BY <2>2 DEF Steady, Finding
<1>6. CASE s.where.p # "none" /\ ~Known(Target(s))
  <2>1. RsBackfill(s) = {Finding("RS-PERF-010", "warn", {})}
    BY <1>6 DEF RsBackfill
  <2>2. Finding("RS-PERF-010", "warn", {}) \in Steady(s)
    BY <2>1 DEF Steady
  <2> QED  BY <2>2 DEF Finding
<1>7. CASE s.where.p # "none" /\ Known(Target(s))
  <2>1. Target(s) = t
    BY <1>2, <1>7
  <2>2. ~(Of(t).rows < MassDML)
    BY <1>0, <1>4
  <2>3. /\ ~ChosenByCaller(t, s.where) /\ ~Mismeasured(t, s.where) /\ ~Sampled(t, s.where)
        /\ ~(s.where.p = "equal" /\ ~s.where.value /\ Exactly(t, {s.where.col}, TRUE))
    BY <1>7 DEF Overlooked
  <2>4. ~UniqueEquality(t, s.where)
    <3>1. SUFFICES ASSUME s.where.p = "equal", Exactly(t, {s.where.col}, TRUE) PROVE FALSE
      BY DEF UniqueEquality
    <3>2. MayMatch(t, s.where) = 1
      BY <2>3, <3>1 DEF MayMatch
    <3> QED  BY <1>4, <3>2
  <2>5. ~Window(t, s.where)
    BY <1>0, <1>1, <2>3, WindowsAreMeasured
  <2>6. ~\E n \in Affected(t, s.where) : n < MassDML
    <3>1. SUFFICES ASSUME NEW n \in Affected(t, s.where), n < MassDML PROVE FALSE
      OBVIOUS
    <3>2. MayMatch(t, s.where) = n
      BY <1>0, <2>3, <3>1, NullsAreCounted
    <3> QED  BY <1>0, <1>3, <3>1, <3>2
  <2>7. RsBackfill(s) = {Finding("RS-PERF-010", "warn", Rows(t))}
    BY <1>7, <2>1, <2>2, <2>4, <2>5, <2>6 DEF RsBackfill
  <2>8. Finding("RS-PERF-010", "warn", Rows(t)) \in Steady(s)
    BY <2>7 DEF Steady
  <2> QED  BY <2>8 DEF Finding
<1> QED  BY <1>5, <1>6, <1>7

LEMMA MassWritesHold ==
  ASSUME DataInv, fixture \in Fixtures
  PROVE  MassWritesAreReported
<1>1. SUFFICES ASSUME NEW n \in DOMAIN script, DML(script[n]),
                      NEW t \in Meant(script[n].on), MayMatch(t, script[n].where) >= MassDML,
                      ~(Known(Target(script[n])) /\ ChosenByCaller(t, script[n].where)),
                      ~Overlooked(t, script[n])
               PROVE  NotPassed(n)
  BY DEF MassWritesAreReported
<1>2. family \in Families /\ script[n] \in family
  BY DEF DataInv, Shape
<1>3. PICK x \in Steady(script[n]) : x.severity = "warn"
  BY <1>1, <1>2, MassWriteWarns
<1> QED  BY <1>3, Warned

\* A write that may touch as many rows as make it a mass write is reported, for every
\* fixture and every migration.
THEOREM MassWritesReported == Spec => []MassWritesAreReported
<1>1. Init => DataInv /\ fixture \in Fixtures
  BY DataInvInit DEF Init
<1>2. (DataInv /\ fixture \in Fixtures) /\ [Next]_vars => (DataInv /\ fixture \in Fixtures)'
  <2>1. [Next]_vars => fixture' = fixture
    BY DEF Next, Read, Return, Ended, vars
  <2> QED  BY <2>1, DataInvStep
<1>3. DataInv /\ fixture \in Fixtures => MassWritesAreReported
  BY MassWritesHold
<1> QED  BY <1>1, <1>2, <1>3, PTL DEF Spec
-----------------------------------------------------------------------------
(* The checks of the data *)

\* A set of natural numbers has a least one.
LEMMA LeastNatural ==
  ASSUME NEW I, I \subseteq Nat, I # {}
  PROVE  \E i \in I : \A j \in I : i <= j
<1> DEFINE R == {ss \in Nat \X Nat : ss[1] < ss[2]}
<1>1. IsWellFoundedOn(R, Nat)
  BY NatLessThanWellFounded DEF OpToRel
<1> HIDE DEF R
<1>2. PICK i \in I : \A j \in I : ~(<<j, i>> \in R)
  BY <1>1, WFMin
<1>3. \A j \in I : ~(j < i)
  BY <1>2 DEF R
<1> QED  BY <1>3

LEMMA EarliestIn ==
  ASSUME NEW I, I \subseteq Nat, I # {}
  PROVE  Earliest(I) \in I
<1>1. \E i \in I : \A j \in I : i <= j
  BY LeastNatural
<1> QED  BY Zenon, <1>1 DEF Earliest

LEMMA EarliestOnly ==
  ASSUME NEW I, NEW i \in Nat, I = {i}
  PROVE  Earliest(I) = i
BY EarliestIn

\* What a Plain statement says of a kind, it says in one clause.
LEMMA FirstIs ==
  ASSUME NEW s \in family, family \in Families, Plain(s), NEW i \in DOMAIN Clauses(s)
  PROVE  /\ Says(s, Clauses(s)[i].do)
         /\ First(s, Clauses(s)[i].do) = Clauses(s)[i]
<1>1. Places(s, {Clauses(s)[i].do}) = {i}
  BY DEF Places, Plain
<1>2. i \in Nat
  BY ClausesAssumption
<1> QED  BY <1>1, <1>2, EarliestOnly DEF Says, First, FirstOf

\* It adds one constraint.
LEMMA KindIs ==
  ASSUME NEW s \in family, family \in Families, Plain(s),
         NEW i \in DOMAIN Clauses(s), Clauses(s)[i].do \in Kinds
  PROVE  /\ Places(s, Kinds) = {i}
         /\ NotValid(s) = Clauses(s)[i].notValid \/ (~NotValid(s) /\ ~Clauses(s)[i].notValid)
         /\ Clauses(s)[i].name # Unnamed => AddConstraint(s) = {i} /\ FirstOf(s, AddConstraint(s)) = Clauses(s)[i]
         /\ Clauses(s)[i].name = Unnamed => AddConstraint(s) = {}
<1>1. i \in Nat /\ IsFiniteSet(DOMAIN Clauses(s))
  BY ClausesAssumption
<1>2. i \in Places(s, Kinds) /\ Places(s, Kinds) \subseteq DOMAIN Clauses(s)
  BY DEF Places
<1>3. Places(s, Kinds) = {i}
  <2>1. IsFiniteSet(Places(s, Kinds))
    BY <1>1, <1>2, FS_Subset
  <2>2. SUFFICES ASSUME NEW j \in Places(s, Kinds), j # i PROVE FALSE
    BY <1>2
  <2>3. IsFiniteSet({i, j}) /\ Cardinality({i, j}) <= Cardinality(Places(s, Kinds))
    BY <1>2, <2>1, <2>2, FS_Subset
  <2>4. Cardinality(Places(s, Kinds)) <= 1 /\ Cardinality(Places(s, Kinds)) \in Nat
    BY <2>1, FS_CardinalityType DEF Plain
  <2>5. Cardinality({i, j}) = 2
    <3>1. IsFiniteSet({i}) /\ Cardinality({i}) = 1
      BY FS_Singleton
    <3>2. Cardinality({i} \union {j}) = Cardinality({i}) + 1
      BY <2>2, <3>1, FS_AddElement
    <3>3. {i} \union {j} = {i, j}
      OBVIOUS
    <3> QED  BY <3>1, <3>2, <3>3
  <2> QED  BY <2>3, <2>4, <2>5
<1>4. NotValid(s) <=> Clauses(s)[i].notValid
  BY <1>3 DEF NotValid
<1>5. AddConstraint(s) = IF Clauses(s)[i].name # Unnamed THEN {i} ELSE {}
  BY <1>3 DEF AddConstraint
<1>6. AddConstraint(s) = {i} => FirstOf(s, AddConstraint(s)) = Clauses(s)[i]
  BY <1>1, EarliestOnly DEF FirstOf
<1> QED  BY <1>3, <1>4, <1>5, <1>6

\* A finding at n of one of the codes a check is judged by.
LEMMA JudgedBy ==
  ASSUME NEW n, NEW c, NEW x, [at |-> n, what |-> x] \in findings, x.code \in CodesOf(c)
  PROVE  Capping!Got(x) \in Judged(n, c)
<1> DEFINE y == [at |-> n, what |-> x]
<1>1. y \in {z \in findings : z.at = n /\ z.what.code \in CodesOf(c)} /\ y.what = x
  OBVIOUS
<1> HIDE DEF y
<1> QED  BY <1>1 DEF Judged

\* What it is for a check to be judged by the facts of table t.
Unproven(n, c) == Judged(n, c) \intersect {"WARN", "FAIL"} # {}
Judges(n, t, c) ==
  /\ Fails(t, c) => "FAIL" \in Judged(n, c)
  /\ ~Known(t) \/ ~Passes(t, c) => Unproven(n, c)

\* A fraction above zero fails, and one that is not known to be zero does not pass.
LEMMA FractionJudges ==
  ASSUME NEW n, NEW c, NEW code \in CodesOf(c), NEW recorded, NEW d,
         At(n, Fraction(code, recorded, {d})) \subseteq findings,
         \A x \in recorded : x.n \in Nat,
         Recorded(d[1], d[2], d[3]) \subseteq {x.conf : x \in recorded}
  PROVE  /\ (\E x \in recorded : x.n > 0 /\ AtLeastMeasured(x)) => "FAIL" \in Judged(n, c)
         /\ (~\E x \in recorded : x.n = 0 /\ AtLeastMeasured(x)) => Unproven(n, c)
<1> DEFINE some == {x \in recorded : x.n > 0}
           severity == IF some = {} THEN "info"
                       ELSE IF \E x \in some : AtLeastMeasured(x) THEN "error" ELSE "warn"
           x == Finding(code, severity, {d})
<1>1. Fraction(code, recorded, {d}) = {x}
  BY DEF Fraction
<1>2. [at |-> n, what |-> x] \in findings
  BY <1>1 DEF At
<1>3. x.code = code /\ x.severity = severity /\ x.deps = {d}
  BY DEF Finding
<1>4. Capping!Got(x) \in Judged(n, c)
  <2> HIDE DEF x
  <2> QED  BY <1>2, <1>3, JudgedBy
<1>5. ASSUME NEW z \in recorded, z.n > 0, AtLeastMeasured(z)
      PROVE  "FAIL" \in Judged(n, c)
  <2>1. severity = "error"
    BY <1>5
  <2>2. Capping!Got(x) = "FAIL"
    <3> HIDE DEF x, severity
    <3> QED  BY <1>3, <2>1, GotCertain
  <2> QED  BY <1>4, <2>2
<1>6. ASSUME ~\E z \in recorded : z.n = 0 /\ AtLeastMeasured(z)
      PROVE  Unproven(n, c)
  <2>1. Capping!Got(x) \in {"WARN", "FAIL"}
    <3>1. CASE some # {}
      <4>1. severity \in {"error", "warn"}
        BY <3>1
      <4> HIDE DEF x, severity
      <4> QED  BY <1>3, <4>1, GotCertain
    <3>2. CASE some = {}
      <4>1. severity = "info"
        BY <3>2
      <4>2. \A z \in recorded : z.n = 0
        BY <3>2
      <4>3. \A conf \in Recorded(d[1], d[2], d[3]) : conf \notin {"exact", "measured"}
        BY <1>6, <4>2 DEF AtLeastMeasured
      <4> DEFINE f == [at |-> n, what |-> x]
      <4>4. f \in findings /\ f.what = x
        BY <1>2
      <4> HIDE DEF x, severity, f
      <4>5. f.what.severity = "info" /\ f.what.deps = {d}
        BY <1>3, <4>1, <4>4
      <4>6. Capping!Got(f.what) = "WARN"
        BY <4>3, <4>4, <4>5, GotUnproven
      <4> QED  BY <4>4, <4>6
    <3> QED  BY <3>1, <3>2
  <2> QED  BY <1>4, <2>1 DEF Unproven
<1> QED  BY <1>5, <1>6
-----------------------------------------------------------------------------
LEMMA NotNullJudges ==
  ASSUME fixture \in Fixtures, NEW n, NEW t, NEW c, c.do = "SET NOT NULL",
         At(n, NotNull(t, c.col)) \subseteq findings
  PROVE  Judges(n, t, c)
<1> DEFINE recorded == FactsOf(t, c.col, "nulls")
           d == <<t, c.col, "null_fraction">>
<1>1. At(n, Fraction("RS-DATA-001", recorded, {d})) \subseteq findings
  BY DEF NotNull, Dep
<1>2. "RS-DATA-001" \in CodesOf(c)
  BY DEF CodesOf
<1>3. \A x \in recorded : x.n \in Nat
  <2>1. SUFFICES ASSUME NEW x \in recorded PROVE x.n \in Nat
    OBVIOUS
  <2> HIDE DEF d
  <2>2. t \in Tables /\ c.col \in DOMAIN Of(t).cols /\ x \in Of(t).cols[c.col].nulls
    BY <2>1 DEF FactsOf, Columns, Known
  <2>3. x.n \in 0 .. Of(t).rows /\ Of(t).rows \in Nat
    BY <2>2, WellFormed
  <2> QED  BY ONLY <2>3
<1>4. Recorded(d[1], d[2], d[3]) \subseteq {x.conf : x \in recorded}
  BY DEF Recorded
<1>5. ~Known(t) => recorded = {}
  BY DEF FactsOf, Columns
<1>6. Fails(t, c) <=> \E x \in recorded : x.n > 0 /\ AtLeastMeasured(x)
  BY DEF Fails
<1>7. Passes(t, c) <=> \E x \in recorded : x.n = 0 /\ AtLeastMeasured(x)
  BY DEF Passes
<1> HIDE DEF recorded, d
<1> QED  BY <1>1, <1>2, <1>3, <1>4, <1>5, <1>6, <1>7, FractionJudges DEF Judges

\* Of a column with one reference at most, the orphans are those of that reference.
LEMMA OrphansAre ==
  ASSUME fixture \in Fixtures, NEW t, NEW col,
         Known(t) => Cardinality(References(t, col)) <= 1
  PROVE  /\ Known(t) => \A i \in References(t, col) : Orphans(t, col) = Of(t).refs[i].orphans
         /\ References(t, col) = {} => Orphans(t, col) = {}
         /\ Recorded(t, col, "orphan_fraction") \subseteq {x.conf : x \in Orphans(t, col)}
         /\ \A x \in Orphans(t, col) : x.n \in Nat
<1>1. CASE ~Known(t)
  BY <1>1 DEF References, Orphans, Recorded
<1>2. CASE Known(t) /\ References(t, col) = {}
  BY <1>2 DEF References, Orphans, Recorded
<1>3. CASE Known(t) /\ References(t, col) # {}
  <2>1. IsFiniteSet(DOMAIN Of(t).refs) /\ DOMAIN Of(t).refs \subseteq Nat
    BY <1>3, WellFormed DEF Known
  <2>2. References(t, col) = {i \in DOMAIN Of(t).refs : Of(t).refs[i].col = col}
    BY <1>3 DEF References
  <2>3. PICK i \in References(t, col) : TRUE
    BY <1>3
  <2>4. References(t, col) = {i}
    <3>1. IsFiniteSet(References(t, col))
      BY <2>1, <2>2, FS_Subset
    <3>2. SUFFICES ASSUME NEW j \in References(t, col), j # i PROVE FALSE
      BY <2>3
    <3>3. IsFiniteSet({i}) /\ Cardinality({i}) = 1
      BY FS_Singleton
    <3>4. IsFiniteSet({i} \union {j}) /\ Cardinality({i} \union {j}) = Cardinality({i}) + 1
      BY <3>2, <3>3, FS_AddElement
    <3>5. Cardinality({i} \union {j}) <= Cardinality(References(t, col))
      BY <3>1, <3>2, FS_Subset
    <3>6. Cardinality(References(t, col)) \in Nat
      BY <3>1, FS_CardinalityType
    <3> QED  BY <1>3, <3>3, <3>4, <3>5, <3>6
  <2>5. Earliest(References(t, col)) = i
    BY <2>1, <2>2, <2>3, <2>4, EarliestOnly
  <2>6. Orphans(t, col) = Of(t).refs[i].orphans
    BY <1>3, <2>5 DEF Orphans
  <2>7. Recorded(t, col, "orphan_fraction") = UNION {{x.conf : x \in Of(t).refs[j].orphans} : j \in {i}}
    BY <1>3, <2>2, <2>4 DEF Recorded
  <2>8. Recorded(t, col, "orphan_fraction") = {x.conf : x \in Orphans(t, col)}
    BY <2>6, <2>7
  <2>9. \A x \in Orphans(t, col) : x.n \in Nat
    BY <1>3, <2>2, <2>3, <2>6, WellFormed DEF Known
  <2> QED  BY <2>4, <2>6, <2>8, <2>9, <1>3
<1> QED  BY <1>1, <1>2, <1>3

LEMMA KeyJudges ==
  ASSUME fixture \in Fixtures, NEW n, NEW t, NEW c, c.do = "FOREIGN KEY",
         Known(t) => Cardinality(References(t, c.col)) <= 1,
         At(n, Orphaned(t, c.col)) \subseteq findings
  PROVE  Judges(n, t, c)
<1> DEFINE recorded == Orphans(t, c.col)
           d == <<t, c.col, "orphan_fraction">>
<1>1. At(n, Fraction("RS-DATA-020", recorded, {d})) \subseteq findings
  BY DEF Orphaned, Dep
<1>2. "RS-DATA-020" \in CodesOf(c)
  BY DEF CodesOf
<1>3. \A x \in recorded : x.n \in Nat
  BY OrphansAre
<1>4. Recorded(d[1], d[2], d[3]) \subseteq {x.conf : x \in recorded}
  BY OrphansAre
<1>5. ~Known(t) => recorded = {} /\ References(t, c.col) = {}
  BY DEF Orphans, References
<1>6. Fails(t, c) => \E x \in recorded : x.n > 0 /\ AtLeastMeasured(x)
  <2>1. Fails(t, c) <=> \E i \in References(t, c.col) :
                          \E x \in Of(t).refs[i].orphans : x.n > 0 /\ AtLeastMeasured(x)
    BY DEF Fails
  <2> QED  BY <1>5, <2>1, OrphansAre
<1>7. Known(t) /\ ~Passes(t, c) => ~\E x \in recorded : x.n = 0 /\ AtLeastMeasured(x)
  <2>1. Passes(t, c) <=> \A i \in References(t, c.col) :
                           \E x \in Of(t).refs[i].orphans : x.n = 0 /\ AtLeastMeasured(x)
    BY DEF Passes
  <2> QED  BY <2>1, OrphansAre
<1>8. ~Known(t) => Passes(t, c)
  <2>1. Passes(t, c) <=> \A i \in References(t, c.col) :
                           \E x \in Of(t).refs[i].orphans : x.n = 0 /\ AtLeastMeasured(x)
    BY DEF Passes
  <2> QED  BY <1>5, <2>1
<1> HIDE DEF recorded, d
<1>9. /\ (\E x \in recorded : x.n > 0 /\ AtLeastMeasured(x)) => "FAIL" \in Judged(n, c)
      /\ (~\E x \in recorded : x.n = 0 /\ AtLeastMeasured(x)) => Unproven(n, c)
  BY <1>1, <1>2, <1>3, <1>4, FractionJudges
<1> QED  BY <1>5, <1>6, <1>7, <1>9 DEF Judges

LEMMA UniqueJudges ==
  ASSUME fixture \in Fixtures, NEW n, NEW t, NEW c, c.do = "UNIQUE", IsFiniteSet(c.cols),
         At(n, UniqueFinding("RS-DATA-014", t, c.cols)) \subseteq findings
  PROVE  Judges(n, t, c)
<1> DEFINE severity == IF Exactly(t, c.cols, FALSE) THEN "error" ELSE "info"
           d == <<t, IF Cardinality(c.cols) = 1 THEN OneOf(c.cols) ELSE Whole, "unique">>
           x == Finding("RS-DATA-014", severity, {d})
           f == [at |-> n, what |-> x]
<1>1. UniqueFinding("RS-DATA-014", t, c.cols) = {x}
  BY DEF UniqueFinding, UniqueDependency
<1>2. f \in findings /\ f.what = x
  BY <1>1 DEF At
<1>3. x.code = "RS-DATA-014" /\ x.severity = severity /\ x.deps = {d}
  BY DEF Finding
<1>4. Capping!Got(x) \in Judged(n, c)
  <2>1. "RS-DATA-014" \in CodesOf(c)
    BY DEF CodesOf
  <2> HIDE DEF x
  <2> QED  BY <1>2, <1>3, <2>1, JudgedBy
<1>5. Exactly(t, c.cols, FALSE) => Capping!Got(x) = "FAIL"
  <2> HIDE DEF x
  <2> QED  BY <1>3, GotCertain
<1>6. ASSUME ~Exactly(t, c.cols, TRUE), ~Exactly(t, c.cols, FALSE)
      PROVE  Capping!Got(x) = "WARN"
  <2>1. \A conf \in Recorded(d[1], d[2], d[3]) : conf \notin {"exact", "measured"}
    <3>1. d[1] = t /\ d[2] = (IF Cardinality(c.cols) = 1 THEN OneOf(c.cols) ELSE Whole) /\ d[3] = "unique"
      OBVIOUS
    <3>2. Recorded(d[1], d[2], d[3]) = {u.conf : u \in FactsOf(t, d[2], "unique")}
      BY <3>1 DEF Recorded
    <3>3. SUFFICES ASSUME NEW u \in FactsOf(t, d[2], "unique")
                   PROVE  u.conf \notin {"exact", "measured"}
      BY <3>2
    <3>4. Known(t) /\ d[2] \in DOMAIN Of(t).cols /\ u \in Of(t).cols[d[2]].unique
      BY <3>3 DEF FactsOf, Columns
    <3>5. d[2] # Whole /\ u.value \in BOOLEAN /\ u.conf # "measured"
      BY <3>4, WellFormed DEF Known
    <3>6. Cardinality(c.cols) = 1 /\ d[2] = OneOf(c.cols)
      BY <3>1, <3>5
    <3>7. PICK col : c.cols = {col}
      BY <3>6, FS_Singleton
    <3>8. d[2] = col
      <4>1. \E y \in c.cols : TRUE
        BY <3>7
      <4>2. OneOf(c.cols) \in c.cols
        BY Zenon, <4>1 DEF OneOf
      <4> QED  BY <3>6, <3>7, <4>2
    <3>9. u.conf # "exact"
      <4>1. SUFFICES ASSUME u.conf = "exact" PROVE FALSE
        OBVIOUS
      <4>2. u.value = TRUE => Exactly(t, c.cols, TRUE)
        BY <3>3, <3>7, <3>8, <4>1 DEF Exactly
      <4>3. u.value = FALSE => Exactly(t, c.cols, FALSE)
        BY <3>3, <3>7, <3>8, <4>1 DEF Exactly
      <4> QED  BY <1>6, <3>5, <4>2, <4>3
    <3> QED  BY <3>5, <3>9
  <2>2. severity = "info"
    BY <1>6
  <2> HIDE DEF x, d, severity, f
  <2>3. f.what.severity = "info" /\ f.what.deps = {d}
    BY <1>2, <1>3, <2>2
  <2>4. Capping!Got(f.what) = "WARN"
    BY <1>2, <2>1, <2>3, GotUnproven
  <2> QED  BY <1>2, <2>4
<1>7. Fails(t, c) <=> Exactly(t, c.cols, FALSE)
  BY DEF Fails
<1>8. Passes(t, c) <=> Exactly(t, c.cols, TRUE)
  BY DEF Passes
<1>9. ~Known(t) => ~Exactly(t, c.cols, TRUE)
  BY DEF Exactly, FactsOf, Columns
<1> HIDE DEF x, d, severity, f
<1> QED  BY <1>4, <1>5, <1>6, <1>7, <1>8, <1>9 DEF Judges, Unproven

LEMMA CheckJudges ==
  ASSUME NEW n, NEW t, NEW c, c.do = "CHECK", Known(t),
         At(n, CheckConflict(t, c)) \subseteq findings,
         At(n, {Finding("RS-CONSTRAINT-020", "warn", Rows(t))}) \subseteq findings
  PROVE  Judges(n, t, c)
<1>1. "RS-CONSTRAINT-010" \in CodesOf(c) /\ "RS-CONSTRAINT-020" \in CodesOf(c)
  BY DEF CodesOf
<1>2. ASSUME Fails(t, c)
      PROVE  "FAIL" \in Judged(n, c)
  <2>1. PICK r \in FactsOf(t, c.col, "range") : Violates(r, c)
    BY <1>2 DEF Fails
  <2> DEFINE x == Finding("RS-CONSTRAINT-010", "error", Dep(t, c.col, "range"))
  <2>2. x \in CheckConflict(t, c)
    BY <2>1 DEF CheckConflict
  <2>3. [at |-> n, what |-> x] \in findings
    BY <2>2 DEF At
  <2>4. x.code = "RS-CONSTRAINT-010" /\ x.severity = "error"
    BY DEF Finding
  <2> HIDE DEF x
  <2> QED  BY <1>1, <2>3, <2>4, JudgedBy, GotCertain
<1>3. Unproven(n, c)
  <2> DEFINE x == Finding("RS-CONSTRAINT-020", "warn", Rows(t))
  <2>1. [at |-> n, what |-> x] \in findings
    BY DEF At
  <2>2. x.code = "RS-CONSTRAINT-020" /\ x.severity = "warn"
    BY DEF Finding
  <2> HIDE DEF x
  <2>3. "WARN" \in Judged(n, c)
    BY <1>1, <2>1, <2>2, JudgedBy, GotCertain
  <2> QED  BY <2>3 DEF Unproven
<1> QED  BY <1>2, <1>3 DEF Judges

\* The checks a statement makes in clauses of its own.
LEMMA OwnJudged ==
  ASSUME DataInv, fixture \in Fixtures, NEW n \in DOMAIN script, Plain(script[n]),
         NEW i \in DOMAIN Clauses(script[n]),
         LET c == Clauses(script[n])[i] IN
           /\ \/ c.do \in {"SET NOT NULL", "UNIQUE"}
              \/ c.do \in {"CHECK", "FOREIGN KEY"} /\ ~c.notValid
           /\ c.do = "CHECK" => c.name # Unnamed /\ Known(Target(script[n]))
           /\ c.do = "FOREIGN KEY" /\ Known(Target(script[n])) =>
                Cardinality(References(Target(script[n]), c.col)) <= 1
  PROVE  Judges(n, Target(script[n]), Clauses(script[n])[i])
<1>0. script[n] \in family /\ family \in Families
  <2>1. script \in Seq(family) /\ family \in Families /\ n \in DOMAIN script
    BY DEF DataInv, Shape
  <2> QED  BY ONLY <2>1
<1> DEFINE s == script[n]
           c == Clauses(s)[i]
           t == Target(s)
<1>1. s \in family /\ family \in Families
  BY ONLY <1>0
<1>2. Says(s, c.do) /\ First(s, c.do) = c
  BY <1>1, FirstIs
<1>3. At(n, Steady(s)) \subseteq findings
  BY <1>1 DEF DataInv, SteadyReported
<1>4. \A A : A \subseteq Steady(s) => At(n, A) \subseteq findings
  BY <1>3 DEF At
<1> HIDE DEF s, c, t
<1>5. CASE c.do = "SET NOT NULL"
  <2>1. NotNull(t, c.col) \subseteq Steady(s)
    BY <1>2, <1>5 DEF Steady, OfNotNull, t
  <2> QED  BY <1>4, <1>5, <2>1, NotNullJudges DEF s, c, t
<1>6. CASE c.do = "UNIQUE"
  <2>1. UniqueFinding("RS-DATA-014", t, c.cols) \subseteq Steady(s)
    BY <1>2, <1>6 DEF Steady, OfUnique, t
  <2>2. IsFiniteSet(c.cols)
    BY <1>1, <1>6, ClausesAssumption DEF s, c
  <2> QED  BY <1>4, <1>6, <2>1, <2>2, UniqueJudges DEF s, c, t
<1>7. CASE c.do = "FOREIGN KEY"
  <2>1. ~c.notValid /\ (Known(t) => Cardinality(References(t, c.col)) <= 1)
    BY <1>7 DEF s, c, t
  <2>2. ~NotValid(s)
    <3>1. c.do \in Kinds
      BY <1>7 DEF Kinds
    <3> QED  BY <1>1, <2>1, <3>1, KindIs DEF s, c
  <2>3. \E x \in Referencing(s) : x.table = t /\ x.col = c.col
    BY <1>2, <1>7 DEF Referencing, t
  <2>4. Orphaned(t, c.col) \subseteq OfKeys(s)
    BY <2>2, <2>3 DEF OfKeys
  <2>5. Orphaned(t, c.col) \subseteq Steady(s)
    BY <2>4 DEF Steady
  <2> QED  BY <1>4, <1>7, <2>1, <2>5, KeyJudges DEF s, c, t
<1>8. CASE c.do = "CHECK"
  <2>1. ~c.notValid /\ c.name # Unnamed /\ Known(t)
    BY <1>8 DEF s, c, t
  <2>2. ~NotValid(s) /\ AddConstraint(s) = {i}
    <3>1. c.do \in Kinds
      BY <1>8 DEF Kinds
    <3> QED  BY <1>1, <2>1, <3>1, KindIs DEF s, c
  <2>3. ~Says(s, "ATTACH PARTITION")
    <3>1. SUFFICES ASSUME NEW j \in DOMAIN Clauses(s), Clauses(s)[j].do = "ATTACH PARTITION"
                   PROVE  FALSE
      BY DEF Says, Places
    <3>2. i = j
      BY <1>1, <3>1, ClausesAssumption DEF s
    <3> QED  BY <1>8, <3>1, <3>2 DEF c
  <2>4. s.is = "ALTER TABLE"
    <3>1. DOMAIN Clauses(s) # {}
      BY DEF s
    <3>2. Clauses(s) # <<>>
      BY ONLY <3>1
    <3> QED  BY <3>2 DEF Clauses
  <2>5. CheckConflict(t, c) \subseteq Steady(s)
    BY <1>2, <1>8, <2>2 DEF Steady, OfChecks, t
  <2>6. {Finding("RS-CONSTRAINT-020", "warn", Rows(t))} \subseteq Steady(s)
    <3>1. RsExclusive(s) = {Finding("RS-CONSTRAINT-020", "warn", Rows(t))}
      BY <1>2, <1>8, <2>1, <2>2, <2>3, <2>4 DEF RsExclusive, t
    <3> QED  BY <3>1 DEF Steady
  <2> QED  BY <1>4, <1>8, <2>1, <2>5, <2>6, CheckJudges DEF s, c, t
<1> QED  BY <1>5, <1>6, <1>7, <1>8 DEF s, c, t

\* The name rsData knows the foreign key of a statement by.
LEMMA KeyNames ==
  ASSUME NEW s \in family, family \in Families, NEW x \in Referencing(s)
  PROVE  /\ Says(s, "FOREIGN KEY")
         /\ x.table = Target(s) /\ x.col = First(s, "FOREIGN KEY").col
         /\ \E i \in Places(s, Kinds) : Clauses(s)[i].name = x.name
<1>1. /\ Says(s, "FOREIGN KEY")
      /\ x = [name |-> IF AddConstraint(s) = {} THEN Unnamed ELSE FirstOf(s, AddConstraint(s)).name,
              table |-> Target(s), col |-> First(s, "FOREIGN KEY").col]
  BY DEF Referencing
<1>2. CASE AddConstraint(s) = {}
  <2>1. PICK i \in Places(s, {"FOREIGN KEY"}) : TRUE
    BY <1>1 DEF Says
  <2>2. i \in Places(s, Kinds)
    BY DEF Places, Kinds
  <2>3. Clauses(s)[i].name = Unnamed
    BY <1>2, <2>2 DEF AddConstraint
  <2> QED  BY <1>1, <1>2, <2>2, <2>3
<1>3. CASE AddConstraint(s) # {}
  <2>1. AddConstraint(s) \subseteq Nat
    BY ClausesAssumption DEF AddConstraint, Places
  <2>2. Earliest(AddConstraint(s)) \in AddConstraint(s)
    BY <1>3, <2>1, EarliestIn
  <2>3. Earliest(AddConstraint(s)) \in Places(s, Kinds)
    BY <2>2 DEF AddConstraint
  <2> QED  BY <1>1, <1>3, <2>3 DEF FirstOf
<1> QED  BY <1>1, <1>2, <1>3

\* The checks put off to a VALIDATE.
LEMMA LateJudged ==
  ASSUME DataInv, fixture \in Fixtures, NEW n \in DOMAIN script, NEW c \in Validated(n),
         Known(Target(script[n])) => Cardinality(References(Target(script[n]), c.col)) <= 1
  PROVE  c.do = "FOREIGN KEY" /\ Judges(n, Target(script[n]), c)
<1> DEFINE s == script[n]
           name == ValidatedName(s)
<1>1. \A m \in 1 .. n : script[m] \in family
  BY DEF DataInv, Shape
<1>2. n \in 1 .. n /\ s \in family /\ family \in Families
  BY DEF DataInv, Shape
<1>3. /\ Says(s, "VALIDATE CONSTRAINT")
      /\ \A m \in Bearers(n, name) : Plain(script[m]) /\ script[m].on = s.on
      /\ \A m1, m2 \in Bearers(n, name) :
           First(script[m1], "FOREIGN KEY").col = First(script[m2], "FOREIGN KEY").col
      /\ \E m \in Bearers(n, name) : c = First(script[m], "FOREIGN KEY")
  BY DEF Validated, ValidatedName
<1>4. PICK m \in Bearers(n, name) : c = First(script[m], "FOREIGN KEY")
  BY <1>3
<1> HIDE DEF name
<1>5. m \in 1 .. n /\ Says(script[m], "FOREIGN KEY")
      /\ \E i \in Places(script[m], Kinds) : Clauses(script[m])[i].name = name
  BY DEF Bearers
<1>6. PICK k \in DOMAIN Clauses(script[m]) : Clauses(script[m])[k].do = "FOREIGN KEY"
  BY <1>5 DEF Says, Places
<1>7. c = Clauses(script[m])[k]
  BY <1>1, <1>2, <1>3, <1>4, <1>5, <1>6, FirstIs
<1>8. \E x \in Referencing(script[m]) : x.name = name
  <2>1. Clauses(script[m])[k].do \in Kinds
    BY <1>6 DEF Kinds
  <2>2. /\ Places(script[m], Kinds) = {k}
        /\ Clauses(script[m])[k].name # Unnamed =>
             AddConstraint(script[m]) # {} /\ FirstOf(script[m], AddConstraint(script[m])) = Clauses(script[m])[k]
        /\ Clauses(script[m])[k].name = Unnamed => AddConstraint(script[m]) = {}
    <3>1. script[m] \in family /\ Plain(script[m])
      BY <1>1, <1>3, <1>4, <1>5
    <3>2. /\ Places(script[m], Kinds) = {k}
          /\ Clauses(script[m])[k].name # Unnamed =>
               AddConstraint(script[m]) = {k} /\ FirstOf(script[m], AddConstraint(script[m])) = Clauses(script[m])[k]
          /\ Clauses(script[m])[k].name = Unnamed => AddConstraint(script[m]) = {}
      BY <1>2, <2>1, <3>1, KindIs
    <3> QED  BY <3>2
  <2>3. Clauses(script[m])[k].name = name
    BY <1>5, <2>2
  <2> QED  BY <1>5, <2>2, <2>3 DEF Referencing
<1>9. Keys(n, name) # {}
  BY <1>5, <1>8 DEF Keys, UpTo
<1>10. PICK x \in Keys(n, name) : At(n, Orphaned(x.table, x.col)) \subseteq findings
  BY <1>2, <1>3, <1>9 DEF DataInv, LateReported, name
<1>11. PICK p \in 1 .. n : x \in Referencing(script[p])
  BY <1>10 DEF Keys, UpTo
<1>12. x.name = name
  BY <1>10 DEF Keys
<1>13. /\ p \in Bearers(n, name)
       /\ x.table = Target(script[p]) /\ x.col = First(script[p], "FOREIGN KEY").col
  BY <1>1, <1>2, <1>11, <1>12, KeyNames DEF Bearers
<1>14. x.table = Target(s) /\ x.col = c.col
  BY <1>3, <1>4, <1>13 DEF Target
<1> QED  BY <1>6, <1>7, <1>10, <1>14, KeyJudges

LEMMA DataRisksHold ==
  ASSUME DataInv, fixture \in Fixtures
  PROVE  DataRisksAreJudged
<1>1. SUFFICES ASSUME NEW n \in DOMAIN script, Plain(script[n]), NEW c \in Checks(n),
                      c.do = "CHECK" => /\ c.name # Unnamed
                                        /\ Meant(script[n].on) # {} /\ Cardinality(Meant(script[n].on)) = 1,
                      \A t \in Meant(script[n].on) :
                        c.do = "FOREIGN KEY" => Cardinality(References(t, c.col)) <= 1
               PROVE  /\ Cardinality(Meant(script[n].on)) = 1 /\ (\A t \in Meant(script[n].on) : Fails(t, c)) =>
                           "FAIL" \in Judged(n, c)
                      /\ Meant(script[n].on) = {} \/ (\E t \in Meant(script[n].on) : ~Passes(t, c)) => Unproven(n, c)
  BY DEF DataRisksAreJudged, Unproven
<1> DEFINE tables == Meant(script[n].on)
           target == Target(script[n])
<1>2. /\ \A t : tables = {t} => target = t /\ Known(t)
      /\ Cardinality(tables) = 1 => \E t : tables = {t}
      /\ (~\E t : tables = {t}) => ~Known(target)
  BY Resolved DEF Target
<1>3. Known(target) => target \in tables
  BY <1>2
<1>4. Judges(n, target, c)
  <2>1. CASE c \in Validated(n)
    <3>1. c.do = "FOREIGN KEY"
      <4>1. PICK m \in Bearers(n, ValidatedName(script[n])) : c = First(script[m], "FOREIGN KEY") /\ Plain(script[m])
        BY <2>1 DEF Validated, ValidatedName
      <4>2. m \in 1 .. n /\ script[m] \in family /\ family \in Families
        <5>1. script \in Seq(family) /\ family \in Families /\ n \in DOMAIN script /\ m \in 1 .. n
          BY DEF Bearers, DataInv, Shape
        <5> QED  BY <5>1
      <4>3. PICK k \in DOMAIN Clauses(script[m]) : Clauses(script[m])[k].do = "FOREIGN KEY"
        BY DEF Bearers, Says, Places
      <4>4. First(script[m], "FOREIGN KEY") = Clauses(script[m])[k]
        BY <4>1, <4>2, <4>3, FirstIs
      <4> QED  BY <4>1, <4>3, <4>4
    <3>2. Known(target) => Cardinality(References(target, c.col)) <= 1
      BY <1>1, <1>3, <3>1
    <3> QED  BY <2>1, <3>2, LateJudged
  <2>2. CASE c \notin Validated(n)
    <3>1. PICK i \in DOMAIN Clauses(script[n]) : c = Clauses(script[n])[i]
      BY <1>1, <2>2 DEF Checks
    <3>2. c.do \in {"SET NOT NULL", "UNIQUE"} \/ (c.do \in {"CHECK", "FOREIGN KEY"} /\ ~c.notValid)
      BY <1>1, <2>2 DEF Checks
    <3>3. c.do = "CHECK" => c.name # Unnamed /\ Known(target)
      BY <1>1, <1>2
    <3>4. c.do = "FOREIGN KEY" /\ Known(target) => Cardinality(References(target, c.col)) <= 1
      BY <1>1, <1>3
    <3> HIDE DEF target
    <3> QED  BY <1>1, <3>1, <3>2, <3>3, <3>4, OwnJudged DEF target
  <2> QED  BY <2>1, <2>2
<1> QED
  <2>1. Cardinality(tables) = 1 /\ (\A t \in tables : Fails(t, c)) => "FAIL" \in Judged(n, c)
    BY <1>2, <1>4 DEF Judges
  <2>2. tables = {} \/ (\E t \in tables : ~Passes(t, c)) => Unproven(n, c)
    BY <1>2, <1>4 DEF Judges
  <2> QED  BY <2>1, <2>2

\* A check of the data that the facts say fails is a FAIL, and one that they do not prove
\* is no PASS, for every fixture and every migration.
THEOREM DataRisksJudged == Spec => []DataRisksAreJudged
<1>1. Init => DataInv /\ fixture \in Fixtures
  BY DataInvInit DEF Init
<1>2. (DataInv /\ fixture \in Fixtures) /\ [Next]_vars => (DataInv /\ fixture \in Fixtures)'
  <2>1. [Next]_vars => fixture' = fixture
    BY DEF Next, Read, Return, Ended, vars
  <2> QED  BY <2>1, DataInvStep
<1>3. DataInv /\ fixture \in Fixtures => DataRisksAreJudged
  BY DataRisksHold
<1> QED  BY <1>1, <1>2, <1>3, PTL DEF Spec
=============================================================================
