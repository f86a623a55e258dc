---------------------------- MODULE HydrateProofs ----------------------------
(***************************************************************************)
(* Proofs about Load, for every plan of any length, and about Hydrate, for *)
(* every fixture and any numbers of rows, of draws and of bits.            *)
(*                                                                         *)
(* Of Load: at each point of the loop the transaction holds exactly the    *)
(* statements before it that the server did not refuse (Holdings), and     *)
(* what was refused was reported or is an identity reset (Books); nothing  *)
(* is durable before the commit, and then all the holdings are (Fate).     *)
(*                                                                         *)
(* Of Hydrate: what checkBudget passes has overflowed nowhere, so its sum  *)
(* is exact (Stages); the rows of each table are made of its own counts    *)
(* (Grown); and what Load is sent is the fixture's statements, of which it *)
(* was refused only what the rows do not satisfy (Sent).  Load's invariant *)
(* is a part of that, since every step of a load here is a step of Load.   *)
(* That the rows fit the schema needs more: each cell is the one its       *)
(* column's generator or its parent gives (Made), and what was refused or  *)
(* made was so by the rows alone (Judgements).                             *)
(***************************************************************************)
EXTENDS Hydrate, FiniteSetTheorems, SequenceTheorems, TLAPS

-----------------------------------------------------------------------------
(* Load: its inductive invariant *)

Before(k) == {m \in 1 .. Len(plan) : m < k}
Everything == 1 .. Len(plan)

\* Where a transaction is open, where it has failed, and where the loop is.
Shape ==
  /\ link = "up" /\ pc \in {"exec", "guarded", "release", "commit"} => tx = "open"
  /\ link = "up" /\ pc \in {"rollback to", "rollback"} => tx = "aborted"
  /\ pc \in {"guarded", "release", "rollback to"} => i \in Everything
  /\ pc = "commit" => i = Len(plan) + 1
  /\ pc = "begin" => i = 1 /\ refused = {} /\ made = {}
  /\ tx = "aborted" => pc \in {"rollback to", "rollback"}
  /\ link = "down" => tx = "none"

Holdings ==
  /\ link = "up" /\ pc \in {"exec", "guarded", "commit"} => made = Before(i) \ refused
  /\ link = "up" /\ pc = "release" => made = Before(i + 1) \ refused
  /\ link = "up" /\ pc \in {"guarded", "rollback to"} => kept = Before(i) \ refused
  /\ pc \in {"exec", "guarded", "release"} => refused \subseteq Before(i)
  /\ pc = "rollback to" => refused \subseteq Before(i + 1) /\ i \in refused

Books ==
  /\ reported \subseteq refused
  /\ pc \notin {"rollback", "failed"} =>
       \A k \in refused :
         \/ k \in reported \/ plan[k] = "reset"
         \/ pc = "rollback to" /\ k = i

Fate ==
  /\ link = "up" /\ pc # "loaded" => durable = {}
  /\ durable = {} \/ durable = Everything \ refused
  /\ pc = "loaded" => durable = Everything \ refused

IInv == TypeOK /\ Shape /\ Holdings /\ Books /\ Fate

LEMMA InitIInv == Init => IInv
<1> SUFFICES ASSUME Init PROVE IInv
  OBVIOUS
<1>1. plan \in Seq(Kinds) /\ Len(plan) \in Nat
  BY PlansAssumption DEF Init
<1>2. TypeOK
  BY <1>1 DEF Init, TypeOK, Locations
<1>3. Shape /\ Holdings /\ Books /\ Fate
  BY DEF Init, Shape, Holdings, Books, Fate
<1> QED
  BY <1>2, <1>3 DEF IInv

\* The plan does not change, so neither does what it is measured by.
LEMMA PlanKeeps ==
  ASSUME UNCHANGED plan
  PROVE  Everything' = Everything /\ \A k : Before(k)' = Before(k)
BY DEF Everything, Before

LEMMA BeforeIs ==
  ASSUME TypeOK
  PROVE  /\ Len(plan) \in Nat /\ i \in Nat
         /\ \A k \in Nat : Before(k) \subseteq Everything
         /\ Before(1) = {}
         /\ Before(Len(plan) + 1) = Everything
         /\ i \notin Before(i)
         /\ i \in Everything => Before(i + 1) = Before(i) \union {i}
         /\ i \in 1 .. Len(plan) + 1
<1>1. Len(plan) \in Nat /\ i \in Nat /\ i \in 1 .. Len(plan) + 1
  BY DEF TypeOK
<1> QED
  BY <1>1 DEF Before, Everything

LEMMA IndexStep ==
  ASSUME NEW n \in Nat, NEW k \in 1 .. n
  PROVE  k + 1 \in 1 .. n + 1
OBVIOUS

LEMMA ExecKeeps == ASSUME IInv, Exec PROVE IInv'
<1> USE DEF Exec
<1>0. /\ TypeOK /\ Shape /\ Holdings /\ Books /\ Fate
      /\ Everything' = Everything /\ \A k : Before(k)' = Before(k)
  BY PlanKeeps DEF IInv
<1>a. i \in 1 .. Len(plan) /\ Len(plan) \in Nat /\ i \in Everything
  BY <1>0 DEF TypeOK, Everything
<1>1. TypeOK'
  <2>1. CASE made' = made \union {i} /\ i' = i + 1 /\ UNCHANGED <<pc, tx, refused>>
    <3>1. i' \in 1 .. Len(plan) + 1
      BY <1>0, <1>a, <2>1 DEF TypeOK
    <3> QED
      BY <1>0, <1>a, <2>1, <3>1 DEF TypeOK
  <2>2. CASE /\ tx' = "aborted" /\ refused' = refused \union {i} /\ pc' = "rollback"
             /\ UNCHANGED <<made, i>>
    BY <1>0, <1>a, <2>2 DEF TypeOK, Locations
  <2> QED
    BY <2>1, <2>2
<1>2. Shape'
  BY <1>0, BeforeIs DEF Shape, Returned, Everything, Holdings
<1>3. Holdings'
  <2>1. CASE made' = made \union {i} /\ i' = i + 1 /\ UNCHANGED <<pc, tx, refused>>
    <3>1. made = Before(i) \ refused /\ refused \subseteq Before(i)
      BY <1>0, <2>1 DEF Holdings
    <3>2. Before(i + 1) = Before(i) \union {i} /\ i \notin Before(i)
      BY <1>0, <1>a, BeforeIs
    <3> QED
      BY <1>0, <2>1, <3>1, <3>2 DEF Holdings
  <2>2. CASE pc' = "rollback" /\ UNCHANGED link
    BY <2>2 DEF Holdings
  <2> QED
    BY <2>1, <2>2
<1>4. Books'
  BY <1>0, BeforeIs DEF Books, Shape, Holdings, Returned
<1>5. Fate'
  BY <1>0, BeforeIs DEF Fate, Shape, Holdings, Returned
<1> QED
  BY <1>1, <1>2, <1>3, <1>4, <1>5 DEF IInv

LEMMA RollbackToKeeps == ASSUME IInv, RollbackTo PROVE IInv'
<1> USE DEF RollbackTo
<1>0. /\ TypeOK /\ Shape /\ Holdings /\ Books /\ Fate
      /\ Everything' = Everything /\ \A k : Before(k)' = Before(k)
  BY PlanKeeps DEF IInv
<1>a. /\ i \in 1 .. Len(plan) /\ Len(plan) \in Nat /\ i \in Everything
      /\ i' = i + 1 /\ made' = kept /\ reported' \subseteq reported \union {i}
      /\ i \in refused
  <2>1. pc = "rollback to" /\ i' = i + 1 /\ made' = kept
    OBVIOUS
  <2>2. reported' \subseteq reported \union {i}
    OBVIOUS
  <2>3. i \in Everything /\ i \in refused
    BY <1>0, <2>1 DEF Shape, Holdings
  <2>4. Len(plan) \in Nat
    BY <1>0, BeforeIs
  <2> QED
    BY <2>1, <2>2, <2>3, <2>4 DEF Everything
<1>1. TypeOK'
  <2>1. i' \in 1 .. Len(plan) + 1
    <3>1. i + 1 \in 1 .. Len(plan) + 1
      BY <1>a, IndexStep
    <3> HIDE DEF RollbackTo
    <3> QED
      BY <1>a, <3>1
  <2>2. reported' \subseteq 1 .. Len(plan)
    BY <1>0, <1>a DEF TypeOK
  <2> QED
    BY <1>0, <1>a, <2>1, <2>2 DEF TypeOK, Locations
<1>2. Shape'
  BY <1>0, BeforeIs DEF Shape, Returned, Everything, Holdings
<1>3. Holdings'
  BY <1>0, BeforeIs DEF Holdings, Shape, Returned
<1>4. Books'
  <2>1. reported' \subseteq refused'
    BY <1>0, <1>a DEF Books
  <2>2. reported \subseteq reported' /\ (i \in reported' \/ plan[i] = "reset")
    BY <1>a DEF Kind
  <2>3. \A k \in refused : k \in reported \/ plan[k] = "reset" \/ k = i
    BY <1>0 DEF Books
  <2> QED
    BY <2>1, <2>2, <2>3 DEF Books
<1>5. Fate'
  BY <1>0, BeforeIs DEF Fate, Shape, Holdings, Returned
<1> QED
  BY <1>1, <1>2, <1>3, <1>4, <1>5 DEF IInv

LEMMA NextIInv == IInv /\ [Next]_vars => IInv'
<1> SUFFICES ASSUME IInv, [Next]_vars PROVE IInv'
  OBVIOUS
<1>0. /\ TypeOK /\ Shape /\ Holdings /\ Books /\ Fate
      /\ Everything' = Everything /\ \A k : Before(k)' = Before(k)
  BY PlanKeeps DEF IInv, Next, vars, Begin, Exec, Savepoint, ExecGuarded, RollbackTo, Release,
       SendCommit, Commit, CommitRefused, Rollback, Sever, LinkFails, Done
<1>1. CASE Exec
  BY <1>1, ExecKeeps
<1>2. CASE RollbackTo
  BY <1>2, RollbackToKeeps
<1>3. CASE Begin
  BY <1>0, <1>3, BeforeIs DEF Begin, IInv, TypeOK, Shape, Holdings, Books, Fate, Locations, Returned, Everything
<1>4. CASE Savepoint
  <2>1. TypeOK'
    BY <1>0, <1>4, BeforeIs DEF Savepoint, TypeOK, Shape, Locations, Everything
  <2>2. Shape'
    BY <1>0, <1>4, BeforeIs DEF Savepoint, Shape, TypeOK, Everything
  <2>3. Holdings'
    BY <1>0, <1>4, BeforeIs DEF Savepoint, Shape, Holdings
  <2>4. Books'
    BY <1>0, <1>4 DEF Savepoint, Books
  <2>5. Fate'
    BY <1>0, <1>4 DEF Savepoint, Fate
  <2> QED  BY <2>1, <2>2, <2>3, <2>4, <2>5 DEF IInv
<1>5. CASE ExecGuarded
  <2>1. TypeOK'
    BY <1>0, <1>5, BeforeIs DEF ExecGuarded, TypeOK, Shape, Locations, Everything
  <2>2. Shape'
    BY <1>0, <1>5, BeforeIs DEF ExecGuarded, Shape, TypeOK, Everything
  <2>3. Holdings'
    BY <1>0, <1>5, BeforeIs DEF ExecGuarded, Shape, Holdings
  <2>4. Books'
    BY <1>0, <1>5 DEF ExecGuarded, Books
  <2>5. Fate'
    BY <1>0, <1>5 DEF ExecGuarded, Fate
  <2> QED  BY <2>1, <2>2, <2>3, <2>4, <2>5 DEF IInv
<1>6. CASE Release
  <2>1. TypeOK'
    BY <1>0, <1>6, BeforeIs DEF Release, TypeOK, Shape, Locations, Everything
  <2>2. Shape'
    BY <1>0, <1>6, BeforeIs DEF Release, Shape, TypeOK, Everything
  <2>3. Holdings'
    BY <1>0, <1>6, BeforeIs DEF Release, Shape, Holdings
  <2>4. Books'
    BY <1>0, <1>6 DEF Release, Books
  <2>5. Fate'
    BY <1>0, <1>6 DEF Release, Fate
  <2> QED  BY <2>1, <2>2, <2>3, <2>4, <2>5 DEF IInv
<1>7. CASE SendCommit
  BY <1>0, <1>7, BeforeIs DEF SendCommit, IInv, TypeOK, Shape, Holdings, Books, Fate, Locations, Returned, Everything
<1>8. CASE Commit
  BY <1>0, <1>8, BeforeIs DEF Commit, IInv, TypeOK, Shape, Holdings, Books, Fate, Locations, Returned, Everything
<1>9. CASE CommitRefused
  BY <1>0, <1>9, BeforeIs DEF CommitRefused, IInv, TypeOK, Shape, Holdings, Books, Fate, Locations, Returned, Everything
<1>10. CASE Rollback
  BY <1>0, <1>10, BeforeIs DEF Rollback, IInv, TypeOK, Shape, Holdings, Books, Fate, Locations, Returned, Everything
<1>11. CASE Sever
  BY <1>0, <1>11, BeforeIs DEF Sever, IInv, TypeOK, Shape, Holdings, Books, Fate, Locations, Returned, Everything
<1>12. CASE LinkFails
  BY <1>0, <1>12, BeforeIs DEF LinkFails, IInv, TypeOK, Shape, Holdings, Books, Fate, Locations, Returned, Everything
<1>13. CASE UNCHANGED vars
  BY <1>13 DEF vars, IInv, TypeOK, Shape, Holdings, Books, Fate, Before, Everything
<1> QED
  BY <1>1, <1>2, <1>3, <1>4, <1>5, <1>6, <1>7, <1>8, <1>9, <1>10, <1>11, <1>12, <1>13 DEF Next, Done

\* The inductive invariant holds in every state of every load.
THEOREM Invariance == Spec => []IInv
  BY InitIInv, NextIInv, PTL DEF Spec

\* Every variable keeps its type, for any plan.
THEOREM TypeCorrect == Spec => []TypeOK
<1>1. IInv => TypeOK
  BY DEF IInv
<1> QED
  BY <1>1, Invariance, PTL

\* After an error nothing is committed, or, when the answer to the commit was
\* lost, all of it is (load.go:47-49).
THEOREM FailureIsClean == Spec => []FailureLeavesTargetClean
<1>1. IInv => FailureLeavesTargetClean
  BY DEF IInv, TypeOK, Fate, Everything, FailureLeavesTargetClean
<1> QED
  BY <1>1, Invariance, PTL

\* A load that succeeds has reported whatever it left out (load.go:175-177), the
\* identity resets excepted.
THEOREM DifferencesReported == Spec => []DifferencesAreReported
<1>1. IInv => DifferencesAreReported
  BY DEF IInv, TypeOK, Fate, Books, Everything, DifferencesAreReported
<1> QED
  BY <1>1, Invariance, PTL

\* What is left out was refused for what it is (load.go:171-174).
THEOREM FailuresAreLocal == Spec => []OneFailureCostsOne
<1>1. IInv => OneFailureCostsOne
  BY DEF IInv, Books, Shape, OneFailureCostsOne
<1> QED
  BY <1>1, Invariance, PTL

-----------------------------------------------------------------------------
(* Sets, sums and sequences of sequences *)

LEMMA LeastNatural ==
  ASSUME NEW I, I \subseteq Nat, I # {}
  PROVE  \E n \in I : \A m \in I : n <= m
<1> DEFINE R == {ss \in Nat \X Nat : ss[1] < ss[2]}
<1>1. IsWellFoundedOn(R, Nat)
  BY NatLessThanWellFounded DEF OpToRel
<1> HIDE DEF R
<1>2. PICK n \in I : \A m \in I : ~(<<m, n>> \in R)
  BY <1>1, WFMin
<1>3. \A m \in I : ~(m < n)
  BY <1>2 DEF R
<1> QED  BY <1>3

\* What holds of 0, and of n + 1 if it does of n, holds of every natural number.
LEMMA AllNaturals ==
  ASSUME NEW P, 0 \in P, \A n \in Nat : n \in P => n + 1 \in P
  PROVE  \A n \in Nat : n \in P
<1>1. SUFFICES ASSUME Nat \ P # {}
               PROVE  FALSE
  OBVIOUS
<1>2. PICK n \in Nat \ P : \A m \in Nat \ P : n <= m
  BY <1>1, LeastNatural
<1>3. n # 0
  BY <1>2
<1>4. n - 1 \in Nat /\ n - 1 \in P /\ (n - 1) + 1 = n
  BY <1>2, <1>3
<1> QED  BY <1>2, <1>4

\* A finite set of integers has a highest.
LEMMA FiniteHighest ==
  ASSUME NEW S, IsFiniteSet(S), S \subseteq Int, S # {}
  PROVE  Highest(S) \in S /\ \A x \in S : x <= Highest(S)
<1> DEFINE P == {n \in Nat : \A T \in SUBSET Int : IsFiniteSet(T) /\ Cardinality(T) = n /\ T # {} =>
                                \E x \in T : \A y \in T : y <= x}
<1>1. 0 \in P
  BY FS_EmptySet
<1>2. ASSUME NEW n \in Nat, n \in P
      PROVE  n + 1 \in P
  <2>1. SUFFICES ASSUME NEW T \in SUBSET Int, IsFiniteSet(T), Cardinality(T) = n + 1, T # {}
                 PROVE  \E x \in T : \A y \in T : y <= x
    OBVIOUS
  <2>2. PICK z \in T : TRUE
    BY <2>1
  <2>3. IsFiniteSet(T \ {z}) /\ Cardinality(T \ {z}) = n
    <3> HIDE DEF P
    <3>1. IsFiniteSet(T \ {z}) /\ Cardinality(T \ {z}) = Cardinality(T) - 1
      BY <2>1, <2>2, FS_RemoveElement, Zenon
    <3> QED  BY <2>1, <3>1
  <2>4. CASE T \ {z} = {}
    BY <2>2, <2>4
  <2>5. CASE T \ {z} # {}
    <3>1. PICK x \in T \ {z} : \A y \in T \ {z} : y <= x
      BY <1>2, <2>3, <2>5
    <3>2. x \in Int /\ z \in Int
      BY <2>2
    <3>3. CASE z <= x
      BY <3>1, <3>3
    <3>4. CASE x < z
      BY <2>2, <3>1, <3>2, <3>4
    <3> QED  BY <3>2, <3>3, <3>4
  <2> QED  BY <2>4, <2>5
<1>3. \A n \in Nat : n \in P
  <2> HIDE DEF P
  <2> QED  BY <1>1, <1>2, AllNaturals
<1>4. \E x \in S : \A y \in S : y <= x
  BY <1>3, FS_CardinalityType
<1> QED  BY <1>4, Zenon DEF Highest

LEMMA RangeFinite ==
  ASSUME NEW f, IsFiniteSet(DOMAIN f), f \in [DOMAIN f -> Range(f)]
  PROVE  IsFiniteSet(Range(f))
<1>1. f \in Surjection(DOMAIN f, Range(f))
  BY DEF Surjection, Range
<1> QED  BY <1>1, FS_Surjection

\* g gives the sum of f over every part of T, one element taken away at a time.
Some(s) == CHOOSE x \in s : TRUE
Sums(f, g, T) == \A s \in SUBSET T : g[s] = IF s = {} THEN 0 ELSE f[Some(s)] + g[s \ {Some(s)}]

LEMMA SumsAgree ==
  ASSUME NEW f, NEW T, IsFiniteSet(T), NEW g, NEW h, Sums(f, g, T), Sums(f, h, T)
  PROVE  g[T] = h[T]
<1> DEFINE P == {n \in Nat : \A s \in SUBSET T : IsFiniteSet(s) /\ Cardinality(s) = n => g[s] = h[s]}
<1>1. 0 \in P
  BY FS_EmptySet DEF Sums
<1>2. ASSUME NEW n \in Nat, n \in P
      PROVE  n + 1 \in P
  <2>1. SUFFICES ASSUME NEW s \in SUBSET T, IsFiniteSet(s), Cardinality(s) = n + 1
                 PROVE  g[s] = h[s]
    OBVIOUS
  <2>2. s # {}
    BY <2>1, FS_EmptySet
  <2>3. Some(s) \in s
    BY <2>2, Zenon DEF Some
  <2>4. IsFiniteSet(s \ {Some(s)}) /\ Cardinality(s \ {Some(s)}) = n
    BY <2>1, <2>3, FS_RemoveElement
  <2>5. g[s \ {Some(s)}] = h[s \ {Some(s)}]
    BY <1>2, <2>4
  <2> QED  BY <2>2, <2>5 DEF Sums
<1>3. \A n \in Nat : n \in P
  <2> HIDE DEF P
  <2> QED  BY <1>1, <1>2, AllNaturals
<1> QED  BY <1>3, FS_CardinalityType

Summing(f, g, S) == g = [s \in SUBSET S |-> IF s = {} THEN 0 ELSE f[Some(s)] + g[s \ {Some(s)}]]

LEMMA SumsExist ==
  ASSUME NEW f, NEW S, IsFiniteSet(S)
  PROVE  \E g : Summing(f, g, S)
<1> DEFINE Upto(n) == {s \in SUBSET S : Cardinality(s) <= n}
           Step(g, s) == IF s = {} THEN 0 ELSE f[Some(s)] + g[s \ {Some(s)}]
           P == {n \in Nat : \E g : g = [s \in Upto(n) |-> Step(g, s)]}
<1>0. \A s \in SUBSET S : IsFiniteSet(s) /\ Cardinality(s) \in Nat /\ Cardinality(s) <= Cardinality(S)
  BY FS_Subset, FS_CardinalityType
<1>1. 0 \in P
  <2> DEFINE g == [s \in Upto(0) |-> 0]
  <2>1. \A s \in Upto(0) : s = {}
    BY <1>0, FS_EmptySet
  <2>2. g = [s \in Upto(0) |-> Step(g, s)]
    BY <2>1
  <2> HIDE DEF g
  <2> QED  BY <2>2
<1>2. ASSUME NEW n \in Nat, n \in P
      PROVE  n + 1 \in P
  <2>1. PICK g : g = [s \in Upto(n) |-> Step(g, s)]
    BY <1>2
  <2> DEFINE h == [s \in Upto(n + 1) |-> IF s \in Upto(n) THEN g[s] ELSE f[Some(s)] + g[s \ {Some(s)}]]
  <2>2. ASSUME NEW s \in Upto(n + 1), s # {}
        PROVE  Some(s) \in s /\ s \ {Some(s)} \in Upto(n) /\ s \ {Some(s)} \in Upto(n + 1)
    <3>1. Some(s) \in s
      BY <2>2, Zenon DEF Some
    <3>2. Cardinality(s \ {Some(s)}) = Cardinality(s) - 1 /\ Cardinality(s) \in Nat
      BY <1>0, <3>1, FS_RemoveElement
    <3> QED  BY <3>1, <3>2
  <2>3. ASSUME NEW s \in Upto(n + 1), s \in Upto(n)
        PROVE  h[s] = Step(h, s)
    <3>1. h[s] = Step(g, s)
      BY <2>1, <2>3
    <3>2. s # {} => h[s \ {Some(s)}] = g[s \ {Some(s)}]
      BY <2>2, <2>3
    <3> QED  BY <3>1, <3>2
  <2>4. ASSUME NEW s \in Upto(n + 1), s \notin Upto(n)
        PROVE  h[s] = Step(h, s)
    <3>1. s # {}
      BY <2>4, FS_EmptySet
    <3>2. h[s \ {Some(s)}] = g[s \ {Some(s)}]
      BY <2>2, <3>1
    <3>3. h[s] = f[Some(s)] + g[s \ {Some(s)}]
      BY <2>4
    <3> QED  BY <3>1, <3>2, <3>3
  <2>5. h = [s \in Upto(n + 1) |-> h[s]]
    OBVIOUS
  <2>6. \A s \in Upto(n + 1) : h[s] = Step(h, s)
    BY <2>3, <2>4
  <2> HIDE DEF h, Upto, Step
  <2>7. h = [s \in Upto(n + 1) |-> Step(h, s)]
    BY <2>5, <2>6
  <2> QED  BY <2>7
<1>3. Cardinality(S) \in P
  <2> HIDE DEF P
  <2> QED  BY <1>1, <1>2, AllNaturals, FS_CardinalityType
<1>4. Upto(Cardinality(S)) = SUBSET S
  BY <1>0
<1> QED  BY <1>3, <1>4 DEF Summing

LEMMA SumIsSums ==
  ASSUME NEW f, NEW S, IsFiniteSet(S)
  PROVE  \E g : Sums(f, g, S) /\ SumFunctionOnSet(f, S) = g[S]
<1> DEFINE iter == CHOOSE g : Summing(f, g, S)
<1>1. SumFunctionOnSet(f, S) = iter[S]
  BY DEF SumFunctionOnSet, FoldFunctionOnSet, MapThenFoldSet, Some, Summing
<1>2. Summing(f, iter, S)
  BY SumsExist, Zenon
<1> HIDE DEF iter
<1>3. ASSUME NEW s \in SUBSET S
      PROVE  iter[s] = IF s = {} THEN 0 ELSE f[Some(s)] + iter[s \ {Some(s)}]
  BY <1>2 DEF Summing
<1>4. Sums(f, iter, S)
  BY <1>3 DEF Sums
<1> QED  BY <1>1, <1>4

LEMMA SumOfSome ==
  ASSUME NEW f, NEW S, IsFiniteSet(S)
  PROVE  /\ S = {} => SumFunctionOnSet(f, S) = 0
         /\ S # {} => SumFunctionOnSet(f, S) = f[Some(S)] + SumFunctionOnSet(f, S \ {Some(S)})
<1>1. PICK g : Sums(f, g, S) /\ SumFunctionOnSet(f, S) = g[S]
  BY SumIsSums
<1>2. g[S] = IF S = {} THEN 0 ELSE f[Some(S)] + g[S \ {Some(S)}]
  BY <1>1 DEF Sums
<1>3. IsFiniteSet(S \ {Some(S)})
  BY FS_RemoveElement
<1>4. PICK h : Sums(f, h, S \ {Some(S)}) /\ SumFunctionOnSet(f, S \ {Some(S)}) = h[S \ {Some(S)}]
  BY <1>3, SumIsSums
<1>5. Sums(f, g, S \ {Some(S)})
  BY <1>1 DEF Sums
<1>6. g[S \ {Some(S)}] = h[S \ {Some(S)}]
  BY <1>3, <1>4, <1>5, SumsAgree
<1> QED  BY <1>1, <1>2, <1>4, <1>6

LEMMA SumOfNone ==
  ASSUME NEW f
  PROVE  SumFunctionOnSet(f, {}) = 0 /\ SumFunctionOnSet(f, {}) \in Int
<1>1. IsFiniteSet({})
  BY FS_EmptySet
<1>2. SumFunctionOnSet(f, {}) = 0
  BY <1>1, SumOfSome
<1> QED  BY <1>2

\* A sum does not depend on the order in which it is made.
LEMMA SumOf ==
  ASSUME NEW f, NEW S, IsFiniteSet(S), \A x \in S : f[x] \in Int
  PROVE  /\ SumFunctionOnSet(f, S) \in Int
         /\ S = {} => SumFunctionOnSet(f, S) = 0
         /\ \A x \in S : SumFunctionOnSet(f, S) = f[x] + SumFunctionOnSet(f, S \ {x})
<1> DEFINE P == {n \in Nat : \A T \in SUBSET S : IsFiniteSet(T) /\ Cardinality(T) <= n =>
                   /\ SumFunctionOnSet(f, T) \in Int
                   /\ \A x \in T : SumFunctionOnSet(f, T) = f[x] + SumFunctionOnSet(f, T \ {x})}
<1>0. \A T \in SUBSET S : IsFiniteSet(T) /\ Cardinality(T) \in Nat /\ \A x \in T : Cardinality(T \ {x}) = Cardinality(T) - 1
  BY FS_Subset, FS_CardinalityType, FS_RemoveElement
<1>1. 0 \in P
  <2>1. SUFFICES ASSUME NEW T \in SUBSET S, Cardinality(T) <= 0
                 PROVE  SumFunctionOnSet(f, T) \in Int /\ T = {}
    OBVIOUS
  <2>2. T = {} /\ IsFiniteSet(T)
    BY <1>0, <2>1, FS_EmptySet
  <2> QED  BY <2>2, SumOfNone
<1>2. ASSUME NEW n \in Nat, n \in P
      PROVE  n + 1 \in P
  <2>1. SUFFICES ASSUME NEW T \in SUBSET S, Cardinality(T) <= n + 1
                 PROVE  /\ SumFunctionOnSet(f, T) \in Int
                        /\ \A x \in T : SumFunctionOnSet(f, T) = f[x] + SumFunctionOnSet(f, T \ {x})
    OBVIOUS
  <2>2. CASE T = {}
    BY <2>2, SumOfNone
  <2>3. CASE T # {}
    <3>1. PICK p \in T : p = Some(T)
      BY <2>3, Zenon DEF Some
    <3>2. SumFunctionOnSet(f, T) = f[p] + SumFunctionOnSet(f, T \ {p})
      BY <1>0, <2>3, <3>1, SumOfSome
    <3>3. ASSUME NEW x \in T
          PROVE  /\ SumFunctionOnSet(f, T \ {x}) \in Int
                 /\ \A y \in T \ {x} : /\ SumFunctionOnSet(f, T \ {x}) = f[y] + SumFunctionOnSet(f, (T \ {x}) \ {y})
                                       /\ SumFunctionOnSet(f, (T \ {x}) \ {y}) \in Int
      <4>1. IsFiniteSet(T \ {x}) /\ Cardinality(T \ {x}) <= n
        BY <1>0, <2>1
      <4>2. \A y \in T \ {x} : IsFiniteSet((T \ {x}) \ {y}) /\ Cardinality((T \ {x}) \ {y}) <= n
        BY <1>0, <4>1
      <4> QED  BY <1>2, <4>1, <4>2
    <3>4. SumFunctionOnSet(f, T) \in Int
      BY <3>2, <3>3
    <3>5. ASSUME NEW x \in T, x # p
          PROVE  SumFunctionOnSet(f, T) = f[x] + SumFunctionOnSet(f, T \ {x})
      <4> DEFINE rest == SumFunctionOnSet(f, (T \ {x}) \ {p})
      <4>1. (T \ {p}) \ {x} = (T \ {x}) \ {p}
        OBVIOUS
      <4>2. SumFunctionOnSet(f, T \ {p}) = f[x] + rest
        BY <3>3, <3>5, <4>1
      <4>3. SumFunctionOnSet(f, T \ {x}) = f[p] + rest /\ rest \in Int
        BY <3>3, <3>5
      <4> HIDE DEF rest
      <4> QED  BY <3>2, <4>2, <4>3
    <3> QED  BY <3>2, <3>4, <3>5
  <2> QED  BY <2>2, <2>3
<1>3. \A n \in Nat : n \in P
  <2> HIDE DEF P
  <2> QED  BY <1>1, <1>2, AllNaturals
<1>4. Cardinality(S) \in P /\ Cardinality(S) <= Cardinality(S)
  BY <1>0, <1>3
<1> QED  BY <1>4, SumOfNone

LEMMA SumOfZeros ==
  ASSUME NEW f, NEW S, IsFiniteSet(S), \A x \in S : f[x] = 0
  PROVE  SumFunctionOnSet(f, S) = 0
<1> DEFINE P == {n \in Nat : \A T \in SUBSET S : IsFiniteSet(T) /\ Cardinality(T) = n => SumFunctionOnSet(f, T) = 0}
<1>1. 0 \in P
  BY FS_EmptySet, SumOfNone
<1>2. ASSUME NEW n \in Nat, n \in P
      PROVE  n + 1 \in P
  <2>1. SUFFICES ASSUME NEW T \in SUBSET S, IsFiniteSet(T), Cardinality(T) = n + 1
                 PROVE  SumFunctionOnSet(f, T) = 0
    OBVIOUS
  <2>2. PICK x \in T : TRUE
    BY <2>1, FS_EmptySet
  <2>3. IsFiniteSet(T \ {x}) /\ Cardinality(T \ {x}) = n
    <3> HIDE DEF P
    <3>1. IsFiniteSet(T \ {x}) /\ Cardinality(T \ {x}) = Cardinality(T) - 1
      BY <2>1, <2>2, FS_RemoveElement, Zenon
    <3> QED  BY <2>1, <3>1
  <2>4. SumFunctionOnSet(f, T \ {x}) = 0
    BY <1>2, <2>3
  <2>5. SumFunctionOnSet(f, T) = f[x] + SumFunctionOnSet(f, T \ {x})
    <3>1. \A y \in T : f[y] \in Int
      OBVIOUS
    <3> QED  BY <2>1, <3>1, SumOf
  <2> QED  BY <2>4, <2>5
<1>3. \A n \in Nat : n \in P
  <2> HIDE DEF P
  <2> QED  BY <1>1, <1>2, AllNaturals
<1> QED  BY <1>3, FS_CardinalityType

LEMMA RangeOf ==
  ASSUME NEW S, NEW s \in Seq(S)
  PROVE  /\ Range(s) \subseteq S /\ DOMAIN s = 1 .. Len(s) /\ s \in Seq(Range(s))
         /\ \A x : x \in Range(s) <=> \E n \in 1 .. Len(s) : s[n] = x
<1>1. Len(s) \in Nat /\ s \in [1 .. Len(s) -> S] /\ DOMAIN s = 1 .. Len(s)
  BY LenProperties
<1>2. s \in [1 .. Len(s) -> Range(s)]
  BY <1>1 DEF Range
<1>3. s \in Seq(Range(s))
  BY <1>1, <1>2
<1> QED  BY <1>1, <1>3 DEF Range

LEMMA RangeOfNone == Range(<<>>) = {}
BY DEF Range

LEMMA RangeOfOne ==
  ASSUME NEW x
  PROVE  <<x>> \in Seq({x}) /\ Range(<<x>>) = {x}
<1>1. <<x>> \in Seq({x})
  OBVIOUS
<1>2. DOMAIN <<x>> = {1} /\ <<x>>[1] = x
  OBVIOUS
<1> QED  BY <1>1, <1>2 DEF Range

LEMMA RangeOfBoth ==
  ASSUME NEW S, NEW s \in Seq(S), NEW t \in Seq(S)
  PROVE  s \o t \in Seq(S) /\ Range(s \o t) = Range(s) \union Range(t)
<1>1. /\ s \o t \in Seq(S) /\ Len(s \o t) = Len(s) + Len(t) /\ Len(s) \in Nat /\ Len(t) \in Nat
      /\ \A n \in 1 .. Len(s) + Len(t) : (s \o t)[n] = IF n <= Len(s) THEN s[n] ELSE t[n - Len(s)]
  BY ConcatProperties, LenProperties
<1>2. ASSUME NEW x \in Range(s \o t)
      PROVE  x \in Range(s) \union Range(t)
  <2>1. PICK n \in 1 .. Len(s) + Len(t) : (s \o t)[n] = x
    BY <1>1, <1>2, RangeOf
  <2>2. CASE n <= Len(s)
    BY <1>1, <2>1, <2>2, RangeOf
  <2>3. CASE ~(n <= Len(s))
    <3>1. n - Len(s) \in 1 .. Len(t) /\ t[n - Len(s)] = x
      BY <1>1, <2>1, <2>3
    <3> QED  BY <3>1, RangeOf
  <2> QED  BY <2>2, <2>3
<1>3. ASSUME NEW x \in Range(s)
      PROVE  x \in Range(s \o t)
  <2>1. PICK n \in 1 .. Len(s) : s[n] = x
    BY <1>3, RangeOf
  <2>2. n \in 1 .. Len(s) + Len(t) /\ (s \o t)[n] = x
    BY <1>1, <2>1
  <2> QED  BY <1>1, <2>2, RangeOf
<1>4. ASSUME NEW x \in Range(t)
      PROVE  x \in Range(s \o t)
  <2>1. PICK n \in 1 .. Len(t) : t[n] = x
    BY <1>4, RangeOf
  <2>2. /\ n + Len(s) \in 1 .. Len(s) + Len(t) /\ ~(n + Len(s) <= Len(s))
        /\ (n + Len(s)) - Len(s) = n
    BY <1>1, <2>1
  <2>3. (s \o t)[n + Len(s)] = x
    BY <1>1, <2>1, <2>2
  <2> QED  BY <1>1, <2>2, <2>3, RangeOf
<1> QED  BY <1>1, <1>2, <1>3, <1>4

\* flatten[n] is ss[1] \o ... \o ss[n].
Flattening(ss, g, n) == g = [m \in 1 .. n |-> IF m = 1 THEN ss[m] ELSE g[m - 1] \o ss[m]]

LEMMA FlattensExist ==
  ASSUME NEW ss
  PROVE  \A n \in Nat : \E g : Flattening(ss, g, n)
<1> DEFINE P == {n \in Nat : \E g : Flattening(ss, g, n)}
<1>1. 0 \in P
  <2> DEFINE g == [m \in 1 .. 0 |-> 0]
  <2>1. Flattening(ss, g, 0)
    BY DEF Flattening
  <2> QED  BY <2>1
<1>2. ASSUME NEW n \in Nat, n \in P
      PROVE  n + 1 \in P
  <2>1. PICK g : Flattening(ss, g, n)
    BY <1>2
  <2> DEFINE Step(h, m) == IF m = 1 THEN ss[m] ELSE h[m - 1] \o ss[m]
             h == [m \in 1 .. n + 1 |-> IF m <= n THEN g[m] ELSE Step(g, m)]
  <2>2. \A m \in 1 .. n : g[m] = Step(g, m)
    BY <2>1 DEF Flattening
  <2>3. \A m \in 1 .. n + 1 : h[m] = Step(g, m)
    BY <2>2
  <2>4. \A m \in 1 .. n + 1 : m # 1 => m - 1 \in 1 .. n + 1 /\ m - 1 <= n /\ h[m - 1] = g[m - 1]
    OBVIOUS
  <2>5. \A m \in 1 .. n + 1 : h[m] = Step(h, m)
    BY <2>3, <2>4
  <2>6. h = [m \in 1 .. n + 1 |-> h[m]]
    OBVIOUS
  <2> HIDE DEF h
  <2>7. Flattening(ss, h, n + 1)
    BY <2>5, <2>6 DEF Flattening
  <2> QED  BY <2>7
<1>3. \A n \in Nat : n \in P
  <2> HIDE DEF P
  <2> QED  BY <1>1, <1>2, AllNaturals
<1> QED  BY <1>3

\* What a sequence of sequences holds is what they hold.
LEMMA Flattened ==
  ASSUME NEW S, NEW ss \in Seq(Seq(S))
  PROVE  /\ FlattenSeq(ss) \in Seq(S)
         /\ \A x : x \in Range(FlattenSeq(ss)) <=> \E n \in 1 .. Len(ss) : x \in Range(ss[n])
<1>1. Len(ss) \in Nat /\ \A n \in 1 .. Len(ss) : ss[n] \in Seq(S)
  BY LenProperties, ElementOfSeq
<1>2. CASE Len(ss) = 0
  <2>1. ss = <<>> /\ FlattenSeq(ss) = <<>>
    BY <1>1, <1>2, EmptySeq DEF FlattenSeq
  <2>2. ~ \E n \in 1 .. Len(ss) : TRUE
    BY <1>2
  <2> QED  BY <2>1, <2>2, RangeOfNone, EmptySeq
<1>3. CASE Len(ss) # 0
  <2> DEFINE g == CHOOSE g : Flattening(ss, g, Len(ss))
             Upto(n) == g[n] \in Seq(S) /\ \A x : x \in Range(g[n]) <=> \E m \in 1 .. n : x \in Range(ss[m])
             P == {n \in Nat : n \in 1 .. Len(ss) => Upto(n)}
  <2>1. FlattenSeq(ss) = g[Len(ss)]
    BY <1>3 DEF FlattenSeq, Flattening
  <2>2. Flattening(ss, g, Len(ss))
    BY <1>1, FlattensExist, Zenon
  <2> HIDE DEF g
  <2>3. \A m \in 1 .. Len(ss) : g[m] = IF m = 1 THEN ss[m] ELSE g[m - 1] \o ss[m]
    BY <2>2 DEF Flattening
  <2>4. 0 \in P
    OBVIOUS
  <2>5. ASSUME NEW n \in Nat, n \in P
        PROVE  n + 1 \in P
    <3>1. SUFFICES ASSUME n + 1 \in 1 .. Len(ss)
                   PROVE  Upto(n + 1)
      OBVIOUS
    <3>2. CASE n = 0
      <4>1. g[1] = ss[1] /\ ss[1] \in Seq(S) /\ \A m \in 1 .. 1 : m = 1
        BY <1>1, <2>3, <3>1, <3>2
      <4>2. Upto(1)
        BY <4>1
      <4> QED  BY <3>2, <4>2
    <3>3. CASE n # 0
      <4>1. n \in 1 .. Len(ss) /\ n + 1 # 1 /\ (n + 1) - 1 = n
        BY <1>1, <3>1, <3>3
      <4>2. g[n + 1] = g[n] \o ss[n + 1] /\ ss[n + 1] \in Seq(S)
        BY <1>1, <2>3, <3>1, <4>1
      <4>3. Upto(n)
        BY <2>5, <4>1
      <4>4. g[n + 1] \in Seq(S) /\ Range(g[n + 1]) = Range(g[n]) \union Range(ss[n + 1])
        BY <4>2, <4>3, RangeOfBoth
      <4>5. \A m : m \in 1 .. n + 1 <=> m \in 1 .. n \/ m = n + 1
        BY <3>3
      <4> QED  BY <4>3, <4>4, <4>5
    <3> QED  BY <3>2, <3>3
  <2>6. \A n \in Nat : n \in P
    <3> HIDE DEF P
    <3> QED  BY <2>4, <2>5, AllNaturals
  <2>7. Upto(Len(ss))
    <3>1. Len(ss) \in Nat /\ Len(ss) \in 1 .. Len(ss)
      BY <1>1, <1>3
    <3> HIDE DEF Upto
    <3> QED  BY <2>6, <3>1
  <2> QED  BY <2>1, <2>7
<1> QED  BY <1>2, <1>3

LEMMA AmongIs ==
  ASSUME NEW S, NEW s \in Seq(S), NEW K
  PROVE  Among(s, K) \in Seq(S) /\ Range(Among(s, K)) = Range(s) \intersect K
<1> DEFINE ss == [n \in DOMAIN s |-> IF s[n] \in K THEN <<s[n]>> ELSE <<>>]
<1>1. Len(s) \in Nat /\ DOMAIN s = 1 .. Len(s) /\ \A n \in 1 .. Len(s) : s[n] \in S
  BY LenProperties, ElementOfSeq
<1>2. ASSUME NEW n \in 1 .. Len(s)
      PROVE  ss[n] \in Seq(S) /\ Range(ss[n]) = {s[n]} \intersect K
  <2>1. s[n] \in S /\ ss[n] = IF s[n] \in K THEN <<s[n]>> ELSE <<>>
    BY <1>1
  <2>2. CASE s[n] \in K
    <3>1. <<s[n]>> \in Seq(S)
      BY <2>1
    <3> QED  BY <2>1, <2>2, <3>1, RangeOfOne
  <2>3. CASE s[n] \notin K
    BY <2>1, <2>3, RangeOfNone, EmptySeq
  <2> QED  BY <2>2, <2>3
<1>3. ss = [n \in 1 .. Len(s) |-> ss[n]]
  BY <1>1
<1> HIDE DEF ss
<1>4. ss \in Seq(Seq(S)) /\ Len(ss) = Len(s)
  BY <1>1, <1>2, <1>3
<1>5. Among(s, K) = FlattenSeq(ss)
  BY DEF Among, ss
<1>6. FlattenSeq(ss) \in Seq(S) /\ \A x : x \in Range(FlattenSeq(ss)) <=> \E n \in 1 .. Len(s) : x \in Range(ss[n])
  BY <1>4, Flattened
<1>7. \A x : x \in Range(s) <=> \E n \in 1 .. Len(s) : s[n] = x
  BY RangeOf
<1>8. \A x : x \in Range(Among(s, K)) <=> x \in Range(s) /\ x \in K
  BY <1>2, <1>5, <1>6, <1>7
<1> QED  BY <1>5, <1>6, <1>8

LEMMA SetToSeqIs ==
  ASSUME NEW S, IsFiniteSet(S)
  PROVE  SetToSeq(S) \in Seq(S) /\ Range(SetToSeq(S)) = S
<1> DEFINE n == Cardinality(S)
           D == 1 .. n
<1>1. n \in Nat /\ ExistsBijection(D, S)
  BY FS_CardinalityType
<1>2. \E f \in [D -> S] : IsInjective(f)
  BY <1>1 DEF ExistsBijection, Bijection, Injection
<1>3. SetToSeq(S) = CHOOSE f \in [D -> S] : IsInjective(f)
  BY DEF SetToSeq
<1> HIDE DEF D
<1>4. PICK f \in [D -> S] : f = SetToSeq(S) /\ IsInjective(f)
  BY <1>2, <1>3, Zenon
<1>5. f \in Surjection(D, S)
  <2>1. IsFiniteSet(D) /\ Cardinality(D) = n
    BY <1>1, FS_Interval DEF D
  <2>2. f \in Injection(D, S)
    BY <1>4 DEF Injection
  <2> QED  BY <2>1, <2>2, FS_Injection
<1>6. Range(f) = S
  BY <1>5 DEF Surjection, Range
<1>7. f \in Seq(S)
  BY <1>1, <1>4 DEF D
<1> QED  BY <1>4, <1>6, <1>7

-----------------------------------------------------------------------------
(* The budget *)

LEMMA Remainders ==
  ASSUME NEW a \in Nat, NEW m \in Nat \ {0}
  PROVE  /\ a % m \in 0 .. m - 1
         /\ a < m => a % m = a
         /\ a >= m => a % m <= a - m
         /\ m <= a /\ a < m + m => a % m = a - m
         /\ a \div m \in Nat /\ a = m * (a \div m) + (a % m)
OBVIOUS

\* In w bits a number that has no room there becomes a smaller one.
LEMMA Wrapped ==
  ASSUME NEW x \in Nat
  PROVE  /\ Wrap(x) \in Int /\ Wrap(x) < Widest
         /\ x < Widest => Wrap(x) = x
         /\ x >= Widest => Wrap(x) < x
         /\ Widest <= x /\ x < Widest + Widest => Wrap(x) < 0
<1> DEFINE m == 2 * Widest
           a == x + Widest
<1>1. m \in Nat \ {0} /\ a \in Nat /\ m = Widest + Widest /\ Widest \in Nat \ {0}
  BY HydrateAssumption
<1>2. Wrap(x) = (a % m) - Widest
  BY DEF Wrap
<1>3. a = x + Widest
  OBVIOUS
<1> HIDE DEF m, a
<1>4. /\ a % m \in 0 .. m - 1
      /\ a < m => a % m = a
      /\ a >= m => a % m <= a - m
  BY <1>1, Remainders
<1> QED  BY <1>1, <1>2, <1>3, <1>4

LEMMA Products ==
  ASSUME NEW c \in Nat, NEW w \in Nat \ {0}
  PROVE  c * w \in Nat /\ (c = 0 => c * w = 0)
OBVIOUS

\* A product that has overflowed does not divide again to what it was made of.
LEMMA Divides ==
  ASSUME NEW c \in Nat, NEW w \in Nat \ {0}, c = 0 \/ Quotient(Wrap(c * w), w) = c
  PROVE  c * w \in Nat /\ Wrap(c * w) = c * w /\ c * w < Widest
<1> DEFINE x == c * w
           y == Wrap(x)
<1>1. x \in Nat /\ Widest \in Nat \ {0} /\ (c = 0 => x = 0)
  BY Products, HydrateAssumption
<1> HIDE DEF x
<1>2. y \in Int /\ (x < Widest => y = x) /\ (x >= Widest => y < x)
  BY <1>1, Wrapped
<1> HIDE DEF y
<1>3. ASSUME x >= Widest
      PROVE  FALSE
  <2>1. c # 0 /\ Quotient(y, w) = c /\ y < x
    BY <1>1, <1>2, <1>3 DEF x, y
  <2>2. CASE y >= 0
    <3>1. y \in Nat
      BY <1>2, <2>2
    <3>2. y % w \in 0 .. w - 1 /\ y = w * (y \div w) + (y % w)
      BY <3>1, Remainders
    <3>3. y \div w = c
      BY <2>1, <2>2 DEF Quotient
    <3>4. y = w * c + (y % w) /\ w * c = x
      BY <3>2, <3>3 DEF x
    <3>5. PICK r \in Nat : r = y % w
      BY <3>2
    <3>6. y = x + r
      BY <3>4, <3>5
    <3> QED  BY <1>1, <2>1, <3>6
  <2>3. CASE y < 0
    <3>1. PICK z \in Nat : z = -y
      BY <1>2, <2>3
    <3>2. z \div w \in Nat
      BY Remainders
    <3>3. Quotient(y, w) = -(z \div w)
      BY <1>2, <2>3, <3>1 DEF Quotient
    <3> QED  BY <2>1, <3>2, <3>3
  <2> QED  BY <1>2, <2>2, <2>3
<1> QED  BY <1>1, <1>2, <1>3 DEF x, y

Totalling(g, cells, n) == g = [t \in 0 .. n |-> IF t = 0 THEN 0 ELSE Wrap(g[t - 1] + cells[t])]

LEMMA TotalsExist ==
  ASSUME NEW cells
  PROVE  \A n \in Nat : \E g : Totalling(g, cells, n)
<1> DEFINE P == {n \in Nat : \E g : Totalling(g, cells, n)}
<1>1. 0 \in P
  <2> DEFINE g == [t \in 0 .. 0 |-> 0]
  <2>1. Totalling(g, cells, 0)
    BY DEF Totalling
  <2> QED  BY <2>1
<1>2. ASSUME NEW n \in Nat, n \in P
      PROVE  n + 1 \in P
  <2>1. PICK g : Totalling(g, cells, n)
    BY <1>2
  <2> DEFINE Step(h, t) == IF t = 0 THEN 0 ELSE Wrap(h[t - 1] + cells[t])
             h == [t \in 0 .. n + 1 |-> IF t <= n THEN g[t] ELSE Step(g, t)]
  <2>2. \A t \in 0 .. n : g[t] = Step(g, t)
    BY <2>1 DEF Totalling
  <2>3. \A t \in 0 .. n + 1 : h[t] = Step(g, t)
    BY <2>2
  <2>4. \A t \in 0 .. n + 1 : t # 0 => t - 1 \in 0 .. n + 1 /\ t - 1 <= n /\ h[t - 1] = g[t - 1]
    OBVIOUS
  <2>5. \A t \in 0 .. n + 1 : h[t] = Step(h, t)
    BY <2>3, <2>4
  <2>6. h = [t \in 0 .. n + 1 |-> h[t]]
    OBVIOUS
  <2> HIDE DEF h
  <2>7. Totalling(h, cells, n + 1)
    BY <2>5, <2>6 DEF Totalling
  <2> QED  BY <2>7
<1>3. \A n \in Nat : n \in P
  <2> HIDE DEF P
  <2> QED  BY <1>1, <1>2, AllNaturals
<1> QED  BY <1>3

Typed == run \in Runs /\ counts \in [Tabs -> 0 .. Widest - 1]

LEMMA TabsAre ==
  ASSUME run \in Runs
  PROVE  /\ Len(run.tables) \in Nat /\ Tabs = 1 .. Len(run.tables) /\ IsFiniteSet(Tabs)
         /\ \A t \in Tabs : IsTable(Tab(t))
<1>1. run.tables \in Seq(Range(run.tables))
  BY RunsAssumption
<1>2. Len(run.tables) \in Nat /\ Tabs = 1 .. Len(run.tables)
  BY <1>1, LenProperties DEF Tabs
<1>3. IsFiniteSet(Tabs)
  BY <1>2, FS_Interval
<1> QED  BY <1>2, <1>3, RunsAssumption DEF Tab, Tabs

\* What checkBudget lets through is, in exact arithmetic, within the limit.
LEMMA FitsWithin ==
  ASSUME Typed, Fits, Limit >= 0
  PROVE  SumFunctionOnSet([t \in Tabs |-> counts[t] * Width(t)], Tabs) <= Limit
<1> DEFINE n     == Len(run.tables)
           cells == [t \in Tabs |-> Wrap(counts[t] * Width(t))]
           total == CHOOSE g : Totalling(g, cells, n)
           exact == [t \in Tabs |-> counts[t] * Width(t)]
<1>1. n \in Nat /\ Tabs = 1 .. n /\ \A t \in Tabs : IsTable(Tab(t))
  BY TabsAre DEF Typed
<1>2. Limit \in Int
  BY RunsAssumption, HydrateAssumption DEF Limit, Typed
<1>3. /\ \A t \in Tabs : (counts[t] = 0 \/ Quotient(cells[t], Width(t)) = counts[t]) /\ total[t] >= 0
      /\ total[n] <= Limit
  <2>1. \/ Limit < 0
        \/ /\ \A t \in Tabs : /\ counts[t] = 0 \/ Quotient(cells[t], Width(t)) = counts[t]
                              /\ total[t] >= 0
           /\ total[n] <= Limit
    BY Zenon DEF Fits, Totalling
  <2> HIDE DEF cells, total, n
  <2> QED  BY <1>2, <2>1
<1>4. Totalling(total, cells, n)
  BY <1>1, TotalsExist, Zenon
<1> HIDE DEF total
<1>5. ASSUME NEW t \in Tabs
      PROVE  exact[t] \in Nat /\ exact[t] < Widest /\ cells[t] = exact[t]
  <2>1. Width(t) \in Nat \ {0}
    <3>1. Cardinality(Cols(t)) \in Nat
      BY <1>1, FS_CardinalityType DEF IsTable, Cols
    <3> QED  BY <3>1 DEF Width, Greater
  <2>2. counts[t] \in Nat
    BY HydrateAssumption DEF Typed
  <2>3. cells[t] = Wrap(counts[t] * Width(t)) /\ exact[t] = counts[t] * Width(t)
    OBVIOUS
  <2> QED  BY <1>3, <2>1, <2>2, <2>3, Divides
<1> HIDE DEF cells, exact
<1>6. \A t \in 0 .. n : total[t] = IF t = 0 THEN 0 ELSE Wrap(total[t - 1] + cells[t])
  BY <1>4 DEF Totalling
<1> DEFINE P == {t \in Nat : t <= n => total[t] \in Nat /\ total[t] < Widest /\ total[t] = SumFunctionOnSet(exact, 1 .. t)}
<1>7. 0 \in P
  <2>1. 1 .. 0 = {} /\ Widest \in Nat \ {0}
    BY HydrateAssumption
  <2>2. total[0] = 0
    BY <1>1, <1>6
  <2> QED  BY <2>1, <2>2, SumOfNone
<1>8. ASSUME NEW t \in Nat, t \in P
      PROVE  t + 1 \in P
  <2>1. SUFFICES ASSUME t + 1 <= n
                 PROVE  /\ total[t + 1] \in Nat /\ total[t + 1] < Widest
                        /\ total[t + 1] = SumFunctionOnSet(exact, 1 .. t + 1)
    OBVIOUS
  <2>2. total[t] \in Nat /\ total[t] < Widest /\ total[t] = SumFunctionOnSet(exact, 1 .. t)
    BY <1>1, <1>8, <2>1
  <2>3. t + 1 \in Tabs /\ t + 1 \in 0 .. n /\ t + 1 # 0 /\ (t + 1) - 1 = t
    BY <1>1, <2>1
  <2>4. total[t + 1] = Wrap(total[t] + exact[t + 1]) /\ total[t + 1] >= 0
    BY <1>3, <1>5, <1>6, <2>3
  <2>5. exact[t + 1] \in Nat /\ exact[t + 1] < Widest
    BY <1>5, <2>3
  <2>6. total[t + 1] = total[t] + exact[t + 1] /\ total[t + 1] < Widest /\ total[t + 1] \in Nat
    <3> DEFINE x == total[t] + exact[t + 1]
    <3>1. x \in Nat /\ x < Widest + Widest /\ Widest \in Nat
      BY <2>2, <2>5, HydrateAssumption
    <3>2. total[t + 1] = Wrap(x)
      BY <2>4
    <3> HIDE DEF x
    <3>3. x < Widest
      BY <2>4, <3>1, <3>2, Wrapped
    <3>4. Wrap(x) = x
      BY <3>1, <3>3, Wrapped
    <3> QED  BY <3>1, <3>2, <3>3, <3>4 DEF x
  <2>7. IsFiniteSet(1 .. t + 1) /\ \A s \in 1 .. t + 1 : exact[s] \in Int
    <3>1. \A s \in 1 .. t + 1 : s \in Tabs
      BY <1>1, <2>1
    <3> QED  BY <1>5, <3>1, FS_Interval
  <2>8. (1 .. t + 1) \ {t + 1} = 1 .. t /\ t + 1 \in 1 .. t + 1
    OBVIOUS
  <2>9. SumFunctionOnSet(exact, 1 .. t + 1) = exact[t + 1] + SumFunctionOnSet(exact, (1 .. t + 1) \ {t + 1})
    <3> DEFINE S == 1 .. t + 1
    <3>1. IsFiniteSet(S) /\ (\A s \in S : exact[s] \in Int) /\ t + 1 \in S
      BY <2>7, <2>8
    <3> HIDE DEF S
    <3>2. SumFunctionOnSet(exact, S) = exact[t + 1] + SumFunctionOnSet(exact, S \ {t + 1})
      BY <3>1, SumOf, Zenon
    <3> QED  BY <3>2 DEF S
  <2>10. SumFunctionOnSet(exact, 1 .. t + 1) = exact[t + 1] + total[t]
    BY <2>2, <2>8, <2>9
  <2> QED  BY <2>2, <2>5, <2>6, <2>10
<1>9. \A t \in Nat : t \in P
  <2> HIDE DEF P
  <2> QED  BY <1>7, <1>8, AllNaturals
<1>10. total[n] = SumFunctionOnSet(exact, Tabs)
  BY <1>1, <1>9
<1> QED  BY <1>3, <1>10 DEF exact

-----------------------------------------------------------------------------
(* What is generated for a cell *)

IsValue(v) == v[1] \in Shapes /\ v[2] \in Int

LEMMA ShapesAre ==
  /\ "null" \in Shapes /\ "int" \in Shapes /\ "time" \in Shapes /\ "text" \in Shapes /\ "literal" \in Shapes
  /\ "label" \in Shapes /\ "bool" \in Shapes /\ "json" \in Shapes /\ "uuid" \in Shapes
BY DEF Shapes

LEMMA TheIs ==
  ASSUME NEW S, S # {}
  PROVE  The(S) \in S
BY Zenon DEF The

LEMMA NumberIs ==
  ASSUME NEW c, IsColumn(c), NEW n \in Int, NEW unique \in BOOLEAN, unique \/ n \in Nat
  PROVE  NumericInRange(c, n, unique) \in Int
<1>1. CASE c.range = {}
  BY <1>1 DEF NumericInRange
<1>2. CASE c.range # {}
  <2>1. PICK r \in c.range : r = The(c.range)
    BY <1>2, TheIs
  <2>2. r.lo \in Int /\ r.hi \in Int /\ r.lo <= r.hi
    BY <2>1 DEF IsColumn, IsRange
  <2>3. NumericInRange(c, n, unique) = IF unique THEN r.lo + n ELSE r.lo + (n % (r.hi - r.lo + 1))
    BY <1>2, <2>1 DEF NumericInRange
  <2>4. CASE unique
    BY <2>2, <2>3, <2>4
  <2>5. CASE ~unique
    <3>1. r.hi - r.lo + 1 \in Nat \ {0}
      BY <2>2
    <3>2. n % (r.hi - r.lo + 1) \in Int
      BY <2>5, <3>1, Remainders
    <3> QED  BY <2>2, <2>3, <2>5, <3>2
  <2> QED  BY <2>4, <2>5
<1> QED  BY <1>1, <1>2

LEMMA TimeIs ==
  ASSUME NEW c, IsColumn(c), NEW n \in Nat
  PROVE  TemporalInRange(c, n) \in Int
<1>1. CASE c.range = {}
  BY <1>1 DEF TemporalInRange
<1>2. CASE c.range # {}
  <2>1. PICK r \in c.range : r = The(c.range)
    BY <1>2, TheIs
  <2>2. r.lo \in Int /\ r.hi \in Int /\ r.lo <= r.hi /\ Grain \in Nat \ {0}
    BY <2>1, SynthesisAssumption DEF IsColumn, IsRange
  <2> DEFINE span == (r.hi - r.lo) * Grain
  <2>3. TemporalInRange(c, n) = IF span = 0 THEN r.lo ELSE r.lo + (n % span) \div Grain
    BY <1>2, <2>1 DEF TemporalInRange
  <2>4. span \in Nat
    BY <2>2, Products
  <2> HIDE DEF span
  <2>5. CASE span = 0
    BY <2>2, <2>3, <2>5
  <2>6. CASE span # 0
    <3>1. n % span \in Nat
      BY <2>4, <2>6, Remainders
    <3>2. (n % span) \div Grain \in Nat
      BY <2>2, <3>1, Remainders
    <3> QED  BY <2>2, <2>3, <2>6, <3>2
  <2> QED  BY <2>5, <2>6
<1> QED  BY <1>1, <1>2

LEMMA FakeIs ==
  ASSUME NEW c, IsColumn(c), NEW type, NEW n \in Nat, NEW unique \in BOOLEAN
  PROVE  IsValue(FakeValue(c, type, n, unique)) /\ FakeValue(c, type, n, unique) # Null
<1>1. n % 2 \in Int /\ n % Short \in Int
  BY Remainders, SynthesisAssumption
<1>2. NumericInRange(c, n, unique) \in Int /\ TemporalInRange(c, n) \in Int
  BY NumberIs, TimeIs
<1> QED  BY <1>1, <1>2, ShapesAre DEF FakeValue, IsValue, Null

LEMMA GeneratedIs ==
  ASSUME NEW c, IsColumn(c), NEW ord \in Nat, NEW draw \in Nat
  PROVE  IsValue(GenerateValue(c, ord, draw))
<1>0. c.labels \in Nat \ {0} /\ c.distinct \in Int
  BY DEF IsColumn
<1>1. draw % c.labels \in Int /\ NumericInRange(c, draw, FALSE) \in Int
  <2>1. draw % c.labels \in Int
    BY <1>0, Remainders
  <2>2. \A unique \in BOOLEAN : NumericInRange(c, draw, unique) \in Int
    BY NumberIs
  <2>3. NumericInRange(c, draw, FALSE) \in Int
    BY <2>2, Zenon
  <2> QED  BY <2>1, <2>3
<1>2. Number(c, ord, draw) \in Nat
  BY <1>0, Remainders DEF Number
<1>3. ASSUME NEW unique \in BOOLEAN
      PROVE  IsValue(FakeValue(c, c.type, Number(c, ord, draw), unique))
  BY <1>2, FakeIs
<1>4. c.unique \in BOOLEAN
  BY DEF IsColumn
<1>5. IsValue(FakeValue(c, c.type, Number(c, ord, draw), c.unique))
  BY <1>3, <1>4
<1> DEFINE l == draw % c.labels
           m == NumericInRange(c, draw, FALSE)
<1>6. IsValue(Null) /\ IsValue(<<"label", l>>) /\ IsValue(<<"int", m>>)
  <2>1. l \in Int /\ m \in Int
    BY <1>1
  <2> HIDE DEF l, m
  <2> QED  BY <2>1, ShapesAre DEF IsValue, Null
<1> QED  BY <1>5, <1>6 DEF GenerateValue

\* A finite set of integers has an ascending enumeration.
LEMMA Ascending ==
  ASSUME NEW S, IsFiniteSet(S), S \subseteq Int
  PROVE  \E s \in [1 .. Cardinality(S) -> S] : \A k, l \in DOMAIN s : k < l => s[k] < s[l]
<1> DEFINE P == {n \in Nat : \A T \in SUBSET Int : IsFiniteSet(T) /\ Cardinality(T) = n =>
                   \E s \in [1 .. n -> T] : \A k, l \in 1 .. n : k < l => s[k] < s[l]}
<1>1. 0 \in P
  <2>1. SUFFICES ASSUME NEW T \in SUBSET Int, IsFiniteSet(T), Cardinality(T) = 0
                 PROVE  \E s \in [1 .. 0 -> T] : \A k, l \in 1 .. 0 : k < l => s[k] < s[l]
    OBVIOUS
  <2> DEFINE s == [k \in 1 .. 0 |-> 0]
  <2>2. s \in [1 .. 0 -> T] /\ \A k, l \in 1 .. 0 : k < l => s[k] < s[l]
    OBVIOUS
  <2> QED  BY <2>2
<1>2. ASSUME NEW n \in Nat, n \in P
      PROVE  n + 1 \in P
  <2>1. SUFFICES ASSUME NEW T \in SUBSET Int, IsFiniteSet(T), Cardinality(T) = n + 1
                 PROVE  \E s \in [1 .. n + 1 -> T] : \A k, l \in 1 .. n + 1 : k < l => s[k] < s[l]
    OBVIOUS
  <2>2. T # {}
    BY <2>1, FS_EmptySet
  <2>3. PICK h \in T : \A x \in T : x <= h
    BY <2>1, <2>2, FiniteHighest
  <2>4. IsFiniteSet(T \ {h}) /\ Cardinality(T \ {h}) = n
    BY <2>1, FS_RemoveElement
  <2>5. PICK r \in [1 .. n -> T \ {h}] : \A k, l \in 1 .. n : k < l => r[k] < r[l]
    BY <1>2, <2>4
  <2> DEFINE s == [k \in 1 .. n + 1 |-> IF k <= n THEN r[k] ELSE h]
  <2>6. ASSUME NEW k \in 1 .. n
        PROVE  r[k] \in T /\ r[k] < h
    <3>1. r[k] \in T /\ r[k] # h
      BY <2>5
    <3>2. r[k] \in Int /\ h \in Int /\ r[k] <= h
      BY <2>3, <3>1
    <3> QED  BY <3>1, <3>2
  <2>7. s \in [1 .. n + 1 -> T]
    BY <2>6
  <2>8. ASSUME NEW k \in 1 .. n + 1, NEW l \in 1 .. n + 1, k < l
        PROVE  s[k] < s[l]
    <3>1. k \in 1 .. n /\ s[k] = r[k]
      BY <2>8
    <3>2. CASE l <= n
      BY <2>5, <2>8, <3>1, <3>2
    <3>3. CASE ~(l <= n)
      BY <2>6, <2>8, <3>1, <3>3
    <3> QED  BY <3>2, <3>3
  <2> HIDE DEF s
  <2> QED  BY <2>7, <2>8
<1>3. \A n \in Nat : n \in P
  <2> HIDE DEF P
  <2> QED  BY <1>1, <1>2, AllNaturals
<1>4. PICK s \in [1 .. Cardinality(S) -> S] : \A k, l \in 1 .. Cardinality(S) : k < l => s[k] < s[l]
  BY <1>3, FS_CardinalityType
<1> QED  BY <1>4

IsDomain(dom) ==
  /\ dom.values \subseteq Int /\ IsFiniteSet(dom.values)
  /\ \A b \in dom.bounds : b.lo \in Int /\ b.hi \in Int
  /\ IsFiniteSet(dom.bounds)

LEMMA ClampedIs ==
  ASSUME NEW v, IsValue(v), NEW bounds, IsFiniteSet(bounds), \A b \in bounds : b.lo \in Int /\ b.hi \in Int
  PROVE  IsValue(ClampNumeric(v, bounds))
<1>1. CASE v[1] # "int" \/ bounds = {}
  BY <1>1 DEF ClampNumeric
<1>2. CASE v[1] = "int" /\ bounds # {}
  <2> DEFINE los == {x.lo : x \in bounds}
             his == {-x.hi : x \in bounds}
             fl == [x \in bounds |-> x.lo]
             fh == [x \in bounds |-> -x.hi]
  <2>1. fl \in Surjection(bounds, los) /\ fh \in Surjection(bounds, his)
    BY DEF Surjection
  <2>2. IsFiniteSet(los) /\ IsFiniteSet(his) /\ los \subseteq Int /\ his \subseteq Int /\ los # {} /\ his # {}
    BY <1>2, <2>1, FS_Surjection
  <2>3. \E b \in bounds : \A x \in bounds : x.lo <= b.lo
    <3>1. Highest(los) \in los /\ \A y \in los : y <= Highest(los)
      BY <2>2, FiniteHighest
    <3> QED  BY <3>1
  <2>4. \E b \in bounds : \A x \in bounds : x.hi >= b.hi
    <3>1. Highest(his) \in his /\ \A y \in his : y <= Highest(his)
      BY <2>2, FiniteHighest
    <3>2. PICK b \in bounds : -b.hi = Highest(his)
      BY <3>1
    <3>3. ASSUME NEW x \in bounds
          PROVE  x.hi >= b.hi
      <4>1. -x.hi <= -b.hi /\ x.hi \in Int /\ b.hi \in Int
        BY <3>1, <3>2
      <4> QED  BY <4>1
    <3> QED  BY <3>3
  <2> DEFINE lo == CHOOSE b \in bounds : \A x \in bounds : x.lo <= b.lo
             hi == CHOOSE b \in bounds : \A x \in bounds : x.hi >= b.hi
  <2>5. lo \in bounds /\ hi \in bounds
    BY <2>3, <2>4, Zenon
  <2>6. ClampNumeric(v, bounds) = <<"int", Lesser(Greater(v[2], lo.lo), hi.hi)>>
    BY <1>2 DEF ClampNumeric
  <2> HIDE DEF lo, hi
  <2>7. lo.lo \in Int /\ hi.hi \in Int /\ v[2] \in Int
    BY <2>5 DEF IsValue
  <2>8. Lesser(Greater(v[2], lo.lo), hi.hi) \in Int
    BY <2>7 DEF Lesser, Greater
  <2> QED  BY <2>6, <2>8, ShapesAre DEF IsValue
<1> QED  BY <1>1, <1>2

LEMMA AppliedIs ==
  ASSUME NEW v, IsValue(v), NEW dom, IsDomain(dom), NEW draw \in Nat
  PROVE  IsValue(ApplyCheckDomain(v, dom, draw))
<1>1. CASE v = Null
  BY <1>1 DEF ApplyCheckDomain
<1>2. CASE v # Null /\ dom.values # {}
  <2> DEFINE n == Cardinality(dom.values)
             nth == CHOOSE s \in [1 .. n -> dom.values] : \A k, l \in DOMAIN s : k < l => s[k] < s[l]
  <2>1. n \in Nat \ {0}
    BY <1>2, FS_CardinalityType, FS_EmptySet DEF IsDomain
  <2>2. \E s \in [1 .. n -> dom.values] : \A k, l \in DOMAIN s : k < l => s[k] < s[l]
    BY Ascending DEF IsDomain
  <2>3. nth \in [1 .. n -> dom.values]
    BY <2>2, Zenon
  <2>4. ApplyCheckDomain(v, dom, draw) = <<"literal", nth[(draw % Len(nth)) + 1]>>
    BY <1>2 DEF ApplyCheckDomain
  <2> HIDE DEF nth, n
  <2>5. Len(nth) = n
    BY <2>1, <2>3
  <2>6. (draw % n) + 1 \in 1 .. n
    BY <2>1, Remainders
  <2>7. nth[(draw % Len(nth)) + 1] \in Int
    BY <2>3, <2>5, <2>6 DEF IsDomain
  <2> QED  BY <2>4, <2>7, ShapesAre DEF IsValue
<1>3. CASE v # Null /\ dom.values = {}
  BY <1>3, ClampedIs DEF ApplyCheckDomain, IsDomain
<1> QED  BY <1>1, <1>2, <1>3

LEMMA DomainsAre ==
  ASSUME NEW tab, IsTable(tab), NEW c
  PROVE  IsDomain(CheckDomains(tab, c))
<1> DEFINE all  == Range(tab.cons)
           cons == {con \in all : con.kind = "check" /\ con.known /\ ~con.notValid /\ con.read /\ con.col = c}
           vals == {con.values : con \in cons}
           bnds == {con.bounds : con \in cons}
           fv == [con \in cons |-> con.values]
           fb == [con \in cons |-> con.bounds]
           dom == CheckDomains(tab, c)
<1>1. IsFiniteSet(all)
  <2>1. tab.cons \in Seq(all)
    BY DEF IsTable
  <2>2. IsFiniteSet(DOMAIN tab.cons) /\ tab.cons \in [DOMAIN tab.cons -> all]
    BY <2>1, LenProperties, FS_Interval
  <2> QED  BY <2>2, RangeFinite
<1>2. IsFiniteSet(cons)
  BY <1>1, FS_Subset
<1>3. \A con \in cons : IsConstraint(con)
  BY DEF IsTable
<1>4. dom.values = {v \in UNION vals : \A con \in cons : con.values = {} \/ v \in con.values} /\ dom.bounds = UNION bnds
  BY DEF CheckDomains
<1>5. fv \in Surjection(cons, vals) /\ fb \in Surjection(cons, bnds)
  <2> HIDE DEF cons
  <2> QED  BY DEF Surjection
<1> HIDE DEF cons, all
<1>6. IsFiniteSet(vals) /\ IsFiniteSet(bnds)
  <2> HIDE DEF vals, bnds, fv, fb
  <2> QED  BY <1>2, <1>5, FS_Surjection
<1>7. \A T \in vals : IsFiniteSet(T) /\ T \subseteq Int
  BY <1>3 DEF IsConstraint
<1>8. \A T \in bnds : IsFiniteSet(T) /\ \A b \in T : b.lo \in Int /\ b.hi \in Int
  BY <1>3 DEF IsConstraint
<1> HIDE DEF vals, bnds, fv, fb, dom
<1>9. IsFiniteSet(UNION vals) /\ IsFiniteSet(UNION bnds)
  BY <1>6, <1>7, <1>8, FS_UNION
<1>10. dom.values \subseteq UNION vals
  BY <1>4
<1>11. IsFiniteSet(dom.values) /\ dom.values \subseteq Int
  BY <1>7, <1>9, <1>10, FS_Subset
<1>12. IsFiniteSet(dom.bounds) /\ \A b \in dom.bounds : b.lo \in Int /\ b.hi \in Int
  BY <1>4, <1>8, <1>9
<1> QED  BY <1>11, <1>12 DEF dom, IsDomain

-----------------------------------------------------------------------------
(* The parents of the children *)

LEMMA WholeNumbers ==
  /\ \A a \in Int : \A m \in Nat \ {0} : a \div m \in Int
  /\ \A a, b \in Int : a * b \in Int
OBVIOUS

LEMMA RoundedIs ==
  ASSUME NEW n \in Int, NEW d \in Nat \ {0}
  PROVE  Rounded(n, d) \in Int
<1> DEFINE a == 2 * n + d
           m == 2 * d
<1>1. a \in Int /\ m \in Nat \ {0}
  OBVIOUS
<1>2. Rounded(n, d) = a \div m
  BY DEF Rounded
<1> HIDE DEF a, m
<1> QED  BY <1>1, <1>2, WholeNumbers

LEMMA FactsAre ==
  ASSUME NEW fo, NEW childN \in Nat, NEW parentN \in Nat \ {0},
         fo.mean \in Int, fo.p50 \in Int, fo.p95 \in Int, fo.max \in Int
  PROVE  LET f == FanoutFacts(fo, childN, parentN) IN
           f.mean \in Nat \ {0} /\ f.p50 \in Int /\ f.p95 \in Int /\ f.max \in Int
<1> DEFINE q == childN \div parentN
           even == Greater(1, q)
           mean == IF fo.mean > 0 THEN fo.mean ELSE IF fo.p50 > 0 THEN fo.p50 ELSE even
           p50 == IF fo.p50 > 0 THEN fo.p50 ELSE mean
           p95 == Greater(fo.p95, p50)
<1>1. q \in Int
  BY WholeNumbers
<1>2. FanoutFacts(fo, childN, parentN) = [mean |-> mean, p50 |-> p50, p95 |-> p95, max |-> Greater(fo.max, p95)]
  BY DEF FanoutFacts
<1> HIDE DEF q
<1>3. even \in Nat \ {0}
  BY <1>1 DEF Greater
<1>4. mean \in Nat \ {0} /\ p50 \in Int
  BY <1>3
<1>5. p95 \in Int /\ Greater(fo.max, p95) \in Int
  BY <1>4 DEF Greater
<1> HIDE DEF even, mean, p50, p95
<1> QED  BY <1>2, <1>4, <1>5

\* Reconciled or not, there is a count for each parent.
LEMMA ReconciledFor ==
  ASSUME NEW n \in Nat \ {0}, NEW last \in 0 .. n - 1, NEW childN \in Nat,
         NEW f, DOMAIN f = 0 .. n - 1, \A p \in 0 .. last : f[p] \in Int
  PROVE  DOMAIN Reconcile(f, last, childN) = 0 .. n - 1
<1> DEFINE sum == SumFunctionOnSet(f, 0 .. last)
<1>1. IsFiniteSet(0 .. last)
  BY FS_Interval
<1>2. sum \in Int
  BY <1>1, SumOf
<1>3. Reconcile(f, last, childN) =
        CASE sum = childN -> f
          [] sum # childN /\ last = 0 -> [f EXCEPT ![0] = childN]
          [] sum < childN /\ last > 0 -> Added(f, last, childN - sum)
          [] sum > childN /\ last > 0 -> Taken(f, last, sum - childN)
  BY DEF Reconcile
<1> HIDE DEF sum
<1>4. sum = childN \/ sum < childN \/ sum > childN
  BY <1>2
<1>5. DOMAIN Added(f, last, childN - sum) = 0 .. n - 1 /\ DOMAIN Taken(f, last, sum - childN) = 0 .. n - 1
  BY DEF Added, Taken
<1>6. CASE sum = childN
  BY <1>3, <1>6
<1>7. CASE sum # childN /\ last = 0
  BY <1>3, <1>7
<1>8. CASE sum < childN /\ last > 0
  BY <1>3, <1>5, <1>8, <1>2
<1>9. CASE sum > childN /\ last > 0
  BY <1>3, <1>5, <1>9, <1>2
<1> QED  BY <1>2, <1>4, <1>6, <1>7, <1>8, <1>9

\* Taking the excess back leaves the smallest group a child.
LEMMA TakenFirst ==
  ASSUME NEW n \in Nat \ {0}, NEW last \in 1 .. n - 1, NEW e \in Nat \ {0},
         NEW f, DOMAIN f = 0 .. n - 1, \A p \in 0 .. last : f[p] \in Nat \ {0}
  PROVE  Taken(f, last, e)[0] \in Nat \ {0}
<1> DEFINE body    == 0 .. last - 1
           less(k) == [p \in body |-> Lesser(k, f[p] - 1)]
           total(k) == SumFunctionOnSet(less(k), body)
           Right(k) == total(k) <= e /\ (k = e \/ total(k + 1) > e)
           k == CHOOSE k \in 0 .. e : Right(k)
           rest == e - total(k)
           rich(p) == f[p] - k > 1
           one  == rich(0) /\ Cardinality({q \in body : q > 0 /\ rich(q)}) < rest
<1>1. Taken(f, last, e)[0] =
        CASE 0 = last /\ total(e) < e -> Greater(1, f[0] - (e - total(e)))
          [] 0 < last /\ total(e) < e -> 1
          [] 0 < last /\ total(e) >= e -> f[0] - less(k)[0] - (IF one THEN 1 ELSE 0)
          [] OTHER -> f[0]
  BY DEF Taken
<1>2. \A j \in 0 .. e : total(j) \in Int
  <2> SUFFICES ASSUME NEW j \in 0 .. e PROVE total(j) \in Int
    OBVIOUS
  <2>1. IsFiniteSet(body)
    BY FS_Interval
  <2>2. \A p \in body : less(j)[p] \in Int
    BY DEF Lesser
  <2> HIDE DEF body, less
  <2> QED  BY <2>1, <2>2, SumOf
<1>3. total(0) = 0
  <2>1. IsFiniteSet(body)
    BY FS_Interval
  <2>2. \A p \in body : less(0)[p] = 0
    BY DEF Lesser
  <2> HIDE DEF body, less
  <2> QED  BY <2>1, <2>2, SumOfZeros
<1> HIDE DEF total
<1>4. k \in 0 .. e
  <2> DEFINE I == {j \in 0 .. e : j = e \/ total(j + 1) > e}
  <2>1. I \subseteq Nat /\ e \in I
    OBVIOUS
  <2>2. PICK j \in I : \A m \in I : j <= m
    BY <2>1, LeastNatural
  <2>3. total(j) <= e
    <3>1. CASE j = 0
      BY <1>3, <3>1
    <3>2. CASE j # 0
      <4>1. j - 1 \in 0 .. e /\ j - 1 # e /\ ~(j <= j - 1) /\ (j - 1) + 1 = j
        BY <2>2, <3>2
      <4>2. ~(total(j) > e)
        BY <2>2, <4>1
      <4> QED  BY <1>2, <2>2, <4>2
    <3> QED  BY <3>1, <3>2
  <2>4. Right(j) /\ j \in 0 .. e
    BY <2>2, <2>3
  <2> HIDE DEF Right
  <2> QED  BY <2>4, Zenon
<1> HIDE DEF k
<1>5. less(k)[0] = Lesser(k, f[0] - 1) /\ f[0] \in Nat \ {0}
  OBVIOUS
<1>6. one => f[0] - k > 1
  OBVIOUS
<1> HIDE DEF less, one
<1>7. f[0] - less(k)[0] - (IF one THEN 1 ELSE 0) \in Nat \ {0}
  BY <1>4, <1>5, <1>6 DEF Lesser
<1>8. total(e) < e \/ total(e) >= e
  BY <1>2
<1> QED  BY <1>1, <1>7, <1>8

LEMMA AddedFirst ==
  ASSUME NEW n \in Nat \ {0}, NEW last \in 1 .. n - 1, NEW d \in Nat,
         NEW f, DOMAIN f = 0 .. n - 1, f[0] \in Nat \ {0}
  PROVE  Added(f, last, d)[0] \in Nat \ {0}
<1>1. Added(f, last, d)[0] = f[0] + d \div last + (IF 0 < d % last THEN 1 ELSE 0)
  BY DEF Added
<1>2. d \div last \in Nat
  <2>1. last \in Nat \ {0}
    OBVIOUS
  <2> QED  BY <2>1, Remainders
<1> QED  BY <1>1, <1>2

\* Reconciled or not, the smallest group has a child.
LEMMA ReconciledFirst ==
  ASSUME NEW n \in Nat \ {0}, NEW last \in 0 .. n - 1, NEW childN \in Nat \ {0},
         NEW f, DOMAIN f = 0 .. n - 1, \A p \in 0 .. last : f[p] \in Nat \ {0}
  PROVE  Reconcile(f, last, childN)[0] \in Nat \ {0}
<1> DEFINE sum == SumFunctionOnSet(f, 0 .. last)
<1>1. sum \in Int
  <2>1. IsFiniteSet(0 .. last)
    BY FS_Interval
  <2>2. \A p \in 0 .. last : f[p] \in Int
    OBVIOUS
  <2> QED  BY <2>1, <2>2, SumOf
<1>2. Reconcile(f, last, childN) =
        CASE sum = childN -> f
          [] sum # childN /\ last = 0 -> [f EXCEPT ![0] = childN]
          [] sum < childN /\ last > 0 -> Added(f, last, childN - sum)
          [] sum > childN /\ last > 0 -> Taken(f, last, sum - childN)
  BY DEF Reconcile
<1> HIDE DEF sum
<1>3. f[0] \in Nat \ {0} /\ 0 \in DOMAIN f
  OBVIOUS
<1>4. CASE sum = childN
  BY <1>2, <1>3, <1>4
<1>5. CASE sum # childN /\ last = 0
  <2>1. Reconcile(f, last, childN) = [f EXCEPT ![0] = childN]
    BY <1>2, <1>5
  <2> QED  BY <1>3, <2>1
<1>6. CASE sum < childN /\ last > 0
  <2>1. Reconcile(f, last, childN) = Added(f, last, childN - sum)
    BY <1>1, <1>2, <1>6
  <2>2. last \in 1 .. n - 1 /\ childN - sum \in Nat
    BY <1>1, <1>6
  <2> QED  BY <1>3, <2>1, <2>2, AddedFirst
<1>7. CASE sum > childN /\ last > 0
  <2>1. Reconcile(f, last, childN) = Taken(f, last, sum - childN)
    BY <1>1, <1>2, <1>7
  <2>2. last \in 1 .. n - 1 /\ sum - childN \in Nat \ {0}
    BY <1>1, <1>7
  <2> QED  BY <2>1, <2>2, TakenFirst
<1> QED  BY <1>1, <1>4, <1>5, <1>6, <1>7

\* There is a count for each parent, and the first is of one child at least.
LEMMA CountsAre ==
  ASSUME NEW fo, NEW childN \in Nat \ {0}, NEW parentN \in Nat \ {0}, NEW declared \in Int,
         fo.mean \in Int, fo.p50 \in Int, fo.p95 \in Int, fo.max \in Int,
         NEW c \in TargetCounts(parentN, childN, declared, fo)
  PROVE  DOMAIN c = 0 .. parentN - 1 /\ c[0] \in Nat \ {0}
<1> DEFINE f     == FanoutFacts(fo, childN, parentN)
           r     == Rounded(childN, f.mean)
           last  == Clamp(r, 1, parentN) - 1
           due   == IF declared > 0 THEN Rounded(f.max * childN, declared) ELSE f.max
           whale == Clamp(due, 1, childN)
           floor == Greater(1, 2 * f.p50 - f.p95)
           top   == f.p95
           ascending == {b \in [0 .. last - 1 -> floor .. top] : \A p, q \in 0 .. last - 1 : p < q => b[p] <= b[q]}
           base(b) == [p \in 0 .. parentN - 1 |-> IF p < last THEN b[p] ELSE IF p = last THEN whale ELSE 0]
<1>1. f.mean \in Nat \ {0} /\ f.p50 \in Int /\ f.p95 \in Int /\ f.max \in Int
  BY FactsAre
<1>2. TargetCounts(parentN, childN, declared, fo) = {Reconcile(base(b), last, childN) : b \in ascending}
  BY DEF TargetCounts
<1>3. r \in Int
  BY <1>1, RoundedIs
<1>4. due \in Int
  <2>1. f.max * childN \in Int
    BY <1>1, WholeNumbers
  <2>2. declared > 0 => Rounded(f.max * childN, declared) \in Int
    <3> DEFINE x == f.max * childN
    <3>1. declared > 0 => declared \in Nat \ {0}
      OBVIOUS
    <3>2. x \in Int
      BY <2>1
    <3> HIDE DEF x
    <3>3. declared > 0 => Rounded(x, declared) \in Int
      BY <3>1, <3>2, RoundedIs
    <3> QED  BY <3>3 DEF x
  <2> QED  BY <1>1, <2>2
<1> HIDE DEF f
<1>5. floor \in Nat \ {0}
  BY <1>1 DEF Greater
<1> HIDE DEF r, due
<1>6. last \in 0 .. parentN - 1 /\ whale \in Nat \ {0}
  BY <1>3, <1>4 DEF Clamp, Lesser, Greater
<1> HIDE DEF last, whale, floor, top
<1>7. PICK b \in ascending : c = Reconcile(base(b), last, childN)
  BY <1>2
<1>8. ASSUME NEW p \in 0 .. last
      PROVE  base(b)[p] \in Nat \ {0}
  <2>1. p \in 0 .. parentN - 1 /\ base(b)[p] = IF p < last THEN b[p] ELSE IF p = last THEN whale ELSE 0
    BY <1>6
  <2>2. CASE p < last
    <3>1. p \in 0 .. last - 1
      BY <1>6, <2>2
    <3>2. b[p] \in floor .. top
      BY <3>1
    <3> QED  BY <1>5, <2>1, <2>2, <3>2
  <2> QED  BY <1>6, <2>1, <2>2
<1>9. DOMAIN base(b) = 0 .. parentN - 1
  OBVIOUS
<1> HIDE DEF base, ascending
<1>10. \A p \in 0 .. last : base(b)[p] \in Int
  BY <1>8
<1> QED  BY <1>6, <1>7, <1>8, <1>9, <1>10, ReconciledFor, ReconciledFirst

LEMMA GroupsAre ==
  ASSUME NEW n \in Nat \ {0}, NEW c, DOMAIN c = 0 .. n - 1, NEW childN, NEW quarters
  PROVE  OrphanGroupCount(c, childN, quarters) \in Nat
<1> DEFINE want == Rounded(quarters * childN, 4)
           all  == Cardinality(DOMAIN c)
           enough(g) == SumFunctionOnSet(c, 0 .. g - 1) >= want \/ c[g] = 0
           Spared(g) == /\ g = all - 1 \/ enough(g)
                      /\ \A h \in 0 .. g - 1 : ~enough(h)
           I == {g \in 0 .. all - 1 : g = all - 1 \/ enough(g)}
<1>1. all = n
  BY FS_Interval
<1>2. OrphanGroupCount(c, childN, quarters) = IF want = 0 THEN 0 ELSE CHOOSE g \in 0 .. all - 1 : Spared(g)
  BY DEF OrphanGroupCount
<1> HIDE DEF all, want, enough
<1>3. n - 1 \in I /\ I \subseteq Nat
  BY <1>1
<1>4. PICK g \in I : \A m \in I : g <= m
  BY <1>3, LeastNatural
<1>5. ASSUME NEW h \in 0 .. g - 1
      PROVE  ~enough(h)
  <2>1. h \in 0 .. all - 1 /\ ~(g <= h)
    BY <1>1, <1>4
  <2> QED  BY <1>4, <2>1
<1>6. \E k \in 0 .. all - 1 : Spared(k)
  BY <1>4, <1>5
<1> HIDE DEF Spared
<1>7. (CHOOSE k \in 0 .. all - 1 : Spared(k)) \in 0 .. all - 1
  BY <1>6, Zenon
<1>8. \A k \in 0 .. all - 1 : k \in Nat
  BY <1>1
<1> QED  BY <1>2, <1>7, <1>8

\* There is a group of orphans if the fraction comes to one and another group is left.
LEMMA GroupsDue ==
  ASSUME NEW n \in Nat \ {0}, NEW c, DOMAIN c = 0 .. n - 1, c[0] \in Nat \ {0},
         NEW childN \in Int, NEW quarters \in Int
  PROVE  OrphanGroupCount(c, childN, quarters) > 0 <=> Rounded(quarters * childN, 4) > 0 /\ n > 1
<1> DEFINE want == Rounded(quarters * childN, 4)
           all  == Cardinality(DOMAIN c)
           enough(g) == SumFunctionOnSet(c, 0 .. g - 1) >= want \/ c[g] = 0
           Spared(g) == /\ g = all - 1 \/ enough(g)
                        /\ \A h \in 0 .. g - 1 : ~enough(h)
           I == {g \in 0 .. all - 1 : g = all - 1 \/ enough(g)}
           groups == CHOOSE g \in 0 .. all - 1 : Spared(g)
<1>1. all = n
  BY FS_Interval
<1>2. OrphanGroupCount(c, childN, quarters) = IF want = 0 THEN 0 ELSE groups
  BY DEF OrphanGroupCount
<1>3. want \in Int
  <2>1. quarters * childN \in Int
    BY WholeNumbers
  <2> QED  BY <2>1, RoundedIs
<1>4. enough(0) <=> want <= 0
  <2>1. 0 .. 0 - 1 = {}
    OBVIOUS
  <2>2. SumFunctionOnSet(c, 0 .. 0 - 1) = 0
    BY <2>1, SumOfNone
  <2> HIDE DEF want
  <2> QED  BY <1>3, <2>2
<1> HIDE DEF all, want, enough
<1>5. n - 1 \in I /\ I \subseteq Nat
  BY <1>1
<1>6. PICK g \in I : \A m \in I : g <= m
  BY <1>5, LeastNatural
<1>7. ASSUME NEW h \in 0 .. g - 1
      PROVE  ~enough(h)
  <2>1. h \in 0 .. all - 1 /\ ~(g <= h)
    BY <1>1, <1>6
  <2> QED  BY <1>6, <2>1
<1>8. \E k \in 0 .. all - 1 : Spared(k)
  BY <1>6, <1>7
<1>9. groups \in 0 .. n - 1 /\ Spared(groups)
  <2> HIDE DEF Spared
  <2> QED  BY <1>1, <1>8, Zenon
<1> HIDE DEF groups
<1>10. CASE want <= 0
  <2>1. groups > 0 => 0 \in 0 .. groups - 1
    BY <1>9
  <2>2. ~(groups > 0)
    BY <1>4, <1>9, <1>10, <2>1
  <2> QED  BY <1>2, <1>3, <1>10, <2>2 DEF want
<1>11. CASE want > 0
  <2>1. ~enough(0)
    BY <1>3, <1>4, <1>11
  <2>2. n > 1 => groups # 0
    BY <1>1, <1>9, <2>1
  <2>3. n = 1 => groups = 0
    BY <1>9
  <2> QED  BY <1>2, <1>3, <1>9, <1>11, <2>2, <2>3 DEF want
<1> QED  BY <1>3, <1>10, <1>11

Past(c, o) == {p \in DOMAIN c : SumFunctionOnSet(c, 0 .. p) > o}
OfChild(c, o) == CHOOSE p \in Past(c, o) : \A q \in Past(c, o) : p <= q
Whose(c, ref, childN, parentN) ==
  [o \in 0 .. childN - 1 |->
     IF Past(c, o) = {} THEN parentN - 1
     ELSE IF OfChild(c, o) < OrphanGroupCount(c, childN, ref.orphans) THEN parentN + OfChild(c, o) ELSE OfChild(c, o)]

\* With a fan-out the children are assigned by counts.
LEMMA AssignedBy ==
  ASSUME NEW ref, IsRef(ref), ref.fanout # {}, NEW childN \in Nat \ {0}, NEW parentN \in Nat \ {0},
         NEW declared \in Int, NEW a \in AssignForeignKeys(ref, childN, parentN, declared)
  PROVE  \E c : DOMAIN c = 0 .. parentN - 1 /\ c[0] \in Nat \ {0} /\ a = Whose(c, ref, childN, parentN)
<1> DEFINE whose(c) == Whose(c, ref, childN, parentN)
           all      == TargetCounts(parentN, childN, declared, The(ref.fanout))
<1>1. PICK fo \in ref.fanout : fo = The(ref.fanout)
  BY TheIs
<1>2. AssignForeignKeys(ref, childN, parentN, declared) =
        CASE childN = 0 \/ parentN = 0 -> {[o \in 0 .. childN - 1 |-> 0]}
          [] childN > 0 /\ parentN > 0 /\ ref.fanout = {} -> {[o \in 0 .. childN - 1 |-> o % parentN]}
          [] OTHER -> {whose(d) : d \in all}
  BY Zenon DEF AssignForeignKeys, Whose, Past, OfChild
<1> HIDE DEF whose, all
<1>3. AssignForeignKeys(ref, childN, parentN, declared) = {whose(d) : d \in all}
  BY <1>2
<1>4. PICK c \in all : a = whose(c)
  BY <1>3
<1>5. DOMAIN c = 0 .. parentN - 1 /\ c[0] \in Nat \ {0}
  <2>1. fo.mean \in Int /\ fo.p50 \in Int /\ fo.p95 \in Int /\ fo.max \in Int
    BY <1>1 DEF IsRef
  <2>2. c \in TargetCounts(parentN, childN, declared, fo)
    BY <1>1 DEF all
  <2> QED  BY <2>1, <2>2, CountsAre
<1> QED  BY <1>4, <1>5 DEF whose

\* The parent of a child is the first whose children are not all before it.
LEMMA OfChildIs ==
  ASSUME NEW n \in Nat \ {0}, NEW c, DOMAIN c = 0 .. n - 1, NEW o, Past(c, o) # {}
  PROVE  OfChild(c, o) \in Past(c, o) /\ OfChild(c, o) \in 0 .. n - 1 /\ \A q \in Past(c, o) : OfChild(c, o) <= q
<1>1. Past(c, o) \subseteq 0 .. n - 1 /\ Past(c, o) \subseteq Nat
  BY DEF Past
<1>2. \E p \in Past(c, o) : \A q \in Past(c, o) : p <= q
  BY <1>1, LeastNatural
<1>3. OfChild(c, o) \in Past(c, o) /\ \A q \in Past(c, o) : OfChild(c, o) <= q
  BY <1>2, Zenon DEF OfChild
<1> QED  BY <1>1, <1>3

\* Every child is assigned a parent's ordinal, or one past the last.
LEMMA AssignedAre ==
  ASSUME NEW ref, IsRef(ref), NEW childN \in Nat, NEW parentN \in Nat, NEW declared \in Int,
         NEW a \in AssignForeignKeys(ref, childN, parentN, declared)
  PROVE  a \in [0 .. childN - 1 -> Nat]
<1>1. CASE childN = 0 \/ parentN = 0
  BY <1>1 DEF AssignForeignKeys
<1>2. CASE childN > 0 /\ parentN > 0 /\ ref.fanout = {}
  <2>1. a = [o \in 0 .. childN - 1 |-> o % parentN]
    BY <1>2 DEF AssignForeignKeys
  <2>2. \A o \in 0 .. childN - 1 : o % parentN \in Nat
    BY <1>2, Remainders
  <2> QED  BY <2>1, <2>2
<1>3. CASE childN > 0 /\ parentN > 0 /\ ref.fanout # {}
  <2>1. PICK c : DOMAIN c = 0 .. parentN - 1 /\ c[0] \in Nat \ {0} /\ a = Whose(c, ref, childN, parentN)
    BY <1>3, AssignedBy
  <2>2. OrphanGroupCount(c, childN, ref.orphans) \in Nat
    BY <1>3, <2>1, GroupsAre
  <2>3. \A o \in 0 .. childN - 1 : Past(c, o) # {} => OfChild(c, o) \in Nat
    <3>1. parentN \in Nat \ {0} /\ \A p \in 0 .. parentN - 1 : p \in Nat
      BY <1>3
    <3> QED  BY <2>1, <3>1, OfChildIs
  <2> QED  BY <1>3, <2>1, <2>2, <2>3 DEF Whose
<1> QED  BY <1>1, <1>2, <1>3

\* The value of a column of the parent.
LEMMA ParentIDIs ==
  ASSUME NEW pcol, \A c \in pcol : IsColumn(c), NEW ord \in Nat, NEW parentN \in Nat
  PROVE  IsValue(ParentIDValue(pcol, ord, parentN))
<1>1. CASE pcol = {}
  BY <1>1, ShapesAre DEF ParentIDValue, IsValue
<1>2. CASE pcol # {}
  <2> DEFINE c   == The(pcol)
             val == FakeValue(c, IF c.domain THEN "domain" ELSE c.type, ord, TRUE)
             next == NumericInRange(c, parentN - 1, TRUE)
  <2>1. c \in pcol /\ IsColumn(c)
    BY <1>2, TheIs
  <2>2. ParentIDValue(pcol, ord, parentN) =
          IF ord < parentN \/ parentN = 0 \/ val[1] # "int" THEN val
          ELSE <<"int", next + 1 + (ord - parentN)>>
    BY <1>2 DEF ParentIDValue
  <2> HIDE DEF c
  <2>3. IsValue(val)
    <3>1. \A type : \A unique \in BOOLEAN : IsValue(FakeValue(c, type, ord, unique))
      BY <2>1, FakeIs
    <3> QED  BY <3>1, Zenon
  <2>4. next \in Int
    <3>1. parentN - 1 \in Int
      OBVIOUS
    <3>2. \A unique \in BOOLEAN : unique => NumericInRange(c, parentN - 1, unique) \in Int
      BY <2>1, <3>1, NumberIs
    <3> QED  BY <3>2, Zenon
  <2> HIDE DEF val, next
  <2>5. next + 1 + (ord - parentN) \in Int
    BY <2>4
  <2> QED  BY <2>2, <2>3, <2>5, ShapesAre DEF IsValue
<1> QED  BY <1>1, <1>2

-----------------------------------------------------------------------------
(* Rows *)

LEMMA RefsAre ==
  ASSUME run \in Runs, NEW t \in Tabs, NEW c, IsFK(t, c)
  PROVE  Assigning(t, c) \in Range(Tab(t).refs) /\ IsRef(Assigning(t, c)) /\ Assigning(t, c).col = c
<1> DEFINE refs == Tab(t).refs
           D == RefsOf(t, c)
<1>1. IsTable(Tab(t))
  BY TabsAre
<1>2. refs \in Seq(Range(refs)) /\ \A ref \in Range(refs) : IsRef(ref)
  BY <1>1 DEF IsTable
<1>3. DOMAIN refs = 1 .. Len(refs) /\ Len(refs) \in Nat
  BY <1>2, LenProperties
<1>4. D \subseteq DOMAIN refs /\ \A n \in D : refs[n].col = c
  BY DEF RefsOf
<1>5. IsFiniteSet(D) /\ D \subseteq Int /\ D # {}
  <2>1. IsFiniteSet(DOMAIN refs) /\ DOMAIN refs \subseteq Int
    <3> HIDE DEF refs
    <3> QED  BY <1>3, FS_Interval
  <2> QED  BY <1>4, <2>1, FS_Subset DEF IsFK
<1> HIDE DEF D
<1>6. Highest(D) \in D
  BY <1>5, FiniteHighest
<1>7. Assigning(t, c) = refs[Highest(D)]
  BY DEF Assigning, D
<1>8. refs[Highest(D)] \in Range(refs)
  BY <1>4, <1>6 DEF Range
<1> QED  BY <1>2, <1>4, <1>6, <1>7, <1>8

LEMMA ParentsAre ==
  ASSUME Typed, NEW ref
  PROVE  ParentRows(ref) \in Nat /\ \A c \in Parent(ref) : IsColumn(c)
<1>1. \A t \in Tabs : counts[t] \in Nat
  BY HydrateAssumption DEF Typed
<1>2. \A t \in Tabs : \A c \in Cols(t) : IsColumn(Col(t, c))
  BY TabsAre DEF Typed, IsTable, Cols, Col
<1> QED  BY <1>1, <1>2 DEF ParentRows, Parent

IsRow(t, row) == DOMAIN row = Insertable(t) /\ \A c \in Insertable(t) : IsValue(row[c])

\* A generated row has a value of some shape for each column that takes one.
LEMMA GeneratedRows ==
  ASSUME Typed, NEW t \in Tabs,
         NEW draw \in [Ordinals(t) -> [Drawn(t) -> 0 .. Draws - 1]],
         NEW assigned, \A c \in Insertable(t) : IsFK(t, c) => assigned[c] \in Assignments(t, c)
  PROVE  /\ DOMAIN Generated(t, assigned, draw) = Ordinals(t)
         /\ \A o \in Ordinals(t) : IsRow(t, Generated(t, assigned, draw)[o])
<1> DEFINE doms(c) == CheckDomains(Tab(t), c)
           d(o, c) == IF c \in Drawn(t) THEN draw[o][c] ELSE 0
           cell(o, c) == IF IsFK(t, c)
                         THEN ParentIDValue(Parent(Assigning(t, c)), assigned[c][o], ParentRows(Assigning(t, c)))
                         ELSE ApplyCheckDomain(GenerateValue(Col(t, c), o, d(o, c)), doms(c), d(o, c))
<1>0. run \in Runs /\ counts[t] \in Nat /\ IsTable(Tab(t))
  BY TabsAre, HydrateAssumption DEF Typed
<1>1. Generated(t, assigned, draw) = [o \in Ordinals(t) |-> [c \in Insertable(t) |-> cell(o, c)]]
  BY Zenon DEF Generated
<1>2. \A o \in Ordinals(t) : o \in Nat
  BY <1>0 DEF Ordinals
<1>3. ASSUME NEW o \in Ordinals(t), NEW c \in Insertable(t)
      PROVE  d(o, c) \in Nat
  <2>1. c \in Drawn(t) => draw[o][c] \in 0 .. Draws - 1
    OBVIOUS
  <2> QED  BY <2>1, HydrateAssumption
<1>4. ASSUME NEW o \in Ordinals(t), NEW c \in Insertable(t), IsFK(t, c)
      PROVE  IsValue(cell(o, c))
  <2> DEFINE ref == Assigning(t, c)
             n == assigned[c][o]
  <2>1. IsRef(ref)
    BY <1>0, <1>4, RefsAre
  <2>2. ParentRows(ref) \in Nat /\ \A p \in Parent(ref) : IsColumn(p)
    BY ParentsAre
  <2>3. assigned[c] \in AssignForeignKeys(ref, counts[t], ParentRows(ref), Tab(t).rows)
    BY <1>4 DEF Assignments
  <2>4. Tab(t).rows \in Int
    BY <1>0 DEF IsTable
  <2> HIDE DEF ref
  <2>5. assigned[c] \in [0 .. counts[t] - 1 -> Nat]
    BY <1>0, <2>1, <2>2, <2>3, <2>4, AssignedAre
  <2>6. n \in Nat
    BY <2>5 DEF Ordinals
  <2> HIDE DEF n
  <2>7. IsValue(ParentIDValue(Parent(ref), n, ParentRows(ref)))
    BY <2>2, <2>6, ParentIDIs
  <2> QED  BY <1>4, <2>7 DEF n, ref
<1>5. ASSUME NEW o \in Ordinals(t), NEW c \in Insertable(t), ~IsFK(t, c)
      PROVE  IsValue(cell(o, c))
  <2> DEFINE n == d(o, c)
  <2>1. n \in Nat /\ o \in Nat
    BY <1>2, <1>3
  <2>2. IsColumn(Col(t, c)) /\ IsDomain(doms(c))
    <3>1. c \in DOMAIN Tab(t).cols
      BY DEF Insertable, Cols
    <3> QED  BY <1>0, <3>1, DomainsAre DEF IsTable, Col
  <2> HIDE DEF n, doms
  <2>3. IsValue(GenerateValue(Col(t, c), o, n))
    BY <2>1, <2>2, GeneratedIs
  <2>4. IsValue(ApplyCheckDomain(GenerateValue(Col(t, c), o, n), doms(c), n))
    BY <2>1, <2>2, <2>3, AppliedIs
  <2> QED  BY <1>5, <2>4 DEF n
<1> HIDE DEF cell
<1>6. \A o \in Ordinals(t) : IsRow(t, [c \in Insertable(t) |-> cell(o, c)])
  BY <1>4, <1>5 DEF IsRow
<1> QED  BY <1>1, <1>6

-----------------------------------------------------------------------------
(* The statements *)

LEMMA KeysAre ==
  ASSUME run \in Runs, NEW t \in Tabs
  PROVE  /\ ForeignKeys(t) \in Seq(Seq(Range(Tab(t).refs)))
         /\ \A ref \in Range(Tab(t).refs) : \E key \in Range(ForeignKeys(t)) : ref \in Range(key)
<1> DEFINE refs == Tab(t).refs
           R == Range(refs)
           first(n) == refs[n].name = "" \/ \A m \in 1 .. n - 1 : refs[m].name # refs[n].name
           same(n)  == Among(refs, {ref \in R : ref.name = refs[n].name})
           key(n)   == IF refs[n].name = "" THEN <<refs[n]>> ELSE same(n)
           ss == [n \in DOMAIN refs |-> IF first(n) THEN <<key(n)>> ELSE <<>>]
<1>1. refs \in Seq(R)
  BY TabsAre DEF IsTable
<1>2. Len(refs) \in Nat /\ DOMAIN refs = 1 .. Len(refs) /\ \A n \in 1 .. Len(refs) : refs[n] \in R
  BY <1>1, LenProperties, ElementOfSeq
<1>3. ForeignKeys(t) = FlattenSeq(ss)
  BY Zenon DEF ForeignKeys
<1>4. ASSUME NEW n \in 1 .. Len(refs)
      PROVE  key(n) \in Seq(R) /\ refs[n] \in Range(key(n))
  <2> DEFINE K == {ref \in R : ref.name = refs[n].name}
  <2>1. refs[n] \in R /\ refs[n] \in K
    BY <1>2
  <2>2. same(n) \in Seq(R) /\ Range(same(n)) = R \intersect K
    <3>1. same(n) = Among(refs, K)
      OBVIOUS
    <3> HIDE DEF same, K
    <3> QED  BY <1>1, <3>1, AmongIs
  <2>3. <<refs[n]>> \in Seq(R) /\ Range(<<refs[n]>>) = {refs[n]}
    <3>1. <<refs[n]>> \in Seq(R)
      BY <2>1
    <3> QED  BY <3>1, RangeOfOne
  <2> HIDE DEF same, K
  <2> QED  BY <2>1, <2>2, <2>3
<1> HIDE DEF key
<1>5. ASSUME NEW n \in 1 .. Len(refs)
      PROVE  ss[n] \in Seq(Seq(R)) /\ (first(n) => Range(ss[n]) = {key(n)})
  <2>1. ss[n] = IF first(n) THEN <<key(n)>> ELSE <<>>
    BY <1>2
  <2>2. <<key(n)>> \in Seq(Seq(R)) /\ Range(<<key(n)>>) = {key(n)}
    <3>1. key(n) \in Seq(R)
      BY <1>4
    <3>2. <<key(n)>> \in Seq(Seq(R))
      BY <3>1
    <3> QED  BY <3>2, RangeOfOne
  <2> HIDE DEF ss, first
  <2> QED  BY <2>1, <2>2, EmptySeq
<1>6. ss \in Seq(Seq(Seq(R))) /\ Len(ss) = Len(refs)
  <2>1. ss = [n \in 1 .. Len(refs) |-> ss[n]]
    BY <1>2
  <2> DEFINE SS == Seq(Seq(R))
             len == Len(refs)
  <2>2. \A n \in 1 .. len : ss[n] \in SS
    BY <1>5
  <2>3. len \in Nat
    BY <1>2
  <2> HIDE DEF ss, SS, len
  <2>4. ss \in [1 .. len -> SS]
    BY <2>1, <2>2 DEF len
  <2>5. ss \in Seq(SS) /\ Len(ss) = len
    BY <2>3, <2>4
  <2> QED  BY <2>5 DEF SS, len
<1> HIDE DEF ss
<1>7. /\ FlattenSeq(ss) \in Seq(Seq(R))
      /\ \A x : x \in Range(FlattenSeq(ss)) <=> \E n \in 1 .. Len(ss) : x \in Range(ss[n])
  BY <1>6, Flattened
<1>8. ASSUME NEW ref \in R
      PROVE  \E k \in Range(ForeignKeys(t)) : ref \in Range(k)
  <2>1. PICK n \in 1 .. Len(refs) : refs[n] = ref
    BY <1>1, <1>8, RangeOf
  <2>2. CASE refs[n].name = ""
    <3>1. key(n) \in Range(ss[n])
      BY <1>5, <2>2
    <3> QED  BY <1>3, <1>4, <1>6, <1>7, <2>1, <3>1
  <2>3. CASE refs[n].name # ""
    <3> DEFINE I == {m \in 1 .. Len(refs) : refs[m].name = refs[n].name}
    <3>1. I \subseteq Nat /\ n \in I
      OBVIOUS
    <3>2. PICK f \in I : \A m \in I : f <= m
      BY <3>1, LeastNatural
    <3>3. ASSUME NEW m \in 1 .. f - 1
          PROVE  refs[m].name # refs[f].name
      <4>1. m \in 1 .. Len(refs) /\ ~(f <= m)
        BY <3>2
      <4> QED  BY <3>2, <4>1
    <3>4. key(f) \in Range(ss[f])
      BY <1>5, <3>2, <3>3
    <3>5. ref \in Range(key(f))
      <4> DEFINE K == {r \in R : r.name = refs[f].name}
      <4>1. key(f) = same(f) /\ same(f) = Among(refs, K)
        BY <2>3, <3>2 DEF key
      <4>2. ref \in K
        BY <2>1, <3>2
      <4> HIDE DEF same, K
      <4>3. Range(same(f)) = R \intersect K
        BY <1>1, <4>1, AmongIs
      <4> QED  BY <4>1, <4>2, <4>3
    <3> QED  BY <1>3, <1>6, <1>7, <3>2, <3>4, <3>5
  <2> QED  BY <2>2, <2>3
<1> QED  BY <1>3, <1>7, <1>8

Section(f) == FlattenSeq(f)

StatementKinds == {"ddl", "partition", "copy", "index", "check", "fk", "reset"}
Whats ==
  {"table"} \union Nat \union Tabs
    \union (UNION {Range(Tab(t).indexes) : t \in Tabs})
    \union (UNION {Range(Tab(t).cons) : t \in Tabs})
    \union (UNION {Seq(Range(Tab(t).refs)) : t \in Tabs})
    \union (UNION {Cols(t) : t \in Tabs})
AllStatements ==
  {s \in [kind : StatementKinds, t : Tabs, what : Whats] :
     s.kind = "fk" => s.what \in Seq(Range(Tab(s.t).refs))}

LEMMA WhatsAre ==
  /\ "table" \in Whats /\ Nat \subseteq Whats /\ Tabs \subseteq Whats
  /\ \A t \in Tabs : /\ Range(Tab(t).indexes) \subseteq Whats /\ Range(Tab(t).cons) \subseteq Whats
                     /\ Seq(Range(Tab(t).refs)) \subseteq Whats /\ Cols(t) \subseteq Whats
<1>1. "table" \in Whats /\ Nat \subseteq Whats /\ Tabs \subseteq Whats
  BY DEF Whats
<1>2. ASSUME NEW t \in Tabs, NEW x \in Range(Tab(t).indexes)
      PROVE  x \in Whats
  BY DEF Whats
<1>3. ASSUME NEW t \in Tabs, NEW x \in Range(Tab(t).cons)
      PROVE  x \in Whats
  BY DEF Whats
<1>4. ASSUME NEW t \in Tabs, NEW x \in Seq(Range(Tab(t).refs))
      PROVE  x \in Whats
  BY DEF Whats
<1>5. ASSUME NEW t \in Tabs, NEW x \in Cols(t)
      PROVE  x \in Whats
  BY DEF Whats
<1> QED  BY <1>1, <1>2, <1>3, <1>4, <1>5

\* A section of the statements holds what each table has in it.
LEMMA SectionsAre ==
  ASSUME run \in Runs, NEW f \in [Tabs -> Seq(AllStatements)]
  PROVE  /\ Section(f) \in Seq(AllStatements)
         /\ \A t \in Tabs : Range(f[t]) \subseteq Range(Section(f))
<1> DEFINE n == Len(run.tables)
           S == AllStatements
           SS == Seq(S)
<1>1. n \in Nat /\ Tabs = 1 .. n
  BY TabsAre
<1> HIDE DEF n, S, SS
<1>2. f \in [1 .. n -> SS]
  BY <1>1 DEF SS, S
<1>3. f \in Seq(SS) /\ Len(f) = n
  BY <1>1, <1>2
<1>4. /\ FlattenSeq(f) \in Seq(S)
      /\ \A x : x \in Range(FlattenSeq(f)) <=> \E m \in 1 .. Len(f) : x \in Range(f[m])
  BY <1>3, Flattened DEF SS
<1>5. \A t \in Tabs : \A x \in Range(f[t]) : x \in Range(FlattenSeq(f))
  BY <1>1, <1>3, <1>4
<1> QED  BY <1>4, <1>5 DEF Section, S

LEMMA ManyAre ==
  ASSUME NEW t \in Tabs, NEW kind \in StatementKinds, NEW whats \in Seq(Whats),
         kind = "fk" => whats \in Seq(Seq(Range(Tab(t).refs)))
  PROVE  /\ Many(t, kind, whats) \in Seq(AllStatements)
         /\ \A x \in Range(whats) : Statement(kind, t, x) \in Range(Many(t, kind, whats))
<1> DEFINE len == Len(whats)
           s == Many(t, kind, whats)
<1>1. len \in Nat /\ DOMAIN whats = 1 .. len /\ \A n \in 1 .. len : whats[n] \in Whats
  BY LenProperties, ElementOfSeq
<1>2. s = [n \in 1 .. len |-> Statement(kind, t, whats[n])]
  BY <1>1 DEF Many
<1>3. \A n \in 1 .. len : Statement(kind, t, whats[n]) \in AllStatements
  <2>1. kind = "fk" => \A n \in 1 .. len : whats[n] \in Seq(Range(Tab(t).refs))
    BY <1>1, ElementOfSeq
  <2> HIDE DEF len
  <2> QED  BY <1>1, <2>1 DEF Statement, AllStatements
<1> HIDE DEF s, len
<1>4. s \in [1 .. len -> AllStatements]
  BY <1>1, <1>2, <1>3
<1>5. s \in Seq(AllStatements)
  BY <1>1, <1>4
<1>6. ASSUME NEW x \in Range(whats)
      PROVE  Statement(kind, t, x) \in Range(s)
  <2>1. PICK n \in 1 .. len : whats[n] = x
    BY <1>1 DEF Range
  <2>2. s[n] = Statement(kind, t, x) /\ n \in DOMAIN s
    BY <1>2, <2>1
  <2> QED  BY <2>2 DEF Range
<1> QED  BY <1>5, <1>6 DEF s

LEMMA BigSeq ==
  ASSUME NEW A, NEW B, A \subseteq B, NEW s \in Seq(A)
  PROVE  s \in Seq(B)
BY LenProperties, ElementOfSeq

\* What createTable, createIndex, addConstraint, addForeignKeys and identityResets give is
\* among the statements.
LEMMA StatementsAre ==
  ASSUME run \in Runs
  PROVE  /\ Statements \in Seq(AllStatements)
         /\ \A t \in Tabs :
              /\ \A x \in Range(IndexesOf(t)) : Statement("index", t, x) \in Range(Statements)
              /\ \A x \in Range(ChecksOf(t)) : Statement("check", t, x) \in Range(Statements)
              /\ \A x \in Range(ForeignKeys(t)) : Statement("fk", t, x) \in Range(Statements)
              /\ \A x \in Range(Identities(t)) : Statement("reset", t, x) \in Range(Statements)
<1> DEFINE S  == AllStatements
           f1 == [t \in Tabs |-> <<Statement("ddl", t, "table")>>]
           f2 == [t \in Tabs |-> Many(t, "partition", PartitionsOf(Tab(t).parts))]
           f3 == [t \in Tabs |-> Many(t, "copy", Copies(t))]
           f4 == [t \in Tabs |-> Many(t, "index", IndexesOf(t))]
           both(t) == Many(t, "check", ChecksOf(t)) \o Many(t, "fk", ForeignKeys(t))
           f5 == [t \in Tabs |-> both(t)]
           f6 == [t \in Tabs |-> Many(t, "reset", Identities(t))]
<1>1. Statements = Section(f1) \o Section(f2) \o Section(f3) \o Section(f4) \o Section(f5) \o Section(f6)
  BY DEF Statements, All, Section
<1>2. \A kind \in {"ddl", "partition", "copy", "index", "check", "fk", "reset"} : kind \in StatementKinds
  BY DEF StatementKinds
<1>3. ASSUME NEW t \in Tabs
      PROVE  /\ <<Statement("ddl", t, "table")>> \in Seq(S)
             /\ PartitionsOf(Tab(t).parts) \in Seq(Whats)
             /\ Copies(t) \in Seq(Whats)
             /\ IndexesOf(t) \in Seq(Whats)
             /\ ChecksOf(t) \in Seq(Whats)
             /\ ForeignKeys(t) \in Seq(Whats) /\ ForeignKeys(t) \in Seq(Seq(Range(Tab(t).refs)))
             /\ Identities(t) \in Seq(Whats)
  <2>0. IsTable(Tab(t))
    BY TabsAre
  <2>1. <<Statement("ddl", t, "table")>> \in Seq(S)
    <3>1. Statement("ddl", t, "table") \in S
      BY WhatsAre DEF Statement, AllStatements, StatementKinds
    <3> HIDE DEF S
    <3> QED  BY <3>1
  <2>2. PartitionsOf(Tab(t).parts) \in Seq(Whats)
    <3> DEFINE p == Tab(t).parts
               n == IF p.by = "hash" THEN Greater(p.count, 1) ELSE 1
    <3>1. n \in Nat
      BY <2>0 DEF IsTable, Greater
    <3>2. PartitionsOf(p) = IF ~Partitioned(p) THEN <<>> ELSE [k \in 1 .. n |-> k]
      BY DEF PartitionsOf
    <3> HIDE DEF n, p
    <3>3. [k \in 1 .. n |-> k] \in Seq(Nat)
      BY <3>1
    <3>4. PartitionsOf(p) \in Seq(Nat)
      BY <3>2, <3>3, EmptySeq
    <3> QED  BY <3>4, BigSeq, WhatsAre DEF p
  <2>3. Copies(t) \in Seq(Whats)
    <3>1. t \in Whats
      BY WhatsAre
    <3>2. <<t>> \in Seq(Whats)
      BY <3>1
    <3> QED  BY <3>2, EmptySeq DEF Copies
  <2>4. IndexesOf(t) \in Seq(Whats)
    <3> DEFINE all == Tab(t).indexes
               K == {ix \in Range(all) : ix.name \notin Backed(t) /\ ix.partial # "opaque"}
    <3>1. all \in Seq(Range(all)) /\ Range(all) \subseteq Whats
      BY <2>0, WhatsAre DEF IsTable
    <3>2. IndexesOf(t) = Among(all, K)
      BY DEF IndexesOf
    <3> HIDE DEF K, all
    <3> QED  BY <3>1, <3>2, AmongIs, BigSeq
  <2>5. ChecksOf(t) \in Seq(Whats)
    <3> DEFINE all == Tab(t).cons
               K == {con \in Range(all) : con.kind = "check" /\ con.known}
    <3>1. all \in Seq(Range(all)) /\ Range(all) \subseteq Whats
      BY <2>0, WhatsAre DEF IsTable
    <3>2. ChecksOf(t) = Among(all, K)
      BY DEF ChecksOf
    <3> HIDE DEF K, all
    <3> QED  BY <3>1, <3>2, AmongIs, BigSeq
  <2>6. ForeignKeys(t) \in Seq(Whats) /\ ForeignKeys(t) \in Seq(Seq(Range(Tab(t).refs)))
    <3> DEFINE R == Seq(Range(Tab(t).refs))
    <3>1. ForeignKeys(t) \in Seq(R) /\ R \subseteq Whats
      BY KeysAre, WhatsAre
    <3> HIDE DEF R
    <3>2. ForeignKeys(t) \in Seq(Whats)
      BY <3>1, BigSeq
    <3> QED  BY <3>1, <3>2 DEF R
  <2>7. Identities(t) \in Seq(Whats)
    <3> DEFINE I == {c \in Cols(t) : Col(t, c).generated = "identity"}
    <3>1. IsFiniteSet(I) /\ I \subseteq Whats
      <4>1. IsFiniteSet(Cols(t)) /\ Cols(t) \subseteq Whats
        BY <2>0, WhatsAre DEF IsTable, Cols
      <4> QED  BY <4>1, FS_Subset
    <3>2. Identities(t) = SetToSeq(I)
      BY DEF Identities
    <3> HIDE DEF I
    <3> QED  BY <3>1, <3>2, SetToSeqIs, BigSeq
  <2> QED  BY <2>1, <2>2, <2>3, <2>4, <2>5, <2>6, <2>7
<1> HIDE DEF S
<1>4. ASSUME NEW t \in Tabs
      PROVE  /\ Many(t, "partition", PartitionsOf(Tab(t).parts)) \in Seq(S)
             /\ Many(t, "copy", Copies(t)) \in Seq(S)
             /\ Many(t, "index", IndexesOf(t)) \in Seq(S)
             /\ \A x \in Range(IndexesOf(t)) : Statement("index", t, x) \in Range(Many(t, "index", IndexesOf(t)))
             /\ Many(t, "reset", Identities(t)) \in Seq(S)
             /\ \A x \in Range(Identities(t)) : Statement("reset", t, x) \in Range(Many(t, "reset", Identities(t)))
  BY <1>2, <1>3, ManyAre DEF S
<1>5. ASSUME NEW t \in Tabs
      PROVE  /\ both(t) \in Seq(S)
             /\ \A x \in Range(ChecksOf(t)) : Statement("check", t, x) \in Range(both(t))
             /\ \A x \in Range(ForeignKeys(t)) : Statement("fk", t, x) \in Range(both(t))
  <2> DEFINE c == Many(t, "check", ChecksOf(t))
             k == Many(t, "fk", ForeignKeys(t))
  <2>1. /\ c \in Seq(S) /\ \A x \in Range(ChecksOf(t)) : Statement("check", t, x) \in Range(c)
        /\ k \in Seq(S) /\ \A x \in Range(ForeignKeys(t)) : Statement("fk", t, x) \in Range(k)
    BY <1>2, <1>3, ManyAre DEF S
  <2>2. both(t) = c \o k
    OBVIOUS
  <2> HIDE DEF c, k, both
  <2>3. both(t) \in Seq(S) /\ Range(both(t)) = Range(c) \union Range(k)
    BY <2>1, <2>2, RangeOfBoth
  <2> QED  BY <2>1, <2>3
<1> HIDE DEF both
<1>6. /\ f1 \in [Tabs -> Seq(S)] /\ f2 \in [Tabs -> Seq(S)] /\ f3 \in [Tabs -> Seq(S)]
      /\ f4 \in [Tabs -> Seq(S)] /\ f5 \in [Tabs -> Seq(S)] /\ f6 \in [Tabs -> Seq(S)]
  BY <1>3, <1>4, <1>5
<1>7. \A t \in Tabs : /\ f4[t] = Many(t, "index", IndexesOf(t)) /\ f5[t] = both(t)
                      /\ f6[t] = Many(t, "reset", Identities(t))
  OBVIOUS
<1> HIDE DEF f1, f2, f3, f4, f5, f6
<1>8. /\ Section(f1) \in Seq(S) /\ Section(f2) \in Seq(S) /\ Section(f3) \in Seq(S)
      /\ Section(f4) \in Seq(S) /\ Section(f5) \in Seq(S) /\ Section(f6) \in Seq(S)
      /\ \A t \in Tabs : /\ Range(f4[t]) \subseteq Range(Section(f4)) /\ Range(f5[t]) \subseteq Range(Section(f5))
                         /\ Range(f6[t]) \subseteq Range(Section(f6))
  BY <1>6, SectionsAre DEF S
<1> DEFINE a2 == Section(f1) \o Section(f2)
           a3 == a2 \o Section(f3)
           a4 == a3 \o Section(f4)
           a5 == a4 \o Section(f5)
           a6 == a5 \o Section(f6)
<1>9. a2 \in Seq(S)
  BY <1>8, RangeOfBoth
<1> HIDE DEF a2
<1>10. a3 \in Seq(S)
  BY <1>8, <1>9, RangeOfBoth
<1> HIDE DEF a3
<1>11. a4 \in Seq(S) /\ Range(Section(f4)) \subseteq Range(a4)
  BY <1>8, <1>10, RangeOfBoth
<1> HIDE DEF a4
<1>12. a5 \in Seq(S) /\ Range(a4) \subseteq Range(a5) /\ Range(Section(f5)) \subseteq Range(a5)
  BY <1>8, <1>11, RangeOfBoth
<1> HIDE DEF a5
<1>13. a6 \in Seq(S) /\ Range(a5) \subseteq Range(a6) /\ Range(Section(f6)) \subseteq Range(a6)
  BY <1>8, <1>12, RangeOfBoth
<1>14. Statements = a6
  BY <1>1 DEF a2, a3, a4, a5
<1> HIDE DEF a6
<1>15. ASSUME NEW t \in Tabs
       PROVE  /\ \A x \in Range(IndexesOf(t)) : Statement("index", t, x) \in Range(a6)
              /\ \A x \in Range(ChecksOf(t)) : Statement("check", t, x) \in Range(a6)
              /\ \A x \in Range(ForeignKeys(t)) : Statement("fk", t, x) \in Range(a6)
              /\ \A x \in Range(Identities(t)) : Statement("reset", t, x) \in Range(a6)
  <2>1. Range(f4[t]) \subseteq Range(a6) /\ Range(f5[t]) \subseteq Range(a6) /\ Range(f6[t]) \subseteq Range(a6)
    BY <1>8, <1>11, <1>12, <1>13
  <2> QED  BY <1>4, <1>5, <1>7, <2>1
<1> QED  BY <1>13, <1>14, <1>15 DEF S

-----------------------------------------------------------------------------
(* The inductive invariant *)

Fresh ==
  /\ plan = <<>> /\ pc = "begin" /\ i = 1 /\ link = "up" /\ tx = "none"
  /\ made = {} /\ kept = {} /\ reported = {} /\ durable = {} /\ refused = {}

\* The cells of the tables, as many as they are.
Exact    == [t \in Tabs |-> counts[t] * Width(t)]
Budgeted == Limit >= 0 => SumFunctionOnSet(Exact, Tabs) <= Limit

\* What has been decided at each stage.
Stages ==
  /\ run \in Runs
  /\ stage \in {"count", "budget", "generate", "load", "refused"}
  /\ stage = "count" => counts = <<>>
  /\ stage # "count" => counts \in [Tabs -> 0 .. Widest - 1]
  /\ stage \in {"generate", "load"} => Budgeted

\* The tables generated are the first ones, and their rows are of their type.
Grown ==
  /\ rows \in Seq(Range(rows)) /\ Len(rows) <= Len(run.tables)
  /\ stage \in {"count", "budget"} => rows = <<>>
  /\ stage = "load" => Len(rows) = Len(run.tables)
  /\ \A t \in DOMAIN rows : /\ DOMAIN rows[t] = Ordinals(t)
                            /\ \A o \in Ordinals(t) : IsRow(t, rows[t][o])

\* Load runs the fixture's statements, and no sequence is set that could have been.
Sent ==
  /\ stage # "load" => Fresh
  /\ stage = "load" => plan = [n \in DOMAIN Statements |-> KindOf(Statements[n])]
  /\ IInv
  /\ \A k \in refused : \A t, c :
       Statements[k].kind = "reset" /\ Statements[k].t = t /\ Statements[k].what = c => ~ResetAccepted(t, c)

HydrateInv == Stages /\ Grown /\ Sent

LEMMA LoadKinds ==
  /\ Kinds = {"ddl", "partition", "copy", "index", "constraint", "reset"}
BY DEF Kinds, Fatal, Guarded

\* A load that has not begun is one Load may begin with.
LEMMA FreshLoad ==
  ASSUME plan \in Seq(Kinds), pc = "begin", i = 1, link = "up", tx = "none",
         made = {}, kept = {}, reported = {}, durable = {}, refused = {}
  PROVE  IInv
<1>1. Len(plan) \in Nat /\ 1 \in 1 .. Len(plan) + 1
  BY LenProperties
<1>2. TypeOK
  BY <1>1 DEF TypeOK, Locations
<1>3. Shape /\ Holdings /\ Books /\ Fate
  BY DEF Shape, Holdings, Books, Fate
<1> QED  BY <1>2, <1>3 DEF IInv

LEMMA FreshLoadNext ==
  ASSUME plan' \in Seq(Kinds), pc' = "begin", i' = 1, link' = "up", tx' = "none",
         made' = {}, kept' = {}, reported' = {}, durable' = {}, refused' = {}
  PROVE  IInv'
<1>1. Len(plan') \in Nat /\ 1 \in 1 .. Len(plan') + 1
  BY LenProperties
<1>2. TypeOK'
  BY <1>1 DEF TypeOK, Locations
<1>3. Shape' /\ Holdings' /\ Books' /\ Fate'
  BY DEF Shape, Holdings, Books, Fate
<1> QED  BY <1>2, <1>3 DEF IInv

LEMMA HydrateInitInv == HydrateInit => HydrateInv
<1> SUFFICES ASSUME HydrateInit PROVE HydrateInv
  OBVIOUS
<1>1. Fresh /\ run \in Runs /\ stage = "count" /\ counts = <<>> /\ rows = <<>>
  BY DEF HydrateInit, Fresh
<1>2. Stages
  BY <1>1 DEF Stages
<1>3. Grown
  <2>1. rows \in Seq(Range(rows)) /\ Len(rows) = 0 /\ DOMAIN rows = {}
    BY <1>1, EmptySeq
  <2>2. Len(run.tables) \in Nat
    BY <1>1, TabsAre
  <2> QED  BY <1>1, <2>1, <2>2 DEF Grown
<1>4. Sent
  <2>1. plan \in Seq(Kinds)
    BY <1>1, EmptySeq DEF Fresh
  <2>2. IInv
    BY <1>1, <2>1, FreshLoad DEF Fresh
  <2> QED  BY <1>1, <2>2 DEF Sent, Fresh
<1> QED  BY <1>2, <1>3, <1>4 DEF HydrateInv

\* What is made of the fixture and the counts does not change when they do not.
LEMMA FixtureKeeps ==
  ASSUME UNCHANGED run
  PROVE  /\ Tabs' = Tabs
         /\ \A t : /\ Tab(t)' = Tab(t) /\ Cols(t)' = Cols(t) /\ Insertable(t)' = Insertable(t)
                   /\ Width(t)' = Width(t)
         /\ \A t, c : Col(t, c)' = Col(t, c)
         /\ Limit' = Limit
<1>1. Tabs' = Tabs /\ \A t : Tab(t)' = Tab(t)
  BY DEF Tabs, Tab
<1>2. \A t : Cols(t)' = Cols(t)
  BY <1>1 DEF Cols
<1>3. \A t, c : Col(t, c)' = Col(t, c)
  BY <1>1 DEF Col
<1>4. \A t : Insertable(t)' = Insertable(t)
  BY <1>2, <1>3 DEF Insertable
<1>5. \A t : Width(t)' = Width(t)
  BY <1>2 DEF Width
<1>6. Limit' = Limit
  BY DEF Limit
<1> QED  BY <1>1, <1>2, <1>3, <1>4, <1>5, <1>6

LEMMA BudgetKeeps ==
  ASSUME UNCHANGED <<run, counts>>
  PROVE  Budgeted' <=> Budgeted
<1>1. Exact' = Exact
  BY FixtureKeeps DEF Exact
<1> QED  BY <1>1, FixtureKeeps DEF Budgeted

LEMMA StatementsKeep ==
  ASSUME UNCHANGED <<run, counts>>
  PROVE  Statements' = Statements
<1>1. /\ Tabs' = Tabs
      /\ \A t : Tab(t)' = Tab(t) /\ Cols(t)' = Cols(t) /\ Insertable(t)' = Insertable(t)
      /\ \A t, c : Col(t, c)' = Col(t, c)
  BY FixtureKeeps
<1>2. \A t : Copies(t)' = Copies(t)
  BY <1>1 DEF Copies
<1>3. \A t : Backed(t)' = Backed(t)
  BY <1>1 DEF Backed
<1>4. \A t : IndexesOf(t)' = IndexesOf(t)
  BY <1>1, <1>3 DEF IndexesOf
<1>5. \A t : ChecksOf(t)' = ChecksOf(t)
  BY <1>1 DEF ChecksOf
<1>6. \A t : ForeignKeys(t)' = ForeignKeys(t)
  BY <1>1 DEF ForeignKeys
<1>7. \A t : Identities(t)' = Identities(t)
  BY <1>1 DEF Identities
<1> QED  BY <1>1, <1>2, <1>4, <1>5, <1>6, <1>7 DEF Statements, All

LEMMA RowKeeps ==
  ASSUME UNCHANGED <<run, counts>>
  PROVE  /\ \A t : Ordinals(t)' = Ordinals(t)
         /\ \A t, row : IsRow(t, row)' <=> IsRow(t, row)
BY FixtureKeeps DEF Ordinals, IsRow

LEMMA CountKeeps == ASSUME HydrateInv, Count PROVE HydrateInv'
<1>1. Stages'
  <2>1. PICK f \in [Tabs -> 0 .. Widest - 1] : counts' = f
    BY DEF Count
  <2>2. run' = run /\ stage' = "budget" /\ Tabs' = Tabs
    BY FixtureKeeps DEF Count
  <2> QED  BY <2>1, <2>2 DEF HydrateInv, Stages
<1>2. Grown'
  <2>1. rows' = rows /\ rows = <<>> /\ run' = run /\ stage' = "budget"
    BY DEF Count, HydrateInv, Grown
  <2>2. rows' = <<>> /\ rows' \in Seq(Range(rows')) /\ Len(rows') = 0 /\ DOMAIN rows' = {}
    BY <2>1, EmptySeq
  <2>3. Len(run'.tables) \in Nat
    BY <2>1, TabsAre DEF HydrateInv, Stages
  <2> QED  BY <2>1, <2>2, <2>3 DEF Grown
<1>3. Sent'
  <2>1. stage' = "budget" /\ UNCHANGED vars /\ Fresh /\ IInv
    BY DEF Count, HydrateInv, Sent
  <2>2. Fresh'
    BY <2>1 DEF Fresh, vars
  <2>3. IInv'
    BY <2>2, EmptySeq, FreshLoadNext DEF Fresh
  <2> QED  BY <2>1, <2>2, <2>3 DEF Sent, Fresh
<1> QED  BY <1>1, <1>2, <1>3 DEF HydrateInv

LEMMA CheckBudgetKeeps == ASSUME HydrateInv, CheckBudget PROVE HydrateInv'
<1>0. /\ UNCHANGED <<run, counts, rows, vars>> /\ stage = "budget"
      /\ stage' = IF Fits THEN "generate" ELSE "refused"
  BY DEF CheckBudget
<1>1. Stages'
  <2>1. Typed
    BY <1>0 DEF HydrateInv, Stages, Typed
  <2>2. Fits => Budgeted
    BY <2>1, FitsWithin DEF Budgeted, Exact
  <2>3. stage' \in {"generate", "load"} => Budgeted'
    BY <1>0, <2>2, BudgetKeeps
  <2>4. Tabs' = Tabs
    BY <1>0, FixtureKeeps
  <2> QED  BY <1>0, <2>1, <2>3, <2>4 DEF Stages, Typed
<1>2. Grown'
  BY <1>0, RowKeeps DEF HydrateInv, Grown
<1>3. Sent'
  <2>1. UNCHANGED vars /\ Fresh /\ stage' # "load"
    BY <1>0 DEF HydrateInv, Sent
  <2>2. Fresh'
    BY <2>1 DEF Fresh, vars
  <2>3. IInv'
    BY <2>2, EmptySeq, FreshLoadNext DEF Fresh
  <2> QED  BY <2>1, <2>2, <2>3 DEF Sent, Fresh
<1> QED  BY <1>1, <1>2, <1>3 DEF HydrateInv

LEMMA GenerateTableKeeps == ASSUME HydrateInv, GenerateTable PROVE HydrateInv'
<1> DEFINE t == Len(rows) + 1
           fk == {c \in Insertable(t) : IsFK(t, c)}
<1>0. /\ UNCHANGED <<run, counts, vars>> /\ stage = "generate" /\ Len(rows) < Len(run.tables)
      /\ \/ stage' = "refused" /\ UNCHANGED rows
         \/ /\ \E draw \in [Ordinals(t) -> [Drawn(t) -> 0 .. Draws - 1]],
                  assigned \in [fk -> UNION {Assignments(t, c) : c \in fk}] :
                 /\ \A c \in fk : assigned[c] \in Assignments(t, c)
                 /\ rows' = Append(rows, Generated(t, assigned, draw))
            /\ UNCHANGED stage
  BY DEF GenerateTable
<1>1. Stages'
  <2>1. stage' \in {"generate", "refused"}
    BY <1>0
  <2>2. Budgeted' /\ Tabs' = Tabs
    BY <1>0, BudgetKeeps, FixtureKeeps DEF HydrateInv, Stages
  <2> QED  BY <1>0, <2>1, <2>2 DEF HydrateInv, Stages
<1>2. Grown'
  <2>1. CASE stage' = "refused" /\ UNCHANGED rows
    BY <1>0, <2>1, RowKeeps DEF HydrateInv, Grown
  <2>2. CASE ~(stage' = "refused" /\ UNCHANGED rows)
    <3>1. PICK draw \in [Ordinals(t) -> [Drawn(t) -> 0 .. Draws - 1]],
               assigned \in [fk -> UNION {Assignments(t, c) : c \in fk}] :
                 /\ \A c \in fk : assigned[c] \in Assignments(t, c)
                 /\ rows' = Append(rows, Generated(t, assigned, draw))
      BY <1>0, <2>2
    <3> DEFINE new == Generated(t, assigned, draw)
               R == Range(rows)
    <3>2. rows \in Seq(R) /\ Len(rows) \in Nat /\ DOMAIN rows = 1 .. Len(rows)
      BY LenProperties DEF HydrateInv, Grown
    <3>3. t \in Tabs /\ Typed /\ Len(run.tables) \in Nat
      BY <1>0, <3>2, TabsAre DEF HydrateInv, Stages, Typed
    <3>4. \A c \in Insertable(t) : IsFK(t, c) => assigned[c] \in Assignments(t, c)
      BY <3>1
    <3> HIDE DEF t, fk
    <3>5. DOMAIN new = Ordinals(t) /\ \A o \in Ordinals(t) : IsRow(t, new[o])
      BY <3>3, <3>4, GeneratedRows
    <3>6. rows' = Append(rows, new)
      BY <3>1
    <3> HIDE DEF new, R
    <3> DEFINE S == R \union {new}
    <3>7. /\ rows' \in Seq(S) /\ Len(rows') = Len(rows) + 1
          /\ \A k \in 1 .. Len(rows) : rows'[k] = rows[k]
          /\ rows'[Len(rows) + 1] = new
      <4>1. rows \in Seq(S) /\ new \in S
        BY <3>2, BigSeq
      <4> HIDE DEF S
      <4> QED  BY <3>6, <4>1, AppendProperties
    <3>8. rows' \in Seq(Range(rows')) /\ DOMAIN rows' = 1 .. Len(rows) + 1
      BY <3>7, RangeOf
    <3>9. Len(rows') <= Len(run'.tables) /\ stage' = "generate"
      BY <1>0, <2>2, <3>2, <3>3, <3>7
    <3>10. ASSUME NEW u \in DOMAIN rows'
           PROVE  DOMAIN rows'[u] = Ordinals(u) /\ \A o \in Ordinals(u) : IsRow(u, rows'[u][o])
      <4>1. CASE u \in 1 .. Len(rows)
        BY <3>2, <3>7, <4>1 DEF HydrateInv, Grown
      <4>2. CASE u = Len(rows) + 1
        <5>1. rows'[u] = new
          BY <3>7, <4>2
        <5>2. u = t
          BY <4>2 DEF t
        <5> QED  BY <3>5, <5>1, <5>2
      <4> QED  BY <3>2, <3>8, <4>1, <4>2
    <3> QED  BY <1>0, <3>8, <3>9, <3>10, RowKeeps DEF Grown
  <2> QED  BY <2>1, <2>2
<1>3. Sent'
  <2>1. UNCHANGED vars /\ Fresh /\ stage' # "load"
    BY <1>0 DEF HydrateInv, Sent
  <2>2. Fresh'
    BY <2>1 DEF Fresh, vars
  <2>3. IInv'
    BY <2>2, EmptySeq, FreshLoadNext DEF Fresh
  <2> QED  BY <2>1, <2>2, <2>3 DEF Sent, Fresh
<1> QED  BY <1>1, <1>2, <1>3 DEF HydrateInv

\* Load's plan is made of its own kinds.
LEMMA PlansAre ==
  ASSUME run \in Runs
  PROVE  [n \in DOMAIN Statements |-> KindOf(Statements[n])] \in Seq(Kinds)
<1> DEFINE s == Statements
           len == Len(s)
           p == [n \in 1 .. len |-> KindOf(s[n])]
<1>1. len \in Nat /\ DOMAIN s = 1 .. len /\ \A n \in 1 .. len : s[n] \in AllStatements
  BY StatementsAre, LenProperties, ElementOfSeq
<1>2. \A x \in AllStatements : KindOf(x) \in Kinds
  BY LoadKinds DEF AllStatements, StatementKinds, KindOf
<1> HIDE DEF s, len
<1>3. p \in [1 .. len -> Kinds]
  BY <1>1, <1>2
<1>4. p \in Seq(Kinds)
  BY <1>1, <1>3
<1> QED  BY <1>1, <1>4 DEF s, len

LEMMA StartLoadKeeps == ASSUME HydrateInv, StartLoad PROVE HydrateInv'
<1>0. /\ UNCHANGED <<run, counts, rows, pc, i, link, tx, made, kept, reported, durable, refused>>
      /\ stage = "generate" /\ Len(rows) = Len(run.tables) /\ stage' = "load"
      /\ plan' = [n \in DOMAIN Statements |-> KindOf(Statements[n])]
  BY DEF StartLoad
<1>1. Stages'
  BY <1>0, BudgetKeeps, FixtureKeeps DEF HydrateInv, Stages
<1>2. Grown'
  BY <1>0, RowKeeps DEF HydrateInv, Grown
<1>3. Sent'
  <2>1. Statements' = Statements
    BY <1>0, StatementsKeep
  <2>2. plan' \in Seq(Kinds)
    BY <1>0, PlansAre DEF HydrateInv, Stages
  <2>3. Fresh
    BY <1>0 DEF HydrateInv, Sent
  <2>4. IInv'
    BY <1>0, <2>2, <2>3, FreshLoadNext DEF Fresh
  <2> QED  BY <1>0, <2>1, <2>3, <2>4 DEF Sent, Fresh
<1> QED  BY <1>1, <1>2, <1>3 DEF HydrateInv

\* A step of Load as it is run here is one of its own.
LEMMA LoadingIsLoad ==
  ASSUME Loading
  PROVE  /\ Next
         /\ UNCHANGED <<run, stage, counts, rows, plan>>
         /\ \A k \in refused' : k \in refused \/ (k = i /\ ~Accepted(Statements[i]))
<1>0. UNCHANGED <<run, stage, counts, rows>>
  BY DEF Loading
<1>1. CASE Exec /\ Judged
  <2>1. Next
    BY <1>1 DEF Next
  <2>2. plan' = plan /\ (refused' = refused \/ refused' = refused \union {i})
    BY <1>1 DEF Exec
  <2> QED  BY <1>0, <1>1, <2>1, <2>2 DEF Judged
<1>2. CASE ExecGuarded /\ Judged
  <2>1. Next
    BY <1>2 DEF Next
  <2>2. plan' = plan /\ (refused' = refused \/ refused' = refused \union {i})
    BY <1>2 DEF ExecGuarded
  <2> QED  BY <1>0, <1>2, <2>1, <2>2 DEF Judged
<1>3. CASE \/ Begin \/ Savepoint \/ RollbackTo \/ Release \/ SendCommit \/ Commit \/ Rollback
  <2>1. Next
    BY <1>3 DEF Next
  <2>2. plan' = plan /\ refused' = refused
    BY <1>3 DEF Begin, Savepoint, RollbackTo, Release, SendCommit, Commit, Rollback
  <2> QED  BY <1>0, <2>1, <2>2
<1> QED  BY <1>1, <1>2, <1>3 DEF Loading

\* A statement can be refused a reset only for its rows.
LEMMA ResetsJudged ==
  ASSUME NEW s, s.kind = "reset", ~Accepted(s)
  PROVE  ~ResetAccepted(s.t, s.what)
BY DEF Accepted

LEMMA ValuesKeep ==
  ASSUME UNCHANGED <<run, counts, rows>>
  PROVE  \A t, c : /\ Values(t, c)' = Values(t, c)
                   /\ ResetAccepted(t, c)' <=> ResetAccepted(t, c)
<1>1. \A t, c : Values(t, c)' = Values(t, c)
  BY DEF Values, Held
<1> QED  BY <1>1 DEF ResetAccepted

LEMMA LoadingKeeps == ASSUME HydrateInv, Loading PROVE HydrateInv'
<1>0. /\ UNCHANGED <<run, stage, counts, rows, plan>> /\ stage = "load"
      /\ Next
      /\ \A k \in refused' : k \in refused \/ (k = i /\ ~Accepted(Statements[i]))
  BY LoadingIsLoad DEF Loading
<1>1. Stages'
  BY <1>0, BudgetKeeps, FixtureKeeps DEF HydrateInv, Stages
<1>2. Grown'
  BY <1>0, RowKeeps DEF HydrateInv, Grown
<1>3. Sent'
  <2>1. Statements' = Statements
    BY <1>0, StatementsKeep
  <2>2. IInv'
    BY <1>0, NextIInv DEF HydrateInv, Sent
  <2>3. ASSUME NEW k \in refused', NEW t, NEW c,
               Statements[k].kind = "reset", Statements[k].t = t, Statements[k].what = c
        PROVE  ~ResetAccepted(t, c)
    <3>1. CASE k \in refused
      BY <2>3, <3>1 DEF HydrateInv, Sent
    <3>2. CASE k = i /\ ~Accepted(Statements[i])
      BY <2>3, <3>2, ResetsJudged
    <3> QED  BY <1>0, <3>1, <3>2
  <2>4. \A t, c : ResetAccepted(t, c)' <=> ResetAccepted(t, c)
    BY <1>0, ValuesKeep
  <2>5. plan' = [n \in DOMAIN Statements' |-> KindOf(Statements'[n])] /\ stage' = "load"
    BY <1>0, <2>1 DEF HydrateInv, Sent
  <2>6. \A k \in refused' : \A t, c :
          Statements'[k].kind = "reset" /\ Statements'[k].t = t /\ Statements'[k].what = c => ~ResetAccepted(t, c)'
    BY <2>1, <2>3, <2>4
  <2> QED  BY <2>2, <2>5, <2>6 DEF Sent
<1> QED  BY <1>1, <1>2, <1>3 DEF HydrateInv

LEMMA HydrateNextInv == HydrateInv /\ [HydrateNext]_hydrateVars => HydrateInv'
<1> SUFFICES ASSUME HydrateInv, [HydrateNext]_hydrateVars PROVE HydrateInv'
  OBVIOUS
<1>1. CASE UNCHANGED hydrateVars
  <2>0. UNCHANGED <<run, stage, counts, rows, plan, pc, i, link, tx, made, kept, reported, durable, refused>>
    BY <1>1 DEF hydrateVars, vars
  <2>1. Stages'
    BY <2>0, BudgetKeeps, FixtureKeeps DEF HydrateInv, Stages
  <2>2. Grown'
    BY <2>0, RowKeeps DEF HydrateInv, Grown
  <2>3. IInv'
    <3>1. UNCHANGED vars
      BY <2>0 DEF vars
    <3> QED  BY <3>1, NextIInv DEF HydrateInv, Sent
  <2>4. Statements' = Statements /\ \A t, c : ResetAccepted(t, c)' <=> ResetAccepted(t, c)
    BY <2>0, StatementsKeep, ValuesKeep
  <2>5. Sent'
    BY <2>0, <2>3, <2>4 DEF HydrateInv, Sent, Fresh
  <2> QED  BY <2>1, <2>2, <2>5 DEF HydrateInv
<1> QED  BY <1>1, CountKeeps, CheckBudgetKeeps, GenerateTableKeeps, StartLoadKeeps, LoadingKeeps DEF HydrateNext, Ended

LEMMA HydrateInvariance == HydrateSpec => []HydrateInv
BY HydrateInitInv, HydrateNextInv, PTL DEF HydrateSpec

-----------------------------------------------------------------------------
(* The properties *)

\* Every variable keeps its type, and every cell of a generated row has a value of some
\* shape, for every fixture, whatever the draws and the fan-outs.
THEOREM HydrateTypeCorrect == HydrateSpec => []HydrateTypeOK
<1>1. HydrateInv => HydrateTypeOK
  <2> SUFFICES ASSUME HydrateInv PROVE HydrateTypeOK
    OBVIOUS
  <2>1. run \in Runs /\ Len(run.tables) \in Nat /\ Len(rows) \in Nat /\ Len(rows) <= Len(run.tables)
    BY TabsAre, LenProperties DEF HydrateInv, Stages, Grown
  <2>2. TypeOK
    BY DEF HydrateInv, Sent, IInv
  <2>3. ASSUME NEW t \in DOMAIN rows
        PROVE  /\ DOMAIN rows[t] = Ordinals(t)
               /\ \A row \in Held(t) : /\ DOMAIN row = Insertable(t)
                                       /\ \A c \in DOMAIN row : row[c][1] \in Shapes /\ row[c][2] \in Int
    <3>1. DOMAIN rows[t] = Ordinals(t) /\ \A o \in Ordinals(t) : IsRow(t, rows[t][o])
      BY DEF HydrateInv, Grown
    <3>2. ASSUME NEW row \in Held(t)
          PROVE  IsRow(t, row)
      BY <3>1, <3>2 DEF Held, Range
    <3> QED  BY <3>1, <3>2 DEF IsRow, IsValue
  <2> QED  BY <2>1, <2>2, <2>3 DEF HydrateTypeOK, HydrateInv, Stages
<1> QED  BY <1>1, HydrateInvariance, PTL

\* What checkBudget lets through is within the limit in exact arithmetic, whatever the
\* widths of the tables and of the integers (engine.go:98).
THEOREM GeneratedWithinBudget == HydrateSpec => []WithinBudget
<1>1. HydrateInv => WithinBudget
  BY DEF HydrateInv, Stages, Budgeted, Exact, WithinBudget
<1> QED  BY <1>1, HydrateInvariance, PTL

\* A load that ends well has sent every statement, and what is not durable was reported
\* or is a reset that was refused.
LEMMA AllSent ==
  ASSUME HydrateInv, pc = "loaded", NEW s \in Range(Statements)
  PROVE  \E k \in DOMAIN Statements :
           /\ Statements[k] = s
           /\ \/ k \in durable
              \/ k \in reported /\ k \in refused
              \/ s.kind = "reset" /\ k \in refused
<1>1. stage = "load"
  BY DEF HydrateInv, Sent, Fresh
<1>2. /\ Statements \in Seq(AllStatements) /\ DOMAIN Statements = 1 .. Len(Statements)
      /\ Len(Statements) \in Nat
  BY StatementsAre, LenProperties DEF HydrateInv, Stages
<1>3. plan = [n \in 1 .. Len(Statements) |-> KindOf(Statements[n])]
  BY <1>1, <1>2 DEF HydrateInv, Sent
<1>4. IInv
  BY DEF HydrateInv, Sent
<1>5. \A k \in 1 .. Len(plan) : k \in durable \/ k \in reported \/ (plan[k] = "reset" /\ k \in refused)
  BY <1>4 DEF IInv, TypeOK, Fate, Books, Everything
<1>6. reported \subseteq refused
  BY <1>4 DEF IInv, Books
<1>7. PICK k \in 1 .. Len(Statements) : Statements[k] = s
  BY <1>2, RangeOf
<1>8. Len(plan) = Len(Statements) /\ plan[k] = KindOf(s)
  BY <1>2, <1>3, <1>7
<1>9. plan[k] = "reset" => s.kind = "reset"
  <2>1. s \in AllStatements
    BY <1>2, <1>7
  <2> QED  BY <1>8, <2>1 DEF KindOf
<1> QED  BY <1>2, <1>5, <1>6, <1>7, <1>8, <1>9

LEMMA StatementIs ==
  ASSUME NEW kind, NEW t, NEW what
  PROVE  LET s == Statement(kind, t, what) IN s.kind = kind /\ s.t = t /\ s.what = what
BY DEF Statement

\* What is no reset is created or reported.
LEMMA CreatedIs ==
  ASSUME HydrateInv, pc = "loaded", NEW kind, kind # "reset", NEW t, NEW what,
         Statement(kind, t, what) \in Range(Statements)
  PROVE  Created(kind, t, what)
<1> DEFINE s == Statement(kind, t, what)
<1>1. s.kind = kind /\ s.t = t /\ s.what = what
  BY StatementIs
<1>2. s \in Range(Statements)
  OBVIOUS
<1> HIDE DEF s
<1>3. PICK k \in DOMAIN Statements :
        /\ Statements[k] = s
        /\ k \in durable \/ k \in reported
  BY <1>1, <1>2, AllSent
<1> QED  BY <1>1, <1>3 DEF Created

\* After a load each constraint, index, generated column, default and partition count of
\* the fixture is in the target or was told of (load.go:177), but for those Unreported.
THEOREM HydrateDifferencesTold == HydrateSpec => []DifferencesAreTold
<1>1. HydrateInv => DifferencesAreTold
  <2> SUFFICES ASSUME HydrateInv, pc = "loaded", NEW t \in Tabs
               PROVE  /\ \A con \in Range(Tab(t).cons) :
                           \/ con.kind = "foreign_key" \/ Unreported(t, con)
                           \/ con \in InlineKeys(t) \/ Created("check", t, con)
                      /\ \A ref \in Range(Tab(t).refs) :
                           \E key \in Range(ForeignKeys(t)) : ref \in Range(key) /\ Created("fk", t, key)
                      /\ \A ix \in Range(Tab(t).indexes) :
                           ix.partial = "opaque" \/ BroughtByKey(t, ix) \/ Created("index", t, ix)
                      /\ \A c \in Cols(t) :
                           /\ Col(t, c).generated \in {"stored", "virtual"} =>
                                GeneratedByDatabase(Col(t, c)) \/ <<t, c>> \in UnreproducibleGenerated
                           /\ Col(t, c).default = "opaque" /\ Col(t, c).generated = "none" =>
                                Col(t, c).nullable \/ <<t, c>> \in UnreproducibleDefaults
                      /\ LET p == Tab(t).parts IN
                           p.by # "none" => \/ t \in UnreproducedPartitionCounts
                                            \/ Len(PartitionsOf(p)) = Greater(p.count, 1)
    BY DEF DifferencesAreTold
  <2>0. run \in Runs /\ IsTable(Tab(t))
    BY TabsAre DEF HydrateInv, Stages
  <2>1. ASSUME NEW con \in Range(Tab(t).cons)
        PROVE  \/ con.kind = "foreign_key" \/ Unreported(t, con)
               \/ con \in InlineKeys(t) \/ Created("check", t, con)
    <3>1. CASE con.kind = "check" /\ con.known
      <4> DEFINE all == Tab(t).cons
                 K == {x \in Range(all) : x.kind = "check" /\ x.known}
      <4>1. all \in Seq(Range(all)) /\ con \in K
        BY <2>0, <3>1 DEF IsTable
      <4>2. ChecksOf(t) = Among(all, K)
        BY DEF ChecksOf
      <4> HIDE DEF all, K
      <4>3. con \in Range(ChecksOf(t))
        BY <4>1, <4>2, AmongIs DEF all
      <4>4. Statement("check", t, con) \in Range(Statements)
        BY <2>0, <4>3, StatementsAre
      <4> QED  BY <4>4, CreatedIs
    <3>2. CASE ~(con.kind = "check" /\ con.known)
      <4>1. con.kind \in {"primary_key", "unique", "check", "foreign_key", "exclusion"}
        BY <2>0 DEF IsTable, IsConstraint
      <4> QED  BY <3>2, <4>1 DEF Unreported, InlineKeys, FitsPartitionKey
    <3> QED  BY <3>1, <3>2
  <2>2. ASSUME NEW ref \in Range(Tab(t).refs)
        PROVE  \E key \in Range(ForeignKeys(t)) : ref \in Range(key) /\ Created("fk", t, key)
    <3>1. PICK key \in Range(ForeignKeys(t)) : ref \in Range(key)
      BY <2>0, KeysAre
    <3>2. Statement("fk", t, key) \in Range(Statements)
      BY <2>0, StatementsAre
    <3> QED  BY <3>1, <3>2, CreatedIs
  <2>3. ASSUME NEW ix \in Range(Tab(t).indexes)
        PROVE  ix.partial = "opaque" \/ BroughtByKey(t, ix) \/ Created("index", t, ix)
    <3>1. CASE ix.partial = "opaque" \/ ix.name \in Backed(t)
      BY <3>1 DEF Backed, BroughtByKey, InlineKeys, Unreported, FitsPartitionKey
    <3>2. CASE ~(ix.partial = "opaque" \/ ix.name \in Backed(t))
      <4> DEFINE all == Tab(t).indexes
                 K == {x \in Range(all) : x.name \notin Backed(t) /\ x.partial # "opaque"}
      <4>1. all \in Seq(Range(all)) /\ ix \in K
        BY <2>0, <3>2 DEF IsTable
      <4>2. IndexesOf(t) = Among(all, K)
        BY DEF IndexesOf
      <4> HIDE DEF all, K
      <4>3. ix \in Range(IndexesOf(t))
        BY <4>1, <4>2, AmongIs DEF all
      <4>4. Statement("index", t, ix) \in Range(Statements)
        BY <2>0, <4>3, StatementsAre
      <4> QED  BY <4>4, CreatedIs
    <3> QED  BY <3>1, <3>2
  <2>4. ASSUME NEW c \in Cols(t)
        PROVE  /\ Col(t, c).generated \in {"stored", "virtual"} =>
                    GeneratedByDatabase(Col(t, c)) \/ <<t, c>> \in UnreproducibleGenerated
               /\ Col(t, c).default = "opaque" /\ Col(t, c).generated = "none" =>
                    Col(t, c).nullable \/ <<t, c>> \in UnreproducibleDefaults
    <3>1. <<t, c>> \in Columns /\ <<t, c>>[1] = t /\ <<t, c>>[2] = c
      BY DEF Columns
    <3>2. \/ Col(t, c).generated = "stored" /\ Col(t, c).expr # "known"
          \/ Col(t, c).generated = "virtual"
          => <<t, c>> \in UnreproducibleGenerated
      BY <3>1 DEF UnreproducibleGenerated
    <3>3. Col(t, c).default = "opaque" /\ ~Col(t, c).nullable /\ Col(t, c).generated = "none"
          => <<t, c>> \in UnreproducibleDefaults
      BY <3>1 DEF UnreproducibleDefaults
    <3> QED  BY <3>2, <3>3 DEF GeneratedByDatabase
  <2>5. LET p == Tab(t).parts IN
          p.by # "none" => \/ t \in UnreproducedPartitionCounts
                           \/ Len(PartitionsOf(p)) = Greater(p.count, 1)
    <3> DEFINE p == Tab(t).parts
               n == IF p.by = "hash" THEN Greater(p.count, 1) ELSE 1
    <3>1. p.count \in Int
      BY <2>0 DEF IsTable
    <3>2. p.by # "none" /\ (~Partitioned(p) \/ (p.by # "hash" /\ p.count > 1)) => t \in UnreproducedPartitionCounts
      BY DEF UnreproducedPartitionCounts
    <3>3. Partitioned(p) => PartitionsOf(p) = [k \in 1 .. n |-> k]
      BY DEF PartitionsOf
    <3> HIDE DEF p
    <3>4. n \in Nat /\ (p.by = "hash" \/ ~(p.count > 1) => n = Greater(p.count, 1))
      BY <3>1 DEF Greater
    <3> HIDE DEF n
    <3>5. Partitioned(p) => Len(PartitionsOf(p)) = n
      BY <3>3, <3>4
    <3>6. p.by # "none" => t \in UnreproducedPartitionCounts \/ Len(PartitionsOf(p)) = Greater(p.count, 1)
      BY <3>2, <3>4, <3>5
    <3> QED  BY <3>6 DEF p
  <2> QED  BY <2>1, <2>2, <2>3, <2>4, <2>5
<1> QED  BY <1>1, HydrateInvariance, PTL

\* The values of an identity column are a finite set of integers.
LEMMA ValuesAre ==
  ASSUME HydrateInv, stage = "load", NEW t \in Tabs, NEW c \in Cols(t), Col(t, c).generated = "identity"
  PROVE  IsFiniteSet(Values(t, c)) /\ Values(t, c) \subseteq Int
<1>1. counts[t] \in Nat /\ run \in Runs
  BY HydrateAssumption DEF HydrateInv, Stages
<1>2. t \in DOMAIN rows
  <2>1. Tabs = 1 .. Len(run.tables) /\ DOMAIN rows = 1 .. Len(rows) /\ Len(rows) = Len(run.tables)
    BY <1>1, TabsAre, LenProperties DEF HydrateInv, Grown
  <2> QED  BY <2>1
<1>3. DOMAIN rows[t] = Ordinals(t) /\ \A o \in Ordinals(t) : IsRow(t, rows[t][o])
  BY <1>2 DEF HydrateInv, Grown
<1>4. c \in Insertable(t)
  BY DEF Insertable, GeneratedByDatabase
<1>5. IsFiniteSet(Ordinals(t))
  <2>1. counts[t] - 1 \in Int
    BY <1>1
  <2> QED  BY <2>1, FS_Interval DEF Ordinals
<1> DEFINE f == [o \in Ordinals(t) |-> rows[t][o][c][2]]
           V == {rows[t][o][c][2] : o \in Ordinals(t)}
<1>6. f \in Surjection(Ordinals(t), V)
  BY DEF Surjection
<1>7. IsFiniteSet(V) /\ V \subseteq Int
  <2>1. IsFiniteSet(V)
    <3> HIDE DEF f, V
    <3> QED  BY <1>5, <1>6, FS_Surjection
  <2>2. \A o \in Ordinals(t) : rows[t][o][c][2] \in Int
    BY <1>3, <1>4 DEF IsRow, IsValue
  <2> QED  BY <2>1, <2>2
<1>8. Values(t, c) \subseteq V
  BY <1>3 DEF Values, Held, Range
<1> HIDE DEF V
<1> QED  BY <1>7, <1>8, FS_Subset

\* After a load an INSERT that omits an identity column collides with no row (load.go:143).
THEOREM HydrateIdentityContinues == HydrateSpec => []IdentityContinues
<1>1. HydrateInv => IdentityContinues
  <2> SUFFICES ASSUME HydrateInv, pc = "loaded", NEW t \in Tabs, NEW c, c \in Cols(t),
                      Col(t, c).generated = "identity", NEW v \in Values(t, c)
               PROVE  v < NextIdentity(t, c)
    BY DEF IdentityContinues
  <2>1. stage = "load" /\ run \in Runs /\ IsTable(Tab(t))
    BY TabsAre DEF HydrateInv, Sent, Fresh, Stages
  <2>2. /\ Values(t, c) # {} /\ Values(t, c) \subseteq Int
        /\ Highest(Values(t, c)) \in Int /\ v <= Highest(Values(t, c)) /\ v \in Int
    BY <2>1, ValuesAre, FiniteHighest
  <2>3. CASE WasReset(t, c)
    BY <2>2, <2>3 DEF NextIdentity
  <2>4. CASE ~WasReset(t, c)
    <3> DEFINE s == Statement("reset", t, c)
    <3>1. s.kind = "reset" /\ s.t = t /\ s.what = c
      BY StatementIs
    <3>2. s \in Range(Statements)
      <4> DEFINE I == {x \in Cols(t) : Col(t, x).generated = "identity"}
      <4>1. IsFiniteSet(I) /\ c \in I
        BY <2>1, FS_Subset DEF IsTable, Cols
      <4>2. Identities(t) = SetToSeq(I)
        BY DEF Identities
      <4> HIDE DEF I
      <4>3. c \in Range(Identities(t))
        BY <4>1, <4>2, SetToSeqIs
      <4> QED  BY <2>1, <4>3, StatementsAre
    <3> HIDE DEF s
    <3>3. PICK k \in DOMAIN Statements : Statements[k] = s /\ (k \in durable \/ k \in refused)
      BY <3>2, AllSent
    <3>4. k \in refused
      BY <2>4, <3>1, <3>3 DEF WasReset
    <3>5. ~ResetAccepted(t, c)
      BY <3>1, <3>3, <3>4 DEF HydrateInv, Sent
    <3>6. ~(Highest(Values(t, c)) >= 1)
      BY <3>5 DEF ResetAccepted
    <3> QED  BY <2>2, <2>4, <3>6 DEF NextIdentity
  <2> QED  BY <2>3, <2>4
<1> QED  BY <1>1, HydrateInvariance, PTL

-----------------------------------------------------------------------------
(* Columns whose values are all different *)

\* The types with room for any number of values.
Roomy(c) == IsColumn(c) /\ c.type \in {"int", "text", "uuid"} /\ ~c.narrow

LEMMA UniqueNumbers ==
  ASSUME NEW c, IsColumn(c)
  PROVE  \E base \in Int : \A n : NumericInRange(c, n, TRUE) = IF c.range = {} THEN n ELSE base + n
<1>1. CASE c.range = {}
  BY <1>1 DEF NumericInRange
<1>2. CASE c.range # {}
  <2>1. PICK r \in c.range : r = The(c.range)
    BY <1>2, TheIs
  <2>2. r.lo \in Int
    BY <2>1 DEF IsColumn, IsRange
  <2>3. \A n : NumericInRange(c, n, TRUE) = r.lo + n
    BY <1>2, <2>1 DEF NumericInRange
  <2> QED  BY <1>2, <2>2, <2>3
<1> QED  BY <1>1, <1>2

\* The value of such a column in the row of that ordinal.
Own(c, n) == FakeValue(c, c.type, n, TRUE)

LEMMA OwnAre ==
  ASSUME NEW c, Roomy(c), NEW n \in Nat, NEW m \in Nat
  PROVE  /\ Own(c, n) # Null /\ Own(c, n)[1] = c.type
         /\ n # m => Own(c, n) # Own(c, m)
<1>1. PICK base \in Int : \A k : NumericInRange(c, k, TRUE) = IF c.range = {} THEN k ELSE base + k
  BY UniqueNumbers DEF Roomy
<1>2. CASE c.type = "int"
  <2>1. \A k : Own(c, k) = <<"int", IF c.range = {} THEN k ELSE base + k>>
    BY <1>1, <1>2 DEF Own, FakeValue
  <2> QED  BY <1>2, <2>1 DEF Null
<1>3. CASE c.type \in {"text", "uuid"}
  <2>1. \A k : Own(c, k) = <<c.type, k>>
    BY <1>3 DEF Own, FakeValue, Roomy
  <2> QED  BY <1>3, <2>1 DEF Null
<1> QED  BY <1>2, <1>3 DEF Roomy

\* What generateValue makes of a column that is unique.
LEMMA UniqueGenerated ==
  ASSUME NEW c, Roomy(c), c.unique, NEW n \in Nat, NEW d
  PROVE  GenerateValue(c, n, d) \in {Null, Own(c, n)} /\ (~c.nullable => GenerateValue(c, n, d) = Own(c, n))
<1>1. Number(c, n, d) = n
  BY DEF Number
<1>2. CASE c.nullable /\ IsNullAt(n, c.nulls)
  BY <1>2 DEF GenerateValue
<1>3. CASE ~(c.nullable /\ IsNullAt(n, c.nulls))
  <2>1. GenerateValue(c, n, d) = FakeValue(c, c.type, n, c.unique)
    BY <1>1, <1>3 DEF GenerateValue, Roomy
  <2>2. c.unique = TRUE
    BY DEF Roomy, IsColumn
  <2> QED  BY <2>1, <2>2 DEF Own
<1> QED  BY <1>2, <1>3

\* A child's value for a parent's ordinal is the parent's own, and for an ordinal past the
\* last the one that a further parent would have.
LEMMA ParentIDIsOwn ==
  ASSUME NEW c, Roomy(c), c.domain => c.type = "text", NEW ord \in Nat, NEW n \in Nat
  PROVE  ParentIDValue({c}, ord, n) = Own(c, ord)
<1>1. The({c}) = c
  BY DEF The
<1> DEFINE val == FakeValue(c, IF c.domain THEN "domain" ELSE c.type, ord, TRUE)
<1>2. val = Own(c, ord)
  BY DEF FakeValue, Own, Roomy
<1>3. ParentIDValue({c}, ord, n) =
        IF ord < n \/ n = 0 \/ val[1] # "int" THEN val
        ELSE <<"int", NumericInRange(c, n - 1, TRUE) + 1 + (ord - n)>>
  BY <1>1 DEF ParentIDValue
<1> HIDE DEF val
<1>4. CASE ord < n \/ n = 0 \/ val[1] # "int"
  BY <1>2, <1>3, <1>4
<1>5. CASE ~(ord < n \/ n = 0 \/ val[1] # "int")
  <2>1. c.type = "int"
    BY <1>2, <1>5, OwnAre
  <2>2. PICK base \in Int : \A k : NumericInRange(c, k, TRUE) = IF c.range = {} THEN k ELSE base + k
    BY UniqueNumbers DEF Roomy
  <2>3. Own(c, ord) = <<"int", IF c.range = {} THEN ord ELSE base + ord>>
    BY <2>1, <2>2 DEF Own, FakeValue
  <2>4. NumericInRange(c, n - 1, TRUE) + 1 + (ord - n) = IF c.range = {} THEN ord ELSE base + ord
    <3>1. n - 1 + 1 + (ord - n) = ord /\ base + (n - 1) + 1 + (ord - n) = base + ord
      OBVIOUS
    <3>2. CASE c.range = {}
      BY <2>2, <3>1, <3>2
    <3>3. CASE c.range # {}
      BY <2>2, <3>1, <3>3
    <3> QED  BY <3>2, <3>3
  <2> QED  BY <1>3, <1>5, <2>3, <2>4
<1> QED  BY <1>4, <1>5

-----------------------------------------------------------------------------
(* Orphans *)

\* A child is an orphan, its number past the last parent's, if and only if they are due.
LEMMA OrphansAssigned ==
  ASSUME NEW ref, IsRef(ref), NEW childN \in Nat \ {0}, NEW parentN \in Nat \ {0},
         NEW declared \in Int, NEW a \in AssignForeignKeys(ref, childN, parentN, declared)
  PROVE  (\E o \in 0 .. childN - 1 : a[o] >= parentN)
           <=> ref.fanout # {} /\ Rounded(ref.orphans * childN, 4) > 0 /\ parentN > 1
<1>1. CASE ref.fanout = {}
  <2>1. a = [o \in 0 .. childN - 1 |-> o % parentN]
    BY <1>1 DEF AssignForeignKeys
  <2>2. ASSUME NEW o \in 0 .. childN - 1
        PROVE  ~(a[o] >= parentN)
    <3>1. o \in Nat
      OBVIOUS
    <3>2. o % parentN \in 0 .. parentN - 1
      BY <3>1, Remainders
    <3>3. a[o] = o % parentN
      BY <2>1
    <3> QED  BY <3>2, <3>3
  <2> QED  BY <1>1, <2>2
<1>2. CASE ref.fanout # {}
  <2>1. PICK c : DOMAIN c = 0 .. parentN - 1 /\ c[0] \in Nat \ {0} /\ a = Whose(c, ref, childN, parentN)
    BY <1>2, AssignedBy
  <2> DEFINE groups == OrphanGroupCount(c, childN, ref.orphans)
  <2>2. groups \in Nat
    BY <2>1, GroupsAre
  <2>3. groups > 0 <=> Rounded(ref.orphans * childN, 4) > 0 /\ parentN > 1
    BY <2>1, GroupsDue DEF IsRef
  <2>4. \A o \in 0 .. childN - 1 :
          a[o] = IF Past(c, o) = {} THEN parentN - 1
                 ELSE IF OfChild(c, o) < groups THEN parentN + OfChild(c, o) ELSE OfChild(c, o)
    BY <2>1 DEF Whose
  <2>5. \A o \in 0 .. childN - 1 : Past(c, o) # {} => OfChild(c, o) \in 0 .. parentN - 1
    BY <2>1, OfChildIs
  <2> HIDE DEF groups
  <2>6. ASSUME groups > 0
        PROVE  a[0] >= parentN
    <3>1. 0 \in Past(c, 0)
      <4>1. 0 .. 0 = {0}
        OBVIOUS
      <4>2. SumFunctionOnSet(c, {0}) = c[0]
        <5>1. IsFiniteSet({0})
          BY FS_Singleton
        <5>2. \A x \in {0} : c[x] \in Int
          BY <2>1
        <5>3. SumFunctionOnSet(c, {0}) = c[0] + SumFunctionOnSet(c, {0} \ {0})
          BY <5>1, <5>2, SumOf
        <5>4. {0} \ {0} = {}
          OBVIOUS
        <5>5. SumFunctionOnSet(c, {}) = 0
          BY SumOfNone
        <5>6. SumFunctionOnSet(c, {0}) = c[0] + 0
          BY <5>3, <5>4, <5>5
        <5> QED  BY <2>1, <5>6
      <4> QED  BY <2>1, <4>1, <4>2 DEF Past
    <3>2. OfChild(c, 0) = 0
      <4>1. OfChild(c, 0) \in 0 .. parentN - 1 /\ OfChild(c, 0) <= 0
        BY <2>1, <3>1, OfChildIs
      <4> QED  BY <4>1
    <3>3. 0 \in 0 .. childN - 1
      OBVIOUS
    <3> QED  BY <2>4, <2>6, <3>1, <3>2, <3>3
  <2>7. ASSUME ~(groups > 0), NEW o \in 0 .. childN - 1
        PROVE  ~(a[o] >= parentN)
    <3>1. CASE Past(c, o) = {}
      BY <2>4, <3>1
    <3>2. CASE Past(c, o) # {}
      <4>1. OfChild(c, o) \in 0 .. parentN - 1 /\ ~(OfChild(c, o) < groups)
        BY <2>2, <2>5, <2>7, <3>2
      <4> QED  BY <2>4, <3>2, <4>1
    <3> QED  BY <3>1, <3>2
  <2>8. 0 \in 0 .. childN - 1
    OBVIOUS
  <2> QED  BY <1>2, <2>3, <2>6, <2>7, <2>8
<1> QED  BY <1>1, <1>2

-----------------------------------------------------------------------------
(* What the rows are made of *)

\* A value a column of a supported type takes, whatever it is a domain of.
FitsColumn(c, v) ==
  IF v = Null THEN c.nullable
  ELSE /\ v[1] \in {"literal", IF c.type = "enum" THEN "label" ELSE c.type}
       /\ v[1] = "text" /\ c.narrow => v[2] < Short

LEMMA FakeFits ==
  ASSUME NEW c, IsColumn(c), c.type \notin {"enum", "unsupported"}, NEW n \in Nat, NEW unique \in BOOLEAN
  PROVE  FitsColumn(c, FakeValue(c, c.type, n, unique))
<1> DEFINE v == FakeValue(c, c.type, n, unique)
<1>1. v # Null
  BY FakeIs
<1>2. n % Short < Short
  <2>1. n % Short \in 0 .. Short - 1
    BY Remainders, SynthesisAssumption
  <2> QED  BY <2>1, SynthesisAssumption
<1>3. c.type \in {"int", "time", "text", "bool", "json", "uuid"}
  BY DEF IsColumn, Types
<1>4. v[1] = c.type /\ (c.type = "text" /\ c.narrow => v[2] = n % Short)
  BY <1>3 DEF FakeValue
<1> HIDE DEF v
<1>5. v[1] \in {"literal", IF c.type = "enum" THEN "label" ELSE c.type}
  BY <1>4
<1>6. v[1] = "text" /\ c.narrow => v[2] < Short
  BY <1>2, <1>4
<1> QED  BY <1>1, <1>5, <1>6 DEF FitsColumn, v

LEMMA GeneratedFits ==
  ASSUME NEW c, IsColumn(c), c.type # "unsupported", NEW ord \in Nat, NEW draw \in Nat
  PROVE  FitsColumn(c, GenerateValue(c, ord, draw))
<1>1. Number(c, ord, draw) \in Nat /\ c.unique \in BOOLEAN
  <2>1. c.distinct \in Int /\ c.unique \in BOOLEAN
    BY DEF IsColumn
  <2> QED  BY <2>1, Remainders DEF Number
<1>2. CASE c.nullable /\ IsNullAt(ord, c.nulls)
  BY <1>2 DEF GenerateValue, FitsColumn
<1>3. CASE ~(c.nullable /\ IsNullAt(ord, c.nulls)) /\ c.type = "enum"
  BY <1>3 DEF GenerateValue, FitsColumn, Null
<1>4. CASE ~(c.nullable /\ IsNullAt(ord, c.nulls)) /\ c.type # "enum"
  <2>1. FitsColumn(c, FakeValue(c, c.type, Number(c, ord, draw), c.unique))
    BY <1>1, <1>4, FakeFits
  <2>2. CASE c.histogram /\ ~c.unique /\ c.type = "int"
    BY <1>4, <2>2 DEF GenerateValue, FitsColumn, Null
  <2>3. CASE ~(c.histogram /\ ~c.unique /\ c.type = "int")
    BY <1>4, <2>1, <2>3 DEF GenerateValue
  <2> QED  BY <2>2, <2>3
<1> QED  BY <1>2, <1>3, <1>4

\* A CHECK moves a value, and out of its type only to a literal.
LEMMA AppliedFits ==
  ASSUME NEW c, NEW v, FitsColumn(c, v), NEW dom, NEW draw
  PROVE  FitsColumn(c, ApplyCheckDomain(v, dom, draw))
<1>1. CASE v = Null
  BY <1>1 DEF ApplyCheckDomain
<1>2. CASE v # Null /\ dom.values # {}
  <2> DEFINE nth == CHOOSE s \in [1 .. Cardinality(dom.values) -> dom.values] : \A k, l \in DOMAIN s : k < l => s[k] < s[l]
             x == nth[(draw % Len(nth)) + 1]
  <2>1. ApplyCheckDomain(v, dom, draw) = <<"literal", x>>
    BY <1>2 DEF ApplyCheckDomain
  <2> HIDE DEF x
  <2> QED  BY <2>1 DEF FitsColumn, Null
<1>3. CASE v # Null /\ dom.values = {}
  <2>1. ApplyCheckDomain(v, dom, draw) = ClampNumeric(v, dom.bounds)
    BY <1>3 DEF ApplyCheckDomain
  <2>2. CASE v[1] # "int" \/ dom.bounds = {}
    BY <2>1, <2>2 DEF ClampNumeric
  <2>3. CASE v[1] = "int" /\ dom.bounds # {}
    <3>1. PICK x : ClampNumeric(v, dom.bounds) = <<"int", x>>
      BY <2>3, Zenon DEF ClampNumeric
    <3> QED  BY <1>3, <2>1, <2>3, <3>1 DEF FitsColumn, Null
  <2> QED  BY <2>2, <2>3
<1> QED  BY <1>1, <1>2, <1>3

\* The rows of a table are as generateTable makes them.
OwnCell(t, c, o, v) ==
  \E d \in Nat : v = ApplyCheckDomain(GenerateValue(Col(t, c), o, d), CheckDomains(Tab(t), c), d)
Referring(t, c, a, o) == ParentIDValue(Parent(Assigning(t, c)), a[o], ParentRows(Assigning(t, c)))

MadeOf(t, r) ==
  \A c \in Insertable(t) :
    /\ Col(t, c).type # "unsupported"
    /\ ~IsFK(t, c) => \A o \in Ordinals(t) : OwnCell(t, c, o, r[o][c])
    /\ IsFK(t, c) => \E a \in Assignments(t, c) : \A o \in Ordinals(t) : r[o][c] = Referring(t, c, a, o)

LEMMA GeneratedMade ==
  ASSUME NEW t,
         \A c \in Cols(t) : ~UnsupportedType(Col(t, c)),
         NEW draw \in [Ordinals(t) -> [Drawn(t) -> 0 .. Draws - 1]],
         NEW assigned, \A c \in Insertable(t) : IsFK(t, c) => assigned[c] \in Assignments(t, c)
  PROVE  MadeOf(t, Generated(t, assigned, draw))
<1> DEFINE doms(c) == CheckDomains(Tab(t), c)
           d(o, c) == IF c \in Drawn(t) THEN draw[o][c] ELSE 0
           own(o, c) == ApplyCheckDomain(GenerateValue(Col(t, c), o, d(o, c)), doms(c), d(o, c))
           cell(o, c) == IF IsFK(t, c)
                         THEN ParentIDValue(Parent(Assigning(t, c)), assigned[c][o], ParentRows(Assigning(t, c)))
                         ELSE own(o, c)
           r == Generated(t, assigned, draw)
<1>1. r = [o \in Ordinals(t) |-> [c \in Insertable(t) |-> cell(o, c)]]
  BY Zenon DEF Generated
<1>2. ASSUME NEW o \in Ordinals(t), NEW c \in Insertable(t)
      PROVE  d(o, c) \in Nat
  <2>1. c \in Drawn(t) => draw[o][c] \in 0 .. Draws - 1
    OBVIOUS
  <2> QED  BY <2>1, HydrateAssumption
<1> HIDE DEF d, r
<1>3. ASSUME NEW c \in Insertable(t)
      PROVE  Col(t, c).type # "unsupported"
  BY <1>3 DEF Insertable, UnsupportedType
<1>4. ASSUME NEW c \in Insertable(t), ~IsFK(t, c), NEW o \in Ordinals(t)
      PROVE  OwnCell(t, c, o, r[o][c])
  <2>1. r[o][c] = own(o, c)
    BY <1>1, <1>4
  <2> QED  BY <1>2, <2>1 DEF OwnCell
<1>5. ASSUME NEW c \in Insertable(t), IsFK(t, c)
      PROVE  assigned[c] \in Assignments(t, c) /\ \A o \in Ordinals(t) : r[o][c] = Referring(t, c, assigned[c], o)
  <2>1. \A o \in Ordinals(t) : r[o][c] = cell(o, c)
    BY <1>1
  <2> QED  BY <1>5, <2>1 DEF Referring
<1> HIDE DEF cell, own
<1> QED  BY <1>3, <1>4, <1>5 DEF MadeOf, r

LEMMA MadeKeeps ==
  ASSUME UNCHANGED <<run, counts>>
  PROVE  \A t, r : MadeOf(t, r)' <=> MadeOf(t, r)
<1>1. /\ Tabs' = Tabs
      /\ \A t : Tab(t)' = Tab(t) /\ Cols(t)' = Cols(t) /\ Insertable(t)' = Insertable(t)
      /\ \A t, c : Col(t, c)' = Col(t, c)
  BY FixtureKeeps
<1>2. \A t : Ordinals(t)' = Ordinals(t)
  BY RowKeeps
<1>3. \A t, c : RefsOf(t, c)' = RefsOf(t, c)
  BY <1>1 DEF RefsOf
<1>4. \A t, c : /\ IsFK(t, c)' <=> IsFK(t, c)
                /\ Assigning(t, c)' = Assigning(t, c)
  BY <1>1, <1>3 DEF IsFK, Assigning
<1>5. \A ref : Parent(ref)' = Parent(ref) /\ ParentRows(ref)' = ParentRows(ref)
  BY <1>1 DEF Parent, ParentRows
<1>6. \A t, c : Assignments(t, c)' = Assignments(t, c)
  BY <1>1, <1>4, <1>5 DEF Assignments
<1>7. \A t, c, a, o : Referring(t, c, a, o)' = Referring(t, c, a, o)
  BY <1>4, <1>5 DEF Referring
<1>8. \A t, c, o, v : OwnCell(t, c, o, v)' <=> OwnCell(t, c, o, v)
  BY <1>1 DEF OwnCell
<1> QED  BY <1>1, <1>2, <1>4, <1>6, <1>7, <1>8 DEF MadeOf

-----------------------------------------------------------------------------
(* Rows that can be loaded *)

\* The tables that have been generated are made as generateTable makes them.
Made == \A t \in DOMAIN rows : MadeOf(t, rows[t])

\* All the tables are generated when the load begins.
LEMMA AllMade ==
  ASSUME HydrateInv, Made, stage = "load", NEW t \in Tabs
  PROVE  /\ Typed /\ counts[t] \in Nat
         /\ DOMAIN rows[t] = Ordinals(t) /\ MadeOf(t, rows[t])
         /\ IsTable(Tab(t)) /\ \A c \in Cols(t) : IsColumn(Col(t, c))
<1>1. Typed /\ run \in Runs
  BY DEF HydrateInv, Stages, Typed
<1>2. counts[t] \in Nat
  BY <1>1, HydrateAssumption DEF Typed
<1>3. t \in DOMAIN rows
  <2>1. Tabs = 1 .. Len(run.tables) /\ DOMAIN rows = 1 .. Len(rows) /\ Len(rows) = Len(run.tables)
    BY <1>1, TabsAre, LenProperties DEF HydrateInv, Grown
  <2> QED  BY <2>1
<1>4. IsTable(Tab(t))
  BY <1>1, TabsAre
<1>5. \A c \in Cols(t) : IsColumn(Col(t, c))
  BY <1>4 DEF IsTable, Cols, Col
<1> QED  BY <1>1, <1>2, <1>3, <1>4, <1>5 DEF HydrateInv, Grown, Made

\* An injective column has a value of its own in each row, or none.
LEMMA InjectiveCells ==
  ASSUME HydrateInv, Made, stage = "load", NEW t \in Tabs, NEW c, Injective(t, c), NEW o \in Ordinals(t)
  PROVE  /\ Roomy(Col(t, c)) /\ o \in Nat
         /\ rows[t][o][c] \in {Null, Own(Col(t, c), o)}
         /\ ~Col(t, c).nullable => rows[t][o][c] = Own(Col(t, c), o)
<1> DEFINE col == Col(t, c)
           dom == CheckDomains(Tab(t), c)
<1>1. c \in Insertable(t) /\ ~IsFK(t, c) /\ c \in Cols(t)
  BY DEF Injective, Insertable
<1>2. Roomy(col) /\ col.unique
  BY <1>1, AllMade DEF Injective, Roomy
<1>3. o \in Nat
  BY AllMade DEF Ordinals
<1>4. dom.values = {} /\ dom.bounds = {}
  BY DEF Injective
<1>5. PICK d \in Nat : rows[t][o][c] = ApplyCheckDomain(GenerateValue(col, o, d), dom, d)
  BY <1>1, AllMade DEF MadeOf, OwnCell
<1> HIDE DEF col, dom
<1>6. \A v : ApplyCheckDomain(v, dom, d) = v
  BY <1>4 DEF ApplyCheckDomain, ClampNumeric
<1>7. rows[t][o][c] = GenerateValue(col, o, d)
  BY <1>5, <1>6
<1>8. GenerateValue(col, o, d) \in {Null, Own(col, o)} /\ (~col.nullable => GenerateValue(col, o, d) = Own(col, o))
  BY <1>2, <1>3, UniqueGenerated
<1> QED  BY <1>2, <1>3, <1>7, <1>8 DEF col

LEMMA InjectiveDistinct ==
  ASSUME HydrateInv, Made, stage = "load", NEW t \in Tabs, NEW c, Injective(t, c), NEW cols, c \in cols
  PROVE  Distinct(t, cols)
<1> SUFFICES ASSUME NEW o \in Ordinals(t), NEW p \in Ordinals(t), o < p
             PROVE  rows[t][o][c] # rows[t][p][c] \/ rows[t][o][c] = Null
  BY DEF Distinct
<1> DEFINE col == Col(t, c)
<1>1. /\ Roomy(col) /\ o \in Nat /\ p \in Nat
      /\ rows[t][o][c] \in {Null, Own(col, o)} /\ rows[t][p][c] \in {Null, Own(col, p)}
  BY InjectiveCells
<1> HIDE DEF col
<1>2. o # p
  BY <1>1
<1>3. Own(col, o) # Null /\ Own(col, o) # Own(col, p)
  BY <1>1, <1>2, OwnAre
<1> QED  BY <1>1, <1>3

\* The reference of a column that has one is the one that assigns it.
LEMMA AssigningIs ==
  ASSUME run \in Runs, NEW t \in Tabs, NEW ref \in Range(Tab(t).refs), Cardinality(RefsOf(t, ref.col)) = 1
  PROVE  IsFK(t, ref.col) /\ Assigning(t, ref.col) = ref
<1> DEFINE refs == Tab(t).refs
           D == RefsOf(t, ref.col)
<1>1. IsTable(Tab(t))
  BY TabsAre
<1>2. DOMAIN refs = 1 .. Len(refs) /\ Len(refs) \in Nat
  BY <1>1, LenProperties DEF IsTable
<1>3. D \subseteq DOMAIN refs
  BY DEF RefsOf
<1>4. IsFiniteSet(D) /\ D \subseteq Int
  <2>1. IsFiniteSet(DOMAIN refs) /\ DOMAIN refs \subseteq Int
    <3> HIDE DEF refs
    <3> QED  BY <1>2, FS_Interval
  <2> QED  BY <1>3, <2>1, FS_Subset
<1>5. PICK n \in DOMAIN refs : refs[n] = ref
  BY DEF Range
<1>6. n \in D
  BY <1>5 DEF RefsOf
<1>7. Cardinality(D) = 1
  OBVIOUS
<1>8. IsFK(t, ref.col)
  BY <1>6 DEF IsFK
<1>9. Assigning(t, ref.col) = refs[Highest(D)]
  BY DEF Assigning
<1> HIDE DEF D
<1>10. PICK x : D = {x}
  BY <1>4, <1>7, FS_Singleton
<1>11. Highest(D) \in D
  BY <1>4, <1>6, FiniteHighest
<1>12. Highest(D) = n
  BY <1>6, <1>10, <1>11
<1> QED  BY <1>5, <1>8, <1>9, <1>12

\* A child of a sound reference holds the value of the parent it is assigned, or that of a
\* parent past the last.
LEMMA SoundCells ==
  ASSUME HydrateInv, Made, stage = "load", NEW t \in Tabs, NEW ref \in Range(Tab(t).refs), Sound(t, ref)
  PROVE  LET u == ref.to.table  parent == Col(ref.to.table, ref.to.col) IN
           /\ u \in Tabs /\ counts[u] \in Nat \ {0} /\ ParentRows(ref) = counts[u] /\ Roomy(parent)
           /\ \A p \in Ordinals(u) : rows[u][p][ref.to.col] = Own(parent, p)
           /\ \E a \in AssignForeignKeys(ref, counts[t], counts[u], Tab(t).rows) :
                \A o \in Ordinals(t) : a[o] \in Nat /\ rows[t][o][ref.col] = Own(parent, a[o])
<1> DEFINE u == ref.to.table
           pcol == ref.to.col
           parent == Col(u, pcol)
           c == ref.col
<1>1. /\ u \in Tabs /\ ParentRows(ref) > 0 /\ Injective(u, pcol) /\ c \in Insertable(t)
      /\ ~parent.nullable /\ (parent.domain => parent.type = "text")
      /\ Cardinality(RefsOf(t, c)) = 1
  BY DEF Sound
<1>2. Typed /\ run \in Runs /\ counts[t] \in Nat /\ counts[u] \in Nat /\ IsTable(Tab(t))
  BY <1>1, AllMade DEF Typed
<1>3. ParentRows(ref) = counts[u] /\ counts[u] \in Nat \ {0}
  BY <1>1, <1>2 DEF ParentRows
<1>4. pcol \in Cols(u) /\ IsColumn(parent) /\ Roomy(parent)
  <2>1. pcol \in Cols(u)
    BY <1>1 DEF Injective, Insertable
  <2>2. IsColumn(parent)
    BY <1>1, <2>1, AllMade
  <2> QED  BY <1>1, <2>1, <2>2 DEF Injective, Roomy
<1>5. \A p \in Ordinals(u) : rows[u][p][pcol] = Own(parent, p)
  BY <1>1, InjectiveCells
<1>6. IsFK(t, c) /\ Assigning(t, c) = ref
  BY <1>1, <1>2, AssigningIs
<1>7. Parent(ref) = {parent}
  BY <1>1, <1>4 DEF Parent
<1>8. MadeOf(t, rows[t])
  BY AllMade
<1>9. PICK a \in Assignments(t, c) : \A o \in Ordinals(t) : rows[t][o][c] = Referring(t, c, a, o)
  BY <1>1, <1>6, <1>8 DEF MadeOf
<1>10. a \in AssignForeignKeys(ref, counts[t], counts[u], Tab(t).rows)
  BY <1>3, <1>6, <1>9 DEF Assignments
<1>11. IsRef(ref) /\ Tab(t).rows \in Int
  BY <1>2 DEF IsTable
<1> HIDE DEF u, pcol, parent, c
<1>12. a \in [0 .. counts[t] - 1 -> Nat]
  BY <1>2, <1>10, <1>11, AssignedAre
<1>13. ASSUME NEW o \in Ordinals(t)
       PROVE  a[o] \in Nat /\ rows[t][o][c] = Own(parent, a[o])
  <2>1. a[o] \in Nat
    BY <1>12 DEF Ordinals
  <2>2. rows[t][o][c] = ParentIDValue({parent}, a[o], counts[u])
    BY <1>3, <1>6, <1>7, <1>9 DEF Referring
  <2>3. ParentIDValue({parent}, a[o], counts[u]) = Own(parent, a[o])
    BY <1>1, <1>2, <1>4, <2>1, ParentIDIsOwn
  <2> QED  BY <2>1, <2>2, <2>3
<1> QED  BY <1>1, <1>3, <1>4, <1>5, <1>10, <1>13 DEF u, pcol, parent, c

\* The rows of such a table satisfy its columns and its keys.
LEMMA CopyFits ==
  ASSUME HydrateInv, Made, stage = "load", NEW t \in Tabs, Synthesizable(t)
  PROVE  CopyAccepted(t)
<1>1. ASSUME NEW o \in Ordinals(t), NEW c \in Insertable(t)
      PROVE  Accepts(Col(t, c), rows[t][o][c])
  <2> DEFINE col == Col(t, c)
             v == rows[t][o][c]
  <2>1. c \in Cols(t) /\ IsColumn(col) /\ (col.domain => col.forbids = {}) /\ col.type # "unsupported" /\ o \in Nat
    <3>1. c \in Cols(t)
      BY DEF Insertable
    <3>2. IsColumn(col) /\ col.type # "unsupported" /\ o \in Nat
      BY <3>1, AllMade DEF MadeOf, Ordinals
    <3> QED  BY <3>1, <3>2 DEF Synthesizable
  <2>2. FitsColumn(col, v)
    <3>1. CASE IsFK(t, c)
      <4> DEFINE ref == Assigning(t, c)
      <4>1. ref \in Range(Tab(t).refs) /\ ref.col = c
        BY <3>1, AllMade, RefsAre DEF Typed
      <4>2. Sound(t, ref)
        BY <4>1 DEF Synthesizable
      <4> HIDE DEF ref
      <4> DEFINE parent == Col(ref.to.table, ref.to.col)
      <4>3. PICK n \in Nat : v = Own(parent, n)
        BY <4>1, <4>2, SoundCells
      <4>4. Roomy(parent)
        BY <4>1, <4>2, SoundCells
      <4>5. col.type = parent.type /\ ~col.narrow
        BY <4>1, <4>2 DEF Sound
      <4> HIDE DEF parent, col, v
      <4>6. v # Null /\ v[1] = parent.type
        BY <4>3, <4>4, OwnAre
      <4> QED  BY <4>4, <4>5, <4>6 DEF FitsColumn, Roomy
    <3>2. CASE ~IsFK(t, c)
      <4>1. PICK d \in Nat : v = ApplyCheckDomain(GenerateValue(col, o, d), CheckDomains(Tab(t), c), d)
        BY <3>2, AllMade DEF MadeOf, OwnCell
      <4> HIDE DEF col, v
      <4> QED  BY <2>1, <4>1, GeneratedFits, AppliedFits
    <3> QED  BY <3>1, <3>2
  <2> HIDE DEF col, v
  <2>3. Accepts(col, v)
    BY <2>1, <2>2 DEF Accepts, FitsColumn
  <2> QED  BY <2>3 DEF col, v
<1>2. ASSUME NEW row \in Held(t), NEW c \in Insertable(t)
      PROVE  Accepts(Col(t, c), row[c])
  <2>1. PICK o \in Ordinals(t) : row = rows[t][o]
    BY AllMade DEF Held, Range
  <2> QED  BY <1>1, <2>1
<1>3. ASSUME NEW con \in InlineKeys(t)
      PROVE  Distinct(t, con.cols)
  <2>1. PICK c \in con.cols : Injective(t, c)
    BY DEF Synthesizable
  <2> QED  BY <2>1, InjectiveDistinct
<1> QED  BY <1>2, <1>3 DEF CopyAccepted

\* Each of its rows has its parent, unless the fixture has orphans.
LEMMA OrphansAreDue ==
  ASSUME HydrateInv, Made, stage = "load", NEW t \in Tabs, Synthesizable(t), counts[t] > 0,
         NEW key, DOMAIN key = {1}, key[1] \in Range(Tab(t).refs)
  PROVE  (\A row \in Held(t) : Resolves(row, key)) <=> ~OrphansDue(t, key[1])
<1> DEFINE ref == key[1]
           u == ref.to.table
           parent == Col(u, ref.to.col)
<1>1. Sound(t, ref)
  BY DEF Synthesizable
<1>2. /\ counts[t] \in Nat \ {0} /\ Held(t) = {rows[t][o] : o \in Ordinals(t)}
      /\ IsRef(ref) /\ Tab(t).rows \in Int
  <2>1. counts[t] \in Nat /\ DOMAIN rows[t] = Ordinals(t) /\ IsTable(Tab(t))
    BY AllMade
  <2>2. Held(t) = {rows[t][o] : o \in Ordinals(t)}
    BY <2>1 DEF Held, Range
  <2>3. IsRef(ref) /\ Tab(t).rows \in Int
    BY <2>1 DEF IsTable
  <2> QED  BY <2>1, <2>2, <2>3
<1>3. /\ u \in Tabs /\ counts[u] \in Nat \ {0} /\ ParentRows(ref) = counts[u] /\ Roomy(parent)
      /\ \A p \in Ordinals(u) : rows[u][p][ref.to.col] = Own(parent, p)
  BY <1>1, SoundCells
<1>4. PICK a \in AssignForeignKeys(ref, counts[t], counts[u], Tab(t).rows) :
         \A o \in Ordinals(t) : a[o] \in Nat /\ rows[t][o][ref.col] = Own(parent, a[o])
  BY <1>1, SoundCells
<1>5. Held(u) = {rows[u][p] : p \in Ordinals(u)}
  BY <1>3, AllMade DEF Held, Range
<1>6. (\E o \in Ordinals(t) : a[o] >= counts[u]) <=> OrphansDue(t, ref)
  <2> DEFINE childN == counts[t]
             parentN == counts[u]
  <2>1. (\E o \in 0 .. childN - 1 : a[o] >= parentN)
          <=> ref.fanout # {} /\ Rounded(ref.orphans * childN, 4) > 0 /\ parentN > 1
    <3> HIDE DEF ref, childN, parentN
    <3>1. childN \in Nat \ {0} /\ parentN \in Nat \ {0}
      BY <1>2, <1>3 DEF childN, parentN, u
    <3>2. a \in AssignForeignKeys(ref, childN, parentN, Tab(t).rows)
      BY <1>4 DEF childN, parentN
    <3> QED  BY <1>2, <3>1, <3>2, OrphansAssigned
  <2> QED  BY <1>3, <2>1 DEF OrphansDue, Ordinals
<1> HIDE DEF u, parent, ref
<1>7. ASSUME NEW o \in Ordinals(t)
      PROVE  Resolves(rows[t][o], key) <=> ~(a[o] >= counts[u])
  <2>1. rows[t][o][ref.col] = Own(parent, a[o]) /\ a[o] \in Nat
    BY <1>4
  <2>2. rows[t][o][ref.col] # Null
    BY <1>3, <2>1, OwnAre
  <2>3. Resolves(rows[t][o], key) <=> \E p \in Ordinals(u) : rows[u][p][ref.to.col] = rows[t][o][ref.col]
    <3>1. Resolves(rows[t][o], key) <=> \E row \in Held(u) : row[ref.to.col] = rows[t][o][ref.col]
      BY <2>2 DEF Resolves, ref, u
    <3> QED  BY <1>5, <3>1
  <2>4. ASSUME NEW p \in Ordinals(u)
        PROVE  rows[u][p][ref.to.col] = rows[t][o][ref.col] <=> p = a[o]
    <3>1. p \in Nat
      BY <1>3 DEF Ordinals
    <3>2. p # a[o] => Own(parent, p) # Own(parent, a[o])
      BY <1>3, <2>1, <3>1, OwnAre
    <3> QED  BY <1>3, <2>1, <3>2
  <2>5. a[o] \in Ordinals(u) <=> ~(a[o] >= counts[u])
    BY <1>3, <2>1 DEF Ordinals
  <2> QED  BY <2>3, <2>4, <2>5
<1>8. (\A row \in Held(t) : Resolves(row, key)) <=> ~\E o \in Ordinals(t) : a[o] >= counts[u]
  BY <1>2, <1>7
<1> QED  BY <1>6, <1>8 DEF ref

-----------------------------------------------------------------------------
(* What the server makes of them *)

\* A foreign key of one column, whose parent's column is a key with its table.
Keyed(s) ==
  /\ s.kind = "fk" /\ Len(s.what) = 1
  /\ s.what[1].to.table \in Tabs
  /\ \E con \in InlineKeys(s.what[1].to.table) : con.cols = {s.what[1].to.col}

Honoured(s) == s.what[1].notValid \/ \A row \in Held(s.t) : Resolves(row, s.what)

\* What is refused and what is made, by the rows alone.
Refusable(s) ==
  /\ s.kind = "copy" => ~CopyAccepted(s.t)
  /\ Keyed(s) => ~Honoured(s)
Makeable(s) == Keyed(s) => Honoured(s)

Judgements ==
  /\ \A k \in refused : Refusable(Statements[k])
  /\ \A k \in made \union kept : Makeable(Statements[k])

LEMMA JudgedAre ==
  ASSUME NEW s \in AllStatements
  PROVE  /\ ~Accepted(s) => Refusable(s)
         /\ Accepted(s) => Makeable(s)
<1>1. CASE s.kind = "fk"
  <2>1. Accepted(s) <=> ForeignKeyAccepted(s.t, s.what)
    BY <1>1 DEF Accepted
  <2>2. ASSUME Keyed(s)
        PROVE  ForeignKeyAccepted(s.t, s.what) <=> Honoured(s)
    <3>1. DOMAIN s.what = {1}
      <4>1. s.what \in Seq(Range(Tab(s.t).refs))
        BY <1>1 DEF AllStatements
      <4>2. DOMAIN s.what = 1 .. Len(s.what)
        BY <4>1, LenProperties
      <4> QED  BY <2>2, <4>2 DEF Keyed
    <3>2. {s.what[n].to.col : n \in DOMAIN s.what} = {s.what[1].to.col}
      BY <3>1
    <3>3. KeyOf(s.what[1].to.table, {s.what[n].to.col : n \in DOMAIN s.what})
      BY <2>2, <3>2 DEF Keyed, KeyOf
    <3> QED  BY <3>3 DEF ForeignKeyAccepted, Honoured
  <2> QED  BY <1>1, <2>1, <2>2 DEF Refusable, Makeable
<1>2. CASE s.kind = "copy"
  BY <1>2 DEF Accepted, Refusable, Makeable, Keyed
<1>3. CASE s.kind \notin {"fk", "copy"}
  BY <1>3 DEF Refusable, Makeable, Keyed
<1> QED  BY <1>1, <1>2, <1>3

LEMMA JudgementsKeep ==
  ASSUME UNCHANGED <<run, counts, rows>>
  PROVE  \A s : /\ Refusable(s)' <=> Refusable(s)
                /\ Makeable(s)' <=> Makeable(s)
<1>1. /\ Tabs' = Tabs
      /\ \A t : Tab(t)' = Tab(t) /\ Insertable(t)' = Insertable(t)
      /\ \A t, c : Col(t, c)' = Col(t, c)
  BY FixtureKeeps
<1>2. \A t : Ordinals(t)' = Ordinals(t) /\ Held(t)' = Held(t)
  BY RowKeeps DEF Held
<1>3. \A t : InlineKeys(t)' = InlineKeys(t)
  BY <1>1 DEF InlineKeys
<1>4. \A t, cols : Distinct(t, cols)' <=> Distinct(t, cols)
  BY <1>2 DEF Distinct
<1>5. \A t : CopyAccepted(t)' <=> CopyAccepted(t)
  BY <1>1, <1>2, <1>3, <1>4 DEF CopyAccepted
<1>6. \A row, key : Resolves(row, key)' <=> Resolves(row, key)
  BY <1>2 DEF Resolves
<1>7. \A s : /\ Keyed(s)' <=> Keyed(s)
             /\ Honoured(s)' <=> Honoured(s)
  BY <1>1, <1>2, <1>3, <1>6 DEF Keyed, Honoured
<1> QED  BY <1>5, <1>7 DEF Refusable, Makeable

\* What a load comes to hold it held, or the server has just accepted.
LEMMA LoadingHolds ==
  ASSUME HydrateInv, Loading
  PROVE  \A k \in made' \union kept' : k \in made \union kept \/ (k = i /\ i \in DOMAIN plan /\ Accepted(Statements[i]))
<1>1. TypeOK /\ Holdings /\ DOMAIN plan = 1 .. Len(plan)
  BY LenProperties DEF HydrateInv, Sent, IInv, TypeOK
<1>2. pc \in {"exec", "guarded"} => i \notin refused
  <2>1. i \in Int
    BY <1>1 DEF TypeOK
  <2>2. pc \in {"exec", "guarded"} => refused \subseteq Before(i)
    BY <1>1 DEF Holdings
  <2>3. ~(i < i)
    BY <2>1
  <2> QED  BY <2>2, <2>3 DEF Before
<1>3. CASE Exec /\ Judged
  <2>1. i \in DOMAIN plan /\ pc = "exec" /\ kept' = kept
    BY <1>1, <1>3 DEF Exec, TypeOK
  <2>2. CASE made' = made \union {i} /\ UNCHANGED refused
    BY <1>2, <1>3, <2>1, <2>2 DEF Judged
  <2>3. CASE UNCHANGED made
    BY <2>1, <2>3
  <2> QED  BY <1>3, <2>2, <2>3 DEF Exec
<1>4. CASE ExecGuarded /\ Judged
  <2>1. i \in DOMAIN plan /\ pc = "guarded" /\ kept' = kept
    BY <1>1, <1>4 DEF ExecGuarded, HydrateInv, Sent, IInv, Shape, Everything
  <2>2. CASE made' = made \union {i} /\ UNCHANGED refused
    BY <1>2, <1>4, <2>1, <2>2 DEF Judged
  <2>3. CASE UNCHANGED made
    BY <2>1, <2>3
  <2> QED  BY <1>4, <2>2, <2>3 DEF ExecGuarded
<1>5. CASE Begin \/ Savepoint \/ RollbackTo \/ Release \/ SendCommit \/ Commit \/ Rollback
  BY <1>5 DEF Begin, Savepoint, RollbackTo, Release, SendCommit, Commit, Rollback
<1> QED  BY <1>3, <1>4, <1>5 DEF Loading

\* HydrateInv, with what the rows are made of and how they were judged.
LoadableInv == HydrateInv /\ Made /\ Judgements

LEMMA LoadableInit == HydrateInit => LoadableInv
<1> SUFFICES ASSUME HydrateInit PROVE LoadableInv
  OBVIOUS
<1>1. HydrateInv
  BY HydrateInitInv
<1>2. DOMAIN rows = {} /\ made = {} /\ kept = {} /\ refused = {}
  BY EmptySeq DEF HydrateInit
<1> QED  BY <1>1, <1>2 DEF LoadableInv, Made, Judgements

\* While nothing has been sent there is nothing to judge.
LEMMA NotYetJudged ==
  ASSUME HydrateInv, stage # "load", UNCHANGED <<made, kept, refused>>
  PROVE  Judgements'
<1>1. made' = {} /\ kept' = {} /\ refused' = {}
  BY DEF HydrateInv, Sent, Fresh
<1> QED  BY <1>1 DEF Judgements

LEMMA GenerateTableMakes ==
  ASSUME HydrateInv, Made, GenerateTable
  PROVE  Made'
<1> DEFINE t == Len(rows) + 1
           fk == {c \in Insertable(t) : IsFK(t, c)}
<1>1. UNCHANGED <<run, counts>>
  BY DEF GenerateTable
<1>2. CASE UNCHANGED rows
  BY <1>1, <1>2, MadeKeeps DEF Made
<1>3. CASE ~UNCHANGED rows
  <2>1. /\ \A c \in Cols(t) : ~UnsupportedType(Col(t, c))
        /\ \E draw \in [Ordinals(t) -> [Drawn(t) -> 0 .. Draws - 1]],
              assigned \in [fk -> UNION {Assignments(t, c) : c \in fk}] :
             /\ \A c \in fk : assigned[c] \in Assignments(t, c)
             /\ rows' = Append(rows, Generated(t, assigned, draw))
    BY <1>3 DEF GenerateTable
  <2>2. PICK draw \in [Ordinals(t) -> [Drawn(t) -> 0 .. Draws - 1]],
             assigned \in [fk -> UNION {Assignments(t, c) : c \in fk}] :
               /\ \A c \in fk : assigned[c] \in Assignments(t, c)
               /\ rows' = Append(rows, Generated(t, assigned, draw))
    BY <2>1
  <2> DEFINE new == Generated(t, assigned, draw)
             S == Range(rows) \union {new}
  <2>3. \A c \in Insertable(t) : IsFK(t, c) => assigned[c] \in Assignments(t, c)
    BY <2>2
  <2> HIDE DEF fk
  <2>4. MadeOf(t, new)
    BY <2>1, <2>3, GeneratedMade
  <2>5. rows \in Seq(Range(rows)) /\ Len(rows) \in Nat /\ DOMAIN rows = 1 .. Len(rows)
    BY LenProperties DEF HydrateInv, Grown
  <2>6. rows' = Append(rows, new)
    BY <2>2
  <2> HIDE DEF new
  <2>7. /\ Len(rows') = Len(rows) + 1 /\ DOMAIN rows' = 1 .. Len(rows')
        /\ \A k \in 1 .. Len(rows) : rows'[k] = rows[k]
        /\ rows'[Len(rows) + 1] = new
    <3>1. rows \in Seq(S) /\ new \in S
      BY <2>5, BigSeq
    <3> HIDE DEF S
    <3> QED  BY <2>6, <3>1, AppendProperties, LenProperties
  <2>8. ASSUME NEW k \in DOMAIN rows'
        PROVE  MadeOf(k, rows'[k])
    <3>1. CASE k \in 1 .. Len(rows)
      BY <2>5, <2>7, <3>1 DEF Made
    <3>2. CASE k = t
      BY <2>4, <2>7, <3>2
    <3> QED  BY <2>5, <2>7, <2>8, <3>1, <3>2
  <2> QED  BY <1>1, <2>8, MadeKeeps DEF Made
<1> QED  BY <1>2, <1>3

LEMMA LoadableNext == LoadableInv /\ [HydrateNext]_hydrateVars => LoadableInv'
<1> SUFFICES ASSUME LoadableInv, [HydrateNext]_hydrateVars PROVE LoadableInv'
  OBVIOUS
<1>0. HydrateInv /\ Made /\ Judgements /\ HydrateInv'
  BY HydrateNextInv DEF LoadableInv
<1>1. CASE Count
  <2>1. rows' = <<>> /\ UNCHANGED <<made, kept, refused>> /\ stage # "load"
    BY <1>0, <1>1 DEF Count, vars, HydrateInv, Grown
  <2>2. Made'
    BY <2>1, EmptySeq DEF Made
  <2> QED  BY <1>0, <2>1, <2>2, NotYetJudged DEF LoadableInv
<1>2. CASE CheckBudget
  <2>1. UNCHANGED <<run, counts, rows, made, kept, refused>> /\ stage # "load"
    BY <1>2 DEF CheckBudget, vars
  <2>2. Made'
    BY <1>0, <2>1, MadeKeeps DEF Made
  <2> QED  BY <1>0, <2>1, <2>2, NotYetJudged DEF LoadableInv
<1>3. CASE GenerateTable
  <2>1. UNCHANGED <<made, kept, refused>> /\ stage # "load"
    BY <1>3 DEF GenerateTable, vars
  <2>2. Made'
    BY <1>0, <1>3, GenerateTableMakes
  <2> QED  BY <1>0, <2>1, <2>2, NotYetJudged DEF LoadableInv
<1>4. CASE StartLoad
  <2>1. UNCHANGED <<run, counts, rows, made, kept, refused>> /\ stage # "load"
    BY <1>4 DEF StartLoad
  <2>2. Made'
    BY <1>0, <2>1, MadeKeeps DEF Made
  <2> QED  BY <1>0, <2>1, <2>2, NotYetJudged DEF LoadableInv
<1>5. CASE Loading
  <2>1. /\ UNCHANGED <<run, counts, rows, plan>>
        /\ \A k \in refused' : k \in refused \/ (k = i /\ ~Accepted(Statements[i]))
    BY <1>5, LoadingIsLoad
  <2>2. Made'
    BY <1>0, <2>1, MadeKeeps DEF Made
  <2>3. Statements' = Statements
    BY <2>1, StatementsKeep
  <2>4. \A k \in DOMAIN plan : Statements[k] \in AllStatements
    <3>1. stage = "load" /\ run \in Runs
      BY <1>0, <1>5 DEF Loading, HydrateInv, Stages
    <3>2. Statements \in Seq(AllStatements) /\ DOMAIN plan = DOMAIN Statements
      BY <1>0, <3>1, StatementsAre DEF HydrateInv, Sent
    <3>3. DOMAIN Statements = 1 .. Len(Statements) /\ \A k \in 1 .. Len(Statements) : Statements[k] \in AllStatements
      BY <3>2, LenProperties, ElementOfSeq
    <3> QED  BY <3>2, <3>3
  <2>5. refused' \subseteq DOMAIN plan
    <3>1. TypeOK'
      BY <1>0 DEF HydrateInv, Sent, IInv
    <3> QED  BY <2>1, <3>1, LenProperties DEF TypeOK
  <2>6. ASSUME NEW k \in refused'
        PROVE  Refusable(Statements[k])
    <3>1. CASE k \in refused
      BY <1>0, <3>1 DEF Judgements
    <3>2. CASE k = i /\ ~Accepted(Statements[i])
      BY <2>4, <2>5, <3>2, JudgedAre
    <3> QED  BY <2>1, <3>1, <3>2
  <2>7. ASSUME NEW k \in made' \union kept'
        PROVE  Makeable(Statements[k])
    <3>1. CASE k \in made \union kept
      BY <1>0, <3>1 DEF Judgements
    <3>2. CASE k = i /\ i \in DOMAIN plan /\ Accepted(Statements[i])
      BY <2>4, <3>2, JudgedAre
    <3> QED  BY <1>0, <1>5, <3>1, <3>2, LoadingHolds
  <2>8. Judgements'
    BY <2>1, <2>3, <2>6, <2>7, JudgementsKeep DEF Judgements
  <2> QED  BY <1>0, <2>2, <2>8 DEF LoadableInv
<1>6. CASE UNCHANGED hydrateVars
  <2>1. UNCHANGED <<run, counts, rows, made, kept, refused>>
    BY <1>6 DEF hydrateVars, vars
  <2>2. Made' /\ Statements' = Statements
    BY <1>0, <2>1, MadeKeeps, StatementsKeep DEF Made
  <2>3. Judgements'
    BY <1>0, <2>1, <2>2, JudgementsKeep DEF Judgements
  <2> QED  BY <1>0, <2>2, <2>3 DEF LoadableInv
<1> QED  BY <1>1, <1>2, <1>3, <1>4, <1>5, <1>6 DEF HydrateNext, Ended

LEMMA LoadableInvariance == HydrateSpec => []LoadableInv
BY LoadableInit, LoadableNext, PTL DEF HydrateSpec

\* A table whose keys each have an injective column and whose references are sound is
\* accepted with its rows, for every fixture and every fan-out, and a foreign key of one
\* column is refused if and only if orphans are due (engine.go:815, fanout.go:278).
THEOREM HydrateRowsFit == HydrateSpec => []RowsFitTheSchema
<1>1. LoadableInv => RowsFitTheSchema
  <2> SUFFICES ASSUME LoadableInv, NEW k \in DOMAIN plan
               PROVE  LET s == Statements[k] IN
                        /\ s.kind = "copy" /\ k \in refused => ~Synthesizable(s.t)
                        /\ (/\ s.kind = "fk" /\ Len(s.what) = 1 /\ Synthesizable(s.t) /\ counts[s.t] > 0
                            /\ \E con \in InlineKeys(s.what[1].to.table) : con.cols = {s.what[1].to.col})
                           => /\ k \in refused => OrphansDue(s.t, s.what[1]) /\ ~s.what[1].notValid
                              /\ k \in made => ~OrphansDue(s.t, s.what[1]) \/ s.what[1].notValid
    BY Zenon DEF RowsFitTheSchema
  <2> DEFINE s == Statements[k]
  <2>1. HydrateInv /\ Made /\ Judgements
    BY DEF LoadableInv
  <2>2. stage = "load"
    <3>1. plan # <<>>
      BY EmptySeq
    <3> QED  BY <2>1, <3>1 DEF HydrateInv, Sent, Fresh
  <2>3. s \in AllStatements
    <3>1. Statements \in Seq(AllStatements) /\ DOMAIN plan = DOMAIN Statements
      BY <2>1, <2>2, StatementsAre DEF HydrateInv, Sent, Stages
    <3>2. DOMAIN Statements = 1 .. Len(Statements) /\ \A n \in 1 .. Len(Statements) : Statements[n] \in AllStatements
      BY <3>1, LenProperties, ElementOfSeq
    <3> QED  BY <3>1, <3>2
  <2>4. k \in refused => Refusable(s)
    BY <2>1 DEF Judgements
  <2>5. k \in made => Makeable(s)
    BY <2>1 DEF Judgements
  <2> HIDE DEF s
  <2>6. s.t \in Tabs
    BY <2>3 DEF AllStatements
  <2>7. ASSUME s.kind = "copy", k \in refused
        PROVE  ~Synthesizable(s.t)
    BY <2>1, <2>2, <2>4, <2>6, <2>7, CopyFits DEF Refusable
  <2>8. ASSUME s.kind = "fk", Len(s.what) = 1, Synthesizable(s.t), counts[s.t] > 0,
               \E con \in InlineKeys(s.what[1].to.table) : con.cols = {s.what[1].to.col}
        PROVE  /\ k \in refused => OrphansDue(s.t, s.what[1]) /\ ~s.what[1].notValid
               /\ k \in made => ~OrphansDue(s.t, s.what[1]) \/ s.what[1].notValid
    <3>1. DOMAIN s.what = {1} /\ s.what[1] \in Range(Tab(s.t).refs)
      <4>1. s.what \in Seq(Range(Tab(s.t).refs))
        BY <2>3, <2>8 DEF AllStatements
      <4>2. DOMAIN s.what = 1 .. Len(s.what) /\ s.what[1] \in Range(Tab(s.t).refs)
        BY <2>8, <4>1, LenProperties, ElementOfSeq
      <4> QED  BY <2>8, <4>2
    <3>2. (\A row \in Held(s.t) : Resolves(row, s.what)) <=> ~OrphansDue(s.t, s.what[1])
      BY <2>1, <2>2, <2>6, <2>8, <3>1, OrphansAreDue
    <3>3. Sound(s.t, s.what[1])
      BY <2>8, <3>1 DEF Synthesizable
    <3>4. Keyed(s)
      BY <2>8, <3>3 DEF Keyed, Sound
    <3> QED  BY <2>4, <2>5, <3>2, <3>4 DEF Refusable, Makeable, Honoured
  <2> QED  BY <2>7, <2>8 DEF s
<1> QED  BY <1>1, LoadableInvariance, PTL
=============================================================================
