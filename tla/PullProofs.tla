----------------------------- MODULE PullProofs -----------------------------
(***************************************************************************)
(* Proofs about Pull, for any databases, of any number of tables and       *)
(* columns.                                                                *)
(*                                                                         *)
(* The argument: the transaction is aborted only by a read that returned   *)
(* an error, and only a return to its savepoint takes that error away; a   *)
(* fact that says unique comes from a key the server enforces, or from a   *)
(* probe that found no value twice.                                        *)
(*                                                                         *)
(* Of the facts the database has: a fact that is sought is in the fixture, *)
(* accounted for by a warning, or still among the reads of todo, or led to *)
(* by one of them.  A sample that times out takes the reads behind it      *)
(* along: all that stands there is the question of uniqueness, which the   *)
(* warning then accounts for.  Of a table that the reader has left,        *)
(* nothing is still due.                                                   *)
(***************************************************************************)
EXTENDS Pull, TLAPS

\* No statement is sent in an aborted transaction, whatever the database.
THEOREM AbortsAreLeft == Spec => []NoReadAfterAbort
<1>1. Init => NoReadAfterAbort
  BY DEF Init, NoReadAfterAbort
<1>2. ASSUME NoReadAfterAbort, [Next]_vars
      PROVE  NoReadAfterAbort'
  <2>1. CASE UNCHANGED vars
    BY <1>2, <2>1 DEF NoReadAfterAbort, vars, position, session
  <2>2. CASE Client
    <3>1. CASE Refuse \/ Begin
      BY <3>1 DEF Refuse, Begin, Fail, NoReadAfterAbort, Running
    <3>2. CASE StartTables \/ EndTable
      BY <1>2, <3>2 DEF StartTables, EndTable, session, NoReadAfterAbort
    <3>3. CASE StartColumns \/ EndTypes
      BY <1>2, <3>3 DEF StartColumns, EndTypes, session, NoReadAfterAbort
    <3>4. ASSUME NEW c \in Cols, ProfileColumn(c)
          PROVE  NoReadAfterAbort'
      BY <1>2, <3>4 DEF ProfileColumn, session, NoReadAfterAbort
    <3>5. CASE StartReferences \/ StartPartitions
      BY <1>2, <3>5 DEF StartReferences, StartPartitions, session, NoReadAfterAbort
    <3>6. CASE Savepoint \/ SkipEscalation \/ Release
      BY <1>2, <3>6 DEF Savepoint, SkipEscalation, Release, position, session, NoReadAfterAbort
    <3>7. CASE ReadIsFatal
      BY <3>7 DEF ReadIsFatal, Fail, NoReadAfterAbort, Running
    <3>8. CASE Degrade
      BY <3>8 DEF Degrade, NoReadAfterAbort
    <3>9. CASE Finish \/ Write
      BY <3>9 DEF Finish, Write, Goto, NoReadAfterAbort, Running
    <3> QED  BY <2>2, <3>1, <3>2, <3>3, <3>4, <3>5, <3>6, <3>7, <3>8, <3>9 DEF Client
  <2>3. CASE Server
    <3>1. CASE ReadSucceeds
      BY <1>2, <3>1 DEF ReadSucceeds, session, NoReadAfterAbort
    <3>2. CASE ReadTimesOut \/ ReadFails
      BY <3>2 DEF ReadTimesOut, ReadFails, NoReadAfterAbort
    <3> QED  BY <2>3, <3>1, <3>2 DEF Server
  <2>4. ASSUME NEW i \in 1 .. Len(db), Drop(i)
        PROVE  NoReadAfterAbort'
    BY <1>2, <2>4 DEF Drop, position, session, NoReadAfterAbort
  <2>5. CASE Ended
    BY <1>2, <2>5 DEF Ended, vars, position, session, NoReadAfterAbort
  <2> QED  BY <1>2, <2>1, <2>2, <2>3, <2>4, <2>5 DEF Next
<1> QED  BY <1>1, <1>2, PTL DEF Spec
-----------------------------------------------------------------------------
\* What UniqueIsReal says of one fact.
Real(x) ==
  x.of[3] = "unique" =>
    LET tab == db[x.of[1]] IN
      ~tab.cols[x.of[2]].dup \/ \E k \in tab.keys : Misleading(k) /\ k.on = {x.of[2]}

\* The reader is at a table that exists when it takes its keys for proofs.
Placed == db \in Databases /\ t \in Nat \ {0} /\ (stage = "structure" => t <= Len(db))

FactInv == Placed /\ UniqueIsReal

\* A key of one column that is whole and complete is one the server enforces.
LEMMA KeysProve ==
  ASSUME db \in Databases, t \in 1 .. Len(db), NEW c \in ProvenUnique
  PROVE  Real(Has(t, c, "unique", "exact"))
<1>1. db \in Seq(Tables) /\ Enforced(Table)
  BY DatabasesAssumption DEF Table
<1>2. Table \in Tables
  BY <1>1 DEF Table
<1>3. c \in DOMAIN Table.cols
  BY DEF ProvenUnique
<1>4. PICK k \in Table.keys : k.on = {c} /\ (k.kind = "constraint" \/ ~k.partial)
  <2>1. CASE \E r \in Read("constraint") : r.columns = {c}
    BY <2>1 DEF Read
  <2>2. CASE \E r \in Read("index") : r.columns = {c} /\ ~r.partial
    BY <2>2 DEF Read
  <2> QED  BY <2>1, <2>2 DEF ProvenUnique
<1>5. k \in Keys
  BY <1>2 DEF Tables
<1>6. ~k.partial
  BY <1>4, <1>5 DEF Keys
<1>7. Misleading(k) \/ ~Table.cols[c].dup
  BY <1>1, <1>3, <1>4, <1>6 DEF Enforced, Misleading
<1> QED  BY <1>4, <1>7 DEF Real, Has, Table

\* A probe says unique only when it found no value twice.
LEMMA ProbesProve ==
  ASSUME NEW x \in Recorded
  PROVE  Real(x)
<1>1. SUFFICES ASSUME x.of[3] = "unique" PROVE ~db[x.of[1]].cols[x.of[2]].dup
  BY DEF Real
<1>2. Fact = "unique" /\ x.of = Of /\ ~Col(Of[2]).dup
  <2>1. CASE Gone \/ Fact \in {"limits", "engine", "tables", "stats"}
    BY <2>1 DEF Recorded
  <2>2. CASE Fact \in {"validated", "total_rows", "format"}
    <3>1. x.of[3] \in {"orphans", "rows", "format", "values"}
      BY <2>1, <2>2 DEF Recorded, Has, Of
    <3> QED  BY <1>1, <3>1
  <2>3. CASE Fact = "unique" /\ Col(Of[2]).dup
    <3>1. x.of[3] = "duplicates"
      BY <2>1, <2>3 DEF Recorded, Has
    <3> QED  BY <1>1, <3>1
  <2>4. CASE /\ Fact \notin {"validated", "total_rows", "format"}
             /\ ~(Gone \/ Fact \in {"limits", "engine", "tables", "stats"})
             /\ ~(Fact = "unique" /\ Col(Of[2]).dup)
    <3>1. x = [of |-> Of, conf |-> Confidence(Fact)]
      BY <2>4 DEF Recorded
    <3>2. Fact = "unique"
      BY <1>1, <3>1 DEF Of
    <3> QED  BY <2>4, <3>1, <3>2
  <2> QED  BY <2>1, <2>2, <2>3, <2>4
<1> QED  BY <1>2 DEF Of, Col, Table

LEMMA FactStep ==
  ASSUME FactInv, [Next]_vars
  PROVE  db' = db /\ \A x \in facts' : Real(x)
<1>1. \A x \in facts : Real(x)
  BY DEF FactInv, UniqueIsReal, Real
<1>2. CASE UNCHANGED vars
  BY <1>1, <1>2 DEF vars
<1>3. CASE Client
  <2>1. CASE StartColumns
    <3>1. ASSUME NEW x \in facts', x \notin facts
          PROVE  Real(x)
      <4>1. PICK c \in ProvenUnique : x = Has(t, c, "unique", "exact")
        BY <2>1, <3>1 DEF StartColumns, With
      <4>2. t \in 1 .. Len(db)
        BY <2>1 DEF StartColumns, FactInv, Placed
      <4> QED  BY <4>1, <4>2, KeysProve DEF FactInv, Placed
    <3>2. db' = db
      BY <2>1 DEF StartColumns
    <3> QED  BY <1>1, <3>1, <3>2
  <2>2. ASSUME NEW c \in Cols, ProfileColumn(c)
        PROVE  db' = db /\ \A x \in facts' : Real(x)
    <3>1. ASSUME NEW x \in FromStats(c)
          PROVE  x.of[3] # "unique"
      BY <3>1 DEF FromStats, Has
    <3>2. facts' \subseteq facts \union FromStats(c) /\ db' = db
      BY <2>2 DEF ProfileColumn, With
    <3> QED  BY <1>1, <3>1, <3>2 DEF Real
  <2>3. CASE Finish
    BY <1>1, <2>3 DEF Finish, ApplyPrivacy
  <2>4. CASE Refuse \/ Begin \/ StartTables \/ StartReferences \/ StartPartitions \/ EndTable \/ EndTypes
    BY <1>1, <2>4 DEF Refuse, Begin, StartTables, StartReferences, StartPartitions, EndTable, EndTypes
  <2>5. CASE Savepoint \/ SkipEscalation \/ Release \/ ReadIsFatal \/ Degrade \/ Write
    BY <1>1, <2>5 DEF Savepoint, SkipEscalation, Release, ReadIsFatal, Degrade, Write
  <2> QED  BY <1>3, <2>1, <2>2, <2>3, <2>4, <2>5 DEF Client
<1>4. CASE Server
  <2>1. CASE ReadSucceeds
    <3>1. facts' \subseteq facts \union Recorded /\ db' = db
      BY <2>1 DEF ReadSucceeds, With
    <3> QED  BY <1>1, <3>1, ProbesProve
  <2>2. CASE ReadTimesOut \/ ReadFails
    BY <1>1, <2>2 DEF ReadTimesOut, ReadFails
  <2> QED  BY <1>4, <2>1, <2>2 DEF Server
<1>5. ASSUME NEW i \in 1 .. Len(db), Drop(i)
      PROVE  db' = db /\ \A x \in facts' : Real(x)
  BY <1>1, <1>5 DEF Drop
<1>6. CASE Ended
  BY <1>1, <1>6 DEF Ended, vars
<1> QED  BY <1>2, <1>3, <1>4, <1>5, <1>6 DEF Next

LEMMA PlacedStep ==
  ASSUME FactInv, [Next]_vars
  PROVE  Placed'
<1> USE DEF FactInv
<1>1. db' = db
  BY FactStep
<1>2. /\ db \in Databases /\ Len(db) \in Nat /\ t \in Nat \ {0}
      /\ stage = "structure" => t <= Len(db)
  BY DatabasesAssumption DEF Placed
<1>3. ASSUME t' = t, stage' = stage \/ stage' # "structure"
      PROVE  Placed'
  BY <1>1, <1>2, <1>3 DEF Placed
<1>4. ASSUME NEW i \in Nat \ {0}, NextTable(i)
      PROVE  Placed'
  BY <1>1, <1>2, <1>4 DEF Placed, NextTable, Goto
<1>5. CASE UNCHANGED vars
  BY <1>3, <1>5 DEF vars, position
<1>6. CASE Client
  <2>1. CASE StartTables
    BY <1>4, <2>1 DEF StartTables
  <2>2. CASE EndTable
    BY <1>2, <1>4, <2>2 DEF EndTable
  <2>3. CASE Begin
    BY <1>1, <1>2, <2>3 DEF Begin, Goto, Placed
  <2>4. CASE Refuse \/ ReadIsFatal
    BY <1>3, <2>4 DEF Refuse, ReadIsFatal, Fail
  <2>5. ASSUME NEW c \in Cols, ProfileColumn(c)
        PROVE  Placed'
    BY <1>3, <2>5 DEF ProfileColumn, Goto
  <2>6. CASE StartColumns \/ StartReferences \/ StartPartitions \/ EndTypes \/ Finish \/ Write
    BY <1>3, <2>6 DEF StartColumns, StartReferences, StartPartitions, EndTypes, Finish, Write, Goto
  <2>7. CASE Savepoint \/ SkipEscalation \/ Release
    BY <1>3, <2>7 DEF Savepoint, SkipEscalation, Release, position
  <2>8. CASE Degrade
    BY <1>3, <2>8 DEF Degrade, AfterDegrade
  <2> QED  BY <1>6, <2>1, <2>2, <2>3, <2>4, <2>5, <2>6, <2>7, <2>8 DEF Client
<1>7. CASE Server
  BY <1>3, <1>7 DEF Server, ReadSucceeds, ReadTimesOut, ReadFails, position
<1>8. ASSUME NEW i \in 1 .. Len(db), Drop(i)
      PROVE  Placed'
  BY <1>3, <1>8 DEF Drop, position
<1>9. CASE Ended
  BY <1>3, <1>9 DEF Ended, vars, position
<1> QED  BY <1>5, <1>6, <1>7, <1>8, <1>9 DEF Next

\* A column the fixture calls unique has no value twice, in any database whose keys are
\* enforced, unless a key with an expression or an invalid index says so.
THEOREM UniqueFactsAreReal == Spec => []UniqueIsReal
<1>1. Init => FactInv
  BY DatabasesAssumption DEF Init, FactInv, Placed, UniqueIsReal
<1>2. FactInv /\ [Next]_vars => FactInv'
  BY FactStep, PlacedStep DEF FactInv, UniqueIsReal, Real
<1>3. FactInv => UniqueIsReal
  BY DEF FactInv
<1> QED  BY <1>1, <1>2, <1>3, PTL DEF Spec
-----------------------------------------------------------------------------
\* The tables the reader is at exist.
AtTable == {"structure", "column", "references", "partitions"}

TypeInv ==
  /\ TypeOK
  /\ stage \in AtTable => t <= Len(db)
  /\ inside => todo # <<>> /\ First.guard

Names == Cols \union {Whole}
Reads == Names \X FactNames
Confidences == {"estimated", "measured", "exact"}

LEMMA GroupTyped ==
  ASSUME NEW guard \in BOOLEAN, NEW c \in Names, NEW about \in FactNames, NEW reads \in Seq(Reads)
  PROVE  Group(guard, c, about, reads) \in Groups
BY DEF Group, Groups, Names, Reads

LEMMA SingleTyped ==
  ASSUME NEW guard \in BOOLEAN, NEW c \in Names, NEW about \in FactNames, NEW f \in FactNames
  PROVE  Group(guard, c, about, <<<<c, f>>>>) \in Groups
<1>1. <<<<c, f>>>> \in Seq(Reads)
  BY DEF Reads
<1> QED  BY <1>1, GroupTyped

LEMMA OneTyped ==
  ASSUME NEW g \in Groups
  PROVE  <<g>> \in Seq(Groups) /\ <<>> \in Seq(Groups)
OBVIOUS

\* The reads of the catalog and of the partitions.
LEMMA CatalogTyped ==
  /\ <<Catalog("limits"), Engine, ListTables>> \in Seq(Groups)
  /\ ReadTable \o TableReads \in Seq(Groups)
  /\ <<UserTypes, Extensions>> \in Seq(Groups)
  /\ MeasurePartitions \in Seq(Groups)
<1>1. ASSUME NEW f \in FactNames
      PROVE  Catalog(f) \in Groups
  BY <1>1, SingleTyped DEF Catalog, Names
<1>2. /\ Catalog("limits") \in Groups /\ Engine \in Groups /\ ListTables \in Groups
      /\ ReadColumns \in Groups /\ ReadConstraints \in Groups /\ ReadIndexes \in Groups
      /\ ReadReferences \in Groups /\ ColumnStats \in Groups /\ ExactRowCount \in Groups
      /\ UserTypes \in Groups /\ Extensions \in Groups
  BY <1>1 DEF FactNames, Engine, ListTables, ReadColumns, ReadConstraints, ReadIndexes,
              ReadReferences, ColumnStats, ExactRowCount, UserTypes, Extensions
<1>3. /\ PartitionStrategy \in Groups /\ PartitionCountSkew \in Groups /\ PartitionKey \in Groups
      /\ PartitionTotalRows \in Groups /\ PartitionTotalBytes \in Groups
  BY <1>1 DEF FactNames, PartitionStrategy, PartitionCountSkew, PartitionKey,
              PartitionTotalRows, PartitionTotalBytes
<1>4. ReadTable \in Seq(Groups) /\ TableReads \in Seq(Groups)
  BY <1>2 DEF ReadTable, TableReads
<1> QED  BY <1>2, <1>3, <1>4 DEF MeasurePartitions

\* The table the reader is at.
LEMMA TableTyped ==
  ASSUME db \in Databases, t \in 1 .. Len(db)
  PROVE  /\ DOMAIN Table.cols \subseteq Cols
         /\ \A c \in DOMAIN Table.cols : Table.cols[c] \in Columns
         /\ Table.refs \in Seq(References)
<1>1. db \in Seq(Tables)
  BY DatabasesAssumption
<1>2. Table \in Tables
  BY <1>1 DEF Table
<1>3. PICK C \in SUBSET Cols : Table.cols \in [C -> Columns]
  BY <1>2 DEF Tables
<1> QED  BY <1>2, <1>3 DEF Tables

LEMMA ColumnPlanTyped ==
  ASSUME NEW c \in Names
  PROVE  /\ ExactColumn(c) \in Seq(Groups)
         /\ ByCategory(c) \in Seq(Groups)
         /\ Uniqueness(c) \in Seq(Groups)
<1>1. ASSUME NEW f \in FactNames
      PROVE  Full(c, f) \in Groups /\ Guarded(c, f) \in Groups
  BY <1>1, SingleTyped DEF Full, Guarded
<1>2. ExactNullFraction(c) \in Groups /\ Group(FALSE, c, "distinct", <<HllDistinct(c)>>) \in Groups
  BY <1>1, SingleTyped DEF FactNames, ExactNullFraction, HllDistinct
<1>3. /\ RangeStat(c) \in Groups /\ MeasureHistogram(c) \in Groups /\ ByteaLengthStat(c) \in Groups
      /\ ValueSample(c, "format") \in Groups /\ ValueSample(c, "shape") \in Groups
  BY <1>1 DEF FactNames, RangeStat, MeasureHistogram, ByteaLengthStat, ValueSample
<1>4. Group(TRUE, c, "unique", <<ProbeUniqueExistence(c)>>) \in Groups
  BY SingleTyped DEF FactNames, ProbeUniqueExistence
<1>5. EscalateColumn(c) \in Groups
  <2>1. <<HllDistinct(c), ProbeUniqueExistence(c)>> \in Seq(Reads)
    BY DEF FactNames, HllDistinct, ProbeUniqueExistence, Reads
  <2> QED  BY <2>1, GroupTyped DEF EscalateColumn, FactNames
<1>6. OverCap(c) \in Groups
  <2>1. <<>> \in Seq(Reads)
    OBVIOUS
  <2> QED  BY <2>1, GroupTyped DEF OverCap, FactNames
<1>7. ByCategory(c) \in Seq(Groups)
  <2> DEFINE cat == Col(c).cat
  <2>1. CASE cat = "numeric"
    <3>1. ByCategory(c) = <<RangeStat(c), MeasureHistogram(c)>>
      BY <2>1 DEF ByCategory
    <3> QED  BY <1>3, <3>1
  <2>2. CASE cat = "temporal"
    <3>1. ByCategory(c) = <<RangeStat(c)>>
      BY <2>2 DEF ByCategory
    <3> QED  BY <1>3, <3>1
  <2>3. CASE cat = "text"
    <3>1. ByCategory(c) = <<ValueSample(c, "format")>>
      BY <2>3 DEF ByCategory
    <3> QED  BY <1>3, <3>1
  <2>4. CASE cat = "bytea"
    <3>1. ByCategory(c) = <<ByteaLengthStat(c)>>
      BY <2>4 DEF ByCategory
    <3> QED  BY <1>3, <3>1
  <2>5. CASE cat = "json"
    <3>1. ByCategory(c) = <<ValueSample(c, "shape")>>
      BY <2>5 DEF ByCategory
    <3> QED  BY <1>3, <3>1
  <2>6. CASE cat \notin {"numeric", "temporal", "text", "bytea", "json"}
    <3>1. ByCategory(c) = <<>>
      BY <2>6 DEF ByCategory
    <3> QED  BY <3>1
  <2> QED  BY <2>1, <2>2, <2>3, <2>4, <2>5, <2>6
<1>8. Uniqueness(c) \in Seq(Groups)
  <2>1. /\ <<Group(TRUE, c, "unique", <<ProbeUniqueExistence(c)>>)>> \in Seq(Groups)
        /\ <<OverCap(c)>> \in Seq(Groups) /\ <<EscalateColumn(c)>> \in Seq(Groups)
        /\ <<>> \in Seq(Groups)
    BY <1>4, <1>5, <1>6, OneTyped
  <2>2. CASE opts.exact
    <3>1. \/ Uniqueness(c) = <<>>
          \/ Uniqueness(c) = <<Group(TRUE, c, "unique", <<ProbeUniqueExistence(c)>>)>>
      BY <2>2 DEF Uniqueness
    <3> QED  BY <2>1, <3>1
  <2>3. CASE ~opts.exact /\ ~ShouldEscalate(c)
    <3>1. Uniqueness(c) = <<>>
      BY <2>3 DEF Uniqueness
    <3> QED  BY <2>1, <3>1
  <2>4. CASE ~opts.exact /\ ShouldEscalate(c)
    <3>1. Uniqueness(c) = <<OverCap(c)>> \/ Uniqueness(c) = <<EscalateColumn(c)>>
      BY <2>4 DEF Uniqueness
    <3> QED  BY <2>1, <3>1
  <2> QED  BY <2>2, <2>3, <2>4
<1>9. ExactColumn(c) \in Seq(Groups)
  <2>1. <<ExactNullFraction(c)>> \in Seq(Groups) /\ <<>> \in Seq(Groups)
    BY <1>2, OneTyped
  <2>2. <<Group(FALSE, c, "distinct", <<HllDistinct(c)>>)>> \in Seq(Groups)
    BY <1>2, OneTyped
  <2>3. (IF Col(c).nullable THEN <<ExactNullFraction(c)>> ELSE <<>>) \in Seq(Groups)
    BY <2>1
  <2>4. ASSUME NEW p \in Seq(Groups), NEW q \in Seq(Groups)
        PROVE  p \o q \in Seq(Groups)
    OBVIOUS
  <2> QED  BY <2>2, <2>3, <2>4 DEF ExactColumn
<1> QED  BY <1>7, <1>8, <1>9

LEMMA ReferencesTyped ==
  ASSUME db \in Databases, t \in 1 .. Len(db)
  PROVE  MeasureReferences \in Groups
<1>1. ASSUME NEW n \in DOMAIN Table.refs
      PROVE  MeasureFanout(Table.refs[n].col) \in Reads
  <2>1. Table.refs[n] \in References
    BY TableTyped
  <2> QED  BY <2>1 DEF References, MeasureFanout, Reads, Names, FactNames
<1>2. DOMAIN Table.refs = 1 .. Len(Table.refs) /\ Len(Table.refs) \in Nat
  BY TableTyped
<1>3. [n \in DOMAIN Table.refs |-> MeasureFanout(Table.refs[n].col)] \in Seq(Reads)
  BY <1>1, <1>2
<1> QED  BY <1>3, GroupTyped DEF MeasureReferences, Names, FactNames

\* A fact about a column or a table.
LEMMA HasTyped ==
  ASSUME t \in 1 .. Len(db) + 1, NEW c \in Names, NEW f \in FactNames, NEW cf \in Confidences
  PROVE  Has(t, c, f, cf) \in [of : Facts, conf : Confidences]
BY DEF Has, Facts, Names

\* The read a group is at.
LEMMA ReadTyped ==
  ASSUME todo \in Seq(Groups), todo # <<>>, First.reads # <<>>
  PROVE  /\ First \in Groups /\ Head(First.reads) \in Reads
         /\ Of[2] \in Names /\ Fact \in FactNames
         /\ Of = <<t, Of[2], Fact>> /\ Head(First.reads) = <<Of[2], Fact>>
<1>1. First \in Groups
  BY DEF First
<1>2. First.reads \in Seq(Reads)
  BY <1>1 DEF Groups, Reads, Names
<1>3. Head(First.reads) \in Reads
  BY <1>2
<1> QED  BY <1>1, <1>3 DEF Reads, Of, Fact

LEMMA RecordedTyped ==
  ASSUME todo \in Seq(Groups), todo # <<>>, First.reads # <<>>, t \in 1 .. Len(db) + 1
  PROVE  Recorded \subseteq [of : Facts, conf : Confidences]
<1>1. Of[2] \in Names /\ Fact \in FactNames /\ Of = <<t, Of[2], Fact>>
  BY ReadTyped
<1>2. CASE Gone \/ Fact \in {"limits", "engine", "tables", "stats"}
  BY <1>2 DEF Recorded
<1>3. CASE Fact = "validated"
  <2>1. Has(t, Of[2], "orphans", "exact") \in [of : Facts, conf : Confidences]
    BY <1>1, HasTyped DEF FactNames, Confidences
  <2> QED  BY <1>2, <1>3, <2>1 DEF Recorded
<1>4. CASE Fact = "total_rows"
  <2>1. Has(t, Whole, "rows", "estimated") \in [of : Facts, conf : Confidences]
    BY HasTyped DEF FactNames, Confidences, Names
  <2> QED  BY <1>2, <1>4, <2>1 DEF Recorded
<1>5. CASE Fact = "unique" /\ Col(Of[2]).dup
  <2>1. Has(t, Of[2], "duplicates", "exact") \in [of : Facts, conf : Confidences]
    BY <1>1, HasTyped DEF FactNames, Confidences
  <2> QED  BY <1>2, <1>5, <2>1 DEF Recorded
<1>6. CASE Fact = "format" /\ opts.privacy = "permissive"
  <2>1. /\ Has(t, Of[2], "format", "estimated") \in [of : Facts, conf : Confidences]
        /\ Has(t, Of[2], "values", "estimated") \in [of : Facts, conf : Confidences]
    BY <1>1, HasTyped DEF FactNames, Confidences
  <2> QED  BY <1>2, <1>6, <2>1 DEF Recorded
<1>7. CASE /\ ~(Gone \/ Fact \in {"limits", "engine", "tables", "stats"})
           /\ Fact \notin {"validated", "total_rows"}
           /\ ~(Fact = "unique" /\ Col(Of[2]).dup)
           /\ ~(Fact = "format" /\ opts.privacy = "permissive")
  <2>1. Recorded = {[of |-> Of, conf |-> Confidence(Fact)]}
    BY <1>7 DEF Recorded
  <2>2. Confidence(Fact) \in Confidences
    BY DEF Confidence, Confidences
  <2>3. [of |-> Of, conf |-> Confidence(Fact)] = Has(t, Of[2], Fact, Confidence(Fact))
    BY <1>1 DEF Has
  <2> QED  BY <1>1, <2>1, <2>2, <2>3, HasTyped
<1> QED  BY <1>2, <1>3, <1>4, <1>5, <1>6, <1>7

\* The parts of the type that an action disturbs.
LEMMA TypeParts ==
  ASSUME TypeInv, db' = db, opts' = opts,
         stage' \in Stages, t' \in 1 .. Len(db) + 1, stage' \in AtTable => t' <= Len(db),
         left' \subseteq Cols, todo' \in Seq(Groups), dropped' \subseteq 1 .. Len(db),
         inside' \in BOOLEAN, tx' \in {"none", "open", "aborted"},
         error' \in {"none", "timeout", "other"},
         facts' \subseteq [of : Facts, conf : Confidences], warned' \subseteq Facts,
         exit' \in {Running, 0, 3}, inside' => todo' # <<>> /\ todo'[1].guard
  PROVE  TypeInv'
<1>1. Facts' = Facts /\ Groups' = Groups
  BY DEF Facts, Groups
<1>2. TypeOK' /\ (stage' \in AtTable => t' <= Len(db)')
  BY <1>1 DEF TypeInv, TypeOK, Confidences
<1>3. todo' # <<>> => First' = todo'[1]
  BY DEF First
<1> QED  BY <1>2, <1>3 DEF TypeInv

LEMMA TypeStep ==
  ASSUME TypeInv, [Next]_vars
  PROVE  TypeInv'
<1>0. /\ db \in Databases /\ opts \in Options /\ dropped \subseteq 1 .. Len(db)
      /\ stage \in Stages /\ left \subseteq Cols /\ todo \in Seq(Groups)
      /\ stage \in AtTable => t <= Len(db)
      /\ inside \in BOOLEAN /\ tx \in {"none", "open", "aborted"}
      /\ error \in {"none", "timeout", "other"} /\ warned \subseteq Facts
      /\ exit \in {Running, 0, 3}
      /\ facts \subseteq [of : Facts, conf : Confidences]
      /\ Len(db) \in Nat /\ t \in 1 .. Len(db) + 1
      /\ Tail(todo) \in Seq(Groups) \/ todo = <<>>
      /\ <<>> \in Seq(Groups)
      /\ todo # <<>> => First = todo[1] /\ Len(todo) > 0
      /\ inside => todo # <<>> /\ todo[1].guard
  BY DatabasesAssumption DEF TypeInv, TypeOK, Confidences, First
<1> USE <1>0
<1>1. CASE UNCHANGED vars
  <2> USE <1>1 DEF vars
  <2> QED  BY TypeParts
<1>2. CASE Client
  <2>1. CASE Refuse \/ ReadIsFatal
    <3>1. /\ db' = db /\ opts' = opts /\ dropped' = dropped /\ t' = t /\ left' = left /\ todo' = todo
          /\ facts' = facts /\ warned' = warned /\ exit' = 3 /\ stage' = "ended" /\ tx' = "none"
          /\ error' = error /\ inside' = FALSE
      BY <2>1 DEF Refuse, ReadIsFatal, Fail, Between
    <3> QED  BY <3>1, TypeParts DEF Stages, AtTable
  <2>2. ASSUME NEW i \in 1 .. Len(db) + 1, NextTable(i),
               UNCHANGED <<db, opts, dropped, session, facts, warned, exit>>, ~inside
        PROVE  TypeInv'
    <3>1. /\ t' = i /\ left' = {} /\ todo' \in Seq(Groups) /\ stage' \in Stages
          /\ stage' \in AtTable => i <= Len(db)
      <4>1. CASE i > Len(db)
        BY <2>2, <4>1, CatalogTyped DEF NextTable, Goto, Stages, AtTable
      <4>2. CASE ~(i > Len(db))
        <5>1. Goto("structure", i, {}, ReadTable \o TableReads)
          BY <2>2, <4>2 DEF NextTable
        <5> QED  BY <4>2, <5>1, CatalogTyped DEF Goto, Stages
      <4> QED  BY <4>1, <4>2
    <3> QED  BY <2>2, <3>1, TypeParts DEF session
  <2>3. CASE StartTables
    BY <2>2, <2>3 DEF StartTables, Between
  <2>4. CASE EndTable
    <3>1. t + 1 \in 1 .. Len(db) + 1
      BY <2>4 DEF EndTable, AtTable
    <3> QED  BY <2>2, <2>4, <3>1 DEF EndTable, Between
  <2>5. CASE Begin
    <3>1. /\ db' = db /\ opts' = opts /\ dropped' = dropped /\ facts' = facts /\ warned' = warned
          /\ exit' = exit /\ inside' = FALSE /\ error' = error /\ tx' = "open"
          /\ stage' = "catalog" /\ t' = 1 /\ left' = {} /\ todo' \in Seq(Groups)
      BY <2>5, CatalogTyped DEF Begin, Goto, Between
    <3>2. 1 \in 1 .. Len(db) + 1
      OBVIOUS
    <3> QED  BY <3>1, <3>2, TypeParts DEF Stages, AtTable
  <2>6. CASE StartColumns
    <3>1. t \in 1 .. Len(db)
      BY <2>6 DEF StartColumns, AtTable
    <3>2. DOMAIN Table.cols \subseteq Cols
      BY <3>1, TableTyped
    <3>3. ASSUME NEW x \in facts'
          PROVE  x \in [of : Facts, conf : Confidences]
      <4>1. CASE x \in facts
        BY <4>1
      <4>2. CASE x \notin facts
        <5>1. PICK c \in DOMAIN Table.cols : x = Has(t, c, "unique", "exact")
          BY <2>6, <3>3, <4>2 DEF StartColumns, With
        <5> QED  BY <3>2, <5>1, HasTyped DEF Names, FactNames, Confidences
      <4> QED  BY <4>1, <4>2
    <3>4. /\ db' = db /\ opts' = opts /\ dropped' = dropped /\ warned' = warned /\ exit' = exit
          /\ inside' = FALSE /\ error' = error /\ tx' = tx
          /\ stage' = "column" /\ t' = t /\ todo' = <<>> /\ left' \subseteq Cols
      BY <2>6, <3>2 DEF StartColumns, Goto, session, Between
    <3>5. t <= Len(db) /\ facts' \subseteq [of : Facts, conf : Confidences]
      BY <3>1, <3>3
    <3> QED  BY <3>4, <3>5, TypeParts DEF Stages
  <2>7. ASSUME NEW c \in Cols, ProfileColumn(c)
        PROVE  TypeInv'
    <3>1. todo' \in Seq(Groups)
      <4>1. /\ (IF opts.exact THEN ExactColumn(c) ELSE <<>>) \in Seq(Groups)
            /\ ByCategory(c) \in Seq(Groups) /\ Uniqueness(c) \in Seq(Groups)
        BY ColumnPlanTyped DEF Names
      <4>2. ASSUME NEW p \in Seq(Groups), NEW q \in Seq(Groups)
            PROVE  p \o q \in Seq(Groups)
        OBVIOUS
      <4> QED  BY <2>7, <4>1, <4>2 DEF ProfileColumn, Goto
    <3>2. ASSUME NEW x \in facts'
          PROVE  x \in [of : Facts, conf : Confidences]
      <4>1. CASE x \in facts
        BY <4>1
      <4>2. CASE x \notin facts
        <5>1. x \in FromStats(c)
          BY <2>7, <3>2, <4>2 DEF ProfileColumn, With
        <5>2. x = Has(t, c, "distinct", "estimated") \/ x = Has(t, c, "null_fraction", "estimated")
          BY <5>1 DEF FromStats
        <5> QED  BY <5>2, HasTyped DEF Names, FactNames, Confidences
      <4> QED  BY <4>1, <4>2
    <3>3. /\ db' = db /\ opts' = opts /\ dropped' = dropped /\ warned' = warned /\ exit' = exit
          /\ inside' = FALSE /\ error' = error /\ tx' = tx
          /\ stage' = "column" /\ stage = "column" /\ t' = t /\ left' \subseteq Cols
      BY <2>7 DEF ProfileColumn, Goto, session, Between
    <3> QED  BY <3>1, <3>2, <3>3, TypeParts DEF Stages
  <2>8. CASE StartReferences
    <3>1. t \in 1 .. Len(db)
      BY <2>8 DEF StartReferences, AtTable
    <3>2. /\ <<MeasureReferences>> \in Seq(Groups)
          /\ <<Group(TRUE, Whole, "references", <<>>)>> \in Seq(Groups)
      <4>1. <<>> \in Seq(Reads)
        OBVIOUS
      <4>2. Group(TRUE, Whole, "references", <<>>) \in Groups
        BY <4>1, GroupTyped DEF Names, FactNames
      <4> QED  BY <3>1, <4>2, ReferencesTyped, OneTyped
    <3>3. /\ db' = db /\ opts' = opts /\ dropped' = dropped /\ facts' = facts /\ warned' = warned
          /\ exit' = exit /\ inside' = FALSE /\ error' = error /\ tx' = tx
          /\ stage' = "references" /\ t' = t /\ left' = {} /\ todo' \in Seq(Groups)
      BY <2>8, <3>2 DEF StartReferences, Goto, session, Between
    <3>4. t <= Len(db)
      BY <3>1
    <3> QED  BY <3>3, <3>4, TypeParts DEF Stages
  <2>9. CASE StartPartitions
    <3>1. /\ db' = db /\ opts' = opts /\ dropped' = dropped /\ facts' = facts /\ warned' = warned
          /\ exit' = exit /\ inside' = FALSE /\ error' = error /\ tx' = tx
          /\ stage = "references" /\ stage' = "partitions" /\ t' = t /\ left' = {} /\ todo' \in Seq(Groups)
      BY <2>9, CatalogTyped DEF StartPartitions, Goto, session, Between
    <3> QED  BY <3>1, TypeParts DEF Stages, AtTable
  <2>10. CASE EndTypes
    <3>1. /\ db' = db /\ opts' = opts /\ dropped' = dropped /\ facts' = facts /\ warned' = warned
          /\ exit' = exit /\ inside' = FALSE /\ error' = error /\ tx' = tx
          /\ stage' = "profiled" /\ t' = t /\ left' = {} /\ todo' = <<>>
      BY <2>10 DEF EndTypes, Goto, session, Between
    <3> QED  BY <3>1, TypeParts DEF Stages, AtTable
  <2>11. CASE Savepoint
    <3>1. /\ db' = db /\ opts' = opts /\ dropped' = dropped /\ facts' = facts /\ warned' = warned
          /\ exit' = exit /\ inside' = TRUE /\ error' = error /\ tx' = tx
          /\ stage' = stage /\ t' = t /\ left' = left /\ todo' = todo /\ todo # <<>> /\ First.guard
      BY <2>11 DEF Savepoint, position
    <3> QED  BY <3>1, TypeParts
  <2>12. ASSUME todo # <<>>, First.col \in Names, First.about \in FactNames
         PROVE  <<t, First.col, First.about>> \in Facts
    BY <2>12 DEF Facts, Names
  <2>13. ASSUME todo # <<>>
         PROVE  First.col \in Names /\ First.about \in FactNames
    <3>1. First \in Groups
      BY <2>13 DEF First
    <3> QED  BY <3>1 DEF Groups, Names
  <2>14. CASE SkipEscalation
    <3>1. warned' \subseteq Facts
      <4>1. "unique" = First.about
        BY <2>14 DEF SkipEscalation, Skipped
      <4> QED  BY <2>12, <2>13, <2>14, <4>1 DEF SkipEscalation
    <3>2. /\ db' = db /\ opts' = opts /\ dropped' = dropped /\ facts' = facts
          /\ exit' = exit /\ inside' = FALSE /\ error' = error /\ tx' = tx
          /\ stage' = stage /\ t' = t /\ left' = left /\ todo' = Tail(todo) /\ todo # <<>>
      BY <2>14 DEF SkipEscalation, session
    <3> QED  BY <3>1, <3>2, TypeParts
  <2>15. CASE Release
    <3>1. /\ db' = db /\ opts' = opts /\ dropped' = dropped /\ facts' = facts /\ warned' = warned
          /\ exit' = exit /\ inside' = FALSE /\ error' = error /\ tx' = tx
          /\ stage' = stage /\ t' = t /\ left' = left /\ todo' = Tail(todo) /\ todo # <<>>
      BY <2>15 DEF Release, Reading
    <3> QED  BY <3>1, TypeParts
  <2>16. CASE Degrade
    <3>1. /\ db' = db /\ opts' = opts /\ dropped' = dropped /\ facts' = facts
          /\ exit' = exit /\ inside' = FALSE /\ error' = "none" /\ tx' = "open"
          /\ stage' = stage \/ (stage = "references" /\ stage' = "partitions")
          /\ t' = t /\ left' = left
      BY <2>16 DEF Degrade, AfterDegrade
    <3>2. todo # <<>> /\ (todo' = <<>> \/ todo' = Tail(todo))
      BY <2>16 DEF Degrade, AfterDegrade
    <3>3. warned' \subseteq Facts
      BY <2>12, <2>13, <2>16, <3>2 DEF Degrade
    <3> QED  BY <3>1, <3>2, <3>3, TypeParts DEF Stages, AtTable
  <2>17. CASE Finish
    <3>1. /\ db' = db /\ opts' = opts /\ dropped' = dropped /\ facts' \subseteq facts /\ warned' = warned
          /\ exit' = exit /\ inside' = FALSE /\ error' = error /\ tx' = "none"
          /\ stage' = "write" /\ t' = t /\ left' = {} /\ todo' = <<>>
      BY <2>17 DEF Finish, ApplyPrivacy, Goto, Between
    <3> QED  BY <3>1, TypeParts DEF Stages, AtTable
  <2>18. CASE Write
    <3>1. /\ db' = db /\ opts' = opts /\ dropped' = dropped /\ facts' = facts /\ warned' = warned
          /\ exit' \in {0, 3} /\ inside' = FALSE /\ error' = error /\ tx' = tx
          /\ stage' = "ended" /\ t' = t /\ left' = {} /\ todo' = <<>>
      BY <2>18 DEF Write, Goto, session, Between
    <3> QED  BY <3>1, TypeParts DEF Stages, AtTable
  <2> QED  BY <1>2, <2>1, <2>3, <2>4, <2>5, <2>6, <2>7, <2>8, <2>9, <2>10, <2>11, <2>14, <2>15, <2>16,
              <2>17, <2>18 DEF Client
<1>3. CASE ReadSucceeds
  <2>1. todo # <<>> /\ First.reads # <<>>
    BY <1>3 DEF ReadSucceeds, Reading
  <2>2. /\ First \in Groups /\ Of[2] \in Names /\ First.reads \in Seq(Reads)
    BY <2>1, ReadTyped DEF Groups, Reads, Names
  <2>3. Onward(Of[2], Fact) \in Seq(Reads)
    <3>1. /\ <<FkValidated(Of[2])>> \in Seq(Reads) /\ <<MeasureOrphanFraction(Of[2])>> \in Seq(Reads)
          /\ <<>> \in Seq(Reads)
      BY <2>2 DEF FkValidated, MeasureOrphanFraction, FactNames, Reads
    <3> QED  BY <3>1 DEF Onward
  <2>4. Onward(Of[2], Fact) \o Tail(First.reads) \in Seq(Reads)
    BY <2>1, <2>2, <2>3
  <2>5. [todo EXCEPT ![1].reads = Onward(Of[2], Fact) \o Tail(@)] \in Seq(Groups)
    <3>1. todo[1] = First /\ 1 \in DOMAIN todo
      BY <2>1 DEF First
    <3>2. [First EXCEPT !.reads = Onward(Of[2], Fact) \o Tail(First.reads)] \in Groups
      BY <2>2, <2>4 DEF Groups, Reads, Names
    <3> DEFINE g == [First EXCEPT !.reads = Onward(Of[2], Fact) \o Tail(First.reads)]
    <3>3. [todo EXCEPT ![1].reads = Onward(Of[2], Fact) \o Tail(@)] = [todo EXCEPT ![1] = g]
      BY <3>1
    <3> HIDE DEF g
    <3>4. [todo EXCEPT ![1] = g] \in Seq(Groups)
      BY <3>1, <3>2 DEF g
    <3> QED  BY <3>3, <3>4
  <2>6. todo' \in Seq(Groups)
    BY <1>3, <2>1, <2>5 DEF ReadSucceeds
  <2>7. facts' \subseteq [of : Facts, conf : Confidences]
    <3>1. facts' \subseteq facts \union Recorded
      BY <1>3 DEF ReadSucceeds, With
    <3> QED  BY <2>1, <3>1, RecordedTyped
  <2>8. /\ db' = db /\ opts' = opts /\ dropped' = dropped /\ warned' = warned /\ exit' = exit
        /\ inside' = inside /\ error' = error /\ tx' = tx /\ stage' = stage /\ t' = t /\ left' = left
    BY <1>3 DEF ReadSucceeds, session
  <2>9. inside' => todo' # <<>> /\ todo'[1].guard
    <3>1. SUFFICES ASSUME inside PROVE todo' # <<>> /\ todo'[1].guard
      BY <2>8
    <3>2. First.guard
      BY <3>1
    <3>3. todo' = [todo EXCEPT ![1].reads = Onward(Of[2], Fact) \o Tail(@)]
      BY <1>3, <3>2 DEF ReadSucceeds
    <3>4. 1 \in DOMAIN todo /\ todo[1].guard /\ todo[1] \in Groups
      BY <2>1, <2>2, <3>2
    <3>5. todo'[1] = [todo[1] EXCEPT !.reads = Onward(Of[2], Fact) \o Tail(@)]
      BY <3>3, <3>4
    <3>6. todo'[1].guard
      BY <3>4, <3>5 DEF Groups
    <3>7. DOMAIN todo' = DOMAIN todo
      BY <3>3
    <3> QED  BY <3>4, <3>6, <3>7
  <2> QED  BY <2>6, <2>7, <2>8, <2>9, TypeParts
<1>4. CASE ReadTimesOut \/ ReadFails
  <2>1. /\ db' = db /\ opts' = opts /\ dropped' = dropped /\ facts' = facts /\ warned' = warned
        /\ exit' = exit /\ inside' = inside /\ error' \in {"timeout", "other"} /\ tx' = "aborted"
        /\ stage' = stage /\ t' = t /\ left' = left /\ todo' = todo
    BY <1>4 DEF ReadTimesOut, ReadFails, position
  <2> QED  BY <2>1, TypeParts
<1>5. ASSUME NEW i \in 1 .. Len(db), Drop(i)
      PROVE  TypeInv'
  <2>1. /\ db' = db /\ opts' = opts /\ dropped' = dropped \union {i} /\ facts' = facts /\ warned' = warned
        /\ exit' = exit /\ inside' = inside /\ error' = error /\ tx' = tx
        /\ stage' = stage /\ t' = t /\ left' = left /\ todo' = todo
    BY <1>5 DEF Drop, position, session
  <2> QED  BY <2>1, TypeParts
<1>6. CASE Ended
  BY <1>1, <1>6 DEF Ended
<1> QED  BY <1>1, <1>2, <1>3, <1>4, <1>5, <1>6 DEF Next, Server


LEMMA InitTyped ==
  ASSUME Init
  PROVE  TypeInv
<1>1. Len(db) \in Nat /\ 1 \in 1 .. Len(db) + 1
  BY DatabasesAssumption DEF Init
<1>2. /\ db \in Databases /\ opts \in Options /\ dropped = {} /\ stage = "setup" /\ t = 1
      /\ left = {} /\ todo = <<>> /\ inside = FALSE /\ tx = "none" /\ error = "none"
      /\ facts = {} /\ warned = {} /\ exit = Running
  BY DEF Init
<1>3. /\ stage \in Stages /\ stage \notin AtTable /\ todo \in Seq(Groups)
      /\ tx \in {"none", "open", "aborted"} /\ error \in {"none", "timeout", "other"}
      /\ exit \in {Running, 0, 3} /\ inside \in BOOLEAN /\ ~inside
  <2>1. stage \in Stages /\ stage \notin AtTable
    BY <1>2 DEF Stages, AtTable
  <2>2. todo \in Seq(Groups)
    BY <1>2
  <2> QED  BY <1>2, <2>1, <2>2
<1>4. /\ dropped \subseteq 1 .. Len(db) /\ left \subseteq Cols /\ warned \subseteq Facts
      /\ facts \subseteq [of : Facts, conf : {"estimated", "measured", "exact"}]
  BY <1>2
<1> QED  BY <1>1, <1>2, <1>3, <1>4 DEF TypeInv, TypeOK

\* The reader's position, the session and the fixture have their types, whatever the
\* databases.
THEOREM TypeCorrect == Spec => []TypeOK
<1>1. Init => TypeInv
  BY InitTyped
<1>2. TypeInv /\ [Next]_vars => TypeInv'
  BY TypeStep
<1>3. TypeInv => TypeOK
  BY DEF TypeInv
<1> QED  BY <1>1, <1>2, <1>3, PTL DEF Spec
-----------------------------------------------------------------------------
(* A fact that a pull sets out to find is in the fixture, is accounted for by *)
(* a warning, or is still to be read; what is to be read is in todo, and each *)
(* action that shortens todo answers what it takes away.                      *)

\* The facts that no warning stands for.
Certain == {"distinct", "columns", "references"}

\* The facts of a column, a table or its partitions that are set out for.
Sought ==
  Certain \union {"range", "histogram", "format", "length", "shape", "unique",
                  "strategy", "skew", "key", "total_bytes"}

Answered(i, c, f) ==
  \/ Present(i, c, f)
  \/ f \notin Certain /\ Accounted(i, c, f)
  \/ f = "unique" /\ Present(i, c, "duplicates")

\* A read still to be made establishes f, or the warning of its group accounts for it.
Pending(c, f) ==
  \E k \in DOMAIN todo : \E j \in DOMAIN todo[k].reads :
    /\ todo[k].reads[j] = <<c, f>>
    /\ IF todo[k].guard THEN todo[k].col = c /\ f \in Accounts(todo[k].about) \ Certain ELSE j = 1

\* A column over the cap, which is yet to be warned of.
ToSkip(c) ==
  \E k \in DOMAIN todo :
    todo[k].about = "unique" /\ todo[k].reads = <<>> /\ todo[k].col = c /\ ~(inside /\ k = 1)

\* A read of the references that establishes f or leads to the one that does.
Leads(c, f) ==
  IF f = "fanout" THEN {<<c, "fanout">>} ELSE {<<c, "fanout">>, <<c, "validated">>, <<c, "orphans">>}

ToMeasure(c, f) ==
  \E k \in DOMAIN todo :
    /\ todo[k].guard /\ todo[k].col = Whole /\ todo[k].about = "references"
    /\ \E j \in DOMAIN todo[k].reads : todo[k].reads[j] \in Leads(c, f)

ColumnDue(i, c) ==
  /\ \A f \in WantedOf(i, c) : Told(i, c, f) \/ Pending(c, f)
  /\ UniqueWanted(i, c) /\ Unsettled(i, c) =>
       Accounted(i, c, "unique") \/ Pending(c, "unique") \/ ToSkip(c)
  /\ opts.exact \/ db[i].cols[c].stats # "none" => Present(i, c, "distinct") \/ Pending(c, "distinct")

ReferencesDue(i) ==
  \A n \in DOMAIN db[i].refs, f \in {"fanout", "orphans"} :
    \/ Present(i, db[i].refs[n].col, f) \/ Accounted(i, Whole, f)
    \/ ToMeasure(db[i].refs[n].col, f)

PartitionsDue(i) ==
  db[i].partitioned =>
    \A f \in {"strategy", "skew", "key", "total_bytes"} : Told(i, Whole, f) \/ Pending(Whole, f)

CatalogDue(i) == \A f \in {"columns", "references"} : Present(i, Whole, f) \/ Pending(Whole, f)

AllTold(i) == (\A c \in DOMAIN db[i].cols : ColumnTold(i, c)) /\ ReferencesTold(i) /\ PartitionsTold(i)

\* What stands behind a sample in todo is the question whether its column is unique.
Planned ==
  /\ stage \in {"types", "profiled"} => t = Len(db) + 1
  /\ stage \in {"references", "partitions"} => left = {}
  /\ stage = "references" => \A k \in DOMAIN todo : todo[k].about = "references" /\ todo[k].col = Whole
  /\ \A k, m \in DOMAIN todo :
       todo[k].about \in {"format", "shape"} /\ k < m =>
         todo[m].guard /\ todo[m].col = todo[k].col /\ todo[m].about = "unique"

BehindTold ==
  stage \in AtTable \union {"types", "profiled"} =>
    \A i \in 1 .. Len(db) \ dropped : i < t => AllTold(i)

HereDue ==
  \A i \in 1 .. Len(db) \ dropped :
    i = t =>
      /\ stage = "structure" => CatalogDue(i)
      /\ stage = "column" => Present(i, Whole, "references") /\ \A c \in ProvenUnique : Present(i, c, "unique")
      /\ stage \in {"column", "references", "partitions"} => \A c \in DOMAIN db[i].cols \ left : ColumnDue(i, c)
      /\ stage \in {"references", "partitions"} => ReferencesDue(i)
      /\ stage = "partitions" => PartitionsDue(i)

ToldInv == TypeInv /\ Planned /\ BehindTold /\ HereDue

\* The fixture only gains facts while the tables are read.
LEMMA WithGains ==
  ASSUME NEW new, facts' = With(facts, new)
  PROVE  /\ \A i, c, f : Present(i, c, f) => Present(i, c, f)'
         /\ \A i, c, f : (\E n \in new : n.of = <<i, c, f>>) => Present(i, c, f)'
<1>1. ASSUME NEW i, NEW c, NEW f, \E n \in new : n.of = <<i, c, f>>
      PROVE  Present(i, c, f)'
  BY <1>1 DEF With, Present
<1>2. ASSUME NEW i, NEW c, NEW f, Present(i, c, f)
      PROVE  Present(i, c, f)'
  <2>1. PICK x \in facts : x.of = <<i, c, f>>
    BY <1>2 DEF Present
  <2>2. CASE \E n \in new : n.of = x.of
    BY <1>1, <2>1, <2>2
  <2>3. CASE \A n \in new : n.of # x.of
    <3>1. x \in facts'
      BY <2>3 DEF With
    <3> QED  BY <2>1, <3>1 DEF Present
  <2> QED  BY <2>2, <2>3
<1> QED  BY <1>1, <1>2

\* What a step does to the fixture and the warnings while it profiles.
Gains ==
  /\ db' = db /\ opts' = opts /\ warned \subseteq warned'
  /\ \A i, c, f : Present(i, c, f) => Present(i, c, f)'

LEMMA ToldStays ==
  ASSUME Gains
  PROVE  /\ \A i, c, f : Accounted(i, c, f) => Accounted(i, c, f)'
         /\ \A i, c, f : Told(i, c, f) => Told(i, c, f)'
         /\ \A i, c : ColumnTold(i, c) => ColumnTold(i, c)'
         /\ \A i : ReferencesTold(i) => ReferencesTold(i)'
         /\ \A i : PartitionsTold(i) => PartitionsTold(i)'
         /\ \A i : AllTold(i) => AllTold(i)'
<1>1. ASSUME NEW i, NEW c, NEW f, Accounted(i, c, f)
      PROVE  Accounted(i, c, f)'
  BY <1>1 DEF Accounted, Gains
<1>2. ASSUME NEW i, NEW c, NEW f, Told(i, c, f)
      PROVE  Told(i, c, f)'
  BY <1>1, <1>2 DEF Told, Gains
<1>3. ASSUME NEW i, NEW c, ColumnTold(i, c)
      PROVE  ColumnTold(i, c)'
  <2>1. /\ WantedOf(i, c)' = WantedOf(i, c) /\ UniqueWanted(i, c)' = UniqueWanted(i, c)
        /\ opts' = opts /\ db' = db
    BY DEF WantedOf, UniqueWanted, Gains
  <2>2. \A f \in WantedOf(i, c) : Told(i, c, f)'
    BY <1>2, <1>3 DEF ColumnTold
  <2>3. Unsettled(i, c)' => Unsettled(i, c)
    BY DEF Unsettled, Gains
  <2>4. UniqueWanted(i, c) /\ Unsettled(i, c) => Accounted(i, c, "unique")'
    BY <1>1, <1>3 DEF ColumnTold
  <2>5. opts.exact \/ db[i].cols[c].stats # "none" => Present(i, c, "distinct")'
    BY <1>3 DEF ColumnTold, Gains
  <2> QED  BY <2>1, <2>2, <2>3, <2>4, <2>5 DEF ColumnTold
<1>4. ASSUME NEW i, ReferencesTold(i)
      PROVE  ReferencesTold(i)'
  BY <1>1, <1>4 DEF ReferencesTold, Gains
<1>5. ASSUME NEW i, PartitionsTold(i)
      PROVE  PartitionsTold(i)'
  BY <1>2, <1>5 DEF PartitionsTold, Gains
<1>6. ASSUME NEW i, AllTold(i)
      PROVE  AllTold(i)'
  BY <1>3, <1>4, <1>5, <1>6 DEF AllTold, Gains
<1> QED  BY <1>1, <1>2, <1>3, <1>4, <1>5, <1>6

\* When nothing is left to be read, what is due is told.
LEMMA IdleTold ==
  ASSUME todo = <<>>
  PROVE  /\ \A c, f : ~Pending(c, f) /\ ~ToMeasure(c, f) /\ ~ToSkip(c)
         /\ \A i, c : ColumnDue(i, c) => ColumnTold(i, c)
         /\ \A i : ReferencesDue(i) => ReferencesTold(i)
         /\ \A i : PartitionsDue(i) => PartitionsTold(i)
<1>1. \A c, f : ~Pending(c, f) /\ ~ToMeasure(c, f) /\ ~ToSkip(c)
  BY DEF Pending, ToMeasure, ToSkip
<1>2. \A i, c : ColumnDue(i, c) => ColumnTold(i, c)
  BY <1>1 DEF ColumnDue, ColumnTold
<1>3. \A i : ReferencesDue(i) => ReferencesTold(i)
  BY <1>1 DEF ReferencesDue, ReferencesTold
<1>4. \A i : PartitionsDue(i) => PartitionsTold(i)
  BY <1>1 DEF PartitionsDue, PartitionsTold
<1> QED  BY <1>1, <1>2, <1>3, <1>4

LEMMA ToldDue ==
  /\ \A i, c : ColumnTold(i, c) => ColumnDue(i, c)
  /\ \A i : ReferencesTold(i) => ReferencesDue(i)
  /\ \A i : PartitionsTold(i) => PartitionsDue(i)
BY DEF ColumnTold, ColumnDue, ReferencesTold, ReferencesDue, PartitionsTold, PartitionsDue

\* A step that answers what it takes from todo, of table i.
Answers(i) ==
  /\ \A c, f : Pending(c, f) /\ f \in Sought => Pending(c, f)' \/ Answered(i, c, f)'
  /\ \A c : ToSkip(c) => ToSkip(c)' \/ Accounted(i, c, "unique")'
  /\ \A c : \A f \in {"fanout", "orphans"} :
       ToMeasure(c, f) => ToMeasure(c, f)' \/ Present(i, c, f)' \/ Accounted(i, Whole, f)'

LEMMA WantedSought ==
  ASSUME NEW i, NEW c, NEW f \in WantedOf(i, c)
  PROVE  f \in Sought \ Certain /\ f # "unique"
<1>1. f \in {"range", "histogram", "format", "length", "shape"}
  BY DEF WantedOf
<1> QED  BY <1>1 DEF Sought, Certain

LEMMA DueStays ==
  ASSUME NEW i, Gains, Answers(i)
  PROVE  /\ \A c : ColumnDue(i, c) => ColumnDue(i, c)'
         /\ ReferencesDue(i) => ReferencesDue(i)'
         /\ PartitionsDue(i) => PartitionsDue(i)'
         /\ CatalogDue(i) => CatalogDue(i)'
<1>1. ASSUME NEW c, ColumnDue(i, c)
      PROVE  ColumnDue(i, c)'
  <2>1. /\ WantedOf(i, c)' = WantedOf(i, c) /\ UniqueWanted(i, c)' = UniqueWanted(i, c)
        /\ opts' = opts /\ db' = db
    BY DEF WantedOf, UniqueWanted, Gains
  <2>2. ASSUME NEW f \in WantedOf(i, c)
        PROVE  Told(i, c, f)' \/ Pending(c, f)'
    <3>1. CASE Told(i, c, f)
      BY <3>1, ToldStays
    <3>2. CASE Pending(c, f)
      BY <3>2, WantedSought DEF Answers, Answered, Told
    <3> QED  BY <1>1, <3>1, <3>2 DEF ColumnDue
  <2>3. ASSUME UniqueWanted(i, c), Unsettled(i, c)'
        PROVE  Accounted(i, c, "unique")' \/ Pending(c, "unique")' \/ ToSkip(c)'
    <3>1. Unsettled(i, c)
      BY <2>3 DEF Unsettled, Gains
    <3>2. CASE Accounted(i, c, "unique")
      BY <3>2, ToldStays
    <3>3. CASE Pending(c, "unique")
      BY <2>3, <3>3 DEF Answers, Answered, Sought, Unsettled
    <3>4. CASE ToSkip(c)
      BY <3>4 DEF Answers
    <3> QED  BY <1>1, <2>3, <3>1, <3>2, <3>3, <3>4 DEF ColumnDue
  <2>4. ASSUME opts.exact \/ db[i].cols[c].stats # "none"
        PROVE  Present(i, c, "distinct")' \/ Pending(c, "distinct")'
    BY <1>1, <2>4 DEF ColumnDue, Answers, Answered, Sought, Certain, Gains
  <2> QED  BY <2>1, <2>2, <2>3, <2>4 DEF ColumnDue
<1>2. ASSUME ReferencesDue(i)
      PROVE  ReferencesDue(i)'
  <2>1. ASSUME NEW n \in DOMAIN db[i].refs, NEW f \in {"fanout", "orphans"}
        PROVE  \/ Present(i, db[i].refs[n].col, f)' \/ Accounted(i, Whole, f)'
               \/ ToMeasure(db[i].refs[n].col, f)'
    <3>1. PICK c : c = db[i].refs[n].col
      OBVIOUS
    <3>2. Present(i, c, f) \/ Accounted(i, Whole, f) \/ ToMeasure(c, f)
      BY <1>2, <3>1 DEF ReferencesDue
    <3>3. Present(i, c, f)' \/ Accounted(i, Whole, f)' \/ ToMeasure(c, f)'
      BY <3>2, ToldStays DEF Answers, Gains
    <3>4. c = db'[i].refs[n].col
      BY <3>1 DEF Gains
    <3> QED  BY <3>1, <3>3, <3>4
  <2> QED  BY <2>1 DEF ReferencesDue, Gains
<1>3. ASSUME PartitionsDue(i)
      PROVE  PartitionsDue(i)'
  <2>1. SUFFICES ASSUME db[i].partitioned, NEW f \in {"strategy", "skew", "key", "total_bytes"}
                 PROVE  Told(i, Whole, f)' \/ Pending(Whole, f)'
    BY DEF PartitionsDue, Gains
  <2>2. f \in Sought \ Certain /\ f # "unique"
    BY DEF Sought, Certain
  <2>3. CASE Told(i, Whole, f)
    BY <2>3, ToldStays
  <2>4. CASE Pending(Whole, f)
    BY <2>2, <2>4 DEF Answers, Answered, Told
  <2> QED  BY <1>3, <2>1, <2>3, <2>4 DEF PartitionsDue
<1>4. ASSUME CatalogDue(i)
      PROVE  CatalogDue(i)'
  BY <1>4 DEF CatalogDue, Answers, Answered, Sought, Certain, Gains
<1> QED  BY <1>1, <1>2, <1>3, <1>4

\* What is left to be read once the first group is gone.
LEMMA TailKeeps ==
  ASSUME todo \in Seq(Groups), todo # <<>>, todo' = Tail(todo), ~inside'
  PROVE  /\ \A c, f : Pending(c, f) =>
              Pending(c, f)' \/ \E j \in DOMAIN First.reads :
                                  /\ First.reads[j] = <<c, f>>
                                  /\ IF First.guard THEN First.col = c /\ f \in Accounts(First.about) \ Certain
                                     ELSE j = 1
         /\ \A c : ToSkip(c) =>
              ToSkip(c)' \/ (First.about = "unique" /\ First.reads = <<>> /\ First.col = c /\ ~inside)
         /\ \A c, f : ToMeasure(c, f) =>
              ToMeasure(c, f)' \/ (First.guard /\ First.col = Whole /\ First.about = "references" /\ First.reads # <<>>)
<1>1. First = todo[1]
  BY DEF First
<1>2. ASSUME NEW k \in DOMAIN todo, k # 1
      PROVE  k - 1 \in DOMAIN todo' /\ todo'[k - 1] = todo[k]
  BY <1>2
<1>3. ASSUME NEW c, NEW f, Pending(c, f), ~Pending(c, f)'
      PROVE  \E j \in DOMAIN First.reads :
               /\ First.reads[j] = <<c, f>>
               /\ IF First.guard THEN First.col = c /\ f \in Accounts(First.about) \ Certain ELSE j = 1
  <2>1. PICK k \in DOMAIN todo : \E j \in DOMAIN todo[k].reads :
          /\ todo[k].reads[j] = <<c, f>>
          /\ IF todo[k].guard THEN todo[k].col = c /\ f \in Accounts(todo[k].about) \ Certain ELSE j = 1
    BY <1>3 DEF Pending
  <2>2. CASE k # 1
    <3>1. PICK m : m = k - 1 /\ m \in DOMAIN todo' /\ todo'[m] = todo[k]
      BY <1>2, <2>2
    <3>2. Pending(c, f)'
      BY <2>1, <3>1 DEF Pending
    <3> QED  BY <1>3, <3>2
  <2>3. CASE k = 1
    BY <1>1, <2>1, <2>3
  <2> QED  BY <2>2, <2>3
<1>4. ASSUME NEW c, ToSkip(c), ~ToSkip(c)'
      PROVE  First.about = "unique" /\ First.reads = <<>> /\ First.col = c /\ ~inside
  <2>1. PICK k \in DOMAIN todo :
          todo[k].about = "unique" /\ todo[k].reads = <<>> /\ todo[k].col = c /\ ~(inside /\ k = 1)
    BY <1>4 DEF ToSkip
  <2>2. CASE k # 1
    <3>1. PICK m : m = k - 1 /\ m \in DOMAIN todo' /\ todo'[m] = todo[k]
      BY <1>2, <2>2
    <3>2. ToSkip(c)'
      BY <2>1, <3>1 DEF ToSkip
    <3> QED  BY <1>4, <3>2
  <2>3. CASE k = 1
    BY <1>1, <2>1, <2>3
  <2> QED  BY <2>2, <2>3
<1>5. ASSUME NEW c, NEW f, ToMeasure(c, f), ~ToMeasure(c, f)'
      PROVE  First.guard /\ First.col = Whole /\ First.about = "references" /\ First.reads # <<>>
  <2>1. PICK k \in DOMAIN todo :
          /\ todo[k].guard /\ todo[k].col = Whole /\ todo[k].about = "references"
          /\ \E j \in DOMAIN todo[k].reads : todo[k].reads[j] \in Leads(c, f)
    BY <1>5 DEF ToMeasure
  <2>2. CASE k # 1
    <3>1. PICK m : m = k - 1 /\ m \in DOMAIN todo' /\ todo'[m] = todo[k]
      BY <1>2, <2>2
    <3>2. ToMeasure(c, f)'
      BY <2>1, <3>1 DEF ToMeasure, Leads
    <3> QED  BY <1>5, <3>2
  <2>3. CASE k = 1
    BY <1>1, <2>1, <2>3
  <2> QED  BY <2>2, <2>3
<1> QED  BY <1>3, <1>4, <1>5

\* A step that leaves todo alone, but for opening a savepoint for what is read.
LEMMA StillAnswers ==
  ASSUME NEW i, todo' = todo, inside' = inside \/ (todo # <<>> /\ ~Skipped)
  PROVE  Answers(i)
<1>1. \A c, f : Pending(c, f)' = Pending(c, f)
  BY DEF Pending
<1>2. \A c, f : ToMeasure(c, f)' = ToMeasure(c, f)
  BY DEF ToMeasure, Leads
<1>3. ASSUME NEW c, ToSkip(c)
      PROVE  ToSkip(c)'
  <2>1. PICK k \in DOMAIN todo :
          todo[k].about = "unique" /\ todo[k].reads = <<>> /\ todo[k].col = c /\ ~(inside /\ k = 1)
    BY <1>3 DEF ToSkip
  <2>2. k = 1 => Skipped
    BY <2>1 DEF Skipped, First
  <2> QED  BY <2>1, <2>2 DEF ToSkip
<1> QED  BY <1>1, <1>2, <1>3 DEF Answers

\* SkipEscalation warns of the column it does not read; Release takes away a group
\* that has been read.
LEMMA SkipAnswers ==
  ASSUME NEW i, i = t, TypeInv, SkipEscalation \/ Release
  PROVE  Gains /\ Answers(i)
<1>1. /\ todo \in Seq(Groups) /\ todo # <<>> /\ todo' = Tail(todo) /\ ~inside' /\ First.reads = <<>>
      /\ db' = db /\ opts' = opts /\ facts' = facts
  BY DEF TypeInv, TypeOK, SkipEscalation, Release, Skipped, Reading, session
<1>2. First.about = "unique" /\ ~inside => <<i, First.col, "unique">> \in warned'
  BY DEF SkipEscalation, Release
<1>3. warned \subseteq warned'
  BY DEF SkipEscalation, Release
<1>4. Gains
  BY <1>1, <1>3 DEF Gains, Present
<1>5. DOMAIN First.reads = {}
  BY <1>1
<1>6. ASSUME NEW c, ToSkip(c), ~ToSkip(c)'
      PROVE  Accounted(i, c, "unique")'
  <2>1. <<i, c, "unique">> \in warned'
    BY <1>1, <1>2, <1>6, TailKeeps
  <2>2. PICK w : w = <<i, c, "unique">> /\ w \in warned'
    BY <2>1
  <2>3. w[1] = i /\ w[2] = c /\ "unique" \in Accounts(w[3])
    BY <2>2 DEF Accounts
  <2> QED  BY <2>2, <2>3 DEF Accounted
<1> QED  BY <1>1, <1>4, <1>5, <1>6, TailKeeps DEF Answers

\* A warning accounts for what its group was about.
LEMMA WarningAccounts ==
  ASSUME NEW i, NEW c, NEW about, NEW f \in Accounts(about), <<i, c, about>> \in warned'
  PROVE  Accounted(i, c, f)'
<1>1. PICK w : w = <<i, c, about>> /\ w \in warned'
  OBVIOUS
<1>2. w[1] = i /\ w[2] = c /\ w[3] = about
  BY <1>1
<1> QED  BY <1>1, <1>2 DEF Accounted

\* Degrade warns of the group it takes away, and of what follows a sample.
LEMMA DegradeAnswers ==
  ASSUME NEW i, i = t, TypeInv, Planned, Degrade
  PROVE  /\ Gains /\ Answers(i)
         /\ todo # <<>> /\ <<i, First.col, First.about>> \in warned'
<1>0. PICK cc, about : cc = First.col /\ about = First.about
  OBVIOUS
<1>1. /\ todo \in Seq(Groups) /\ todo # <<>> /\ ~inside' /\ inside /\ First.guard
      /\ db' = db /\ opts' = opts /\ facts' = facts /\ warned \subseteq warned'
      /\ <<i, First.col, First.about>> \in warned'
  BY DEF TypeInv, TypeOK, Degrade
<1>9. <<i, cc, about>> \in warned'
  BY <1>0, <1>1
<1>2. todo' = IF First.about \in {"format", "shape"} THEN <<>> ELSE Tail(todo)
  BY DEF Degrade, AfterDegrade
<1>3. Gains
  BY <1>1 DEF Gains, Present
<1>4. First = todo[1]
  BY DEF First
<1>5. ASSUME NEW f, f \in Accounts(about)
      PROVE  Accounted(i, cc, f)'
  BY <1>9, <1>5, WarningAccounts
<1>6. ASSUME cc = Whole, about = "references", NEW f \in {"fanout", "orphans"}
      PROVE  Accounted(i, Whole, f)'
  BY <1>5, <1>6 DEF Accounts
<1>7. CASE First.about \notin {"format", "shape"}
  <2>1. todo' = Tail(todo)
    BY <1>2, <1>7
  <2>2. ASSUME NEW c, NEW f, Pending(c, f), ~Pending(c, f)'
        PROVE  Answered(i, c, f)'
    <3>1. cc = c /\ f \in Accounts(about) \ Certain
      BY <1>0, <1>1, <2>1, <2>2, TailKeeps
    <3> QED  BY <1>5, <3>1 DEF Answered
  <2>3. \A c : ToSkip(c) => ToSkip(c)'
    BY <1>1, <2>1, TailKeeps
  <2>4. ASSUME NEW c, NEW f \in {"fanout", "orphans"}, ToMeasure(c, f), ~ToMeasure(c, f)'
        PROVE  Accounted(i, Whole, f)'
    BY <1>0, <1>1, <1>6, <2>1, <2>4, TailKeeps
  <2> QED  BY <1>1, <1>3, <2>2, <2>3, <2>4 DEF Answers
<1>8. CASE First.about \in {"format", "shape"}
  <2>1. ASSUME NEW k \in DOMAIN todo, k # 1
        PROVE  todo[k].guard /\ todo[k].col = cc /\ todo[k].about = "unique"
    <3>1. 1 \in DOMAIN todo /\ 1 < k
      BY <1>1, <2>1
    <3> QED  BY <1>0, <1>4, <1>8, <3>1 DEF Planned
  <2>2. "unique" \in Accounts(about) /\ Accounts("unique") = {"unique"}
    BY <1>0, <1>8 DEF Accounts
  <2>3. Accounted(i, cc, "unique")'
    BY <1>5, <2>2
  <2>4. ASSUME NEW c, NEW f, Pending(c, f)
        PROVE  Answered(i, c, f)'
    <3>1. PICK k \in DOMAIN todo : \E j \in DOMAIN todo[k].reads :
            /\ todo[k].reads[j] = <<c, f>>
            /\ IF todo[k].guard THEN todo[k].col = c /\ f \in Accounts(todo[k].about) \ Certain ELSE j = 1
      BY <2>4 DEF Pending
    <3>2. CASE k = 1
      <4>1. c = cc /\ f \in Accounts(about) \ Certain
        BY <1>0, <1>1, <1>4, <3>1, <3>2
      <4> QED  BY <1>5, <4>1 DEF Answered
    <3>3. CASE k # 1
      <4>1. c = cc /\ f = "unique" /\ f \notin Certain
        BY <2>1, <2>2, <3>1, <3>3
      <4> QED  BY <2>3, <4>1 DEF Answered
    <3> QED  BY <3>2, <3>3
  <2>5. ASSUME NEW c, ToSkip(c)
        PROVE  Accounted(i, c, "unique")'
    <3>1. PICK k \in DOMAIN todo :
            todo[k].about = "unique" /\ todo[k].reads = <<>> /\ todo[k].col = c /\ ~(inside /\ k = 1)
      BY <2>5 DEF ToSkip
    <3> QED  BY <1>1, <2>1, <2>3, <3>1
  <2>6. ASSUME NEW c, NEW f \in {"fanout", "orphans"}, ToMeasure(c, f)
        PROVE  FALSE
    <3>1. PICK k \in DOMAIN todo : todo[k].about = "references"
      BY <2>6 DEF ToMeasure
    <3>2. CASE k = 1
      BY <1>4, <1>8, <3>1, <3>2
    <3>3. CASE k # 1
      BY <2>1, <3>1, <3>3
    <3> QED  BY <3>2, <3>3
  <2> QED  BY <1>1, <1>3, <2>4, <2>5, <2>6 DEF Answers
<1> QED  BY <1>7, <1>8

\* What a read that succeeds records of a table that is there.
LEMMA RecordedAnswers ==
  ASSUME ~Gone
  PROVE  /\ Fact \in Sought \ {"unique"} => \E n \in Recorded : n.of = Of
         /\ Fact = "unique" => \E n \in Recorded : n.of \in {Of, <<t, Of[2], "duplicates">>}
         /\ Fact \in {"fanout", "orphans"} => \E n \in Recorded : n.of = Of
         /\ Fact = "validated" /\ AllValidated(Of[2]) => \E n \in Recorded : n.of = <<t, Of[2], "orphans">>
<1>1. Of = <<t, Of[2], Fact>>
  BY DEF Of
<1>2. ASSUME Fact \in Sought \union {"fanout", "orphans"}
      PROVE  Fact \notin {"limits", "engine", "tables", "stats", "validated", "total_rows"}
  BY <1>2 DEF Sought, Certain
<1>3. ASSUME Fact \in Sought \union {"fanout", "orphans"}, Fact # "unique", Fact # "format"
      PROVE  \E n \in Recorded : n.of = Of
  <2>1. Recorded = {[of |-> Of, conf |-> Confidence(Fact)]}
    BY <1>2, <1>3 DEF Recorded
  <2> QED  BY <2>1
<1>4. ASSUME Fact = "format"
      PROVE  \E n \in Recorded : n.of = Of
  <2>1. CASE opts.privacy = "permissive"
    <3>1. Has(t, Of[2], "format", "estimated") \in Recorded
      BY <1>4, <2>1 DEF Recorded
    <3>2. Has(t, Of[2], "format", "estimated").of = Of
      BY <1>1, <1>4 DEF Has
    <3> QED  BY <3>1, <3>2
  <2>2. CASE opts.privacy # "permissive"
    <3>1. Recorded = {[of |-> Of, conf |-> Confidence(Fact)]}
      BY <1>4, <2>2 DEF Recorded
    <3> QED  BY <3>1
  <2> QED  BY <2>1, <2>2
<1>5. ASSUME Fact = "unique"
      PROVE  \E n \in Recorded : n.of \in {Of, <<t, Of[2], "duplicates">>}
  <2>1. CASE Col(Of[2]).dup
    <3>1. Has(t, Of[2], "duplicates", "exact") \in Recorded
      BY <1>5, <2>1 DEF Recorded
    <3>2. Has(t, Of[2], "duplicates", "exact").of = <<t, Of[2], "duplicates">>
      BY DEF Has
    <3> QED  BY <3>1, <3>2
  <2>2. CASE ~Col(Of[2]).dup
    <3>1. Recorded = {[of |-> Of, conf |-> Confidence(Fact)]}
      BY <1>5, <2>2 DEF Recorded
    <3> QED  BY <3>1
  <2> QED  BY <2>1, <2>2
<1>6. ASSUME Fact = "validated", AllValidated(Of[2])
      PROVE  \E n \in Recorded : n.of = <<t, Of[2], "orphans">>
  <2>1. Has(t, Of[2], "orphans", "exact") \in Recorded
    BY <1>6 DEF Recorded
  <2>2. Has(t, Of[2], "orphans", "exact").of = <<t, Of[2], "orphans">>
    BY DEF Has
  <2> QED  BY <2>1, <2>2
<1> QED  BY <1>3, <1>4, <1>5, <1>6

\* A sequence in place of the first element of another: where the rest of the
\* second, and the first itself, are found.
RestMoves(p, q) ==
  \A j \in DOMAIN q : j # 1 =>
    Len(p) + j - 1 \in DOMAIN (p \o Tail(q)) /\ (p \o Tail(q))[Len(p) + j - 1] = q[j]

ComesFirst(p, q) ==
  \A j \in DOMAIN p : j \in DOMAIN (p \o Tail(q)) /\ (p \o Tail(q))[j] = p[j]

LEMMA InPlace ==
  ASSUME NEW S, NEW p \in Seq(S), NEW q \in Seq(S), q # <<>>
  PROVE  RestMoves(p, q) /\ ComesFirst(p, q)
<1>1. Tail(q) \in Seq(S) /\ Len(Tail(q)) = Len(q) - 1 /\ Len(p) \in Nat /\ Len(q) \in Nat
  OBVIOUS
<1>2. \A j \in 1 .. Len(q) - 1 : Tail(q)[j] = q[j + 1]
  OBVIOUS
<1>3. PICK r \in Seq(S) : r = Tail(q)
  BY <1>1
<1>4. /\ DOMAIN (p \o r) = 1 .. Len(p) + Len(r)
      /\ \A n \in 1 .. Len(p) + Len(r) : (p \o r)[n] = IF n <= Len(p) THEN p[n] ELSE r[n - Len(p)]
  OBVIOUS
<1>5. ASSUME NEW j \in DOMAIN q, j # 1
      PROVE  Len(p) + j - 1 \in DOMAIN (p \o r) /\ (p \o r)[Len(p) + j - 1] = q[j]
  <2>1. j \in 1 .. Len(q) /\ j - 1 \in 1 .. Len(q) - 1
    BY <1>1, <1>5
  <2>2. PICK n : n = Len(p) + j - 1 /\ n \in 1 .. Len(p) + Len(r) /\ ~(n <= Len(p)) /\ n - Len(p) = j - 1
    BY <1>1, <1>3, <2>1
  <2>3. (p \o r)[n] = r[j - 1]
    BY <1>4, <2>2
  <2> QED  BY <1>2, <1>3, <1>4, <2>1, <2>2, <2>3
<1>6. ASSUME NEW j \in DOMAIN p
      PROVE  j \in DOMAIN (p \o r) /\ (p \o r)[j] = p[j]
  BY <1>1, <1>3, <1>4
<1> QED  BY <1>3, <1>5, <1>6 DEF RestMoves, ComesFirst

\* A read that succeeds answers itself, and what it leads to comes in its place.
LEMMA ReadAnswers ==
  ASSUME NEW i, i = t, i \notin dropped, TypeInv, ReadSucceeds
  PROVE  Gains /\ Answers(i)
<1>1. /\ todo \in Seq(Groups) /\ todo # <<>> /\ First.reads # <<>>
      /\ First.guard <=> inside
      /\ UNCHANGED <<db, opts, dropped, stage, t, left, session, warned, exit>>
      /\ facts' = With(facts, Recorded)
      /\ todo' = IF First.guard THEN [todo EXCEPT ![1].reads = Onward(Of[2], Fact) \o Tail(@)] ELSE Tail(todo)
  BY DEF TypeInv, TypeOK, ReadSucceeds, Reading
<1>2. db' = db /\ opts' = opts /\ warned' = warned /\ inside' = inside
  BY <1>1 DEF session
<1>3. Gains
  BY <1>1, <1>2, WithGains DEF Gains
<1>4. PICK cc, ff : cc = Of[2] /\ ff = Fact
  OBVIOUS
<1>5. First = todo[1] /\ 1 \in DOMAIN todo /\ First.reads[1] = <<cc, ff>> /\ Of = <<i, cc, ff>>
  <2>1. First = todo[1] /\ 1 \in DOMAIN todo /\ Head(First.reads) = First.reads[1]
    BY <1>1 DEF First
  <2> QED  BY <1>1, <1>4, <2>1, ReadTyped
<1>6. ~Gone
  BY DEF Gone
<1>7. ASSUME ff \in Sought
      PROVE  Answered(i, cc, ff)'
  <2>1. CASE ff # "unique"
    <3>1. \E n \in Recorded : n.of = <<i, cc, ff>>
      BY <1>4, <1>5, <1>6, <1>7, <2>1, RecordedAnswers
    <3>2. Present(i, cc, ff)'
      BY <1>1, <3>1, WithGains
    <3> QED  BY <3>2 DEF Answered
  <2>2. CASE ff = "unique"
    <3>1. \/ \E n \in Recorded : n.of = <<i, cc, "unique">>
          \/ \E n \in Recorded : n.of = <<i, cc, "duplicates">>
      BY <1>4, <1>5, <1>6, <2>2, RecordedAnswers
    <3>2. Present(i, cc, "unique")' \/ Present(i, cc, "duplicates")'
      BY <1>1, <3>1, WithGains
    <3> QED  BY <2>2, <3>2 DEF Answered
  <2> QED  BY <2>1, <2>2
<1>8. ASSUME ff \in {"fanout", "orphans"}
      PROVE  Present(i, cc, ff)'
  <2>1. \E n \in Recorded : n.of = <<i, cc, ff>>
    BY <1>4, <1>5, <1>6, <1>8, RecordedAnswers
  <2> QED  BY <1>1, <2>1, WithGains
<1>9. ASSUME ff = "validated", AllValidated(cc)
      PROVE  Present(i, cc, "orphans")'
  <2>1. \E n \in Recorded : n.of = <<i, cc, "orphans">>
    BY <1>4, <1>5, <1>6, <1>9, RecordedAnswers
  <2> QED  BY <1>1, <2>1, WithGains
<1>10. CASE ~First.guard
  <2>1. todo' = Tail(todo) /\ ~inside'
    BY <1>1, <1>2, <1>10
  <2>2. ASSUME NEW c, NEW f \in Sought, Pending(c, f), ~Pending(c, f)'
        PROVE  Answered(i, c, f)'
    <3>1. <<c, f>> = <<cc, ff>>
      BY <1>1, <1>5, <1>10, <2>1, <2>2, TailKeeps
    <3> QED  BY <1>7, <2>2, <3>1
  <2>3. \A c : ToSkip(c) => ToSkip(c)'
    BY <1>1, <2>1, TailKeeps
  <2>4. \A c, f : ToMeasure(c, f) => ToMeasure(c, f)'
    BY <1>1, <1>10, <2>1, TailKeeps
  <2> QED  BY <1>3, <2>2, <2>3, <2>4 DEF Answers
<1>11. CASE First.guard
  <2>0. PICK on : on = Onward(cc, ff) /\ on = Onward(Of[2], Fact)
    BY <1>4
  <2>1. todo' = [todo EXCEPT ![1].reads = on \o Tail(@)]
    BY <1>1, <1>11, <2>0
  <2>2. First \in Groups /\ First.reads \in Seq(Reads) /\ on \in Seq(Reads)
    <3>1. First \in Groups /\ Of[2] \in Names
      BY <1>1, ReadTyped
    <3>2. /\ <<FkValidated(cc)>> \in Seq(Reads) /\ <<MeasureOrphanFraction(cc)>> \in Seq(Reads)
          /\ <<>> \in Seq(Reads)
      BY <1>4, <3>1 DEF FkValidated, MeasureOrphanFraction, FactNames, Reads
    <3> QED  BY <2>0, <3>1, <3>2 DEF Onward, Groups, Reads, Names
  <2>3. DOMAIN todo' = DOMAIN todo /\ \A k \in DOMAIN todo : k # 1 => todo'[k] = todo[k]
    BY <2>1
  <2>4. /\ todo'[1].guard = First.guard /\ todo'[1].col = First.col /\ todo'[1].about = First.about
        /\ todo'[1].reads = on \o Tail(First.reads)
    <3>1. todo'[1] = [First EXCEPT !.reads = on \o Tail(First.reads)]
      BY <1>5, <2>1
    <3> QED  BY <2>2, <3>1 DEF Groups
  <2>12. /\ \A j \in DOMAIN First.reads : j # 1 =>
              /\ Len(on) + j - 1 \in DOMAIN (on \o Tail(First.reads))
              /\ (on \o Tail(First.reads))[Len(on) + j - 1] = First.reads[j]
         /\ \A j \in DOMAIN on :
              j \in DOMAIN (on \o Tail(First.reads)) /\ (on \o Tail(First.reads))[j] = on[j]
    <3>1. First.reads \in Seq(Reads) /\ First.reads # <<>> /\ on \in Seq(Reads)
      BY <1>1, <2>2
    <3>2. RestMoves(on, First.reads) /\ ComesFirst(on, First.reads)
      BY <3>1, InPlace
    <3> QED  BY <3>2 DEF RestMoves, ComesFirst
  <2>5. ASSUME NEW j \in DOMAIN First.reads, j # 1
        PROVE  /\ Len(on) + j - 1 \in DOMAIN todo'[1].reads
               /\ todo'[1].reads[Len(on) + j - 1] = First.reads[j]
    BY <2>4, <2>5, <2>12
  <2>6. ASSUME NEW x, on = <<x>>
        PROVE  1 \in DOMAIN todo'[1].reads /\ todo'[1].reads[1] = x
    <3>1. 1 \in DOMAIN on /\ on[1] = x
      BY <2>6
    <3> QED  BY <2>4, <2>12, <3>1
  <2>7. ASSUME NEW c, NEW f \in Sought, Pending(c, f)
        PROVE  Pending(c, f)' \/ Answered(i, c, f)'
    <3>1. PICK k \in DOMAIN todo : \E j \in DOMAIN todo[k].reads :
            /\ todo[k].reads[j] = <<c, f>>
            /\ IF todo[k].guard THEN todo[k].col = c /\ f \in Accounts(todo[k].about) \ Certain ELSE j = 1
      BY <2>7 DEF Pending
    <3>2. CASE k # 1
      BY <2>3, <3>1, <3>2 DEF Pending
    <3>3. CASE k = 1
      <4>1. PICK j \in DOMAIN First.reads :
              First.reads[j] = <<c, f>> /\ First.col = c /\ f \in Accounts(First.about) \ Certain
        BY <1>5, <1>11, <3>1, <3>3
      <4>2. CASE j = 1
        <5>1. c = cc /\ f = ff
          BY <1>5, <4>1, <4>2
        <5> QED  BY <1>7, <2>7, <5>1
      <4>3. CASE j # 1
        <5>1. PICK m : m = Len(on) + j - 1 /\ m \in DOMAIN todo'[1].reads /\ todo'[1].reads[m] = <<c, f>>
          BY <2>5, <4>1, <4>3
        <5>2. 1 \in DOMAIN todo'
          BY <1>5, <2>3
        <5> QED  BY <1>11, <2>4, <4>1, <5>1, <5>2 DEF Pending
      <4> QED  BY <4>2, <4>3
    <3> QED  BY <3>2, <3>3
  <2>8. ASSUME NEW c, ToSkip(c)
        PROVE  ToSkip(c)'
    <3>1. PICK k \in DOMAIN todo :
            todo[k].about = "unique" /\ todo[k].reads = <<>> /\ todo[k].col = c
      BY <2>8 DEF ToSkip
    <3>2. k # 1
      BY <1>1, <1>5, <3>1
    <3> QED  BY <2>3, <3>1, <3>2 DEF ToSkip
  <2>9. ASSUME NEW c, NEW f \in {"fanout", "orphans"}, ToMeasure(c, f)
        PROVE  ToMeasure(c, f)' \/ Present(i, c, f)'
    <3>1. PICK k \in DOMAIN todo :
            /\ todo[k].guard /\ todo[k].col = Whole /\ todo[k].about = "references"
            /\ \E j \in DOMAIN todo[k].reads : todo[k].reads[j] \in Leads(c, f)
      BY <2>9 DEF ToMeasure
    <3>2. CASE k # 1
      BY <2>3, <3>1, <3>2 DEF ToMeasure, Leads
    <3>3. CASE k = 1
      <4>1. ASSUME NEW m \in DOMAIN todo'[1].reads, todo'[1].reads[m] \in Leads(c, f)
            PROVE  ToMeasure(c, f)'
        <5>1. 1 \in DOMAIN todo'
          BY <1>5, <2>3
        <5> QED  BY <1>5, <2>4, <3>1, <3>3, <4>1, <5>1 DEF ToMeasure, Leads
      <4>2. PICK j \in DOMAIN First.reads : First.reads[j] \in Leads(c, f)
        BY <1>5, <3>1, <3>3
      <4>3. CASE j # 1
        <5>1. PICK m : m = Len(on) + j - 1 /\ m \in DOMAIN todo'[1].reads /\ todo'[1].reads[m] \in Leads(c, f)
          BY <2>5, <4>2, <4>3
        <5> QED  BY <4>1, <5>1
      <4>4. CASE j = 1
        <5>1. <<cc, ff>> \in Leads(c, f)
          BY <1>5, <4>2, <4>4
        <5>2. cc = c /\ (ff = f \/ (f = "orphans" /\ ff \in {"fanout", "validated"}))
          BY <2>9, <5>1 DEF Leads
        <5>3. CASE ff = f
          BY <1>8, <2>9, <5>2, <5>3
        <5>4. CASE f = "orphans" /\ ff = "fanout"
          <6>1. on = <<<<c, "validated">>>>
            BY <2>0, <5>2, <5>4 DEF Onward, FkValidated
          <6>2. <<c, "validated">> \in Leads(c, f)
            BY <5>4 DEF Leads
          <6> QED  BY <2>6, <4>1, <6>1, <6>2
        <5>5. CASE f = "orphans" /\ ff = "validated" /\ AllValidated(cc)
          BY <1>9, <5>2, <5>5
        <5>6. CASE f = "orphans" /\ ff = "validated" /\ ~AllValidated(cc)
          <6>1. on = <<<<c, "orphans">>>>
            BY <2>0, <5>2, <5>6 DEF Onward, MeasureOrphanFraction
          <6>2. <<c, "orphans">> \in Leads(c, f)
            BY <5>6 DEF Leads
          <6> QED  BY <2>6, <4>1, <6>1, <6>2
        <5> QED  BY <5>2, <5>3, <5>4, <5>5, <5>6
      <4> QED  BY <4>3, <4>4
    <3> QED  BY <3>2, <3>3
  <2>10. \A c, f : Pending(c, f) /\ f \in Sought => Pending(c, f)' \/ Answered(i, c, f)'
    BY <2>7
  <2>11. \A c : \A f \in {"fanout", "orphans"} : ToMeasure(c, f) => ToMeasure(c, f)' \/ Present(i, c, f)'
    BY <2>9
  <2> QED  BY <1>3, <2>8, <2>10, <2>11 DEF Answers
<1> QED  BY <1>3, <1>10, <1>11

\* Nothing in s is a sample.
Sampleless(s) == \A k \in DOMAIN s : s[k].about \notin {"format", "shape"}

LEMMA Joined ==
  ASSUME NEW p \in Seq(Groups), NEW q \in Seq(Groups)
  PROVE  /\ p \o q \in Seq(Groups)
         /\ \A k \in DOMAIN p : k \in DOMAIN (p \o q) /\ (p \o q)[k] = p[k]
         /\ \A k \in DOMAIN q : Len(p) + k \in DOMAIN (p \o q) /\ (p \o q)[Len(p) + k] = q[k]
         /\ \A k \in DOMAIN (p \o q) :
              \/ k \in DOMAIN p /\ (p \o q)[k] = p[k]
              \/ k - Len(p) \in DOMAIN q /\ k > Len(p) /\ (p \o q)[k] = q[k - Len(p)]
         /\ Sampleless(p) /\ Sampleless(q) => Sampleless(p \o q)
<1>1. p \o q \in Seq(Groups) /\ Len(p) \in Nat /\ Len(q) \in Nat
  OBVIOUS
<1>2. /\ DOMAIN (p \o q) = 1 .. Len(p) + Len(q)
      /\ \A n \in 1 .. Len(p) + Len(q) : (p \o q)[n] = IF n <= Len(p) THEN p[n] ELSE q[n - Len(p)]
  OBVIOUS
<1>3. ASSUME NEW k \in DOMAIN p
      PROVE  k \in DOMAIN (p \o q) /\ (p \o q)[k] = p[k]
  BY <1>1, <1>2
<1>4. ASSUME NEW k \in DOMAIN q
      PROVE  Len(p) + k \in DOMAIN (p \o q) /\ (p \o q)[Len(p) + k] = q[k]
  <2>1. PICK n : n = Len(p) + k /\ n \in 1 .. Len(p) + Len(q) /\ ~(n <= Len(p)) /\ n - Len(p) = k
    BY <1>1
  <2> QED  BY <1>2, <2>1
<1>5. ASSUME NEW k \in DOMAIN (p \o q)
      PROVE  \/ k \in DOMAIN p /\ (p \o q)[k] = p[k]
             \/ k - Len(p) \in DOMAIN q /\ k > Len(p) /\ (p \o q)[k] = q[k - Len(p)]
  BY <1>1, <1>2
<1>6. ASSUME Sampleless(p), Sampleless(q)
      PROVE  Sampleless(p \o q)
  BY <1>5, <1>6 DEF Sampleless
<1> QED  BY <1>1, <1>3, <1>4, <1>5, <1>6

LEMMA JoinedHolds ==
  ASSUME NEW p \in Seq(Groups), NEW q \in Seq(Groups)
  PROVE  /\ \A k \in DOMAIN p : \E m \in DOMAIN (p \o q) : (p \o q)[m] = p[k]
         /\ \A k \in DOMAIN q : \E m \in DOMAIN (p \o q) : (p \o q)[m] = q[k]
<1>1. ASSUME NEW k \in DOMAIN q
      PROVE  \E m \in DOMAIN (p \o q) : (p \o q)[m] = q[k]
  <2>1. Len(p) + k \in DOMAIN (p \o q) /\ (p \o q)[Len(p) + k] = q[k]
    BY Joined
  <2> QED  BY <2>1
<1> QED  BY <1>1, Joined

\* What the plans of the catalog hold.
LEMMA CatalogPlans ==
  /\ Sampleless(<<Catalog("limits"), Engine, ListTables>>)
  /\ Sampleless(ReadTable \o TableReads)
  /\ Sampleless(<<UserTypes, Extensions>>)
  /\ Sampleless(MeasurePartitions)
  /\ \A f \in {"columns", "references"} :
       \E k \in DOMAIN (ReadTable \o TableReads) : (ReadTable \o TableReads)[k] = Catalog(f)
  /\ \A f \in {"strategy", "skew", "key", "total_bytes"} :
       \E k \in DOMAIN MeasurePartitions : MeasurePartitions[k] = Catalog(f)
<1>1. ASSUME NEW f
      PROVE  Catalog(f).about = f
  BY DEF Catalog, Group
<1>2. /\ Sampleless(<<Catalog("limits"), Engine, ListTables>>)
      /\ Sampleless(<<UserTypes, Extensions>>)
      /\ Sampleless(MeasurePartitions)
  BY <1>1 DEF Sampleless, Engine, ListTables, UserTypes, Extensions, MeasurePartitions, PartitionStrategy,
              PartitionCountSkew, PartitionKey, PartitionTotalRows, PartitionTotalBytes
<1>3. ReadTable \in Seq(Groups) /\ TableReads \in Seq(Groups)
  <2>1. ASSUME NEW f \in FactNames
        PROVE  Catalog(f) \in Groups
    BY SingleTyped DEF Catalog, Names
  <2>2. /\ ReadColumns \in Groups /\ ReadConstraints \in Groups /\ ReadIndexes \in Groups
        /\ ReadReferences \in Groups /\ ColumnStats \in Groups /\ ExactRowCount \in Groups
    BY <2>1 DEF FactNames, ReadColumns, ReadConstraints, ReadIndexes, ReadReferences, ColumnStats,
                ExactRowCount
  <2> QED  BY <2>2 DEF ReadTable, TableReads
<1>4. Sampleless(ReadTable)
  BY <1>1 DEF Sampleless, ReadTable, ReadColumns, ReadConstraints, ReadIndexes, ReadReferences
<1>5. Sampleless(TableReads)
  <2>1. /\ <<ColumnStats>> \in Seq(Groups) /\ <<ExactRowCount>> \in Seq(Groups) /\ <<>> \in Seq(Groups)
    <3>1. "stats" \in FactNames /\ "rows" \in FactNames
      BY DEF FactNames
    <3>2. ColumnStats \in Groups /\ ExactRowCount \in Groups
      BY <3>1, SingleTyped DEF Catalog, Names, ColumnStats, ExactRowCount
    <3> QED  BY <3>2, OneTyped
  <2>2. Sampleless(<<ColumnStats>>) /\ Sampleless(<<ExactRowCount>>) /\ Sampleless(<<>>)
    BY <1>1 DEF Sampleless, ColumnStats, ExactRowCount
  <2>3. PICK q : q = IF opts.exact THEN <<ExactRowCount>> ELSE <<>>
    OBVIOUS
  <2>4. q \in Seq(Groups) /\ Sampleless(q)
    BY <2>1, <2>2, <2>3
  <2>5. TableReads = <<ColumnStats>> \o q
    BY <2>3 DEF TableReads
  <2> QED  BY <2>1, <2>2, <2>4, <2>5, Joined
<1>6. ReadTable[1] = Catalog("columns") /\ ReadTable[4] = Catalog("references") /\ {1, 4} \subseteq DOMAIN ReadTable
  BY DEF ReadTable, ReadColumns, ReadReferences
<1>7. \A k \in DOMAIN ReadTable : k \in DOMAIN (ReadTable \o TableReads) /\ (ReadTable \o TableReads)[k] = ReadTable[k]
  BY <1>3, Joined
<1>8. \A f \in {"strategy", "skew", "key", "total_bytes"} :
        \E k \in DOMAIN MeasurePartitions : MeasurePartitions[k] = Catalog(f)
  <2>1. /\ DOMAIN MeasurePartitions = 1 .. 5
        /\ MeasurePartitions[1] = Catalog("strategy") /\ MeasurePartitions[2] = Catalog("skew")
        /\ MeasurePartitions[3] = Catalog("key") /\ MeasurePartitions[5] = Catalog("total_bytes")
    BY DEF MeasurePartitions, PartitionStrategy, PartitionCountSkew, PartitionKey, PartitionTotalRows,
           PartitionTotalBytes
  <2> QED  BY <2>1
<1> QED  BY <1>2, <1>3, <1>4, <1>5, <1>6, <1>7, <1>8, Joined

\* A read of the catalog that is planned is one that is to be made.
LEMMA CatalogPending ==
  ASSUME NEW f, NEW k \in DOMAIN todo', todo'[k] = Catalog(f)
  PROVE  Pending(Whole, f)'
<1>1. PICK g : g = Catalog(f)
  OBVIOUS
<1>2. ~g.guard /\ g.reads = <<<<Whole, f>>>>
  BY <1>1 DEF Catalog, Group
<1>3. 1 \in DOMAIN g.reads /\ g.reads[1] = <<Whole, f>>
  BY <1>2
<1> QED  BY <1>1, <1>2, <1>3 DEF Pending

\* The next table, or the end of them, when those behind are told.
LEMMA NextTableKeeps ==
  ASSUME NEW j \in 1 .. Len(db) + 1, TypeInv, NextTable(j), Gains, dropped' = dropped,
         \A i \in 1 .. Len(db) \ dropped : i < j => AllTold(i)
  PROVE  Planned' /\ BehindTold' /\ HereDue'
<1>1. Len(db) \in Nat /\ db' = db
  BY DatabasesAssumption DEF TypeInv, TypeOK, Gains
<1>2. /\ t' = j /\ left' = {}
      /\ \/ stage' = "structure" /\ todo' = ReadTable \o TableReads
         \/ stage' = "types" /\ todo' = <<UserTypes, Extensions>> /\ j = Len(db) + 1
  <2>1. CASE j > Len(db)
    BY <1>1, <2>1 DEF NextTable, Goto
  <2>2. CASE ~(j > Len(db))
    BY <2>2 DEF NextTable, Goto
  <2> QED  BY <2>1, <2>2
<1>3. Sampleless(todo')
  BY <1>2, CatalogPlans
<1>4. Planned'
  BY <1>1, <1>2, <1>3 DEF Planned, Sampleless
<1>5. BehindTold'
  BY <1>1, <1>2, ToldStays DEF BehindTold
<1>6. ASSUME NEW i, stage' = "structure"
      PROVE  CatalogDue(i)'
  <2>1. \A f \in {"columns", "references"} : \E k \in DOMAIN todo' : todo'[k] = Catalog(f)
    BY <1>2, <1>6, CatalogPlans
  <2>2. \A f \in {"columns", "references"} : Pending(Whole, f)'
    BY <2>1, CatalogPending
  <2> QED  BY <2>2 DEF CatalogDue
<1>7. HereDue'
  BY <1>2, <1>6 DEF HereDue
<1> QED  BY <1>4, <1>5, <1>7

\* What is planned for a column: the reads of its category, of which a sample is alone,
\* and what says whether it is unique.
LEMMA ByCategoryPlan ==
  ASSUME NEW c
  PROVE  /\ \A f \in WantedOf(t, c) : \E k \in DOMAIN ByCategory(c) : ByCategory(c)[k] = Guarded(c, f)
         /\ \A k \in DOMAIN ByCategory(c) :
              /\ ByCategory(c)[k].col = c
              /\ ByCategory(c)[k].about \in {"format", "shape"} => DOMAIN ByCategory(c) = {1}
<1> DEFINE cat == Col(c).cat
<1>1. cat = db[t].cols[c].cat
  BY DEF Col, Table
<1>2. ASSUME NEW f
      PROVE  Guarded(c, f).about = f /\ Guarded(c, f).col = c
  BY DEF Guarded, Group
<1>3. CASE cat = "numeric"
  <2>1. ByCategory(c) = <<Guarded(c, "range"), Guarded(c, "histogram")>>
    BY <1>3 DEF ByCategory, RangeStat, MeasureHistogram
  <2>2. WantedOf(t, c) = {"range", "histogram"}
    BY <1>1, <1>3 DEF WantedOf
  <2> QED  BY <1>2, <2>1, <2>2
<1>4. CASE cat = "temporal"
  <2>1. ByCategory(c) = <<Guarded(c, "range")>>
    BY <1>4 DEF ByCategory, RangeStat
  <2>2. WantedOf(t, c) = {"range"}
    BY <1>1, <1>4 DEF WantedOf
  <2> QED  BY <1>2, <2>1, <2>2
<1>5. CASE cat = "text"
  <2>1. ByCategory(c) = <<Guarded(c, "format")>>
    BY <1>5 DEF ByCategory, ValueSample
  <2>2. WantedOf(t, c) = {"format"}
    BY <1>1, <1>5 DEF WantedOf
  <2> QED  BY <1>2, <2>1, <2>2
<1>6. CASE cat = "bytea"
  <2>1. ByCategory(c) = <<Guarded(c, "length")>>
    BY <1>6 DEF ByCategory, ByteaLengthStat
  <2>2. WantedOf(t, c) = {"length"}
    BY <1>1, <1>6 DEF WantedOf
  <2> QED  BY <1>2, <2>1, <2>2
<1>7. CASE cat = "json"
  <2>1. ByCategory(c) = <<Guarded(c, "shape")>>
    BY <1>7 DEF ByCategory, ValueSample
  <2>2. WantedOf(t, c) = {"shape"}
    BY <1>1, <1>7 DEF WantedOf
  <2> QED  BY <1>2, <2>1, <2>2
<1>8. CASE cat \notin {"numeric", "temporal", "text", "bytea", "json"}
  <2>1. ByCategory(c) = <<>> /\ WantedOf(t, c) = {}
    BY <1>1, <1>8 DEF ByCategory, WantedOf
  <2> QED  BY <2>1
<1> QED  BY <1>3, <1>4, <1>5, <1>6, <1>7, <1>8

LEMMA UniquenessPlan ==
  ASSUME NEW c
  PROVE  /\ \A k \in DOMAIN Uniqueness(c) :
              LET g == Uniqueness(c)[k] IN g.guard /\ g.col = c /\ g.about = "unique"
         /\ UniqueWanted(t, c) /\ c \notin ProvenUnique =>
              \E k \in DOMAIN Uniqueness(c) :
                LET g == Uniqueness(c)[k] IN
                  g.reads = <<>> \/ \E j \in DOMAIN g.reads : g.reads[j] = <<c, "unique">>
<1>1. db[t].cols[c].stats = Col(c).stats
  BY DEF Col, Table
<1>2. PICK g : g = Group(TRUE, c, "unique", <<ProbeUniqueExistence(c)>>)
  OBVIOUS
<1>3. /\ g.guard /\ g.col = c /\ g.about = "unique"
      /\ 1 \in DOMAIN g.reads /\ g.reads[1] = <<c, "unique">>
  BY <1>2 DEF Group, ProbeUniqueExistence
<1>4. PICK h : h = EscalateColumn(c)
  OBVIOUS
<1>5. /\ h.guard /\ h.col = c /\ h.about = "unique"
      /\ 2 \in DOMAIN h.reads /\ h.reads[2] = <<c, "unique">>
  BY <1>4 DEF EscalateColumn, Group, ProbeUniqueExistence
<1>6. PICK o : o = OverCap(c)
  OBVIOUS
<1>7. o.guard /\ o.col = c /\ o.about = "unique" /\ o.reads = <<>>
  BY <1>6 DEF OverCap, Group
<1>8. CASE opts.exact
  <2>1. Uniqueness(c) = IF c \in ProvenUnique THEN <<>> ELSE <<g>>
    BY <1>2, <1>8 DEF Uniqueness
  <2> QED  BY <1>3, <2>1
<1>9. CASE ~opts.exact /\ ~ShouldEscalate(c)
  <2>1. Uniqueness(c) = <<>>
    BY <1>9 DEF Uniqueness
  <2>2. ~(UniqueWanted(t, c) /\ c \notin ProvenUnique)
    BY <1>1, <1>9 DEF ShouldEscalate, UniqueWanted
  <2> QED  BY <2>1, <2>2
<1>10. CASE ~opts.exact /\ ShouldEscalate(c)
  <2>1. Uniqueness(c) = <<o>> \/ Uniqueness(c) = <<h>>
    BY <1>4, <1>6, <1>10 DEF Uniqueness
  <2> QED  BY <1>5, <1>7, <2>1
<1> QED  BY <1>8, <1>9, <1>10

LEMMA ExactPlan ==
  ASSUME NEW c \in Names
  PROVE  /\ Sampleless(ExactColumn(c))
         /\ \E k \in DOMAIN ExactColumn(c) : ExactColumn(c)[k] = Full(c, "distinct")
<1>1. PICK p : p = IF Col(c).nullable THEN <<Full(c, "null_fraction")>> ELSE <<>>
  OBVIOUS
<1>2. PICK q : q = <<Full(c, "distinct")>>
  OBVIOUS
<1>3. ExactColumn(c) = p \o q
  BY <1>1, <1>2 DEF ExactColumn, ExactNullFraction, Full, HllDistinct
<1>4. "null_fraction" \in FactNames /\ "distinct" \in FactNames
  BY DEF FactNames
<1>5. Full(c, "null_fraction") \in Groups /\ Full(c, "distinct") \in Groups
  BY <1>4, SingleTyped DEF Full
<1>6. p \in Seq(Groups) /\ q \in Seq(Groups)
  BY <1>1, <1>2, <1>5, OneTyped
<1>7. Full(c, "null_fraction").about = "null_fraction" /\ Full(c, "distinct").about = "distinct"
  BY DEF Full, Group
<1>8. Sampleless(p) /\ Sampleless(q)
  BY <1>1, <1>2, <1>7 DEF Sampleless
<1>9. 1 \in DOMAIN q /\ q[1] = Full(c, "distinct")
  BY <1>2
<1> QED  BY <1>3, <1>6, <1>8, <1>9, Joined, JoinedHolds

\* What a pull sets out to say of a column it plans to read, or has from the statistics.
LEMMA ProfilePlans ==
  ASSUME NEW i, i = t, NEW c \in Cols, TypeInv, HereDue, ProfileColumn(c)
  PROVE  /\ Gains
         /\ i \in 1 .. Len(db) \ dropped => ColumnDue(i, c)'
         /\ \A k, m \in DOMAIN todo' :
              todo'[k].about \in {"format", "shape"} /\ k < m =>
                todo'[m].guard /\ todo'[m].col = todo'[k].col /\ todo'[m].about = "unique"
<1>1. /\ stage = "column" /\ todo = <<>> /\ ~inside' /\ db' = db /\ opts' = opts /\ warned' = warned
      /\ t' = t /\ c \in Names
  BY DEF ProfileColumn, Between, Goto, session, Names
<1>2. PICK p, q, r : /\ p = IF opts.exact THEN ExactColumn(c) ELSE <<>>
                     /\ q = ByCategory(c) /\ r = Uniqueness(c)
  OBVIOUS
<1>3. todo' = (p \o q) \o r
  BY <1>2 DEF ProfileColumn, Goto
<1>4. p \in Seq(Groups) /\ q \in Seq(Groups) /\ r \in Seq(Groups) /\ p \o q \in Seq(Groups)
  <2>1. p \in Seq(Groups) /\ q \in Seq(Groups) /\ r \in Seq(Groups)
    BY <1>1, <1>2, ColumnPlanTyped
  <2> QED  BY <2>1
<1>5. /\ \A k \in DOMAIN p : \E m \in DOMAIN todo' : todo'[m] = p[k]
      /\ \A k \in DOMAIN q : \E m \in DOMAIN todo' : todo'[m] = q[k]
      /\ \A k \in DOMAIN r : \E m \in DOMAIN todo' : todo'[m] = r[k]
  <2>1. /\ \A k \in DOMAIN p : \E m \in DOMAIN (p \o q) : (p \o q)[m] = p[k]
        /\ \A k \in DOMAIN q : \E m \in DOMAIN (p \o q) : (p \o q)[m] = q[k]
    BY <1>4, JoinedHolds
  <2>2. PICK s \in Seq(Groups) : s = p \o q
    BY <1>4
  <2>3. /\ \A k \in DOMAIN s : \E m \in DOMAIN (s \o r) : (s \o r)[m] = s[k]
        /\ \A k \in DOMAIN r : \E m \in DOMAIN (s \o r) : (s \o r)[m] = r[k]
    BY <1>4, JoinedHolds
  <2>4. todo' = s \o r
    BY <1>3, <2>2
  <2>5. \A k \in DOMAIN s : \E m \in DOMAIN todo' : todo'[m] = s[k]
    BY <2>3, <2>4
  <2>6. \A k \in DOMAIN r : \E m \in DOMAIN todo' : todo'[m] = r[k]
    BY <2>3, <2>4
  <2>7. /\ \A k \in DOMAIN p : \E m \in DOMAIN s : s[m] = p[k]
        /\ \A k \in DOMAIN q : \E m \in DOMAIN s : s[m] = q[k]
    BY <2>1, <2>2
  <2> QED  BY <2>5, <2>6, <2>7
<1>6. Gains
  <2>1. CASE opts.exact
    BY <1>1, <2>1 DEF Gains, ProfileColumn, Present
  <2>2. CASE ~opts.exact
    <3>1. facts' = With(facts, FromStats(c))
      BY <2>2 DEF ProfileColumn
    <3> QED  BY <1>1, <3>1, WithGains DEF Gains
  <2> QED  BY <2>1, <2>2
<1>7. ASSUME NEW f \in WantedOf(i, c)
      PROVE  Pending(c, f)'
  <2>1. PICK g : g = Guarded(c, f)
    OBVIOUS
  <2>2. \E k \in DOMAIN q : q[k] = g
    BY <1>2, <1>7, <2>1, ByCategoryPlan
  <2>3. \E m \in DOMAIN todo' : todo'[m] = g
    BY <1>5, <2>2
  <2>4. g.guard /\ g.col = c /\ g.about = f /\ 1 \in DOMAIN g.reads /\ g.reads[1] = <<c, f>>
    BY <2>1 DEF Guarded, Group
  <2>5. f \in Accounts(f) \ Certain
    BY <1>7, WantedSought DEF Accounts, Certain
  <2> QED  BY <2>3, <2>4, <2>5 DEF Pending
<1>8. ASSUME i \in 1 .. Len(db) \ dropped, UniqueWanted(i, c), Unsettled(i, c)'
      PROVE  Pending(c, "unique")' \/ ToSkip(c)'
  <2>1. c \notin ProvenUnique
    <3>1. ~Present(i, c, "unique")
      BY <1>6, <1>8 DEF Unsettled, Gains
    <3> QED  BY <1>1, <1>8, <3>1 DEF HereDue
  <2>2. PICK g : /\ \E k \in DOMAIN r : r[k] = g
                 /\ g.reads = <<>> \/ \E j \in DOMAIN g.reads : g.reads[j] = <<c, "unique">>
    <3>1. UniqueWanted(t, c) /\ c \notin ProvenUnique
      BY <1>8, <2>1
    <3>2. \E k \in DOMAIN Uniqueness(c) :
            LET g == Uniqueness(c)[k] IN g.reads = <<>> \/ \E j \in DOMAIN g.reads : g.reads[j] = <<c, "unique">>
      BY ONLY <3>1, UniquenessPlan, Zenon
    <3> QED  BY ONLY <1>2, <3>2, Zenon
  <2>3. g.guard /\ g.col = c /\ g.about = "unique"
    BY <1>2, <2>2, UniquenessPlan
  <2>4. PICK m \in DOMAIN todo' : todo'[m] = g
    BY <1>5, <2>2
  <2>5. CASE g.reads = <<>>
    BY <1>1, <2>3, <2>4, <2>5 DEF ToSkip
  <2>6. CASE \E j \in DOMAIN g.reads : g.reads[j] = <<c, "unique">>
    BY <2>3, <2>4, <2>6 DEF Pending, Accounts, Certain
  <2> QED  BY <2>2, <2>5, <2>6
<1>9. ASSUME opts.exact \/ db[i].cols[c].stats # "none"
      PROVE  Present(i, c, "distinct")' \/ Pending(c, "distinct")'
  <2>1. CASE opts.exact
    <3>1. PICK g : g = Full(c, "distinct")
      OBVIOUS
    <3>2. \E k \in DOMAIN p : p[k] = g
      BY <1>1, <1>2, <2>1, <3>1, ExactPlan
    <3>3. ~g.guard /\ 1 \in DOMAIN g.reads /\ g.reads[1] = <<c, "distinct">>
      BY <3>1 DEF Full, Group
    <3> QED  BY <1>5, <3>2, <3>3 DEF Pending
  <2>2. CASE ~opts.exact
    <3>1. facts' = With(facts, FromStats(c))
      BY <2>2 DEF ProfileColumn
    <3>2. Has(t, c, "distinct", "estimated") \in FromStats(c)
      BY <1>9, <2>2 DEF FromStats, Col, Table
    <3>3. Has(t, c, "distinct", "estimated").of = <<i, c, "distinct">>
      BY DEF Has
    <3>4. Present(i, c, "distinct")'
      BY <3>1, <3>2, <3>3, WithGains
    <3> QED  BY <3>4
  <2> QED  BY <2>1, <2>2
<1>10. ASSUME i \in 1 .. Len(db) \ dropped
       PROVE  ColumnDue(i, c)'
  <2>1. /\ WantedOf(i, c)' = WantedOf(i, c) /\ UniqueWanted(i, c)' = UniqueWanted(i, c)
        /\ opts' = opts /\ db' = db
    BY <1>1 DEF WantedOf, UniqueWanted
  <2> QED  BY <1>7, <1>8, <1>9, <1>10, <2>1 DEF ColumnDue
<1>11. ASSUME NEW k \in DOMAIN todo', NEW m \in DOMAIN todo',
              todo'[k].about \in {"format", "shape"}, k < m
       PROVE  todo'[m].guard /\ todo'[m].col = todo'[k].col /\ todo'[m].about = "unique"
  <2>1. Sampleless(p)
    <3>1. Sampleless(<<>>)
      BY DEF Sampleless
    <3> QED  BY <1>1, <1>2, <3>1, ExactPlan
  <2>2. /\ \A n \in DOMAIN r : r[n].guard /\ r[n].col = c /\ r[n].about = "unique"
        /\ \A n \in DOMAIN q : q[n].about \in {"format", "shape"} => DOMAIN q = {1}
    BY <1>2, UniquenessPlan, ByCategoryPlan
  <2>3. Len(p) \in Nat /\ Len(q) \in Nat /\ Len(p \o q) = Len(p) + Len(q)
    BY <1>4
  <2>4. \/ k \in DOMAIN (p \o q) /\ todo'[k] = (p \o q)[k]
        \/ k - Len(p \o q) \in DOMAIN r /\ todo'[k] = r[k - Len(p \o q)]
    BY <1>3, <1>4, Joined
  <2>5. k \in DOMAIN (p \o q) /\ todo'[k] = (p \o q)[k]
    BY <1>11, <2>2, <2>4
  <2>6. k - Len(p) \in DOMAIN q /\ todo'[k] = q[k - Len(p)]
    <3>1. \/ k \in DOMAIN p /\ (p \o q)[k] = p[k]
          \/ k - Len(p) \in DOMAIN q /\ (p \o q)[k] = q[k - Len(p)]
      BY <1>4, <2>5, Joined
    <3> QED  BY <1>11, <2>1, <2>5, <3>1 DEF Sampleless
  <2>7. DOMAIN q = {1} /\ q[1].col = c
    <3>1. DOMAIN q = {1}
      BY <1>11, <2>2, <2>6
    <3> QED  BY <1>2, <3>1, ByCategoryPlan
  <2>8. m - Len(p \o q) \in DOMAIN r /\ todo'[m] = r[m - Len(p \o q)]
    <3>1. m > Len(p) + 1 /\ Len(q) = 1
      <4>1. k - Len(p) = 1 /\ Len(q) = 1
        BY <1>4, <2>3, <2>6, <2>7
      <4>2. k \in Nat /\ m \in Nat
        BY <1>3, <1>4, <1>11
      <4> QED  BY <1>11, <2>3, <4>1, <4>2
    <3>2. m \notin DOMAIN (p \o q)
      BY <1>4, <2>3, <3>1
    <3> QED  BY <1>3, <1>4, <3>2, Joined
  <2> QED  BY <2>2, <2>6, <2>7, <2>8
<1> QED  BY <1>6, <1>10, <1>11

LEMMA SameKeys ==
  ASSUME db' = db, t' = t
  PROVE  ProvenUnique' = ProvenUnique
<1>1. Table' = Table
  BY DEF Table
<1>2. \A kind : Read(kind)' = Read(kind)
  BY <1>1 DEF Read
<1> QED  BY <1>1, <1>2 DEF ProvenUnique

\* What is planned keeps its order when the first of it goes, or is read from.
LEMMA PlannedStays ==
  ASSUME Planned, stage' = stage, t' = t, left' = left, db' = db, NEW d \in {0, 1}, todo' \in Seq(Groups),
         \A k \in DOMAIN todo' :
           /\ k + d \in DOMAIN todo
           /\ todo'[k].guard = todo[k + d].guard /\ todo'[k].col = todo[k + d].col
           /\ todo'[k].about = todo[k + d].about
  PROVE  Planned'
<1>1. ASSUME NEW k \in DOMAIN todo', NEW m \in DOMAIN todo',
             todo'[k].about \in {"format", "shape"}, k < m
      PROVE  todo'[m].guard /\ todo'[m].col = todo'[k].col /\ todo'[m].about = "unique"
  <2>1. k + d \in DOMAIN todo /\ m + d \in DOMAIN todo /\ k + d < m + d
    BY <1>1
  <2> QED  BY <1>1, <2>1 DEF Planned
<1>2. ASSUME stage = "references", NEW k \in DOMAIN todo'
      PROVE  todo'[k].about = "references" /\ todo'[k].col = Whole
  BY <1>2 DEF Planned
<1> QED  BY <1>1, <1>2 DEF Planned

\* A step within a stage that answers what it takes away.
LEMMA StageKeeps ==
  ASSUME BehindTold, HereDue, stage' = stage, t' = t, left' = left, Gains, dropped \subseteq dropped',
         \A i \in 1 .. Len(db) \ dropped' : i = t => Answers(i)
  PROVE  BehindTold' /\ HereDue'
<1>1. db' = db
  BY DEF Gains
<1>2. BehindTold'
  BY <1>1, ToldStays DEF BehindTold
<1>3. ASSUME NEW i \in 1 .. Len(db) \ dropped', i = t
      PROVE  /\ stage = "structure" => CatalogDue(i)'
             /\ stage = "column" =>
                  Present(i, Whole, "references")' /\ \A c \in ProvenUnique' : Present(i, c, "unique")'
             /\ stage \in {"column", "references", "partitions"} =>
                  \A c \in DOMAIN db[i].cols \ left : ColumnDue(i, c)'
             /\ stage \in {"references", "partitions"} => ReferencesDue(i)'
             /\ stage = "partitions" => PartitionsDue(i)'
  <2>1. i \in 1 .. Len(db) \ dropped /\ Answers(i)
    BY <1>3
  <2>2. stage = "column" =>
          Present(i, Whole, "references")' /\ \A c \in ProvenUnique' : Present(i, c, "unique")'
    BY <1>1, <1>3, <2>1, SameKeys DEF HereDue, Gains
  <2>3. stage = "structure" => CatalogDue(i)'
    BY <1>3, <2>1, DueStays DEF HereDue
  <2>4. stage \in {"column", "references", "partitions"} =>
          \A c \in DOMAIN db[i].cols \ left : ColumnDue(i, c)'
    BY <1>3, <2>1, DueStays DEF HereDue
  <2>5. stage \in {"references", "partitions"} => ReferencesDue(i)'
    BY <1>3, <2>1, DueStays DEF HereDue
  <2>6. stage = "partitions" => PartitionsDue(i)'
    BY <1>3, <2>1, DueStays DEF HereDue
  <2> QED  BY <2>2, <2>3, <2>4, <2>5, <2>6
<1>4. HereDue'
  BY <1>1, <1>3 DEF HereDue
<1> QED  BY <1>2, <1>4

\* The stages of a table, one after the other.
LEMMA StagesKeep ==
  ASSUME ToldInv, StartColumns \/ (\E c \in Cols : ProfileColumn(c)) \/ StartReferences \/ StartPartitions
  PROVE  Planned' /\ BehindTold' /\ HereDue'
<1> USE DEF ToldInv
<1>1. /\ db' = db /\ opts' = opts /\ warned' = warned /\ dropped' = dropped /\ t' = t /\ ~inside'
      /\ todo = <<>> /\ stage \in AtTable /\ stage' \in AtTable
      /\ t \in 1 .. Len(db) /\ todo' \in Seq(Groups)
  <2>1. /\ db' = db /\ opts' = opts /\ warned' = warned /\ dropped' = dropped /\ t' = t /\ ~inside'
        /\ todo = <<>> /\ stage \in AtTable /\ stage' \in AtTable
    <3>1. CASE StartColumns
      BY <3>1 DEF StartColumns, Goto, Between, session, AtTable
    <3>2. ASSUME NEW c \in Cols, ProfileColumn(c)
          PROVE  /\ db' = db /\ opts' = opts /\ warned' = warned /\ dropped' = dropped /\ t' = t
                 /\ ~inside' /\ todo = <<>> /\ stage \in AtTable /\ stage' \in AtTable
      BY <3>2 DEF ProfileColumn, Goto, Between, session, AtTable
    <3>3. CASE StartReferences
      BY <3>3 DEF StartReferences, Goto, Between, session, AtTable
    <3>4. CASE StartPartitions
      BY <3>4 DEF StartPartitions, Goto, Between, session, AtTable
    <3> QED  BY <3>1, <3>2, <3>3, <3>4
  <2>2. [Next]_vars
    BY DEF Next, Client
  <2>3. todo' \in Seq(Groups)
    BY <2>2, TypeStep DEF TypeInv, TypeOK, Groups
  <2>4. Len(db) \in Nat
    BY DatabasesAssumption DEF TypeInv, TypeOK
  <2> QED  BY <2>1, <2>3, <2>4 DEF TypeInv, TypeOK
<1>2. PICK i : i = t
  OBVIOUS
<1>3. ASSUME Gains
      PROVE  BehindTold'
  BY <1>1, <1>3, ToldStays DEF BehindTold
<1>4. CASE StartColumns
  <2>1. Gains /\ \A c \in ProvenUnique \intersect left' : Present(i, c, "unique")'
    <3>1. PICK new : /\ facts' = With(facts, new)
                     /\ new = {Has(t, c, "unique", "exact") : c \in left' \intersect ProvenUnique}
      BY <1>4 DEF StartColumns, Goto
    <3>2. ASSUME NEW c \in ProvenUnique \intersect left'
          PROVE  Present(i, c, "unique")'
      <4>1. Has(t, c, "unique", "exact") \in new /\ Has(t, c, "unique", "exact").of = <<i, c, "unique">>
        BY <1>2, <3>1 DEF Has
      <4> QED  BY <3>1, <4>1, WithGains
    <3> QED  BY <1>1, <3>1, <3>2, WithGains DEF Gains
  <2>2. stage' = "column" /\ stage = "structure" /\ todo' = <<>>
    BY <1>4 DEF StartColumns, Goto
  <2>3. Planned'
    BY <1>1, <2>2 DEF Planned
  <2>4. ASSUME i \notin dropped
        PROVE  left' = DOMAIN db[i].cols /\ Present(i, Whole, "references")'
    <3>1. Present(i, Whole, "columns") /\ Present(i, Whole, "references")
      BY <1>1, <1>2, <2>2, <2>4, IdleTold DEF HereDue, CatalogDue
    <3> QED  BY <1>2, <1>4, <2>1, <3>1 DEF StartColumns, Goto, Table, Gains
  <2>5. ProvenUnique' = ProvenUnique /\ ProvenUnique \subseteq DOMAIN db[i].cols
    BY <1>1, <1>2, SameKeys DEF ProvenUnique, Table
  <2>6. HereDue'
    <3>1. SUFFICES ASSUME i \notin dropped
                   PROVE  /\ Present(i, Whole, "references")'
                          /\ \A c \in ProvenUnique' : Present(i, c, "unique")'
                          /\ DOMAIN db[i].cols \ left' = {}
      BY <1>1, <1>2, <2>2 DEF HereDue
    <3> QED  BY <2>1, <2>4, <2>5, <3>1
  <2> QED  BY <1>3, <2>1, <2>3, <2>6
<1>5. ASSUME NEW c \in Cols, ProfileColumn(c)
      PROVE  Planned' /\ BehindTold' /\ HereDue'
  <2>1. stage' = "column" /\ stage = "column" /\ left' = left \ {c} /\ c \in left
    BY <1>5 DEF ProfileColumn, Goto
  <2>2. /\ Gains
        /\ i \in 1 .. Len(db) \ dropped => ColumnDue(i, c)'
        /\ \A k, m \in DOMAIN todo' :
             todo'[k].about \in {"format", "shape"} /\ k < m =>
               todo'[m].guard /\ todo'[m].col = todo'[k].col /\ todo'[m].about = "unique"
    BY <1>2, <1>5, ProfilePlans
  <2>3. Planned'
    BY <2>1, <2>2 DEF Planned
  <2>4. ASSUME i \notin dropped, NEW d \in DOMAIN db[i].cols \ left'
        PROVE  ColumnDue(i, d)'
    <3>1. CASE d = c
      BY <1>1, <1>2, <2>2, <2>4, <3>1
    <3>2. CASE d # c
      <4>1. ColumnDue(i, d)
        BY <1>1, <1>2, <2>1, <2>4, <3>2 DEF HereDue
      <4>2. ColumnTold(i, d)'
        BY <1>1, <2>2, <4>1, IdleTold, ToldStays
      <4> QED  BY <4>2 DEF ColumnTold, ColumnDue
    <3> QED  BY <3>1, <3>2
  <2>5. ASSUME i \notin dropped
        PROVE  Present(i, Whole, "references")' /\ \A d \in ProvenUnique' : Present(i, d, "unique")'
    <3>1. Present(i, Whole, "references") /\ \A d \in ProvenUnique : Present(i, d, "unique")
      BY <1>1, <1>2, <2>1, <2>5 DEF HereDue
    <3> QED  BY <1>1, <2>2, <3>1, SameKeys DEF Gains
  <2>6. HereDue'
    BY <1>1, <1>2, <2>1, <2>4, <2>5 DEF HereDue
  <2> QED  BY <1>3, <2>2, <2>3, <2>6
<1>6. CASE StartReferences
  <2>1. /\ stage = "column" /\ stage' = "references" /\ left' = {} /\ left = {} /\ facts' = facts
    BY <1>6 DEF StartReferences, Goto
  <2>2. todo' = <<MeasureReferences>> \/ todo' = <<Group(TRUE, Whole, "references", <<>>)>>
    BY <1>6 DEF StartReferences, Goto
  <2>3. Gains
    BY <1>1, <2>1 DEF Gains, Present
  <2>4. Planned'
    <3>1. MeasureReferences.about = "references" /\ MeasureReferences.col = Whole
      BY DEF MeasureReferences, Group
    <3>2. Group(TRUE, Whole, "references", <<>>).about = "references"
          /\ Group(TRUE, Whole, "references", <<>>).col = Whole
      BY DEF Group
    <3>3. \A k \in DOMAIN todo' : todo'[k].about = "references" /\ todo'[k].col = Whole
      <4>1. PICK g : todo' = <<g>> /\ g.about = "references" /\ g.col = Whole
        BY <2>2, <3>1, <3>2
      <4> QED  BY <4>1
    <3> QED  BY <2>1, <3>3 DEF Planned
  <2>5. ASSUME i \notin dropped
        PROVE  (\A c \in DOMAIN db[i].cols : ColumnDue(i, c)') /\ ReferencesDue(i)'
    <3>1. /\ Present(i, Whole, "references")
          /\ \A c \in DOMAIN db[i].cols : ColumnDue(i, c)
      BY <1>1, <1>2, <2>1, <2>5 DEF HereDue
    <3>2. \A c \in DOMAIN db[i].cols : ColumnTold(i, c)'
      BY <1>1, <2>3, <3>1, IdleTold, ToldStays
    <3>3. \A c \in DOMAIN db[i].cols : ColumnDue(i, c)'
      BY <3>2 DEF ColumnTold, ColumnDue
    <3>4. PICK g : g = MeasureReferences /\ todo' = <<g>>
      BY <1>2, <1>6, <3>1 DEF StartReferences, Goto
    <3>5. /\ g.guard /\ g.col = Whole /\ g.about = "references" /\ DOMAIN g.reads = DOMAIN db[i].refs
          /\ \A n \in DOMAIN db[i].refs : g.reads[n] = <<db[i].refs[n].col, "fanout">>
      BY <1>2, <3>4 DEF MeasureReferences, Group, MeasureFanout, Table
    <3>6. 1 \in DOMAIN todo' /\ todo'[1] = g
      BY <3>4
    <3>7. ASSUME NEW n \in DOMAIN db[i].refs, NEW f \in {"fanout", "orphans"}
          PROVE  ToMeasure(db[i].refs[n].col, f)'
      <4>1. PICK cc : cc = db[i].refs[n].col
        OBVIOUS
      <4>2. g.reads[n] \in Leads(cc, f)
        BY <3>5, <4>1 DEF Leads
      <4>3. ToMeasure(cc, f)'
        BY <3>5, <3>6, <4>2 DEF ToMeasure, Leads
      <4>4. db'[i].refs[n].col = cc
        BY <1>1, <4>1
      <4> QED  BY <4>3, <4>4
    <3>8. ReferencesDue(i)'
      BY <1>1, <3>7 DEF ReferencesDue
    <3> QED  BY <3>3, <3>8
  <2>6. HereDue'
    BY <1>1, <1>2, <2>1, <2>5 DEF HereDue
  <2> QED  BY <1>3, <2>3, <2>4, <2>6
<1>7. CASE StartPartitions
  <2>1. /\ stage = "references" /\ stage' = "partitions" /\ left' = {} /\ left = {} /\ facts' = facts
        /\ todo' = IF Table.partitioned THEN MeasurePartitions ELSE <<>>
    BY <1>7 DEF StartPartitions, Goto, Planned
  <2>2. Gains
    BY <1>1, <2>1 DEF Gains, Present
  <2>3. Planned'
    <3>1. Sampleless(todo')
      BY <2>1, CatalogPlans DEF Sampleless
    <3> QED  BY <2>1, <3>1 DEF Planned, Sampleless
  <2>4. ASSUME i \notin dropped
        PROVE  (\A c \in DOMAIN db[i].cols : ColumnDue(i, c)') /\ ReferencesDue(i)' /\ PartitionsDue(i)'
    <3>1. (\A c \in DOMAIN db[i].cols : ColumnDue(i, c)) /\ ReferencesDue(i)
      BY <1>1, <1>2, <2>1, <2>4 DEF HereDue
    <3>2. (\A c \in DOMAIN db[i].cols : ColumnTold(i, c)') /\ ReferencesTold(i)'
      BY <1>1, <2>2, <3>1, IdleTold, ToldStays
    <3>3. (\A c \in DOMAIN db[i].cols : ColumnDue(i, c)') /\ ReferencesDue(i)'
      BY <3>2 DEF ColumnTold, ColumnDue, ReferencesTold, ReferencesDue
    <3>4. ASSUME db[i].partitioned, NEW f \in {"strategy", "skew", "key", "total_bytes"}
          PROVE  Pending(Whole, f)'
      <4>1. todo' = MeasurePartitions
        BY <1>2, <2>1, <3>4 DEF Table
      <4>2. \E k \in DOMAIN todo' : todo'[k] = Catalog(f)
        BY <4>1, CatalogPlans
      <4> QED  BY <4>2, CatalogPending
    <3>5. PartitionsDue(i)'
      BY <1>1, <3>4 DEF PartitionsDue
    <3> QED  BY <3>3, <3>5
  <2>5. HereDue'
    BY <1>1, <1>2, <2>1, <2>4 DEF HereDue
  <2> QED  BY <1>3, <2>2, <2>3, <2>5
<1> QED  BY <1>4, <1>5, <1>6, <1>7

\* Every fact sought of a table that is there is in the fixture, accounted for, or still
\* to be read, after every step.
LEMMA ToldStep ==
  ASSUME ToldInv, [Next]_vars
  PROVE  ToldInv'
<1> USE DEF ToldInv
<1>0. /\ TypeInv' /\ todo \in Seq(Groups) /\ todo' \in Seq(Groups) /\ Len(db) \in Nat
      /\ t \in 1 .. Len(db) + 1
  <2>1. TypeInv'
    BY TypeStep
  <2>2. todo' \in Seq(Groups)
    BY <2>1 DEF TypeInv, TypeOK, Groups
  <2> QED  BY <2>1, <2>2, DatabasesAssumption DEF TypeInv, TypeOK
<1>1. SUFFICES Planned' /\ BehindTold' /\ HereDue'
  BY <1>0
\* A step that leaves the plan alone.
<1>2. ASSUME todo' = todo, inside' = inside \/ (todo # <<>> /\ ~Skipped), stage' = stage, t' = t, left' = left,
             db' = db, opts' = opts, facts' = facts, warned' = warned, dropped \subseteq dropped'
      PROVE  Planned' /\ BehindTold' /\ HereDue'
  <2>1. Gains
    BY <1>2 DEF Gains, Present
  <2>2. BehindTold' /\ HereDue'
    BY <1>2, <2>1, StillAnswers, StageKeeps
  <2>3. Planned'
    BY <1>2 DEF Planned
  <2> QED  BY <2>2, <2>3
<1>3. CASE UNCHANGED vars \/ Ended
  <2>1. UNCHANGED vars
    BY <1>3 DEF Ended
  <2> QED  BY <1>2, <2>1 DEF vars
<1>4. CASE Refuse \/ ReadIsFatal
  <2>1. stage' = "ended" /\ todo' = todo
    BY <1>4 DEF Refuse, ReadIsFatal, Fail
  <2> QED  BY <2>1 DEF Planned, BehindTold, HereDue, AtTable
<1>5. CASE Begin
  <2>1. stage' = "catalog" /\ todo' = <<Catalog("limits"), Engine, ListTables>>
    BY <1>5 DEF Begin, Goto
  <2>2. Sampleless(todo')
    BY <2>1, CatalogPlans
  <2> QED  BY <2>1, <2>2 DEF Planned, BehindTold, HereDue, AtTable, Sampleless
<1>6. CASE StartTables
  <2>1. 1 \in 1 .. Len(db) + 1 /\ \A i \in 1 .. Len(db) \ dropped : ~(i < 1)
    BY <1>0
  <2>2. NextTable(1) /\ Gains /\ dropped' = dropped
    BY <1>6 DEF StartTables, Gains, Present
  <2> QED  BY <2>1, <2>2, NextTableKeeps
<1>7. CASE EndTable
  <2>1. PICK j : j = t + 1
    OBVIOUS
  <2>2. stage = "partitions" /\ todo = <<>> /\ dropped' = dropped /\ Gains
    BY <1>7 DEF EndTable, Between, Gains, Present
  <2>3. j \in 1 .. Len(db) + 1
    BY <1>0, <2>1, <2>2 DEF TypeInv, AtTable
  <2>4. NextTable(j)
    BY <1>7, <2>1 DEF EndTable, NextTable, Goto
  <2>5. ASSUME NEW i \in 1 .. Len(db) \ dropped, i < j
        PROVE  AllTold(i)
    <3>1. CASE i < t
      BY <2>2, <2>5, <3>1 DEF BehindTold, AtTable
    <3>2. CASE i = t
      <4>1. left = {}
        BY <2>2 DEF Planned
      <4>2. (\A c \in DOMAIN db[i].cols : ColumnDue(i, c)) /\ ReferencesDue(i) /\ PartitionsDue(i)
        BY <2>2, <2>5, <3>2, <4>1 DEF HereDue
      <4> QED  BY <2>2, <4>2, IdleTold DEF AllTold
    <3> QED  BY <1>0, <2>1, <2>5, <3>1, <3>2
  <2> QED  BY <2>2, <2>3, <2>4, <2>5, NextTableKeeps
<1>8. CASE StartColumns \/ (\E c \in Cols : ProfileColumn(c)) \/ StartReferences \/ StartPartitions
  BY <1>8, StagesKeep
<1>9. CASE EndTypes
  <2>1. /\ stage = "types" /\ stage' = "profiled" /\ t' = t /\ todo' = <<>> /\ db' = db /\ dropped' = dropped
        /\ Gains
    BY <1>9 DEF EndTypes, Goto, Gains, Present
  <2>2. Planned'
    BY <2>1 DEF Planned
  <2>3. BehindTold'
    BY <2>1, ToldStays DEF BehindTold
  <2>4. HereDue'
    BY <2>1 DEF HereDue
  <2> QED  BY <2>2, <2>3, <2>4
<1>10. CASE Savepoint
  BY <1>2, <1>10 DEF Savepoint, position
<1>11. CASE SkipEscalation \/ Release
  <2>1. /\ todo # <<>> /\ todo' = Tail(todo) /\ stage' = stage /\ t' = t /\ left' = left /\ dropped' = dropped
        /\ db' = db
    BY <1>11 DEF SkipEscalation, Release, Reading
  <2>2. BehindTold' /\ HereDue'
    <3>1. \A i : i = t => Gains /\ Answers(i)
      BY <1>11, SkipAnswers
    <3> QED  BY <2>1, <3>1, StageKeeps
  <2>3. \A k \in DOMAIN todo' : k + 1 \in DOMAIN todo /\ todo'[k] = todo[k + 1]
    BY <1>0, <2>1
  <2>4. Planned'
    BY <1>0, <2>1, <2>3, PlannedStays
  <2> QED  BY <2>2, <2>4
<1>12. CASE Degrade
  <2>1. PICK i : i = t
    OBVIOUS
  <2>2. Gains /\ Answers(i) /\ todo # <<>> /\ <<i, First.col, First.about>> \in warned'
    BY <1>12, <2>1, DegradeAnswers
  <2>3. /\ t' = t /\ left' = left /\ dropped' = dropped /\ db' = db
        /\ todo' = IF First.about \in {"format", "shape"} THEN <<>> ELSE Tail(todo)
        /\ stage' = IF stage = "references" THEN "partitions" ELSE stage
    BY <1>12 DEF Degrade, AfterDegrade
  <2>4. /\ \A k \in DOMAIN todo' : k + 1 \in DOMAIN todo /\ todo'[k] = todo[k + 1]
    BY <1>0, <2>2, <2>3
  <2>5. CASE stage # "references"
    <3>1. BehindTold' /\ HereDue'
      BY <2>1, <2>2, <2>3, <2>5, StageKeeps
    <3>2. Planned'
      BY <1>0, <2>3, <2>4, <2>5, PlannedStays
    <3> QED  BY <3>1, <3>2
  <2>6. CASE stage = "references"
    <3>1. First.about = "references" /\ First.col = Whole
      BY <1>0, <2>2, <2>6 DEF Planned, First
    <3>2. stage' = "partitions" /\ left = {} /\ <<i, Whole, "references">> \in warned'
      BY <2>2, <2>3, <2>6, <3>1 DEF Planned
    <3>3. ASSUME NEW f \in {"strategy", "skew", "key", "total_bytes"}
          PROVE  Told(i, Whole, f)'
      <4>1. f \in Accounts("references")
        BY DEF Accounts
      <4> QED  BY <3>2, <4>1, WarningAccounts DEF Told
    <3>4. PartitionsDue(i)'
      BY <2>3, <3>3 DEF PartitionsDue
    <3>5. ASSUME i \in 1 .. Len(db) \ dropped
          PROVE  (\A c \in DOMAIN db[i].cols : ColumnDue(i, c)') /\ ReferencesDue(i)'
      <4>1. (\A c \in DOMAIN db[i].cols : ColumnDue(i, c)) /\ ReferencesDue(i)
        BY <2>1, <2>6, <3>2, <3>5 DEF HereDue
      <4> QED  BY <2>2, <4>1, DueStays
    <3>6. HereDue'
      BY <2>1, <2>3, <3>2, <3>4, <3>5 DEF HereDue
    <3>7. BehindTold'
      BY <2>2, <2>3, <2>6, <3>2, ToldStays DEF BehindTold, AtTable
    <3>8. Planned'
      <4>1. ASSUME NEW k \in DOMAIN todo'
            PROVE  todo'[k].about = "references"
        BY <2>4, <2>6, <4>1 DEF Planned
      <4> QED  BY <2>3, <3>2, <4>1 DEF Planned
    <3> QED  BY <3>6, <3>7, <3>8
  <2> QED  BY <2>5, <2>6
<1>13. CASE Finish \/ Write
  <2>1. stage' \in {"write", "ended"} /\ todo' = <<>>
    BY <1>13 DEF Finish, Write, Goto
  <2> QED  BY <2>1 DEF Planned, BehindTold, HereDue, AtTable
<1>14. CASE ReadSucceeds
  <2>1. /\ stage' = stage /\ t' = t /\ left' = left /\ dropped' = dropped /\ db' = db /\ opts' = opts
        /\ warned' = warned /\ todo # <<>> /\ facts' = With(facts, Recorded)
        /\ todo' = IF First.guard THEN [todo EXCEPT ![1].reads = Onward(Of[2], Fact) \o Tail(@)] ELSE Tail(todo)
    BY <1>14 DEF ReadSucceeds, Reading
  <2>2. Gains
    BY <2>1, WithGains DEF Gains
  <2>3. BehindTold' /\ HereDue'
    <3>1. \A i \in 1 .. Len(db) \ dropped' : i = t => Answers(i)
      BY <1>14, <2>1, ReadAnswers
    <3> QED  BY <2>1, <2>2, <3>1, StageKeeps
  <2>4. CASE ~First.guard
    <3>1. \A k \in DOMAIN todo' : k + 1 \in DOMAIN todo /\ todo'[k] = todo[k + 1]
      BY <1>0, <2>1, <2>4
    <3>2. Planned'
      BY <1>0, <2>1, <3>1, PlannedStays
    <3> QED  BY <2>3, <3>2
  <2>5. CASE First.guard
    <3>1. todo' = [todo EXCEPT ![1].reads = Onward(Of[2], Fact) \o Tail(@)]
      BY <2>1, <2>5
    <3>2. ASSUME NEW k \in DOMAIN todo'
          PROVE  /\ k + 0 = k /\ k \in DOMAIN todo
                 /\ todo'[k].guard = todo[k].guard /\ todo'[k].col = todo[k].col
                 /\ todo'[k].about = todo[k].about
      <4>1. k \in DOMAIN todo /\ k \in Nat /\ todo[k] \in Groups
        BY <1>0, <3>1
      <4>2. CASE k # 1
        BY <3>1, <4>1, <4>2
      <4>3. CASE k = 1
        <5>1. todo'[k] = [todo[k] EXCEPT !.reads = Onward(Of[2], Fact) \o Tail(@)]
          BY <3>1, <4>1, <4>3
        <5> QED  BY <4>1, <5>1 DEF Groups
      <4> QED  BY <4>2, <4>3
    <3>3. Planned'
      BY <1>0, <2>1, <3>2, PlannedStays
    <3> QED  BY <2>3, <3>3
  <2> QED  BY <2>4, <2>5
<1>15. CASE ReadTimesOut \/ ReadFails
  BY <1>2, <1>15 DEF ReadTimesOut, ReadFails, position
<1>16. ASSUME NEW i \in 1 .. Len(db), Drop(i)
       PROVE  Planned' /\ BehindTold' /\ HereDue'
  BY <1>2, <1>16 DEF Drop, position, session
<1> QED  BY <1>3, <1>4, <1>5, <1>6, <1>7, <1>8, <1>9, <1>10, <1>11, <1>12, <1>13, <1>14, <1>15, <1>16
         DEF Next, Client, Server

\* When the fixture is about to be written, whatever it lacks of a table that is still
\* there is accounted for by a warning, in any database and whatever the server is slow at.
THEOREM AbsenceIsWarned == Spec => []AbsentFactsAreWarned
<1>1. Init => ToldInv
  <2>1. Init => TypeInv
    BY InitTyped
  <2>2. Init => Planned /\ BehindTold /\ HereDue
    BY DEF Init, Planned, BehindTold, HereDue, AtTable
  <2> QED  BY <2>1, <2>2 DEF ToldInv
<1>2. ToldInv /\ [Next]_vars => ToldInv'
  BY ToldStep
<1>3. ASSUME ToldInv
      PROVE  AbsentFactsAreWarned
  <2>1. SUFFICES ASSUME stage = "profiled", NEW i \in 1 .. Len(db) \ dropped
                 PROVE  AllTold(i)
    BY DEF AbsentFactsAreWarned, AllTold
  <2>2. t = Len(db) + 1 /\ Len(db) \in Nat
    BY <1>3, <2>1, DatabasesAssumption DEF ToldInv, Planned, TypeInv, TypeOK
  <2> QED  BY <1>3, <2>1, <2>2 DEF ToldInv, BehindTold
<1> QED  BY <1>1, <1>2, <1>3, PTL DEF Spec
=============================================================================
