-------------------------------- MODULE Pull --------------------------------
(***************************************************************************)
(* `rowshape pull' (cmd/pull.go, internal/profile): the catalog and the    *)
(* data of a production database are read in one read-only transaction     *)
(* under a statement timeout, and become the facts of a fixture.           *)
(*                                                                         *)
(* A profiling read runs under a savepoint and degrades: when the server   *)
(* cancels it, its fact is left out and a warning says so.  A catalog read *)
(* does not, and ends the pull.  The transaction is READ COMMITTED: other  *)
(* sessions may drop a table between the listing and the reading of it.    *)
(*                                                                         *)
(* A fact is known by its table, its column and its kind; that a read of   *)
(* no rows leaves its fact out is not told apart from one that answers.    *)
(***************************************************************************)
EXTENDS Naturals, Sequences, FiniteSets

CONSTANTS
  Cols,        \* the names of columns
  Databases    \* the databases looked at: sequences of tables

\* A column, its category (categorize, of a domain's base type), what the planner's
\* statistics say of its distinct count, whether a value of it occurs twice, whether
\* its values are few and frequent, and whether its type can be compared at all.
Categories == {"numeric", "temporal", "text", "bytea", "json", "other"}
Columns == [cat : Categories, nullable : BOOLEAN, stats : {"none", "few", "many"},
            dup : BOOLEAN, few : BOOLEAN, comparable : BOOLEAN]

\* A unique constraint or index: the columns among its keys, whether an expression
\* is among them too, whether it is partial, and whether its build came to an end;
\* a constraint is of whole columns and its index is complete.
Keys ==
  {k \in [kind : {"constraint", "index"}, on : SUBSET Cols, expr : BOOLEAN,
           partial : BOOLEAN, valid : BOOLEAN] :
     k.kind = "constraint" => ~k.expr /\ ~k.partial /\ k.valid}

References == [col : Cols, validated : BOOLEAN]

Tables ==
  [cols : UNION {[C -> Columns] : C \in SUBSET Cols}, keys : SUBSET Keys,
   refs : Seq(References), partitioned : BOOLEAN, large : BOOLEAN, huge : BOOLEAN]

\* What the server enforces: a key of one column alone keeps its values apart.
Enforced(tab) ==
  \A k \in tab.keys, c \in DOMAIN tab.cols :
    (k.on = {c} /\ ~k.expr /\ ~k.partial /\ k.valid) => ~tab.cols[c].dup

ASSUME DatabasesAssumption ==
  /\ Databases \subseteq Seq(Tables)
  /\ \A d \in Databases : \A i \in DOMAIN d : Enforced(d[i])

Privacies == {"strict", "standard", "permissive"}
Options   == [exact : BOOLEAN, limited : BOOLEAN, privacy : Privacies]
Whole     == "(table)"          \* stands for the column of a table's own facts

VARIABLES
  db,          \* the database
  opts,        \* --exact, --privacy, and whether a statement timeout is set
  dropped,     \* the tables other sessions have dropped since they were listed
  stage,       \* what the reader is at
  t,           \* the table it is at
  left,        \* the columns of that table it has not profiled
  todo,        \* the groups of reads it is about to make
  inside,      \* a savepoint is open
  tx,          \* the transaction: none, open, aborted
  error,       \* the error the last read returned: none, timeout, other
  facts,       \* the fixture: [of |-> <<t, c, fact>>, conf |-> ...]
  warned,      \* what the warnings name: <<t, c, fact>>
  exit         \* the exit code, or Running

position == <<stage, t, left, todo>>
session  == <<inside, tx, error>>
vars == <<db, opts, dropped, stage, t, left, todo, inside, tx, error, facts, warned, exit>>

Running == 255
Stages  == {"setup", "catalog", "structure", "column", "references", "partitions",
            "types", "profiled", "write", "ended"}

Present(i, c, f)  == \E x \in facts : x.of = <<i, c, f>>
Has(i, c, f, cf)  == [of |-> <<i, c, f>>, conf |-> cf]
With(S, new)      == {x \in S : \A n \in new : n.of # x.of} \union new
Table             == db[t]
Col(c)            == Table.cols[c]

Init ==
  /\ db \in Databases
  /\ opts \in Options
  /\ dropped = {} /\ stage = "setup" /\ t = 1 /\ left = {} /\ todo = <<>>
  /\ inside = FALSE /\ tx = "none" /\ error = "none"
  /\ facts = {} /\ warned = {} /\ exit = Running
-----------------------------------------------------------------------------
(* A group is the reads that share a savepoint, or one read without any; a    *)
(* read is a column and the fact it establishes, and `about' is what the      *)
(* group's warning names.  What a group holds is decided when it is planned.  *)

Group(guard, c, about, reads) == [guard |-> guard, col |-> c, about |-> about, reads |-> reads]
Catalog(f)    == Group(FALSE, Whole, f, <<<<Whole, f>>>>)
Full(c, f)    == Group(FALSE, c, f, <<<<c, f>>>>)
Guarded(c, f) == Group(TRUE, c, f, <<<<c, f>>>>)

\* Reads of the catalog, which nothing guards.
Engine           == Catalog("engine")
ListTables       == Catalog("tables")
ReadColumns      == Catalog("columns")
ReadConstraints  == Catalog("constraints")
ReadIndexes      == Catalog("indexes")
ReadReferences   == Catalog("references")
ColumnStats      == Catalog("stats")
ExactRowCount    == Catalog("rows")
UserTypes        == Catalog("types")
Extensions       == Catalog("extensions")
PartitionStrategy   == Catalog("strategy")
PartitionCountSkew  == Catalog("skew")
PartitionKey        == Catalog("key")
PartitionTotalRows  == Catalog("total_rows")
PartitionTotalBytes == Catalog("total_bytes")

\* Reads of the data.
ExactNullFraction(c)   == Full(c, "null_fraction")
HllDistinct(c)         == <<c, "distinct">>
ProbeUniqueExistence(c) == <<c, "unique">>
RangeStat(c)           == Guarded(c, "range")
MeasureHistogram(c)    == Guarded(c, "histogram")
ByteaLengthStat(c)     == Guarded(c, "length")
ValueSample(c, f)      == Guarded(c, f)
MeasureFanout(c)       == <<c, "fanout">>
FkValidated(c)         == <<c, "validated">>
MeasureOrphanFraction(c) == <<c, "orphans">>

\* constraints and indexes: namesFor leaves out the keys that are expressions, and
\* whether an index is valid is not asked.
Read(kind) == {[columns |-> k.on, partial |-> k.partial] : k \in {k \in Table.keys : k.kind = kind}}

\* Mutant of ProvenUnique: the columns of a composite key are proven too.
ProvenUniqueComposite ==
  {c \in DOMAIN Table.cols :
     \/ \E k \in Read("constraint") : c \in k.columns
     \/ \E k \in Read("index") : c \in k.columns /\ ~k.partial}

\* applyUniquenessProofs: a constraint or a whole index of one column.
ProvenUnique ==
  {c \in DOMAIN Table.cols :
     \/ \E k \in Read("constraint") : k.columns = {c}
     \/ \E k \in Read("index") : k.columns = {c} /\ ~k.partial}

\* exactColumn: nothing guards the full passes over null_fraction and distinct.
ExactColumn(c) ==
  (IF Col(c).nullable THEN <<ExactNullFraction(c)>> ELSE <<>>)
    \o <<Group(FALSE, c, "distinct", <<HllDistinct(c)>>)>>

\* What the planner's statistics say, in fast mode.
FromStats(c) ==
  IF Col(c).stats = "none" THEN {}
  ELSE {Has(t, c, "distinct", "estimated")}
         \union (IF Col(c).nullable THEN {Has(t, c, "null_fraction", "estimated")} ELSE {})

ByCategory(c) ==
  CASE Col(c).cat = "numeric"  -> <<RangeStat(c), MeasureHistogram(c)>>
    [] Col(c).cat = "temporal" -> <<RangeStat(c)>>
    [] Col(c).cat = "text"     -> <<ValueSample(c, "format")>>
    [] Col(c).cat = "bytea"    -> <<ByteaLengthStat(c)>>
    [] Col(c).cat = "json"     -> <<ValueSample(c, "shape")>>
    [] OTHER                   -> <<>>

\* shouldEscalate: it looks unique and nothing proves it.
ShouldEscalate(c) == Col(c).stats = "many" /\ c \notin ProvenUnique

\* escalateColumn: two reads under one savepoint.
EscalateColumn(c) == Group(TRUE, c, "unique", <<HllDistinct(c), ProbeUniqueExistence(c)>>)

\* Probed in exact mode, else escalated; over --max-escalation-rows there is a
\* warning and no read.
OverCap(c) == Group(TRUE, c, "unique", <<>>)

Uniqueness(c) ==
  CASE opts.exact -> IF c \in ProvenUnique THEN <<>> ELSE <<Group(TRUE, c, "unique", <<ProbeUniqueExistence(c)>>)>>
    [] ~opts.exact /\ ~ShouldEscalate(c) -> <<>>
    [] OTHER -> IF Table.huge THEN <<OverCap(c)>> ELSE <<EscalateColumn(c)>>

MeasureReferences ==
  Group(TRUE, Whole, "references", [n \in DOMAIN Table.refs |-> MeasureFanout(Table.refs[n].col)])

\* What fkValidated answers: all foreign keys of the column are validated.
AllValidated(c) == \A n \in DOMAIN Table.refs : Table.refs[n].col = c => Table.refs[n].validated

\* What is read of a reference next: its orphans where fkValidated says there may be some.
Onward(c, f) ==
  CASE f = "fanout" -> <<FkValidated(c)>>
    [] f = "validated" /\ ~AllValidated(c) -> <<MeasureOrphanFraction(c)>>
    [] OTHER -> <<>>

MeasurePartitions ==
  <<PartitionStrategy, PartitionCountSkew, PartitionKey, PartitionTotalRows, PartitionTotalBytes>>
-----------------------------------------------------------------------------
(* The stages *)

Goto(s, i, L, groups) == stage' = s /\ t' = i /\ left' = L /\ todo' = groups

Between == exit = Running /\ todo = <<>> /\ ~inside /\ error = "none"

Fail == exit' = 3 /\ stage' = "ended" /\ tx' = "none" /\ UNCHANGED <<t, left, todo>>

\* The privacy level, the connection settings, the connection or the role is refused
\* (a superuser without --i-know).
Refuse ==
  /\ stage = "setup" /\ Between
  /\ Fail
  /\ UNCHANGED <<db, opts, dropped, inside, error, facts, warned>>

\* The transaction begins; applySessionLimits, then the server is asked who it is and
\* what tables it has.
Begin ==
  /\ stage = "setup" /\ Between
  /\ tx' = "open"
  /\ Goto("catalog", 1, {}, <<Catalog("limits"), Engine, ListTables>>)
  /\ UNCHANGED <<db, opts, dropped, inside, error, facts, warned, exit>>

\* readTable.
ReadTable ==
  <<ReadColumns, ReadConstraints, ReadIndexes, ReadReferences>>

\* What profileTable reads before the columns.
TableReads == <<ColumnStats>> \o (IF opts.exact THEN <<ExactRowCount>> ELSE <<>>)

\* The tables in turn, then userTypes and extensions.
NextTable(i) ==
  IF i > Len(db) THEN Goto("types", i, {}, <<UserTypes, Extensions>>)
  ELSE Goto("structure", i, {}, ReadTable \o TableReads)

StartTables ==
  /\ stage = "catalog" /\ Between
  /\ NextTable(1)
  /\ UNCHANGED <<db, opts, dropped, session, facts, warned, exit>>

\* The columns the catalog returned, and which of them are proven unique.
StartColumns ==
  /\ stage = "structure" /\ Between
  /\ LET read == IF Present(t, Whole, "columns") THEN DOMAIN Table.cols ELSE {} IN
       /\ Goto("column", t, read, <<>>)
       /\ facts' = With(facts, {Has(t, c, "unique", "exact") : c \in read \intersect ProvenUnique})
  /\ UNCHANGED <<db, opts, dropped, session, warned, exit>>

\* The columns are a Go map: they come in any order.
ProfileColumn(c) ==
  /\ stage = "column" /\ Between /\ c \in left
  /\ Goto("column", t, left \ {c},
          (IF opts.exact THEN ExactColumn(c) ELSE <<>>) \o ByCategory(c) \o Uniqueness(c))
  /\ facts' = IF opts.exact THEN facts ELSE With(facts, FromStats(c))
  /\ UNCHANGED <<db, opts, dropped, session, warned, exit>>

StartReferences ==
  /\ stage = "column" /\ Between /\ left = {}
  /\ Goto("references", t, {},
          IF Present(t, Whole, "references") THEN <<MeasureReferences>>
          ELSE <<Group(TRUE, Whole, "references", <<>>)>>)
  /\ UNCHANGED <<db, opts, dropped, session, facts, warned, exit>>

StartPartitions ==
  /\ stage = "references" /\ Between
  /\ Goto("partitions", t, {}, IF Table.partitioned THEN MeasurePartitions ELSE <<>>)
  /\ UNCHANGED <<db, opts, dropped, session, facts, warned, exit>>

EndTable ==
  /\ stage = "partitions" /\ Between
  /\ NextTable(t + 1)
  /\ UNCHANGED <<db, opts, dropped, session, facts, warned, exit>>

EndTypes ==
  /\ stage = "types" /\ Between
  /\ Goto("profiled", t, {}, <<>>)
  /\ UNCHANGED <<db, opts, dropped, session, facts, warned, exit>>
-----------------------------------------------------------------------------
(* guarded and degrade *)

First == Head(todo)
Fact  == Head(First.reads)[2]
Of    == <<t, Head(First.reads)[1], Fact>>
Gone  == t \in dropped

Reading == exit = Running /\ todo # <<>> /\ error = "none" /\ (First.guard <=> inside)
Skipped == First.about = "unique" /\ First.reads = <<>>

Savepoint ==
  /\ exit = Running /\ todo # <<>> /\ First.guard /\ ~inside /\ error = "none"
  /\ ~Skipped
  /\ inside' = TRUE
  /\ UNCHANGED <<db, opts, dropped, position, tx, error, facts, warned, exit>>

\* overEscalationCap
SkipEscalation ==
  /\ exit = Running /\ todo # <<>> /\ ~inside /\ error = "none"
  /\ Skipped
  /\ warned' = warned \union {<<t, First.col, "unique">>}
  /\ todo' = Tail(todo)
  /\ UNCHANGED <<db, opts, dropped, stage, t, left, session, facts, exit>>

\* sampleClause: exact mode never samples.
Sampled == Table.large /\ ~opts.exact

\* Mutant of Confidence: a measured count carries no confidence.
ConfidenceMissing(f) == IF f = "distinct" THEN "" ELSE "estimated"

\* fanoutSample looks at the size only.
Confidence(f) ==
  CASE f = "range"    -> IF Sampled THEN "estimated" ELSE "exact"
    [] f = "distinct" -> "measured"
    [] f = "fanout"   -> IF Table.large THEN "estimated" ELSE "measured"
    [] f \in {"unique", "null_fraction", "orphans", "rows"} -> "exact"
    [] OTHER -> "estimated"

\* What a read that succeeds leaves in the fixture.  A probe answers for what is
\* there; the catalog of a table that is gone has nothing to say, and no error; the
\* rows of a partitioned table become the sum over its partitions.
Recorded ==
  IF Gone \/ Fact \in {"limits", "engine", "tables", "stats"} THEN {} ELSE
  CASE Fact = "validated" ->
         IF AllValidated(Of[2]) THEN {Has(t, Of[2], "orphans", "exact")} ELSE {}
    [] Fact = "total_rows" -> {Has(t, Whole, "rows", "estimated")}
    [] Fact = "unique" /\ Col(Of[2]).dup -> {Has(t, Of[2], "duplicates", "exact")}
    [] Fact = "format" /\ opts.privacy = "permissive" ->
         {Has(t, Of[2], "format", "estimated"), Has(t, Of[2], "values", "estimated")}
    [] OTHER -> {[of |-> Of, conf |-> Confidence(Fact)]}

\* A table that is gone cannot be counted, and has no strategy; values that cannot be
\* compared cannot be grouped.
Refused ==
  \/ Gone /\ Fact \in {"rows", "strategy"}
  \/ Fact = "unique" /\ ~Col(Of[2]).comparable

ReadSucceeds ==
  /\ Reading /\ tx = "open" /\ First.reads # <<>> /\ ~Refused
  /\ facts' = With(facts, Recorded)
  /\ todo' = IF First.guard THEN [todo EXCEPT ![1].reads = Onward(Of[2], Fact) \o Tail(@)] ELSE Tail(todo)
  /\ UNCHANGED <<db, opts, dropped, stage, t, left, session, warned, exit>>

Release ==
  /\ Reading /\ inside /\ tx = "open" /\ First.reads = <<>>
  /\ inside' = FALSE /\ todo' = Tail(todo)
  /\ UNCHANGED <<db, opts, dropped, stage, t, left, tx, error, facts, warned, exit>>

\* 57014: the transaction is aborted until it is rolled back to a savepoint.
ReadTimesOut ==
  /\ Reading /\ opts.limited /\ tx = "open" /\ First.reads # <<>> /\ Fact # "limits"
  /\ tx' = "aborted" /\ error' = "timeout"
  /\ UNCHANGED <<db, opts, dropped, position, inside, facts, warned, exit>>

\* Any other error: a lock timeout, a table that is gone, an interrupt, a server that
\* is lost; and in an aborted transaction there is nothing else.  A savepoint, and the
\* return to it, may fail as well.
ReadFails ==
  /\ exit = Running /\ todo # <<>> /\ (inside \/ ~Skipped)
  /\ error = "none" \/ (error = "timeout" /\ inside)
  /\ tx' = "aborted" /\ error' = "other"
  /\ UNCHANGED <<db, opts, dropped, position, inside, facts, warned, exit>>

\* An error outside a savepoint, or one that is no timeout, ends the pull.
ReadIsFatal ==
  /\ exit = Running /\ error # "none" /\ (~inside \/ error = "other")
  /\ Fail
  /\ inside' = FALSE
  /\ UNCHANGED <<db, opts, dropped, error, facts, warned>>

\* What a timeout costs besides: a sample, the rest of its column; the references,
\* the partitions of their table (profileTable returns).
AfterDegrade ==
  /\ todo' = IF First.about \in {"format", "shape"} THEN <<>> ELSE Tail(todo)
  /\ stage' = IF stage = "references" THEN "partitions" ELSE stage
  /\ UNCHANGED <<t, left>>

\* Mutants of Degrade: no ROLLBACK TO SAVEPOINT; a fact is dropped in silence; the
\* read is made again.
DegradeInPlace ==
  /\ exit = Running /\ error = "timeout" /\ inside
  /\ inside' = FALSE /\ error' = "none"
  /\ warned' = warned \union {<<t, First.col, First.about>>}
  /\ AfterDegrade
  /\ UNCHANGED <<db, opts, dropped, tx, facts, exit>>

DegradeSilently ==
  /\ exit = Running /\ error = "timeout" /\ inside
  /\ tx' = "open" /\ inside' = FALSE /\ error' = "none"
  /\ AfterDegrade
  /\ UNCHANGED <<db, opts, dropped, facts, warned, exit>>

DegradeRetries ==
  /\ exit = Running /\ error = "timeout" /\ inside
  /\ tx' = "open" /\ inside' = FALSE /\ error' = "none"
  /\ warned' = warned \union {<<t, First.col, First.about>>}
  /\ UNCHANGED <<db, opts, dropped, position, facts, exit>>

Degrade ==
  /\ exit = Running /\ error = "timeout" /\ inside
  /\ tx' = "open" /\ inside' = FALSE /\ error' = "none"
  /\ warned' = warned \union {<<t, First.col, First.about>>}
  /\ AfterDegrade
  /\ UNCHANGED <<db, opts, dropped, facts, exit>>
-----------------------------------------------------------------------------
(* The fixture is made and written *)

\* permissiveValuesAllowed: no value of the sample is rare, and the column's distinct
\* count is known to be small.
ValuesAllowed(x) ==
  /\ opts.privacy = "permissive"
  /\ db[x.of[1]].cols[x.of[2]].few
  /\ Present(x.of[1], x.of[2], "distinct")

\* ApplyPrivacy: what the level lets through.
ApplyPrivacy ==
  {x \in facts : CASE x.of[3] \in {"range", "histogram"} -> opts.privacy # "strict"
                   [] x.of[3] = "values" -> ValuesAllowed(x)
                   [] OTHER -> TRUE}

\* read returns, which rolls the transaction back.
Finish ==
  /\ stage = "profiled" /\ Between
  /\ facts' = ApplyPrivacy
  /\ tx' = "none"
  /\ Goto("write", t, {}, <<>>)
  /\ UNCHANGED <<db, opts, dropped, inside, error, warned, exit>>

\* os.WriteFile may fail; nothing else can any more.
Write ==
  /\ stage = "write" /\ Between
  /\ exit' \in {0, 3}
  /\ Goto("ended", t, {}, <<>>)
  /\ UNCHANGED <<db, opts, dropped, session, facts, warned>>

\* Another session drops a table that was listed and not yet begun.
Drop(i) ==
  /\ exit = Running /\ i \in 1 .. Len(db) /\ i \notin dropped
  /\ \/ stage = "catalog" /\ todo = <<>>
     \/ stage \in {"structure", "column", "references", "partitions"} /\ i > t
  /\ dropped' = dropped \union {i}
  /\ UNCHANGED <<db, opts, position, session, facts, warned, exit>>

Client ==
  \/ Refuse \/ Begin \/ StartTables \/ StartColumns
  \/ \E c \in Cols : ProfileColumn(c)
  \/ StartReferences \/ StartPartitions \/ EndTable \/ EndTypes
  \/ Savepoint \/ SkipEscalation \/ Release \/ ReadIsFatal \/ Degrade
  \/ Finish \/ Write

Server == ReadSucceeds \/ ReadTimesOut \/ ReadFails

Ended == exit # Running /\ UNCHANGED vars

Next == Client \/ Server \/ (\E i \in 1 .. Len(db) : Drop(i)) \/ Ended

\* The client goes on; the server answers a statement it has a limit for, be it with
\* the cancellation.  Without a limit a read may take for ever.
Fairness == WF_vars(Client) /\ WF_vars(opts.limited /\ Server)

Spec == Init /\ [][Next]_vars /\ Fairness
-----------------------------------------------------------------------------
FactNames ==
  {"limits", "engine", "tables", "columns", "constraints", "indexes", "references", "stats",
   "rows", "null_fraction", "distinct", "range", "histogram", "format", "length", "shape",
   "values", "unique", "duplicates", "fanout", "validated", "orphans", "strategy", "skew",
   "key", "total_rows", "total_bytes", "types", "extensions"}

Facts  == (1 .. Len(db) + 1) \X (Cols \union {Whole}) \X FactNames
Groups == [guard : BOOLEAN, col : Cols \union {Whole}, about : FactNames,
           reads : Seq((Cols \union {Whole}) \X FactNames)]

\* The type of the state: the reader's position, the session's state and the fixture.
TypeOK ==
  /\ db \in Databases /\ opts \in Options
  /\ dropped \subseteq 1 .. Len(db)
  /\ stage \in Stages /\ t \in 1 .. Len(db) + 1 /\ left \subseteq Cols
  /\ todo \in Seq(Groups)
  /\ inside \in BOOLEAN /\ tx \in {"none", "open", "aborted"}
  /\ error \in {"none", "timeout", "other"}
  /\ facts \subseteq [of : Facts, conf : {"estimated", "measured", "exact"}]
  /\ warned \subseteq Facts
  /\ exit \in {Running, 0, 3}

\* No statement is sent in a transaction a cancelled statement has aborted: a timeout on
\* one column's range does not cost the next column's (guarded, catalog.go:301).
NoReadAfterAbort ==
  exit = Running /\ error = "none" /\ stage \notin {"setup", "write"} => tx = "open"

\* What a pull in this mode sets out to say of a column and of a table.
WantedOf(i, c) ==
  LET col == db[i].cols[c] IN
    CASE col.cat = "numeric"  -> {"range", "histogram"}
      [] col.cat = "temporal" -> {"range"}
      [] col.cat = "text"     -> {"format"}
      [] col.cat = "bytea"    -> {"length"}
      [] col.cat = "json"     -> {"shape"}
      [] OTHER                -> {}

UniqueWanted(i, c) == opts.exact \/ db[i].cols[c].stats = "many"
Unsettled(i, c)    == ~Present(i, c, "unique") /\ ~Present(i, c, "duplicates")

\* The facts a warning accounts for: its own and, after a sample, whether the column is
\* unique; after the references, the partitions.
Accounts(about) ==
  CASE about \in {"format", "shape"} -> {about, "unique"}
    [] about = "references" -> {"fanout", "orphans", "strategy", "skew", "key", "total_bytes"}
    [] OTHER -> {about}

Accounted(i, c, f) == \E w \in warned : w[1] = i /\ w[2] = c /\ f \in Accounts(w[3])

Told(i, c, f) == Present(i, c, f) \/ Accounted(i, c, f)

ColumnTold(i, c) ==
  /\ \A f \in WantedOf(i, c) : Told(i, c, f)
  /\ UniqueWanted(i, c) /\ Unsettled(i, c) => Accounted(i, c, "unique")
  /\ opts.exact \/ db[i].cols[c].stats # "none" => Present(i, c, "distinct")

ReferencesTold(i) ==
  \A n \in DOMAIN db[i].refs, f \in {"fanout", "orphans"} :
    Present(i, db[i].refs[n].col, f) \/ Accounted(i, Whole, f)

PartitionsTold(i) ==
  db[i].partitioned => \A f \in {"strategy", "skew", "key", "total_bytes"} : Told(i, Whole, f)

\* When the fixture is about to be written, each fact it lacks about a table that is
\* still there is accounted for by a warning about that column or table (degrade,
\* catalog.go:285: "this never drops a fact without saying so").
AbsentFactsAreWarned ==
  stage = "profiled" =>
    \A i \in 1 .. Len(db) \ dropped :
      (\A c \in DOMAIN db[i].cols : ColumnTold(i, c)) /\ ReferencesTold(i) /\ PartitionsTold(i)

\* A key that is no proof and looks like one to applyUniquenessProofs.
Misleading(k) == k.expr \/ ~k.valid

\* A column the fixture calls unique, whether by a key or by a probe, has no value
\* twice, unless a key with an expression or an invalid index is what says so.
UniqueIsReal ==
  \A x \in facts :
    x.of[3] = "unique" =>
      LET tab == db[x.of[1]] IN
        ~tab.cols[x.of[2]].dup \/ \E k \in tab.keys : Misleading(k) /\ k.on = {x.of[2]}

\* Under a statement timeout a pull ends, whatever the server is slow at.
PullEnds == opts.limited ~> exit # Running
=============================================================================
