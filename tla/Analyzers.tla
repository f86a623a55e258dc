----------------------------- MODULE Analyzers -----------------------------
(***************************************************************************)
(* internal/findings: the analyzers, which read a migration statement by   *)
(* statement beside the fixture, and report what they find.  Each of them  *)
(* loops over the whole migration; what it remembers from one statement to *)
(* the next is a variable here.  Beside them, PostgreSQL runs the same     *)
(* statements the way they are written.                                    *)
(*                                                                         *)
(* A statement is what its text says: a keyword the analyzers look for is  *)
(* there when a clause brings it, wherever that clause stands.  Names that *)
(* look like keywords, and estimates, are left out.                        *)
(***************************************************************************)
EXTENDS Integers, Sequences, FiniteSets

CONSTANTS
  Fixtures,       \* the fixtures looked at
  Families,       \* sets of statements: a migration is written with one of them
  MaxStatements,  \* the bound on the length of a migration
  MassDML,        \* massDMLThreshold and backfillThreshold
  Widest          \* 2^63

ASSUME BoundsAssumption ==
  MaxStatements \in Nat /\ MassDML \in Nat /\ MassDML > 1 /\ Widest \in Nat \ {0}

VARIABLES
  fixture,   \* the fixture
  family,    \* the statements this migration is written with
  script,    \* the statements read
  done,      \* the analyzers have returned
  depth,     \* rsTx: the depth of transactions
  epoch,     \* rsConstraint: the transaction epoch
  adds,      \* rsConstraint.notValidAdds: [name, table, epoch]
  fkCols,    \* rsData.fkCols: [name, table, col]
  bounded,   \* rsSequence.sawLockTimeout
  locking,   \* rsSequence.byTable: [table, at]
  findings,  \* the findings
  open,      \* the server is inside an explicit transaction,
  tx,        \* the number of the last one,
  rewinds,   \* and the rollbacks to a savepoint in it
  made,      \* the NOT VALID constraints added and not rolled back
  truth      \* what the server makes of the statements, where that takes its state

analyzers == <<depth, epoch, adds, fkCols, bounded, locking, findings>>
server    == <<open, tx, rewinds, made, truth>>
vars == <<fixture, family, script, done, depth, epoch, adds, fkCols, bounded, locking,
          findings, open, tx, rewinds, made, truth>>

Init ==
  /\ fixture \in Fixtures /\ family \in Families
  /\ script = <<>> /\ done = FALSE
  /\ depth = 0 /\ epoch = 0 /\ adds = {} /\ fkCols = {} /\ bounded = FALSE /\ locking = {}
  /\ findings = {}
  /\ open = FALSE /\ tx = 0 /\ rewinds = 0 /\ made = {} /\ truth = {}
-----------------------------------------------------------------------------
(* The fixture.  A table is known by its schema and its name, a fact that may *)
(* be missing is a set of at most one record.                                 *)

Unqualified == "(no schema)"
Whole       == "(table)"
Nowhere     == <<"", "">>         \* rsSequence's table of a statement that names none
Unnamed     == ""

Tables   == DOMAIN fixture.tables
Known(t) == t \in Tables
Of(t)    == fixture.tables[t]
Columns(t) == IF Known(t) THEN DOMAIN Of(t).cols ELSE {}
FactsOf(t, c, fact) == IF c \in Columns(t) THEN Of(t).cols[c][fact] ELSE {}
OneOf(S) == CHOOSE x \in S : TRUE

\* The tables an unqualified name may mean: which one depends on the search_path.
Meant(raw) == {t \in Tables : t = raw \/ (raw[1] = Unqualified /\ t[2] = raw[2])}

\* ResolveTable: an exact match, or the only match of an unqualified name.
ResolveTable(raw) ==
  IF Cardinality(Meant(raw)) = 1 THEN OneOf(Meant(raw)) ELSE raw

\* estimate.Major: 0 is a version that is not declared.
HasVersion == fixture.version # 0

AtLeastMeasured(x) == x.conf \in {"exact", "measured"}

\* orphanFraction: the first reference of that column.
References(t, col) == IF Known(t) THEN {i \in DOMAIN Of(t).refs : Of(t).refs[i].col = col} ELSE {}
Earliest(I)        == CHOOSE i \in I : \A j \in I : i <= j
Orphans(t, col)    ==
  IF References(t, col) = {} THEN {} ELSE Of(t).refs[Earliest(References(t, col))].orphans

(***************************************************************************)
(* What a fixture is sure to be: a table is recorded with its schema, the  *)
(* nulls of a column are a part of the rows, and no sample measures        *)
(* `unique' (INV-UNIQUENESS): a fixture written by hand may declare or     *)
(* estimate it.                                                            *)
(***************************************************************************)
ASSUME FixturesAssumption ==
  \A f \in Fixtures :
    /\ IsFiniteSet(DOMAIN f.tables)
    /\ \A t \in DOMAIN f.tables :
         LET table == f.tables[t] IN
           /\ t[1] # Unqualified /\ table.rows \in Nat /\ Whole \notin DOMAIN table.cols
           /\ \A c \in DOMAIN table.cols :
                /\ \A x \in table.cols[c].nulls : x.n \in 0 .. table.rows
                /\ \A x, y \in table.cols[c].nulls : x = y
                /\ \A u \in table.cols[c].unique : u.value \in BOOLEAN /\ u.conf # "measured"
           /\ IsFiniteSet(DOMAIN table.refs) /\ DOMAIN table.refs \subseteq Nat
           /\ \A i \in DOMAIN table.refs : \A x \in table.refs[i].orphans : x.n \in Nat

(* The text of a statement *)

Clauses(s)        == IF s.is = "ALTER TABLE" THEN s.does ELSE <<>>

\* PostgreSQL's grammar has ATTACH PARTITION alone in its statement.
ASSUME ClausesAssumption ==
  \A F \in Families : \A s \in F :
    /\ DOMAIN Clauses(s) \subseteq Nat /\ IsFiniteSet(DOMAIN Clauses(s))
    /\ \A i \in DOMAIN Clauses(s) :
         /\ Clauses(s)[i].do = "UNIQUE" => IsFiniteSet(Clauses(s)[i].cols)
         /\ Clauses(s)[i].do = "ATTACH PARTITION" => DOMAIN Clauses(s) = {i}

DML(s) == s.is \in {"UPDATE", "DELETE"}

\* literalInt: a bound is an int64.
ASSUME WindowsAssumption ==
  \A F \in Families : \A s \in F :
    DML(s) /\ s.where.p = "within" /\ s.where.literal =>
      s.where.lo \in -Widest .. Widest - 1 /\ s.where.hi \in -Widest .. Widest - 1

Places(s, what)   == {i \in DOMAIN Clauses(s) : Clauses(s)[i].do \in what}
Says(s, what)     == Places(s, {what}) # {}
FirstOf(s, I)     == Clauses(s)[Earliest(I)]
First(s, what)    == FirstOf(s, Places(s, {what}))
Kinds             == {"CHECK", "FOREIGN KEY", "UNIQUE", "PRIMARY KEY", "EXCLUDE"}
AddConstraint(s)  == {i \in Places(s, Kinds) : Clauses(s)[i].name # Unnamed}
NotValid(s)       == \E i \in Places(s, Kinds) : Clauses(s)[i].notValid
Target(s)         == ResolveTable(s.on)

Finding(code, severity, deps) == [code |-> code, severity |-> severity, deps |-> deps]
Rows(t)      == {<<t, Whole, "rows">>}
Dep(t, c, f) == {<<t, c, f>>}
-----------------------------------------------------------------------------
(* rsTx *)

\* The statements of the list, and ALTER TYPE ... ADD VALUE before PostgreSQL 12.
NonTransactional(s) ==
  \/ s.is \in {"VACUUM", "CLUSTER", "ALTER SYSTEM"}
  \/ s.is \in {"CREATE INDEX", "DROP INDEX"} /\ s.concurrent
  \/ s.is = "REINDEX" /\ s.concurrent /\ s.scope \in {"INDEX", "TABLE"}
  \/ s.is = "ALTER TYPE ADD VALUE" /\ (HasVersion => fixture.version < 12)

\* Mutant of IsTxEnd: the end of a savepoint is one too.
IsTxEndOrRelease(s) == s.is \in {"COMMIT", "ROLLBACK", "ROLLBACK TO", "RELEASE"}

\* isTxEnd: a prefix of ROLLBACK TO SAVEPOINT is ROLLBACK; END is a COMMIT; ABORT is none.
IsTxEnd(s) == s.is \in {"COMMIT", "ROLLBACK", "ROLLBACK TO"}

Deeper(s) ==
  IF s.is = "BEGIN" THEN depth + 1
  ELSE IF IsTxEnd(s) /\ depth > 0 THEN depth - 1 ELSE depth

RsTx(s) ==
  IF NonTransactional(s)
  THEN {Finding("RS-TX-001", IF depth > 0 THEN "error" ELSE "warn", {})} ELSE {}

(* rsConstraint *)

Violates(range, check) ==
  CASE check.op = ">"  -> range.lo <= check.k
    [] check.op = ">=" -> range.lo < check.k
    [] check.op = "<"  -> range.hi >= check.k
    [] check.op = "<=" -> range.hi > check.k

\* checkConflict: a conflict is certain, its absence only when the range is not a sample's.
CheckConflict(t, check) ==
  LET dep == Dep(t, check.col, "range") IN
    {Finding("RS-CONSTRAINT-010", "error", dep) :
       r \in {r \in FactsOf(t, check.col, "range") : Violates(r, check)}}
    \union
    {Finding("RS-CONSTRAINT-010", "warn", dep) :
       r \in {r \in FactsOf(t, check.col, "range") : ~Violates(r, check) /\ r.conf = "estimated"}}

\* The entries a statement leaves in notValidAdds, in the epoch it runs in.
Adding(s, e) ==
  IF AddConstraint(s) # {} /\ NotValid(s)
  THEN {[name |-> FirstOf(s, AddConstraint(s)).name, table |-> Target(s), epoch |-> e]} ELSE {}

Put(map, entries) == {x \in map : \A e \in entries : e.name # x.name} \union entries

\* Mutant of Epoch: every statement is a transaction of its own.
EpochPerStatement(s, new) == epoch + 1

\* The epoch a statement runs in: a new file is a new transaction.
Epoch(s, new) == IF new THEN epoch + 1 ELSE epoch

RsConstraint(s, e) ==
  (IF AddConstraint(s) # {} /\ Says(s, "CHECK")
   THEN CheckConflict(Target(s), First(s, "CHECK")) ELSE {})
  \union
  (IF ~Says(s, "VALIDATE CONSTRAINT") THEN {}
   ELSE {Finding("RS-CONSTRAINT-001", "warn", Rows(x.table)) :
           x \in {x \in Put(adds, Adding(s, e)) :
                    x.name = First(s, "VALIDATE CONSTRAINT").name /\ x.epoch = e}})

(* rsData *)

\* uniquenessState of a key of one column: an exact fact, or none.
Exactly(t, cols, value) ==
  \E c \in cols :
    cols = {c} /\ \E u \in FactsOf(t, c, "unique") : u.conf = "exact" /\ u.value = value

\* uniqueDependency: no fixture carries the fact of a composite key.
UniqueDependency(t, cols) ==
  {<<t, IF Cardinality(cols) = 1 THEN OneOf(cols) ELSE Whole, "unique">>}

\* Mutant of UniqueFinding: a key of several columns rests on the fact of one of them.
UniqueFindingByColumn(code, t, cols) ==
  {Finding(code, IF Exactly(t, cols, FALSE) THEN "error" ELSE "info", {<<t, OneOf(cols), "unique">>})}

UniqueFinding(code, t, cols) ==
  {Finding(code, IF Exactly(t, cols, FALSE) THEN "error" ELSE "info", UniqueDependency(t, cols))}

\* notNullFinding and orphanFinding: a fraction above zero fails, a zero wants a PASS that
\* capping has to grant.
Fraction(code, recorded, dep) ==
  LET some == {x \in recorded : x.n > 0} IN
    {Finding(code,
             IF some = {} THEN "info"
             ELSE IF \E x \in some : AtLeastMeasured(x) THEN "error" ELSE "warn", dep)}

NotNull(t, col) == Fraction("RS-DATA-001", FactsOf(t, col, "nulls"), Dep(t, col, "null_fraction"))
Orphaned(t, col) == Fraction("RS-DATA-020", Orphans(t, col), Dep(t, col, "orphan_fraction"))

\* parseAddForeignKey: its name is the statement's first.
Referencing(s) ==
  IF ~Says(s, "FOREIGN KEY") THEN {}
  ELSE {[name |-> IF AddConstraint(s) = {} THEN Unnamed ELSE FirstOf(s, AddConstraint(s)).name,
         table |-> Target(s), col |-> First(s, "FOREIGN KEY").col]}

RsData(s) ==
  UNION {
    IF Says(s, "UNIQUE") THEN UniqueFinding("RS-DATA-014", Target(s), First(s, "UNIQUE").cols) ELSE {},
    IF Says(s, "SET NOT NULL") THEN NotNull(Target(s), First(s, "SET NOT NULL").col) ELSE {},
    IF NotValid(s) THEN {} ELSE UNION {Orphaned(x.table, x.col) : x \in Referencing(s)},
    IF ~Says(s, "VALIDATE CONSTRAINT") THEN {}
    ELSE UNION {Orphaned(x.table, x.col) :
                  x \in {x \in Put(fkCols, Referencing(s)) :
                           x.name = First(s, "VALIDATE CONSTRAINT").name}}}
-----------------------------------------------------------------------------
(* rsLock *)

\* A type is its family and its length, where 0 is no length.
Unbounded(type) == type[2] = 0

\* isStringWidening: text and varchar only.
StringWidening(old, new) ==
  /\ old[1] = "string" /\ new[1] = "string"
  /\ Unbounded(new) \/ (~Unbounded(old) /\ new[2] >= old[2])

\* classifyRewrite: ADD COLUMN is looked for first, and its first DEFAULT.
Rewrite(s) ==
  LET added    == Places(s, {"ADD COLUMN"})
      defaults == {i \in added : Clauses(s)[i].default \in {"volatile", "unknown", "constant"}}
  IN  CASE added # {} ->
             \/ \E i \in added : Clauses(s)[i].default = "stored"
             \/ /\ defaults # {}
                /\ FirstOf(s, defaults).default = "constant" => fixture.version < 11
        [] added = {} -> Says(s, "TYPE")

\* isNoRewriteTypeChange: of a column whose type the fixture knows.
NoRewriteTypeChange(s) ==
  LET c == First(s, "TYPE") IN
    /\ ~Says(s, "ADD COLUMN")
    /\ c.col \in Columns(Target(s)) /\ StringWidening(Of(Target(s)).cols[c.col].type, c.to)

RsLock(s) ==
  IF Rewrite(s) /\ ~NoRewriteTypeChange(s)
  THEN {Finding("RS-LOCK-001", "warn", Rows(Target(s)))} ELSE {}

(* rsIndex *)

\* indexUniqueFinding: a partial index or one on an expression cannot be decided.
IndexUnique(s) ==
  IF s.partial \/ s.expression THEN {Finding("RS-INDEX-010", "warn", {})}
  ELSE UniqueFinding("RS-INDEX-010", Target(s), s.cols)

\* parseAddIndexConstraint: not with an ADD COLUMN.
AddIndexConstraint(s) ==
  ~Says(s, "ADD COLUMN") /\ (Says(s, "PRIMARY KEY") \/ Says(s, "UNIQUE"))

\* reindexTotal finds something to rebuild.
Rebuilds(s) ==
  CASE s.scope = "INDEX"    -> \E t \in Tables : s.name \in Of(t).indexes
    [] s.scope = "TABLE"    -> Known(Target(s)) /\ Of(Target(s)).indexes # {}
    [] s.scope = "SCHEMA"   -> \E t \in Tables : t[1] = s.name /\ Of(t).indexes # {}
    [] s.scope = "DATABASE" -> \E t \in Tables : Of(t).indexes # {}

RsIndex(s) ==
  CASE s.is = "CREATE INDEX" ->
         (IF s.concurrent THEN {} ELSE {Finding("RS-INDEX-001", "warn", Rows(Target(s)))})
         \union (IF s.unique THEN IndexUnique(s) ELSE {})
    [] s.is = "ALTER TABLE" /\ AddIndexConstraint(s) ->
         {Finding("RS-INDEX-002", "warn", Rows(Target(s)))}
    [] s.is = "REINDEX" /\ ~s.concurrent /\ Rebuilds(s) ->
         {Finding("RS-INDEX-020", "warn", {})}
    [] OTHER -> {}

(* rsExclusive *)

\* findIndex: of two indexes of one name, always the same one.
RsExclusive(s) ==
  CASE s.is = "DROP INDEX" /\ ~s.concurrent ->
         LET found == {t \in Tables : s.name \in Of(t).indexes} IN
           {Finding("RS-INDEX-003", "warn", IF found = {} THEN {} ELSE Rows(OneOf(found)))}
    [] Says(s, "ATTACH PARTITION") -> {Finding("RS-LOCK-003", "warn", {})}
    [] ~Says(s, "ATTACH PARTITION") /\ AddConstraint(s) # {} /\ ~NotValid(s)
         /\ (Says(s, "CHECK") \/ Says(s, "FOREIGN KEY")) /\ Known(Target(s)) ->
         {Finding("RS-CONSTRAINT-020", "warn", Rows(Target(s)))}
    [] OTHER -> {}

(* rsSequence *)

\* takesAccessExclusive: the tables, of which there is at most one.
TakesAccessExclusive(s) ==
  CASE s.is = "ALTER TABLE" ->
         IF /\ ~Says(s, "RENAME") /\ ~Says(s, "RENAME CONSTRAINT")
            /\ \/ AddConstraint(s) # {} /\ ~NotValid(s)
               \/ \E i \in DOMAIN Clauses(s) :
                    Clauses(s)[i].do = "PRIMARY KEY" /\ Clauses(s)[i].name = Unnamed
               \/ Says(s, "ATTACH PARTITION")
               \/ Rewrite(s)
         THEN {Target(s)} ELSE {}
    [] s.is = "VACUUM" /\ s.full -> {Nowhere}
    [] s.is = "CLUSTER" -> {Nowhere}
    [] s.is = "REINDEX" /\ ~s.concurrent -> {Nowhere}
    [] OTHER -> {}

\* What rsSequence reports at the end.
RsSequence ==
  (IF locking # {} /\ ~bounded THEN {Finding("RS-LOCK-010", "warn", {})} ELSE {})
  \union
  {Finding("RS-LOCK-011", "warn", {}) :
     x \in {x \in locking : \E y \in locking : x.table = y.table /\ x.at # y.at}}
-----------------------------------------------------------------------------
(* rsPerf and rsBackfill.  A WHERE clause is one predicate: none, the nulls   *)
(* of a column, a column equal to something, a column within bounds, another. *)

\* cascadeFanoutFindings
Cascades(parent) ==
  {child \in Tables :
     \E i \in DOMAIN Of(child).refs :
       LET r == Of(child).refs[i] IN r.to = parent /\ r.cascade /\ r.longTailed}

RsPerf(s) ==
  (IF s.is \in {"DELETE", "TRUNCATE"}
   THEN {Finding("RS-PERF-001", "warn", Rows(child)) : child \in Cascades(Target(s))} ELSE {})
  \union
  (IF DML(s) /\ s.where.p = "none" /\ Known(Target(s)) /\ Of(Target(s)).rows >= MassDML
   THEN {Finding("RS-PERF-002", "warn", Rows(Target(s)))} ELSE {})

\* matchesUniqueEquality: what stands on the right of the sign is not looked at.
UniqueEquality(t, where) == where.p = "equal" /\ Exactly(t, {where.col}, TRUE)

\* boundedRange: a window of literal integers has a span, which is computed in an int64;
\* another has none.
Wrap(x) == ((x + Widest) % (2 * Widest)) - Widest

\* Mutant of Span: the last key is left out.
SpanShort(where) == IF where.hi < where.lo THEN 0 ELSE Wrap(where.hi - where.lo)

Span(where) == IF where.hi < where.lo THEN 0 ELSE Wrap(where.hi - where.lo + 1)

Window(t, where) ==
  /\ where.p = "within" /\ where.col \in Columns(t)
  /\ where.literal => Span(where) < MassDML

\* estimateAffected, from the nulls of the column.
Affected(t, where) ==
  IF where.p # "null" THEN {}
  ELSE {IF where.negated THEN Of(t).rows - x.n ELSE x.n : x \in FactsOf(t, where.col, "nulls")}

RsBackfill(s) ==
  LET t == Target(s) IN
    IF ~DML(s) THEN {}
    ELSE CASE s.where.p = "none" -> {}
           [] s.where.p # "none" /\ ~Known(t) -> {Finding("RS-PERF-010", "warn", {})}
           [] OTHER ->
                IF \/ Of(t).rows < MassDML
                   \/ UniqueEquality(t, s.where)
                   \/ Window(t, s.where)
                   \/ \E n \in Affected(t, s.where) : n < MassDML
                THEN {} ELSE {Finding("RS-PERF-010", "warn", Rows(t))}

(* rsReverse and rsDeploy *)

\* isNarrowing
Narrowing(old, new) ==
  \/ old[1] = "integer" /\ new[1] = "integer" /\ new[2] < old[2]
  \/ old[1] \in {"string", "char"} /\ ~Unbounded(new) /\ new[1] # "integer"
       /\ (Unbounded(old) \/ new[2] < old[2])
  \/ old[1] = "decimal" /\ new[1] = "integer"

RsReverse(s) ==
  CASE s.is = "DROP TABLE" -> {Finding("RS-REVERSE-002", "warn", Rows(Target(s)))}
    [] s.is = "TRUNCATE" -> {Finding("RS-REVERSE-004", "warn", Rows(Target(s)))}
    [] Says(s, "DROP COLUMN") -> {Finding("RS-REVERSE-001", "warn", Rows(Target(s)))}
    [] ~Says(s, "DROP COLUMN") /\ Says(s, "TYPE") ->
         LET c == First(s, "TYPE") IN
           IF c.col \in Columns(Target(s)) /\ Narrowing(Of(Target(s)).cols[c.col].type, c.to)
           THEN {Finding("RS-REVERSE-003", "warn", Rows(Target(s)))} ELSE {}
    [] OTHER -> {}

RsDeploy(s) ==
  CASE Says(s, "RENAME") \/ Says(s, "RENAME CONSTRAINT") ->
         IF Clauses(s)[1].do = "RENAME" THEN {Finding("RS-DEPLOY-001", "warn", {})} ELSE {}
    [] Says(s, "REPLICA IDENTITY") -> {Finding("RS-DEPLOY-002", "warn", {})}
    [] Says(s, "DROP NOT NULL") /\ ~Says(s, "REPLICA IDENTITY") -> {Finding("RS-DEPLOY-003", "warn", {})}
    [] OTHER -> {}
-----------------------------------------------------------------------------
(* One statement, read by all the analyzers and run by the server *)

\* What a statement is reported for by itself, whatever was read before.
Alone(s) ==
  UNION {RsData(s), RsLock(s), RsIndex(s), RsExclusive(s), RsPerf(s), RsBackfill(s),
         RsReverse(s), RsDeploy(s)}

\* Mutant of At: the statements are counted from one too many.
AtNext(n, found) == {[at |-> n + 1, what |-> x] : x \in found}

At(n, found) == {[at |-> n, what |-> x] : x \in found}

Analyze(s, new) ==
  LET n == Len(script) + 1
      e == Epoch(s, new)
  IN  /\ depth' = Deeper(s)
      /\ epoch' = IF IsTxEnd(s) THEN e + 1 ELSE e
      /\ adds' = Put(adds, Adding(s, e))
      /\ fkCols' = Put(fkCols, Referencing(s))
      /\ bounded' = (bounded \/ s.is = "SET lock_timeout")
      /\ locking' = locking \union {[table |-> t, at |-> n] : t \in TakesAccessExclusive(s)}
      /\ findings' = findings \union At(n, RsTx(s) \union RsConstraint(s, e) \union Alone(s))

\* What PostgreSQL refuses inside a transaction block: CLUSTER of all tables, not of one.
Refuses(s) ==
  \/ s.is \in {"VACUUM", "ALTER SYSTEM"}
  \/ s.is \in {"CREATE INDEX", "DROP INDEX"} /\ s.concurrent
  \/ s.is = "REINDEX" /\ (s.concurrent \/ s.scope \in {"SCHEMA", "DATABASE"})
  \/ s.is = "ALTER TYPE ADD VALUE" /\ (HasVersion => fixture.version < 12)

\* A session is a file's: what it leaves open is rolled back.  BEGIN inside a transaction
\* is a warning.
Serve(s, new) ==
  LET within == open /\ ~new
      undone == (open /\ new) \/ (within /\ s.is \in {"ROLLBACK", "ABORT"})
      kept   == IF undone THEN {x \in made : x.tx # tx} ELSE made
      n      == Len(script) + 1
  IN  /\ open' = CASE s.is = "BEGIN" -> TRUE
                   [] s.is \in {"COMMIT", "ROLLBACK", "ABORT"} -> FALSE
                   [] OTHER -> within
      /\ tx' = IF s.is = "BEGIN" /\ ~within THEN tx + 1 ELSE tx
      /\ rewinds' = IF s.is = "BEGIN" /\ ~within THEN 0
                    ELSE IF s.is = "ROLLBACK TO" THEN rewinds + 1 ELSE rewinds
      /\ made' = kept \union
           {[name |-> x.name, on |-> s.on, tx |-> IF within THEN tx ELSE 0, rewinds |-> rewinds] :
              x \in {Clauses(s)[i] : i \in {i \in AddConstraint(s) : Clauses(s)[i].notValid}}}
      /\ truth' = truth
           \union {[at |-> n, is |-> "refused", rewound |-> rewinds > 0] : x \in {x \in {s} : within /\ Refuses(x)}}
           \union {[at |-> n, is |-> "same transaction", rewound |-> x.rewinds # rewinds] :
                     x \in {x \in made : /\ Says(s, "VALIDATE CONSTRAINT") /\ within
                                         /\ x.on = s.on /\ x.name = First(s, "VALIDATE CONSTRAINT").name
                                         /\ x.tx = tx}}

Read(s, new) ==
  /\ ~done /\ Len(script) < MaxStatements
  /\ new => script # <<>>
  /\ script' = Append(script, s)
  /\ Analyze(s, new)
  /\ Serve(s, new)
  /\ UNCHANGED <<fixture, family, done>>

\* The whole migration has been read; rsSequence reports.
Return ==
  /\ ~done /\ script # <<>>
  /\ done' = TRUE
  /\ findings' = findings \union At(0, RsSequence)
  /\ UNCHANGED <<fixture, family, script, depth, epoch, adds, fkCols, bounded, locking, server>>

Ended == done /\ UNCHANGED vars

Next == (\E s \in family, new \in BOOLEAN : Read(s, new)) \/ Return \/ Ended

Spec == Init /\ [][Next]_vars
-----------------------------------------------------------------------------
(* The verdict on a finding, by the capping engine *)

\* What the fixture records of a fact: of a column of two references, both.
Recorded(t, c, fact) ==
  CASE fact = "rows" -> IF Known(t) THEN {Of(t).conf} ELSE {}
    [] fact = "null_fraction" -> {x.conf : x \in FactsOf(t, c, "nulls")}
    [] fact = "orphan_fraction" ->
         IF ~Known(t) THEN {}
         ELSE UNION {{x.conf : x \in Of(t).refs[i].orphans} :
                       i \in {i \in DOMAIN Of(t).refs : Of(t).refs[i].col = c}}
    [] OTHER -> {x.conf : x \in FactsOf(t, c, fact)}

Cited == UNION {x.what.deps : x \in findings}

Capping == INSTANCE Verdict WITH
  Facts <- {}, Fixtures <- {}, Reports <- {},
  fixture <- [d \in Cited |-> Recorded(d[1], d[2], d[3])], groundTruth <- FALSE,
  report <- <<>>, success <- TRUE, timedOut <- FALSE, pc <- "judge", i <- 1,
  verdict <- "PASS", surfaced <- {}, exit <- 255

VerdictsOn(n) == {Capping!Got(x.what) : x \in {x \in findings : x.at = n}}
NotPassed(n)  == VerdictsOn(n) \intersect {"WARN", "FAIL"} # {}
-----------------------------------------------------------------------------
Levels == {"error", "warn", "info"}

\* The type of the state: what the analyzers remember is of the statements read.
TypeOK ==
  /\ fixture \in Fixtures /\ family \in Families
  /\ script \in Seq(family) /\ Len(script) <= MaxStatements
  /\ done \in BOOLEAN
  /\ depth \in 0 .. Len(script) /\ epoch \in 0 .. 2 * Len(script)
  /\ \A x \in adds : x.epoch \in 0 .. epoch
  /\ bounded \in BOOLEAN
  /\ \A x \in locking : x.at \in DOMAIN script
  /\ \A x \in findings : x.at \in 0 .. Len(script) /\ x.what.severity \in Levels
  /\ open \in BOOLEAN /\ tx \in 0 .. Len(script) /\ rewinds \in 0 .. Len(script)
  /\ \A x \in made : x.tx \in 0 .. tx /\ x.rewinds \in 0 .. Len(script)
  /\ \A x \in truth : x.at \in DOMAIN script

\* REINDEX of a schema or a database, which is not on the list.
Unlisted(s) == s.is = "REINDEX" /\ s.scope \notin {"INDEX", "TABLE"}

\* A statement the server refuses inside the transaction the migration has opened is an
\* error (rstx.go:123), unless a ROLLBACK TO SAVEPOINT was taken for the end of that
\* transaction, or it is Unlisted.
RefusalIsAnError ==
  \A x \in truth :
    x.is = "refused" /\ ~x.rewound /\ ~Unlisted(script[x.at]) =>
      \E y \in findings : y.at = x.at /\ y.what.code = "RS-TX-001" /\ y.what.severity = "error"

\* A constraint validated in the transaction that added it NOT VALID is reported
\* (rsconstraint.go:20), whatever other transactions and files the migration has, and
\* unless a savepoint was rolled back to in between.
SameTransactionIsReported ==
  \A x \in truth :
    x.is = "same transaction" /\ ~x.rewound =>
      \E y \in findings : y.at = x.at /\ y.what.code = "RS-CONSTRAINT-001"

\* A statement whose clauses the analyzers can tell apart.
Plain(s) ==
  /\ Cardinality(Places(s, Kinds)) <= 1
  /\ \A i, j \in DOMAIN Clauses(s) : Clauses(s)[i].do = Clauses(s)[j].do => i = j

\* The statements up to n that add a foreign key, and a constraint of that name.
Bearers(n, name) ==
  {m \in 1 .. n : /\ Says(script[m], "FOREIGN KEY")
                  /\ \E i \in Places(script[m], Kinds) : Clauses(script[m])[i].name = name}

\* The foreign keys a statement validates, when it is sure which one the name is of.
Validated(n) ==
  LET s == script[n]
      bearers == Bearers(n, First(s, "VALIDATE CONSTRAINT").name)
      keys == {First(script[m], "FOREIGN KEY") : m \in bearers}
  IN  IF /\ Says(s, "VALIDATE CONSTRAINT")
         /\ \A m \in bearers : Plain(script[m]) /\ script[m].on = s.on
         /\ \A c, d \in keys : c.col = d.col
      THEN keys ELSE {}

\* The checks of the data that a statement makes the server do, as clauses of a table;
\* VALIDATE makes the check its foreign key put off.
Checks(n) ==
  {c \in {Clauses(script[n])[i] : i \in DOMAIN Clauses(script[n])} :
     \/ c.do \in {"SET NOT NULL", "UNIQUE"}
     \/ c.do \in {"CHECK", "FOREIGN KEY"} /\ ~c.notValid}
  \union Validated(n)

\* What the facts of a table prove of a check: that it fails, that it passes.
Fails(t, c) ==
  CASE c.do = "SET NOT NULL" -> \E x \in FactsOf(t, c.col, "nulls") : x.n > 0 /\ AtLeastMeasured(x)
    [] c.do = "UNIQUE" -> Exactly(t, c.cols, FALSE)
    [] c.do = "CHECK" -> c.name # Unnamed /\ \E r \in FactsOf(t, c.col, "range") : Violates(r, c)
    [] c.do = "FOREIGN KEY" ->
         \E i \in References(t, c.col) : \E x \in Of(t).refs[i].orphans : x.n > 0 /\ AtLeastMeasured(x)

Passes(t, c) ==
  CASE c.do = "SET NOT NULL" -> \E x \in FactsOf(t, c.col, "nulls") : x.n = 0 /\ AtLeastMeasured(x)
    [] c.do = "UNIQUE" -> Exactly(t, c.cols, TRUE)
    [] c.do = "CHECK" -> \E r \in FactsOf(t, c.col, "range") : ~Violates(r, c) /\ r.conf = "exact"
    [] c.do = "FOREIGN KEY" ->
         \A i \in References(t, c.col) : \E x \in Of(t).refs[i].orphans : x.n = 0 /\ AtLeastMeasured(x)

\* The findings a check is judged by, and the verdicts on them.  A CHECK of a column
\* without a range has only the finding about the scan to be judged by.
CodesOf(c) ==
  CASE c.do = "SET NOT NULL" -> {"RS-DATA-001"}
    [] c.do = "UNIQUE"       -> {"RS-DATA-014"}
    [] c.do = "CHECK"        -> {"RS-CONSTRAINT-010", "RS-CONSTRAINT-020"}
    [] c.do = "FOREIGN KEY"  -> {"RS-DATA-020"}

Judged(n, c) == {Capping!Got(x.what) : x \in {x \in findings : x.at = n /\ x.what.code \in CodesOf(c)}}

\* A check of the data that the facts say fails is a FAIL, and one that they do not prove
\* is no PASS, by a finding about that check (dataAnalyzer.Analyze, rsdata.go:28): whatever
\* the table is called in the migration, when two schemas have it, and when the check is
\* put off.  Not: a CHECK without a name or on a table the fixture has not, a foreign key of a
\* column that has two, the statements that are not Plain, and a PRIMARY KEY, which rsData
\* does not read: RS-INDEX-002 warns of its index, whatever the facts say of its columns.
DataRisksAreJudged ==
  \A n \in DOMAIN script :
    Plain(script[n]) =>
      \A c \in Checks(n) :
        LET tables == Meant(script[n].on) IN
          /\ c.do = "CHECK" => c.name # Unnamed /\ tables # {} /\ Cardinality(tables) = 1
          /\ \A t \in tables : c.do = "FOREIGN KEY" => Cardinality(References(t, c.col)) <= 1
          => /\ Cardinality(tables) = 1 /\ (\A t \in tables : Fails(t, c)) => "FAIL" \in Judged(n, c)
             /\ tables = {} \/ (\E t \in tables : ~Passes(t, c)) => Judged(n, c) \intersect {"WARN", "FAIL"} # {}

\* A column with at most one row for each integer.
IntegerKey(t, c) == Exactly(t, {c}, TRUE) /\ Of(t).cols[c].type[1] = "integer"

\* The integers within a window.
KeysWithin(w) == Cardinality(w.lo .. w.hi)

NullsMatched(t, w) ==
  {IF w.negated THEN Of(t).rows - x.n ELSE x.n : x \in {x \in FactsOf(t, w.col, "nulls") : AtLeastMeasured(x)}}

\* The rows a predicate may match, of those the fixture gives the table: one value, or one
\* window of integers, is as many rows only when the column is such a key, and the nulls
\* are counted only when the fraction is no sample's.
MayMatch(t, w) ==
  CASE w.p = "null" /\ NullsMatched(t, w) # {} -> OneOf(NullsMatched(t, w))
    [] w.p = "equal" /\ w.value /\ Exactly(t, {w.col}, TRUE) -> 1
    [] w.p = "within" /\ w.literal /\ IntegerKey(t, w.col) /\ KeysWithin(w) < Of(t).rows -> KeysWithin(w)
    [] OTHER -> Of(t).rows

\* A window whose bounds the caller chooses at run time: "rowshape cannot verify the caller
\* keeps the window small; no static check can" (rsbackfill.go:129).
ChosenByCaller(t, w) == w.p = "within" /\ w.col \in Columns(t) /\ ~w.literal

\* A window of literals that the code takes for a small one: of a column that is no key of
\* integers, or of 2^63 integers or more.
Mismeasured(t, w) ==
  /\ w.p = "within" /\ w.col \in Columns(t) /\ w.literal
  /\ \/ KeysWithin(w) < MassDML /\ ~IntegerKey(t, w.col)
     \/ KeysWithin(w) >= Widest

\* The nulls of a sample.
Sampled(t, w) ==
  w.p = "null" /\ \E x \in FactsOf(t, w.col, "nulls") :
    ~AtLeastMeasured(x) /\ (IF w.negated THEN Of(t).rows - x.n ELSE x.n) < MassDML

\* The writes that are passed though what the fixture knows does not make them small, each
\* a disagreement of the code with its own words: without WHERE, of a table whose name is
\* not resolved; with one, of a table whose name is, by a window that is mismeasured, by a
\* unique column that is equal to no single value, or by the nulls of a sample.
Overlooked(t, s) ==
  IF ~Known(Target(s)) THEN s.where.p = "none"
  ELSE \/ Mismeasured(t, s.where) \/ Sampled(t, s.where)
       \/ s.where.p = "equal" /\ ~s.where.value /\ Exactly(t, {s.where.col}, TRUE)

\* A write that may touch as many rows as make it a mass write is reported, whichever of
\* the two rules has to (rsbackfill.go:37: the two "agree about what large means"), by
\* whatever predicate, and also when its table is not resolved.
MassWritesAreReported ==
  \A n \in DOMAIN script :
    DML(script[n]) =>
      \A t \in Meant(script[n].on) :
        MayMatch(t, script[n].where) >= MassDML =>
          \/ NotPassed(n)
          \/ Known(Target(script[n])) /\ ChosenByCaller(t, script[n].where)
          \/ Overlooked(t, script[n])

\* rsdata.go:37: "One ALTER TABLE can legitimately do both [...] a switch reported only the
\* first, silently dropping a real finding about the second."  Each clause of a statement
\* is reported for what it would be reported for alone.
CombiningLosesNothing ==
  \A n \in DOMAIN script :
    \A i \in DOMAIN Clauses(script[n]) :
      \A x \in Alone([script[n] EXCEPT !.does = <<Clauses(script[n])[i]>>]) :
        \E y \in findings : y.at = n /\ y.what.code = x.code
=============================================================================
