------------------------------ MODULE Hydrate ------------------------------
(***************************************************************************)
(* A fixture becomes a database: Generate (internal/hydrate/engine.go)     *)
(* makes the rows, table by table; ddl.go makes the statements; and Load   *)
(* sends them.  Load's actions are those of its module, where the server   *)
(* may refuse any statement: here it refuses what the rows it holds do not *)
(* satisfy.  That the server may go away is left to Load.  The plan is     *)
(* made here and is none of Load's Plans.                                  *)
(*                                                                         *)
(* Tables are in the order of their names; schemas, extensions, sequences  *)
(* and types, which come before them, are never refused for a row.         *)
(***************************************************************************)
EXTENDS Load, Synthesis, SequencesExt

CONSTANTS
  Runs,             \* fixtures with the options they are hydrated with
  Draws,            \* how many numbers the generator of a cell may give
  Widest,           \* 2^63
  DefaultMaxCells

ASSUME HydrateAssumption == Draws \in Nat \ {0} /\ Widest \in Nat \ {0} /\ DefaultMaxCells \in Nat

(* What a fixture may say. *)

IsRange(r) == r.lo \in Int /\ r.hi \in Int /\ r.lo <= r.hi

Types == {"int", "time", "text", "bool", "json", "uuid", "enum", "unsupported"}

IsColumn(c) ==
  /\ c.type \in Types
  /\ c.distinct \in Int /\ c.labels \in Nat \ {0} /\ c.unique \in BOOLEAN
  /\ \A r \in c.range : IsRange(r)

IsConstraint(con) ==
  /\ con.kind \in {"primary_key", "unique", "check", "foreign_key", "exclusion"}
  /\ con.values \subseteq Int /\ IsFiniteSet(con.values)
  /\ \A b \in con.bounds : b.lo \in Int /\ b.hi \in Int
  /\ IsFiniteSet(con.bounds)

IsRef(ref) ==
  /\ ref.orphans \in Int
  /\ \A f \in ref.fanout : f.mean \in Int /\ f.p50 \in Int /\ f.p95 \in Int /\ f.max \in Int

IsTable(tab) ==
  /\ tab.rows \in Int
  /\ IsFiniteSet(DOMAIN tab.cols) /\ \A c \in DOMAIN tab.cols : IsColumn(tab.cols[c])
  /\ tab.cons \in Seq(Range(tab.cons)) /\ \A con \in Range(tab.cons) : IsConstraint(con)
  /\ tab.refs \in Seq(Range(tab.refs)) /\ \A ref \in Range(tab.refs) : IsRef(ref)
  /\ tab.indexes \in Seq(Range(tab.indexes))
  /\ tab.parts.count \in Int

ASSUME RunsAssumption ==
  \A r \in Runs : /\ r.tables \in Seq(Range(r.tables)) /\ r.maxCells \in Int
                  /\ \A t \in DOMAIN r.tables : IsTable(r.tables[t])

VARIABLES
  run,       \* the fixture's tables and the options
  stage,     \* "count", "budget", "generate", "load", "refused"
  counts,    \* rowCounts
  rows       \* the tables generated so far: [ordinals -> [columns -> values]]

hydrateVars == <<run, stage, counts, rows, vars>>

HydrateInit ==
  /\ run \in Runs
  /\ stage = "count" /\ counts = <<>> /\ rows = <<>>
  /\ plan = <<>> /\ pc = "begin" /\ i = 1 /\ link = "up" /\ tx = "none"
  /\ made = {} /\ kept = {} /\ reported = {} /\ durable = {} /\ refused = {}

Tab(t)     == run.tables[t]
Tabs       == DOMAIN run.tables
Cols(t)    == DOMAIN Tab(t).cols
Col(t, c)  == Tab(t).cols[c]
Ordinals(t) == 0 .. counts[t] - 1

Highest(S) == CHOOSE x \in S : \A y \in S : y <= x

\* The elements of s that are in S, in their order.
Among(s, S) == FlattenSeq([n \in DOMAIN s |-> IF s[n] \in S THEN <<s[n]>> ELSE <<>>])

\* parentIDColumn
Parent(ref) ==
  IF ref.to.table \in Tabs /\ ref.to.col \in Cols(ref.to.table)
  THEN {Col(ref.to.table, ref.to.col)} ELSE {}
ParentRows(ref) == IF ref.to.table \in Tabs THEN counts[ref.to.table] ELSE 0
-----------------------------------------------------------------------------
(* Row counts and the budget *)

Wrap(x) == ((x + Widest) % (2 * Widest)) - Widest

\* A float64 that is no int64 becomes the largest or the smallest, by the processor.
ToInt(x) == IF x < Widest THEN {x} ELSE {Widest - 1, -Widest}

\* hydratedRowCount
HydratedRowCount(declared) ==
  LET capped(n) == IF run.maxRows > 0 THEN Lesser(n, run.maxRows) ELSE n IN
    IF declared <= 0 THEN {0}
    ELSE {capped(Greater(n, 1)) : n \in ToInt((declared * run.num) \div run.den)}

Count ==
  /\ stage = "count"
  /\ \E f \in [Tabs -> 0 .. Widest - 1] :
       /\ \A t \in Tabs : f[t] \in HydratedRowCount(Tab(t).rows)
       /\ counts' = f
  /\ stage' = "budget"
  /\ UNCHANGED <<run, rows, vars>>

Limit     == IF run.maxCells = 0 THEN DefaultMaxCells ELSE run.maxCells
Width(t)  == Greater(Cardinality(Cols(t)), 1)
Quotient(a, b) == IF a >= 0 THEN a \div b ELSE -((-a) \div b)

\* Mutant of Fits: only the sum is looked at.
FitsUnchecked ==
  LET cells == [t \in Tabs |-> Wrap(counts[t] * Width(t))]
      total[t \in 0 .. Len(run.tables)] == IF t = 0 THEN 0 ELSE Wrap(total[t - 1] + cells[t])
  IN  \/ Limit < 0
      \/ (\A t \in Tabs : total[t] >= 0) /\ total[Len(run.tables)] <= Limit

\* checkBudget: neither a product nor the sum has overflowed, and the sum is no more
\* than the limit.
Fits ==
  LET cells == [t \in Tabs |-> Wrap(counts[t] * Width(t))]
      total[t \in 0 .. Len(run.tables)] == IF t = 0 THEN 0 ELSE Wrap(total[t - 1] + cells[t])
  IN  \/ Limit < 0
      \/ /\ \A t \in Tabs : /\ counts[t] = 0 \/ Quotient(cells[t], Width(t)) = counts[t]
                            /\ total[t] >= 0
         /\ total[Len(run.tables)] <= Limit

CheckBudget ==
  /\ stage = "budget"
  /\ stage' = IF Fits THEN "generate" ELSE "refused"
  /\ UNCHANGED <<run, counts, rows, vars>>
-----------------------------------------------------------------------------
(* generateTable *)

\* generatedByDatabase: a stored column whose expression is known.
GeneratedByDatabase(c) == c.generated = "stored" /\ c.expr = "known"
Insertable(t)          == {c \in Cols(t) : ~GeneratedByDatabase(Col(t, c))}

UnsupportedType(c) == c.type = "unsupported" /\ ~GeneratedByDatabase(c)

\* The reference that assigns a column: of several, the last.
RefsOf(t, c)    == {n \in DOMAIN Tab(t).refs : Tab(t).refs[n].col = c}
IsFK(t, c)      == RefsOf(t, c) # {}
Assigning(t, c) == Tab(t).refs[Highest(RefsOf(t, c))]

\* The cells whose number matters.
Drawn(t) ==
  {c \in Insertable(t) : /\ ~IsFK(t, c)
                         /\ ~Col(t, c).unique \/ CheckDomains(Tab(t), c).values # {}}

\* Mutant of Generated: the columns that refer to a parent are left for later.
GeneratedOwn(t, assigned, draw) ==
  [o \in Ordinals(t) |->
     [c \in {c \in Insertable(t) : ~IsFK(t, c)} |->
        LET d == IF c \in Drawn(t) THEN draw[o][c] ELSE 0 IN
          ApplyCheckDomain(GenerateValue(Col(t, c), o, d), CheckDomains(Tab(t), c), d)]]

Generated(t, assigned, draw) ==
  [o \in Ordinals(t) |->
     [c \in Insertable(t) |->
        IF IsFK(t, c)
        THEN ParentIDValue(Parent(Assigning(t, c)), assigned[c][o], ParentRows(Assigning(t, c)))
        ELSE LET d == IF c \in Drawn(t) THEN draw[o][c] ELSE 0 IN
               ApplyCheckDomain(GenerateValue(Col(t, c), o, d), CheckDomains(Tab(t), c), d)]]

Assignments(t, c) ==
  AssignForeignKeys(Assigning(t, c), counts[t], ParentRows(Assigning(t, c)), Tab(t).rows)

GenerateTable ==
  /\ stage = "generate" /\ Len(rows) < Len(run.tables)
  /\ LET t  == Len(rows) + 1
         fk == {c \in Insertable(t) : IsFK(t, c)}
     IN  IF \E c \in Cols(t) : UnsupportedType(Col(t, c))
         THEN stage' = "refused" /\ UNCHANGED rows
         ELSE /\ \E draw \in [Ordinals(t) -> [Drawn(t) -> 0 .. Draws - 1]],
                    assigned \in [fk -> UNION {Assignments(t, c) : c \in fk}] :
                   /\ \A c \in fk : assigned[c] \in Assignments(t, c)
                   /\ rows' = Append(rows, Generated(t, assigned, draw))
              /\ UNCHANGED stage
  /\ UNCHANGED <<run, counts, vars>>
-----------------------------------------------------------------------------
(* ddl.go *)

\* partitionClause: the parent is declared partitioned.
Partitioned(p) == p.by \in {"range", "list", "hash"} /\ p.key # ""

\* constraintFitsPartitionKey: only a key of one plain column is known to be contained.
FitsPartitionKey(con, p) == p.key = "" \/ (p.plain /\ p.key \in con.cols)

\* createTable: the keys that are declared with the table.
InlineKeys(t) ==
  {con \in Range(Tab(t).cons) :
     con.kind \in {"primary_key", "unique"} /\ FitsPartitionKey(con, Tab(t).parts)}

\* Mutant of Backed: constraints of every kind.
BackedByAny(t) == {con.name : con \in Range(Tab(t).cons)}

\* constraintBackedIndexes
Backed(t) == {con.name : con \in {con \in Range(Tab(t).cons) : con.kind \in {"primary_key", "unique"}}}

Statement(kind, t, what) == [kind |-> kind, t |-> t, what |-> what]
Many(t, kind, whats)     == [n \in DOMAIN whats |-> Statement(kind, t, whats[n])]

\* Partitions: the rows of a hash are spread, all others go to a default.
PartitionsOf(p) ==
  IF ~Partitioned(p) THEN <<>>
  ELSE [n \in 1 .. (IF p.by = "hash" THEN Greater(p.count, 1) ELSE 1) |-> n]

\* insertRows sends nothing for a table without rows.
Copies(t) == IF counts[t] = 0 \/ Insertable(t) = {} THEN <<>> ELSE <<t>>

\* createIndex, of those no constraint brings: not when its predicate is withheld.
IndexesOf(t) ==
  LET all == Tab(t).indexes IN
    Among(all, {ix \in Range(all) : ix.name \notin Backed(t) /\ ix.partial # "opaque"})

\* addConstraint: a CHECK, unless its body is withheld or it has no name.
ChecksOf(t) == Among(Tab(t).cons, {con \in Range(Tab(t).cons) : con.kind = "check" /\ con.known})

\* addForeignKeys: the references of one name are one key, as its first says.
ForeignKeys(t) ==
  LET refs     == Tab(t).refs
      first(n) == refs[n].name = "" \/ \A m \in 1 .. n - 1 : refs[m].name # refs[n].name
      key(n)   == IF refs[n].name = "" THEN <<refs[n]>>
                  ELSE Among(refs, {ref \in Range(refs) : ref.name = refs[n].name})
  IN  FlattenSeq([n \in DOMAIN refs |-> IF first(n) THEN <<key(n)>> ELSE <<>>])

\* identityResets
Identities(t) == SetToSeq({c \in Cols(t) : Col(t, c).generated = "identity"})

All(of(_)) == FlattenSeq([t \in Tabs |-> of(t)])

Statements ==
  All(LAMBDA t : <<Statement("ddl", t, "table")>>)
  \o All(LAMBDA t : Many(t, "partition", PartitionsOf(Tab(t).parts)))
  \o All(LAMBDA t : Many(t, "copy", Copies(t)))
  \o All(LAMBDA t : Many(t, "index", IndexesOf(t)))
  \o All(LAMBDA t : Many(t, "check", ChecksOf(t)) \o Many(t, "fk", ForeignKeys(t)))
  \o All(LAMBDA t : Many(t, "reset", Identities(t)))

\* Load runs both as constraints.
KindOf(s) == IF s.kind \in {"check", "fk"} THEN "constraint" ELSE s.kind

\* Every column, with its table.
Columns == UNION {{t} \X Cols(t) : t \in Tabs}

\* What the report says besides what was skipped.
UnreproducibleGenerated ==
  {place \in Columns : LET c == Col(place[1], place[2]) IN
     \/ c.generated = "stored" /\ c.expr # "known"
     \/ c.generated = "virtual"}

UnreproducibleDefaults ==
  {place \in Columns : LET c == Col(place[1], place[2]) IN
     c.default = "opaque" /\ ~c.nullable /\ c.generated = "none"}

UnreproducedPartitionCounts ==
  {t \in Tabs : LET p == Tab(t).parts IN
     p.by # "none" /\ (~Partitioned(p) \/ (p.by # "hash" /\ p.count > 1))}

StartLoad ==
  /\ stage = "generate" /\ Len(rows) = Len(run.tables)
  /\ stage' = "load"
  /\ plan' = [n \in DOMAIN Statements |-> KindOf(Statements[n])]
  /\ UNCHANGED <<run, counts, rows, pc, i, link, tx, made, kept, reported, durable, refused>>
-----------------------------------------------------------------------------
(* What the server makes of a statement *)

Held(t) == IF counts[t] = 0 THEN {} ELSE Range(rows[t])

\* A literal is one of a CHECK of the column's own.
Accepts(c, v) ==
  IF v = Null THEN c.nullable
  ELSE /\ v[1] \in {"literal", IF c.type = "enum" THEN "label" ELSE c.type}
       /\ v[1] = "text" /\ c.narrow => v[2] < Short
       /\ c.domain => v[2] \notin c.forbids

\* No two rows are alike in all the columns of a key, unless one of them is NULL.
Distinct(t, cols) ==
  \A o, p \in Ordinals(t) :
    o < p => \E c \in cols : rows[t][o][c] # rows[t][p][c] \/ rows[t][o][c] = Null

CopyAccepted(t) ==
  /\ \A row \in Held(t) : \A c \in Insertable(t) : Accepts(Col(t, c), row[c])
  /\ \A con \in InlineKeys(t) : Distinct(t, con.cols)

IndexAccepted(t, ix) == ix.buildable /\ (ix.unique /\ ix.partial = "none" => Distinct(t, ix.cols))

Satisfies(con, v) ==
  \/ v = Null
  \/ /\ con.values # {} => v[1] = "literal" /\ v[2] \in con.values
     /\ \A b \in con.bounds : v[2] \in b.lo .. b.hi

CheckAccepted(t, con) == con.notValid \/ \A row \in Held(t) : Satisfies(con, row[con.col])

\* The columns referred to are a key of their table.
KeyOf(t, cols) ==
  t \in Tabs /\ \/ \E con \in InlineKeys(t) : con.cols = cols
                \/ \E k \in made : Statements[k].kind = "index" /\ Statements[k].t = t
                                   /\ LET ix == Statements[k].what IN
                                        ix.unique /\ ix.partial = "none" /\ ix.cols = cols

Resolves(row, key) ==
  \/ \E n \in DOMAIN key : row[key[n].col] = Null
  \/ \E parent \in Held(key[1].to.table) : \A n \in DOMAIN key : parent[key[n].to.col] = row[key[n].col]

ForeignKeyAccepted(t, key) ==
  /\ KeyOf(key[1].to.table, {key[n].to.col : n \in DOMAIN key})
  /\ key[1].notValid \/ \A row \in Held(t) : Resolves(row, key)

Values(t, c) == {row[c][2] : row \in Held(t)}

\* setval is refused a value below the sequence's first.
ResetAccepted(t, c) == Values(t, c) = {} \/ Highest(Values(t, c)) >= 1

Accepted(s) ==
  CASE s.kind \in {"ddl", "partition"} -> TRUE
    [] s.kind = "copy"  -> CopyAccepted(s.t)
    [] s.kind = "index" -> IndexAccepted(s.t, s.what)
    [] s.kind = "reset" -> ResetAccepted(s.t, s.what)
    [] s.kind = "check" -> CheckAccepted(s.t, s.what)
    [] s.kind = "fk"    -> ForeignKeyAccepted(s.t, s.what)

Judged == i \in refused' <=> ~Accepted(Statements[i])

Loading ==
  /\ stage = "load"
  /\ \/ Begin
     \/ Exec /\ Judged
     \/ Savepoint
     \/ ExecGuarded /\ Judged
     \/ RollbackTo \/ Release \/ SendCommit
     \/ Commit
     \/ Rollback
  /\ UNCHANGED <<run, stage, counts, rows>>

Ended == (stage = "refused" \/ pc \in Returned) /\ UNCHANGED hydrateVars

HydrateNext == Count \/ CheckBudget \/ GenerateTable \/ StartLoad \/ Loading \/ Ended

HydrateSpec == HydrateInit /\ [][HydrateNext]_hydrateVars
-----------------------------------------------------------------------------
Shapes == {"null", "int", "time", "text", "literal", "label", "bool", "json", "uuid"}

\* The type of the state: every row has a value for each column that takes one.
HydrateTypeOK ==
  /\ run \in Runs
  /\ stage \in {"count", "budget", "generate", "load", "refused"}
  /\ counts = <<>> \/ counts \in [Tabs -> 0 .. Widest - 1]
  /\ Len(rows) \in 0 .. Len(run.tables)
  /\ \A t \in DOMAIN rows : /\ DOMAIN rows[t] = Ordinals(t)
                            /\ \A row \in Held(t) : /\ DOMAIN row = Insertable(t)
                                                    /\ \A c \in DOMAIN row : row[c][1] \in Shapes /\ row[c][2] \in Int
  /\ TypeOK

\* What is generated is within the limit, counted without overflow (engine.go:98: "bounded
\* enough to fail before the OOM killer does").
WithinBudget ==
  stage \in {"generate", "load"} /\ Limit >= 0 =>
    SumFunctionOnSet([t \in Tabs |-> counts[t] * Width(t)], Tabs) <= Limit

\* A column whose generated values are as many as its rows: of a type with room for them,
\* with no CHECK to bring them together.
Injective(t, c) ==
  /\ c \in Insertable(t) /\ ~IsFK(t, c)
  /\ LET col == Col(t, c) IN
       /\ col.unique /\ col.type \in {"int", "text", "uuid"} /\ ~col.narrow
  /\ CheckDomains(Tab(t), c).values = {} /\ CheckDomains(Tab(t), c).bounds = {}

\* A reference to such a column, whose values the child can make again and has room for.
Sound(t, ref) ==
  /\ ref.col \in Insertable(t) /\ Cardinality(RefsOf(t, ref.col)) = 1
  /\ ref.to.table \in Tabs /\ ParentRows(ref) > 0
  /\ Injective(ref.to.table, ref.to.col)
  /\ LET child == Col(t, ref.col)  parent == Col(ref.to.table, ref.to.col) IN
       /\ child.type = parent.type /\ ~child.narrow
       /\ ~parent.nullable /\ (parent.domain => parent.type = "text")

\* The tables whose rows can be loaded: of each key one column is injective, no domain has
\* a CHECK, and each reference is sound.
Synthesizable(t) ==
  /\ \A con \in InlineKeys(t) : \E c \in con.cols : Injective(t, c)
  /\ \A c \in Cols(t) : Col(t, c).domain => Col(t, c).forbids = {}
  /\ \A ref \in Range(Tab(t).refs) : Sound(t, ref)

\* The fixture's orphan fraction comes to a row at least, and there is a group to spare.
OrphansDue(t, ref) ==
  ref.fanout # {} /\ Rounded(ref.orphans * counts[t], 4) > 0 /\ ParentRows(ref) > 1

\* The rows of such a table are accepted with its keys, and a foreign key of one column is
\* accepted if and only if the fixture has no orphans for it or has not validated it, if
\* the column it refers to is a key: no orphan is invented (engine.go:815) and none is lost
\* (fanout.go:278).
RowsFitTheSchema ==
  \A k \in DOMAIN plan :
    LET s == Statements[k] IN
      /\ s.kind = "copy" /\ k \in refused => ~Synthesizable(s.t)
      /\ (/\ s.kind = "fk" /\ Len(s.what) = 1 /\ Synthesizable(s.t) /\ counts[s.t] > 0
          /\ \E con \in InlineKeys(s.what[1].to.table) : con.cols = {s.what[1].to.col})
         => /\ k \in refused => OrphansDue(s.t, s.what[1]) /\ ~s.what[1].notValid
            /\ k \in made => ~OrphansDue(s.t, s.what[1]) \/ s.what[1].notValid

\* The constraints that are neither made nor told of, against the code's own words: "one
\* nobody was told about is a bug in the verdict" (hydrate.go:239).  An exclusion constraint, a
\* CHECK whose body is withheld, and a key that may not contain the partition key.
Unreported(t, con) ==
  \/ con.kind = "exclusion"
  \/ con.kind = "check" /\ ~con.known
  \/ LET p == Tab(t).parts IN
       con.kind \in {"primary_key", "unique"} /\ p.key # "" /\ (p.plain => p.key \notin con.cols)

\* An index that a key of its name brings with it, or would if it were made.
BroughtByKey(t, ix) ==
  \E con \in Range(Tab(t).cons) :
    /\ con.kind \in {"primary_key", "unique"} /\ con.name = ix.name
    /\ con \in InlineKeys(t) \/ Unreported(t, con)

Created(kind, t, what) ==
  \E k \in durable \union reported :
    Statements[k].kind = kind /\ Statements[k].t = t /\ Statements[k].what = what

\* After a load every constraint, index, generated column, default and partition count of
\* the fixture is in the target or in the report (load.go:177: "a difference between the
\* target and production that the caller MUST surface"), those excepted that are Unreported
\* and an index whose predicate is withheld.  A foreign key is told of by its references.
DifferencesAreTold ==
  pc = "loaded" =>
    \A t \in Tabs :
      /\ \A con \in Range(Tab(t).cons) :
           \/ con.kind = "foreign_key" \/ Unreported(t, con)
           \/ con \in InlineKeys(t) \/ Created("check", t, con)
      /\ \A ref \in Range(Tab(t).refs) :
           \E key \in Range(ForeignKeys(t)) : ref \in Range(key) /\ Created("fk", t, key)
      /\ \A ix \in Range(Tab(t).indexes) :
           ix.partial = "opaque" \/ BroughtByKey(t, ix) \/ Created("index", t, ix)
      /\ \A c \in Cols(t) :
           /\ Col(t, c).generated \in {"stored", "virtual"} =>
                GeneratedByDatabase(Col(t, c)) \/ <<t, c>> \in UnreproducibleGenerated
           /\ Col(t, c).default = "opaque" /\ Col(t, c).generated = "none" =>
                Col(t, c).nullable \/ <<t, c>> \in UnreproducibleDefaults
      /\ LET p == Tab(t).parts IN
           p.by # "none" => \/ t \in UnreproducedPartitionCounts
                            \/ Len(PartitionsOf(p)) = Greater(p.count, 1)

WasReset(t, c) ==
  \E k \in durable : Statements[k].kind = "reset" /\ Statements[k].t = t /\ Statements[k].what = c

\* Mutant of NextIdentity: setval(..., false).
NextIdentityNotCalled(t, c) ==
  IF ~WasReset(t, c) THEN 1
  ELSE IF Values(t, c) = {} THEN 1 ELSE Highest(Values(t, c))

\* The value an INSERT that omits the column gets: setval(..., COALESCE(MAX, 1), true).
NextIdentity(t, c) ==
  IF ~WasReset(t, c) THEN 1
  ELSE IF Values(t, c) = {} THEN 2 ELSE Highest(Values(t, c)) + 1

\* After a load an INSERT that omits an identity column collides with no row, nor do the
\* INSERTs after it (load.go:143: "That is a wrong FAIL").
IdentityContinues ==
  pc = "loaded" =>
    \A t \in Tabs, c \in UNION {Cols(u) : u \in Tabs} :
      c \in Cols(t) /\ Col(t, c).generated = "identity" =>
        \A v \in Values(t, c) : v < NextIdentity(t, c)
=============================================================================
