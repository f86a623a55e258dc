---------------------------- MODULE MCAnalyzers ----------------------------
(* Analyzers on four fixtures, with the families of statements whose order   *)
(* matters and, two at a time, the statements that are judged by themselves.  *)
EXTENDS Analyzers, TLC

Col(nulls, unique, range, type) ==
  [nulls |-> nulls, unique |-> unique, range |-> range, type |-> type]

Nulls(n, conf)   == {[n |-> n, conf |-> conf]}
Unique(v, conf)  == {[value |-> v, conf |-> conf]}
Range(l, h, conf) == {[lo |-> l, hi |-> h, conf |-> conf]}

T      == <<"public", "t">>
P      == <<"public", "p">>
AuditT == <<"audit", "t">>
RawT   == <<Unqualified, "t">>
RawP   == <<Unqualified, "p">>
RawX   == <<Unqualified, "x">>

TheCols ==
  ("a" :> Col(Nulls(0, "exact"), Unique(TRUE, "exact"), Range(1, 4, "exact"), <<"string", 5>>))
  @@ ("b" :> Col(Nulls(2, "measured"), Unique(FALSE, "exact"), Range(1, 4, "estimated"), <<"integer", 2>>))
  @@ ("c" :> Col(Nulls(1, "estimated"), {}, {}, <<"string", 0>>))
  @@ ("d" :> Col({}, Unique(FALSE, "estimated"), {}, <<"decimal", 0>>))
  @@ ("e" :> Col({}, Unique(TRUE, "exact"), {}, <<"integer", 3>>))

Ref(col, orphans, tail) ==
  [col |-> col, orphans |-> orphans, to |-> P, cascade |-> TRUE, longTailed |-> tail]

TableT(refs) == [rows |-> 4, conf |-> "estimated", cols |-> TheCols, refs |-> refs, indexes |-> {"i"}]
TableP == [rows |-> 2, conf |-> "exact", indexes |-> {}, refs |-> <<>>,
           cols |-> ("a" :> Col({}, Unique(TRUE, "exact"), {}, <<"integer", 3>>))]

Refs == <<Ref("a", Nulls(0, "exact"), FALSE), Ref("b", Nulls(1, "exact"), TRUE),
          Ref("c", Nulls(1, "estimated"), FALSE)>>

MCFixtures ==
  {[version |-> 16, tables |-> (T :> TableT(Refs)) @@ (P :> TableP)],
   [version |-> 10, tables |-> (T :> TableT(<<>>)) @@ (P :> TableP)],
   [version |-> 0, tables |-> (T :> TableT(Refs)) @@ (AuditT :> [TableP EXCEPT !.indexes = {"i"}])]}

Is(what)          == [is |-> what]
Alter(on, clauses) == [is |-> "ALTER TABLE", on |-> on, does |-> clauses]
Do(what)          == [do |-> what]
On(what, col)     == [do |-> what, col |-> col]
Add(what, name, col, notValid) == [do |-> what, name |-> name, col |-> col, notValid |-> notValid]
Check(name, col, op, k, notValid) ==
  [do |-> "CHECK", name |-> name, col |-> col, op |-> op, k |-> k, notValid |-> notValid]
Key(what, name, cols) == [do |-> what, name |-> name, cols |-> cols, notValid |-> FALSE]
Validate(name)    == [do |-> "VALIDATE CONSTRAINT", name |-> name]
Column(default)   == [do |-> "ADD COLUMN", default |-> default]
Type(col, to)     == [do |-> "TYPE", col |-> col, to |-> to]
Index(on, unique, concurrent, cols, partial) ==
  [is |-> "CREATE INDEX", on |-> on, unique |-> unique, concurrent |-> concurrent, cols |-> cols,
   partial |-> partial, expression |-> FALSE]
DropIndex(concurrent) == [is |-> "DROP INDEX", name |-> "i", concurrent |-> concurrent]
Reindex(scope, concurrent) ==
  [is |-> "REINDEX", scope |-> scope, concurrent |-> concurrent, name |-> IF scope = "INDEX" THEN "i" ELSE "public", on |-> RawT]
Write(is, on, where) == [is |-> is, on |-> on, where |-> where]

Transactions ==
  {Is("BEGIN"), Is("COMMIT"), Is("ROLLBACK"), Is("ROLLBACK TO"), Is("RELEASE"), Is("ABORT"),
   Index(RawT, FALSE, TRUE, {"a"}, FALSE)}

Constraints ==
  {Is("BEGIN"), Is("COMMIT"), Is("ROLLBACK TO"),
   Alter(RawT, <<Add("FOREIGN KEY", "f", "b", TRUE)>>), Alter(RawP, <<Add("FOREIGN KEY", "f", "a", TRUE)>>),
   Alter(RawT, <<Validate("f")>>)}

Refused ==
  {Is("BEGIN"), Is("ALTER TYPE ADD VALUE"), Is("CLUSTER"), Is("ALTER SYSTEM"), DropIndex(TRUE),
   [is |-> "VACUUM", full |-> TRUE], Reindex("INDEX", TRUE), Reindex("SCHEMA", TRUE)}

Alters ==
  {Alter(on, <<c>>) : on \in {RawT, RawX, T}, c \in
    {On("SET NOT NULL", "a"), On("SET NOT NULL", "b"), On("SET NOT NULL", "c"), On("SET NOT NULL", "d"),
     Key("UNIQUE", Unnamed, {"a"}), Key("UNIQUE", "u", {"b"}), Key("UNIQUE", "u", {"d"}), Key("UNIQUE", "u", {"a", "b"}),
     Check("k", "a", ">", 0, FALSE), Check("k", "a", ">=", 2, FALSE), Check("k", "b", "<", 9, TRUE),
     Check("k", "b", "<=", 3, FALSE), Check("k", "c", "<", 3, FALSE), Check(Unnamed, "a", "<", 3, FALSE),
     Add("FOREIGN KEY", "f", "a", FALSE), Add("FOREIGN KEY", "f", "b", FALSE), Add("FOREIGN KEY", Unnamed, "c", FALSE),
     Column("none"), Column("constant"), Column("volatile"), Column("unknown"), Column("stored"),
     Type("a", <<"string", 9>>), Type("a", <<"string", 2>>), Type("a", <<"string", 0>>), Type("c", <<"string", 9>>),
     Type("b", <<"integer", 1>>), Type("b", <<"integer", 3>>), Type("d", <<"integer", 3>>),
     Key("PRIMARY KEY", Unnamed, {"a"}), Key("PRIMARY KEY", "pk", {"b"}), Key("EXCLUDE", "e", {"a"})}}
  \union
  {Alter(RawT, <<c>>) : c \in {Do("ATTACH PARTITION"), Do("RENAME"), Do("RENAME CONSTRAINT"), Do("REPLICA IDENTITY"),
                               Do("DROP NOT NULL"), Do("DROP COLUMN")}}
  \union
  {Alter(RawT, <<Key("UNIQUE", "u", {"b"}), On("SET NOT NULL", "b")>>),
   Alter(RawT, <<Column("none"), Type("b", <<"integer", 3>>)>>),
   Alter(RawT, <<Add("FOREIGN KEY", "f", "a", TRUE), Check("k", "a", ">=", 2, FALSE)>>)}

Wheres ==
  {[p |-> "none"], [p |-> "other"], [p |-> "null", col |-> "a", negated |-> FALSE], [p |-> "null", col |-> "a", negated |-> TRUE],
   [p |-> "null", col |-> "b", negated |-> TRUE], [p |-> "null", col |-> "c", negated |-> FALSE],
   [p |-> "null", col |-> "c", negated |-> TRUE],
   [p |-> "equal", col |-> "a", value |-> TRUE], [p |-> "equal", col |-> "a", value |-> FALSE],
   [p |-> "equal", col |-> "d", value |-> TRUE], [p |-> "equal", col |-> "d", value |-> FALSE],
   [p |-> "above", col |-> "e"],
   [p |-> "within", col |-> "b", literal |-> FALSE, lo |-> 1, hi |-> 1]}
  \union {[p |-> "within", col |-> c, literal |-> TRUE, lo |-> 1, hi |-> hi] : c \in {"a", "b", "e", "z"}, hi \in {0, 2, 3}}
  \union {[p |-> "within", col |-> "e", literal |-> TRUE, lo |-> 1 - hi, hi |-> hi] : hi \in {3, 4, 7}}

Others ==
  {Write(is, on, w) : is \in {"UPDATE", "DELETE"}, on \in {RawT, RawP, RawX}, w \in Wheres}
  \union {Index(on, u, c, cols, p) : on \in {RawT, RawX}, u \in BOOLEAN, c \in BOOLEAN, cols \in {{"a"}, {"b"}, {"c"}}, p \in BOOLEAN}
  \union {Reindex(scope, FALSE) : scope \in {"INDEX", "TABLE", "SCHEMA", "DATABASE"}}
  \union {DropIndex(FALSE), [is |-> "DROP TABLE", on |-> RawT], [is |-> "TRUNCATE", on |-> RawP],
          Is("SET lock_timeout"), [is |-> "VACUUM", full |-> FALSE]}

MCFamilies ==
  {Transactions, Constraints, Refused}
    \union {{s, Is("SET lock_timeout")} : s \in Alters \union Others}
=============================================================================
