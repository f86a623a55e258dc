----------------------------- MODULE MCHydrate -----------------------------
(* Hydrate on small fixtures: a parent and a child, join tables, and tables  *)
(* with every kind of constraint, index, partitioning and generated column.  *)
EXTENDS Hydrate

Plain(type) ==
  [type |-> type, nullable |-> FALSE, nulls |-> 0, unique |-> FALSE, range |-> {}, distinct |-> 0,
   histogram |-> FALSE, labels |-> 2, narrow |-> FALSE, domain |-> FALSE, forbids |-> {},
   generated |-> "none", expr |-> "none", default |-> "none"]

Unique(type)       == [Plain(type) EXCEPT !.unique = TRUE]
Ranged(col, lo, hi) == [col EXCEPT !.range = {[lo |-> lo, hi |-> hi]}]
Identity           == [Ranged(Unique("int"), 1, 2) EXCEPT !.generated = "identity"]

Unpartitioned == [by |-> "none", key |-> "", plain |-> FALSE, count |-> 0]
Parts(by, key, plain, count) == [by |-> by, key |-> key, plain |-> plain, count |-> count]

Table(rows_, cols, cons, refs) ==
  [rows |-> rows_, cols |-> cols, cons |-> cons, refs |-> refs, indexes |-> <<>>, parts |-> Unpartitioned]

Key(kind, name, cols) ==
  [kind |-> kind, name |-> name, cols |-> cols, known |-> TRUE, notValid |-> FALSE, read |-> FALSE,
   col |-> "", values |-> {}, bounds |-> {}]
Pk(cols) == Key("primary_key", "pk", cols)
Check(name, col, values, bounds) ==
  [Key("check", name, {}) EXCEPT !.col = col, !.read = TRUE, !.values = values, !.bounds = bounds]
Bounds(lo, hi) == {[lo |-> lo, hi |-> hi]}

Index(name, unique, cols, partial, buildable) ==
  [name |-> name, unique |-> unique, cols |-> cols, partial |-> partial, buildable |-> buildable]

Ref(name, col, to, tocol, fanout, orphans) ==
  [name |-> name, col |-> col, to |-> [table |-> to, col |-> tocol], fanout |-> fanout,
   orphans |-> orphans, notValid |-> FALSE]
Fanout(mean, p50, p95, max) == {[mean |-> mean, p50 |-> p50, p95 |-> p95, max |-> max]}

Run(tables) ==
  [tables |-> tables, num |-> 1, den |-> 1, maxRows |-> 0, maxCells |-> 0]

People(n, id) == Table(n, [id |-> id], <<Pk({"id"})>>, <<>>)
Orders(n, type, ref) ==
  Table(n, [id |-> Identity, person |-> Plain(type)], <<Pk({"id"})>>, <<ref>>)

ParentAndChild ==
  {Run(<<People(p, id), Orders(n, "int", Ref("fk", "person", 1, "id", f, q))>>) :
     p \in {0, 1, 3}, n \in {0, 4, 6}, q \in {0, 1, 4}, id \in {Identity, Unique("int"), Ranged(Unique("int"), 1, 9)},
     f \in {{}, Fanout(2, 1, 3, 4), Fanout(0, 2, 2, 2), Fanout(1, 1, 1, 1)}}

Variants ==
  {Run(<<People(2, id), Orders(3, id.type, [Ref("", "person", 1, "id", Fanout(1, 1, 1, 2), 2) EXCEPT !.notValid = v])>>) :
     v \in BOOLEAN, id \in {Unique("uuid"), [Unique("int") EXCEPT !.domain = TRUE], [Unique("text") EXCEPT !.domain = TRUE]}}
  \union {Run(<<People(2, Identity), Orders(2, "int", Ref("fk", "person", 3, "id", {}, 0))>>)}

Join ==
  {Run(<<People(n, Identity),
         Table(3, [a |-> Plain("int"), b |-> Plain("int")], <<Pk({"a", "b"})>>,
               <<Ref("fa", "a", 1, "id", {}, 0), Ref("fb", "b", 1, "id", {}, 0)>>)>>) : n \in 2 .. 3}

Composite ==
  {Run(<<Table(2, [a |-> Unique("int"), b |-> Plain("int")], <<Pk({"a", "b"})>>, <<>>),
         Table(2, [a |-> Plain("int"), b |-> [Plain("int") EXCEPT !.nullable = TRUE]], <<>>,
               <<Ref("fk", "a", 1, "a", {}, 0), Ref("fk", "b", 1, "b", {}, 0)>>)>>)}

Alone(n, col, cons) == Run(<<Table(n, [a |-> col], cons, <<>>)>>)

Keys ==
  {Alone(3, col, <<Key("unique", "u", {"a"})>>) :
     col \in {Unique("time"), Ranged(Unique("time"), 0, 2), Unique("bool"), Unique("json"),
              Unique("uuid"), Unique("enum"), [Unique("text") EXCEPT !.narrow = TRUE],
              [Unique("int") EXCEPT !.nullable = TRUE, !.nulls = 2],
              [Unique("int") EXCEPT !.domain = TRUE, !.forbids = {1}], Unique("unsupported")}}
  \union {Alone(3, col, <<>>) :
     col \in {[Plain("text") EXCEPT !.distinct = 2], Ranged(Plain("time"), 1, 1), [Ranged(Plain("int"), 1, 3) EXCEPT !.histogram = TRUE]}}

Checks ==
  {Alone(2, col, <<[Check("k", "a", v, b) EXCEPT !.read = r, !.notValid = nv], Check("l", "a", v, {})>>) :
     col \in {Unique("int"), Ranged(Plain("int"), 0, 4)}, v \in {{}}, b \in {Bounds(2, 3), Bounds(0, 9)}, r \in BOOLEAN, nv \in BOOLEAN}
  \union {Alone(2, [Plain("text") EXCEPT !.nullable = TRUE, !.nulls = 2],
                <<Check("k", "a", {1, 2, 3}, {}), [Check("l", "a", {2, 3}, {}) EXCEPT !.known = k]>>) : k \in BOOLEAN}

Partitions ==
  {Run(<<[Table(2, [a |-> Unique("int"), b |-> Unique("int")], <<Pk({"a"}), Key("unique", "u", {"b"}), Key("exclusion", "x", {"a"})>>, <<>>)
          EXCEPT !.parts = p,
                 !.indexes = <<Index("pk", TRUE, {"a"}, "none", TRUE), Index("i", TRUE, {"b"}, "none", k),
                               Index("j", TRUE, {"a"}, "opaque", TRUE), Index("k", FALSE, {"a"}, "known", TRUE),
                               Index("x", FALSE, {"a"}, "none", k)>>]>>) :
     k \in BOOLEAN,
     p \in {Parts("hash", "a", TRUE, 0), Parts("hash", "a", TRUE, 2), Parts("range", "a", TRUE, 3), Parts("list", "ab", FALSE, 1),
            Parts("range", "", FALSE, 2)}}

GeneratedColumns ==
  {Run(<<Table(n, [id |-> id, g |-> [Plain("int") EXCEPT !.generated = g, !.expr = e],
                   d |-> [Plain("text") EXCEPT !.nullable = nl, !.default = d]], <<Pk({"id"})>>, <<>>)>>) :
     n \in {0, 1}, id \in {Identity, [Unique("int") EXCEPT !.generated = "identity"], [Identity EXCEPT !.generated = "none", !.default = "nextval"]},
     g \in {"stored", "virtual"}, e \in {"known", "opaque"}, nl \in BOOLEAN, d \in {"known", "opaque"}}

Sizes ==
  {[Run(<<People(n, Unique("int")), Table(m, [a |-> Plain("uuid"), b |-> Unique("uuid"), c |-> Unique("uuid"), d |-> Unique("uuid")], <<>>, <<>>)>>)
      EXCEPT !.num = num, !.den = den, !.maxRows = mr, !.maxCells = mc] :
     n \in {0, 3, 60}, m \in {1, 2, 32}, num \in {1, 9}, den \in {1, 4}, mr \in {0, 2}, mc \in {0, 4, 11}}

MCRuns ==
  ParentAndChild \union Variants \union Join \union Composite \union Keys \union Checks
    \union Partitions \union GeneratedColumns \union Sizes
=============================================================================
