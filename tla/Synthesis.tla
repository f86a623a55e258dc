----------------------------- MODULE Synthesis -----------------------------
(***************************************************************************)
(* internal/hydrate: what the engine makes of a column, of a reference and *)
(* of a CHECK.  A cell is a value of some shape and a number; ordinals are *)
(* counted from 0, as in the code.  The generator of a cell gives one      *)
(* number, `draw', and gives the same one each time it is asked for that   *)
(* cell; fractions are in quarters.                                        *)
(***************************************************************************)
EXTENDS Integers, Sequences, FiniteSets, Functions

CONSTANTS
  Short,   \* how many values a narrow text column has room for (36^width)
  Grain    \* nanoseconds in the resolution of a timestamp

ASSUME SynthesisAssumption == Short \in Nat \ {0} /\ Grain \in Nat \ {0}

Null == <<"null", 0>>

\* A fact that may be missing is a set of at most one element.
The(S) == CHOOSE x \in S : TRUE
Lesser(a, b)  == IF a < b THEN a ELSE b
Greater(a, b) == IF a > b THEN a ELSE b
Clamp(v, lo, hi) == Lesser(Greater(v, lo), hi)
Rounded(n, d) == (2 * n + d) \div (2 * d)
-----------------------------------------------------------------------------
(* Columns *)

\* A literal set and the bounds of a table's CHECKs on a column.
CheckDomains(tab, col) ==
  LET cons  == {con \in Range(tab.cons) :
                  con.kind = "check" /\ con.known /\ ~con.notValid /\ con.read /\ con.col = col}
  IN  [values |-> {v \in UNION {con.values : con \in cons} :
                     \A con \in cons : con.values = {} \/ v \in con.values},
       bounds |-> UNION {con.bounds : con \in cons}]

\* clampNumeric, of whole numbers.
ClampNumeric(v, bounds) ==
  IF v[1] # "int" \/ bounds = {} THEN v
  ELSE LET lo == CHOOSE b \in bounds : \A x \in bounds : x.lo <= b.lo
           hi == CHOOSE b \in bounds : \A x \in bounds : x.hi >= b.hi
       IN  <<"int", Lesser(Greater(v[2], lo.lo), hi.hi)>>

\* applyCheckDomain: a NULL satisfies every CHECK.
ApplyCheckDomain(v, dom, draw) ==
  CASE v = Null -> v
    [] v # Null /\ dom.values # {} ->
         LET nth == CHOOSE s \in [1 .. Cardinality(dom.values) -> dom.values] :
                      \A i, j \in DOMAIN s : i < j => s[i] < s[j]
         IN  <<"literal", nth[(draw % Len(nth)) + 1]>>
    [] OTHER -> ClampNumeric(v, dom.bounds)

\* isNullAt
IsNullAt(ord, quarters) == ((ord + 1) * quarters) \div 4 > (ord * quarters) \div 4

NumericInRange(c, n, unique) ==
  IF c.range = {} THEN n
  ELSE LET r == The(c.range) IN IF unique THEN r.lo + n ELSE r.lo + (n % (r.hi - r.lo + 1))

\* temporalInRange: nanoseconds from the start of the range, of which the server keeps
\* what its resolution holds.
TemporalInRange(c, n) ==
  IF c.range = {} THEN n
  ELSE LET r == The(c.range)
           span == (r.hi - r.lo) * Grain
       IN  IF span = 0 THEN r.lo ELSE r.lo + (n % span) \div Grain

\* fakeValue, of a column of that type: what is too wide is cut down to its ordinal's
\* last digits; a type with no rule gets a text.
FakeValue(c, type, n, unique) ==
  CASE type = "int"  -> <<"int", NumericInRange(c, n, unique)>>
    [] type = "time" -> <<"time", TemporalInRange(c, n)>>
    [] type = "text" -> <<"text", IF c.narrow THEN n % Short ELSE n>>
    [] type = "bool" -> <<"bool", n % 2>>
    [] type = "json" -> <<"json", 0>>
    [] type = "uuid" -> <<"uuid", n>>
    [] OTHER         -> <<"text", n>>

\* The number a cell's value is made of.
Number(c, ord, draw) ==
  IF c.unique THEN ord ELSE IF c.distinct > 0 THEN draw % c.distinct ELSE draw

\* generateValue.  A domain is generated for its base type; a histogram of one bucket
\* is the range.
GenerateValue(c, ord, draw) ==
  CASE c.nullable /\ IsNullAt(ord, c.nulls) -> Null
    [] c.type = "enum" /\ ~(c.nullable /\ IsNullAt(ord, c.nulls)) -> <<"label", draw % c.labels>>
    [] c.histogram /\ ~c.unique /\ c.type = "int" /\ ~(c.nullable /\ IsNullAt(ord, c.nulls)) ->
         <<"int", NumericInRange(c, draw, FALSE)>>
    [] OTHER -> FakeValue(c, c.type, Number(c, ord, draw), c.unique)
-----------------------------------------------------------------------------
(* References *)

\* fanoutFacts
FanoutFacts(fo, childN, parentN) ==
  LET even == Greater(1, childN \div parentN)
      mean == IF fo.mean > 0 THEN fo.mean ELSE IF fo.p50 > 0 THEN fo.p50 ELSE even
      p50  == IF fo.p50 > 0 THEN fo.p50 ELSE mean
      p95  == Greater(fo.p95, p50)
  IN  [mean |-> mean, p50 |-> p50, p95 |-> p95, max |-> Greater(fo.max, p95)]

\* reconcile: a deficit is handed out from the bottom of the body, an excess taken back
\* from its top in passes of one, and what the body cannot give is the whale's to give.
Added(counts, last, d) ==
  [p \in DOMAIN counts |->
     IF p >= last THEN counts[p] ELSE counts[p] + d \div last + (IF p < d % last THEN 1 ELSE 0)]

Taken(counts, last, e) ==
  LET body    == 0 .. last - 1
      less(k) == [p \in body |-> Lesser(k, counts[p] - 1)]
      avail   == SumFunctionOnSet(less(e), body)
      k       == CHOOSE k \in 0 .. e : /\ SumFunctionOnSet(less(k), body) <= e
                                       /\ k = e \/ SumFunctionOnSet(less(k + 1), body) > e
      rest    == e - SumFunctionOnSet(less(k), body)
      rich(p) == counts[p] - k > 1
  IN  [p \in DOMAIN counts |->
         CASE p = last /\ avail < e -> Greater(1, counts[p] - (e - avail))
           [] p < last /\ avail < e -> 1
           [] p < last /\ avail >= e ->
                counts[p] - less(k)[p]
                  - (IF rich(p) /\ Cardinality({q \in body : q > p /\ rich(q)}) < rest THEN 1 ELSE 0)
           [] OTHER -> counts[p]]

Reconcile(counts, last, childN) ==
  LET sum == SumFunctionOnSet(counts, 0 .. last) IN
    CASE sum = childN -> counts
      [] sum # childN /\ last = 0 -> [counts EXCEPT ![0] = childN]
      [] sum < childN /\ last > 0 -> Added(counts, last, childN - sum)
      [] sum > childN /\ last > 0 -> Taken(counts, last, sum - childN)

\* targetCounts: the children of each parent, ascending, parents without any at the end.
\* What bodyQuantile makes of the middle is between its floor and p95, and ascending.
TargetCounts(parentN, childN, declared, fo) ==
  LET f     == FanoutFacts(fo, childN, parentN)
      last  == Clamp(Rounded(childN, f.mean), 1, parentN) - 1
      whale == Clamp(IF declared > 0 THEN Rounded(f.max * childN, declared) ELSE f.max, 1, childN)
      floor == Greater(1, 2 * f.p50 - f.p95)
      ascending == {b \in [0 .. last - 1 -> floor .. f.p95] :
                      \A p, q \in 0 .. last - 1 : p < q => b[p] <= b[q]}
  IN  {Reconcile([p \in 0 .. parentN - 1 |->
                    IF p < last THEN b[p] ELSE IF p = last THEN whale ELSE 0], last, childN) :
         b \in ascending}

\* orphanGroupCount: the smallest groups that are enough, never all of them.
OrphanGroupCount(counts, childN, quarters) ==
  LET want == Rounded(quarters * childN, 4)
      all  == Cardinality(DOMAIN counts)
      enough(g) == SumFunctionOnSet(counts, 0 .. g - 1) >= want \/ counts[g] = 0
  IN  IF want = 0 THEN 0
      ELSE CHOOSE g \in 0 .. all - 1 :
             /\ g = all - 1 \/ enough(g)
             /\ \A h \in 0 .. g - 1 : ~enough(h)

\* assignForeignKeys: the parent ordinal of each child; without a fan-out in turn.
AssignForeignKeys(ref, childN, parentN, declared) ==
  CASE childN = 0 \/ parentN = 0 -> {[o \in 0 .. childN - 1 |-> 0]}
    [] childN > 0 /\ parentN > 0 /\ ref.fanout = {} -> {[o \in 0 .. childN - 1 |-> o % parentN]}
    [] OTHER ->
         {LET groups  == OrphanGroupCount(counts, childN, ref.orphans)
              past(o) == {p \in DOMAIN counts : SumFunctionOnSet(counts, 0 .. p) > o}
              of(o)   == CHOOSE p \in past(o) : \A q \in past(o) : p <= q
          IN  [o \in 0 .. childN - 1 |->
                 IF past(o) = {} THEN parentN - 1
                 ELSE IF of(o) < groups THEN parentN + of(o) ELSE of(o)] :
            counts \in TargetCounts(parentN, childN, declared, The(ref.fanout))}

\* Mutant of ParentIDValue: the ordinal for the id.
ParentIDValueOrdinal(pcol, ord, parentN) == <<"int", ord>>

\* parentIDValue: the value of the parent's column, whose type is not resolved here; for
\* an orphan, a number past the last.
ParentIDValue(pcol, ord, parentN) ==
  IF pcol = {} THEN <<"int", ord>>
  ELSE LET c   == The(pcol)
           val == FakeValue(c, IF c.domain THEN "domain" ELSE c.type, ord, TRUE)
       IN  IF ord < parentN \/ parentN = 0 \/ val[1] # "int" THEN val
           ELSE <<"int", NumericInRange(c, parentN - 1, TRUE) + 1 + (ord - parentN)>>
=============================================================================
