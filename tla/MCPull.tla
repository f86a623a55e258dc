------------------------------- MODULE MCPull -------------------------------
(* Pull on databases that have, between them, every kind of column, key,     *)
(* reference and table.                                                      *)
EXTENDS Pull, TLC

CONSTANTS a, b

Column(cat, stats, dup) ==
  [cat |-> cat, nullable |-> dup, stats |-> stats, dup |-> dup, few |-> dup, comparable |-> cat # "json"]

Plain(cols) ==
  [cols |-> cols, keys |-> {}, refs |-> <<>>, partitioned |-> FALSE, large |-> FALSE, huge |-> FALSE]

Key(kind, on, expr, partial, valid) ==
  [kind |-> kind, on |-> on, expr |-> expr, partial |-> partial, valid |-> valid]

Parent ==
  [Plain(a :> Column("numeric", "many", FALSE)) EXCEPT !.keys = {Key("constraint", {a}, FALSE, FALSE, TRUE)}]

Child ==
  [Plain(a :> Column("text", "many", TRUE)) EXCEPT
     !.refs = <<[col |-> a, validated |-> FALSE]>>, !.partitioned = TRUE, !.large = TRUE]

Documents == Plain((a :> Column("json", "none", FALSE)) @@ (b :> Column("bytea", "few", FALSE)))

Composite ==
  [Plain((a :> Column("temporal", "many", TRUE)) @@ (b :> Column("other", "few", FALSE))) EXCEPT
     !.keys = {Key("constraint", {a, b}, FALSE, FALSE, TRUE), Key("index", {b}, FALSE, FALSE, TRUE),
               Key("index", {a}, FALSE, TRUE, TRUE)},
     !.refs = <<[col |-> a, validated |-> TRUE], [col |-> b, validated |-> TRUE],
                [col |-> b, validated |-> FALSE]>>,
     !.huge = TRUE]

Misled(expr) ==
  [Plain(a :> Column("other", "few", TRUE)) EXCEPT !.keys = {Key("index", {a}, expr, FALSE, expr)}]

MCDatabases ==
  {<<Parent, Child>>, <<Documents>>, <<Composite>>, <<Misled(TRUE)>>, <<Misled(FALSE)>>}
=============================================================================
