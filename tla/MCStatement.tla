---------------------------- MODULE MCStatement -----------------------------
(* Texts for TLC: every route, every pair of nested limits, and batches.    *)
EXTENDS Statement

Literal(n) == [value |-> n, literal |-> TRUE]
Expr(n) == [value |-> n, literal |-> FALSE]

Opt(S) == {{}} \cup {{x} : x \in S}

NoLimits == [limit |-> {}, offset |-> {}, fetch |-> {}]

\* PostgreSQL's grammar has no LIMIT together with FETCH.
Limits ==
  {q \in [limit : Opt({Literal(0), Literal(1), Literal(2), Expr(0), Expr(2)}),
          offset : Opt(0 .. 2),
          fetch : Opt({Literal(0), Literal(1)})] :
     ~Present(q.limit) \/ ~Present(q.fetch)}

Table(schema, name) == [schema |-> schema, name |-> name]

Orders == Table("", "orders")

Tables ==
  {Table("", n) : n \in {"pg_stat_ssl", "pg_enum", "pg_type", "pg_range", "pg_namespace",
                         "pg_class", "pg_attribute"}}
  \cup {Table(s, n) : s \in {"", "information_schema", "sales"},
                      n \in {"character_sets", "key_column_usage"}}
  \cup {Orders}

Select ==
  [parses |-> TRUE, command |-> "none", query |-> TRUE, from |-> TRUE, clauses |-> FALSE,
   rels |-> {Orders}, calls |-> {}, exprs |-> {}, levels |-> <<NoLimits>>]

Insert == [Select EXCEPT !.query = FALSE, !.from = FALSE]

Command(c) == [Insert EXCEPT !.command = c, !.rels = {}]

Routed == {[Select EXCEPT !.rels = r] : r \in {t \in SUBSET Tables : Cardinality(t) \in 1 .. 3}}

\* Queries without a FROM, with and without a subquery over a table.
Probes ==
  {[Select EXCEPT !.from = FALSE, !.rels = r, !.calls = c, !.clauses = w] :
     r \in {{}, {Orders}}, c \in SUBSET (ServerFunctions \cup {"now"}), w \in BOOLEAN}
  \cup {[Select EXCEPT !.from = FALSE, !.calls = {"version"}, !.levels = <<inner, outer>>] :
          inner \in Limits, outer \in {NoLimits, [NoLimits EXCEPT !.limit = {Literal(1)}]}}

Spellings ==
  {[Select EXCEPT !.exprs = e] :
     e \in SUBSET {"::trino", "::pg", "::other", "cast_pg", "ilike", "string_agg", "log(x)", "trunc"}}
  \cup {[Select EXCEPT !.rels = {Table(s, "columns")}, !.exprs = {"typeCase", "ilike"}] :
          s \in {"", "information_schema", "sales"}}

Nested ==
  {[Select EXCEPT !.levels = <<inner, outer>>] : inner \in Limits, outer \in Limits}

\* Trino's own syntax, which sqlparser does not know, alone and after SET.
TrinoOnly == [Select EXCEPT !.parses = FALSE]
OddSet == [Command("set") EXCEPT !.parses = FALSE]

Sample ==
  {Select, Insert, TrinoOnly, OddSet, Command("txn"), Command("start"),
   [Select EXCEPT !.rels = {Table("", "pg_class")}],
   [Select EXCEPT !.levels = <<[limit |-> {Literal(1)}, offset |-> {1}, fetch |-> {}]>>]}

Alone == Routed \cup Probes \cup Spellings \cup Nested \cup Sample
  \cup {Command(c) : c \in PrefixCommands \cup ExactCommands}

MCInputs == {<<s>> : s \in Alone} \cup [1 .. 2 -> Sample] \cup [1 .. 3 -> Sample]
=============================================================================
