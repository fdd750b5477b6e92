------------------------------ MODULE Statement ------------------------------
(***************************************************************************)
(* What happens to the SQL of one message: process_query splits the text,  *)
(* each piece is answered from the gateway's own knowledge, from Trino's   *)
(* information_schema, or rewritten and posted to Trino.                   *)
(*                                                                         *)
(* A statement is what the code asks of its syntax tree: whether sqlparser *)
(* can build it, the keyword it starts with, whether it has a FROM of its  *)
(* own, the relations it names and the functions it calls at any depth,    *)
(* the expressions the rewriter touches, and the row limits of its nested  *)
(* queries, innermost first.  An optional part is a set with at most one   *)
(* element.                                                                *)
(***************************************************************************)
EXTENDS Naturals, Sequences, FiniteSets, FiniteSetsExt

CONSTANTS
  Inputs,      \* the texts clients send: sequences of statements
  TableRows    \* bound: rows of the table under the innermost query

VARIABLES
  text,      \* the text of the message
  pieces,    \* what split_statements made of it and is still to be processed
  answers,   \* responses so far, each with the positions of the text it is for
  posted,    \* what was sent to Trino: the piece, and the rewritten statement
  pc         \* "split", "run", "done" (responses returned), "failed" (connection-fatal)

vars == <<text, pieces, answers, posted, pc>>

Present(opt) == opt # {}

Option(S) == {opt \in SUBSET S : \A x, y \in opt : x = y}

\* Commands told by how the text starts, or by being all of it.
PrefixCommands == {"set", "start", "session", "show"}
ExactCommands == {"txn", "close"}

\* Expressions, by what the rewriters tell apart.  Casts are written with :: or
\* CAST and go to a type that has a name in Trino, to one of the eight that
\* normalize_data_type renames ("pg"), or to another type of PostgreSQL.
Casts == {"::trino", "::pg", "::other", "cast_trino", "cast_pg", "cast_other"}
Expressions ==
  Casts \cup {"ilike", "string_agg", "log(x)", "trunc", "lowerLike", "listagg", "log10(x)", "truncate"}
  \cup {"typeCase", "typeMapping", "log(b,x)", "other"}

\* A row count: its value, and whether it is written as a literal.
Counts == [value : Nat, literal : BOOLEAN]
Levels == [limit : Option(Counts), offset : Option(Nat), fetch : Option(Counts)]

Statements ==
  [parses : BOOLEAN, query : BOOLEAN, from : BOOLEAN, clauses : BOOLEAN,
   command : PrefixCommands \cup ExactCommands \cup {"none"},
   rels : SUBSET [schema : STRING, name : STRING], calls : SUBSET STRING,
   exprs : SUBSET Expressions, levels : Seq(Levels)]

\* A text has at least one statement.
ASSUME InputAssumption ==
  /\ TableRows \in Nat
  /\ Inputs \subseteq Seq(Statements) \ {<< >>}

\* A query has a level of its own, and PostgreSQL's grammar has no LIMIT
\* together with FETCH.
ASSUME GrammarAssumption ==
  \A t \in Inputs : \A i \in DOMAIN t :
    /\ t[i].query => t[i].levels # << >>
    /\ \A k \in DOMAIN t[i].levels :
         ~Present(t[i].levels[k].limit) \/ ~Present(t[i].levels[k].fetch)

-----------------------------------------------------------------------------
(* ParsedQuery: what is known of a statement.  Without a tree, nothing is.  *)

references_table(s, name) ==
  s.parses /\ \E r \in s.rels : r.name = name

\* Mutant: any schema will do.
RefsInAnySchema(s, schema, name) ==
  s.parses /\ \E r \in s.rels : r.name = name

\* An unqualified name relies on search_path and counts.
references_table_in_schema(s, schema, name) ==
  s.parses /\ \E r \in s.rels : r.name = name /\ r.schema \in {"", schema}

\* For current_setting, a call with a parameter the gateway knows; for
\* current_schema, also the bare keyword.
calls_function(s, name) == s.parses /\ name \in s.calls

\* At the top level, one projected expression and nothing else.  s.clauses
\* stands for WITH, WHERE, GROUP BY, ORDER BY and further projections there.
\* The expression itself may hold subqueries over any relation.
is_bare_scalar_select(s) ==
  LET top == s.levels[Len(s.levels)]
  IN  /\ s.parses /\ s.query /\ ~s.from /\ ~s.clauses
      /\ ~Present(top.limit) /\ ~Present(top.offset) /\ ~Present(top.fetch)

-----------------------------------------------------------------------------
(* The routes, in the order the code tries them.                            *)

MissingTables ==
  {"referential_constraints", "table_constraints", "key_column_usage",
   "constraint_column_usage", "constraint_table_usage", "check_constraints"}

\* A route is a condition and the answer it leads to.
FirstMatch(routes) ==
  LET hits == {i \in DOMAIN routes : routes[i][1]}
  IN  IF hits = {} THEN "none" ELSE routes[Min(hits)][2]

\* The functions the gateway answers for.
ServerFunctions ==
  {"version", "current_database", "current_schema", "pg_is_in_recovery", "current_setting"}

intercept_server_functions(s) ==
  IF ~is_bare_scalar_select(s) THEN "none"
  ELSE FirstMatch(<<
    <<calls_function(s, "version"),           "version">>,
    <<calls_function(s, "current_database"),  "current_database">>,
    <<calls_function(s, "current_schema"),    "current_schema">>,
    <<calls_function(s, "pg_is_in_recovery"), "pg_is_in_recovery">>,
    <<calls_function(s, "current_setting"),   "current_setting">> >>)

\* Mutant: the composite lookup is left to the dynamic handler.
StaticCatalogNoComposite(s) ==
  FirstMatch(<<
    <<references_table(s, "pg_enum"),      "pg_enum">>,
    <<references_table(s, "pg_type") /\ ~references_table(s, "pg_attribute"), "pg_type">>,
    <<references_table(s, "pg_range"),     "pg_range">>,
    <<references_table(s, "pg_namespace"), "pg_namespace">> >>)

\* pg_enum comes before pg_type, which its queries join.
handle_catalog_query(s) ==
  FirstMatch(<<
    <<references_table(s, "pg_attribute") /\ references_table(s, "pg_type"), "composite">>,
    <<references_table(s, "pg_enum"),      "pg_enum">>,
    <<references_table(s, "pg_type"),      "pg_type">>,
    <<references_table(s, "pg_range"),     "pg_range">>,
    <<references_table(s, "pg_namespace"), "pg_namespace">> >>)

try_intercept(s) ==
  FirstMatch(<<
    <<s.command \in PrefixCommands \cup ExactCommands, s.command>>,
    <<intercept_server_functions(s) # "none", intercept_server_functions(s)>>,
    <<references_table(s, "pg_stat_ssl"), "pg_stat_ssl">>,
    <<handle_catalog_query(s) # "none", handle_catalog_query(s)>>,
    <<references_table_in_schema(s, "information_schema", "character_sets"), "character_sets">>,
    <<\E t \in MissingTables : references_table_in_schema(s, "information_schema", t),
      "missing">> >>)

\* The composite lookup is answered before; here it only ends the search.
handle_dynamic_catalog_query(s) ==
  FirstMatch(<<
    <<references_table(s, "pg_attribute") /\ references_table(s, "pg_type"), "none">>,
    <<references_table(s, "pg_class"),     "pg_class">>,
    <<references_table(s, "pg_attribute"), "pg_attribute">> >>)

-----------------------------------------------------------------------------
(* rewrite_sql.                                                             *)

\* Every :: becomes a CAST; a type it does not know keeps its name.
CastRewriter(e) ==
  CASE e \in {"::trino", "::pg", "cast_pg"} -> "cast_trino"
    [] e = "::other" -> "cast_other"
    [] OTHER -> e

ILikeRewriter(e) == IF e = "ilike" THEN "lowerLike" ELSE e

FunctionRenamer(e) ==
  CASE e = "string_agg" -> "listagg"
    [] e = "log(x)"     -> "log10(x)"
    [] e = "trunc"      -> "truncate"
    [] OTHER            -> e

is_zero_literal(l) == l.literal /\ l.value = 0

\* Mutant: LIMIT 0 is moved like any other limit.
LimitOffsetMovesZero(q) ==
  IF Present(q.fetch) \/ ~Present(q.offset) \/ ~Present(q.limit) THEN q
  ELSE [q EXCEPT !.limit = {}, !.fetch = q.limit]

\* Mutant: what is right for LIMIT 0 is done to every limit.
LimitOffsetDropsOffset(q) ==
  IF Present(q.fetch) \/ ~Present(q.offset) \/ ~Present(q.limit) THEN q
  ELSE [q EXCEPT !.offset = {}]

\* The limit moves into FETCH FIRST, which is rendered after OFFSET; LIMIT 0
\* drops the offset.
LimitOffsetRewriter(q) ==
  IF Present(q.fetch) \/ ~Present(q.offset) \/ ~Present(q.limit) THEN q
  ELSE IF \E l \in q.limit : is_zero_literal(l) THEN [q EXCEPT !.offset = {}]
  ELSE [q EXCEPT !.limit = {}, !.fetch = q.limit]

\* Power BI's CASE over data_type is replaced by one that knows Trino's names.
rewrite_info_schema_columns(s) ==
  IF references_table_in_schema(s, "information_schema", "columns")
  THEN [s EXCEPT !.exprs = {IF e = "typeCase" THEN "typeMapping" ELSE e : e \in s.exprs}]
  ELSE s

\* Every visitor visits every node; text that does not parse goes as it is.
rewrite_sql(s) ==
  IF ~s.parses THEN s
  ELSE [s EXCEPT
         !.exprs = {FunctionRenamer(ILikeRewriter(CastRewriter(e))) : e \in s.exprs},
         !.levels = [i \in DOMAIN s.levels |-> LimitOffsetRewriter(s.levels[i])]]

-----------------------------------------------------------------------------
(* process_query.                                                           *)

AllParse(t) == \A i \in DOMAIN t : t[i].parses

\* A piece and the positions of the text it stands for.
Piece(s, positions) == [stmt |-> s, of |-> positions]

\* The keyword of a text that is one piece: commands recognised by a prefix
\* still are when more follows, BEGIN, COMMIT and the like have to stand alone.
Keyword(t) ==
  IF Len(t) > 1 /\ Head(t).command \in ExactCommands THEN "none" ELSE Head(t).command

\* Text that does not parse as a whole stays one piece.
split_statements(t) ==
  IF AllParse(t) THEN [i \in DOMAIN t |-> Piece(t[i], {i})]
  ELSE <<Piece([Head(t) EXCEPT !.parses = FALSE, !.command = Keyword(t)], DOMAIN t)>>

Init ==
  /\ text \in Inputs
  /\ pieces = << >>
  /\ answers = << >>
  /\ posted = << >>
  /\ pc = "split"

Split ==
  /\ pc = "split"
  /\ pieces' = split_statements(text)
  /\ pc' = "run"
  /\ UNCHANGED <<text, answers, posted>>

\* Mutant: the loop goes on behind the last piece.
RespondForever(answer) ==
  /\ answers' = Append(answers, [kind |-> answer, of |-> Head(pieces).of])
  /\ pieces' = Tail(pieces)
  /\ pc' = "run"

\* The responses of a piece are appended and the loop goes on.
Respond(answer) ==
  /\ answers' = Append(answers, [kind |-> answer, of |-> Head(pieces).of])
  /\ pieces' = Tail(pieces)
  /\ pc' = IF Len(pieces) = 1 THEN "done" ELSE "run"

\* Mutant: the batch goes on after an error.
AbortGoesOn ==
  /\ answers' = Append(answers, [kind |-> "error", of |-> Head(pieces).of])
  /\ pieces' = Tail(pieces)
  /\ pc' = IF Len(pieces) = 1 THEN "done" ELSE "run"

\* A user-visible error ends a batch; the responses before it are kept.  On a
\* single piece it is returned, and pgwire sends it.
Abort ==
  /\ answers' = Append(answers, [kind |-> "error", of |-> Head(pieces).of])
  /\ pieces' = << >>
  /\ pc' = "done"

\* Any other error is propagated: the responses before it are dropped.
Fail ==
  /\ answers' = << >>
  /\ pieces' = << >>
  /\ pc' = "failed"

Intercept ==
  /\ pc = "run"
  /\ LET answer == try_intercept(Head(pieces).stmt)
     IN  answer # "none" /\ Respond(answer)
  /\ UNCHANGED <<text, posted>>

Unanswered(s) == try_intercept(s) = "none"

\* pg_class and pg_attribute are read from Trino's information_schema.
DynamicCatalog ==
  /\ pc = "run"
  /\ LET s == Head(pieces).stmt
         answer == handle_dynamic_catalog_query(s)
     IN  Unanswered(s) /\ answer # "none" /\ (Respond(answer) \/ Fail)
  /\ UNCHANGED <<text, posted>>

Rewritten(s) == rewrite_sql(rewrite_info_schema_columns(s))

\* The rewrites and execute_trino_query.  Trino refuses several statements in
\* one request.
Forward ==
  /\ pc = "run"
  /\ LET p == Head(pieces)
     IN  /\ Unanswered(p.stmt)
         /\ handle_dynamic_catalog_query(p.stmt) = "none"
         /\ posted' = Append(posted, [piece |-> p, sent |-> Rewritten(p.stmt)])
         /\ \/ Cardinality(p.of) = 1 /\ Respond("trino")
            \/ Abort
            \/ Fail
  /\ UNCHANGED text

Next == Split \/ Intercept \/ DynamicCatalog \/ Forward

Spec == Init /\ [][Next]_vars

-----------------------------------------------------------------------------
(* Properties.                                                              *)

Answers ==
  PrefixCommands \cup ExactCommands \cup
  {"version", "current_database", "current_schema", "pg_is_in_recovery", "current_setting",
   "pg_stat_ssl", "composite", "pg_enum", "pg_type", "pg_range", "pg_namespace",
   "character_sets", "missing", "pg_class", "pg_attribute", "trino", "error"}

\* Responses and pieces are for disjoint positions of the text, and the loop
\* has a piece to work on whenever it goes round.
TypeOK ==
  /\ text \in Inputs
  /\ pc \in {"split", "run", "done", "failed"}
  /\ answers \in Seq([kind : Answers, of : SUBSET DOMAIN text])
  /\ \A i \in DOMAIN pieces : pieces[i].of \subseteq DOMAIN text
  /\ \A i \in DOMAIN posted : posted[i].piece.of \subseteq DOMAIN text
  /\ \A i \in DOMAIN answers, j \in DOMAIN pieces : answers[i].of \cap pieces[j].of = {}
  /\ pc = "run" <=> pieces # << >>

\* Relations the gateway answers for: the pg_catalog names in any schema, the
\* information_schema names only there or unqualified.
Served(r) ==
  \/ r.name \in {"pg_stat_ssl", "pg_enum", "pg_type", "pg_range", "pg_namespace", "pg_class",
                 "pg_attribute"}
  \/ r.name \in MissingTables \cup {"character_sets"} /\ r.schema \in {"", "information_schema"}

\* Trino never sees a statement over a relation only the gateway has, whatever
\* it is joined with: no route that declines leaves it to nobody
\* (try_intercept, then handle_dynamic_catalog_query).
CatalogStaysLocal ==
  \A i \in DOMAIN posted :
    posted[i].sent.parses => \A r \in posted[i].sent.rels : ~Served(r)

\* The converse: a statement that names no relation the gateway serves is
\* never answered with something made up, also if a table of the client has the
\* name of an information_schema table.  One kind of query is: without a FROM
\* at the top level and with one of ServerFunctions in it, it counts as a call
\* of that function, whatever its subqueries read.
UserQueriesReachTrino ==
  \A i \in DOMAIN answers :
    \A k \in answers[i].of :
      /\ AllParse(text) /\ text[k].command = "none"
      /\ \A r \in text[k].rels : ~Served(r)
      /\ ~text[k].query \/ text[k].from \/ text[k].calls \cap ServerFunctions = {}
      => answers[i].kind \in {"trino", "error"}

\* "returning one `Response` per statement" for text that parses: the
\* responses are those of the statements in order, all of them or up to the
\* first error (process_query).
AnsweredInOrder ==
  pc = "done" /\ AllParse(text) =>
    /\ \A i \in DOMAIN answers : answers[i].of = {i}
    /\ \A i \in DOMAIN answers : answers[i].kind = "error" => i = Len(answers)
    /\ Len(answers) = Len(text) \/ answers[Len(answers)].kind = "error"

\* The limits of what is posted are in Trino's grammar, at every level of
\* nesting: no LIMIT stands before an OFFSET, and there is no FETCH FIRST 0
\* that the client did not write (LimitOffsetRewriter).  A limit that is not
\* a literal is not evaluated.
LimitsInTrinoGrammar ==
  \A i \in DOMAIN posted :
    LET sent == posted[i].sent
        orig == posted[i].piece.stmt
    IN  sent.parses => \A k \in DOMAIN sent.levels :
          LET q == sent.levels[k]
          IN  /\ ~(Present(q.limit) /\ Present(q.offset))
              /\ \A f \in q.fetch : is_zero_literal(f) => f \in orig.levels[k].fetch

\* The rows a level of the query lets through.
Through(rows, q) ==
  LET skip == Max({0} \cup q.offset)
      upto == {Len(rows)} \cup {skip + l.value : l \in q.limit \cup q.fetch}
  IN  SubSeq(rows, skip + 1, Min(upto))

\* The levels are applied innermost first.
RowsOf(s) ==
  LET after[k \in 0 .. Len(s.levels)] ==
        IF k = 0 THEN [i \in 1 .. TableRows |-> i] ELSE Through(after[k - 1], s.levels[k])
  IN  after[Len(s.levels)]

\* The rewritten statement returns the rows the client's statement asks for,
\* for all limits, offsets and nestings of them (LimitOffsetRewriter).
MeaningPreserved ==
  \A i \in DOMAIN posted : RowsOf(posted[i].sent) = RowsOf(posted[i].piece.stmt)

\* "the server is expected to run each statement and reply with a
\* `CommandComplete` per statement": no statement of a text is passed over in
\* silence (process_query).
RunsEachStatement ==
  pc = "done" /\ (\A i \in DOMAIN answers : answers[i].kind # "error")
    => Len(answers) = Len(text)
=============================================================================
