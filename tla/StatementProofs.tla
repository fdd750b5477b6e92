--------------------------- MODULE StatementProofs ---------------------------
(***************************************************************************)
(* Theorems about Statement.                                               *)
(***************************************************************************)
EXTENDS Statement, SequenceTheorems, WellFoundedInduction, TLAPS

\* A non-empty set of naturals has a least element.
LEMMA LeastNat ==
  ASSUME NEW T \in SUBSET Nat, T # {}
  PROVE  \E x \in T : \A y \in T : x <= y
  <1>1. PICK x \in T : \A y \in T : ~(<<y, x>> \in OpToRel(<, Nat))
    BY NatLessThanWellFounded, WFMin, Zenon
  <1>2. \A y \in T : ~(y < x)
    BY <1>1, Zenon DEF OpToRel
  <1> QED
    BY <1>2

\* Min of a set of naturals is its least element.
LEMMA MinNat ==
  ASSUME NEW T \in SUBSET Nat, T # {}
  PROVE  Min(T) \in T /\ \A y \in T : Min(T) <= y
  BY LeastNat, Zenon DEF Min

\* Induction over the naturals, for a set instead of a predicate.
LEMMA NatInductive ==
  ASSUME NEW T \in SUBSET Nat, 0 \in T, \A n \in T : n + 1 \in T
  PROVE  T = Nat
  <1> SUFFICES ASSUME Nat \ T # {} PROVE FALSE
    BY Zenon
  <1>1. PICK x \in Nat \ T : \A y \in Nat \ T : x <= y
    BY LeastNat, Zenon
  <1>2. x # 0 /\ x - 1 \in Nat /\ x - 1 \in T
    BY <1>1
  <1> QED
    BY <1>1, <1>2

-----------------------------------------------------------------------------
(* The routes.                                                              *)

\* FirstMatch answers "none" if no condition holds, and else with the answer
\* of a route whose condition holds.
LEMMA FirstMatchHits ==
  ASSUME NEW routes, DOMAIN routes \subseteq Nat
  PROVE  \/ FirstMatch(routes) = "none" /\ \A i \in DOMAIN routes : ~routes[i][1]
         \/ \E i \in DOMAIN routes : routes[i][1] /\ FirstMatch(routes) = routes[i][2]
  <1> DEFINE hits == {i \in DOMAIN routes : routes[i][1]}
  <1>1. CASE hits = {}
    BY <1>1 DEF FirstMatch
  <1>2. CASE hits # {}
    <2>1. hits \in SUBSET Nat
      OBVIOUS
    <2>2. Min(hits) \in hits
      BY <1>2, <2>1, MinNat
    <2>3. FirstMatch(routes) = routes[Min(hits)][2]
      BY <1>2 DEF FirstMatch
    <2> QED
      BY <2>2, <2>3, Zenon
  <1> QED
    BY <1>1, <1>2

\* A query that counts as the call of a server function.
FunctionCall(s) == s.query /\ ~s.from /\ s.calls \cap ServerFunctions # {}

\* intercept_server_functions answers only a query that calls one of them and
\* has no FROM.
LEMMA ServerFunctionAnswers ==
  ASSUME NEW s
  PROVE  \/ intercept_server_functions(s) = "none"
         \/ FunctionCall(s) /\ intercept_server_functions(s) \in ServerFunctions
  <1> DEFINE c1 == calls_function(s, "version")
             c2 == calls_function(s, "current_database")
             c3 == calls_function(s, "current_schema")
             c4 == calls_function(s, "pg_is_in_recovery")
             c5 == calls_function(s, "current_setting")
             routes == << <<c1, "version">>, <<c2, "current_database">>, <<c3, "current_schema">>,
                          <<c4, "pg_is_in_recovery">>, <<c5, "current_setting">> >>
  <1>1. is_bare_scalar_select(s) => intercept_server_functions(s) = FirstMatch(routes)
    BY DEF intercept_server_functions
  <1>2. DOMAIN routes = 1 .. 5 /\ \A i \in 1 .. 5 : routes[i][2] \in ServerFunctions
    BY DEF ServerFunctions
  <1>3. \/ FirstMatch(routes) = "none"
        \/ FirstMatch(routes) \in ServerFunctions /\ \E i \in 1 .. 5 : routes[i][1]
    <2> HIDE DEF routes
    <2> QED
      BY <1>2, FirstMatchHits
  <1>4. (\E i \in 1 .. 5 : routes[i][1]) => c1 \/ c2 \/ c3 \/ c4 \/ c5
    <2> HIDE DEF c1, c2, c3, c4, c5
    <2> QED
      OBVIOUS
  <1>5. c1 \/ c2 \/ c3 \/ c4 \/ c5 => s.calls \cap ServerFunctions # {}
    BY Zenon DEF calls_function, ServerFunctions
  <1>6. is_bare_scalar_select(s) => s.query /\ ~s.from
    BY DEF is_bare_scalar_select
  <1>7. ~is_bare_scalar_select(s) => intercept_server_functions(s) = "none"
    BY DEF intercept_server_functions
  <1> HIDE DEF routes, c1, c2, c3, c4, c5
  <1> QED
    BY <1>1, <1>3, <1>4, <1>5, <1>6, <1>7 DEF FunctionCall

\* A statement that references a catalog name references a served relation.
LEMMA ReferencedIsServed ==
  ASSUME NEW s, NEW name, references_table(s, name),
         name \in {"pg_stat_ssl", "pg_enum", "pg_type", "pg_range", "pg_namespace", "pg_class",
                   "pg_attribute"}
  PROVE  \E r \in s.rels : Served(r)
  BY Zenon DEF references_table, Served

Catalog == {"composite", "pg_enum", "pg_type", "pg_range", "pg_namespace"}

\* handle_catalog_query declines only a statement that names none of its tables.
LEMMA CatalogAnswers ==
  ASSUME NEW s
  PROVE  \/ /\ handle_catalog_query(s) = "none"
            /\ \A name \in {"pg_enum", "pg_type", "pg_range", "pg_namespace"} :
                 ~references_table(s, name)
         \/ handle_catalog_query(s) \in Catalog /\ \E r \in s.rels : Served(r)
  <1> DEFINE c1 == references_table(s, "pg_attribute") /\ references_table(s, "pg_type")
             c2 == references_table(s, "pg_enum")
             c3 == references_table(s, "pg_type")
             c4 == references_table(s, "pg_range")
             c5 == references_table(s, "pg_namespace")
             routes == << <<c1, "composite">>, <<c2, "pg_enum">>, <<c3, "pg_type">>,
                          <<c4, "pg_range">>, <<c5, "pg_namespace">> >>
  <1>1. handle_catalog_query(s) = FirstMatch(routes)
    BY DEF handle_catalog_query
  <1>2. DOMAIN routes = 1 .. 5 /\ \A i \in 1 .. 5 : routes[i][2] \in Catalog
    BY DEF Catalog
  <1>3. \/ FirstMatch(routes) = "none" /\ \A i \in 1 .. 5 : ~routes[i][1]
        \/ FirstMatch(routes) \in Catalog /\ \E i \in 1 .. 5 : routes[i][1]
    <2> HIDE DEF routes
    <2> QED
      BY <1>2, FirstMatchHits
  <1>4. \/ FirstMatch(routes) = "none" /\ ~c2 /\ ~c3 /\ ~c4 /\ ~c5
        \/ FirstMatch(routes) \in Catalog /\ (c1 \/ c2 \/ c3 \/ c4 \/ c5)
    <2> HIDE DEF c1, c2, c3, c4, c5
    <2> QED
      BY <1>3
  <1>5. c1 \/ c2 \/ c3 \/ c4 \/ c5 => \E r \in s.rels : Served(r)
    BY ReferencedIsServed
  <1> QED
    BY <1>1, <1>4, <1>5

LocalAnswers ==
  PrefixCommands \cup ExactCommands \cup ServerFunctions \cup Catalog
  \cup {"pg_stat_ssl", "character_sets", "missing"}

\* try_intercept answers a command, a call of a server function or a statement
\* over a served relation, and declines only what none of its routes is for.
LEMMA InterceptAnswers ==
  ASSUME NEW s
  PROVE  \/ /\ try_intercept(s) = "none"
            /\ ~references_table(s, "pg_stat_ssl")
            /\ handle_catalog_query(s) = "none"
            /\ \A t \in MissingTables \cup {"character_sets"} :
                 ~references_table_in_schema(s, "information_schema", t)
         \/ /\ try_intercept(s) \in LocalAnswers
            /\ \/ s.command \in PrefixCommands \cup ExactCommands
               \/ FunctionCall(s)
               \/ \E r \in s.rels : Served(r)
  <1> DEFINE a1 == s.command
             a2 == intercept_server_functions(s)
             a4 == handle_catalog_query(s)
             c1 == s.command \in PrefixCommands \cup ExactCommands
             c2 == intercept_server_functions(s) # "none"
             c3 == references_table(s, "pg_stat_ssl")
             c4 == handle_catalog_query(s) # "none"
             c5 == references_table_in_schema(s, "information_schema", "character_sets")
             c6 == \E t \in MissingTables : references_table_in_schema(s, "information_schema", t)
             routes == << <<c1, a1>>, <<c2, a2>>, <<c3, "pg_stat_ssl">>, <<c4, a4>>,
                          <<c5, "character_sets">>, <<c6, "missing">> >>
             m == FirstMatch(routes)
  <1>1. try_intercept(s) = m
    BY DEF try_intercept
  <1>2. DOMAIN routes = 1 .. 6
    OBVIOUS
  <1>3. \/ m = "none" /\ \A i \in 1 .. 6 : ~routes[i][1]
        \/ \E i \in 1 .. 6 : routes[i][1] /\ m = routes[i][2]
    <2> HIDE DEF routes
    <2> QED
      BY <1>2, FirstMatchHits
  <1>4. \/ m = "none" /\ ~c3 /\ ~c4 /\ ~c5 /\ ~c6
        \/ c1 /\ m = a1
        \/ c2 /\ m = a2
        \/ c3 /\ m = "pg_stat_ssl"
        \/ c4 /\ m = a4
        \/ c5 /\ m = "character_sets"
        \/ c6 /\ m = "missing"
    <2>1. \/ m = "none" /\ ~routes[3][1] /\ ~routes[4][1] /\ ~routes[5][1] /\ ~routes[6][1]
          \/ routes[1][1] /\ m = routes[1][2]
          \/ routes[2][1] /\ m = routes[2][2]
          \/ routes[3][1] /\ m = routes[3][2]
          \/ routes[4][1] /\ m = routes[4][2]
          \/ routes[5][1] /\ m = routes[5][2]
          \/ routes[6][1] /\ m = routes[6][2]
      <3> HIDE DEF routes, m
      <3> QED
        BY <1>3
    <2> HIDE DEF a1, a2, a4, c1, c2, c3, c4, c5, c6, m
    <2> QED
      BY <2>1
  <1> HIDE DEF m
  <1>5. CASE c1 /\ m = a1
    BY <1>1, <1>5 DEF LocalAnswers
  <1>6. CASE c2 /\ m = a2
    BY <1>1, <1>6, ServerFunctionAnswers DEF LocalAnswers
  <1>7. CASE c3 /\ m = "pg_stat_ssl"
    BY <1>1, <1>7, ReferencedIsServed DEF LocalAnswers
  <1>8. CASE c4 /\ m = a4
    BY <1>1, <1>8, CatalogAnswers DEF LocalAnswers
  <1>9. c5 \/ c6 => \E r \in s.rels : Served(r)
    BY Zenon DEF references_table_in_schema, Served
  <1>10. CASE c5 /\ m = "character_sets"
    BY <1>1, <1>9, <1>10 DEF LocalAnswers
  <1>11. CASE c6 /\ m = "missing"
    BY <1>1, <1>9, <1>11 DEF LocalAnswers
  <1>12. CASE m = "none" /\ ~c3 /\ ~c4 /\ ~c5 /\ ~c6
    BY <1>1, <1>12
  <1> QED
    BY <1>4, <1>5, <1>6, <1>7, <1>8, <1>10, <1>11, <1>12

\* handle_dynamic_catalog_query declines only a statement without its tables, or one
\* that the static catalog has answered.
LEMMA DynamicAnswers ==
  ASSUME NEW s
  PROVE  \/ /\ handle_dynamic_catalog_query(s) = "none"
            /\ \/ references_table(s, "pg_attribute") /\ references_table(s, "pg_type")
               \/ ~references_table(s, "pg_class") /\ ~references_table(s, "pg_attribute")
         \/ /\ handle_dynamic_catalog_query(s) \in {"pg_class", "pg_attribute"}
            /\ \E r \in s.rels : Served(r)
  <1> DEFINE c1 == references_table(s, "pg_attribute") /\ references_table(s, "pg_type")
             c2 == references_table(s, "pg_class")
             c3 == references_table(s, "pg_attribute")
             routes == << <<c1, "none">>, <<c2, "pg_class">>, <<c3, "pg_attribute">> >>
             m == FirstMatch(routes)
  <1>1. handle_dynamic_catalog_query(s) = m
    BY DEF handle_dynamic_catalog_query
  <1>2. DOMAIN routes = 1 .. 3
    OBVIOUS
  <1>3. \/ m = "none" /\ \A i \in 1 .. 3 : ~routes[i][1]
        \/ \E i \in 1 .. 3 : routes[i][1] /\ m = routes[i][2]
    <2> HIDE DEF routes
    <2> QED
      BY <1>2, FirstMatchHits
  <1>4. \/ m = "none" /\ ~c2 /\ ~c3
        \/ c1 /\ m = "none"
        \/ c2 /\ m = "pg_class"
        \/ c3 /\ m = "pg_attribute"
    <2>1. \/ m = "none" /\ ~routes[2][1] /\ ~routes[3][1]
          \/ routes[1][1] /\ m = routes[1][2]
          \/ routes[2][1] /\ m = routes[2][2]
          \/ routes[3][1] /\ m = routes[3][2]
      <3> HIDE DEF routes, m
      <3> QED
        BY <1>3
    <2> HIDE DEF c1, c2, c3, m
    <2> QED
      BY <2>1
  <1>5. c2 \/ c3 => \E r \in s.rels : Served(r)
    BY ReferencedIsServed
  <1> HIDE DEF m
  <1> QED
    BY <1>1, <1>4, <1>5

\* What both handlers decline has no served relation: whichever of them comes
\* first, none leaves a relation to the other that it does not take.
LEMMA RoutesComplete ==
  ASSUME NEW s, s.parses, Unanswered(s), handle_dynamic_catalog_query(s) = "none",
         NEW r \in s.rels
  PROVE  ~Served(r)
  <1>1. /\ ~references_table(s, "pg_stat_ssl")
        /\ handle_catalog_query(s) = "none"
        /\ \A t \in MissingTables \cup {"character_sets"} :
             ~references_table_in_schema(s, "information_schema", t)
    BY InterceptAnswers DEF Unanswered, LocalAnswers, PrefixCommands, ExactCommands,
                            ServerFunctions, Catalog
  <1>2. \A name \in {"pg_enum", "pg_type", "pg_range", "pg_namespace"} :
          ~references_table(s, name)
    BY <1>1, CatalogAnswers DEF Catalog
  <1>3. ~references_table(s, "pg_class") /\ ~references_table(s, "pg_attribute")
    BY <1>2, DynamicAnswers
  <1>4. r.name \notin {"pg_stat_ssl", "pg_enum", "pg_type", "pg_range", "pg_namespace",
                       "pg_class", "pg_attribute"}
    BY <1>1, <1>2, <1>3 DEF references_table
  <1>5. r.name \in MissingTables \cup {"character_sets"} =>
          r.schema \notin {"", "information_schema"}
    BY <1>1, Zenon DEF references_table_in_schema
  <1> QED
    BY <1>4, <1>5, Zenon DEF Served

-----------------------------------------------------------------------------
(* The loop over the pieces.                                                *)

All == split_statements(text)

LocalAnswer(s) ==
  {a \in {try_intercept(s), handle_dynamic_catalog_query(s)} : a # "none"}

\* The responses so far are those of the first pieces, in order, and the
\* pieces left are the others.
Progress ==
  /\ Len(answers) <= Len(All)
  /\ \A i \in DOMAIN answers :
       /\ answers[i].of = All[i].of
       /\ answers[i].kind \in LocalAnswer(All[i].stmt) \cup {"trino", "error"}
  /\ pc = "run" =>
       /\ pieces # << >>
       /\ Len(answers) + Len(pieces) = Len(All)
       /\ \A i \in DOMAIN pieces : pieces[i] = All[Len(answers) + i]

\* An error is the last response, and only a batch that is through, or that
\* ended with an error, is done.
Ends ==
  /\ \A i \in DOMAIN answers : answers[i].kind = "error" => pc = "done" /\ i = Len(answers)
  /\ pc \in {"split", "failed"} => answers = << >>
  /\ pc = "done" =>
       \/ Len(answers) = Len(All)
       \/ answers # << >> /\ answers[Len(answers)].kind = "error"

\* Only pieces that no handler takes are posted, in their rewritten form.
PostedUnanswered ==
  \A i \in DOMAIN posted :
    /\ \E k \in DOMAIN All : posted[i].piece = All[k]
    /\ Unanswered(posted[i].piece.stmt)
    /\ handle_dynamic_catalog_query(posted[i].piece.stmt) = "none"
    /\ posted[i].sent = Rewritten(posted[i].piece.stmt)

Pieces == [stmt : Statements, of : SUBSET Nat]

IInv ==
  /\ text \in Inputs
  /\ pc \in {"split", "run", "done", "failed"}
  /\ pc # "run" => pieces = << >>
  /\ pieces \in Seq(Pieces)
  /\ answers \in Seq([kind : Answers, of : SUBSET Nat])
  /\ posted \in Seq([piece : Pieces, sent : Statements])
  /\ Progress
  /\ Ends
  /\ PostedUnanswered

\* A text is a non-empty sequence of statements.
LEMMA InputTyped ==
  ASSUME NEW t \in Inputs
  PROVE  /\ t \in Seq(Statements) /\ t # << >> /\ Len(t) \in Nat /\ Len(t) >= 1
         /\ DOMAIN t = 1 .. Len(t)
  <1>1. t \in Seq(Statements) /\ t # << >>
    BY InputAssumption
  <1> QED
    BY <1>1

\* The parts of a piece.
LEMMA PieceFields ==
  ASSUME NEW s, NEW of PROVE Piece(s, of).stmt = s /\ Piece(s, of).of = of
  BY DEF Piece

\* Text that parses has one piece per statement.
LEMMA SplitParsed ==
  ASSUME NEW t \in Inputs, AllParse(t)
  PROVE  /\ split_statements(t) \in Seq(Pieces) /\ Len(split_statements(t)) = Len(t)
         /\ \A i \in 1 .. Len(t) : split_statements(t)[i] = Piece(t[i], {i})
  <1>1. split_statements(t) = [i \in 1 .. Len(t) |-> Piece(t[i], {i})]
    BY InputTyped DEF split_statements
  <1>2. \A i \in 1 .. Len(t) : Piece(t[i], {i}) \in Pieces
    BY InputTyped DEF Piece, Pieces
  <1> DEFINE p == split_statements(t)
  <1>3. Len(t) \in Nat
    BY InputTyped
  <1>4. p \in [1 .. Len(t) -> Pieces]
    BY <1>1, <1>2, Zenon
  <1>5. \A i \in 1 .. Len(t) : p[i] = Piece(t[i], {i})
    BY <1>1
  <1>6. p \in Seq(Pieces) /\ Len(p) = Len(t)
    <2> HIDE DEF p
    <2> QED
      BY <1>3, <1>4
  <1> QED
    BY <1>5, <1>6

\* Other text is one piece, which is not parsed.
LEMMA SplitUnparsed ==
  ASSUME NEW t \in Inputs, ~AllParse(t)
  PROVE  /\ split_statements(t) \in Seq(Pieces) /\ Len(split_statements(t)) = 1
         /\ split_statements(t)[1].of = DOMAIN t /\ ~split_statements(t)[1].stmt.parses
  <1> DEFINE s == [Head(t) EXCEPT !.parses = FALSE, !.command = Keyword(t)]
  <1>1. split_statements(t) = <<Piece(s, DOMAIN t)>>
    BY DEF split_statements
  <1>2. Head(t) \in Statements
    BY InputTyped
  <1>3. Keyword(t) \in PrefixCommands \cup ExactCommands \cup {"none"}
    BY <1>2 DEF Keyword, Statements
  <1>4. s \in Statements /\ ~s.parses
    BY <1>2, <1>3, Zenon DEF Statements
  <1> HIDE DEF s
  <1>5. Piece(s, DOMAIN t) \in Pieces
    BY <1>4, InputTyped DEF Piece, Pieces
  <1> QED
    BY <1>1, <1>4, <1>5 DEF Piece

\* The pieces of a text stand for disjoint parts of it.
LEMMA SplitTyped ==
  ASSUME NEW t \in Inputs
  PROVE  /\ split_statements(t) \in Seq(Pieces)
         /\ Len(split_statements(t)) \in Nat /\ Len(split_statements(t)) >= 1
         /\ \A i \in 1 .. Len(split_statements(t)) : split_statements(t)[i].of \subseteq DOMAIN t
         /\ \A i, j \in 1 .. Len(split_statements(t)) :
              i # j => split_statements(t)[i].of \cap split_statements(t)[j].of = {}
  <1>1. CASE AllParse(t)
    <2> DEFINE p == split_statements(t)
    <2>1. /\ p \in Seq(Pieces) /\ Len(p) = Len(t)
          /\ \A i \in 1 .. Len(t) : p[i] = Piece(t[i], {i})
      BY <1>1, SplitParsed, Zenon
    <2>2. Len(t) \in Nat /\ Len(t) >= 1 /\ DOMAIN t = 1 .. Len(t)
      BY InputTyped
    <2> HIDE DEF p
    <2>3. ASSUME NEW i \in 1 .. Len(t) PROVE p[i].of = {i}
      <3>1. p[i] = Piece(t[i], {i})
        BY <2>1, Zenon
      <3>2. Piece(t[i], {i}).of = {i}
        BY PieceFields
      <3> QED
        BY <3>1, <3>2, Zenon
    <2> QED
      BY <2>1, <2>2, <2>3 DEF p
  <1>2. CASE ~AllParse(t)
    <2>1. \A i \in 1 .. 1 : i = 1
      OBVIOUS
    <2> QED
      BY <1>2, <2>1, SplitUnparsed
  <1> QED
    BY <1>1, <1>2

\* A rewritten level is a level.
LEMMA LevelTyped ==
  ASSUME NEW q \in Levels PROVE LimitOffsetRewriter(q) \in Levels
  BY Zenon DEF LimitOffsetRewriter, Levels, Option

\* A rewritten expression is an expression.
LEMMA ExprTyped ==
  ASSUME NEW e \in Expressions
  PROVE  FunctionRenamer(ILikeRewriter(CastRewriter(e))) \in Expressions
  <1>1. CastRewriter(e) \in Expressions
    BY Zenon DEF CastRewriter, Expressions, Casts
  <1>2. ILikeRewriter(CastRewriter(e)) \in Expressions
    BY <1>1, Zenon DEF ILikeRewriter, Expressions
  <1> QED
    BY <1>2, Zenon DEF FunctionRenamer, Expressions

\* What the rewriter keeps and what it does at each level.
LEMMA RewrittenTyped ==
  ASSUME NEW s \in Statements
  PROVE  /\ Rewritten(s) \in Statements
         /\ Rewritten(s).parses = s.parses /\ Rewritten(s).rels = s.rels
         /\ DOMAIN Rewritten(s).levels = DOMAIN s.levels
         /\ \A k \in DOMAIN s.levels :
              Rewritten(s).levels[k] \in {s.levels[k], LimitOffsetRewriter(s.levels[k])}
         /\ s.parses => \A k \in DOMAIN s.levels :
              Rewritten(s).levels[k] = LimitOffsetRewriter(s.levels[k])
  <1> DEFINE i == rewrite_info_schema_columns(s)
  <1>1. i \in Statements /\ i.parses = s.parses /\ i.rels = s.rels /\ i.levels = s.levels
    <2>1. \A e \in Expressions : (IF e = "typeCase" THEN "typeMapping" ELSE e) \in Expressions
      BY Zenon DEF Expressions
    <2>2. {IF e = "typeCase" THEN "typeMapping" ELSE e : e \in s.exprs} \in SUBSET Expressions
      BY <2>1 DEF Statements
    <2> QED
      BY <2>2 DEF rewrite_info_schema_columns, Statements
  <1> HIDE DEF i
  <1>2. CASE ~s.parses
    <2>1. Rewritten(s) = s
      BY <1>2 DEF Rewritten, rewrite_info_schema_columns, references_table_in_schema, rewrite_sql
    <2> QED
      BY <1>2, <2>1
  <1>3. CASE s.parses
    <2> DEFINE exprs == {FunctionRenamer(ILikeRewriter(CastRewriter(e))) : e \in i.exprs}
               levels == [k \in DOMAIN i.levels |-> LimitOffsetRewriter(i.levels[k])]
    <2>1. Rewritten(s) = [i EXCEPT !.exprs = exprs, !.levels = levels]
      BY <1>1, <1>3 DEF Rewritten, rewrite_sql, i
    <2>2. exprs \in SUBSET Expressions
      BY <1>1, ExprTyped DEF Statements
    <2>3. levels \in Seq(Levels) /\ DOMAIN levels = DOMAIN s.levels
      <3>1. s.levels \in Seq(Levels)
        BY DEF Statements
      <3>2. levels = [k \in 1 .. Len(s.levels) |-> LimitOffsetRewriter(s.levels[k])]
        BY <1>1, <3>1
      <3>3. \A k \in 1 .. Len(s.levels) : LimitOffsetRewriter(s.levels[k]) \in Levels
        BY <3>1, LevelTyped
      <3> QED
        BY <3>1, <3>2, <3>3
    <2>4. \A k \in DOMAIN s.levels : levels[k] = LimitOffsetRewriter(s.levels[k])
      BY <1>1
    <2> HIDE DEF exprs, levels
    <2>5. /\ Rewritten(s) \in Statements /\ Rewritten(s).parses = i.parses
          /\ Rewritten(s).rels = i.rels /\ Rewritten(s).exprs = exprs
          /\ Rewritten(s).levels = levels
      BY <1>1, <2>1, <2>2, <2>3, Zenon DEF Statements
    <2> QED
      BY <1>1, <2>2, <2>3, <2>4, <2>5
  <1> QED
    BY <1>2, <1>3

\* The piece the loop is at.
LEMMA CurrentPiece ==
  ASSUME IInv, pc = "run"
  PROVE  /\ pieces # << >> /\ Len(answers) \in Nat /\ Len(pieces) \in Nat /\ Len(All) \in Nat
         /\ Len(answers) + 1 \in 1 .. Len(All)
         /\ Head(pieces) = All[Len(answers) + 1]
         /\ Head(pieces) \in Pieces
  <1>1. /\ pieces \in Seq(Pieces) /\ pieces # << >>
        /\ Len(answers) \in Nat /\ Len(pieces) \in Nat /\ Len(pieces) >= 1
    BY DEF IInv, Progress
  <1>2. Len(All) \in Nat
    BY SplitTyped DEF IInv, All
  <1>3. Len(answers) + Len(pieces) = Len(All) /\ pieces[1] = All[Len(answers) + 1]
    BY <1>1 DEF IInv, Progress
  <1>4. Head(pieces) = pieces[1] /\ Head(pieces) \in Pieces
    BY <1>1
  <1> QED
    BY <1>1, <1>2, <1>3, <1>4

\* One more response keeps the responses in step with the pieces.
LEMMA AppendAnswer ==
  ASSUME IInv, pc = "run", text' = text, NEW a \in Answers,
         a \in LocalAnswer(Head(pieces).stmt) \cup {"trino", "error"},
         answers' = Append(answers, [kind |-> a, of |-> Head(pieces).of])
  PROVE  /\ answers' \in Seq([kind : Answers, of : SUBSET Nat])
         /\ Len(answers') = Len(answers) + 1 /\ Len(answers') <= Len(All)
         /\ answers'[Len(answers) + 1].kind = a
         /\ \A i \in 1 .. Len(answers) : answers'[i] = answers[i]
         /\ \A i \in DOMAIN answers' :
              /\ answers'[i].of = All[i].of
              /\ answers'[i].kind \in LocalAnswer(All[i].stmt) \cup {"trino", "error"}
  <1> DEFINE r == [kind |-> a, of |-> Head(pieces).of]
             n == Len(answers)
  <1>1. r \in [kind : Answers, of : SUBSET Nat] /\ r.kind = a /\ r.of = Head(pieces).of
    BY CurrentPiece DEF Pieces
  <1>2. answers \in Seq([kind : Answers, of : SUBSET Nat]) /\ answers' = Append(answers, r)
    BY DEF IInv
  <1> HIDE DEF r
  <1>3. /\ answers' \in Seq([kind : Answers, of : SUBSET Nat])
        /\ Len(answers') = n + 1 /\ answers'[n + 1] = r
        /\ \A i \in 1 .. n : answers'[i] = answers[i]
    BY <1>1, <1>2
  <1>4. DOMAIN answers = 1 .. n /\ DOMAIN answers' = 1 .. n + 1
    BY <1>2, <1>3
  <1>5. n \in Nat /\ Len(All) \in Nat /\ n + 1 <= Len(All) /\ Head(pieces) = All[n + 1]
    BY CurrentPiece
  <1>6. ASSUME NEW i \in 1 .. n + 1
        PROVE  /\ answers'[i].of = All[i].of
               /\ answers'[i].kind \in LocalAnswer(All[i].stmt) \cup {"trino", "error"}
    <2>1. CASE i = n + 1
      BY <1>1, <1>3, <1>5, <2>1
    <2>2. CASE i # n + 1
      <3>1. i \in 1 .. n /\ answers'[i] = answers[i]
        BY <1>3, <1>5, <2>2
      <3>2. i \in DOMAIN answers
        BY <1>4, <3>1
      <3> HIDE DEF n
      <3> QED
        BY <3>1, <3>2 DEF IInv, Progress
    <2> QED
      BY <2>1, <2>2
  <1> QED
    BY <1>1, <1>3, <1>4, <1>5, <1>6

\* A response keeps the invariant of the loop.
LEMMA StepRespond ==
  ASSUME IInv, pc = "run", text' = text, NEW a \in Answers \ {"error"},
         a \in LocalAnswer(Head(pieces).stmt) \cup {"trino"}, Respond(a)
  PROVE  /\ pc' \in {"run", "done"} /\ (pc' # "run" => pieces' = << >>)
         /\ pieces' \in Seq(Pieces)
         /\ answers' \in Seq([kind : Answers, of : SUBSET Nat])
         /\ Progress' /\ Ends'
  <1>1. /\ answers' \in Seq([kind : Answers, of : SUBSET Nat])
        /\ Len(answers') = Len(answers) + 1 /\ Len(answers') <= Len(All)
        /\ answers'[Len(answers) + 1].kind = a
        /\ \A i \in 1 .. Len(answers) : answers'[i] = answers[i]
        /\ \A i \in DOMAIN answers' :
             /\ answers'[i].of = All[i].of
             /\ answers'[i].kind \in LocalAnswer(All[i].stmt) \cup {"trino", "error"}
    BY AppendAnswer, Zenon DEF Respond
  <1>2. /\ pieces \in Seq(Pieces) /\ pieces # << >> /\ pieces' = Tail(pieces)
        /\ pc' = IF Len(pieces) = 1 THEN "done" ELSE "run"
    BY CurrentPiece DEF IInv, Respond
  <1>3. /\ pieces' \in Seq(Pieces) /\ Len(pieces') = Len(pieces) - 1 /\ Len(pieces) \in Nat
        /\ Len(pieces) >= 1
        /\ \A i \in 1 .. Len(pieces) - 1 : pieces'[i] = pieces[i + 1]
    BY <1>2
  <1>4. pc' \in {"run", "done"} /\ (pc' = "done" <=> Len(pieces) = 1)
    BY <1>2
  <1>5. Len(pieces) = 1 <=> pieces' = << >>
    BY <1>2, <1>3, SMTT(20)
  <1>6. Len(answers) + Len(pieces) = Len(All) /\ Len(answers) \in Nat /\ Len(All) \in Nat
    BY CurrentPiece DEF IInv, Progress
  <1>7. \A i \in 1 .. Len(pieces) : pieces[i] = All[Len(answers) + i]
    <2>1. DOMAIN pieces = 1 .. Len(pieces)
      BY <1>2
    <2> QED
      BY <2>1, Zenon DEF IInv, Progress
  <1>8. All' = All
    BY DEF All
  <1>9. ASSUME NEW i \in DOMAIN pieces' PROVE pieces'[i] = All[Len(answers') + i]
    <2>1. i \in 1 .. Len(pieces) - 1 /\ i + 1 \in 1 .. Len(pieces)
      BY <1>3
    <2>2. pieces'[i] = All[Len(answers) + (i + 1)]
      BY <1>3, <1>7, <2>1
    <2>3. Len(answers) + (i + 1) = Len(answers') + i
      BY <1>1, <1>6, <2>1
    <2> QED
      BY <2>2, <2>3
  <1>10. Progress'
    <2>1. Len(answers') + Len(pieces') = Len(All)
      <3>1. Len(answers') = Len(answers) + 1
        BY <1>1
      <3>2. Len(pieces') = Len(pieces) - 1 /\ Len(pieces) \in Nat
        BY <1>3
      <3> QED
        BY <1>6, <3>1, <3>2
    <2>2. pc' = "run" => pieces' # << >>
      BY <1>4, <1>5
    <2> QED
      BY <1>1, <1>8, <1>9, <2>1, <2>2 DEF Progress
  <1>11. \A i \in DOMAIN answers' : answers'[i].kind # "error"
    <2>1. DOMAIN answers' = 1 .. Len(answers) + 1
      BY <1>1
    <2>2. \A i \in 1 .. Len(answers) : answers[i].kind # "error"
      BY DEF IInv, Ends
    <2> QED
      BY <1>1, <1>6, <2>1, <2>2
  <1>12. pc' = "done" => Len(answers') = Len(All)
    BY <1>1, <1>4, <1>6, Zenon
  <1>13. Ends'
    BY <1>4, <1>8, <1>11, <1>12 DEF Ends
  <1> QED
    BY <1>1, <1>3, <1>4, <1>5, <1>10, <1>13

\* An error the client is told of keeps it.
LEMMA StepAbort ==
  ASSUME IInv, pc = "run", text' = text, Abort
  PROVE  /\ pc' = "done" /\ pieces' = << >> /\ pieces' \in Seq(Pieces)
         /\ answers' \in Seq([kind : Answers, of : SUBSET Nat])
         /\ Progress' /\ Ends'
  <1>1. pc' = "done" /\ pieces' = << >>
    BY DEF Abort
  <1>2. << >> \in Seq(Pieces)
    OBVIOUS
  <1>3. "error" \in Answers
    BY DEF Answers
  <1>4. /\ answers' \in Seq([kind : Answers, of : SUBSET Nat])
        /\ Len(answers') = Len(answers) + 1 /\ Len(answers') <= Len(All)
        /\ answers'[Len(answers) + 1].kind = "error"
        /\ \A i \in 1 .. Len(answers) : answers'[i] = answers[i]
        /\ \A i \in DOMAIN answers' :
             /\ answers'[i].of = All[i].of
             /\ answers'[i].kind \in LocalAnswer(All[i].stmt) \cup {"trino", "error"}
    BY <1>3, AppendAnswer, Zenon DEF Abort
  <1>5. All' = All
    BY DEF All
  <1>6. Progress'
    BY <1>1, <1>4, <1>5 DEF Progress
  <1>7. answers' # << >> /\ Len(answers) \in Nat
    BY <1>4, CurrentPiece
  <1>8. \A i \in DOMAIN answers' : answers'[i].kind = "error" => i = Len(answers')
    <2>1. DOMAIN answers' = 1 .. Len(answers) + 1
      BY <1>4
    <2>2. \A i \in 1 .. Len(answers) : answers[i].kind # "error"
      BY DEF IInv, Ends
    <2> QED
      BY <1>4, <1>7, <2>1, <2>2
  <1>9. Ends'
    BY <1>1, <1>4, <1>7, <1>8 DEF Ends
  <1> QED
    BY <1>1, <1>2, <1>4, <1>6, <1>9

\* An error that ends the connection keeps it.
LEMMA StepFail ==
  ASSUME IInv, text' = text, Fail
  PROVE  /\ pc' = "failed" /\ pieces' = << >> /\ pieces' \in Seq(Pieces)
         /\ answers' \in Seq([kind : Answers, of : SUBSET Nat])
         /\ Progress' /\ Ends'
  <1>1. pc' = "failed" /\ pieces' = << >> /\ answers' = << >>
    BY DEF Fail
  <1>2. << >> \in Seq(Pieces) /\ << >> \in Seq([kind : Answers, of : SUBSET Nat])
    OBVIOUS
  <1>3. Len(answers') <= Len(All') /\ DOMAIN answers' = {}
    <2>1. Len(All) >= 1 /\ Len(All) \in Nat /\ All' = All
      BY SplitTyped DEF IInv, All
    <2> QED
      BY <1>1, <2>1
  <1>4. Progress'
    BY <1>1, <1>3 DEF Progress
  <1>5. Ends'
    BY <1>1, <1>3 DEF Ends
  <1> QED
    BY <1>1, <1>2, <1>4, <1>5

\* Neither catalog answers with an error or with Trino's name.
LEMMA LocalAnswerTyped ==
  ASSUME NEW s
  PROVE  /\ Answers \cap {"none"} = {}
         /\ LocalAnswer(s) \subseteq Answers \ {"error"}
         /\ try_intercept(s) \in LocalAnswer(s) \cup {"none"}
         /\ handle_dynamic_catalog_query(s) \in LocalAnswer(s) \cup {"none"}
  <1>1. try_intercept(s) \in LocalAnswers \cup {"none"}
    BY InterceptAnswers
  <1>2. handle_dynamic_catalog_query(s) \in {"none", "pg_class", "pg_attribute"}
    BY DynamicAnswers
  <1>3. LocalAnswers \subseteq Answers \ {"error"}
    BY DEF LocalAnswers, Answers, PrefixCommands, ExactCommands, ServerFunctions, Catalog
  <1>4. {"pg_class", "pg_attribute"} \subseteq Answers \ {"error"}
    BY DEF Answers
  <1>5. Answers \cap {"none"} = {}
    BY DEF Answers, PrefixCommands, ExactCommands
  <1> QED
    BY <1>1, <1>2, <1>3, <1>4, <1>5 DEF LocalAnswer

\* A posted piece is the one the loop is at.
LEMMA StepPosted ==
  ASSUME IInv, pc = "run", text' = text,
         Unanswered(Head(pieces).stmt),
         handle_dynamic_catalog_query(Head(pieces).stmt) = "none",
         posted' = Append(posted, [piece |-> Head(pieces), sent |-> Rewritten(Head(pieces).stmt)])
  PROVE  posted' \in Seq([piece : Pieces, sent : Statements]) /\ PostedUnanswered'
  <1> DEFINE p == [piece |-> Head(pieces), sent |-> Rewritten(Head(pieces).stmt)]
             n == Len(posted)
  <1>1. p.piece = Head(pieces) /\ p.sent = Rewritten(p.piece.stmt)
    OBVIOUS
  <1>2. p \in [piece : Pieces, sent : Statements]
    BY CurrentPiece, RewrittenTyped, Zenon DEF Pieces
  <1>3. posted \in Seq([piece : Pieces, sent : Statements]) /\ posted' = Append(posted, p)
    BY DEF IInv
  <1>4. Unanswered(p.piece.stmt) /\ handle_dynamic_catalog_query(p.piece.stmt) = "none"
    BY <1>1
  <1> HIDE DEF p
  <1>5. /\ posted' \in Seq([piece : Pieces, sent : Statements])
        /\ DOMAIN posted' = 1 .. n + 1 /\ DOMAIN posted = 1 .. n /\ n \in Nat
        /\ posted'[n + 1] = p
        /\ \A i \in 1 .. n : posted'[i] = posted[i]
    BY <1>2, <1>3
  <1>6. \E k \in DOMAIN All : p.piece = All[k]
    <2>1. DOMAIN All = 1 .. Len(All)
      BY SplitTyped DEF IInv, All
    <2> QED
      BY <1>1, <2>1, CurrentPiece
  <1>7. All' = All
    BY DEF All
  <1> HIDE DEF n
  <1>8. ASSUME NEW i \in 1 .. n + 1
        PROVE  /\ \E k \in DOMAIN All : posted'[i].piece = All[k]
               /\ Unanswered(posted'[i].piece.stmt)
               /\ handle_dynamic_catalog_query(posted'[i].piece.stmt) = "none"
               /\ posted'[i].sent = Rewritten(posted'[i].piece.stmt)
    <2>1. CASE i = n + 1
      BY <1>1, <1>4, <1>5, <1>6, <2>1
    <2>2. CASE i # n + 1
      <3>1. i \in DOMAIN posted /\ posted'[i] = posted[i]
        BY <1>5, <2>2
      <3> QED
        BY <3>1 DEF IInv, PostedUnanswered
    <2> QED
      BY <2>1, <2>2, Zenon
  <1>9. PostedUnanswered'
    BY <1>5, <1>7, <1>8 DEF PostedUnanswered, Unanswered
  <1> QED
    BY <1>5, <1>9

\* The invariant holds before the split.
LEMMA InitIInv == Init => IInv
  <1> SUFFICES ASSUME Init PROVE IInv
    OBVIOUS
  <1>1. /\ << >> \in Seq(Pieces) /\ << >> \in Seq([kind : Answers, of : SUBSET Nat])
        /\ << >> \in Seq([piece : Pieces, sent : Statements])
    OBVIOUS
  <1>2. Len(answers) <= Len(All) /\ DOMAIN answers = {} /\ DOMAIN posted = {}
    <2>1. Len(All) >= 1 /\ Len(All) \in Nat
      BY SplitTyped DEF Init, All
    <2> QED
      BY <2>1 DEF Init
  <1>3. Progress
    BY <1>2 DEF Init, Progress
  <1>4. Ends
    BY <1>2 DEF Init, Ends
  <1>5. PostedUnanswered
    BY <1>2 DEF PostedUnanswered
  <1> QED
    BY <1>1, <1>3, <1>4, <1>5 DEF Init, IInv

\* Every step of process_query keeps the invariant.
LEMMA StepIInv == IInv /\ [Next]_vars => IInv'
  <1> SUFFICES ASSUME IInv, [Next]_vars PROVE IInv'
    OBVIOUS
  <1>1. ASSUME UNCHANGED <<text, posted>> PROVE PostedUnanswered'
    BY <1>1 DEF IInv, PostedUnanswered, All, Unanswered
  <1>2. CASE Split
    <2>1. pc = "split" /\ pc' = "run" /\ text' = text /\ answers' = answers /\ posted' = posted
      BY <1>2 DEF Split
    <2>2. All' = All /\ pieces' = All
      BY <1>2 DEF Split, All
    <2>3. All \in Seq(Pieces) /\ Len(All) \in Nat /\ Len(All) >= 1
      BY SplitTyped DEF IInv, All
    <2>4. answers = << >> /\ Len(answers) = 0 /\ DOMAIN answers = {}
      BY <2>1 DEF IInv, Ends
    <2>5. \A i \in DOMAIN All : All[i] = All[0 + i]
      BY <2>3
    <2> HIDE DEF All
    <2>6. pieces' # << >> /\ Len(answers') + Len(pieces') = Len(All)
      BY <2>1, <2>2, <2>3, <2>4
    <2>7. Progress'
      BY <2>1, <2>2, <2>3, <2>4, <2>5, <2>6 DEF Progress
    <2>8. Ends'
      BY <2>1, <2>4 DEF Ends
    <2> QED
      BY <1>1, <2>1, <2>2, <2>3, <2>7, <2>8 DEF IInv
  <1>3. CASE Intercept
    <2> DEFINE a == try_intercept(Head(pieces).stmt)
    <2>1. pc = "run" /\ text' = text /\ posted' = posted /\ a # "none" /\ Respond(a)
      BY <1>3 DEF Intercept
    <2>2. a \in LocalAnswer(Head(pieces).stmt) /\ a \in Answers \ {"error"}
      BY <2>1, LocalAnswerTyped
    <2> HIDE DEF a
    <2> QED
      BY <1>1, <2>1, <2>2, StepRespond, Zenon DEF IInv
  <1>4. CASE DynamicCatalog
    <2> DEFINE a == handle_dynamic_catalog_query(Head(pieces).stmt)
    <2>1. /\ pc = "run" /\ text' = text /\ posted' = posted /\ a # "none"
          /\ Respond(a) \/ Fail
      BY <1>4 DEF DynamicCatalog
    <2>2. a \in LocalAnswer(Head(pieces).stmt) /\ a \in Answers \ {"error"}
      BY <2>1, LocalAnswerTyped
    <2> HIDE DEF a
    <2>3. CASE Respond(a)
      BY <1>1, <2>1, <2>2, <2>3, StepRespond, Zenon DEF IInv
    <2>4. CASE Fail
      BY <1>1, <2>1, <2>4, StepFail DEF IInv
    <2> QED
      BY <2>1, <2>3, <2>4
  <1>5. CASE Forward
    <2>1. /\ pc = "run" /\ text' = text
          /\ Unanswered(Head(pieces).stmt)
          /\ handle_dynamic_catalog_query(Head(pieces).stmt) = "none"
          /\ posted' = Append(posted, [piece |-> Head(pieces),
                                       sent |-> Rewritten(Head(pieces).stmt)])
          /\ Respond("trino") \/ Abort \/ Fail
      BY <1>5 DEF Forward
    <2>2. posted' \in Seq([piece : Pieces, sent : Statements]) /\ PostedUnanswered'
      BY <2>1, StepPosted
    <2>3. CASE Respond("trino")
      <3>1. "trino" \in Answers \ {"error"}
        BY DEF Answers
      <3> QED
        BY <2>1, <2>2, <2>3, <3>1, StepRespond, Zenon DEF IInv
    <2>4. CASE Abort
      BY <2>1, <2>2, <2>4, StepAbort DEF IInv
    <2>5. CASE Fail
      BY <2>1, <2>2, <2>5, StepFail DEF IInv
    <2> QED
      BY <2>1, <2>3, <2>4, <2>5
  <1>6. CASE UNCHANGED vars
    <2>1. UNCHANGED <<text, pieces, answers, posted, pc>> /\ All' = All
      BY <1>6 DEF vars, All
    <2>2. Progress'
      BY <2>1 DEF IInv, Progress
    <2>3. Ends'
      BY <2>1 DEF IInv, Ends
    <2> QED
      BY <1>1, <2>1, <2>2, <2>3 DEF IInv
  <1> QED
    BY <1>2, <1>3, <1>4, <1>5, <1>6 DEF Next

\* It holds always.
LEMMA SpecIInv == Spec => []IInv
  BY InitIInv, StepIInv, PTL DEF Spec

\* What is known of a posted piece.
LEMMA PostedPiece ==
  ASSUME IInv, NEW i \in DOMAIN posted
  PROVE  /\ posted[i].piece \in Pieces /\ posted[i].piece.stmt \in Statements
         /\ posted[i].piece.of \subseteq DOMAIN text
         /\ Unanswered(posted[i].piece.stmt)
         /\ handle_dynamic_catalog_query(posted[i].piece.stmt) = "none"
         /\ posted[i].sent = Rewritten(posted[i].piece.stmt)
         /\ posted[i].piece.stmt.parses => \E k \in DOMAIN text : posted[i].piece.stmt = text[k]
  <1>1. PICK k \in DOMAIN All : posted[i].piece = All[k]
    BY DEF IInv, PostedUnanswered
  <1>2. All \in Seq(Pieces) /\ DOMAIN All = 1 .. Len(All) /\ All[k].of \subseteq DOMAIN text
    BY SplitTyped DEF IInv, All
  <1>3. All[k] \in Pieces
    BY <1>1, <1>2
  <1>4. All[k].stmt \in Statements
    BY <1>3 DEF Pieces
  <1>5. ASSUME All[k].stmt.parses PROVE \E j \in DOMAIN text : All[k].stmt = text[j]
    <2>1. CASE AllParse(text)
      <3>1. k \in DOMAIN text /\ All[k] = Piece(text[k], {k})
        BY <1>2, <2>1, SplitParsed, InputTyped, Zenon DEF IInv, All
      <3> QED
        BY <3>1, PieceFields
    <2>2. CASE ~AllParse(text)
      <3>1. Len(All) = 1 /\ ~All[1].stmt.parses
        BY <2>2, SplitUnparsed DEF IInv, All
      <3>2. k = 1
        BY <1>2, <3>1
      <3> QED
        BY <1>5, <3>1, <3>2
    <2> QED
      BY <2>1, <2>2
  <1> HIDE DEF All
  <1> QED
    BY <1>1, <1>2, <1>3, <1>4, <1>5 DEF IInv, PostedUnanswered

\* Responses and pieces are for disjoint parts of the text, and process_query
\* has a piece whenever its loop goes round.
THEOREM TypeCorrect == Spec => []TypeOK
  <1>1. ASSUME IInv PROVE TypeOK
    <2> DEFINE n == Len(answers)
    <2>1. /\ All \in Seq(Pieces) /\ Len(All) \in Nat /\ DOMAIN All = 1 .. Len(All)
          /\ \A i \in 1 .. Len(All) : All[i].of \subseteq DOMAIN text
          /\ \A i, j \in 1 .. Len(All) : i # j => All[i].of \cap All[j].of = {}
      BY <1>1, SplitTyped DEF IInv, All
    <2>2. n \in Nat /\ n <= Len(All) /\ DOMAIN answers = 1 .. n
      BY <1>1 DEF IInv, Progress
    <2> HIDE DEF n
    <2>3. \A i \in 1 .. n : i \in 1 .. Len(All) /\ answers[i].of = All[i].of
      <3>1. \A i \in 1 .. n : i \in 1 .. Len(All)
        BY <2>1, <2>2
      <3>2. \A i \in 1 .. n : answers[i].of = All[i].of
        BY <1>1, <2>2 DEF IInv, Progress
      <3> QED
        BY <3>1, <3>2
    <2>4. answers \in Seq([kind : Answers, of : SUBSET DOMAIN text])
      <3> DEFINE T == [kind : Answers, of : SUBSET Nat]
                 U == [kind : Answers, of : SUBSET DOMAIN text]
      <3>1. answers \in Seq(T)
        BY <1>1 DEF IInv
      <3>2. \A a \in T : a.of \subseteq DOMAIN text => a \in U
        OBVIOUS
      <3> HIDE DEF T, U
      <3>3. \A i \in 1 .. n : answers[i] \in T
        BY <2>2, <3>1
      <3>4. \A i \in 1 .. n : answers[i] \in U
        BY <2>1, <2>3, <3>2, <3>3
      <3>5. answers \in [1 .. n -> U]
        BY <2>2, <3>1, <3>4
      <3>6. answers \in Seq(U)
        BY <2>2, <3>5
      <3> QED
        BY <3>6 DEF U
    <2>5. ASSUME NEW j \in DOMAIN pieces
          PROVE  /\ pc = "run" /\ n + j \in 1 .. Len(All) /\ pieces[j] = All[n + j]
                 /\ j \in Nat /\ j >= 1
      <3>1. pc = "run"
        BY <1>1 DEF IInv
      <3>2. DOMAIN pieces = 1 .. Len(pieces) /\ Len(pieces) \in Nat
        BY <1>1 DEF IInv
      <3>3. n + Len(pieces) = Len(All) /\ pieces[j] = All[n + j]
        BY <1>1, <3>1 DEF IInv, Progress, n
      <3> QED
        BY <2>2, <3>1, <3>2, <3>3
    <2>6. ASSUME NEW j \in DOMAIN pieces
          PROVE  /\ pieces[j].of \subseteq DOMAIN text
                 /\ \A i \in 1 .. n : answers[i].of \cap pieces[j].of = {}
      <3>1. n + j \in 1 .. Len(All) /\ pieces[j] = All[n + j]
        BY <2>5
      <3>2. \A i \in 1 .. n : i # n + j
        BY <2>2, <2>5
      <3> HIDE DEF All
      <3> QED
        BY <2>1, <2>3, <3>1, <3>2
    <2>7. \A i \in DOMAIN posted : posted[i].piece.of \subseteq DOMAIN text
      BY <1>1, PostedPiece
    <2>8. pc = "run" <=> pieces # << >>
      BY <1>1 DEF IInv, Progress
    <2> QED
      BY <1>1, <2>2, <2>4, <2>6, <2>7, <2>8 DEF TypeOK, IInv
  <1> QED
    BY <1>1, SpecIInv, PTL

\* One response per statement in the order of the statements, all of them or
\* up to the first error (process_query).
THEOREM AnsweredInOrderHolds == Spec => []AnsweredInOrder
  <1>1. ASSUME IInv, pc = "done", AllParse(text)
        PROVE  /\ \A i \in DOMAIN answers : answers[i].of = {i}
               /\ \A i \in DOMAIN answers : answers[i].kind = "error" => i = Len(answers)
               /\ Len(answers) = Len(text) \/ answers[Len(answers)].kind = "error"
    <2>1. /\ Len(All) = Len(text)
          /\ \A i \in 1 .. Len(text) : All[i] = Piece(text[i], {i})
      BY <1>1, SplitParsed, Zenon DEF IInv, All
    <2>2. Len(text) \in Nat
      BY <1>1, InputTyped DEF IInv
    <2>3. /\ DOMAIN answers = 1 .. Len(answers) /\ Len(answers) \in Nat
          /\ Len(answers) <= Len(All)
      BY <1>1 DEF IInv, Progress
    <2>4. ASSUME NEW i \in DOMAIN answers PROVE answers[i].of = {i}
      <3>1. answers[i].of = All[i].of
        BY <1>1 DEF IInv, Progress
      <3>2. i \in 1 .. Len(text)
        BY <2>1, <2>2, <2>3
      <3>3. All[i] = Piece(text[i], {i})
        BY <2>1, <3>2, Zenon
      <3> QED
        BY <3>1, <3>3, PieceFields
    <2>5. \A i \in DOMAIN answers : answers[i].kind = "error" => i = Len(answers)
      BY <1>1 DEF IInv, Ends
    <2>6. Len(answers) = Len(text) \/ answers[Len(answers)].kind = "error"
      BY <1>1, <2>1 DEF IInv, Ends
    <2> QED
      BY <2>4, <2>5, <2>6
  <1>2. IInv => AnsweredInOrder
    BY <1>1 DEF AnsweredInOrder
  <1> QED
    BY <1>2, SpecIInv, PTL

\* Trino never sees a statement over a relation only the gateway has:
\* try_intercept and handle_dynamic_catalog_query together leave none out.
THEOREM CatalogStaysLocalHolds == Spec => []CatalogStaysLocal
  <1>1. ASSUME IInv, NEW i \in DOMAIN posted, posted[i].sent.parses,
               NEW r \in posted[i].sent.rels
        PROVE  ~Served(r)
    <2> DEFINE s == posted[i].piece.stmt
    <2>1. /\ s \in Statements /\ Unanswered(s) /\ handle_dynamic_catalog_query(s) = "none"
          /\ posted[i].sent = Rewritten(s)
      BY <1>1, PostedPiece
    <2> HIDE DEF s
    <2>2. s.parses /\ r \in s.rels
      BY <1>1, <2>1, RewrittenTyped
    <2> QED
      BY <2>1, <2>2, RoutesComplete
  <1>2. IInv => CatalogStaysLocal
    BY <1>1 DEF CatalogStaysLocal
  <1> QED
    BY <1>2, SpecIInv, PTL

\* A statement without a relation that the gateway serves is answered by Trino
\* or with an error: no route of try_intercept takes it, unless it is a query
\* without a FROM that calls a server function.
THEOREM UserQueriesReachTrinoHolds == Spec => []UserQueriesReachTrino
  <1>1. ASSUME IInv, NEW i \in DOMAIN answers, NEW k \in answers[i].of, AllParse(text),
               text[k].command = "none", \A r \in text[k].rels : ~Served(r),
               ~text[k].query \/ text[k].from \/ text[k].calls \cap ServerFunctions = {}
        PROVE  answers[i].kind \in {"trino", "error"}
    <2>1. /\ Len(All) = Len(text)
          /\ \A j \in 1 .. Len(text) : All[j] = Piece(text[j], {j})
      BY <1>1, SplitParsed, Zenon DEF IInv, All
    <2>2. i \in 1 .. Len(text)
      <3>1. Len(text) \in Nat
        BY <1>1, InputTyped DEF IInv
      <3>2. DOMAIN answers = 1 .. Len(answers) /\ Len(answers) <= Len(All) /\ Len(answers) \in Nat
        BY <1>1 DEF IInv, Progress
      <3> QED
        BY <2>1, <3>1, <3>2
    <2>3. All[i].of = {i} /\ All[i].stmt = text[i]
      <3>1. All[i] = Piece(text[i], {i})
        BY <2>1, <2>2, Zenon
      <3> QED
        BY <3>1, PieceFields
    <2>4. /\ k \in All[i].of
          /\ answers[i].kind \in LocalAnswer(All[i].stmt) \cup {"trino", "error"}
      BY <1>1 DEF IInv, Progress
    <2>5. k = i
      BY <2>3, <2>4
    <2>6. try_intercept(text[i]) = "none"
      BY <1>1, <2>5, InterceptAnswers DEF FunctionCall, PrefixCommands, ExactCommands
    <2>7. handle_dynamic_catalog_query(text[i]) = "none"
      BY <1>1, <2>5, DynamicAnswers
    <2> QED
      BY <2>3, <2>4, <2>6, <2>7 DEF LocalAnswer
  <1>2. IInv => UserQueriesReachTrino
    BY <1>1 DEF UserQueriesReachTrino
  <1> QED
    BY <1>2, SpecIInv, PTL

\* A level that has no LIMIT together with FETCH comes out in Trino's grammar.
LEMMA LevelRuns ==
  ASSUME NEW q \in Levels, ~Present(q.limit) \/ ~Present(q.fetch)
  PROVE  LET n == LimitOffsetRewriter(q)
         IN  /\ ~(Present(n.limit) /\ Present(n.offset))
             /\ \A f \in n.fetch : is_zero_literal(f) => f \in q.fetch
  BY DEF LimitOffsetRewriter, Levels, Present

\* The limits of what is posted are in Trino's grammar at every level of
\* nesting, for statements that are in PostgreSQL's (LimitOffsetRewriter).
THEOREM LimitsInTrinoGrammarHolds == Spec => []LimitsInTrinoGrammar
  <1>1. ASSUME IInv, NEW i \in DOMAIN posted, posted[i].sent.parses
        PROVE  \A k \in DOMAIN posted[i].sent.levels :
                 LET q == posted[i].sent.levels[k]
                 IN  /\ ~(Present(q.limit) /\ Present(q.offset))
                     /\ \A f \in q.fetch :
                          is_zero_literal(f) => f \in posted[i].piece.stmt.levels[k].fetch
    <2> DEFINE s == posted[i].piece.stmt
    <2>1. /\ s \in Statements /\ posted[i].sent = Rewritten(s)
          /\ s.parses => \E j \in DOMAIN text : s = text[j]
      BY <1>1, PostedPiece
    <2> HIDE DEF s
    <2>2. s.parses
      BY <1>1, <2>1, RewrittenTyped
    <2>3. \A k \in DOMAIN s.levels : ~Present(s.levels[k].limit) \/ ~Present(s.levels[k].fetch)
      BY <1>1, <2>1, <2>2, GrammarAssumption, Zenon DEF IInv
    <2>4. s.levels \in Seq(Levels)
      BY <2>1 DEF Statements
    <2>5. ASSUME NEW k \in DOMAIN posted[i].sent.levels
          PROVE  LET q == posted[i].sent.levels[k]
                 IN  /\ ~(Present(q.limit) /\ Present(q.offset))
                     /\ \A f \in q.fetch : is_zero_literal(f) => f \in s.levels[k].fetch
      <3>1. k \in DOMAIN s.levels /\ posted[i].sent.levels[k] = LimitOffsetRewriter(s.levels[k])
        BY <2>1, <2>2, <2>5, RewrittenTyped
      <3>2. s.levels[k] \in Levels
        BY <2>4, <3>1
      <3> QED
        BY <2>3, <3>1, <3>2, LevelRuns
    <2> QED
      BY <2>5 DEF s
  <1>2. IInv => LimitsInTrinoGrammar
    BY <1>1 DEF LimitsInTrinoGrammar
  <1> QED
    BY <1>2, SpecIInv, PTL

-----------------------------------------------------------------------------
(* The rows of a statement.  RowsOf is a recursive function: that its        *)
(* equation has a solution has to be shown before it can be used.            *)

\* The rows of the innermost table.
Base == [i \in 1 .. TableRows |-> i]

\* Rows after k levels, given those after fewer.
After(levels, f, k) == IF k = 0 THEN Base ELSE Through(f[k - 1], levels[k])

Iter(levels) == CHOOSE f : f = [k \in 0 .. Len(levels) |-> After(levels, f, k)]

\* RowsOf is the last value of the recursion.
LEMMA RowsOfIter ==
  ASSUME NEW s PROVE RowsOf(s) = Iter(s.levels)[Len(s.levels)]
  BY DEF RowsOf, Iter, After, Base

\* The equation has a solution, for however many levels.
LEMMA IterEquation ==
  ASSUME NEW levels, Len(levels) \in Nat
  PROVE  \A k \in 0 .. Len(levels) : Iter(levels)[k] = After(levels, Iter(levels), k)
  <1> DEFINE n == Len(levels)
             Solves(f, k) == \A j \in 0 .. k : f[j] = After(levels, f, j)
             T == {k \in Nat : \E f : Solves(f, k)}
  <1>1. 0 \in T
    <2> DEFINE f == [j \in 0 .. 0 |-> Base]
    <2>1. Solves(f, 0)
      BY DEF After
    <2> QED
      BY <2>1
  <1>2. ASSUME NEW k \in T PROVE k + 1 \in T
    <2>1. PICK f : Solves(f, k)
      BY <1>2
    <2> DEFINE g == [j \in 0 .. k + 1 |-> After(levels, f, j)]
    <2>2. \A j \in 0 .. k : f[j] = g[j]
      BY <2>1
    <2>3. \A j \in 0 .. k + 1 : g[j] = After(levels, f, j)
      OBVIOUS
    <2> HIDE DEF g
    <2>4. ASSUME NEW j \in 0 .. k + 1, j # 0 PROVE f[j - 1] = g[j - 1]
      <3>1. j - 1 \in 0 .. k
        BY <2>4
      <3> QED
        BY <2>2, <3>1
    <2>5. Solves(g, k + 1)
      BY <2>3, <2>4 DEF After
    <2>6. k + 1 \in Nat
      OBVIOUS
    <2> HIDE DEF Solves
    <2> QED
      BY <2>5, <2>6
  <1>3. T = Nat
    <2>1. T \in SUBSET Nat
      OBVIOUS
    <2> HIDE DEF T
    <2> QED
      BY <1>1, <1>2, <2>1, NatInductive, Zenon
  <1>4. PICK f : Solves(f, n)
    BY <1>3
  <1> DEFINE h == [k \in 0 .. n |-> f[k]]
  <1>5. ASSUME NEW k \in 0 .. n PROVE h[k] = After(levels, h, k)
    <2>1. h[k] = f[k] /\ f[k] = After(levels, f, k)
      BY <1>4
    <2>2. k # 0 => h[k - 1] = f[k - 1]
      OBVIOUS
    <2> HIDE DEF h
    <2> QED
      BY <2>1, <2>2 DEF After
  <1>6. h = [k \in 0 .. n |-> After(levels, h, k)]
    BY <1>5
  <1> HIDE DEF h
  <1>7. Iter(levels) = [k \in 0 .. n |-> After(levels, Iter(levels), k)]
    BY <1>6, SMTT(20) DEF Iter
  <1> HIDE DEF n
  <1> QED
    BY <1>7 DEF n

\* What LimitOffsetRewriter does to a level leaves the rows it lets through
\* as they are: moving the limit into FETCH changes nothing, and where LIMIT 0
\* drops the offset nothing is let through either way.
LEMMA LevelMeaning ==
  ASSUME NEW rows \in Seq(Nat), NEW q \in Levels
  PROVE  /\ Through(rows, q) \in Seq(Nat)
         /\ Through(rows, LimitOffsetRewriter(q)) = Through(rows, q)
  <1> DEFINE Skip(l) == Max({0} \cup l.offset)
             Upto(l) == {Len(rows)} \cup {Skip(l) + c.value : c \in l.limit \cup l.fetch}
  <1>1. ASSUME NEW l \in Levels
        PROVE  Skip(l) \in Nat /\ (l.offset = {} => Skip(l) = 0)
    <2>1. CASE l.offset = {}
      <3>1. {0} \cup l.offset = {0}
        BY <2>1
      <3>2. Max({0}) = 0
        BY DEF Max
      <3>3. Skip(l) = 0
        BY <3>1, <3>2, Zenon
      <3> HIDE DEF Skip
      <3> QED
        BY <3>3
    <2>2. CASE l.offset # {}
      <3>1. PICK o \in Nat : l.offset = {o}
        BY <2>2 DEF Levels, Option
      <3>2. Max({0} \cup {o}) \in Nat
        <4>1. o \in {0} \cup {o} /\ \A y \in {0} \cup {o} : o >= y
          OBVIOUS
        <4>2. Max({0} \cup {o}) \in {0} \cup {o}
          BY <4>1 DEF Max
        <4>3. {0} \cup {o} \subseteq Nat
          OBVIOUS
        <4> QED
          BY <4>2, <4>3, Zenon
      <3> QED
        BY <2>2, <3>1, <3>2, Zenon
    <2> QED
      BY <2>1, <2>2
  <1>2. ASSUME NEW l \in Levels
        PROVE  /\ Upto(l) \in SUBSET Nat /\ Len(rows) \in Upto(l)
               /\ Min(Upto(l)) \in Nat /\ Min(Upto(l)) <= Len(rows)
               /\ \A c \in l.limit \cup l.fetch : Min(Upto(l)) <= Skip(l) + c.value
    <2>1. \A c \in l.limit \cup l.fetch : c.value \in Nat
      BY DEF Levels, Option, Counts
    <2>2. Skip(l) \in Nat /\ Len(rows) \in Nat
      BY <1>1
    <2> HIDE DEF Skip
    <2>3. Upto(l) \in SUBSET Nat /\ Len(rows) \in Upto(l)
      BY <2>1, <2>2
    <2>4. \A c \in l.limit \cup l.fetch : Skip(l) + c.value \in Upto(l)
      OBVIOUS
    <2> HIDE DEF Upto
    <2>5. Min(Upto(l)) \in Upto(l) /\ \A y \in Upto(l) : Min(Upto(l)) <= y
      BY <2>3, MinNat
    <2> QED
      BY <2>3, <2>4, <2>5
  <1>3. \A l : Through(rows, l) = SubSeq(rows, Skip(l) + 1, Min(Upto(l)))
    BY DEF Through
  <1>4. Through(rows, q) \in Seq(Nat)
    <2>1. Skip(q) \in Nat /\ Min(Upto(q)) \in Nat /\ Min(Upto(q)) <= Len(rows)
      BY <1>1, <1>2, Zenon
    <2> HIDE DEF Skip, Upto
    <2>2. \A i \in Skip(q) + 1 .. Min(Upto(q)) : rows[i] \in Nat
      BY <2>1
    <2>3. SubSeq(rows, Skip(q) + 1, Min(Upto(q))) \in Seq(Nat)
      BY <2>1, <2>2, SubSeqProperties
    <2> QED
      BY <1>3, <2>3, Zenon
  <1>5. ASSUME NEW l \in Levels, \E c \in l.limit : c.value = 0 PROVE Through(rows, l) = << >>
    <2>1. PICK c \in l.limit : c.value = 0
      BY <1>5
    <2>2. Skip(l) \in Nat /\ Min(Upto(l)) \in Nat /\ Min(Upto(l)) <= Skip(l) + c.value
      BY <1>1, <1>2, Zenon
    <2> HIDE DEF Skip, Upto
    <2>3. Min(Upto(l)) < Skip(l) + 1
      BY <2>1, <2>2
    <2>4. SubSeq(rows, Skip(l) + 1, Min(Upto(l))) = << >>
      BY <2>2, <2>3, SubSeqEmpty
    <2> QED
      BY <1>3, <2>4, Zenon
  <1>6. CASE LimitOffsetRewriter(q) = q
    BY <1>4, <1>6
  <1>7. CASE /\ LimitOffsetRewriter(q) = [q EXCEPT !.offset = {}]
             /\ \E c \in q.limit : is_zero_literal(c)
    <2> DEFINE l == [q EXCEPT !.offset = {}]
    <2>1. l \in Levels /\ l.limit = q.limit
      BY SMTT(20) DEF Levels, Option
    <2>2. \E c \in q.limit : c.value = 0
      BY <1>7 DEF is_zero_literal
    <2> HIDE DEF l
    <2>3. Through(rows, l) = << >> /\ Through(rows, q) = << >>
      BY <1>5, <2>1, <2>2
    <2> QED
      BY <1>4, <1>7, <2>3 DEF l
  <1>8. CASE LimitOffsetRewriter(q) = [q EXCEPT !.limit = {}, !.fetch = q.limit] /\ q.fetch = {}
    <2> DEFINE l == [q EXCEPT !.limit = {}, !.fetch = q.limit]
    <2>1. l.offset = q.offset /\ l.limit = {} /\ l.fetch = q.limit
      BY DEF Levels
    <2>2. l.limit \cup l.fetch = q.limit \cup q.fetch
      BY <1>8, <2>1
    <2> HIDE DEF l
    <2>3. Through(rows, l) = Through(rows, q)
      BY <2>1, <2>2, Zenon DEF Through
    <2> QED
      BY <1>4, <1>8, <2>3 DEF l
  <1> QED
    BY <1>6, <1>7, <1>8 DEF LimitOffsetRewriter, Present

\* Levels that let the same rows through leave the same rows.
LEMMA RowsKept ==
  ASSUME NEW a, NEW b, Len(a) \in Nat, Len(b) = Len(a),
         \A i \in 1 .. Len(a) : a[i] \in Levels /\ b[i] \in {a[i], LimitOffsetRewriter(a[i])}
  PROVE  Iter(b)[Len(b)] = Iter(a)[Len(a)]
  <1> DEFINE n == Len(a)
             Kept(k) == k <= n => Iter(a)[k] \in Seq(Nat) /\ Iter(b)[k] = Iter(a)[k]
             T == {k \in Nat : Kept(k)}
  <1>1. \A k \in 0 .. n : /\ Iter(a)[k] = After(a, Iter(a), k)
                          /\ Iter(b)[k] = After(b, Iter(b), k)
    BY IterEquation
  <1>2. Base \in Seq(Nat)
    <2>1. Base \in [1 .. TableRows -> Nat] /\ TableRows \in Nat
      BY InputAssumption DEF Base
    <2> QED
      BY <2>1
  <1>3. 0 \in T
    <2>1. Iter(a)[0] = Base /\ Iter(b)[0] = Base
      BY <1>1 DEF After
    <2> QED
      BY <1>2, <2>1
  <1>4. ASSUME NEW k \in T PROVE k + 1 \in T
    <2>1. ASSUME k + 1 <= n
          PROVE  Iter(a)[k + 1] \in Seq(Nat) /\ Iter(b)[k + 1] = Iter(a)[k + 1]
      <3>1. k <= n /\ k + 1 \in 1 .. n /\ k + 1 \in 0 .. n /\ k + 1 # 0 /\ (k + 1) - 1 = k
        BY <2>1
      <3>2. Iter(a)[k] \in Seq(Nat) /\ Iter(b)[k] = Iter(a)[k]
        BY <3>1
      <3>3. /\ Iter(a)[k + 1] = Through(Iter(a)[k], a[k + 1])
            /\ Iter(b)[k + 1] = Through(Iter(b)[k], b[k + 1])
        BY <1>1, <3>1 DEF After
      <3>4. a[k + 1] \in Levels /\ b[k + 1] \in {a[k + 1], LimitOffsetRewriter(a[k + 1])}
        BY <3>1
      <3> QED
        BY <3>2, <3>3, <3>4, LevelMeaning, Zenon
    <2>2. Kept(k + 1) /\ k + 1 \in Nat
      BY <2>1
    <2> HIDE DEF Kept
    <2> QED
      BY <2>2
  <1>5. T = Nat
    <2>1. T \in SUBSET Nat
      OBVIOUS
    <2> HIDE DEF T
    <2> QED
      BY <1>3, <1>4, <2>1, NatInductive, Zenon
  <1>6. Kept(n)
    BY <1>5
  <1> QED
    BY <1>6

\* The rewritten statement returns the rows the client's statement asks for,
\* for all limits and offsets and however deep queries are nested
\* (LimitOffsetRewriter).
THEOREM MeaningPreservedHolds == Spec => []MeaningPreserved
  <1>1. ASSUME IInv, NEW i \in DOMAIN posted
        PROVE  RowsOf(posted[i].sent) = RowsOf(posted[i].piece.stmt)
    <2> DEFINE s == posted[i].piece.stmt
               r == posted[i].sent
    <2>1. s \in Statements /\ r = Rewritten(s)
      BY <1>1, PostedPiece
    <2> HIDE DEF s, r
    <2>2. s.levels \in Seq(Levels)
      BY <2>1 DEF Statements
    <2>3. /\ DOMAIN s.levels = 1 .. Len(s.levels) /\ Len(s.levels) \in Nat
          /\ \A k \in 1 .. Len(s.levels) : s.levels[k] \in Levels
      BY <2>2
    <2>4. /\ DOMAIN r.levels = DOMAIN s.levels
          /\ \A k \in DOMAIN s.levels :
               r.levels[k] \in {s.levels[k], LimitOffsetRewriter(s.levels[k])}
      BY <2>1, RewrittenTyped
    <2>5. Len(r.levels) = Len(s.levels)
      BY <2>1, <2>2, <2>4, RewrittenTyped DEF Statements
    <2>6. Iter(r.levels)[Len(r.levels)] = Iter(s.levels)[Len(s.levels)]
      BY <2>3, <2>4, <2>5, RowsKept, Zenon
    <2> QED
      BY <2>6, RowsOfIter DEF s, r
  <1>2. IInv => MeaningPreserved
    BY <1>1 DEF MeaningPreserved
  <1> QED
    BY <1>2, SpecIInv, PTL
=============================================================================
