---------------------------- MODULE MCResultSet ----------------------------
(* Instances of ResultSet for TLC.                                          *)
EXTENDS ResultSet

\* Hours around a change from +02:00 to +01:00 (a fold) and from +01:00 to
\* +02:00 (a gap), and a zone that never changes.
MCZones == [Fold |-> [before |-> 7200, after |-> 3600, at |-> 40],
            Gap |-> [before |-> 3600, after |-> 7200, at |-> 40],
            UTC |-> [before |-> 0, after |-> 0, at |-> 0]]
Instants == {-3, -1, 0, 5, 11, 39, 40, 40 + 1800 * Second, 40 - 1800 * Second}
Wall(z, i) == i + Second * (IF i < MCZones[z].at THEN MCZones[z].before ELSE MCZones[z].after)
TrinoOffset(negative, h, m) == Offset("full", negative, h, m, 0)
TrinoOffsets == {TrinoOffset(FALSE, 0, 0), TrinoOffset(FALSE, 2, 0), TrinoOffset(TRUE, 0, 30),
                 TrinoOffset(TRUE, 3, 30)}

Whole == {-33, -32, -9, -8, -5, -4, 0, 3, 4, 7, 8, 28, 31, 32, 63}
Integers_ ==
  {Num(n) : n \in Whole \ {-33}} \cup {Float(h) : h \in {-128, -64, -8, 0, 5, 6, 16, 56, 64, 256}}
    \cup {Str(Digits(n)) : n \in Whole} \cup {Str(Point(h)) : h \in {5, 6, 64}}
Reals == {Num(0), Num(3), Float(3), Float(-6), Str(Word("NaN")), Str(Word("-Infinity"))}
\* Around two digits of mantissa and two behind the point.
Decimals ==
  {Str(Digits(n)) : n \in {-100, -99, 0, 7, 99, 100}}
    \cup {Str(Scaled(h, n)) : h \in {-2, 0, 1, 2, 19, 20}, n \in 1 .. 3}
    \cup {Num(7), Float(15), Float(16)}

\* What Trino sends in a column of a type.
ValuesOf(t) ==
  CASE TypeName(t) \in IntegerTypes -> Integers_
    [] TypeName(t) \in {"real", "double"} -> Reals
    [] TypeName(t) = "decimal" -> Decimals
    [] TypeName(t) = "boolean" -> {Bool(TRUE), Bool(FALSE), Str(Word("true"))}
    [] TypeName(t) = "date" -> {Str(Date(d)) : d \in {-1, 0, 1}}
    [] TypeName(t) = "time" -> {Str(Time(at, NoZone)) : at \in {0, 3, 5, 11}}
    [] TypeName(t) = "timestamp" -> {Str(Stamp(at, NoZone)) : at \in Instants}
    [] TypeName(t) = "timestamp_with_time_zone" ->
         {Str(Stamp(i + Second * East(o), o)) : i \in Instants, o \in TrinoOffsets}
           \cup {Str(Stamp(Wall(z, i), Named(z))) : i \in Instants, z \in DOMAIN MCZones}
           \cup {Str(Stamp(40, Named("Unknown")))}
    [] TypeName(t) = "time_with_time_zone" -> {Str(Time(at, o)) : at \in {0, 3, 5, 11}, o \in TrinoOffsets}
    [] TypeName(t) = "varbinary" -> {Str(Base64(1))}
    [] TypeName(t) \in {"array", "map", "row"} -> {Composite(1)}
    [] OTHER -> {Str(Canonical(1))}

Scalars ==
  {Plain(n) : n \in {"boolean", "tinyint", "smallint", "integer", "bigint", "real", "double", "varbinary",
                     "date", "json", "uuid", "ipaddress", "interval_year_to_month",
                     "interval_day_to_second", "hyperloglog", "time_with_time_zone",
                     "timestamp_with_time_zone"}}
    \cup {Parametric(n) : n \in {"decimal", "varchar", "char", "time", "timestamp", "map", "row",
                                 "time_with_time_zone", "timestamp_with_time_zone"}}
Types == Scalars \cup {ArrayOf(t) : t \in Scalars} \cup {ArrayOf(ArrayOf(Plain("integer")))}

Table(schema, name, columns_) ==
  [schema |-> schema, name |-> name, isView |-> FALSE, columns |-> columns_]
Scenario(types, formats, rows, message) ==
  LET t == Table(<<112>>, <<116>>, types)
  IN  [tables |-> {t}, table |-> t, rows |-> rows, formats |-> formats, message |-> message]

MCPublic == <<112>>

\* Every value of every type in both formats, and without formats.
OneCell ==
  UNION {{Scenario(<<t>>, f, <<<<j>>>>, <<"word">>)
            : f \in {{}, {<<"text">>}, {<<"binary">>}}, j \in ValuesOf(t) \cup {Null}} : t \in Types}

\* Several rows of two columns, one of which may hold a number too large.
ManyRows ==
  LET good == <<Num(1), Str(Canonical(1))>>
      bad == <<Num(31), Str(Canonical(2))>>
  IN  {Scenario(<<Plain("integer"), Parametric("varchar")>>, {<<"binary", "text">>},
                [i \in 1 .. n |-> IF i = b THEN bad ELSE good], <<"word">>)
         : n \in 0 .. MaxRows, b \in 0 .. MaxRows}

\* Tables whose names run together to the same letters.
TwoTables ==
  LET one == Table(<<97, 98>>, <<99>>, <<Plain("integer"), Plain("date")>>)
      two == [Table(<<97>>, <<98, 99>>, <<Plain("bigint")>>) EXCEPT !.isView = TRUE]
  IN  {[tables |-> {one, two}, table |-> t, rows |-> << >>, formats |-> {}, message |-> <<"word">>]
         : t \in {one, two}}

\* All short messages, and longer ones that are cut.
MessageTokens == {"class", "frame", "frame2", "http", "https", "host", "end", "space", "wide", "word",
           "TYPE_MISMATCH"}
Sensible(m) == \A i \in DOMAIN m : m[i] = "host" => i > 1 /\ m[i - 1] \in {"http", "https", "word"}
Messages ==
  {m \in UNION {[1 .. n -> MessageTokens] : n \in 1 .. 2} \cup [1 .. 4 -> {"class", "https", "host", "wide", "word"}]
     : Sensible(m)}
    \cup {<<"line", "word">>, <<"line", "TYPE_MISMATCH">>, <<"word", "frame", "ACCESS_DENIED">>,
          <<"SYNTAX_ERROR", "DOES_NOT_EXIST">>, <<"class", "DIVISION_BY_ZERO">>,
          <<"CANNOT_BE_RESOLVED", "ACCESS_DENIED">>, <<"word", "word", "https", "host", "end", "word">>}
Failing == {Scenario(<<Plain("integer")>>, {}, << >>, m) : m \in Messages}

MCScenarios == OneCell \cup ManyRows \cup TwoTables \cup Failing

MCBytes == [x \in MessageTokens \cup {"line", "SYNTAX_ERROR", "DOES_NOT_EXIST", "CANNOT_BE_RESOLVED",
                               "ACCESS_DENIED", "DIVISION_BY_ZERO", Masked, Ellipsis} |->
              IF x \in {"wide", Ellipsis} THEN 3 ELSE IF x \in {"host", Masked} THEN 2 ELSE 1]
=============================================================================
