---------------------------- MODULE ClientReads ----------------------------
(***************************************************************************)
(* What a PostgreSQL client makes of the cells of WireTypes, what Trino    *)
(* meant by the values they come from, and when the two agree.             *)
(***************************************************************************)
EXTENDS WireTypes, FiniteSets

-----------------------------------------------------------------------------
(* What the client reads in a cell, given the type and the format it was    *)
(* told.  It refuses text its parser for the type does not know.            *)

Read(v) == [got |-> TRUE, v |-> v]
Refused == [got |-> FALSE]
InRange(p) ==
  CASE p = "int2" -> -Int2Max - 1 .. Int2Max
    [] p = "int4" -> -Int4Max - 1 .. Int4Max
    [] p = "int8" -> I64

Halves(s) == CHOOSE h \in ParsedHalves(s) : TRUE
IsNumber(s) == s.form \in {"digits", "point", "exponent"}
HasOffset(s, form) ==
  s.form = form /\ s.zone.kind = "offset" /\ s.zone.spelling = "compact"

ReadsText(p, s) ==
  LET ok == IF p.array THEN s.form = "braces"
            ELSE CASE p.name \in {"int2", "int4", "int8"} ->
                        s.form = "digits" /\ s.n \in InRange(p.name)
                   [] p.name \in {"float4", "float8"} -> IsNumber(s) \/ s.form = "word"
                   [] p.name = "numeric" -> IsNumber(s)
                   [] p.name = "bool" -> s \in {Word("true"), Word("false")}
                   [] p.name = "timestamp" -> s.form = "stamp" /\ s.zone = NoZone
                   [] p.name = "time" -> s.form = "time" /\ s.zone = NoZone
                   [] p.name = "timestamptz" -> HasOffset(s, "stamp")
                   [] p.name = "timetz" -> HasOffset(s, "time")
                   [] OTHER -> TRUE
  IN  IF ~ok THEN Refused
      ELSE Read(CASE p.name \in {"int2", "int4", "int8", "numeric"} -> Halves(s)
                  [] p.name = "float4" -> ToF32(s)
                  [] p.name = "float8" -> IF IsNumber(s) THEN FloatText(Halves(s)) ELSE s
                  [] p.name = "bool" -> s = Word("true")
                  [] p.name = "date" -> s.d
                  [] p.name \in {"timestamp", "time"} -> s.at
                  [] p.name = "timestamptz" -> s.at - East(s.zone) * Second
                  [] p.name = "timetz" -> [time |-> s.at, east |-> East(s.zone)]
                  [] OTHER -> s)

LayoutOf(p) == IF p.name \in StringFamily THEN "chars" ELSE p.name

ReadsBinary(p, v) ==
  Read(CASE p.name \in {"int2", "int4", "int8"} -> 2 * v
         [] p.name \in {"timestamp", "timestamptz", "time"} -> v * Micro
         [] p.name = "timetz" -> [time |-> v.micros * Micro, east |-> -v.west]
         [] OTHER -> v)

-----------------------------------------------------------------------------
(* Trino (external).                                                        *)

TypeName(t) == IF t.arrays > 0 THEN "array" ELSE t.name

NumberTypes == IntegerTypes \cup {"decimal", "real", "double"}

IsOffset(zone) ==
  zone.kind = "offset" /\ zone.negative \in BOOLEAN /\ {zone.h, zone.m, zone.s} \subseteq Nat

\* The values it puts into a column of a type.  A number may be spelled as an
\* integer, a float or a string; one with a fraction is a float of its width.
Sent(t, j) ==
  LET name == TypeName(t)
      floats == IF name = "real" THEN F32 ELSE F64
      Written(form) == j.json = "string" /\ j.s.form = form
  IN  /\ name \in IntegerTypes =>
           \/ j.json = "int" /\ j.n \in -Int8Max - 1 .. 2 * Int8Max + 1
           \/ j.json = "float" /\ j.h \in F64
           \/ Written("digits") /\ j.s.n \in Int
           \/ Written("point") /\ j.s.h \in F64
      /\ name = "decimal" =>
           \/ j.json = "int" /\ j.n \in Int
           \/ j.json = "float" /\ j.h \in Int
           \/ Written("digits") /\ j.s.n \in Int
           \/ Written("point") /\ j.s.h \in Int /\ j.s.scale \in Nat
      /\ name \in {"real", "double"} =>
           \/ j.json = "int" /\ j.n \in Int /\ 2 * j.n \in floats
           \/ j.json = "float" /\ j.h \in floats
           \/ j.json = "string" /\ j.s \in {Word(w) : w \in NonFinite}
      /\ name = "boolean" =>
           \/ j.json = "bool" /\ j.b \in BOOLEAN
           \/ j.json = "string" /\ j.s \in {Word("true"), Word("false")}
      /\ name = "date" => Written("date")
      /\ name = "time" => Written("time") /\ j.s.at \in Int /\ j.s.zone = NoZone
      /\ name = "timestamp" => Written("stamp") /\ j.s.at \in Int /\ j.s.zone = NoZone
      /\ name = "time_with_time_zone" =>
           Written("time") /\ j.s.at \in Int /\ IsOffset(j.s.zone)
      /\ name = "timestamp_with_time_zone" =>
           /\ Written("stamp") /\ j.s.at \in Int
           /\ IsOffset(j.s.zone) \/ j.s.zone.kind = "named"
      /\ name \in {"array", "map", "row"} => j.json = "composite"
      /\ name \notin NumberTypes \cup {"boolean", "array", "map", "row"} => j.json = "string"

Truth(j) == IF j.json = "bool" THEN j.b ELSE j.s.w = "true"

\* What Trino means by a value; more than one instant if it does not say.
Means(t, j) ==
  CASE TypeName(t) \in IntegerTypes \cup {"decimal"} ->
         IF j.json = "int" THEN {2 * j.n} ELSE IF j.json = "float" THEN {j.h} ELSE {Halves(j.s)}
    [] TypeName(t) \in {"real", "double"} ->
         IF j.json = "int" THEN {Digits(j.n)} ELSE IF j.json = "float" THEN {FloatText(j.h)} ELSE {j.s}
    [] TypeName(t) = "boolean" -> {Truth(j)}
    [] TypeName(t) = "varbinary" -> {Canonical(j.s.v)}
    [] TypeName(t) = "date" -> {j.s.d}
    [] TypeName(t) \in {"timestamp", "time"} -> {j.s.at}
    [] TypeName(t) = "timestamp_with_time_zone" ->
         IF j.s.zone.kind = "named" THEN Candidates(j.s.zone, j.s.at)
         ELSE {j.s.at - East(j.s.zone) * Second}
    [] TypeName(t) = "time_with_time_zone" -> {[time |-> j.s.at, east |-> East(j.s.zone)]}
    [] OTHER -> {IF j.json = "composite" THEN JsonText(j.v) ELSE j.s}

\* The same to the microsecond.
Close(a, b) == Abs(a - b) < Micro

Same(t, m, v) ==
  CASE TypeName(t) \in {"timestamp", "time", "timestamp_with_time_zone"} -> Close(m, v)
    [] TypeName(t) = "time_with_time_zone" -> Close(m.time, v.time) /\ m.east = v.east
    [] OTHER -> m = v

-----------------------------------------------------------------------------
(* Agreement.                                                               *)

\* Three values that are not carried over.  Trino's base64 is not a spelling of
\* bytea; in an integer column the text path cuts a fraction, and a string
\* just below i64::MIN is rounded to it on its way through f64.  Trino sends
\* neither of the last two.
NotCarriedOver(t, j, format) ==
  \/ TypeName(t) = "varbinary" /\ format = "text"
  \/ TypeName(t) \in IntegerTypes /\ j.json = "float" /\ format = "text" /\ j.h % 2 # 0
  \/ TypeName(t) \in IntegerTypes /\ j.json = "string" /\ format = "binary" /\ Halves(j.s) < I64MinF64

Faithful(t, j, field, c) ==
  IF j = Null THEN c = NullCell
  ELSE /\ c.wire = field.format
       /\ c.wire = "binary" => c.layout = LayoutOf(field.datatype)
       /\ LET read == IF c.wire = "text" THEN ReadsText(field.datatype, c.s)
                                         ELSE ReadsBinary(field.datatype, c.v)
          IN  read.got => \E m \in Means(t, j) : Means(t, j) = {m} /\ Same(t, m, read.v)

\* What encode_cell sends in binary: the types it lists, and of those an
\* instant the zone leaves no doubt about, an integer within the width of the
\* column, a decimal within the capacity of rust_decimal.
BinaryTypes ==
  {"bool", "int2", "int4", "int8", "float4", "float8", "numeric", "date", "time", "timetz",
   "timestamp", "timestamptz"} \cup StringFamily
BinarySupported(t, p, j) ==
  /\ ~p.array
  /\ p.name \in BinaryTypes
  /\ Cardinality(Means(t, j)) = 1
  /\ LET m == CHOOSE m \in Means(t, j) : TRUE
     IN  p.name \in {"int2", "int4", "int8"} => m % 2 = 0 /\ m \div 2 \in InRange(p.name)
  /\ p.name = "numeric" => InCapacity(IF j.json = "string" THEN j.s ELSE to_string(j))
=============================================================================
