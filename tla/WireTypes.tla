----------------------------- MODULE WireTypes -----------------------------
(***************************************************************************)
(* One cell of a result: how a JSON value of Trino becomes the text or the *)
(* binary form of the column's PostgreSQL type, or an error.               *)
(*                                                                         *)
(* Numbers are counted in halves, so that a fraction exists; the widths of *)
(* integers and floats are constants whose order is the real one: f64 has  *)
(* fewer bits than i64.  Times are counted in ticks, the finest digit      *)
(* Trino writes; chrono keeps Nano, PostgreSQL keeps Micro.  A string is a *)
(* record of what is written in it.  An Option is a set of at most one     *)
(* element.                                                                *)
(***************************************************************************)
EXTENDS TrinoTypes

CONSTANTS
  Int2Max, Int4Max, Int8Max,   \* i16::MAX, i32::MAX, i64::MAX
  F32Bits, F64Bits, MaxExp,    \* significant bits; bound on the exponent
  DecimalMax, MaxScale,        \* rust_decimal's mantissa and fraction digits: 2^96 - 1, 28
  ExponentFrom,                \* serde_json writes floats with an exponent from here: 1e16
  Nano, Micro, Second,         \* ticks of a nanosecond, a microsecond, a second
  Zones                        \* zone name -> [before, after, at]: seconds east of UTC
                               \* before and after a change at the instant `at`

Abs(x) == IF x < 0 THEN -x ELSE x
OrElse(a, b) == IF a # {} THEN a ELSE b
TowardsZero(x, d) == IF x < 0 THEN -((-x) \div d) ELSE x \div d

-----------------------------------------------------------------------------
(* JSON values and what strings say.                                        *)

Null == [json |-> "null"]
Bool(b) == [json |-> "bool", b |-> b]
Num(n) == [json |-> "int", n |-> n]       \* within i64 or u64
Float(h) == [json |-> "float", h |-> h]
Str(s) == [json |-> "string", s |-> s]
Composite(v) == [json |-> "composite", v |-> v]   \* an array or an object

Digits(n) == [form |-> "digits", n |-> n]
Point(h) == [form |-> "point", h |-> h, scale |-> 1]       \* one digit behind the point
Scaled(h, n) == [form |-> "point", h |-> h, scale |-> n]   \* n of them
Exponent(h) == [form |-> "exponent", h |-> h]
Word(w) == [form |-> "word", w |-> w]
JsonText(v) == [form |-> "json", v |-> v]
Canonical(v) == [form |-> "canonical", v |-> v]   \* spelled alike on both sides
Base64(v) == [form |-> "base64", v |-> v]
Date(d) == [form |-> "date", d |-> d]
Time(at, zone) == [form |-> "time", at |-> at, zone |-> zone]
Stamp(at, zone) == [form |-> "stamp", at |-> at, zone |-> zone]

\* A zone is missing, named, or an offset; `spelling` tells Trino's +02:00
\* from PostgreSQL's +02.
NoZone == [kind |-> "none"]
Named(z) == [kind |-> "named", name |-> z]
Offset(spelling, negative, h, m, s) ==
  [kind |-> "offset", spelling |-> spelling, negative |-> negative, h |-> h, m |-> m, s |-> s]
East(zone) == (IF zone.negative THEN -1 ELSE 1) * (zone.h * 3600 + zone.m * 60 + zone.s)

-----------------------------------------------------------------------------
(* Numbers.                                                                 *)

Floats(bits) == {sgn * m * 2^e : sgn \in {-1, 1}, m \in 0 .. 2^bits - 1, e \in 0 .. MaxExp}
F32 == Floats(F32Bits)
F64 == Floats(F64Bits)
Nearest(floats, x) ==
  IF x \in floats THEN x ELSE CHOOSE f \in floats : \A g \in floats : Abs(f - x) <= Abs(g - x)
as_f64(x) == Nearest(F64, x)
as_f32(x) == Nearest(F32, x)

I64 == -Int8Max - 1 .. Int8Max
I64MinF64 == as_f64(2 * (-Int8Max - 1))
I64MaxF64 == as_f64(2 * Int8Max)

\* i64::MIN is a float, i64::MAX is not: it rounds up, to 2^63.
ASSUME WidthAssumption ==
  /\ Int8Max \in Nat /\ Int2Max \in 0 .. Int8Max /\ Int4Max \in 0 .. Int8Max
  /\ F32 \subseteq F64 /\ F64 \subseteq Int
  /\ {2 * (-Int8Max - 1), 2 * (Int8Max + 1)} \subseteq F64
  /\ I64MaxF64 = 2 * (Int8Max + 1)

\* Display for f64: no exponent, and no point if the number is whole.
FloatText(h) == IF h % 2 = 0 THEN Digits(h \div 2) ELSE Point(h)

\* Mutant: the upper bound is included, where the cast saturates.
FitsI64Closed(h) == I64MinF64 <= h /\ h <= I64MaxF64

FitsI64(h) == I64MinF64 <= h /\ h < I64MaxF64

\* `f as i64` cuts the fraction and saturates.
CastI64(h) ==
  LET n == TowardsZero(h, 2)
  IN  IF n > Int8Max THEN Int8Max ELSE IF n < -Int8Max - 1 THEN -Int8Max - 1 ELSE n

IntegerTypes == {"tinyint", "smallint", "integer", "bigint"}

\* Display for a JSON number.
to_string(j) ==
  IF j.json = "int" THEN Digits(j.n)
  ELSE IF Abs(j.h) < 2 * ExponentFrom THEN Point(j.h) ELSE Exponent(j.h)

encode_number(j, base) ==
  CASE base \in IntegerTypes /\ j.json = "int" -> Digits(j.n)
    [] base \in IntegerTypes /\ j.json = "float" ->
         IF FitsI64(j.h) THEN Digits(CastI64(j.h)) ELSE FloatText(j.h)
    [] base \in {"real", "double"} -> FloatText(as_f64(IF j.json = "int" THEN 2 * j.n ELSE j.h))
    [] OTHER -> to_string(j)

f64_to_i64_exact(h) == IF h % 2 = 0 /\ FitsI64(h) THEN {CastI64(h)} ELSE {}

\* str::parse of a number, in halves.
ParsedHalves(s) ==
  CASE s.form = "digits" -> {2 * s.n}
    [] s.form \in {"point", "exponent"} -> {s.h}
    [] OTHER -> {}

\* Mutant: a string is not tried as a float.
json_to_i64_digits(j) ==
  CASE j.json = "int" ->
         OrElse({j.n} \cap I64, f64_to_i64_exact(as_f64(2 * j.n)))
    [] j.json = "float" -> f64_to_i64_exact(j.h)
    [] j.json = "string" -> IF j.s.form = "digits" THEN {j.s.n} \cap I64 ELSE {}
    [] OTHER -> {}

json_to_i64(j) ==
  CASE j.json = "int" ->
         OrElse({j.n} \cap I64, f64_to_i64_exact(as_f64(2 * j.n)))
    [] j.json = "float" -> f64_to_i64_exact(j.h)
    [] j.json = "string" ->
         OrElse(IF j.s.form = "digits" THEN {j.s.n} \cap I64 ELSE {},
                UNION {f64_to_i64_exact(as_f64(h)) : h \in ParsedHalves(j.s)})
    [] OTHER -> {}

NonFinite == {"NaN", "Infinity", "-Infinity"}

json_to_f64(j) ==
  CASE j.json = "int" -> {FloatText(as_f64(2 * j.n))}
    [] j.json = "float" -> {FloatText(j.h)}
    [] j.json = "string" ->
         IF j.s.form = "word" /\ j.s.w \in NonFinite THEN {j.s}
         ELSE {FloatText(as_f64(h)) : h \in ParsedHalves(j.s)}
    [] OTHER -> {}

\* What rust_decimal holds: the digits as they are written, without the point,
\* fit its mantissa, and not too many of them, zeros included, stand behind it.
InCapacity(s) ==
  \/ s.form = "digits" /\ Abs(s.n) <= DecimalMax
  \/ s.form = "point" /\ s.scale <= MaxScale /\ Abs(s.h) * 10^s.scale <= 2 * DecimalMax

from_str_exact(s) == IF InCapacity(s) THEN ParsedHalves(s) ELSE {}

\* Trino sends decimals of up to 38 digits, behind the point as many as the
\* type has.
json_to_decimal(j) ==
  CASE j.json = "string" -> from_str_exact(j.s)
    [] j.json \in {"int", "float"} -> from_str_exact(to_string(j))
    [] OTHER -> {}

json_to_bool(j) ==
  CASE j.json = "bool" -> {j.b}
    [] j.json = "string" /\ j.s = Word("true") -> {TRUE}
    [] j.json = "string" /\ j.s = Word("false") -> {FALSE}
    [] OTHER -> {}
-----------------------------------------------------------------------------
(* Times.  Trino writes up to twelve digits of a second.                    *)

\* Zones change on a nanosecond.
ASSUME TimeAssumption ==
  /\ {Nano, Micro, Second} \subseteq Nat \ {0}
  /\ Micro % Nano = 0 /\ Second % Nano = 0
  /\ \A z \in DOMAIN Zones :
       /\ {Zones[z].before, Zones[z].after, Zones[z].at} \subseteq Int
       /\ Zones[z].at % Nano = 0

truncate_fraction(at) == at - (at % Nano)

\* Both times are read by chrono; what carries a zone is not a naive one.
Naive(form, j) ==
  IF j.json = "string" /\ j.s.form = form /\ j.s.zone = NoZone
  THEN {truncate_fraction(j.s.at)} ELSE {}

json_to_timestamp(j) == Naive("stamp", j)
json_to_time(j) == Naive("time", j)
json_to_date(j) == IF j.json = "string" /\ j.s.form = "date" THEN {j.s.d} ELSE {}

\* The instants a wall clock of the zone shows as `at`: two in a DST fold,
\* none in a gap or if chrono-tz does not know the zone.
Candidates(zone, at) ==
  UNION {{i \in {at - z.before * Second} : i < z.at} \cup {i \in {at - z.after * Second} : i >= z.at}
         : z \in {Zones[n] : n \in {zone.name} \cap DOMAIN Zones}}

\* The instant a timestamp with a zone names; none if the zone leaves it open.
parse_trino_timestamptz(s) ==
  IF s.form # "stamp" \/ s.zone.kind = "none" THEN {}
  ELSE LET at == truncate_fraction(s.at)
       IN  IF s.zone.kind = "offset" THEN {at - East(s.zone) * Second}
           ELSE {i \in Candidates(s.zone, at) : Candidates(s.zone, at) = {i}}

\* TimeTz: the offset is mandatory, and kept.
parse_trino_timetz(s) ==
  IF s.form = "time" /\ s.zone.kind = "offset"
  THEN {[time |-> truncate_fraction(s.at), east |-> East(s.zone)]}
  ELSE {}

json_to_timestamptz(j) == IF j.json = "string" THEN parse_trino_timestamptz(j.s) ELSE {}
json_to_timetz(j) == IF j.json = "string" THEN parse_trino_timetz(j.s) ELSE {}

\* Six digits, cut.
format_fraction(at) == at - (at % Micro)

format_utc_offset(east) ==
  LET total == Abs(east)
  IN  Offset("compact", east < 0, total \div 3600, (total % 3600) \div 60, total % 60)

render_timestamptz_text(i) == Stamp(format_fraction(i), format_utc_offset(0))
to_pg_text(tz) == Time(format_fraction(tz.time), format_utc_offset(tz.east))

\* timetz_send: microseconds since midnight and seconds west of UTC.
to_sql(tz) == [micros |-> tz.time \div Micro, west |-> -tz.east]

\* postgres-types: microseconds since 2000-01-01, the rest cut towards it.
MicrosOf(i) == TowardsZero(i, Micro)

-----------------------------------------------------------------------------
(* Cells.                                                                   *)

Cell(c) == [ok |-> TRUE, cell |-> c]
Err(sqlstate) == [ok |-> FALSE, sqlstate |-> sqlstate]
NullCell == [wire |-> "null"]
Text(s) == Cell([wire |-> "text", s |-> s])
Binary(layout, v) == Cell([wire |-> "binary", layout |-> layout, v |-> v])

conversion_error == Err("22P03")
out_of_range == Err("22003")
unsupported_binary_type == Err("0A000")

\* encode_field of a conversion that may have failed.
Put(layout, opt) ==
  IF opt = {} THEN conversion_error ELSE Binary(layout, CHOOSE x \in opt : TRUE)

PutNarrow(layout, max, opt) ==
  IF opt = {} THEN conversion_error
  ELSE LET n == CHOOSE x \in opt : TRUE
       IN  IF n \in -max - 1 .. max THEN Binary(layout, n) ELSE out_of_range

encode_value(j, t) ==
  CASE j.json = "bool" -> Word(IF j.b THEN "true" ELSE "false")
    [] j.json \in {"int", "float"} -> encode_number(j, base_type(t))
    [] j.json = "string" -> j.s
    [] j.json = "composite" -> JsonText(j.v)

text_value(j, p, t) ==
  LET instants == json_to_timestamptz(j)
      times == json_to_timetz(j)
  IN  CASE p = Scalar("timestamptz") /\ instants # {} ->
             render_timestamptz_text(CHOOSE i \in instants : TRUE)
        [] p = Scalar("timetz") /\ times # {} -> to_pg_text(CHOOSE x \in times : TRUE)
        [] OTHER -> encode_value(j, t)

ToF32(s) == IF s.form = "word" THEN s ELSE FloatText(as_f32(CHOOSE h \in ParsedHalves(s) : TRUE))
StringFamily == {"varchar", "text", "bpchar"}

encode_binary_cell(j, p, t) ==
  IF p.array THEN unsupported_binary_type
  ELSE CASE p.name = "bool" -> Put("bool", json_to_bool(j))
         [] p.name = "int2" -> PutNarrow("int2", Int2Max, json_to_i64(j))
         [] p.name = "int4" -> PutNarrow("int4", Int4Max, json_to_i64(j))
         [] p.name = "int8" -> Put("int8", json_to_i64(j))
         [] p.name = "float4" -> Put("float4", {ToF32(s) : s \in json_to_f64(j)})
         [] p.name = "float8" -> Put("float8", json_to_f64(j))
         [] p.name = "numeric" -> Put("numeric", json_to_decimal(j))
         [] p.name = "timestamp" -> Put("timestamp", {MicrosOf(at) : at \in json_to_timestamp(j)})
         [] p.name = "timestamptz" ->
              Put("timestamptz", {MicrosOf(i) : i \in json_to_timestamptz(j)})
         [] p.name = "date" -> Put("date", json_to_date(j))
         [] p.name = "time" -> Put("time", {MicrosOf(at) : at \in json_to_time(j)})
         [] p.name = "timetz" -> Put("timetz", {to_sql(x) : x \in json_to_timetz(j)})
         [] p.name \in StringFamily -> Binary("chars", encode_value(j, t))
         [] OTHER -> unsupported_binary_type

\* A field is what RowDescription says of a column: its type and its format.
encode_cell(j, field, t) ==
  CASE j = Null -> Cell(NullCell)
    [] j # Null /\ field.format = "text" -> Text(text_value(j, field.datatype, t))
    [] j # Null /\ field.format = "binary" -> encode_binary_cell(j, field.datatype, t)
=============================================================================
