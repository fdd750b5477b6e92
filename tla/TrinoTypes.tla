----------------------------- MODULE TrinoTypes -----------------------------
(***************************************************************************)
(* Column types on their way from Trino to the client: how a Trino type    *)
(* name becomes a PostgreSQL type, which types the catalog tells a driver  *)
(* about when it loads pg_type, and the OIDs that tie pg_attribute to      *)
(* pg_class.                                                               *)
(*                                                                         *)
(* A Trino type is the name of its scalar without parameters, whether that *)
(* has parameters, and how many array( ) are around it.  A PostgreSQL type *)
(* is its name and whether it is the array over it.  Names are in lower    *)
(* case, with an underscore for a space.                                   *)
(***************************************************************************)
EXTENDS Integers, Sequences

CONSTANTS
  HashSpace,   \* number of values of djb2's u32 (2^32)
  OidMax,      \* i32::MAX
  Public       \* the schema name "public"

Plain(name) == [name |-> name, params |-> FALSE, arrays |-> 0]
Parametric(name) == [name |-> name, params |-> TRUE, arrays |-> 0]
ArrayOf(t) == [t EXCEPT !.arrays = @ + 1]

-----------------------------------------------------------------------------
(* types.rs                                                                 *)

\* Parameters are cut out of the middle of `timestamp(6) with time zone`.
strip_type_params(t) == t.name

\* Up to the first parenthesis: a zone that follows the precision is lost.
base_type(t) ==
  CASE t.arrays > 0 -> "array"
    [] t.arrays = 0 /\ t.params /\ t.name = "time_with_time_zone" -> "time"
    [] t.arrays = 0 /\ t.params /\ t.name = "timestamp_with_time_zone" -> "timestamp"
    [] OTHER -> t.name

Scalar(p) == [name |-> p, array |-> FALSE]

ScalarOf(name) ==
  Scalar(CASE name = "boolean" -> "bool"
           [] name \in {"tinyint", "smallint"} -> "int2"
           [] name = "integer" -> "int4"
           [] name = "bigint" -> "int8"
           [] name = "real" -> "float4"
           [] name = "double" -> "float8"
           [] name = "decimal" -> "numeric"
           [] name = "varchar" -> "varchar"
           [] name = "char" -> "bpchar"
           [] name = "varbinary" -> "bytea"
           [] name = "date" -> "date"
           [] name = "time" -> "time"
           [] name = "time_with_time_zone" -> "timetz"
           [] name = "timestamp" -> "timestamp"
           [] name = "timestamp_with_time_zone" -> "timestamptz"
           [] name \in {"interval", "interval_year_to_month", "interval_day_to_second"} -> "interval"
           [] name \in {"json", "map", "row"} -> "jsonb"
           [] name = "uuid" -> "uuid"
           [] name = "ipaddress" -> "inet"
           [] OTHER -> "text")

\* Every scalar has its array; an array of arrays is taken for one of text.
scalar_to_array(p) == [name |-> IF p.array THEN "text" ELSE p.name, array |-> TRUE]

\* The innermost type first, then one array after the other.
trino_type_to_pg(t) ==
  LET within[d \in 0 .. t.arrays] ==
        IF d = 0 THEN ScalarOf(strip_type_params(t)) ELSE scalar_to_array(within[d - 1])
  IN  within[t.arrays]

-----------------------------------------------------------------------------
(* catalog/pg_type.rs.  Rows are <<oid, typname, element oid>>.             *)

BASE_TYPES ==
  <<<<16, "bool", 0>>, <<17, "bytea", 0>>, <<20, "int8", 0>>, <<21, "int2", 0>>,
    <<23, "int4", 0>>, <<25, "text", 0>>, <<26, "oid", 0>>, <<114, "json", 0>>,
    <<142, "xml", 0>>, <<700, "float4", 0>>, <<701, "float8", 0>>, <<869, "inet", 0>>,
    <<1042, "bpchar", 0>>, <<1043, "varchar", 0>>, <<1082, "date", 0>>, <<1083, "time", 0>>,
    <<1114, "timestamp", 0>>, <<1184, "timestamptz", 0>>, <<1186, "interval", 0>>,
    <<1266, "timetz", 0>>, <<1700, "numeric", 0>>, <<2950, "uuid", 0>>, <<3802, "jsonb", 0>>>>
PSEUDO_TYPES == <<<<705, "unknown", 0>>, <<2249, "record", 0>>, <<2278, "void", 0>>>>
ARRAY_TYPES ==
  <<<<199, "_json", 114>>, <<1000, "_bool", 16>>, <<1001, "_bytea", 17>>, <<1005, "_int2", 21>>,
    <<1007, "_int4", 23>>, <<1009, "_text", 25>>, <<1014, "_bpchar", 1042>>,
    <<1015, "_varchar", 1043>>, <<1016, "_int8", 20>>, <<1021, "_float4", 700>>,
    <<1022, "_float8", 701>>, <<1028, "_oid", 26>>, <<1041, "_inet", 869>>,
    <<1115, "_timestamp", 1114>>, <<1182, "_date", 1082>>, <<1183, "_time", 1083>>,
    <<1185, "_timestamptz", 1184>>, <<1187, "_interval", 1186>>, <<1231, "_numeric", 1700>>,
    <<2951, "_uuid", 2950>>, <<3807, "_jsonb", 3802>>>>

\* Mutant: arrays come before the types they are built from.
TypeLoadingArraysFirst == ARRAY_TYPES \o BASE_TYPES \o PSEUDO_TYPES

\* Base types first, so that a driver knows the element type of an array.
respond_type_loading == BASE_TYPES \o PSEUDO_TYPES \o ARRAY_TYPES

\* The OIDs of postgres-types: scalar, then array.
Oids ==
  [bool |-> <<16, 1000>>, int2 |-> <<21, 1005>>, int4 |-> <<23, 1007>>, int8 |-> <<20, 1016>>,
   float4 |-> <<700, 1021>>, float8 |-> <<701, 1022>>, numeric |-> <<1700, 1231>>,
   varchar |-> <<1043, 1015>>, bpchar |-> <<1042, 1014>>, bytea |-> <<17, 1001>>,
   date |-> <<1082, 1182>>, time |-> <<1083, 1183>>, timetz |-> <<1266, 1270>>,
   timestamp |-> <<1114, 1115>>, timestamptz |-> <<1184, 1185>>, interval |-> <<1186, 1187>>,
   jsonb |-> <<3802, 3807>>, uuid |-> <<2950, 2951>>, inet |-> <<869, 1041>>,
   text |-> <<25, 1009>>]
oid(p) == Oids[p.name][IF p.array THEN 2 ELSE 1]

-----------------------------------------------------------------------------
(* catalog/pg_class.rs and catalog/pg_attribute.rs.  Names are sequences of *)
(* bytes; a table is [schema, name, isView, columns], columns a sequence of *)
(* types.                                                                   *)

BASE_TABLE_OID == 16384
PUBLIC_NAMESPACE_OID == 2200
BASE_NAMESPACE_OID == 20000

Times33Plus(h, b) == (h * 33 + b) % HashSpace

Djb2(bytes) ==
  LET upto[n \in 0 .. Len(bytes)] ==
        IF n = 0 THEN 5381 ELSE Times33Plus(upto[n - 1], bytes[n])
  IN  upto[Len(bytes)]

\* The parts in one sequence, what stands between two of them included.
Joined(parts, between) ==
  LET upto[n \in 0 .. Len(parts)] ==
        IF n = 0 THEN << >>
        ELSE upto[n - 1] \o (IF n > 1 THEN between ELSE << >>) \o parts[n]
  IN  upto[Len(parts)]

\* Mutant: the parts are hashed as one string.
HashTogether(parts) == Djb2(Joined(parts, << >>))

\* djb2 over the parts, a byte 0xFF between two of them.
Hash(parts) == Djb2(Joined(parts, <<255>>))

djb2_oid(parts, base) == base + (Hash(parts) % (OidMax - base))

table_oid(schema, name) == djb2_oid(<<schema, name>>, BASE_TABLE_OID)

\* The one schema whose OID the static pg_namespace knows keeps it.
namespace_oid(schema) ==
  IF schema = Public THEN PUBLIC_NAMESPACE_OID ELSE djb2_oid(<<schema>>, BASE_NAMESPACE_OID)

relkind(t) == IF t.isView THEN "v" ELSE "r"

respond_pg_class(tables) ==
  {[oid |-> table_oid(t.schema, t.name),
    relname |-> t.name,
    relnamespace |-> namespace_oid(t.schema),
    relkind |-> relkind(t)] : t \in tables}

respond_pg_attribute(tables) ==
  UNION {{[attrelid |-> table_oid(t.schema, t.name),
           attnum |-> i,
           atttypid |-> oid(trino_type_to_pg(t.columns[i]))] : i \in DOMAIN t.columns}
         : t \in tables}
=============================================================================
