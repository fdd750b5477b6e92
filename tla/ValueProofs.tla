---------------------------- MODULE ValueProofs ----------------------------
(***************************************************************************)
(* What the conversions of WireTypes and TrinoTypes do to every value, for *)
(* all widths of integers and floats and all units of time.                *)
(***************************************************************************)
EXTENDS ClientReads, FiniteSetTheorems, WellFoundedInduction, TLAPS

-----------------------------------------------------------------------------
(* Induction and recursion over the naturals.                               *)

\* A non-empty set of naturals has a least element.
LEMMA LeastNat ==
  ASSUME NEW T \in SUBSET Nat, T # {}
  PROVE  \E x \in T : \A y \in T : x <= y
  <1>1. PICK x \in T : \A y \in T : ~(<<y, x>> \in OpToRel(<, Nat))
    BY NatLessThanWellFounded, WFMin, Zenon
  <1>2. \A y \in T : ~(y < x)
    BY <1>1, Zenon DEF OpToRel
  <1> QED
    BY <1>2

\* Induction over the naturals, for a set instead of a predicate.
LEMMA NatInductive ==
  ASSUME NEW T \in SUBSET Nat, 0 \in T, \A n \in T : n + 1 \in T
  PROVE  T = Nat
  <1> SUFFICES ASSUME Nat \ T # {} PROVE FALSE
    BY Zenon
  <1>1. PICK x \in Nat \ T : \A y \in Nat \ T : x <= y
    BY LeastNat, Zenon
  <1>2. x # 0 /\ x - 1 \in Nat /\ x - 1 \in T
    BY <1>1
  <1> QED
    BY <1>1, <1>2

\* What n steps make of x, one after the other.
Repeated(n, S, x, step) ==
  {f \in [0 .. n -> S] : f[0] = x /\ \A k \in 1 .. n : f[k] = step[<<k, f[k - 1]>>]}

\* A step that maps S to S, given its number, can be repeated n times.
LEMMA Recursion ==
  ASSUME NEW n \in Nat, NEW S, NEW x \in S, NEW step \in [(1 .. n) \X S -> S]
  PROVE  Repeated(n, S, x, step) # {}
  <1> DEFINE Solves(f, m) == /\ f \in [0 .. m -> S] /\ f[0] = x
                             /\ \A k \in 1 .. m : f[k] = step[<<k, f[k - 1]>>]
             T == {m \in Nat : m <= n => \E f : Solves(f, m)}
  <1>1. 0 \in T
    <2> DEFINE f == [k \in 0 .. 0 |-> x]
    <2>1. Solves(f, 0)
      OBVIOUS
    <2> HIDE DEF Solves
    <2> QED
      BY <2>1
  <1>2. ASSUME NEW m \in T PROVE m + 1 \in T
    <2> SUFFICES ASSUME m + 1 <= n PROVE \E f : Solves(f, m + 1)
      OBVIOUS
    <2>1. m \in Nat /\ m <= n
      OBVIOUS
    <2>2. PICK f : Solves(f, m)
      BY <2>1
    <2>3. step[<<m + 1, f[m]>>] \in S
      BY <2>1, <2>2
    <2> DEFINE g == [k \in 0 .. m + 1 |-> IF k = m + 1 THEN step[<<m + 1, f[m]>>] ELSE f[k]]
    <2>4. g \in [0 .. m + 1 -> S] /\ g[0] = x /\ g[m + 1] = step[<<m + 1, f[m]>>]
      BY <2>1, <2>2, <2>3
    <2>5. \A k \in 0 .. m : g[k] = f[k]
      BY <2>1
    <2> HIDE DEF g
    <2>6. ASSUME NEW k \in 1 .. m + 1 PROVE g[k] = step[<<k, g[k - 1]>>]
      <3>1. CASE k = m + 1
        <4>1. k - 1 = m /\ g[m] = f[m]
          BY <2>1, <2>5, <3>1
        <4> QED
          BY <2>4, <3>1, <4>1
      <3>2. CASE k # m + 1
        BY <2>1, <2>2, <2>5, <3>2
      <3> QED
        BY <3>1, <3>2
    <2>7. Solves(g, m + 1)
      BY <2>4, <2>6
    <2> HIDE DEF Solves
    <2> QED
      BY <2>7
  <1>3. T = Nat
    <2>1. T \in SUBSET Nat
      OBVIOUS
    <2> HIDE DEF T
    <2> QED
      BY <1>1, <1>2, <2>1, NatInductive, Zenon
  <1>4. PICK f : Solves(f, n)
    BY <1>3, SMTT(30)
  <1> QED
    BY <1>4 DEF Repeated

-----------------------------------------------------------------------------
(* Division.                                                                *)

\* Division with remainder.
LEMMA DivMod ==
  ASSUME NEW i \in Int, NEW d \in Nat \ {0}
  PROVE  i \div d \in Int /\ i % d \in 0 .. d - 1 /\ i = d * (i \div d) + (i % d)
  OBVIOUS

\* Two multiples of d that differ are at least d apart.
LEMMA Apart ==
  ASSUME NEW a \in Int, NEW b \in Int, NEW d \in Nat \ {0}, d * a < d * b
  PROVE  d * a + d <= d * b
  <1>1. a < b
    OBVIOUS
  <1>2. a + 1 <= b
    BY <1>1
  <1>3. d * (a + 1) <= d * b
    BY <1>2
  <1> QED
    BY <1>3

-----------------------------------------------------------------------------
(* Times.                                                                   *)

\* A multiple of a nanosecond.
Whole(i) == \E k \in Int : i = Nano * k

\* A microsecond and a second are whole numbers of nanoseconds.
LEMMA Units ==
  /\ Nano \in Nat \ {0} /\ Micro \in Nat \ {0} /\ Second \in Nat \ {0}
  /\ \E k \in Int : Micro = Nano * k
  /\ \E k \in Int : Second = Nano * k
  <1>1. Nano \in Nat \ {0} /\ Micro \in Nat \ {0} /\ Second \in Nat \ {0}
    BY TimeAssumption
  <1>2. Micro = Nano * (Micro \div Nano) /\ Micro \div Nano \in Int
    BY <1>1, DivMod, TimeAssumption
  <1>3. Second = Nano * (Second \div Nano) /\ Second \div Nano \in Int
    BY <1>1, DivMod, TimeAssumption
  <1> QED
    BY <1>1, <1>2, <1>3, Zenon

\* i was cut to the nanosecond a.
Cut(i, a) == a \in Int /\ Whole(a) /\ a <= i /\ i < a + Nano

\* truncate_fraction takes away less than a nanosecond.
LEMMA TruncateCuts ==
  ASSUME NEW at \in Int PROVE Cut(at, truncate_fraction(at))
  <1>1. at \div Nano \in Int /\ at % Nano \in 0 .. Nano - 1
        /\ at = Nano * (at \div Nano) + (at % Nano)
    BY Units, DivMod, Zenon
  <1>2. truncate_fraction(at) = Nano * (at \div Nano)
    BY <1>1, Units DEF truncate_fraction
  <1>3. Whole(truncate_fraction(at))
    BY <1>1, <1>2 DEF Whole
  <1>4. /\ Nano * (at \div Nano) \in Int /\ Nano * (at \div Nano) <= at
        /\ at < Nano * (at \div Nano) + Nano
    BY <1>1, Units
  <1> QED
    BY <1>2, <1>3, <1>4, Zenon DEF Cut

\* Cutting to the microsecond after that is a matter of less than one.
LEMMA FloorClose ==
  ASSUME NEW i \in Int, NEW a, Cut(i, a)
  PROVE  Close(i, Micro * (a \div Micro))
  <1>1. PICK k \in Int : a = Nano * k
    BY DEF Cut, Whole
  <1>2. PICK m \in Int : Micro = Nano * m
    BY Units, Zenon
  <1> DEFINE q == a \div Micro
             r == a % Micro
  <1>3. q \in Int /\ r \in 0 .. Micro - 1 /\ a = Micro * q + r
    BY Units, DivMod, Zenon DEF Cut
  <1>4. Micro * q + Micro = Nano * (m * q + m)
    BY <1>2, <1>3, Units
  <1>5. a < Micro * q + Micro
    BY <1>3, Units
  <1>6. m * q + m \in Int
    BY <1>3
  <1> HIDE DEF q, r
  <1>7. a + Nano <= Micro * q + Micro
    BY <1>1, <1>4, <1>5, <1>6, Units, Apart, Zenon
  <1>8. Micro * q \in Int /\ Micro * q <= i /\ i < Micro * q + Micro
    BY <1>3, <1>7, Units DEF Cut
  <1> QED
    BY <1>8, Units DEF Close, Abs, q

\* The fraction that is cut off on the way to text.
LEMMA FractionClose ==
  ASSUME NEW i \in Int, NEW a, Cut(i, a)
  PROVE  format_fraction(a) \in Int /\ Close(i, format_fraction(a))
  <1>1. a \in Int
    BY DEF Cut
  <1>2. /\ a \div Micro \in Int /\ a % Micro \in 0 .. Micro - 1
        /\ a = Micro * (a \div Micro) + (a % Micro)
    BY <1>1, Units, DivMod, Zenon
  <1>3. a - (a % Micro) = Micro * (a \div Micro) /\ Micro * (a \div Micro) \in Int
    <2> DEFINE q == a \div Micro
               r == a % Micro
    <2> SUFFICES a - r = Micro * q /\ Micro * q \in Int
      OBVIOUS
    <2>1. q \in Int /\ r \in Int /\ a = Micro * q + r
      BY <1>2, Units
    <2> HIDE DEF q, r
    <2> QED
      BY <1>1, <2>1, Units
  <1> QED
    BY <1>3, FloorClose DEF format_fraction

\* postgres-types cuts towards zero.
LEMMA MicrosClose ==
  ASSUME NEW i \in Int, NEW a, Cut(i, a)
  PROVE  MicrosOf(a) \in Int /\ Close(i, MicrosOf(a) * Micro)
  <1>1. a \in Int /\ a <= i /\ i < a + Nano
    BY DEF Cut
  <1>2. CASE a >= 0
    <2>1. MicrosOf(a) = a \div Micro /\ a \div Micro \in Int
      BY <1>1, <1>2, Units, DivMod DEF MicrosOf, TowardsZero
    <2>2. (a \div Micro) * Micro = Micro * (a \div Micro)
      BY <2>1, Units
    <2> QED
      BY <2>1, <2>2, FloorClose
  <1>3. CASE a < 0
    <2> DEFINE q == (-a) \div Micro
               r == (-a) % Micro
    <2>1. q \in Int /\ r \in 0 .. Micro - 1 /\ -a = Micro * q + r
      <3>1. -a \in Int
        BY <1>1
      <3> QED
        BY <3>1, Units, DivMod, Zenon
    <2>2. MicrosOf(a) = -q
      BY <1>1, <1>3 DEF MicrosOf, TowardsZero
    <2> HIDE DEF q, r
    <2>3. (-q) * Micro \in Int /\ (-q) * Micro = a + r
      BY <1>1, <2>1, Units
    <2>4. Nano <= Micro
      <3>1. PICK m \in Int : Micro = Nano * m
        BY Units, Zenon
      <3> QED
        BY <3>1, Units
    <2> QED
      BY <1>1, <2>1, <2>2, <2>3, <2>4, Units DEF Close, Abs
  <1> QED
    BY <1>1, <1>2, <1>3

\* Whole seconds do not touch the fraction.
LEMMA ShiftCuts ==
  ASSUME NEW i \in Int, NEW a, Cut(i, a), NEW k \in Int
  PROVE  Cut(i - k * Second, a - k * Second)
  <1>1. PICK l \in Int : a = Nano * l
    BY DEF Cut, Whole
  <1>2. PICK s \in Int : Second = Nano * s
    BY Units, Zenon
  <1>3. l - k * s \in Int /\ k * Second \in Int
    BY Units
  <1>4. a - k * Second = Nano * (l - k * s)
    BY <1>1, <1>2, Units
  <1>5. Whole(a - k * Second)
    BY <1>3, <1>4 DEF Whole
  <1> QED
    BY <1>3, <1>5, Units DEF Cut

\* Cutting does not move an instant across a whole nanosecond.
LEMMA CutSide ==
  ASSUME NEW i \in Int, NEW a, Cut(i, a), NEW b \in Int, Whole(b)
  PROVE  a < b <=> i < b
  <1>1. PICK l \in Int : a = Nano * l
    BY DEF Cut, Whole
  <1>2. PICK m \in Int : b = Nano * m
    BY DEF Whole
  <1>3. a < b => a + Nano <= b
    BY <1>1, <1>2, Units, Apart
  <1> QED
    BY <1>3, Units DEF Cut

\* format_utc_offset writes the offset it was given, also one of less than an hour west.
LEMMA OffsetKept ==
  ASSUME NEW e \in Int
  PROVE  /\ East(format_utc_offset(e)) = e
         /\ format_utc_offset(e).kind = "offset" /\ format_utc_offset(e).spelling = "compact"
  <1> DEFINE total == Abs(e)
  <1>1. total \in Nat /\ (e < 0 => total = -e) /\ (e >= 0 => total = e)
    BY DEF Abs
  <1>2. (total \div 3600) * 3600 + ((total % 3600) \div 60) * 60 + (total % 60) = total
    BY <1>1
  <1>3. total \div 3600 \in Nat /\ (total % 3600) \div 60 \in Nat /\ total % 60 \in Nat
    BY <1>1
  <1> DEFINE z == format_utc_offset(e)
  <1>4. /\ z.kind = "offset" /\ z.spelling = "compact"
        /\ z.h = total \div 3600 /\ z.m = (total % 3600) \div 60 /\ z.s = total % 60
    BY DEF format_utc_offset, Offset
  <1>5. z.negative <=> e < 0
    BY Zenon DEF format_utc_offset, Offset
  <1> HIDE DEF z
  <1>6. z.h * 3600 + z.m * 60 + z.s = total
    BY <1>2, <1>4
  <1>7. CASE e < 0
    <2>1. (IF z.negative THEN -1 ELSE 1) = -1
      BY <1>5, <1>7
    <2>2. East(z) = -1 * total
      BY <1>1, <1>6, <2>1 DEF East
    <2> QED
      BY <1>1, <1>4, <1>7, <2>2 DEF z
  <1>8. CASE e >= 0
    <2>1. ~(e < 0)
      BY <1>8
    <2>2. (IF z.negative THEN -1 ELSE 1) = 1
      BY <1>5, <2>1
    <2>3. East(z) = 1 * total
      BY <1>6, <2>2 DEF East
    <2> QED
      BY <1>1, <1>4, <1>8, <2>3 DEF z
  <1> QED
    BY <1>7, <1>8

\* An offset is a number of seconds.
LEMMA EastTyped ==
  ASSUME NEW zone, IsOffset(zone) PROVE East(zone) \in Int
  BY DEF IsOffset, East

-----------------------------------------------------------------------------
(* Floats.                                                                  *)

\* A nearest float exists, and rounding finds one.
LEMMA NearestIs ==
  ASSUME NEW x \in Int
  PROVE  as_f64(x) \in F64 /\ \A g \in F64 : Abs(as_f64(x) - x) <= Abs(g - x)
  <1>1. F64 \subseteq Int /\ F64 # {}
    BY WidthAssumption
  <1>2. CASE x \in F64
    <2>1. as_f64(x) = x
      BY <1>2 DEF as_f64, Nearest
    <2> QED
      BY <1>1, <1>2, <2>1 DEF Abs
  <1>3. CASE x \notin F64
    <2> DEFINE T == {Abs(g - x) : g \in F64}
               Best(f) == \A g \in F64 : Abs(f - x) <= Abs(g - x)
    <2>1. T \in SUBSET Nat /\ T # {}
      BY <1>1 DEF Abs
    <2>2. PICK d \in T : \A y \in T : d <= y
      BY <2>1, LeastNat, Zenon
    <2>3. \E f \in F64 : Best(f)
      BY <2>2
    <2>4. as_f64(x) = CHOOSE f \in F64 : Best(f)
      BY <1>3 DEF as_f64, Nearest
    <2> HIDE DEF Best
    <2>5. as_f64(x) \in F64 /\ Best(as_f64(x))
      BY <2>3, <2>4, Zenon
    <2> QED
      BY <2>5 DEF Best
  <1> QED
    BY <1>2, <1>3

\* What is an f64 already is not rounded.
LEMMA AsF64Self ==
  ASSUME NEW x \in F64 PROVE as_f64(x) = x
  BY DEF as_f64, Nearest

\* What is an f32 already is not rounded.
LEMMA AsF32Self ==
  ASSUME NEW x \in F32 PROVE as_f32(x) = x
  BY DEF as_f32, Nearest

\* The bounds as the code compares with them.
LEMMA Bounds ==
  /\ I64MinF64 = 2 * (-Int8Max - 1) /\ I64MaxF64 = 2 * (Int8Max + 1)
  /\ Int8Max \in Nat /\ F64 \subseteq Int
  BY WidthAssumption, AsF64Self DEF I64MinF64

\* No float at or beyond 2^63 is mistaken for an integer, whatever it was
\* rounded from.
LEMMA TooLarge ==
  ASSUME NEW x \in Int, x >= 2 * (Int8Max + 1)
  PROVE  ~FitsI64(as_f64(x))
  <1> DEFINE b == 2 * (Int8Max + 1)
             f == as_f64(x)
  <1>1. b \in F64 /\ b \in Int /\ f \in F64 /\ f \in Int
    BY Bounds, WidthAssumption, NearestIs, Zenon
  <1>2. Abs(f - x) <= Abs(b - x)
    BY <1>1, NearestIs
  <1> HIDE DEF b, f
  <1>3. f >= b
    BY <1>1, <1>2 DEF Abs, b
  <1> QED
    BY <1>1, <1>3, Bounds DEF FitsI64, b, f

\* The cast is exact where it is used on a whole number that fits.
LEMMA CastExact ==
  ASSUME NEW h \in Int, FitsI64(h), h % 2 = 0
  PROVE  CastI64(h) \in I64 /\ 2 * CastI64(h) = h
  <1>1. TowardsZero(h, 2) \in Int /\ 2 * TowardsZero(h, 2) = h
    BY DEF TowardsZero
  <1>2. 2 * (-Int8Max - 1) <= h /\ h < 2 * (Int8Max + 1)
    BY Bounds DEF FitsI64
  <1>3. -Int8Max - 1 <= TowardsZero(h, 2) /\ TowardsZero(h, 2) <= Int8Max
    BY <1>1, <1>2, Bounds
  <1>4. CastI64(h) = TowardsZero(h, 2)
    BY <1>1, <1>3, Bounds DEF CastI64
  <1> QED
    BY <1>1, <1>3, <1>4, Bounds DEF I64

-----------------------------------------------------------------------------
(* Types.                                                                   *)

PgNames ==
  {"bool", "int2", "int4", "int8", "float4", "float8", "numeric", "varchar", "bpchar", "bytea",
   "date", "time", "timetz", "timestamp", "timestamptz", "interval", "jsonb", "uuid", "inet",
   "text"}

\* Every scalar name of Trino has a PostgreSQL type that is no array.
LEMMA ScalarTyped ==
  ASSUME NEW name PROVE ScalarOf(name).name \in PgNames /\ ScalarOf(name).array = FALSE
  BY DEF ScalarOf, Scalar, PgNames

\* A type without arrays is a scalar; one with arrays is an array, of text if
\* there are several.
LEMMA TypeToPg ==
  ASSUME NEW t, t.arrays \in Nat
  PROVE  /\ t.arrays = 0 => trino_type_to_pg(t) = ScalarOf(t.name)
         /\ t.arrays > 0 => trino_type_to_pg(t).array = TRUE
         /\ trino_type_to_pg(t) \in [name : PgNames, array : BOOLEAN]
  <1> DEFINE n == t.arrays
             S == [name : PgNames, array : BOOLEAN]
             x == ScalarOf(t.name)
             Within(f) == [d \in 0 .. n |-> IF d = 0 THEN x ELSE scalar_to_array(f[d - 1])]
             within == CHOOSE f : f = Within(f)
  <1>1. trino_type_to_pg(t) = within[n]
    BY DEF trino_type_to_pg, strip_type_params
  <1>2. x \in S
    BY DEF ScalarOf, Scalar, PgNames
  <1>3. \A p \in S : scalar_to_array(p) \in S
    BY DEF scalar_to_array, PgNames
  <1>0. n \in Nat
    OBVIOUS
  <1> HIDE DEF x, S, n
  <1>4. \E f : f = Within(f)
    <2> DEFINE step == [kp \in (1 .. n) \X S |-> scalar_to_array(kp[2])]
    <2>1. step \in [(1 .. n) \X S -> S]
      BY <1>3
    <2>2. PICK f \in [0 .. n -> S] :
                 f[0] = x /\ \A k \in 1 .. n : f[k] = step[<<k, f[k - 1]>>]
      <3> HIDE DEF step
      <3>1. Repeated(n, S, x, step) # {}
        BY <1>0, <1>2, <2>1, Recursion, Zenon
      <3> QED
        BY <3>1 DEF Repeated
    <2>3. ASSUME NEW k \in 1 .. n PROVE f[k] = scalar_to_array(f[k - 1])
      <3>1. f[k - 1] \in S
        BY <1>0, <2>2
      <3>2. step[<<k, f[k - 1]>>] = scalar_to_array(f[k - 1])
        BY <3>1
      <3> QED
        BY <2>2, <3>2, Zenon
    <2>4. f = Within(f)
      BY <1>0, <2>2, <2>3
    <2> QED
      BY <2>4, Zenon
  <1>5. within = Within(within)
    <2> HIDE DEF Within
    <2> QED
      BY <1>4, Zenon
  <1> HIDE DEF within
  <1>6. within[0] = x /\ \A d \in 1 .. n : within[d] = scalar_to_array(within[d - 1])
    BY <1>0, <1>5
  <1>7. CASE n = 0
    BY <1>1, <1>2, <1>6, <1>7 DEF S, x, n
  <1>8. CASE n > 0
    <2>1. n \in 1 .. n /\ within[n] = scalar_to_array(within[n - 1])
      BY <1>0, <1>6, <1>8
    <2>2. within[n - 1] \in S \/ within[n - 1].array = TRUE
      <3>1. CASE n - 1 = 0
        BY <1>0, <1>2, <1>6, <3>1
      <3>2. CASE n - 1 # 0
        <4>1. n - 1 \in 1 .. n
          BY <1>0, <1>8, <3>2
        <4>2. within[n - 1] = scalar_to_array(within[n - 1 - 1])
          BY <1>6, <4>1, Zenon
        <4> QED
          BY <4>2 DEF scalar_to_array
      <3> QED
        BY <3>1, <3>2, Zenon
    <2>3. within[n].array = TRUE /\ within[n] \in S
      BY <2>1, <2>2 DEF scalar_to_array, S, PgNames
    <2> QED
      BY <1>1, <1>8, <2>3 DEF S, n
  <1>9. n = 0 \/ n > 0
    BY <1>0
  <1> QED
    BY <1>7, <1>8, <1>9, Zenon

-----------------------------------------------------------------------------
(* Cells.                                                                   *)

\* The only meaning of a value is what the client read.
Understood(t, j, v) == \E m \in Means(t, j) : Means(t, j) = {m} /\ Same(t, m, v)

\* A cell that is sent is understood, refused by the client, or one of the
\* exceptions; a cell that fails is one encode_cell does not send in binary.
Carried(t, j, field) ==
  LET c == encode_cell(j, field, t)
  IN  IF c.ok
      THEN (j # Null /\ NotCarriedOver(t, j, field.format)) \/ Faithful(t, j, field, c.cell)
      ELSE field.format = "binary" /\ ~BinarySupported(t, field.datatype, j)

\* A value with another JSON kind is not the null of JSON.
LEMMA NotNull ==
  ASSUME NEW j, j.json # "null" PROVE j # Null
  BY DEF Null

\* NULL is NULL in every column and format.
LEMMA NullCarried ==
  ASSUME NEW t, NEW field PROVE Carried(t, Null, field)
  BY DEF Carried, encode_cell, Cell, Faithful

\* A text cell is carried if the client reads it right or refuses it.
LEMMA TextCarried ==
  ASSUME NEW t, NEW j, NEW field, field.format = "text", j.json # "null",
         LET read == ReadsText(field.datatype, text_value(j, field.datatype, t))
         IN  NotCarriedOver(t, j, "text") \/ (read.got => Understood(t, j, read.v))
  PROVE  Carried(t, j, field)
  <1> DEFINE s == text_value(j, field.datatype, t)
             c == encode_cell(j, field, t)
  <1>1. j # Null
    BY NotNull
  <1>2. c = Text(s)
    BY <1>1 DEF encode_cell
  <1>3. c.ok = TRUE /\ c.cell.wire = "text" /\ c.cell.s = s
    BY <1>2 DEF Text, Cell
  <1> HIDE DEF s, c
  <1>4. NotCarriedOver(t, j, field.format) \/ Faithful(t, j, field, c.cell)
    BY <1>1, <1>3, Zenon DEF Faithful, Understood, s
  <1> QED
    BY <1>1, <1>3, <1>4, Zenon DEF Carried, c

\* A binary cell is carried if it has the layout of the type and is read right.
LEMMA BinaryCarried ==
  ASSUME NEW t, NEW j, NEW field, field.format = "binary", j.json # "null",
         NEW v, encode_binary_cell(j, field.datatype, t) = Binary(LayoutOf(field.datatype), v),
         \/ NotCarriedOver(t, j, "binary")
         \/ Understood(t, j, ReadsBinary(field.datatype, v).v)
  PROVE  Carried(t, j, field)
  <1> DEFINE c == encode_cell(j, field, t)
  <1>1. j # Null
    BY NotNull
  <1>2. c = Binary(LayoutOf(field.datatype), v)
    BY <1>1 DEF encode_cell
  <1>3. /\ c.ok = TRUE /\ c.cell.wire = "binary" /\ c.cell.v = v
        /\ c.cell.layout = LayoutOf(field.datatype)
    BY <1>2 DEF Binary, Cell
  <1> HIDE DEF c
  <1>4. c.cell.wire # "text"
    BY <1>3
  <1>5. NotCarriedOver(t, j, field.format) \/ Faithful(t, j, field, c.cell)
    BY <1>1, <1>3, <1>4, Zenon DEF Faithful, Understood
  <1> QED
    BY <1>1, <1>3, <1>5, Zenon DEF Carried, c

\* A cell may fail if the value is not sent in binary.
LEMMA BinaryRefused ==
  ASSUME NEW t, NEW j, NEW field, field.format = "binary", j.json # "null",
         NEW e, encode_binary_cell(j, field.datatype, t) = Err(e),
         ~BinarySupported(t, field.datatype, j)
  PROVE  Carried(t, j, field)
  <1> DEFINE c == encode_cell(j, field, t)
  <1>1. j # Null
    BY NotNull
  <1>2. c = Err(e)
    BY <1>1 DEF encode_cell
  <1>3. c.ok = FALSE
    BY <1>2 DEF Err
  <1> HIDE DEF c
  <1> QED
    BY <1>3, Zenon DEF Carried, c

\* The only element of a set is the one chosen.
LEMMA ChooseOnly ==
  ASSUME NEW x PROVE (CHOOSE y \in {x} : TRUE) = x
  OBVIOUS

-----------------------------------------------------------------------------
(* Integers.                                                                *)

\* The number a spelling stands for, in halves.
NumberOf(j) == IF j.json = "int" THEN 2 * j.n ELSE IF j.json = "float" THEN j.h ELSE Halves(j.s)

\* What a number in digits, or with a point, stands for.
LEMMA HalvesOf ==
  ASSUME NEW s
  PROVE  /\ s.form = "digits" => Halves(s) = 2 * s.n
         /\ s.form \in {"point", "exponent"} => Halves(s) = s.h
  <1>1. ASSUME s.form = "digits" PROVE Halves(s) = 2 * s.n
    <2>1. ParsedHalves(s) = {2 * s.n}
      BY <1>1 DEF ParsedHalves
    <2> QED
      BY <2>1, ChooseOnly DEF Halves
  <1>2. ASSUME s.form \in {"point", "exponent"} PROVE Halves(s) = s.h
    <2>1. ParsedHalves(s) = {s.h}
      BY <1>2 DEF ParsedHalves
    <2> QED
      BY <2>1, ChooseOnly DEF Halves
  <1> QED
    BY <1>1, <1>2

\* The same for digits that are written.
LEMMA DigitsHalves ==
  ASSUME NEW n PROVE Digits(n).form = "digits" /\ Digits(n).n = n /\ Halves(Digits(n)) = 2 * n
  BY HalvesOf DEF Digits

\* An integer type, its PostgreSQL type and the range of that.
IntegerColumn(t, p) ==
  /\ t.arrays = 0
  /\ \/ t.name \in {"tinyint", "smallint"} /\ p = Scalar("int2")
     \/ t.name = "integer" /\ p = Scalar("int4")
     \/ t.name = "bigint" /\ p = Scalar("int8")

\* No parameters or arrays hide the name of an integer column from encode_number.
LEMMA IntegerNames ==
  ASSUME NEW t, NEW p, IntegerColumn(t, p)
  PROVE  TypeName(t) \in IntegerTypes /\ base_type(t) \in IntegerTypes
  <1>1. ~(t.arrays > 0) /\ t.name \in IntegerTypes
    BY DEF IntegerColumn, IntegerTypes
  <1> QED
    BY <1>1, Zenon DEF TypeName, base_type, IntegerTypes

\* An integer column means the number that is written in the value.
LEMMA IntegerMeans ==
  ASSUME NEW t, NEW p, IntegerColumn(t, p), NEW j, NEW v, v = NumberOf(j)
  PROVE  Means(t, j) = {v} /\ Understood(t, j, v)
  <1>1. TypeName(t) \in IntegerTypes
    BY IntegerNames
  <1>2. Means(t, j) = {NumberOf(j)}
    BY <1>1 DEF Means, NumberOf, IntegerTypes
  <1>3. Same(t, v, v)
    BY <1>1 DEF Same, IntegerTypes
  <1> QED
    BY <1>2, <1>3, Zenon DEF Understood

\* Only digits are read as an integer, and as the number they are.
LEMMA ReadsInteger ==
  ASSUME NEW t, NEW p, IntegerColumn(t, p), NEW s
  PROVE  ReadsText(p, s).got => s.form = "digits" /\ ReadsText(p, s).v = Halves(s)
  <1>1. p.array = FALSE /\ p.name \in {"int2", "int4", "int8"}
    BY DEF IntegerColumn, Scalar
  <1> QED
    BY <1>1 DEF ReadsText, Read, Refused

\* encode_number in an integer column.
LEMMA IntegerText ==
  ASSUME NEW t, NEW p, IntegerColumn(t, p), NEW j, Sent(t, j)
  PROVE  LET read == ReadsText(p, text_value(j, p, t))
         IN  NotCarriedOver(t, j, "text") \/ (read.got => Understood(t, j, read.v))
  <1> DEFINE s == text_value(j, p, t)
  <1>1. TypeName(t) \in IntegerTypes /\ base_type(t) \in IntegerTypes
    BY IntegerNames
  <1>2. s = encode_value(j, t)
    BY DEF text_value, IntegerColumn, Scalar
  <1>3. SUFFICES ASSUME ~NotCarriedOver(t, j, "text"), s.form = "digits"
                 PROVE  Halves(s) = NumberOf(j)
    BY ReadsInteger, IntegerMeans
  <1>4. CASE j.json = "int"
    BY <1>1, <1>2, <1>4, DigitsHalves DEF encode_value, encode_number, NumberOf, IntegerTypes
  <1>5. CASE j.json = "float" /\ j.h \in F64
    <2>1. j.h \in Int /\ j.h % 2 = 0
      BY <1>1, <1>3, <1>5, Bounds, Zenon DEF NotCarriedOver, IntegerTypes
    <2>2. s = IF FitsI64(j.h) THEN Digits(CastI64(j.h)) ELSE FloatText(j.h)
      BY <1>1, <1>2, <1>5 DEF encode_value, encode_number, IntegerTypes
    <2>3. CASE FitsI64(j.h)
      BY <1>5, <2>1, <2>2, <2>3, CastExact, DigitsHalves DEF NumberOf
    <2>4. CASE ~FitsI64(j.h)
      <3>1. s = Digits(j.h \div 2) /\ 2 * (j.h \div 2) = j.h
        BY <2>1, <2>2, <2>4 DEF FloatText
      <3> QED
        BY <1>5, <3>1, DigitsHalves DEF NumberOf
    <2> QED
      BY <2>3, <2>4
  <1>6. CASE j.json = "string"
    BY <1>2, <1>6 DEF encode_value, NumberOf
  <1> QED
    BY <1>1, <1>4, <1>5, <1>6, Zenon DEF Sent

\* json_to_i64 finds the integer Trino meant, or there is none.
LEMMA ExactI64 ==
  ASSUME NEW h \in Int
  PROVE  \/ /\ f64_to_i64_exact(h) = {}
            /\ h % 2 # 0 \/ h < 2 * (-Int8Max - 1) \/ h >= 2 * (Int8Max + 1)
         \/ \E n \in I64 : f64_to_i64_exact(h) = {n} /\ 2 * n = h
  <1>1. CASE h % 2 = 0 /\ FitsI64(h)
    BY <1>1, CastExact DEF f64_to_i64_exact
  <1>2. CASE ~(h % 2 = 0 /\ FitsI64(h))
    BY <1>2, Bounds DEF f64_to_i64_exact, FitsI64
  <1> QED
    BY <1>1, <1>2

\* json_to_i64 finds the number, or there is no such i64.
LEMMA IntegerFound ==
  ASSUME NEW t, NEW p, IntegerColumn(t, p), NEW j, Sent(t, j)
  PROVE  /\ NumberOf(j) \in Int
         /\ \/ NotCarriedOver(t, j, "binary")
            \/ /\ json_to_i64(j) = {}
               /\ \/ NumberOf(j) % 2 # 0
                  \/ NumberOf(j) < 2 * (-Int8Max - 1) \/ NumberOf(j) >= 2 * (Int8Max + 1)
            \/ \E n \in I64 : json_to_i64(j) = {n} /\ 2 * n = NumberOf(j)
  <1> DEFINE m == NumberOf(j)
             Found(opt) == \/ /\ opt = {}
                              /\ m % 2 # 0 \/ m < 2 * (-Int8Max - 1) \/ m >= 2 * (Int8Max + 1)
                           \/ \E n \in I64 : opt = {n} /\ 2 * n = m
             Goal == m \in Int /\ (NotCarriedOver(t, j, "binary") \/ Found(json_to_i64(j)))
  <1> SUFFICES Goal
    OBVIOUS
  <1>1. TypeName(t) \in IntegerTypes
    BY IntegerNames
  \* an integer that fits, or one beyond it that is tried as a float
  <1>2. ASSUME NEW n \in Int, m = 2 * n, n >= -Int8Max - 1
        PROVE  Found(OrElse({n} \cap I64, f64_to_i64_exact(as_f64(2 * n))))
    <2>1. CASE n \in I64
      <3>1. OrElse({n} \cap I64, f64_to_i64_exact(as_f64(2 * n))) = {n}
        BY <2>1 DEF OrElse
      <3> QED
        BY <1>2, <2>1, <3>1
    <2>2. CASE n \notin I64
      <3>1. 2 * n \in Int /\ 2 * n >= 2 * (Int8Max + 1)
        BY <1>2, <2>2, Bounds DEF I64
      <3>2. f64_to_i64_exact(as_f64(2 * n)) = {}
        BY <3>1, TooLarge DEF f64_to_i64_exact
      <3>3. OrElse({n} \cap I64, f64_to_i64_exact(as_f64(2 * n))) = {}
        BY <2>2, <3>2 DEF OrElse
      <3> QED
        BY <1>2, <3>1, <3>3, Zenon
    <2> QED
      BY <2>1, <2>2, Zenon
  <1>3. ASSUME NEW h \in F64, m = h PROVE Found(f64_to_i64_exact(h))
    BY <1>3, ExactI64, Bounds
  <1>4. CASE j.json = "int" /\ j.n \in -Int8Max - 1 .. 2 * Int8Max + 1
    <2>1. m = 2 * j.n /\ j.n \in Int /\ j.n >= -Int8Max - 1 /\ m \in Int
      BY <1>4, Bounds DEF NumberOf
    <2>2. json_to_i64(j) = OrElse({j.n} \cap I64, f64_to_i64_exact(as_f64(2 * j.n)))
      BY <1>4 DEF json_to_i64
    <2> HIDE DEF m, Found
    <2> QED
      BY <1>2, <2>1, <2>2, Zenon
  <1>5. CASE j.json = "float" /\ j.h \in F64
    <2>1. m = j.h /\ m \in Int
      BY <1>5, Bounds, Zenon DEF NumberOf
    <2>2. json_to_i64(j) = f64_to_i64_exact(j.h)
      BY <1>5 DEF json_to_i64
    <2> HIDE DEF m, Found
    <2> QED
      BY <1>3, <1>5, <2>1, <2>2, Zenon
  <1>6. CASE j.json = "string" /\ j.s.form = "digits" /\ j.s.n \in Int
    <2>1. Halves(j.s) = 2 * j.s.n /\ m = 2 * j.s.n /\ m \in Int
      BY <1>6, HalvesOf DEF NumberOf
    <2>2. CASE j.s.n < -Int8Max - 1
      <3>1. Halves(j.s) < I64MinF64
        BY <1>6, <2>1, <2>2, Bounds
      <3>2. NotCarriedOver(t, j, "binary")
        BY <1>1, <1>6, <3>1, Zenon DEF NotCarriedOver
      <3> QED
        BY <2>1, <3>2, Zenon
    <2>3. CASE j.s.n >= -Int8Max - 1
      <3>1. ParsedHalves(j.s) = {2 * j.s.n}
        BY <1>6 DEF ParsedHalves
      <3>2. UNION {f64_to_i64_exact(as_f64(h)) : h \in ParsedHalves(j.s)}
              = f64_to_i64_exact(as_f64(2 * j.s.n))
        BY <3>1
      <3>3. json_to_i64(j) = OrElse({j.s.n} \cap I64, f64_to_i64_exact(as_f64(2 * j.s.n)))
        BY <1>6, <3>2, Zenon DEF json_to_i64
      <3> HIDE DEF m, Found
      <3> QED
        BY <1>2, <1>6, <2>1, <2>3, <3>3, Zenon
    <2> QED
      BY <1>6, <2>2, <2>3, Bounds
  <1>7. CASE j.json = "string" /\ j.s.form = "point" /\ j.s.h \in F64
    <2>1. m = j.s.h /\ m \in Int
      BY <1>7, HalvesOf, Bounds, Zenon DEF NumberOf
    <2>2. ParsedHalves(j.s) = {j.s.h}
      BY <1>7 DEF ParsedHalves
    <2>3. UNION {f64_to_i64_exact(as_f64(h)) : h \in ParsedHalves(j.s)} = f64_to_i64_exact(j.s.h)
      BY <1>7, <2>2, AsF64Self
    <2>4. json_to_i64(j) = f64_to_i64_exact(j.s.h)
      BY <1>7, <2>3 DEF json_to_i64, OrElse
    <2> HIDE DEF m, Found
    <2> QED
      BY <1>3, <1>7, <2>1, <2>4, Zenon
  <1> QED
    BY <1>1, <1>4, <1>5, <1>6, <1>7, Zenon DEF Sent

\* encode_field of a conversion: its value, or conversion_error.
LEMMA PutIs ==
  ASSUME NEW layout, NEW x
  PROVE  Put(layout, {x}) = Binary(layout, x) /\ Put(layout, {}) = Err("22P03")
  BY ChooseOnly DEF Put, conversion_error

\* The same with the check of the width in between.
LEMMA PutNarrowIs ==
  ASSUME NEW layout, NEW max, NEW n
  PROVE  /\ n \in -max - 1 .. max => PutNarrow(layout, max, {n}) = Binary(layout, n)
         /\ n \notin -max - 1 .. max => PutNarrow(layout, max, {n}) = Err("22003")
         /\ PutNarrow(layout, max, {}) = Err("22P03")
  BY ChooseOnly DEF PutNarrow, conversion_error, out_of_range

\* encode_binary_cell of an integer column sends exactly what is in its range.
LEMMA IntegerRange ==
  ASSUME NEW t, NEW p, IntegerColumn(t, p), NEW j
  PROVE  /\ p.array = FALSE /\ p.name \in {"int2", "int4", "int8"} /\ LayoutOf(p) = p.name
         /\ InRange(p.name) \subseteq I64
         /\ \A n \in I64 : json_to_i64(j) = {n} =>
              \/ n \in InRange(p.name) /\ encode_binary_cell(j, p, t) = Binary(p.name, n)
              \/ n \notin InRange(p.name) /\ encode_binary_cell(j, p, t) = Err("22003")
         /\ json_to_i64(j) = {} => encode_binary_cell(j, p, t) = Err("22P03")
  <1>0. p.array = FALSE /\ p.name \in {"int2", "int4", "int8"} /\ LayoutOf(p) = p.name
    BY DEF IntegerColumn, Scalar, LayoutOf, StringFamily
  <1>1. CASE p = Scalar("int2")
    <2>1. p.array = FALSE /\ p.name = "int2"
      BY <1>1 DEF Scalar
    <2>2. InRange(p.name) = -Int2Max - 1 .. Int2Max /\ InRange(p.name) \subseteq I64
      BY <2>1, WidthAssumption DEF InRange, I64
    <2>3. encode_binary_cell(j, p, t) = PutNarrow("int2", Int2Max, json_to_i64(j))
      BY <2>1 DEF encode_binary_cell, StringFamily
    <2>4. ASSUME NEW n \in I64, json_to_i64(j) = {n}
          PROVE  \/ n \in InRange(p.name) /\ encode_binary_cell(j, p, t) = Binary(p.name, n)
                 \/ n \notin InRange(p.name) /\ encode_binary_cell(j, p, t) = Err("22003")
      <3>1. encode_binary_cell(j, p, t) = PutNarrow("int2", Int2Max, {n})
        BY <2>3, <2>4
      <3>2. CASE n \in InRange(p.name)
        <4>1. n \in -Int2Max - 1 .. Int2Max
          BY <2>2, <3>2
        <4>2. PutNarrow("int2", Int2Max, {n}) = Binary("int2", n)
          BY <4>1, PutNarrowIs, Zenon
        <4> QED
          BY <2>1, <3>1, <3>2, <4>2
      <3>3. CASE n \notin InRange(p.name)
        BY <2>1, <2>2, <3>1, <3>3, PutNarrowIs, Zenon
      <3> QED
        BY <3>2, <3>3
    <2> QED
      BY <1>0, <2>2, <2>3, <2>4, PutNarrowIs, Zenon
  <1>2. CASE p = Scalar("int4")
    <2>1. p.array = FALSE /\ p.name = "int4"
      BY <1>2 DEF Scalar
    <2>2. InRange(p.name) = -Int4Max - 1 .. Int4Max /\ InRange(p.name) \subseteq I64
      BY <2>1, WidthAssumption DEF InRange, I64
    <2>3. encode_binary_cell(j, p, t) = PutNarrow("int4", Int4Max, json_to_i64(j))
      BY <2>1 DEF encode_binary_cell, StringFamily
    <2>4. ASSUME NEW n \in I64, json_to_i64(j) = {n}
          PROVE  \/ n \in InRange(p.name) /\ encode_binary_cell(j, p, t) = Binary(p.name, n)
                 \/ n \notin InRange(p.name) /\ encode_binary_cell(j, p, t) = Err("22003")
      <3>1. encode_binary_cell(j, p, t) = PutNarrow("int4", Int4Max, {n})
        BY <2>3, <2>4
      <3>2. CASE n \in InRange(p.name)
        <4>1. n \in -Int4Max - 1 .. Int4Max
          BY <2>2, <3>2
        <4>2. PutNarrow("int4", Int4Max, {n}) = Binary("int4", n)
          BY <4>1, PutNarrowIs, Zenon
        <4> QED
          BY <2>1, <3>1, <3>2, <4>2
      <3>3. CASE n \notin InRange(p.name)
        BY <2>1, <2>2, <3>1, <3>3, PutNarrowIs, Zenon
      <3> QED
        BY <3>2, <3>3
    <2> QED
      BY <1>0, <2>2, <2>3, <2>4, PutNarrowIs, Zenon
  <1>3. CASE p = Scalar("int8")
    <2>1. p.array = FALSE /\ p.name = "int8"
      BY <1>3 DEF Scalar
    <2>2. InRange(p.name) = I64
      BY <2>1 DEF InRange
    <2>3. encode_binary_cell(j, p, t) = Put("int8", json_to_i64(j))
      BY <2>1 DEF encode_binary_cell, StringFamily
    <2> QED
      BY <1>0, <2>1, <2>2, <2>3, PutIs, Zenon
  <1> QED
    BY <1>1, <1>2, <1>3, Zenon DEF IntegerColumn

\* A meaning outside the range is not sent in binary.
LEMMA IntegerUnsupported ==
  ASSUME NEW t, NEW p, IntegerColumn(t, p), NEW j, NEW m \in Int, m = NumberOf(j),
         m % 2 # 0 \/ m \div 2 \notin InRange(p.name)
  PROVE  ~BinarySupported(t, p, j)
  <1>1. (CHOOSE x \in Means(t, j) : TRUE) = m
    BY IntegerMeans, ChooseOnly
  <1> QED
    BY <1>1, IntegerRange, Zenon DEF BinarySupported

\* tinyint, smallint, integer and bigint.
LEMMA IntegerCarried ==
  ASSUME NEW t, NEW field, IntegerColumn(t, field.datatype), field.format \in {"text", "binary"},
         NEW j, Sent(t, j), j.json # "null"
  PROVE  Carried(t, j, field)
  <1> DEFINE p == field.datatype
             m == NumberOf(j)
  <1>1. CASE field.format = "text"
    BY <1>1, IntegerText, TextCarried, Zenon
  <1>2. CASE field.format = "binary"
    <2>1. m \in Int
      BY IntegerFound
    <2>2. CASE json_to_i64(j) = {} /\ (m % 2 # 0 \/ m < 2 * (-Int8Max - 1) \/ m >= 2 * (Int8Max + 1))
      <3>1. m % 2 # 0 \/ m \div 2 \notin I64
        BY <2>1, <2>2, Bounds DEF I64
      <3>2. m % 2 # 0 \/ m \div 2 \notin InRange(p.name)
        BY <3>1, IntegerRange, Zenon
      <3>3. ~BinarySupported(t, p, j)
        BY <2>1, <3>2, IntegerUnsupported, Zenon
      <3>4. encode_binary_cell(j, p, t) = Err("22P03")
        BY <2>2, IntegerRange, Zenon
      <3> QED
        BY <1>2, <3>3, <3>4, BinaryRefused, Zenon
    <2>3. ASSUME NEW n \in I64, json_to_i64(j) = {n}, 2 * n = m
          PROVE  Carried(t, j, field)
      <3>0. \/ n \in InRange(p.name) /\ encode_binary_cell(j, p, t) = Binary(p.name, n)
            \/ n \notin InRange(p.name) /\ encode_binary_cell(j, p, t) = Err("22003")
        BY <2>3, IntegerRange, ZenonT(60)
      <3>1. CASE n \in InRange(p.name)
        <4>0. encode_binary_cell(j, p, t) = Binary(p.name, n)
          BY <3>0, <3>1, Zenon
        <4>1. encode_binary_cell(j, p, t) = Binary(LayoutOf(p), n)
          BY <4>0, IntegerRange, Zenon
        <4>2. ReadsBinary(p, n).v = 2 * n
          BY IntegerRange, Zenon DEF ReadsBinary, Read
        <4>3. Understood(t, j, ReadsBinary(p, n).v)
          BY <2>3, <4>2, IntegerMeans, Zenon
        <4> QED
          BY <1>2, <4>1, <4>3, BinaryCarried, Zenon
      <3>2. CASE n \notin InRange(p.name)
        <4>1. encode_binary_cell(j, p, t) = Err("22003")
          BY <2>3, <3>2, IntegerRange, ZenonT(60)
        <4>2. m % 2 # 0 \/ m \div 2 \notin InRange(p.name)
          BY <2>3, <3>2, Bounds DEF I64
        <4>3. ~BinarySupported(t, p, j)
          BY <2>1, <4>2, IntegerUnsupported, Zenon
        <4> QED
          BY <1>2, <4>1, <4>3, BinaryRefused, Zenon
      <3> QED
        BY <3>1, <3>2
    <2>4. CASE NotCarriedOver(t, j, "binary")
      <3>1. m < 2 * (-Int8Max - 1)
        BY <2>4, Bounds DEF NotCarriedOver, NumberOf, IntegerTypes
      <3>2. m \div 2 \notin I64
        BY <2>1, <3>1, Bounds DEF I64
      <3>3. ~BinarySupported(t, p, j)
        BY <2>1, <3>2, IntegerRange, IntegerUnsupported, Zenon
      <3>4. j # Null /\ NotCarriedOver(t, j, field.format)
        BY <1>2, <2>4, NotNull
      <3> QED
        BY <1>2, <3>3, <3>4, Zenon DEF Carried
    <2> QED
      BY <2>2, <2>3, <2>4, IntegerFound, Zenon
  <1> QED
    BY <1>1, <1>2

-----------------------------------------------------------------------------
(* Decimals, floats and booleans.                                           *)

\* A scalar type n of Trino that is announced as p.
Column(t, n, p) == t.arrays = 0 /\ t.name = n /\ p = ScalarOf(n)

\* The name of a column that is no array; a number keeps it in base_type.
LEMMA ScalarNames ==
  ASSUME NEW t, NEW n, NEW p, Column(t, n, p)
  PROVE  /\ TypeName(t) = n
         /\ n \in NumberTypes => base_type(t) = n
  <1>1. ~(t.arrays > 0) /\ t.name = n
    BY DEF Column
  <1>2. TypeName(t) = n
    BY <1>1, Zenon DEF TypeName
  <1>3. ASSUME n \in NumberTypes PROVE base_type(t) = n
    BY <1>1, <1>3, Zenon DEF base_type, NumberTypes, IntegerTypes
  <1> QED
    BY <1>2, <1>3

\* A value that means one thing is understood by whoever reads that.
LEMMA OneMeaning ==
  ASSUME NEW t, NEW j, NEW m, Means(t, j) = {m}, NEW v, Same(t, m, v)
  PROVE  Understood(t, j, v)
  BY Zenon DEF Understood

\* Outside the times a value is understood if it is read as it is.
LEMMA PlainMeaning ==
  ASSUME NEW t, NEW j, NEW m, Means(t, j) = {m},
         TypeName(t) \notin {"timestamp", "time", "timestamp_with_time_zone", "time_with_time_zone"}
  PROVE  Understood(t, j, m)
  <1>1. Same(t, m, m)
    BY Zenon DEF Same
  <1> QED
    BY <1>1, OneMeaning, Zenon

\* The text of a decimal, which is parsed for a binary cell.
DecimalText(j) == IF j.json = "string" THEN j.s ELSE to_string(j)

\* That text says the number, in digits, with a point or with an exponent.
LEMMA DecimalTextIs ==
  ASSUME NEW j, \/ j.json \in {"int", "float"}
                \/ j.json = "string" /\ j.s.form \in {"digits", "point"}
  PROVE  /\ ParsedHalves(DecimalText(j)) = {NumberOf(j)}
         /\ Halves(DecimalText(j)) = NumberOf(j)
  <1> DEFINE s == DecimalText(j)
  <1>1. CASE j.json = "int"
    <2>1. s = Digits(j.n)
      BY <1>1 DEF DecimalText, to_string
    <2>2. s.form = "digits" /\ s.n = j.n
      BY <2>1 DEF Digits
    <2> HIDE DEF s
    <2> QED
      BY <1>1, <2>2, HalvesOf DEF ParsedHalves, NumberOf, s
  <1>2. CASE j.json = "float"
    <2>1. s = Point(j.h) \/ s = Exponent(j.h)
      BY <1>2 DEF DecimalText, to_string
    <2>2. s.form \in {"point", "exponent"} /\ s.h = j.h
      BY <2>1 DEF Point, Exponent
    <2> HIDE DEF s
    <2> QED
      BY <1>2, <2>2, HalvesOf DEF ParsedHalves, NumberOf, s
  <1>3. CASE j.json = "string"
    <2>1. s = j.s /\ s.form \in {"digits", "point"}
      BY <1>3 DEF DecimalText
    <2> HIDE DEF s
    <2> QED
      BY <1>3, <2>1, HalvesOf DEF ParsedHalves, NumberOf, s
  <1> QED
    BY <1>1, <1>2, <1>3

\* decimal, beyond what rust_decimal holds included.
LEMMA DecimalCarried ==
  ASSUME NEW t, NEW field, Column(t, "decimal", field.datatype),
         field.format \in {"text", "binary"}, NEW j, Sent(t, j), j.json # "null"
  PROVE  Carried(t, j, field)
  <1> DEFINE p == field.datatype
             m == NumberOf(j)
  <1>1. TypeName(t) = "decimal" /\ base_type(t) = "decimal"
    BY ScalarNames DEF NumberTypes
  <1>2. p.array = FALSE /\ p.name = "numeric"
    BY DEF Column, ScalarOf, Scalar
  <1>3. Means(t, j) = {m}
    BY <1>1 DEF Means, NumberOf, IntegerTypes
  <1>4. Understood(t, j, m)
    BY <1>1, <1>3, PlainMeaning
  <1>5. \/ j.json \in {"int", "float"}
        \/ j.json = "string" /\ j.s.form \in {"digits", "point"}
    BY <1>1 DEF Sent
  <1>6. CASE field.format = "text"
    <2> DEFINE s == text_value(j, p, t)
    <2>1. s = encode_value(j, t)
      BY <1>2 DEF text_value, Scalar
    <2>2. s = DecimalText(j)
      BY <1>1, <1>5, <2>1 DEF encode_value, encode_number, DecimalText, IntegerTypes
    <2>3. Halves(s) = m
      BY <1>5, <2>2, DecimalTextIs
    <2>4. ReadsText(p, s).got => ReadsText(p, s).v = Halves(s)
      BY <1>2 DEF ReadsText, Read, Refused
    <2> QED
      BY <1>4, <1>6, <2>3, <2>4, TextCarried, Zenon
  <1>7. CASE field.format = "binary"
    <2>1. json_to_decimal(j) = IF InCapacity(DecimalText(j)) THEN {m} ELSE {}
      <3>1. json_to_decimal(j) = from_str_exact(DecimalText(j))
        BY <1>5 DEF json_to_decimal, DecimalText
      <3> QED
        BY <1>5, <3>1, DecimalTextIs, Zenon DEF from_str_exact
    <2>2. encode_binary_cell(j, p, t) = Put("numeric", json_to_decimal(j))
      BY <1>2 DEF encode_binary_cell, StringFamily
    <2>3. CASE InCapacity(DecimalText(j))
      <3>1. json_to_decimal(j) = {m}
        BY <2>1, <2>3
      <3>2. encode_binary_cell(j, p, t) = Binary("numeric", m) /\ LayoutOf(p) = "numeric"
        BY <1>2, <2>2, <3>1, PutIs DEF LayoutOf, StringFamily
      <3>3. ReadsBinary(p, m).v = m
        BY <1>2 DEF ReadsBinary, Read
      <3> QED
        BY <1>4, <1>7, <3>2, <3>3, BinaryCarried
    <2>4. CASE ~InCapacity(DecimalText(j))
      <3>1. json_to_decimal(j) = {}
        BY <2>1, <2>4
      <3>2. encode_binary_cell(j, p, t) = Err("22P03")
        BY <2>2, <3>1, PutIs, Zenon
      <3>3. ~BinarySupported(t, p, j)
        BY <1>2, <2>4, Zenon DEF BinarySupported, DecimalText
      <3> QED
        BY <1>7, <3>2, <3>3, BinaryRefused, Zenon
    <2> QED
      BY <2>3, <2>4
  <1> QED
    BY <1>6, <1>7

\* Display for f64 loses nothing.
LEMMA FloatTextIs ==
  ASSUME NEW x \in Int
  PROVE  /\ FloatText(x).form \in {"digits", "point"}
         /\ ParsedHalves(FloatText(x)) = {x} /\ Halves(FloatText(x)) = x
  <1> DEFINE s == FloatText(x)
  <1>1. CASE x % 2 = 0
    <2>1. s.form = "digits" /\ s.n = x \div 2 /\ 2 * (x \div 2) = x
      BY <1>1 DEF FloatText, Digits
    <2> HIDE DEF s
    <2>2. ParsedHalves(s) = {x}
      BY <2>1 DEF ParsedHalves
    <2> QED
      BY <2>1, <2>2, HalvesOf DEF s
  <1>2. CASE x % 2 # 0
    <2>1. s.form = "point" /\ s.h = x
      BY <1>2 DEF FloatText, Point
    <2> HIDE DEF s
    <2>2. ParsedHalves(s) = {x}
      BY <2>1, SMTT(30) DEF ParsedHalves
    <2> QED
      BY <2>1, <2>2, HalvesOf DEF s
  <1> QED
    BY <1>1, <1>2

\* The one text a float has on its way: digits of its width, or a word.
FloatSpelling(floats, s) == (\E x \in floats : s = FloatText(x)) \/ (\E w \in NonFinite : s = Word(w))

\* Text and binary path of a float column find the number Trino means.
LEMMA FloatFound ==
  ASSUME NEW t, NEW n \in {"real", "double"}, NEW p, Column(t, n, p), NEW j, Sent(t, j)
  PROVE  \E s : /\ Means(t, j) = {s} /\ encode_value(j, t) = s /\ json_to_f64(j) = {s}
               /\ FloatSpelling(IF n = "real" THEN F32 ELSE F64, s)
  <1> DEFINE floats == IF n = "real" THEN F32 ELSE F64
  <1>1. TypeName(t) = n /\ base_type(t) = n
    BY ScalarNames DEF NumberTypes
  <1>2. floats \subseteq F64 /\ F64 \subseteq Int
    BY WidthAssumption
  <1>3. CASE j.json = "int" /\ j.n \in Int /\ 2 * j.n \in floats
    <2> DEFINE s == FloatText(2 * j.n)
    <2>1. s = Digits(j.n)
      BY <1>3 DEF FloatText
    <2>2. as_f64(2 * j.n) = 2 * j.n
      BY <1>2, <1>3, AsF64Self
    <2>3. Means(t, j) = {s}
      BY <1>1, <1>3, <2>1 DEF Means, IntegerTypes
    <2>4. encode_value(j, t) = s
      BY <1>1, <1>3, <2>2 DEF encode_value, encode_number, IntegerTypes
    <2>5. json_to_f64(j) = {s}
      BY <1>3, <2>2 DEF json_to_f64
    <2>6. FloatSpelling(floats, s)
      BY <1>3 DEF FloatSpelling
    <2> QED
      BY <2>3, <2>4, <2>5, <2>6, Zenon
  <1>4. CASE j.json = "float" /\ j.h \in floats
    <2> DEFINE s == FloatText(j.h)
    <2>2. as_f64(j.h) = j.h
      BY <1>2, <1>4, AsF64Self, Zenon
    <2>3. Means(t, j) = {s}
      BY <1>1, <1>4 DEF Means, IntegerTypes
    <2>4. encode_value(j, t) = s
      BY <1>1, <1>4, <2>2 DEF encode_value, encode_number, IntegerTypes
    <2>5. json_to_f64(j) = {s}
      BY <1>4 DEF json_to_f64
    <2>6. FloatSpelling(floats, s)
      BY <1>4 DEF FloatSpelling
    <2> QED
      BY <2>3, <2>4, <2>5, <2>6, Zenon
  <1>5. CASE j.json = "string" /\ j.s \in {Word(w) : w \in NonFinite}
    <2>1. PICK w \in NonFinite : j.s = Word(w)
      BY <1>5
    <2>2. j.s.form = "word" /\ j.s.w \in NonFinite
      BY <2>1 DEF Word
    <2>3. Means(t, j) = {j.s}
      BY <1>1, <1>5 DEF Means, IntegerTypes
    <2>4. encode_value(j, t) = j.s
      BY <1>5 DEF encode_value
    <2>5. json_to_f64(j) = {j.s}
      BY <1>5, <2>2 DEF json_to_f64
    <2>6. FloatSpelling(floats, j.s)
      BY <2>1 DEF FloatSpelling
    <2> QED
      BY <2>3, <2>4, <2>5, <2>6, Zenon
  <1> QED
    BY <1>1, <1>3, <1>4, <1>5 DEF Sent

\* Reading a float that is spelled gives the same spelling, also through f32.
LEMMA FloatRead ==
  ASSUME NEW floats, floats \subseteq Int, NEW s, FloatSpelling(floats, s)
  PROVE  /\ (IF IsNumber(s) THEN FloatText(Halves(s)) ELSE s) = s
         /\ floats \subseteq F32 => ToF32(s) = s
  <1>1. ASSUME NEW x \in floats, s = FloatText(x)
        PROVE  /\ (IF IsNumber(s) THEN FloatText(Halves(s)) ELSE s) = s
               /\ floats \subseteq F32 => ToF32(s) = s
    <2>1. s.form \in {"digits", "point"} /\ ParsedHalves(s) = {x} /\ Halves(s) = x
      BY <1>1, FloatTextIs
    <2>2. (CHOOSE h \in ParsedHalves(s) : TRUE) = x
      BY <2>1, ChooseOnly
    <2>3. floats \subseteq F32 => as_f32(x) = x
      BY AsF32Self
    <2> QED
      BY <1>1, <2>1, <2>2, <2>3 DEF IsNumber, ToF32
  <1>2. ASSUME NEW w \in NonFinite, s = Word(w)
        PROVE  /\ (IF IsNumber(s) THEN FloatText(Halves(s)) ELSE s) = s
               /\ floats \subseteq F32 => ToF32(s) = s
    BY <1>2 DEF IsNumber, ToF32, Word
  <1> QED
    BY <1>1, <1>2 DEF FloatSpelling

\* real and double, NaN and the infinities included.
LEMMA FloatCarried ==
  ASSUME NEW t, NEW n \in {"real", "double"}, NEW field, Column(t, n, field.datatype),
         field.format \in {"text", "binary"}, NEW j, Sent(t, j), j.json # "null"
  PROVE  Carried(t, j, field)
  <1> DEFINE p == field.datatype
             floats == IF n = "real" THEN F32 ELSE F64
  <1>1. TypeName(t) = n
    BY ScalarNames
  <1>2. /\ p.array = FALSE
        /\ n = "real" => p.name = "float4"
        /\ n = "double" => p.name = "float8"
    BY DEF Column, ScalarOf, Scalar
  <1>3. PICK s : /\ Means(t, j) = {s} /\ encode_value(j, t) = s /\ json_to_f64(j) = {s}
                 /\ FloatSpelling(floats, s)
    BY FloatFound
  <1>4. Understood(t, j, s)
    BY <1>1, <1>3, PlainMeaning
  <1>5. /\ (IF IsNumber(s) THEN FloatText(Halves(s)) ELSE s) = s
        /\ n = "real" => ToF32(s) = s
    <2>1. floats \subseteq Int
      BY WidthAssumption
    <2>2. n = "real" => floats \subseteq F32
      OBVIOUS
    <2> HIDE DEF floats
    <2> QED
      BY <1>3, <2>1, <2>2, FloatRead, Zenon
  <1>6. CASE field.format = "text"
    <2>1. text_value(j, p, t) = s
      BY <1>2, <1>3 DEF text_value, Scalar
    <2>2. ReadsText(p, s).got => ReadsText(p, s).v = s
      BY <1>2, <1>5 DEF ReadsText, Read, Refused
    <2> QED
      BY <1>4, <1>6, <2>1, <2>2, TextCarried
  <1>7. CASE field.format = "binary"
    <2>1. encode_binary_cell(j, p, t) = Binary(p.name, s)
      <3>1. CASE n = "real"
        <4>1. {ToF32(x) : x \in json_to_f64(j)} = {s}
          BY <1>3, <1>5, <3>1
        <4> QED
          BY <1>2, <3>1, <4>1, PutIs DEF encode_binary_cell, StringFamily
      <3>2. CASE n = "double"
        BY <1>2, <1>3, <3>2, PutIs DEF encode_binary_cell, StringFamily
      <3> QED
        BY <3>1, <3>2
    <2>2. LayoutOf(p) = p.name /\ ReadsBinary(p, s).v = s
      BY <1>2 DEF LayoutOf, ReadsBinary, Read, StringFamily
    <2> QED
      BY <1>4, <1>7, <2>1, <2>2, BinaryCarried
  <1> QED
    BY <1>6, <1>7

\* TRUE and FALSE survive, also as words.
LEMMA BooleanFound ==
  ASSUME NEW t, NEW p, Column(t, "boolean", p), NEW j, Sent(t, j)
  PROVE  \E b \in BOOLEAN : /\ Truth(j) = b /\ json_to_bool(j) = {b}
                            /\ encode_value(j, t) = Word(IF b THEN "true" ELSE "false")
  <1>1. TypeName(t) = "boolean"
    BY ScalarNames
  <1>2. Word("true").w = "true" /\ Word("false").w = "false" /\ Word("true") # Word("false")
    BY DEF Word
  <1>3. CASE j.json = "bool" /\ j.b \in BOOLEAN
    <2>1. Truth(j) = j.b /\ json_to_bool(j) = {j.b}
      BY <1>3, Zenon DEF Truth, json_to_bool
    <2>2. encode_value(j, t) = Word(IF j.b THEN "true" ELSE "false")
      BY <1>3, Zenon DEF encode_value
    <2> QED
      BY <1>3, <2>1, <2>2, Zenon
  <1>4. CASE j.json = "string" /\ j.s = Word("true")
    <2>1. Truth(j) = TRUE
      BY <1>2, <1>4, Zenon DEF Truth
    <2>2. json_to_bool(j) = {TRUE}
      BY <1>2, <1>4, Zenon DEF json_to_bool
    <2>3. encode_value(j, t) = Word("true")
      BY <1>4, Zenon DEF encode_value
    <2> QED
      BY <2>1, <2>2, <2>3, Zenon
  <1>5. CASE j.json = "string" /\ j.s = Word("false")
    <2>1. Truth(j) = FALSE
      BY <1>2, <1>5 DEF Truth
    <2>2. json_to_bool(j) = {FALSE}
      BY <1>2, <1>5, Zenon DEF json_to_bool
    <2>3. encode_value(j, t) = Word("false")
      BY <1>5, Zenon DEF encode_value
    <2> QED
      BY <2>1, <2>2, <2>3, Zenon
  <1> QED
    BY <1>1, <1>3, <1>4, <1>5, Zenon DEF Sent

\* boolean, as JSON or as a word.
LEMMA BooleanCarried ==
  ASSUME NEW t, NEW field, Column(t, "boolean", field.datatype),
         field.format \in {"text", "binary"}, NEW j, Sent(t, j), j.json # "null"
  PROVE  Carried(t, j, field)
  <1> DEFINE p == field.datatype
  <1>1. TypeName(t) = "boolean"
    BY ScalarNames
  <1>2. p.array = FALSE /\ p.name = "bool"
    BY DEF Column, ScalarOf, Scalar
  <1>3. PICK b \in BOOLEAN : /\ Truth(j) = b /\ json_to_bool(j) = {b}
                             /\ encode_value(j, t) = Word(IF b THEN "true" ELSE "false")
    BY BooleanFound
  <1>4. Means(t, j) = {Truth(j)}
    BY <1>1 DEF Means, IntegerTypes
  <1>5. Understood(t, j, b)
    BY <1>1, <1>3, <1>4, PlainMeaning, Zenon
  <1>6. CASE field.format = "text"
    <2> DEFINE s == Word(IF b THEN "true" ELSE "false")
    <2>1. text_value(j, p, t) = s
      BY <1>2, <1>3 DEF text_value, Scalar
    <2>2. (s = Word("true")) = b
      <3>1. Word("true") # Word("false")
        BY DEF Word
      <3> QED
        BY <3>1, Zenon
    <2>3. ReadsText(p, s).got => ReadsText(p, s).v = (s = Word("true"))
      <3> HIDE DEF s
      <3> QED
        BY <1>2 DEF ReadsText, Read, Refused
    <2> HIDE DEF s
    <2> QED
      BY <1>5, <1>6, <2>1, <2>2, <2>3, TextCarried, Zenon
  <1>7. CASE field.format = "binary"
    <2>1. encode_binary_cell(j, p, t) = Binary("bool", b)
      BY <1>2, <1>3, PutIs DEF encode_binary_cell, StringFamily
    <2>2. LayoutOf(p) = "bool" /\ ReadsBinary(p, b).v = b
      BY <1>2 DEF LayoutOf, ReadsBinary, Read, StringFamily
    <2> QED
      BY <1>5, <1>7, <2>1, <2>2, BinaryCarried
  <1> QED
    BY <1>6, <1>7

-----------------------------------------------------------------------------
(* Types that pass through, and types without a binary form.                *)

\* date.
LEMMA DateCarried ==
  ASSUME NEW t, NEW field, Column(t, "date", field.datatype),
         field.format \in {"text", "binary"}, NEW j, Sent(t, j), j.json # "null"
  PROVE  Carried(t, j, field)
  <1> DEFINE p == field.datatype
  <1>1. TypeName(t) = "date"
    BY ScalarNames
  <1>2. p.array = FALSE /\ p.name = "date"
    BY SMTT(30) DEF Column, ScalarOf, Scalar
  <1>3. j.json = "string" /\ j.s.form = "date"
    BY <1>1 DEF Sent
  <1>4. Means(t, j) = {j.s.d}
    BY <1>1 DEF Means, IntegerTypes
  <1>5. Understood(t, j, j.s.d)
    BY <1>1, <1>4, PlainMeaning
  <1>6. CASE field.format = "text"
    <2>1. text_value(j, p, t) = j.s
      BY <1>2, <1>3 DEF text_value, Scalar, encode_value
    <2>2. ReadsText(p, j.s).v = j.s.d
      BY <1>2 DEF ReadsText, Read
    <2> QED
      BY <1>5, <1>6, <2>1, <2>2, TextCarried
  <1>7. CASE field.format = "binary"
    <2>1. encode_binary_cell(j, p, t) = Binary("date", j.s.d)
      BY <1>2, <1>3, PutIs DEF encode_binary_cell, json_to_date, StringFamily
    <2>2. LayoutOf(p) = "date" /\ ReadsBinary(p, j.s.d).v = j.s.d
      BY <1>2 DEF LayoutOf, ReadsBinary, Read, StringFamily
    <2> QED
      BY <1>5, <1>7, <2>1, <2>2, BinaryCarried
  <1> QED
    BY <1>6, <1>7

\* varbinary: not carried over in text, refused in binary.
LEMMA BytesCarried ==
  ASSUME NEW t, NEW field, Column(t, "varbinary", field.datatype),
         field.format \in {"text", "binary"}, NEW j, j.json # "null"
  PROVE  Carried(t, j, field)
  <1> DEFINE p == field.datatype
  <1>1. TypeName(t) = "varbinary"
    BY ScalarNames
  <1>2. p.array = FALSE /\ p.name = "bytea"
    BY DEF Column, ScalarOf, Scalar
  <1>3. CASE field.format = "text"
    BY <1>1, <1>3, TextCarried, Zenon DEF NotCarriedOver
  <1>4. CASE field.format = "binary"
    <2>1. encode_binary_cell(j, p, t) = Err("0A000")
      BY <1>2 DEF encode_binary_cell, StringFamily, unsupported_binary_type
    <2>2. p.name \notin BinaryTypes
      BY <1>2 DEF BinaryTypes, StringFamily
    <2>3. ~BinarySupported(t, p, j)
      BY <2>2, Zenon DEF BinarySupported
    <2> QED
      BY <1>4, <2>1, <2>3, BinaryRefused, Zenon
  <1> QED
    BY <1>3, <1>4

TimeTypes == {"timestamp", "time", "timestamp_with_time_zone", "time_with_time_zone"}

\* An array becomes JSON, which the client does not take for an array.
LEMMA ArrayCarried ==
  ASSUME NEW t, t.arrays > 0, NEW field, field.datatype.array = TRUE,
         field.format \in {"text", "binary"}, NEW j, Sent(t, j), j.json # "null"
  PROVE  Carried(t, j, field)
  <1> DEFINE p == field.datatype
  <1>1. j.json = "composite"
    BY DEF Sent, TypeName
  <1>2. CASE field.format = "text"
    <2>1. text_value(j, p, t) = JsonText(j.v)
      BY <1>1 DEF text_value, Scalar, encode_value
    <2>2. JsonText(j.v).form # "braces"
      BY SMTT(30) DEF JsonText
    <2> DEFINE s == JsonText(j.v)
    <2> HIDE DEF s
    <2>3. ReadsText(p, s).got = FALSE
      BY <2>2 DEF ReadsText, Refused, s
    <2> QED
      BY <1>2, <2>1, <2>3, TextCarried DEF s
  <1>3. CASE field.format = "binary"
    <2>1. encode_binary_cell(j, p, t) = Err("0A000")
      BY DEF encode_binary_cell, unsupported_binary_type
    <2>2. ~BinarySupported(t, p, j)
      BY DEF BinarySupported
    <2> QED
      BY <1>3, <2>1, <2>2, BinaryRefused
  <1> QED
    BY <1>2, <1>3, SMTT(30)

\* All other types are sent as characters or have no binary form.
LEMMA OtherNames ==
  ASSUME NEW n, n \notin NumberTypes \cup TimeTypes \cup {"boolean", "date", "varbinary"}
  PROVE  ScalarOf(n).name \in StringFamily \cup {"interval", "jsonb", "uuid", "inet"}
  BY DEF ScalarOf, Scalar, NumberTypes, IntegerTypes, TimeTypes, StringFamily

\* Everything else is passed on as it is.
LEMMA OtherCarried ==
  ASSUME NEW t, NEW n, NEW field, Column(t, n, field.datatype),
         n \notin NumberTypes \cup TimeTypes \cup {"boolean", "date", "varbinary"},
         field.format \in {"text", "binary"}, NEW j, Sent(t, j), j.json # "null"
  PROVE  Carried(t, j, field)
  <1> DEFINE p == field.datatype
             m == IF j.json = "composite" THEN JsonText(j.v) ELSE j.s
  <1>1. TypeName(t) = n
    BY ScalarNames
  <1>2. /\ p.array = FALSE
        /\ p.name \in StringFamily \cup {"interval", "jsonb", "uuid", "inet"}
    <2>1. p = ScalarOf(n)
      BY DEF Column
    <2> QED
      BY <2>1, OtherNames, ScalarTyped, Zenon
  <1>3. j.json \in {"string", "composite"}
    BY <1>1 DEF Sent, NumberTypes
  <1>4. Means(t, j) = {m}
    BY <1>1 DEF Means, NumberTypes, IntegerTypes, TimeTypes
  <1>5. Understood(t, j, m)
    BY <1>1, <1>4, PlainMeaning DEF TimeTypes
  <1>6. encode_value(j, t) = m
    BY <1>3 DEF encode_value
  <1> HIDE DEF m
  <1>7. CASE field.format = "text"
    <2>1. text_value(j, p, t) = m
      BY <1>2, <1>6 DEF text_value, Scalar, StringFamily
    <2>2. ReadsText(p, m).got => ReadsText(p, m).v = m
      BY <1>2 DEF ReadsText, Read, Refused, StringFamily
    <2> QED
      BY <1>5, <1>7, <2>1, <2>2, TextCarried
  <1>8. CASE field.format = "binary"
    <2>1. CASE p.name \in StringFamily
      <3>1. encode_binary_cell(j, p, t) = Binary("chars", m)
        BY <1>2, <1>6, <2>1 DEF encode_binary_cell, StringFamily
      <3>2. LayoutOf(p) = "chars" /\ ReadsBinary(p, m).v = m
        BY <2>1 DEF LayoutOf, ReadsBinary, Read, StringFamily
      <3> QED
        BY <1>5, <1>8, <3>1, <3>2, BinaryCarried
    <2>2. CASE p.name \in {"interval", "jsonb", "uuid", "inet"}
      <3>1. encode_binary_cell(j, p, t) = Err("0A000")
        BY <1>2, <2>2 DEF encode_binary_cell, StringFamily, unsupported_binary_type
      <3>2. p.name \notin BinaryTypes
        BY <2>2 DEF BinaryTypes, StringFamily
      <3>3. ~BinarySupported(t, p, j)
        BY <3>2, Zenon DEF BinarySupported
      <3> QED
        BY <1>8, <3>1, <3>3, BinaryRefused, Zenon
    <2> QED
      BY <1>2, <2>1, <2>2
  <1> QED
    BY <1>7, <1>8

-----------------------------------------------------------------------------
(* Times of day and timestamps.                                             *)

\* An instant is close to itself.
LEMMA CloseSelf ==
  ASSUME NEW i \in Int PROVE Close(i, i)
  BY Units DEF Close, Abs

\* Without a zone.
LEMMA NaiveCarried ==
  ASSUME NEW t, NEW n \in {"timestamp", "time"}, NEW field, Column(t, n, field.datatype),
         field.format \in {"text", "binary"}, NEW j, Sent(t, j), j.json # "null"
  PROVE  Carried(t, j, field)
  <1> DEFINE p == field.datatype
             a == truncate_fraction(j.s.at)
  <1>1. TypeName(t) = n
    BY ScalarNames
  <1>2. p.array = FALSE /\ p.name = n
    BY SMTT(30) DEF Column, ScalarOf, Scalar
  <1>3. /\ j.json = "string" /\ j.s.at \in Int /\ j.s.zone = NoZone
        /\ n = "timestamp" => j.s.form = "stamp"
        /\ n = "time" => j.s.form = "time"
    BY <1>1 DEF Sent
  <1>4. Means(t, j) = {j.s.at}
    BY <1>1 DEF Means, IntegerTypes
  <1>5. ASSUME NEW v, Close(j.s.at, v) PROVE Understood(t, j, v)
    <2>1. Same(t, j.s.at, v)
      BY <1>1, <1>5, Zenon DEF Same
    <2> QED
      BY <1>4, <2>1, OneMeaning, Zenon
  <1>6. CASE field.format = "text"
    <2>1. text_value(j, p, t) = j.s
      BY <1>2, <1>3 DEF text_value, Scalar, encode_value
    <2>2. ReadsText(p, j.s).got => ReadsText(p, j.s).v = j.s.at
      BY <1>2 DEF ReadsText, Read, Refused
    <2>3. Understood(t, j, j.s.at)
      BY <1>3, <1>5, CloseSelf, Zenon
    <2> QED
      BY <1>6, <2>1, <2>2, <2>3, TextCarried
  <1>7. CASE field.format = "binary"
    <2>1. encode_binary_cell(j, p, t) = Binary(n, MicrosOf(a))
      <3>1. CASE n = "timestamp"
        <4>1. json_to_timestamp(j) = {a}
          BY <1>3, <3>1 DEF json_to_timestamp, Naive
        <4>2. {MicrosOf(at) : at \in json_to_timestamp(j)} = {MicrosOf(a)}
          BY <4>1
        <4> QED
          BY <1>2, <3>1, <4>2, PutIs DEF encode_binary_cell, StringFamily
      <3>2. CASE n = "time"
        <4>1. json_to_time(j) = {a}
          BY <1>3, <3>2 DEF json_to_time, Naive
        <4>2. {MicrosOf(at) : at \in json_to_time(j)} = {MicrosOf(a)}
          BY <4>1
        <4> QED
          BY <1>2, <3>2, <4>2, PutIs DEF encode_binary_cell, StringFamily
      <3> QED
        BY <3>1, <3>2
    <2>2. LayoutOf(p) = n /\ ReadsBinary(p, MicrosOf(a)).v = MicrosOf(a) * Micro
      BY <1>2 DEF LayoutOf, ReadsBinary, Read, StringFamily
    <2>3. Understood(t, j, MicrosOf(a) * Micro)
      BY <1>3, <1>5, TruncateCuts, MicrosClose, Zenon
    <2> QED
      BY <1>7, <2>1, <2>2, <2>3, BinaryCarried
  <1> QED
    BY <1>6, <1>7

\* A time of day keeps its offset.
LEMMA TimetzCarried ==
  ASSUME NEW t, NEW field, Column(t, "time_with_time_zone", field.datatype),
         field.format \in {"text", "binary"}, NEW j, Sent(t, j), j.json # "null"
  PROVE  Carried(t, j, field)
  <1> DEFINE p == field.datatype
             a == truncate_fraction(j.s.at)
             e == East(j.s.zone)
             x == [time |-> a, east |-> e]
             m == [time |-> j.s.at, east |-> e]
  <1>1. TypeName(t) = "time_with_time_zone"
    BY ScalarNames
  <1>2. p.array = FALSE /\ p.name = "timetz"
    BY DEF Column, ScalarOf, Scalar
  <1>12. p = Scalar("timetz")
    BY SMTT(30) DEF Column, ScalarOf
  <1>3. j.json = "string" /\ j.s.form = "time" /\ j.s.at \in Int /\ IsOffset(j.s.zone)
    BY <1>1 DEF Sent
  <1>4. e \in Int /\ j.s.zone.kind = "offset"
    BY <1>3, EastTyped DEF IsOffset
  <1>5. Means(t, j) = {m}
    BY <1>1 DEF Means, IntegerTypes
  <1>6. json_to_timetz(j) = {x}
    BY <1>3, <1>4 DEF json_to_timetz, parse_trino_timetz
  <1>7. Cut(j.s.at, a)
    BY <1>3, TruncateCuts
  <1>8. ASSUME NEW v, Close(j.s.at, v.time), v.east = e PROVE Understood(t, j, v)
    <2>1. m.time = j.s.at /\ m.east = e
      OBVIOUS
    <2>2. Same(t, m, v)
      BY <1>1, <1>8, <2>1, Zenon DEF Same
    <2> QED
      BY <1>5, <2>2, OneMeaning, Zenon
  <1> HIDE DEF m, a, e
  <1>9. CASE field.format = "text"
    <2> DEFINE z == format_utc_offset(e)
               s == Time(format_fraction(a), z)
    <2>1. to_pg_text(x) = s
      BY DEF to_pg_text
    <2>2. text_value(j, p, t) = s
      <3>1. Scalar("timetz") # Scalar("timestamptz")
        BY DEF Scalar
      <3>2. json_to_timetz(j) # {} /\ (CHOOSE w \in json_to_timetz(j) : TRUE) = x
        BY <1>6, ChooseOnly
      <3> QED
        BY <1>12, <2>1, <3>1, <3>2, Zenon DEF text_value
    <2>3. East(z) = e /\ z.kind = "offset" /\ z.spelling = "compact"
      BY <1>4, OffsetKept
    <2>4. s.form = "time" /\ s.at = format_fraction(a) /\ s.zone = z
      BY DEF Time
    <2> DEFINE v == [time |-> s.at, east |-> East(s.zone)]
    <2>5. v.time = format_fraction(a) /\ v.east = e
      BY <2>3, <2>4, SMTT(30)
    <2>6. Understood(t, j, v)
      BY <1>3, <1>7, <1>8, <2>5, FractionClose
    <2>7. ReadsText(p, s).got => ReadsText(p, s).v = v
      <3> HIDE DEF s
      <3> QED
        BY <1>2 DEF ReadsText, Read, Refused
    <2> HIDE DEF s, v
    <2> QED
      BY <1>9, <2>2, <2>6, <2>7, TextCarried
  <1>10. CASE field.format = "binary"
    <2> DEFINE y == to_sql(x)
               v == [time |-> y.micros * Micro, east |-> -y.west]
    <2>1. y.micros = a \div Micro /\ y.west = -e
      BY DEF to_sql
    <2>2. {to_sql(w) : w \in json_to_timetz(j)} = {y}
      BY <1>6
    <2>3. encode_binary_cell(j, p, t) = Binary("timetz", y)
      BY <1>2, <2>2, PutIs DEF encode_binary_cell, StringFamily
    <2> HIDE DEF y
    <2>4. LayoutOf(p) = "timetz" /\ ReadsBinary(p, y).v = v
      BY <1>2 DEF LayoutOf, ReadsBinary, Read, StringFamily
    <2>5. a \div Micro \in Int /\ (a \div Micro) * Micro = Micro * (a \div Micro) /\ -(-e) = e
      <3>1. a \div Micro \in Int
        BY <1>7, Units, DivMod, Zenon DEF Cut
      <3> DEFINE q == a \div Micro
      <3>2. q * Micro = Micro * q
        <4>1. q \in Int
          BY <3>1
        <4> HIDE DEF q
        <4> QED
          BY <4>1, Units
      <3>3. -(-e) = e
        BY <1>4
      <3> QED
        BY <3>1, <3>2, <3>3
    <2>6. v.time = Micro * (a \div Micro) /\ v.east = e
      BY <2>1, <2>5, SMTT(30)
    <2>7. Understood(t, j, v)
      BY <1>3, <1>7, <1>8, <2>6, FloorClose
    <2> HIDE DEF v
    <2> QED
      BY <1>10, <2>3, <2>4, <2>7, BinaryCarried, SMTT(30)
  <1> QED
    BY <1>9, <1>10

\* The instants of a wall clock by one change of its zone.
Shown(z, at) ==
  {i \in {at - z.before * Second} : i < z.at} \cup {i \in {at - z.after * Second} : i >= z.at}

\* No instant, or two.
Open(S) == IsFiniteSet(S) /\ (S = {} \/ \E a, b \in S : a # b)

\* A set that leaves the instant open has not one element.
LEMMA OpenSet ==
  ASSUME NEW S, Open(S) PROVE (\A x : S # {x}) /\ Cardinality(S) # 1
  <1>1. \A x : S # {x}
    BY DEF Open
  <1>2. Cardinality(S) = 1 <=> \E x : S = {x}
    BY FS_Singleton, Zenon DEF Open
  <1> QED
    BY <1>1, <1>2, Zenon

\* A wall clock shows a time at finitely many instants.
LEMMA ShownFinite ==
  ASSUME NEW z, NEW at PROVE IsFiniteSet(Shown(z, at))
  <1> DEFINE b == at - z.before * Second
             a == at - z.after * Second
  <1>1. Shown(z, at) \subseteq {b} \cup {a}
    BY DEF Shown
  <1>2. IsFiniteSet({b}) /\ IsFiniteSet({a})
    BY FS_Singleton, Zenon
  <1> HIDE DEF a, b
  <1>3. IsFiniteSet({b} \cup {a})
    BY <1>2, FS_Union, Zenon
  <1> QED
    BY <1>1, <1>3, FS_Subset

\* Cutting below a nanosecond keeps a time on its side of the zone's change, so that
\* it is shown at one instant before the cut exactly if it is after.
LEMMA ShownCut ==
  ASSUME NEW z, {z.before, z.after, z.at} \subseteq Int, z.at % Nano = 0,
         NEW at \in Int, NEW a, Cut(at, a)
  PROVE  \/ \E i, k \in Int : Shown(z, at) = {i} /\ Shown(z, a) = {k} /\ Cut(i, k)
         \/ Open(Shown(z, at)) /\ Open(Shown(z, a))
  <1> DEFINE b1 == at - z.before * Second
             a1 == at - z.after * Second
             b2 == a - z.before * Second
             a2 == a - z.after * Second
  <1>1. Whole(z.at)
    <2>1. z.at \div Nano \in Int /\ z.at = Nano * (z.at \div Nano) + (z.at % Nano)
      BY Units, DivMod, Zenon
    <2>2. z.at = Nano * (z.at \div Nano)
      BY <2>1, Units
    <2> QED
      BY <2>1, <2>2, Zenon DEF Whole
  <1>2. Cut(b1, b2) /\ Cut(a1, a2)
    BY ShiftCuts, Zenon
  <1>3. b1 \in Int /\ a1 \in Int /\ b2 \in Int /\ a2 \in Int
    BY <1>2, Units DEF Cut
  <1>4. (b2 < z.at <=> b1 < z.at) /\ (a2 < z.at <=> a1 < z.at)
    <2> HIDE DEF b1, a1, b2, a2
    <2> QED
      BY <1>1, <1>2, <1>3, CutSide, Zenon
  <1>5. /\ Shown(z, at) = {i \in {b1} : i < z.at} \cup {i \in {a1} : i >= z.at}
        /\ Shown(z, a) = {i \in {b2} : i < z.at} \cup {i \in {a2} : i >= z.at}
    BY DEF Shown
  <1> HIDE DEF b1, a1, b2, a2
  <1>6. CASE b1 < z.at /\ a1 < z.at
    <2>1. Shown(z, at) = {b1} /\ Shown(z, a) = {b2}
      BY <1>3, <1>4, <1>5, <1>6
    <2> QED
      BY <1>2, <1>3, <2>1, Zenon
  <1>7. CASE ~(b1 < z.at) /\ ~(a1 < z.at)
    <2>1. Shown(z, at) = {a1} /\ Shown(z, a) = {a2}
      BY <1>3, <1>4, <1>5, <1>7
    <2> QED
      BY <1>2, <1>3, <2>1, Zenon
  <1>8. CASE b1 < z.at /\ ~(a1 < z.at)
    <2>1. /\ b1 \in Shown(z, at) /\ a1 \in Shown(z, at) /\ b1 # a1
          /\ b2 \in Shown(z, a) /\ a2 \in Shown(z, a) /\ b2 # a2
      BY <1>3, <1>4, <1>5, <1>8
    <2> QED
      BY <2>1, ShownFinite, Zenon DEF Open
  <1>9. CASE ~(b1 < z.at) /\ a1 < z.at
    <2>1. Shown(z, at) = {} /\ Shown(z, a) = {}
      BY <1>3, <1>4, <1>5, <1>9, SMTT(30)
    <2> QED
      BY <2>1, ShownFinite, Zenon DEF Open
  <1> QED
    BY <1>6, <1>7, <1>8, <1>9

\* The same for a zone given by its name, which chrono-tz may not know.
LEMMA CandidatesCut ==
  ASSUME NEW zone, NEW at \in Int, NEW a, Cut(at, a)
  PROVE  \/ \E i, k \in Int : Candidates(zone, at) = {i} /\ Candidates(zone, a) = {k} /\ Cut(i, k)
         \/ Open(Candidates(zone, at)) /\ Open(Candidates(zone, a))
  <1>1. CASE zone.name \in DOMAIN Zones
    <2> DEFINE z == Zones[zone.name]
    <2>1. \A x : Candidates(zone, x) = Shown(z, x)
      BY <1>1 DEF Candidates, Shown
    <2>2. {z.before, z.after, z.at} \subseteq Int /\ z.at % Nano = 0
      BY <1>1, TimeAssumption, Zenon
    <2> HIDE DEF z
    <2> QED
      BY <2>1, <2>2, ShownCut, ZenonT(60)
  <1>2. CASE zone.name \notin DOMAIN Zones
    <2>1. \A x : Candidates(zone, x) = {}
      BY <1>2 DEF Candidates
    <2> QED
      BY <2>1, FS_EmptySet DEF Open
  <1> QED
    BY <1>1, <1>2

\* The gateway finds the instant Trino meant, cut to a nanosecond, or Trino
\* left it open.
LEMMA InstantFound ==
  ASSUME NEW t, NEW p, Column(t, "timestamp_with_time_zone", p), NEW j, Sent(t, j)
  PROVE  \/ \E i, k \in Int : Means(t, j) = {i} /\ json_to_timestamptz(j) = {k} /\ Cut(i, k)
         \/ /\ Cardinality(Means(t, j)) # 1 /\ json_to_timestamptz(j) = {}
            /\ j.json = "string" /\ j.s.zone.kind = "named"
  <1> DEFINE zone == j.s.zone
             at == j.s.at
             a == truncate_fraction(at)
  <1>1. TypeName(t) = "timestamp_with_time_zone"
    BY ScalarNames, SMTT(30)
  <1>2. /\ j.json = "string" /\ j.s.form = "stamp" /\ at \in Int
        /\ IsOffset(zone) \/ zone.kind = "named"
    BY <1>1, SMTT(30) DEF Sent
  <1>3. Cut(at, a)
    BY <1>2, TruncateCuts
  <1>4. CASE IsOffset(zone)
    <2> DEFINE e == East(zone)
    <2>1. e \in Int /\ zone.kind = "offset"
      BY <1>4, EastTyped DEF IsOffset
    <2>2. Means(t, j) = {at - e * Second}
      BY <1>1, <2>1, SMTT(30) DEF Means, IntegerTypes
    <2>3. json_to_timestamptz(j) = {a - e * Second}
      BY <1>2, <2>1 DEF json_to_timestamptz, parse_trino_timestamptz
    <2> HIDE DEF e, a, at
    <2>4. Cut(at - e * Second, a - e * Second)
      BY <1>2, <1>3, <2>1, ShiftCuts, Zenon
    <2>5. at - e * Second \in Int /\ a - e * Second \in Int
      BY <1>2, <1>3, <2>1, Units DEF Cut
    <2> QED
      BY <2>2, <2>3, <2>4, <2>5, Zenon
  <1>5. CASE zone.kind = "named"
    <2>1. Means(t, j) = Candidates(zone, at)
      BY <1>1, <1>5, SMTT(30) DEF Means, IntegerTypes
    <2> DEFINE C == Candidates(zone, a)
    <2>2. json_to_timestamptz(j) = {i \in C : C = {i}}
      BY <1>2, <1>5 DEF json_to_timestamptz, parse_trino_timestamptz
    <2>3. CASE \E i, k \in Int : Candidates(zone, at) = {i} /\ C = {k} /\ Cut(i, k)
      <3>1. PICK i \in Int, k \in Int : Candidates(zone, at) = {i} /\ C = {k} /\ Cut(i, k)
        BY <2>3, Zenon
      <3> HIDE DEF C
      <3>2. {x \in C : C = {x}} = {k}
        BY <3>1
      <3> QED
        BY <2>1, <2>2, <3>1, <3>2, Zenon
    <2>4. CASE Open(Candidates(zone, at)) /\ Open(C)
      <3>1. Cardinality(Means(t, j)) # 1
        BY <2>1, <2>4, OpenSet, Zenon
      <3> HIDE DEF C
      <3>2. {x \in C : C = {x}} = {}
        BY <2>4, OpenSet, Zenon
      <3> QED
        BY <1>2, <1>5, <2>2, <3>1, <3>2, Zenon
    <2> HIDE DEF C, a, at, zone
    <2>5. \/ \E i, k \in Int : Candidates(zone, at) = {i} /\ C = {k} /\ Cut(i, k)
          \/ Open(Candidates(zone, at)) /\ Open(C)
      BY <1>2, <1>3, CandidatesCut, Zenon DEF C
    <2> QED
      BY <2>3, <2>4, <2>5, Zenon
  <1> QED
    BY <1>2, <1>4, <1>5, Zenon

\* timestamp with time zone, with an offset or a zone name.
LEMMA TimestamptzCarried ==
  ASSUME NEW t, NEW field, Column(t, "timestamp_with_time_zone", field.datatype),
         field.format \in {"text", "binary"}, NEW j, Sent(t, j), j.json # "null"
  PROVE  Carried(t, j, field)
  <1> DEFINE p == field.datatype
  <1>1. TypeName(t) = "timestamp_with_time_zone"
    BY ScalarNames
  <1>2. p = Scalar("timestamptz") /\ p.array = FALSE /\ p.name = "timestamptz"
    BY DEF Column, ScalarOf, Scalar
  <1>3. encode_binary_cell(j, p, t)
          = Put("timestamptz", {MicrosOf(i) : i \in json_to_timestamptz(j)})
    BY <1>2 DEF encode_binary_cell, StringFamily
  <1>4. ASSUME NEW i \in Int, NEW k \in Int,
               Means(t, j) = {i}, json_to_timestamptz(j) = {k}, Cut(i, k)
        PROVE  Carried(t, j, field)
    <2>1. ASSUME NEW v, Close(i, v) PROVE Understood(t, j, v)
      <3>1. Same(t, i, v)
        BY <1>1, <2>1, Zenon DEF Same
      <3> QED
        BY <1>4, <3>1, OneMeaning, Zenon
    <2>2. CASE field.format = "text"
      <3> DEFINE z == format_utc_offset(0)
                 s == Stamp(format_fraction(k), z)
      <3>1. text_value(j, p, t) = s
        <4>1. Scalar("timetz") # Scalar("timestamptz")
          BY DEF Scalar
        <4>2. json_to_timestamptz(j) # {} /\ (CHOOSE w \in json_to_timestamptz(j) : TRUE) = k
          BY <1>4, ChooseOnly
        <4>3. render_timestamptz_text(k) = s
          BY DEF render_timestamptz_text
        <4> HIDE DEF s
        <4> QED
          BY <1>2, <4>1, <4>2, <4>3, Zenon DEF text_value
      <3>2. East(z) = 0
        BY OffsetKept
      <3>3. s.at = format_fraction(k) /\ s.zone = z
        BY DEF Stamp
      <3> HIDE DEF s, z
      <3>4. format_fraction(k) \in Int /\ Close(i, format_fraction(k))
        BY <1>4, FractionClose, Zenon
      <3>5. s.at - East(s.zone) * Second = format_fraction(k)
        BY <3>2, <3>3, <3>4, Units
      <3>6. ReadsText(p, s).got => ReadsText(p, s).v = s.at - East(s.zone) * Second
        BY <1>2 DEF ReadsText, Read, Refused
      <3> QED
        BY <2>1, <2>2, <3>1, <3>4, <3>5, <3>6, TextCarried
    <2>3. CASE field.format = "binary"
      <3>1. {MicrosOf(x) : x \in json_to_timestamptz(j)} = {MicrosOf(k)}
        BY <1>4
      <3>2. encode_binary_cell(j, p, t) = Binary("timestamptz", MicrosOf(k))
        BY <1>3, <3>1, PutIs
      <3>3. LayoutOf(p) = "timestamptz" /\ ReadsBinary(p, MicrosOf(k)).v = MicrosOf(k) * Micro
        BY <1>2 DEF LayoutOf, ReadsBinary, Read, StringFamily
      <3>4. Understood(t, j, MicrosOf(k) * Micro)
        BY <1>4, <2>1, MicrosClose, Zenon
      <3> QED
        BY <2>3, <3>2, <3>3, <3>4, BinaryCarried
    <2> QED
      BY <2>2, <2>3
  <1>5. CASE /\ Cardinality(Means(t, j)) # 1 /\ json_to_timestamptz(j) = {}
             /\ j.json = "string" /\ j.s.zone.kind = "named"
    <2>1. CASE field.format = "text"
      <3>1. text_value(j, p, t) = j.s
        BY <1>2, <1>5 DEF text_value, Scalar, encode_value
      <3>2. ReadsText(p, j.s).got = FALSE
        BY <1>2, <1>5 DEF ReadsText, Refused, HasOffset
      <3> QED
        BY <2>1, <3>1, <3>2, TextCarried
    <2>2. CASE field.format = "binary"
      <3>1. {MicrosOf(x) : x \in json_to_timestamptz(j)} = {}
        BY <1>5
      <3>2. encode_binary_cell(j, p, t) = Err("22P03")
        BY <1>3, <3>1, PutIs, ZenonT(60)
      <3>3. ~BinarySupported(t, p, j)
        BY <1>5, Zenon DEF BinarySupported
      <3> QED
        BY <2>2, <3>2, <3>3, BinaryRefused, SMTT(30)
    <2> QED
      BY <2>1, <2>2
  <1> QED
    BY <1>4, <1>5, InstantFound, Zenon

-----------------------------------------------------------------------------
(* Every type.                                                              *)

\* Whatever Trino puts into a column, for whatever type and format the column
\* was announced with: what is sent is understood, refused or one of the named
\* exceptions, and what fails has no binary form.
LEMMA CellCarried ==
  ASSUME NEW t, t.arrays \in Nat, NEW field, field.datatype = trino_type_to_pg(t),
         field.format \in {"text", "binary"}, NEW j, j = Null \/ Sent(t, j)
  PROVE  Carried(t, j, field)
  <1>1. CASE j = Null
    BY <1>1, NullCarried
  <1>0. Sent(t, j) => j.json # "null"
    BY Zenon DEF Sent, NumberTypes, IntegerTypes
  <1>2. CASE j.json # "null" /\ Sent(t, j) /\ t.arrays > 0
    <2>1. field.datatype.array = TRUE
      BY <1>2, TypeToPg, Zenon
    <2> QED
      BY <1>2, <2>1, ArrayCarried, ZenonT(60)
  <1>3. CASE j.json # "null" /\ Sent(t, j) /\ t.arrays = 0
    <2>1. Column(t, t.name, field.datatype)
      BY <1>3, TypeToPg, Zenon DEF Column
    <2>2. CASE t.name \in IntegerTypes
      <3>1. IntegerColumn(t, field.datatype)
        BY <2>1, <2>2 DEF IntegerColumn, Column, ScalarOf, IntegerTypes
      <3> QED
        BY <1>3, <3>1, IntegerCarried, Zenon
    <2>3. CASE t.name \in NumberTypes \cup TimeTypes \cup {"boolean", "date", "varbinary"}
      BY <1>3, <2>1, <2>2, <2>3, DecimalCarried, FloatCarried, BooleanCarried, DateCarried,
         BytesCarried, NaiveCarried, TimetzCarried, TimestamptzCarried, Zenon
         DEF NumberTypes, TimeTypes
    <2>4. CASE t.name \notin NumberTypes \cup TimeTypes \cup {"boolean", "date", "varbinary"}
      BY <1>3, <2>1, <2>4, OtherCarried, Zenon
    <2> QED
      BY <2>3, <2>4, Zenon
  <1> QED
    BY <1>0, <1>1, <1>2, <1>3
=============================================================================
