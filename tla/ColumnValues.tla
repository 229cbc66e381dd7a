---------------------------- MODULE ColumnValues ----------------------------
(***************************************************************************)
(* The way of one value: bound by a Rust type, or already there, kept by a *)
(* column of some type, fetched in either mode, and read as a Rust type    *)
(* with or without the check of its compatibility (try_get and             *)
(* try_get_unchecked), or as a value of sqlx's Any driver.                 *)
(***************************************************************************)
EXTENDS TemporalCodecs, FiniteSets

CONSTANTS
  Halves,            \* the numbers rounding is told of, the infinities included
  SomeNumbers,       \* those of the instance
  NonAscii,          \* the texts with characters beyond ASCII
  SomeTexts, SomeBytes, SomeDates, SomeTimes, SomeDateTimes, SomeZoned, SomeUuids,
  Columns,           \* the column types of the instance
  Separators         \* the decimal separators a client locale may have

(* Every column has a data type of ODBC's. *)
ASSUME ColumnsAssumption == Columns \subseteq DataTypes

(* Rust's integer types start at a u8 with a zero and nest: a u8 is an i16,  *)
(* an i16 an i32, an i32 an i64.                                            *)
ASSUME WidthsAssumption ==
  /\ Bits[16] \in Nat \ {0}
  /\ 0 \in Unsigned(8)
  /\ Unsigned(8) \subseteq Signed(16)
  /\ Signed(16) \subseteq Signed(32)
  /\ Signed(32) \subseteq Signed(64)

(* Numbers and moments are counted in units, and a date has a day.          *)
ASSUME DataAssumption ==
  /\ SomeNumbers \subseteq {n \in Halves : Finite(n)}
  /\ SomeTimes \cup SomeDateTimes \subseteq Int
  /\ \A d \in SomeDates : d \in Int /\ d % 10 # 0
  /\ \A z \in SomeZoned : z.at \in Int /\ z.offset \in Int
  /\ \A t \in SomeTexts : t.of = "number" =>
       /\ t = NumberText(t.n, t.sep)
       /\ t.n \in {n \in Halves : Finite(n)}
  /\ \A t \in NonAscii : t.of \in {"plain", "json"}

(* Rounding gives a next number.  Every f32 is an f64, an f64 holds every    *)
(* i32 and the smallest fraction a column has, a Decimal every i64.         *)
ASSUME RoundingAssumption ==
  /\ Infinity \in Nat /\ Halves \subseteq -Infinity .. Infinity
  /\ \A to \in {ToF32, ToF64, ToDecimal, FloatToDecimal} :
       /\ DOMAIN to = Halves
       /\ LET numbers == Fixed(to)
          IN  \A n \in Halves : Nearby(numbers, n, to[n])
  /\ F32s \subseteq F64s
  /\ {-1, 0, 1} \cup {2 * i : i \in Signed(32)} \subseteq F64s
  /\ {2 * i : i \in Signed(64)} \subseteq {n \in Decimals : Finite(n)}

ASSUME SeparatorsAssumption == Separators \subseteq {".", ","}

VARIABLES
  stage,       \* what has happened to the value
  column,      \* the type of its column
  separator,   \* the client's decimal separator
  fits,        \* whether max_column_size holds every value of the column
  utf8,        \* whether the client's code page is UTF-8
  bound,       \* the Rust type and value it was bound with, if any
  content,     \* what the column holds
  kinds,       \* what each fetch mode made of it
  reading,     \* the Rust type it is read as, and whether that is checked
  results      \* what each mode read

valueVars == <<stage, column, separator, fits, utf8, bound, content, kinds, reading, results>>

Modes == {"unbuffered", "buffered"}

None == [type |-> "none"]

RustTypes ==
  IntegerTypes \cup FloatTypes \cup ChronoTypes \cup TimeTypes
    \cup {"bool", "String", "Vec<u8>", "sys::Date", "sys::Time",
          "sys::Timestamp", "Uuid", "Geometry", "Json", "Decimal", "BigDecimal"}

-----------------------------------------------------------------------------
(* The Rust types. *)

TypeInfo(type) ==
  CASE type \in IntegerTypes -> Simple(IntegerTypeInfo[type])
    [] type = "bool" -> Simple("Bit")
    [] type = "f32" -> Simple("Real")
    [] type = "f64" -> Simple("Double")
    [] type = "String" -> Sized("WVarchar", 0)
    [] type = "Json" -> Sized("Varchar", 0)
    [] type = "Vec<u8>" -> Sized("Varbinary", 0)
    [] type = "Uuid" -> Other(Guid, 0, 0)
    [] type = "Geometry" -> Other(Udt, 0, 0)
    [] type \in {"Decimal", "BigDecimal"} -> Exact("Numeric", 28, 4)
    [] type \in DateTypes \cup {"sys::Date"} -> Simple("Date")
    [] type \in ClockTypes \cup {"sys::Time"} -> Precise("Time", 0)
    [] type \in NaiveTypes \cup {"sys::Timestamp"} -> Precise("Timestamp", 0)
    [] type \in ZonedTypes -> Other(DateTimeOffset, 0, 0)

Compatible(type, info) ==
  CASE type \in IntegerTypes -> IntegerCompatible(info)
    [] type = "bool" -> BoolCompatible(info)
    [] type \in FloatTypes -> FloatCompatible(info)
    [] type = "String" -> StringCompatible(info)
    [] type = "Vec<u8>" -> BytesCompatible(info)
    [] type \in SysTypes -> SysCompatible(type, info)
    [] type = "Uuid" -> UuidCompatible(info)
    [] type = "Geometry" -> GeometryCompatible(info)
    [] type = "Json" -> JsonCompatible(info)
    [] type \in {"Decimal", "BigDecimal"} -> DecimalCompatible(info)
    [] type \in DateTypes -> DateCompatible(info)
    [] type \in ClockTypes -> ClockCompatible(info)
    [] type \in NaiveTypes -> NaiveCompatible(info)
    [] type = "OffsetDateTime" -> OffsetDateTimeCompatible(info)
    [] type \in ZonedTypes \ {"OffsetDateTime"} -> ZonedCompatible(info)

Encode(type, v) ==
  CASE type \in IntegerTypes -> IntegerEncode(v)
    [] type = "bool" -> {BoolEncode(v)}
    [] type \in FloatTypes -> {FloatEncode(v)}
    [] type = "String" -> {StringEncode(v)}
    [] type = "Vec<u8>" -> {BytesEncode(v)}
    [] type \in SysTypes -> {SysEncode(type, v)}
    [] type = "Uuid" -> {UuidEncode(v)}
    [] type = "Geometry" -> {GeometryEncode(v)}
    [] type = "Json" -> {JsonEncode(v)}
    [] type \in {"Decimal", "BigDecimal"} -> {DecimalEncode(v)}
    [] type = "NaiveDate" -> {EncodeDate(v)}
    [] type = "time::Date" -> {EncodeTimeDate(v)}
    [] type \in ClockTypes -> {EncodeTime(v)}
    [] type = "NaiveDateTime" -> {EncodeNaiveDateTime(v)}
    [] type = "PrimitiveDateTime" -> {EncodePrimitive(v)}
    [] type = "DateTime<Local>" -> {EncodeLocal(v)}
    [] type \in ZonedTypes \ {"DateTime<Local>"} -> {EncodeZoned(v)}

Decode(type, value) ==
  CASE type \in IntegerTypes -> IntegerDecode(type, value)
    [] type = "bool" -> BoolDecode(value)
    [] type \in FloatTypes -> FloatDecode(type, value)
    [] type = "String" -> StringDecode(value)
    [] type = "Vec<u8>" -> BytesDecode(value)
    [] type \in SysTypes -> SysDecode(type, value)
    [] type = "Uuid" -> UuidDecode(value)
    [] type = "Geometry" -> GeometryDecode(value)
    [] type = "Json" -> JsonDecode(value)
    [] type = "Decimal" -> DecimalDecode(value)
    [] type = "BigDecimal" -> BigDecimalDecode(value)
    [] type = "NaiveDate" -> NaiveDateDecode(value)
    [] type = "time::Date" -> TimeDateDecode(value)
    [] type = "NaiveTime" -> NaiveTimeDecode(value)
    [] type = "time::Time" -> TimeTimeDecode(value)
    [] type = "NaiveDateTime" -> NaiveDateTimeDecode(value)
    [] type = "PrimitiveDateTime" -> PrimitiveDecode(value)
    [] type = "DateTime<Utc>" -> DateTimeUtcDecode(value)
    [] type = "DateTime<FixedOffset>" -> DateTimeFixedDecode(value)
    [] type = "DateTime<Local>" -> DateTimeLocalDecode(value)
    [] type = "OffsetDateTime" -> OffsetDateTimeDecode(value)

(* What binding an Option<T> sends; empty when it cannot be encoded. *)
Send(type, option) ==
  IF option = {} THEN {NullParameter(TypeInfo(type))}
  ELSE {ValueToParameter(argument) :
          argument \in UNION {Encode(type, v) : v \in option}}

-----------------------------------------------------------------------------
(* SQL Server: what a column holds, and what it makes of a parameter.  An   *)
(* empty set is a refusal.  A column is wide and precise enough for what    *)
(* the instance puts into it.                                               *)

Holding(form, v) == [form |-> form, v |-> v]

Null == [form |-> "null"]

(* The years SQL Server has, 1 to 9999. *)
ServerYears == 1 .. 15

NumbersIn(range) == {n \in SomeNumbers : IsWhole(n) /\ n \div 2 \in range}

(* A float column holds floats; the 38 digits of a decimal column are not    *)
(* beyond the largest f32.                                                 *)
NumbersHeld(type) ==
  CASE type.tag = "TinyInt" -> NumbersIn(Unsigned(8))
    [] type.tag = "SmallInt" -> NumbersIn(Signed(16))
    [] type.tag = "Integer" -> NumbersIn(Signed(32))
    [] type.tag = "BigInt" -> NumbersIn(Signed(64))
    [] type.tag = "Real" -> SomeNumbers \cap F32s
    [] type.tag \in {"Float", "Double"} -> SomeNumbers \cap F64s
    [] type.tag \in {"Decimal", "Numeric"} ->
         {n \in SomeNumbers : Finite(ToF32[n]) /\ (type.scale = 0 => IsWhole(n))}

(* What others may have put into a column of a type. *)
Contents(type) ==
  {Null} \cup
  CASE AcceptsNumericData(type) -> {Holding("number", n) : n \in NumbersHeld(type)}
    [] AcceptsCharacterData(type) -> {Holding("text", t) : t \in SomeTexts}
    [] AcceptsBinaryData(type) -> {Holding("bytes", b) : b \in SomeBytes}
    [] type.tag = "Bit" -> {Holding("bit", b) : b \in BOOLEAN}
    [] type.tag = "Date" ->
         {Holding("date", d) : d \in {e \in SomeDates : e \div 10 \in ServerYears}}
    [] type.tag = "Time" -> {Holding("time", t) : t \in SomeTimes}
    [] type.tag = "Timestamp" ->
         {Holding("timestamp", l) :
            l \in {k \in SomeDateTimes : k \div YearUnits \in ServerYears}}
    [] IsOther(type, DateTimeOffset) -> {Holding("zoned", z) : z \in SomeZoned}
    [] IsOther(type, Guid) ->
         {Holding("bytes", UuidBytes(u.id, TRUE)) : u \in SomeUuids}
    [] OTHER -> {Holding("text", t) : t \in SomeTexts}

StoreText(text, type) ==
  CASE AcceptsCharacterData(type) -> {Holding("text", text)}
    [] AcceptsNumericData(type) ->
         {Holding("number", n) : n \in {text.n} \cap NumbersHeld(type)}
    [] IsOther(type, Guid) ->
         {Holding("bytes", UuidBytes(text.uuid.id, ~text.uuid.wire))}
    [] IsOther(type, DateTimeOffset) ->
         {Holding("zoned", Zoned(text.local, text.offset))}

StoreNumber(n, type) ==
  IF type.tag \in IntegerKinds
  THEN IF n \in (CASE type.tag = "TinyInt" -> Unsigned(8)
                   [] type.tag = "SmallInt" -> Signed(16)
                   [] type.tag = "Integer" -> Signed(32)
                   [] type.tag = "BigInt" -> Signed(64))
       THEN {Holding("number", 2 * n)} ELSE {}
  ELSE {Holding("number", 2 * n)}

StoreTimestamp(local, type) ==
  IF local \div YearUnits \notin ServerYears THEN {}
  ELSE IF IsOther(type, DateTimeOffset) THEN {Holding("zoned", Zoned(local, 0))}
  ELSE {Holding("timestamp", local)}

StoreValue(tag, v, type) ==
  CASE tag = "WVarchar" -> StoreText(v, type)
    [] tag = "BigInt" -> StoreNumber(v, type)
    [] tag = "Double" -> {Holding("number", v)}
    [] tag = "Bit" -> {Holding("bit", v)}
    [] tag = "Varbinary" ->
         IF IsOther(type, Udt) THEN {} ELSE {Holding("bytes", v)}
    [] tag = "Date" ->
         IF v \div 10 \in ServerYears THEN {Holding("date", v)} ELSE {}
    [] tag = "Time" -> {Holding("time", v)}
    [] tag = "Timestamp" -> StoreTimestamp(v, type)

Store(parameter, type) ==
  IF parameter.option = {} THEN {Null}
  ELSE UNION {StoreValue(parameter.type.tag, v, type) : v \in parameter.option}

(* The text the ODBC driver makes of a content. *)
Render(held, type, sep) ==
  CASE held.form = "text" -> held.v
    [] held.form = "number" ->
         NumberText(held.v, IF type.scale = 0 THEN "none" ELSE sep)
    [] held.form = "zoned" ->
         DateTimeText(held.v.at + held.v.offset, held.v.offset, "sql")
    [] held.form = "bytes" -> UuidGuidToString(held.v)

-----------------------------------------------------------------------------
(* Fetching. *)

FetchValue(held, type, sep) ==
  IF held.form = "null" THEN NullKind ELSE
  CASE type.tag \in {"TinyInt", "SmallInt", "Integer", "BigInt"} ->
         Kind(type.tag, held.v \div 2)
    [] type.tag \in {"Bit", "Real", "Date", "Time", "Timestamp"} ->
         Kind(type.tag, held.v)
    [] type.tag \in {"Float", "Double"} -> Kind("Double", held.v)
    [] AcceptsBinaryData(type) -> Kind("Binary", held.v)
    [] IsOther(type, Guid) -> Kind("Guid", held.v)
    [] type.tag \in {"Decimal", "Numeric"} ->
         DecimalKind(Render(held, type, sep), type)
    [] OTHER -> Kind("Text", Render(held, type, sep))

(* Every integer shares one buffer; decimals and what has no buffer of its  *)
(* own share the text buffer.                                              *)
MapBufferDesc(type) ==
  CASE type.tag \in {"TinyInt", "SmallInt", "Integer", "BigInt"} -> "I64"
    [] type.tag = "Real" -> "F32"
    [] type.tag \in {"Float", "Double"} -> "F64"
    [] type.tag \in {"Bit", "Date", "Time", "Timestamp"} -> type.tag
    [] AcceptsBinaryData(type) -> "Binary"
    [] type.tag \in {"WChar", "WVarchar", "WLongVarchar"} -> "WText"
    [] OTHER -> "Text"

BufferKind ==
  [I64 |-> "BigInt", F32 |-> "Real", F64 |-> "Double", Bit |-> "Bit",
   Date |-> "Date", Time |-> "Time", Timestamp |-> "Timestamp",
   Binary |-> "Binary", WText |-> "Text", Text |-> "Text"]

(* A text or byte string longer than its buffer loses its end: a number its *)
(* fraction, or its last digit.  What a driver refuses to cut is taken to    *)
(* fit.                                                                     *)
NeverCut(type) ==
  \/ IsOther(type, Guid) \/ IsOther(type, DateTimeOffset)
  \/ type.tag \in {"Decimal", "Numeric"} /\ type.scale = 0

Cut(v) ==
  CASE v.of = "number" /\ v.sep # "none" ->
         NumberText(IF v.n < 0 THEN v.n + (v.n % 2) ELSE v.n - (v.n % 2), "none")
    [] v.of = "number" /\ v.sep = "none" /\ v.n >= 20 ->
         NumberText(2 * (v.n \div 20), "none")
    [] OTHER -> TextOf("cut", v)

Kept(v, type, whole) == IF whole \/ NeverCut(type) THEN v ELSE Cut(v)

(* String::from_utf8_lossy on a narrow buffer: in another code page than     *)
(* UTF-8 the characters beyond ASCII are lost.                              *)
Lost == 0

Narrow(text, lossless) ==
  IF lossless \/ text \notin NonAscii THEN text ELSE TextOf(text.of, Lost)

(* Mutant: a buffered fetch that leaves decimals text. *)
BufferedValueAsText(held, type, sep, whole, lossless) ==
  LET desc == MapBufferDesc(type) IN
  IF held.form = "null" THEN NullKind ELSE
  CASE desc = "I64" -> Kind("BigInt", held.v \div 2)
    [] desc \in {"Text", "WText"} ->
         LET text == Render(held, type, sep)
         IN  Kind("Text", Kept(Narrow(text, lossless \/ desc = "WText"), type, whole))
    [] desc = "Binary" -> Kind("Binary", Kept(held.v, type, whole))
    [] OTHER -> Kind(BufferKind[desc], held.v)

BufferedValue(held, type, sep, whole, lossless) ==
  LET desc    == MapBufferDesc(type)
      decimal == type.tag \in {"Decimal", "Numeric"}
  IN
  IF held.form = "null" THEN NullKind ELSE
  CASE desc = "I64" -> Kind("BigInt", held.v \div 2)
    [] desc = "Text" /\ decimal ->
         DecimalKind(Kept(Render(held, type, sep), type, whole), type)
    [] desc = "Text" /\ ~decimal ->
         Kind("Text", Kept(Narrow(Render(held, type, sep), lossless), type, whole))
    [] desc = "WText" -> Kind("Text", Kept(Render(held, type, sep), type, whole))
    [] desc = "Binary" -> Kind("Binary", Kept(held.v, type, whole))
    [] OTHER -> Kind(BufferKind[desc], held.v)

-----------------------------------------------------------------------------
(* The Any driver: the kind a type is mapped to, and what sqlx-core decodes a *)
(* fetched value as, by the type of the value.                              *)

(* Mutant: every integer is an Integer. *)
AnyKindOneInteger(type) ==
  CASE type.tag = "Bit" -> "Bool"
    [] type.tag \in IntegerKinds -> "Integer"
    [] type.tag = "Real" -> "Real"
    [] type.tag \in {"Float", "Double"} -> "Double"
    [] AcceptsBinaryData(type) -> "Blob"
    [] OTHER -> "Text"

AnyKind(type) ==
  CASE type.tag = "Bit" -> "Bool"
    [] type.tag \in {"TinyInt", "SmallInt"} -> "SmallInt"
    [] type.tag \in {"Integer", "BigInt", "Real"} -> type.tag
    [] type.tag \in {"Float", "Double"} -> "Double"
    [] AcceptsBinaryData(type) -> "Blob"
    [] OTHER -> "Text"

AnyRust ==
  [Bool |-> "bool", SmallInt |-> "i16", Integer |-> "i32", BigInt |-> "i64",
   Real |-> "f32", Double |-> "f64", Blob |-> "Vec<u8>", Text |-> "String"]

AnyValue(value) == Decode(AnyRust[AnyKind(KindType(value))], value)

-----------------------------------------------------------------------------
(* The steps. *)

YearFits(year) == Wrap16(year) = year

(* The values of a Rust type in the instance. *)
ValuesOf(type) ==
  CASE type \in IntegerTypes -> {n \div 2 : n \in NumbersIn(IntegerRange(type))}
    [] type = "bool" -> BOOLEAN
    [] type = "f32" -> SomeNumbers \cap F32s
    [] type = "f64" -> SomeNumbers \cap F64s
    [] type = "Decimal" -> SomeNumbers \cap Decimals
    [] type = "BigDecimal" -> SomeNumbers
    [] type = "String" -> SomeTexts
    [] type = "Json" -> {t \in SomeTexts : t.of \in {"json", "bool"}}
    [] type = "Vec<u8>" -> SomeBytes
    [] type = "Uuid" -> SomeUuids
    [] type = "Geometry" -> {1}
    [] type = "NaiveDate" -> SomeDates
    [] type \in {"time::Date", "sys::Date"} -> {d \in SomeDates : YearFits(d \div 10)}
    [] type \in ClockTypes -> SomeTimes
    [] type = "sys::Time" -> {t \in SomeTimes : t % SecondUnits = 0}
    [] type = "NaiveDateTime" -> SomeDateTimes
    [] type = "PrimitiveDateTime" ->
         {l \in SomeDateTimes : YearFits(l \div YearUnits)}
    [] type = "sys::Timestamp" ->
         {l \in SomeDateTimes : YearFits(l \div YearUnits) /\ l % MicroUnits = 0}
    [] type = "DateTime<Utc>" -> {z \in SomeZoned : z.offset = 0}
    [] type = "DateTime<Local>" -> {z \in SomeZoned : z.offset = LocalOffset}
    [] type \in {"DateTime<FixedOffset>", "OffsetDateTime"} -> SomeZoned

ValuesInit ==
  /\ stage = "empty"
  /\ column \in Columns
  /\ separator \in Separators
  /\ fits \in BOOLEAN
  /\ utf8 \in BOOLEAN
  /\ bound = None
  /\ content = Null
  /\ kinds = [mode \in Modes |-> NullKind]
  /\ reading = None
  /\ results = <<>>

(* An optional value goes into a column of its type; it is rejected by its  *)
(* encoding or refused by the server.                                       *)
Bind(type, option) ==
  /\ stage = "empty"
  /\ Name(column) = Name(TypeInfo(type))
  /\ LET stored == UNION {Store(parameter, column) : parameter \in Send(type, option)}
     IN  IF stored = {}
         THEN stage' = "refused" /\ UNCHANGED content
         ELSE stage' = "stored" /\ content' \in stored
  /\ bound' = [type |-> type, option |-> option]
  /\ UNCHANGED <<column, separator, fits, utf8, kinds, reading, results>>

(* A column may hold what another client has put into it. *)
Find ==
  /\ stage = "empty"
  /\ stage' = "stored"
  /\ content' \in Contents(column)
  /\ UNCHANGED <<column, separator, fits, utf8, bound, kinds, reading, results>>

Fetch ==
  /\ stage = "stored"
  /\ stage' = "fetched"
  /\ kinds' = [unbuffered |-> FetchValue(content, column, separator),
               buffered |-> BufferedValue(content, column, separator, fits, utf8)]
  /\ UNCHANGED <<column, separator, fits, utf8, bound, content, reading, results>>

Outcome(outcome, values) == [outcome |-> outcome, values |-> values]

(* sqlx-core's Row::try_get: NULL is not checked, and the type asked about   *)
(* is that of the value, not of the column.                                 *)
TryGet(type, checked, value) ==
  IF value.kind = "Null" THEN Outcome("null", {})
  ELSE IF checked /\ ~Compatible(type, KindType(value))
       THEN Outcome("mismatch", {})
  ELSE LET decoded == Decode(type, value)
       IN  Outcome(IF decoded = {} THEN "error" ELSE "value", decoded)

Read(type, checked) ==
  /\ stage = "fetched"
  /\ stage' = "read"
  /\ reading' = [type |-> type, checked |-> checked]
  /\ results' = [mode \in Modes |-> TryGet(type, checked, kinds[mode])]
  /\ UNCHANGED <<column, separator, fits, utf8, bound, content, kinds>>

ValuesNext ==
  \/ \E type \in RustTypes : Bind(type, {})
  \/ \E type \in RustTypes : \E v \in ValuesOf(type) : Bind(type, {v})
  \/ Find
  \/ Fetch
  \/ \E type \in RustTypes, checked \in BOOLEAN : Read(type, checked)

ValuesSpec == ValuesInit /\ [][ValuesNext]_valueVars

-----------------------------------------------------------------------------
(* Properties. *)

Got(mode) == results[mode].values

(* A narrow buffer loses no character of what the column holds. *)
Lossless ==
  utf8 \/ ~(content.form = "text" /\ content.v \in NonAscii
             /\ MapBufferDesc(column) = "Text")

(* A buffered fetch may cut texts, bytes and the fractions of decimals, and  *)
(* lose characters.                                                        *)
Whole(mode) == mode = "unbuffered" \/ (fits /\ Lossless)

Rounded(type, v) ==
  CASE type \in ClockTypes -> v - (v % SecondUnits)
    [] type \in NaiveTypes -> v - (v % MicroUnits)
    [] OTHER -> v

(* What two values of a type are compared by. *)
Meaning(type, values) ==
  IF type \in ZonedTypes THEN {v.at : v \in values} ELSE values

(* What a Rust type may tell of a number: the number, or for a type that has *)
(* not all of them, one next to it.                                        *)
Tells(type, n, got) ==
  CASE type \in IntegerTypes -> 2 * got = n
    [] type = "f32" -> Nearby(F32s, n, got)
    [] type = "f64" -> Nearby(F64s, n, got)
    [] type = "Decimal" ->
         /\ Finite(got)
         /\ Nearby(IF column.tag \in {"Real", "Float", "Double"}
                   THEN FloatDecimals ELSE Decimals, n, got)
    [] type = "BigDecimal" -> got = n
    [] type = "bool" -> got = (n # 0)
    [] OTHER -> TRUE

(* Types whose round trip the code gives up or breaks; see the README. *)
Exempt == {"bool", "Uuid", "DateTime<Local>"}

YearKept(type, v) ==
  CASE type \in DateTypes -> YearFits(v \div 10)
    [] type \in NaiveTypes -> YearFits(v \div YearUnits)
    [] OTHER -> TRUE

RoundTrips ==
  /\ stage = "read"
  /\ reading.type = bound.type
  /\ bound.type \notin Exempt
  /\ \A v \in bound.option : YearKept(bound.type, v)
  /\ bound.type = "BigDecimal" => separator = "."

(***************************************************************************)
(* Whatever a client reads is an outcome of the four kinds, an integer      *)
(* kind fits its buffer, and what is read as an integer type is one of its  *)
(* values.                                                                  *)
(***************************************************************************)
ValuesTypeOK ==
  /\ stage \in {"empty", "stored", "refused", "fetched", "read"}
  /\ column \in Columns
  /\ separator \in Separators
  /\ \A mode \in Modes :
       kinds[mode].kind \in IntegerKinds => kinds[mode].v \in Signed(64)
  /\ stage = "read" =>
       \A mode \in Modes :
         /\ results[mode].outcome \in {"value", "null", "mismatch", "error"}
         /\ Cardinality(Got(mode)) = IF results[mode].outcome = "value" THEN 1 ELSE 0
         /\ reading.type \in IntegerTypes => Got(mode) \subseteq IntegerRange(reading.type)

(***************************************************************************)
(* What a program binds into a column of the value's own type it reads back *)
(* from it, in both modes and with the check of compatibility: the same     *)
(* value, to the second for times and to the microsecond for timestamps,    *)
(* or NULL for NULL (the Encode, Type and Decode of one Rust type, which     *)
(* are written apart and meet only through the kinds the fetch produces).   *)
(* Not so for what max_column_size cuts or a narrow buffer loses.           *)
(***************************************************************************)
ReadsBackWhatItBound ==
  RoundTrips =>
    \A mode \in {m \in Modes : Whole(m)} :
      /\ results[mode].outcome = IF bound.option = {} THEN "null" ELSE "value"
      /\ Meaning(bound.type, Got(mode)) =
           Meaning(bound.type, {Rounded(bound.type, v) : v \in bound.option})

(***************************************************************************)
(* A read that succeeds tells the truth, whatever Rust type is asked for    *)
(* and even unchecked.  An integer type gets the number itself, never cut,  *)
(* wrapped or rounded, and so does a Decimal of an integer and a BigDecimal  *)
(* of anything; a boolean is whether the number is not zero.  An f32, f64   *)
(* or Decimal is the number if the type has it, else one next to it, though  *)
(* an f32 is rounded twice and an integer may come by way of an f64; an f32 *)
(* may overflow to infinity, a Decimal never.  An instant stays the same    *)
(* (as_i64, as_f64, as_bool and the order in which the decoders try them).  *)
(***************************************************************************)
ReadsAreTrue ==
  stage = "read" =>
    \A mode \in {m \in Modes : Whole(m)} : \A got \in Got(mode) :
      /\ content.form = "number" => Tells(reading.type, content.v, got)
      /\ content.form = "text" /\ content.v.of = "number" =>
           Tells(reading.type, content.v.n, got)
      /\ content.form = "zoned" /\ reading.type \in ZonedTypes =>
           got.at = content.v.at

(***************************************************************************)
(* Buffered and row-by-row fetching differ in the kinds they produce but    *)
(* not in what any Rust type makes of them, the refusals included; and where *)
(* max_column_size is too small, only what shares the text or binary buffer  *)
(* differs, so that no number, date or time in a buffer of its own is ever   *)
(* cut.  An integer is the same float as the i64 its buffer makes of it.     *)
(* The exceptions are a UNIQUEIDENTIFIER, which arrives as text, and what a  *)
(* narrow buffer loses of a text beyond ASCII where the client's code page   *)
(* is not UTF-8.                                                           *)
(***************************************************************************)
ModesAgree ==
  stage = "read" /\ ~IsOther(column, Guid) /\ Lossless
      /\ (fits \/ MapBufferDesc(column) \notin {"Text", "WText", "Binary"}) =>
    results["buffered"] = results["unbuffered"]

(***************************************************************************)
(* A row fetched through the Any driver can be made whenever none of its    *)
(* values is a date, time, timestamp or UNIQUEIDENTIFIER (any.rs:239-246     *)
(* maps those to a text they cannot be decoded as), in either mode, and an   *)
(* integer keeps its value whatever kind it is fetched as.                  *)
(***************************************************************************)
AnyRowsAreMade ==
  stage = "fetched" =>
    \A mode \in Modes :
      kinds[mode].kind \notin {"Null", "Date", "Time", "Timestamp", "Guid"} =>
        /\ AnyValue(kinds[mode]) # {}
        /\ column.tag \in IntegerKinds =>
             \A v \in AnyValue(kinds[mode]) : 2 * v = content.v

(***************************************************************************)
(* A column type that went through offline query data has the name, the     *)
(* buffer and the compatible Rust types it had when it was described live.  *)
(***************************************************************************)
OfflineKeepsTypes ==
  LET offline == Deserialize(Serialize(column))
  IN  /\ Name(offline) = Name(column)
      /\ MapBufferDesc(offline) = MapBufferDesc(column)
      /\ \A type \in RustTypes :
           Compatible(type, offline) <=> Compatible(type, column)

(***************************************************************************)
(* Refuted: a BIT column is read as a bool (value.rs tests "decode_bool"    *)
(* with a Bit); Type::compatible of bool asks for a numeric type, which BIT *)
(* is not.                                                                  *)
(***************************************************************************)
BoolReadsBit ==
  stage = "read" /\ column.tag = "Bit" /\ reading.type = "bool" =>
    \A mode \in Modes : results[mode].outcome \in {"value", "null"}

(***************************************************************************)
(* Refuted: the Uuid read from a UNIQUEIDENTIFIER is the one its standard   *)
(* spelling names (uuid_guid_to_string); Uuid's Decode takes the bytes in   *)
(* the order they have on the wire.                                         *)
(***************************************************************************)
UuidIsTheOneSpelled ==
  stage = "read" /\ IsOther(column, Guid) /\ reading.type = "Uuid"
      /\ results["unbuffered"].outcome = "value" =>
    Got("unbuffered") = {UuidGuidToString(content.v).uuid}

=============================================================================
