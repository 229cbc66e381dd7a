---------------------------- MODULE ValueCodecs ----------------------------
(***************************************************************************)
(* How Rust values become ODBC parameters and how fetched values become    *)
(* Rust values again: arguments.rs, value.rs and types/.                   *)
(*                                                                         *)
(* The data are scaled down but keep their arithmetic.  An integer type of *)
(* w bits has Bits[w] of them.  A number that may have a fraction counts    *)
(* halves.  A date is the integer that spells it, 10 * year + day, with a  *)
(* day from 1 to 9.  A date and time counts units, YearUnits to the year,  *)
(* SecondUnits to the second, MicroUnits to the microsecond.  A text or a  *)
(* byte string is a record of what it spells.                              *)
(*                                                                         *)
(* How a number is rounded to an f32, an f64 or a Decimal is a constant:    *)
(* a function whose fixed points are the numbers the type has.  Beyond the  *)
(* largest of them it gives Infinity, which no number reaches.              *)
(*                                                                         *)
(* A partial function returns a set: empty for None or an error, else the  *)
(* one value.                                                              *)
(***************************************************************************)
EXTENDS ColumnTypes

CONSTANTS
  Bits,          \* the scaled width of the integer types
  LocalOffset,   \* the client's time zone, in units
  Infinity,
  ToF32, ToF64,    \* Rust's casts and parsers
  ToDecimal,       \* rust_decimal's Decimal::from_str
  FloatToDecimal   \* rust_decimal's conversion of an f64

YearUnits == 16
SecondUnits == 4
MicroUnits == 2

Signed(width) == -(2 ^ (Bits[width] - 1)) .. (2 ^ (Bits[width] - 1) - 1)

Unsigned(width) == 0 .. (2 ^ Bits[width] - 1)

(* Rust's `as i16`. *)
Wrap16(n) ==
  LET half == 2 ^ (Bits[16] - 1) IN ((n + half) % (2 * half)) - half

IsWhole(halves) == halves % 2 = 0

(* The numbers a type has. *)
Fixed(to) == {n \in DOMAIN to : to[n] = n}

F32s == Fixed(ToF32)

F64s == Fixed(ToF64)

Decimals == Fixed(ToDecimal)

FloatDecimals == Fixed(FloatToDecimal)

(* Of these numbers, `got` is n itself or the next one above or below it.    *)
Nearby(numbers, n, got) ==
  /\ got \in numbers
  /\ \A r \in numbers : (n <= r => got <= r) /\ (r <= n => r <= got)

Finite(n) == -Infinity < n /\ n < Infinity

-----------------------------------------------------------------------------
(* Texts.  A number is spelled without a separator or with a fraction after  *)
(* one; a fraction may be all zeros.                                        *)

NumberText(n, sep) == [of |-> "number", n |-> n, sep |-> sep]

SpellNumber(n, sep) == NumberText(n, IF IsWhole(n) THEN "none" ELSE sep)

TextOf(of, v) == [of |-> of, v |-> v]

BoolText(truth) == [of |-> "bool", truth |-> truth]

UuidText(uuid) == [of |-> "uuid", uuid |-> uuid]

Utf8Bytes(text) == [of |-> "utf8", text |-> text]

DateTimeText(local, offset, style) ==
  [of |-> "datetime", local |-> local, offset |-> offset, style |-> style]

(* Decimal separators of the client's locale are replaced. *)
NormalizeDecimal(text) ==
  IF text.of = "number" /\ text.sep = "," THEN [text EXCEPT !.sep = "."]
                                          ELSE text

ParseInteger(text) ==
  IF text.of = "number" /\ text.sep # "," /\ IsWhole(text.n)
     /\ text.n \div 2 \in Signed(64)
  THEN {text.n \div 2} ELSE {}

(* The number a text spells: nothing is rounded yet. *)
ParseNumber(text) ==
  IF text.of = "number" /\ text.sep # "," THEN {text.n} ELSE {}

ParseFloat(text) == {ToF64[n] : n \in ParseNumber(text)}

(* Decimal::from_str fails beyond the largest Decimal. *)
ParseDecimal(text) == {d \in {ToDecimal[n] : n \in ParseNumber(text)} : Finite(d)}

ParseBool(text) ==
  IF text.of = "bool" THEN {text.truth} ELSE {n # 0 : n \in ParseFloat(text)}

-----------------------------------------------------------------------------
(* Fetched values.  A kind carries its value; a decimal carries its text.   *)

NullKind == [kind |-> "Null"]

Kind(kind, v) == [kind |-> kind, v |-> v]

DecimalKind(text, type) ==
  [kind |-> "Decimal", v |-> text, precision |-> type.precision,
   scale |-> type.scale]

IntegerKinds == {"TinyInt", "SmallInt", "Integer", "BigInt"}

(* Mutant: a type_info that reports decimals as text. *)
KindTypeDecimalAsText(value) ==
  CASE value.kind = "Null" -> Simple("Unknown")
    [] value.kind \in {"Text", "Decimal"} -> Sized("WVarchar", 0)
    [] value.kind = "Binary" -> Sized("Varbinary", 0)
    [] value.kind = "Guid" -> Other(Guid, 0, 0)
    [] value.kind = "Time" -> Precise("Time", 0)
    [] value.kind = "Timestamp" -> Precise("Timestamp", 6)
    [] OTHER -> Simple(value.kind)

KindType(value) ==
  CASE value.kind = "Null" -> Simple("Unknown")
    [] value.kind = "Text" -> Sized("WVarchar", 0)
    [] value.kind = "Decimal" -> Exact("Decimal", value.precision, value.scale)
    [] value.kind = "Binary" -> Sized("Varbinary", 0)
    [] value.kind = "Guid" -> Other(Guid, 0, 0)
    [] value.kind = "Time" -> Precise("Time", 0)
    [] value.kind = "Timestamp" -> Precise("Timestamp", 6)
    [] OTHER -> Simple(value.kind)

AsI64(value) ==
  CASE value.kind \in IntegerKinds -> {value.v}
    [] value.kind = "Text" -> ParseInteger(value.v)
    [] value.kind = "Decimal" -> ParseInteger(NormalizeDecimal(value.v))
    [] OTHER -> {}

(* The cast of an i64 rounds; the smaller integers are f64s. *)
AsF64(value) ==
  CASE value.kind \in {"Real", "Double"} -> {value.v}
    [] value.kind \in IntegerKinds \ {"BigInt"} -> {2 * value.v}
    [] value.kind = "BigInt" -> {ToF64[2 * value.v]}
    [] value.kind = "Text" -> ParseFloat(value.v)
    [] value.kind = "Decimal" -> ParseFloat(NormalizeDecimal(value.v))
    [] OTHER -> {}

AsStr(value) == IF value.kind \in {"Text", "Decimal"} THEN {value.v} ELSE {}

AsBytes(value) ==
  CASE value.kind \in {"Binary", "Guid"} -> {value.v}
    [] value.kind \in {"Text", "Decimal"} -> {Utf8Bytes(value.v)}
    [] OTHER -> {}

AsBool(value) ==
  CASE value.kind = "Bit" -> {value.v}
    [] value.kind \in IntegerKinds \cup {"Real", "Double"} -> {value.v # 0}
    [] value.kind = "Text" -> ParseBool(value.v)
    [] value.kind = "Decimal" -> ParseBool(NormalizeDecimal(value.v))
    [] OTHER -> {}

Utf8(bytes) == IF bytes.of = "utf8" THEN {bytes.text} ELSE {}

(* The bytes of a UUID: `wire` is the order in which SQL Server keeps them, *)
(* with the first three fields reversed.                                    *)
UuidBytes(id, wire) == [of |-> "uuid", id |-> id, wire |-> wire]

(* The standard spelling of the bytes of a GUID. *)
UuidGuidToString(bytes) == UuidText(UuidBytes(bytes.id, ~bytes.wire))

-----------------------------------------------------------------------------
(* Integers, booleans and floats. *)

IntegerTypeInfo ==
  [i8 |-> "TinyInt", i16 |-> "SmallInt", i32 |-> "Integer", i64 |-> "BigInt",
   u8 |-> "TinyInt", u16 |-> "SmallInt", u32 |-> "Integer", u64 |-> "BigInt"]

IntegerTypes == DOMAIN IntegerTypeInfo

FloatTypes == {"f32", "f64"}

IntegerRange(type) ==
  CASE type = "i8" -> Signed(8)   [] type = "u8" -> Unsigned(8)
    [] type = "i16" -> Signed(16) [] type = "u16" -> Unsigned(16)
    [] type = "i32" -> Signed(32) [] type = "u32" -> Unsigned(32)
    [] type = "i64" -> Signed(64) [] type = "u64" -> Unsigned(64)

IntegerCompatible(column) == AcceptsNumericData(column)

(* A u64 above i64::MAX is refused; the other types always fit. *)
IntegerEncode(v) == IF v \in Signed(64) THEN {Kind("Int", v)} ELSE {}

(* Mutant: a decoding that trusts the column to fit the Rust type. *)
IntegerDecodeUnchecked(type, value) == AsI64(value)

IntegerDecode(type, value) == AsI64(value) \cap IntegerRange(type)

BoolCompatible(column) == AcceptsNumericData(column)

BoolEncode(v) == Kind("Bit", v)

BoolDecode(value) == AsBool(value)

FloatCompatible(column) == AcceptsNumericData(column)

FloatEncode(v) == Kind("Float", v)

(* An f32 is rounded twice. *)
FloatDecode(type, value) ==
  IF type = "f32" THEN {ToF32[n] : n \in AsF64(value)} ELSE AsF64(value)

-----------------------------------------------------------------------------
(* Text and bytes. *)

StringCompatible(column) ==
  \/ AcceptsCharacterData(column)
  \/ \E code \in {Variant, Udt, Xml, HierarchyId} : IsOther(column, code)

StringEncode(text) == Kind("Text", text)

StringDecode(value) ==
  IF AsStr(value) # {} THEN AsStr(value)
  ELSE UNION {Utf8(bytes) : bytes \in AsBytes(value)}

BytesCompatible(column) ==
  AcceptsBinaryData(column) \/ AcceptsCharacterData(column)

BytesEncode(bytes) == Kind("Bytes", bytes)

BytesDecode(value) == AsBytes(value)

-----------------------------------------------------------------------------
(* The dates and times of ODBC itself. *)

SysTag(type) ==
  CASE type = "sys::Date" -> "Date"
    [] type = "sys::Time" -> "Time"
    [] type = "sys::Timestamp" -> "Timestamp"

SysTypes == {"sys::Date", "sys::Time", "sys::Timestamp"}

SysCompatible(type, column) == column.tag = SysTag(type)

SysEncode(type, v) == Kind(SysTag(type), v)

SysDecode(type, value) == IF value.kind = SysTag(type) THEN {value.v} ELSE {}

-----------------------------------------------------------------------------
(* The types of types/uuid.rs, geo.rs and json.rs. *)

UuidCompatible(column) == IsOther(column, Guid)

UuidEncode(uuid) == Kind("Text", UuidText(uuid))

(* Sixteen bytes are taken in the order they have. *)
UuidDecode(value) ==
  LET texts == UNION {Utf8(bytes) : bytes \in AsBytes(value)}
  IN  {bytes \in AsBytes(value) : bytes.of = "uuid"}
        \cup {text.uuid : text \in {t \in texts : t.of = "uuid"}}

GeometryCompatible(column) == IsOther(column, Udt) \/ AcceptsBinaryData(column)

GeometryEncode(geometry) == Kind("Bytes", TextOf("wkb", geometry))

GeometryDecode(value) ==
  {bytes.v : bytes \in {b \in AsBytes(value) : b.of = "wkb"}}

JsonCompatible(column) == AcceptsCharacterData(column)

JsonEncode(json) == Kind("Text", json)

(* serde_json reads an integer exactly if it fits 64 bits, any other number  *)
(* as an f64.                                                              *)
ParseJsonNumber(text) ==
  IF text.sep = "none" /\ IsWhole(text.n)
     /\ text.n \div 2 \in Signed(64) \cup Unsigned(64)
  THEN {text.n} ELSE {n \in ParseFloat(text) : Finite(n)}

(* The JSON value a text spells: a document, a number or a boolean. *)
ParseJson(text) ==
  CASE text.of \in {"json", "bool"} -> {text}
    [] text.of = "number" -> {TextOf("number", n) : n \in ParseJsonNumber(text)}
    [] OTHER -> {}

JsonDecode(value) ==
  IF AsBytes(value) # {}
  THEN LET texts == UNION {Utf8(bytes) : bytes \in AsBytes(value)}
       IN  UNION {ParseJson(text) : text \in texts}
  ELSE IF AsI64(value) # {} THEN {TextOf("number", 2 * i) : i \in AsI64(value)}
  ELSE {TextOf("number", n) : n \in AsF64(value)}

-----------------------------------------------------------------------------
(* Decimals.  rust_decimal and bigdecimal differ in the separators they take *)
(* and in what they round.                                                 *)

DecimalCompatible(column) ==
  column.tag \in {"Numeric", "Decimal", "Double", "Float"}

DecimalEncode(n) == Kind("Text", SpellNumber(n, "."))

(* Mutant: integers go through a float as well. *)
DecimalDecodeByFloat(value) ==
  IF AsBytes(value) # {}
  THEN LET texts == UNION {Utf8(bytes) : bytes \in AsBytes(value)}
       IN  UNION {ParseDecimal(NormalizeDecimal(text)) : text \in texts}
  ELSE {d \in {FloatToDecimal[n] : n \in AsF64(value)} : Finite(d)}

(* A text, else an integer, else a float. *)
DecimalDecode(value) ==
  IF AsBytes(value) # {}
  THEN LET texts == UNION {Utf8(bytes) : bytes \in AsBytes(value)}
       IN  UNION {ParseDecimal(NormalizeDecimal(text)) : text \in texts}
  ELSE IF AsI64(value) # {} THEN {2 * i : i \in AsI64(value)}
  ELSE {d \in {FloatToDecimal[n] : n \in AsF64(value)} : Finite(d)}

BigDecimalDecode(value) ==
  IF AsBytes(value) # {}
  THEN LET texts == UNION {Utf8(bytes) : bytes \in AsBytes(value)}
       IN  UNION {ParseNumber(text) : text \in texts}
  ELSE IF AsI64(value) # {} THEN {2 * i : i \in AsI64(value)}
  ELSE {n \in AsF64(value) : Finite(n)}

-----------------------------------------------------------------------------
(* Parameters: the SQL type a value is sent as, and the value unless it is   *)
(* NULL.  A NULL is sent as the type of its Rust type.                      *)

Parameter(type, option) == [type |-> type, option |-> option]

ValueToParameter(argument) ==
  Parameter(
    CASE argument.kind = "Text" -> Sized("WVarchar", 0)
      [] argument.kind = "Bytes" -> Sized("Varbinary", 0)
      [] argument.kind = "Int" -> Simple("BigInt")
      [] argument.kind = "Float" -> Simple("Double")
      [] argument.kind \in {"Bit", "Date"} -> Simple(argument.kind)
      [] argument.kind = "Time" -> Precise("Time", 0)
      [] argument.kind = "Timestamp" -> Precise("Timestamp", 6),
    {argument.v})

NullParameter(type) == Parameter(type, {})

=============================================================================
