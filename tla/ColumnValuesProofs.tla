------------------------- MODULE ColumnValuesProofs -------------------------
(***************************************************************************)
(* Proofs about ColumnValues, for every set of columns, numbers, texts,    *)
(* dates and moments, and for integers of any width: what the codecs and   *)
(* both fetch modes make of a value depends only on what its column may    *)
(* hold, so the invariant ties the content to the column's type, the       *)
(* fetched kinds to the content and the results to the kinds.              *)
(*                                                                         *)
(* The operators of the model choose between many types by CASE.  Lemmas   *)
(* named ...Is say once which arm each type has.                           *)
(***************************************************************************)
EXTENDS ColumnValues, FiniteSetTheorems, TLAPS

(* Column types: their names, groups and serialized forms.                  *)

(* No name stands for types of two groups.                                  *)
LEMMA NamesDiffer ==
  /\ \A name \in DOMAIN NamedPlain :
       /\ name \notin DOMAIN NamedSized /\ name \notin DOMAIN NamedPrecise
       /\ name \notin DOMAIN NamedExact /\ name \notin DOMAIN NamedCode
       /\ name # "OTHER"
  /\ \A name \in DOMAIN NamedSized :
       /\ name \notin DOMAIN NamedPrecise /\ name \notin DOMAIN NamedExact
       /\ name \notin DOMAIN NamedCode /\ name # "OTHER"
  /\ \A name \in DOMAIN NamedPrecise :
       /\ name \notin DOMAIN NamedExact /\ name \notin DOMAIN NamedCode
       /\ name # "OTHER"
  /\ \A name \in DOMAIN NamedExact :
       name \notin DOMAIN NamedCode /\ name # "OTHER"
  /\ "OTHER" \notin DOMAIN NamedCode
BY DEF NamedPlain, NamedSized, NamedPrecise, NamedExact, NamedCode

SameGroups(one, other) ==
  /\ one.tag = other.tag
  /\ one.tag = "Other" => one.sql_data_type = other.sql_data_type

(* Offline query data give back the tag of a type, and its code where it has *)
(* one.                                                                     *)
LEMMA RestoredType ==
  ASSUME NEW type \in DataTypes
  PROVE  SameGroups(type, Deserialize(Serialize(type)))
<1>. DEFINE data == Serialize(type)
            name == Name(type)
<1>1. data.type_name = name
  BY DEF Serialize
<1>2. CASE type \in [tag : PlainTags]
  <2>1. name \in DOMAIN NamedPlain /\ NamedPlain[name] = type.tag
    BY <1>2 DEF PlainTags, Name, TagNames, NamedPlain
  <2>. HIDE DEF data, name
  <2>2. Deserialize(data) = Simple(type.tag)
    BY <2>1, <1>1, NamesDiffer DEF Deserialize
  <2>. QED  BY <2>2, <1>2 DEF SameGroups, Simple, PlainTags, data
<1>3. CASE type \in [tag : SizedTags, length : Nat]
  <2>1. name \in DOMAIN NamedSized /\ NamedSized[name] = type.tag
    BY <1>3 DEF SizedTags, Name, TagNames, NamedSized
  <2>. HIDE DEF data, name
  <2>2. Deserialize(data) = Sized(type.tag, Field(data, "length"))
    BY <2>1, <1>1, NamesDiffer DEF Deserialize
  <2>. QED  BY <2>2, <1>3 DEF SameGroups, Sized, SizedTags, data
<1>4. CASE type \in [tag : PreciseTags, precision : Int]
  <2>1. name \in DOMAIN NamedPrecise /\ NamedPrecise[name] = type.tag
    BY <1>4 DEF PreciseTags, Name, TagNames, NamedPrecise
  <2>. HIDE DEF data, name
  <2>2. Deserialize(data) = Precise(type.tag, Field(data, "precision"))
    BY <2>1, <1>1, NamesDiffer DEF Deserialize
  <2>. QED  BY <2>2, <1>4 DEF SameGroups, Precise, PreciseTags, data
<1>5. CASE type \in [tag : ExactTags, precision : Nat, scale : Int]
  <2>1. name \in DOMAIN NamedExact /\ NamedExact[name] = type.tag
    BY <1>5 DEF ExactTags, Name, TagNames, NamedExact
  <2>. HIDE DEF data, name
  <2>2. Deserialize(data)
          = Exact(type.tag, Field(data, "precision"), Field(data, "scale"))
    BY <2>1, <1>1, NamesDiffer DEF Deserialize
  <2>. QED  BY <2>2, <1>5 DEF SameGroups, Exact, ExactTags, data
<1>6. CASE type \in [tag : {"Other"}, sql_data_type : Int, column_size : Nat,
                     decimal_digits : Int]
  <2>. DEFINE code == type.sql_data_type
              Known == {Guid, Variant, Udt, Xml, DateTimeOffset, HierarchyId}
  <2>1. type.tag = "Other" /\ code \in Int /\ name = CodeName(code)
    BY <1>6 DEF Name
  <2>2. CASE code \in Known
    <3>1. name \in DOMAIN NamedCode /\ NamedCode[name] = code
      BY <2>1, <2>2 DEF CodeName, NamedCode, Guid, Variant, Udt, Xml,
           DateTimeOffset, HierarchyId
    <3>. HIDE DEF data, name
    <3>2. Deserialize(data) = Other(code, 0, 0)
      BY <3>1, <1>1, NamesDiffer DEF Deserialize
    <3>. QED  BY <3>2, <2>1 DEF SameGroups, Other, data
  <2>3. CASE code \notin Known
    <3>1. name = "OTHER"
      BY <2>1, <2>3 DEF CodeName
    <3>2. Field(data, "sql_data_type") = code
      <4>1. DOMAIN type = {"tag", "sql_data_type", "column_size", "decimal_digits"}
        BY <1>6
      <4>2. type["sql_data_type"] = code
        BY <1>6
      <4>3. "sql_data_type" \in {"type_name"} \cup WrittenFields(type)
        BY <4>1, <2>1 DEF WrittenFields
      <4>. QED  BY <4>2, <4>3 DEF Serialize, Field
    <3>. HIDE DEF data, name
    <3>3. Deserialize(data) = Other(code, Field(data, "column_size"),
                                    Field(data, "decimal_digits"))
      BY <3>1, <3>2, <1>1, NamesDiffer DEF Deserialize
    <3>. QED  BY <3>3, <2>1 DEF SameGroups, Other, data
  <2>. QED  BY <2>2, <2>3
<1>. QED  BY <1>2, <1>3, <1>4, <1>5, <1>6 DEF DataTypes

(* The arm of Compatible each Rust type has.                                *)
LEMMA CompatibleIs ==
  ASSUME NEW info
  PROVE
  /\ \A type \in IntegerTypes : Compatible(type, info) = IntegerCompatible(info)
  /\ Compatible("bool", info) = BoolCompatible(info)
  /\ \A type \in FloatTypes : Compatible(type, info) = FloatCompatible(info)
  /\ Compatible("String", info) = StringCompatible(info)
  /\ Compatible("Vec<u8>", info) = BytesCompatible(info)
  /\ \A type \in SysTypes : Compatible(type, info) = SysCompatible(type, info)
  /\ Compatible("Uuid", info) = UuidCompatible(info)
  /\ Compatible("Geometry", info) = GeometryCompatible(info)
  /\ Compatible("Json", info) = JsonCompatible(info)
  /\ \A type \in {"Decimal", "BigDecimal"} :
       Compatible(type, info) = DecimalCompatible(info)
  /\ \A type \in DateTypes : Compatible(type, info) = DateCompatible(info)
  /\ \A type \in ClockTypes : Compatible(type, info) = ClockCompatible(info)
  /\ \A type \in NaiveTypes : Compatible(type, info) = NaiveCompatible(info)
  /\ Compatible("OffsetDateTime", info) = OffsetDateTimeCompatible(info)
  /\ \A type \in ZonedTypes \ {"OffsetDateTime"} :
       Compatible(type, info) = ZonedCompatible(info)
BY DEF Compatible, IntegerTypes, IntegerTypeInfo, FloatTypes, SysTypes,
       DateTypes, ClockTypes, NaiveTypes, ZonedTypes

(* The groups of a type depend on its tag and its code only.                *)
LEMMA GroupsKept ==
  ASSUME NEW one, NEW other, SameGroups(one, other)
  PROVE  /\ \A code : IsOther(one, code) <=> IsOther(other, code)
         /\ AcceptsCharacterData(one) <=> AcceptsCharacterData(other)
         /\ AcceptsBinaryData(one) <=> AcceptsBinaryData(other)
         /\ AcceptsNumericData(one) <=> AcceptsNumericData(other)
BY DEF SameGroups, IsOther, AcceptsCharacterData, AcceptsBinaryData,
       AcceptsNumericData

(* So does its compatibility with every Rust type.                          *)
LEMMA CompatibleKept ==
  ASSUME NEW one, NEW other, SameGroups(one, other), NEW type \in RustTypes
  PROVE  Compatible(type, one) <=> Compatible(type, other)
<1>. USE GroupsKept
<1>1. IntegerCompatible(one) <=> IntegerCompatible(other)
  BY DEF IntegerCompatible
<1>2. BoolCompatible(one) <=> BoolCompatible(other)
  BY DEF BoolCompatible
<1>3. FloatCompatible(one) <=> FloatCompatible(other)
  BY DEF FloatCompatible
<1>4. StringCompatible(one) <=> StringCompatible(other)
  BY DEF StringCompatible
<1>5. BytesCompatible(one) <=> BytesCompatible(other)
  BY DEF BytesCompatible
<1>6. SysCompatible(type, one) <=> SysCompatible(type, other)
  BY DEF SysCompatible, SameGroups
<1>7. UuidCompatible(one) <=> UuidCompatible(other)
  BY DEF UuidCompatible
<1>8. GeometryCompatible(one) <=> GeometryCompatible(other)
  BY DEF GeometryCompatible
<1>9. JsonCompatible(one) <=> JsonCompatible(other)
  BY DEF JsonCompatible
<1>10. DecimalCompatible(one) <=> DecimalCompatible(other)
  BY DEF DecimalCompatible, SameGroups
<1>11. DateCompatible(one) <=> DateCompatible(other)
  BY DEF DateCompatible, SameGroups
<1>12. ClockCompatible(one) <=> ClockCompatible(other)
  BY DEF ClockCompatible, SameGroups
<1>13. NaiveCompatible(one) <=> NaiveCompatible(other)
  BY DEF NaiveCompatible, SameGroups
<1>14. OffsetDateTimeCompatible(one) <=> OffsetDateTimeCompatible(other)
  BY DEF OffsetDateTimeCompatible, SameGroups
<1>15. ZonedCompatible(one) <=> ZonedCompatible(other)
  BY <1>13 DEF ZonedCompatible
<1>. QED
  BY <1>1, <1>2, <1>3, <1>4, <1>5, <1>6, <1>7, <1>8, <1>9, <1>10, <1>11, <1>12,
       <1>13, <1>14, <1>15, CompatibleIs DEF RustTypes, ChronoTypes, TimeTypes,
       DateTypes, ClockTypes, NaiveTypes, ZonedTypes, SysTypes

(* And so do its name and the buffer it is fetched into.                    *)
LEMMA NamesKept ==
  ASSUME NEW one, NEW other, SameGroups(one, other)
  PROVE  Name(one) = Name(other) /\ MapBufferDesc(one) = MapBufferDesc(other)
<1>1. Name(one) = Name(other)
  BY DEF SameGroups, Name
<1>2. MapBufferDesc(one) = MapBufferDesc(other)
  BY DEF SameGroups, MapBufferDesc, AcceptsBinaryData
<1>. QED BY <1>1, <1>2

KnownCodes == {Guid, Variant, Udt, Xml, DateTimeOffset, HierarchyId}

(* A name tells the tag of a type, or its code where SQL Server names it.   *)
LEMMA NameTells ==
  ASSUME NEW type \in DataTypes
  PROVE  /\ type.tag \in PlainTags \cup SizedTags \cup PreciseTags \cup ExactTags \cup {"Other"}
         /\ type.tag \in PlainTags =>
              Name(type) \in DOMAIN NamedPlain /\ NamedPlain[Name(type)] = type.tag
         /\ type.tag \in SizedTags =>
              Name(type) \in DOMAIN NamedSized /\ NamedSized[Name(type)] = type.tag
         /\ type.tag \in PreciseTags =>
              Name(type) \in DOMAIN NamedPrecise /\ NamedPrecise[Name(type)] = type.tag
         /\ type.tag \in ExactTags =>
              Name(type) \in DOMAIN NamedExact /\ NamedExact[Name(type)] = type.tag
         /\ type.tag = "Other" /\ type.sql_data_type \in KnownCodes =>
              Name(type) \in DOMAIN NamedCode /\ NamedCode[Name(type)] = type.sql_data_type
         /\ type.tag = "Other" /\ type.sql_data_type \notin KnownCodes => Name(type) = "OTHER"
<1>1. type.tag \in PlainTags \cup SizedTags \cup PreciseTags \cup ExactTags \cup {"Other"}
  BY DEF DataTypes
<1>2. type.tag \in PlainTags =>
              Name(type) \in DOMAIN NamedPlain /\ NamedPlain[Name(type)] = type.tag
  BY DEF PlainTags, Name, TagNames, NamedPlain
<1>3. type.tag \in SizedTags =>
              Name(type) \in DOMAIN NamedSized /\ NamedSized[Name(type)] = type.tag
  BY DEF SizedTags, Name, TagNames, NamedSized
<1>4. type.tag \in PreciseTags =>
              Name(type) \in DOMAIN NamedPrecise /\ NamedPrecise[Name(type)] = type.tag
  BY DEF PreciseTags, Name, TagNames, NamedPrecise
<1>5. type.tag \in ExactTags =>
              Name(type) \in DOMAIN NamedExact /\ NamedExact[Name(type)] = type.tag
  BY DEF ExactTags, Name, TagNames, NamedExact
<1>6. type.tag = "Other" /\ type.sql_data_type \in KnownCodes =>
              Name(type) \in DOMAIN NamedCode /\ NamedCode[Name(type)] = type.sql_data_type
  BY DEF Name, CodeName, NamedCode, KnownCodes, Guid, Variant, Udt, Xml,
         DateTimeOffset, HierarchyId
<1>7. type.tag = "Other" /\ type.sql_data_type \notin KnownCodes => Name(type) = "OTHER"
  BY DEF Name, CodeName, KnownCodes
<1>. QED BY <1>1, <1>2, <1>3, <1>4, <1>5, <1>6, <1>7

(* Two types of one name have one tag, and one code where it has a name.    *)
LEMMA NamesTellTypes ==
  ASSUME NEW one \in DataTypes, NEW other \in DataTypes, Name(one) = Name(other)
  PROVE  /\ one.tag = other.tag
         /\ other.tag = "Other" /\ other.sql_data_type \in KnownCodes =>
             SameGroups(one, other)
<1>1. one.tag = other.tag
  BY NameTells, NamesDiffer
<1>2. ASSUME other.tag = "Other", other.sql_data_type \in KnownCodes
      PROVE  SameGroups(one, other)
  BY <1>1, <1>2, NameTells, NamesDiffer DEF SameGroups
<1>. QED BY <1>1, <1>2

-----------------------------------------------------------------------------
(* The Rust types.                                                          *)

(* The arms of TypeInfo.                                                    *)
LEMMA TypeInfoIs ==
  /\ \A type \in IntegerTypes : TypeInfo(type) = Simple(IntegerTypeInfo[type])
  /\ TypeInfo("bool") = Simple("Bit")
  /\ TypeInfo("f32") = Simple("Real")
  /\ TypeInfo("f64") = Simple("Double")
  /\ TypeInfo("String") = Sized("WVarchar", 0)
  /\ TypeInfo("Json") = Sized("Varchar", 0)
  /\ TypeInfo("Vec<u8>") = Sized("Varbinary", 0)
  /\ TypeInfo("Uuid") = Other(Guid, 0, 0)
  /\ TypeInfo("Geometry") = Other(Udt, 0, 0)
  /\ \A type \in {"Decimal", "BigDecimal"} : TypeInfo(type) = Exact("Numeric", 28, 4)
  /\ \A type \in DateTypes \cup {"sys::Date"} : TypeInfo(type) = Simple("Date")
  /\ \A type \in ClockTypes \cup {"sys::Time"} : TypeInfo(type) = Precise("Time", 0)
  /\ \A type \in NaiveTypes \cup {"sys::Timestamp"} :
       TypeInfo(type) = Precise("Timestamp", 0)
  /\ \A type \in ZonedTypes : TypeInfo(type) = Other(DateTimeOffset, 0, 0)
BY DEF TypeInfo, IntegerTypes, IntegerTypeInfo, DateTypes, ClockTypes, NaiveTypes,
     ZonedTypes

(* The arms of Encode.                                                      *)
LEMMA EncodeIs ==
  ASSUME NEW v
  PROVE
  /\ \A type \in IntegerTypes : Encode(type, v) = IntegerEncode(v)
  /\ Encode("bool", v) = {BoolEncode(v)}
  /\ \A type \in FloatTypes : Encode(type, v) = {FloatEncode(v)}
  /\ Encode("String", v) = {StringEncode(v)}
  /\ Encode("Vec<u8>", v) = {BytesEncode(v)}
  /\ \A type \in SysTypes : Encode(type, v) = {SysEncode(type, v)}
  /\ Encode("Uuid", v) = {UuidEncode(v)}
  /\ Encode("Geometry", v) = {GeometryEncode(v)}
  /\ Encode("Json", v) = {JsonEncode(v)}
  /\ \A type \in {"Decimal", "BigDecimal"} : Encode(type, v) = {DecimalEncode(v)}
  /\ Encode("NaiveDate", v) = {EncodeDate(v)}
  /\ Encode("time::Date", v) = {EncodeTimeDate(v)}
  /\ \A type \in ClockTypes : Encode(type, v) = {EncodeTime(v)}
  /\ Encode("NaiveDateTime", v) = {EncodeNaiveDateTime(v)}
  /\ Encode("PrimitiveDateTime", v) = {EncodePrimitive(v)}
  /\ Encode("DateTime<Local>", v) = {EncodeLocal(v)}
  /\ \A type \in ZonedTypes \ {"DateTime<Local>"} : Encode(type, v) = {EncodeZoned(v)}
BY DEF Encode, IntegerTypes, IntegerTypeInfo, FloatTypes, SysTypes, ClockTypes,
     ZonedTypes

(* The arms of Decode; the time crate's dates and times are read as         *)
(* chrono's.                                                                *)
LEMMA DecodeIs ==
  ASSUME NEW value
  PROVE
  /\ \A type \in IntegerTypes : Decode(type, value) = IntegerDecode(type, value)
  /\ Decode("bool", value) = BoolDecode(value)
  /\ \A type \in FloatTypes : Decode(type, value) = FloatDecode(type, value)
  /\ Decode("String", value) = StringDecode(value)
  /\ Decode("Vec<u8>", value) = BytesDecode(value)
  /\ \A type \in SysTypes : Decode(type, value) = SysDecode(type, value)
  /\ Decode("Uuid", value) = UuidDecode(value)
  /\ Decode("Geometry", value) = GeometryDecode(value)
  /\ Decode("Json", value) = JsonDecode(value)
  /\ Decode("Decimal", value) = DecimalDecode(value)
  /\ Decode("BigDecimal", value) = BigDecimalDecode(value)
  /\ \A type \in DateTypes : Decode(type, value) = NaiveDateDecode(value)
  /\ \A type \in ClockTypes : Decode(type, value) = NaiveTimeDecode(value)
  /\ Decode("NaiveDateTime", value) = NaiveDateTimeDecode(value)
  /\ Decode("PrimitiveDateTime", value) = PrimitiveDecode(value)
  /\ Decode("DateTime<Utc>", value) = DateTimeUtcDecode(value)
  /\ Decode("DateTime<FixedOffset>", value) = DateTimeFixedDecode(value)
  /\ Decode("DateTime<Local>", value) = DateTimeLocalDecode(value)
  /\ Decode("OffsetDateTime", value) = OffsetDateTimeDecode(value)
BY DEF Decode, IntegerTypes, IntegerTypeInfo, FloatTypes, SysTypes, DateTypes,
       ClockTypes, TimeDateDecode, TimeTimeDecode

(* The arms of ValuesOf.                                                    *)
LEMMA ValuesOfIs ==
  /\ \A type \in IntegerTypes :
       ValuesOf(type) = {n \div 2 : n \in NumbersIn(IntegerRange(type))}
  /\ ValuesOf("bool") = BOOLEAN
  /\ ValuesOf("f32") = SomeNumbers \cap F32s
  /\ ValuesOf("f64") = SomeNumbers \cap F64s
  /\ ValuesOf("Decimal") = SomeNumbers \cap Decimals
  /\ ValuesOf("BigDecimal") = SomeNumbers
  /\ ValuesOf("String") = SomeTexts
  /\ ValuesOf("Json") = {t \in SomeTexts : t.of \in {"json", "bool"}}
  /\ ValuesOf("NaiveDate") = SomeDates
  /\ \A type \in {"time::Date", "sys::Date"} :
       ValuesOf(type) = {d \in SomeDates : YearFits(d \div 10)}
  /\ \A type \in ClockTypes : ValuesOf(type) = SomeTimes
  /\ ValuesOf("sys::Time") = {t \in SomeTimes : t % SecondUnits = 0}
  /\ ValuesOf("NaiveDateTime") = SomeDateTimes
  /\ ValuesOf("PrimitiveDateTime")
       = {l \in SomeDateTimes : YearFits(l \div YearUnits)}
  /\ ValuesOf("sys::Timestamp") =
       {l \in SomeDateTimes : YearFits(l \div YearUnits) /\ l % MicroUnits = 0}
  /\ \A type \in ZonedTypes : ValuesOf(type) \subseteq SomeZoned
BY DEF ValuesOf, IntegerTypes, IntegerTypeInfo, FloatTypes, ClockTypes, ZonedTypes

-----------------------------------------------------------------------------
(* Rounding.                                                                *)

(* The numbers of a type are among those rounding is told of, and rounding   *)
(* leaves them.                                                             *)
LEMMA FixedIs ==
  ASSUME NEW to, DOMAIN to = Halves
  PROVE  /\ Fixed(to) \subseteq Halves
         /\ \A n \in Fixed(to) : to[n] = n
BY DEF Fixed

(* What rounding gives is a next number.                                    *)
LEMMA RoundsNearby ==
  ASSUME NEW to \in {ToF32, ToF64, ToDecimal, FloatToDecimal}, NEW n \in Halves
  PROVE  Nearby(Fixed(to), n, to[n])
BY RoundingAssumption

(* The casts to f32 and f64 in these terms.                                 *)
LEMMA FloatsRound ==
  /\ Halves \subseteq Int
  /\ F32s \subseteq F64s /\ F64s \subseteq Halves
  /\ \A n \in F32s : ToF32[n] = n
  /\ \A n \in F64s : ToF64[n] = n
  /\ \A n \in Halves : Nearby(F32s, n, ToF32[n]) /\ Nearby(F64s, n, ToF64[n])
<1>1. Halves \subseteq Int
  BY RoundingAssumption
<1>2. F32s \subseteq F64s /\ DOMAIN ToF32 = Halves /\ DOMAIN ToF64 = Halves
  BY RoundingAssumption
<1>3. F64s \subseteq Halves
  BY <1>2, FixedIs DEF F64s
<1>4. \A n \in F32s : ToF32[n] = n
  BY <1>2, FixedIs DEF F32s
<1>5. \A n \in F64s : ToF64[n] = n
  BY <1>2, FixedIs DEF F64s
<1>6. \A n \in Halves : Nearby(F32s, n, ToF32[n])
  BY RoundsNearby DEF F32s
<1>7. \A n \in Halves : Nearby(F64s, n, ToF64[n])
  BY RoundsNearby DEF F64s
<1>. QED BY <1>1, <1>2, <1>3, <1>4, <1>5, <1>6, <1>7

(* And the conversions to Decimal.                                          *)
LEMMA DecimalsRound ==
  /\ \A n \in Decimals : ToDecimal[n] = n
  /\ \A n \in Halves : Nearby(Decimals, n, ToDecimal[n])
  /\ \A n \in Halves : Nearby(FloatDecimals, n, FloatToDecimal[n])
<1>1. DOMAIN ToDecimal = Halves
  BY RoundingAssumption
<1>2. \A n \in Decimals : ToDecimal[n] = n
  BY <1>1, FixedIs DEF Decimals
<1>3. \A n \in Halves : Nearby(Decimals, n, ToDecimal[n])
  BY RoundsNearby DEF Decimals
<1>4. \A n \in Halves : Nearby(FloatDecimals, n, FloatToDecimal[n])
  BY RoundsNearby DEF FloatDecimals
<1>. QED BY <1>2, <1>3, <1>4

(* A number of the type is next to itself.                                  *)
LEMMA NearbyItself ==
  ASSUME NEW numbers, NEW n \in numbers
  PROVE  Nearby(numbers, n, n)
BY DEF Nearby

(* Rounding to an f64 and then to an f32 gives a next f32: every f32 is an   *)
(* f64, so that neither rounding passes one.                                *)
LEMMA RoundedTwice ==
  ASSUME NEW n \in Halves
  PROVE  Nearby(F32s, n, ToF32[ToF64[n]])
<1>. DEFINE m == ToF64[n]
            l == ToF32[m]
<1>1. Nearby(F64s, n, m)
  BY FloatsRound
<1>2. m \in Halves
  BY <1>1, FloatsRound DEF Nearby
<1>. HIDE DEF m
<1>3. Nearby(F32s, m, l)
  BY <1>2, FloatsRound
<1>. HIDE DEF l
<1>4. ASSUME NEW r \in F32s  PROVE (n <= r => l <= r) /\ (r <= n => r <= l)
  <2>1. (n <= r => m <= r) /\ (r <= n => r <= m)
    BY <1>1, FloatsRound DEF Nearby
  <2>2. (m <= r => l <= r) /\ (r <= m => r <= l)
    BY <1>3 DEF Nearby
  <2>. QED  BY <2>1, <2>2
<1>5. l \in F32s
  BY <1>3 DEF Nearby
<1>6. Nearby(F32s, n, l)
  BY <1>4, <1>5 DEF Nearby
<1>. QED  BY <1>6 DEF l, m

(* Rounding to an f64 never makes a zero, nor unmakes one.                  *)
LEMMA RoundedZero ==
  ASSUME NEW n \in Halves
  PROVE  (ToF64[n] # 0) <=> (n # 0)
<1>1. n \in Int /\ ToF64[n] \in Int
  BY FloatsRound DEF Nearby
<1>2. \A r \in {-1, 0, 1} : (n <= r => ToF64[n] <= r) /\ (r <= n => r <= ToF64[n])
  BY FloatsRound, RoundingAssumption DEF Nearby
<1>3. (n <= -1 => ToF64[n] <= -1) /\ (1 <= n => 1 <= ToF64[n])
      /\ (n <= 0 => ToF64[n] <= 0) /\ (0 <= n => 0 <= ToF64[n])
  BY <1>2
<1>. QED  BY <1>1, <1>3

-----------------------------------------------------------------------------
(* What is stored of a bound value.                                         *)

(* A column with the name of a Rust type's own type has its tag and its     *)
(* code.                                                                    *)
LEMMA ColumnTold ==
  ASSUME NEW type \in RustTypes, NEW info \in DataTypes,
         Name(info) = Name(TypeInfo(type))
  PROVE  /\ info.tag = TypeInfo(type).tag
         /\ info.tag = "Other" => info.sql_data_type = TypeInfo(type).sql_data_type
<1>1. /\ TypeInfo(type) \in DataTypes
      /\ TypeInfo(type).tag = "Other" => TypeInfo(type).sql_data_type \in KnownCodes
  <2>1. CASE type \in IntegerTypes
    BY <2>1, TypeInfoIs DEF IntegerTypes, IntegerTypeInfo, Simple, DataTypes,
         PlainTags
  <2>2. CASE type \in {"bool", "f32", "f64"} \cup DateTypes \cup {"sys::Date"}
    BY <2>2, TypeInfoIs DEF Simple, DataTypes, PlainTags
  <2>3. CASE type \in {"String", "Json", "Vec<u8>"}
    BY <2>3, TypeInfoIs DEF Sized, DataTypes, SizedTags
  <2>4. CASE type \in {"Decimal", "BigDecimal"}
    BY <2>4, TypeInfoIs DEF Exact, DataTypes, ExactTags
  <2>5. CASE type \in ClockTypes \cup {"sys::Time"} \cup NaiveTypes \cup {"sys::Timestamp"}
    BY <2>5, TypeInfoIs DEF Precise, DataTypes, PreciseTags
  <2>6. CASE type \in {"Uuid", "Geometry"} \cup ZonedTypes
    BY <2>6, TypeInfoIs DEF Other, DataTypes, KnownCodes, Guid, Udt, DateTimeOffset
  <2>. QED  BY <2>1, <2>2, <2>3, <2>4, <2>5, <2>6 DEF RustTypes, FloatTypes,
              ChronoTypes, TimeTypes, DateTypes, ClockTypes, NaiveTypes, ZonedTypes
<1>. QED  BY <1>1, NamesTellTypes DEF SameGroups

Stored(type, option, info) ==
  UNION {Store(parameter, info) : parameter \in Send(type, option)}

(* A missing value is stored as NULL.                                       *)
LEMMA NullStored ==
  ASSUME NEW type, NEW info
  PROVE  Stored(type, {}, info) = {Null}
BY DEF Stored, Send, Store, NullParameter, Parameter

(* A value is stored as the one parameter its encoding makes.               *)
LEMMA ValueStored ==
  ASSUME NEW type, NEW v, NEW argument, Encode(type, v) = {argument}, NEW info
  PROVE  Stored(type, {v}, info)
           = StoreValue(ValueToParameter(argument).type.tag, argument.v, info)
<1>1. Send(type, {v}) = {ValueToParameter(argument)}
  BY DEF Send
<1>2. ValueToParameter(argument).option = {argument.v}
  BY DEF ValueToParameter, Parameter
<1>. QED  BY <1>1, <1>2 DEF Stored, Store

(* What each kind of argument is stored as.                                 *)
LEMMA TextSent ==
  ASSUME NEW type, NEW v, NEW w, NEW info, Encode(type, v) = {Kind("Text", w)}
  PROVE  Stored(type, {v}, info) = StoreText(w, info)
<1>1. ValueToParameter(Kind("Text", w)).type.tag = "WVarchar"
  BY DEF ValueToParameter, Kind, Parameter, Sized, Simple, Precise
<1>2. Kind("Text", w).v = w
  BY DEF Kind
<1>3. Stored(type, {v}, info) = StoreValue("WVarchar", w, info)
  BY <1>1, <1>2, ValueStored
<1>. QED  BY <1>3 DEF StoreValue

LEMMA BytesSent ==
  ASSUME NEW type, NEW v, NEW w, NEW info, Encode(type, v) = {Kind("Bytes", w)}
  PROVE  /\ IsOther(info, Udt) => Stored(type, {v}, info) = {}
         /\ ~IsOther(info, Udt) => Stored(type, {v}, info) = {Holding("bytes", w)}
<1>1. ValueToParameter(Kind("Bytes", w)).type.tag = "Varbinary"
  BY DEF ValueToParameter, Kind, Parameter, Sized, Simple, Precise
<1>2. Kind("Bytes", w).v = w
  BY DEF Kind
<1>3. Stored(type, {v}, info) = StoreValue("Varbinary", w, info)
  BY <1>1, <1>2, ValueStored
<1>. QED  BY <1>3 DEF StoreValue

LEMMA IntSent ==
  ASSUME NEW type, NEW v, NEW w, NEW info, Encode(type, v) = {Kind("Int", w)}
  PROVE  Stored(type, {v}, info) = StoreNumber(w, info)
<1>1. ValueToParameter(Kind("Int", w)).type.tag = "BigInt"
  BY DEF ValueToParameter, Kind, Parameter, Sized, Simple, Precise
<1>2. Kind("Int", w).v = w
  BY DEF Kind
<1>3. Stored(type, {v}, info) = StoreValue("BigInt", w, info)
  BY <1>1, <1>2, ValueStored
<1>. QED  BY <1>3 DEF StoreValue

LEMMA FloatSent ==
  ASSUME NEW type, NEW v, NEW w, NEW info, Encode(type, v) = {Kind("Float", w)}
  PROVE  Stored(type, {v}, info) = {Holding("number", w)}
<1>1. ValueToParameter(Kind("Float", w)).type.tag = "Double"
  BY DEF ValueToParameter, Kind, Parameter, Sized, Simple, Precise
<1>2. Kind("Float", w).v = w
  BY DEF Kind
<1>3. Stored(type, {v}, info) = StoreValue("Double", w, info)
  BY <1>1, <1>2, ValueStored
<1>. QED  BY <1>3 DEF StoreValue

LEMMA BitSent ==
  ASSUME NEW type, NEW v, NEW w, NEW info, Encode(type, v) = {Kind("Bit", w)}
  PROVE  Stored(type, {v}, info) = {Holding("bit", w)}
<1>1. ValueToParameter(Kind("Bit", w)).type.tag = "Bit"
  BY DEF ValueToParameter, Kind, Parameter, Sized, Simple, Precise
<1>2. Kind("Bit", w).v = w
  BY DEF Kind
<1>3. Stored(type, {v}, info) = StoreValue("Bit", w, info)
  BY <1>1, <1>2, ValueStored
<1>. QED  BY <1>3 DEF StoreValue

LEMMA DateSent ==
  ASSUME NEW type, NEW v, NEW w, NEW info, Encode(type, v) = {Kind("Date", w)}
  PROVE  Stored(type, {v}, info)
           = IF w \div 10 \in ServerYears THEN {Holding("date", w)} ELSE {}
<1>1. ValueToParameter(Kind("Date", w)).type.tag = "Date"
  BY DEF ValueToParameter, Kind, Parameter, Sized, Simple, Precise
<1>2. Kind("Date", w).v = w
  BY DEF Kind
<1>3. Stored(type, {v}, info) = StoreValue("Date", w, info)
  BY <1>1, <1>2, ValueStored
<1>. QED  BY <1>3 DEF StoreValue

LEMMA TimeSent ==
  ASSUME NEW type, NEW v, NEW w, NEW info, Encode(type, v) = {Kind("Time", w)}
  PROVE  Stored(type, {v}, info) = {Holding("time", w)}
<1>1. ValueToParameter(Kind("Time", w)).type.tag = "Time"
  BY DEF ValueToParameter, Kind, Parameter, Sized, Simple, Precise
<1>2. Kind("Time", w).v = w
  BY DEF Kind
<1>3. Stored(type, {v}, info) = StoreValue("Time", w, info)
  BY <1>1, <1>2, ValueStored
<1>. QED  BY <1>3 DEF StoreValue

LEMMA TimestampSent ==
  ASSUME NEW type, NEW v, NEW w, NEW info, Encode(type, v) = {Kind("Timestamp", w)}
  PROVE  Stored(type, {v}, info) = StoreTimestamp(w, info)
<1>1. ValueToParameter(Kind("Timestamp", w)).type.tag = "Timestamp"
  BY DEF ValueToParameter, Kind, Parameter, Sized, Simple, Precise
<1>2. Kind("Timestamp", w).v = w
  BY DEF Kind
<1>3. Stored(type, {v}, info) = StoreValue("Timestamp", w, info)
  BY <1>1, <1>2, ValueStored
<1>. QED  BY <1>3 DEF StoreValue

KindRange ==
  [TinyInt |-> Unsigned(8), SmallInt |-> Signed(16), Integer |-> Signed(32),
   BigInt |-> Signed(64)]

(* The numbers of the instance are finite numbers rounding is told of.      *)
LEMMA SomeNumbersAre ==
  ASSUME NEW n \in SomeNumbers
  PROVE  n \in Halves /\ n \in Int /\ Finite(n)
BY DataAssumption, FloatsRound

(* A stored integer is in the range of its type and of its column.          *)
LEMMA IntegerStored ==
  ASSUME NEW type \in IntegerTypes, NEW v \in ValuesOf(type), NEW info \in DataTypes,
         Name(info) = Name(TypeInfo(type)), NEW held \in Stored(type, {v}, info)
  PROVE  /\ info.tag = IntegerTypeInfo[type]
         /\ info.tag \in IntegerKinds
         /\ v \in Int /\ v \in IntegerRange(type) /\ v \in KindRange[info.tag]
         /\ 2 * v \in SomeNumbers
         /\ held = Holding("number", 2 * v)
<1>1. info.tag = IntegerTypeInfo[type]
  BY ColumnTold, TypeInfoIs DEF RustTypes, Simple
<1>2. info.tag \in IntegerKinds
  BY <1>1 DEF IntegerTypes, IntegerTypeInfo, IntegerKinds
<1>3. v \in IntegerRange(type) /\ v \in Int /\ 2 * v \in SomeNumbers
  <2>1. PICK n \in SomeNumbers :
          v = n \div 2 /\ n \div 2 \in IntegerRange(type) /\ IsWhole(n)
    BY ValuesOfIs DEF NumbersIn
  <2>2. n \in Int
    BY SomeNumbersAre
  <2>3. 2 * (n \div 2) = n
    BY <2>1, <2>2 DEF IsWhole
  <2>. QED BY <2>1, <2>2, <2>3
<1>4. IntegerEncode(v) = {Kind("Int", v)}
  <2>1. CASE v \in Signed(64)
    BY <2>1 DEF IntegerEncode
  <2>2. CASE v \notin Signed(64)
    <3>1. Send(type, {v}) = {}
      BY <2>2, EncodeIs DEF Send, IntegerEncode
    <3>. QED BY <3>1 DEF Stored
  <2>. QED BY <2>1, <2>2
<1>5. held \in StoreNumber(v, info)
  <2>1. Encode(type, v) = {Kind("Int", v)}
    BY <1>4, EncodeIs
  <2>. QED  BY <2>1, IntSent
<1>6. v \in KindRange[info.tag] /\ held = Holding("number", 2 * v)
  BY <1>5, <1>2 DEF StoreNumber, KindRange, IntegerKinds
<1>. QED BY <1>1, <1>2, <1>3, <1>6

(* Floats and decimals are stored as they are.                              *)
LEMMA NumberStored ==
  ASSUME NEW type \in FloatTypes \cup {"Decimal", "BigDecimal"},
         NEW v \in ValuesOf(type), NEW info \in DataTypes,
         Name(info) = Name(TypeInfo(type)), NEW held \in Stored(type, {v}, info)
  PROVE  /\ info.tag = IF type = "f32" THEN "Real"
                       ELSE IF type = "f64" THEN "Double" ELSE "Numeric"
         /\ v \in SomeNumbers
         /\ type = "f32" => v \in F32s
         /\ type = "f64" => v \in F64s
         /\ type = "Decimal" => v \in Decimals
         /\ held = Holding("number", v)
<1>1. info.tag = IF type = "f32" THEN "Real"
                 ELSE IF type = "f64" THEN "Double" ELSE "Numeric"
  BY ColumnTold, TypeInfoIs DEF RustTypes, FloatTypes, Simple, Exact
<1>2. /\ v \in SomeNumbers
      /\ type = "f32" => v \in F32s
      /\ type = "f64" => v \in F64s
      /\ type = "Decimal" => v \in Decimals
  BY ValuesOfIs DEF FloatTypes
<1>3. CASE type \in FloatTypes
  <2>1. Encode(type, v) = {Kind("Float", v)}
    BY <1>3, EncodeIs DEF FloatEncode
  <2>. QED  BY <1>1, <1>2, <2>1, FloatSent
<1>4. CASE type \in {"Decimal", "BigDecimal"}
  <2>1. Encode(type, v) = {Kind("Text", SpellNumber(v, "."))}
    BY <1>4, EncodeIs DEF DecimalEncode
  <2>2. held \in StoreText(SpellNumber(v, "."), info)
    BY <2>1, TextSent
  <2>3. info.tag = "Numeric"
    BY <1>1, <1>4
  <2>4. AcceptsNumericData(info) /\ ~AcceptsCharacterData(info)
        /\ \A code : ~IsOther(info, code)
    BY <2>3 DEF AcceptsCharacterData, AcceptsNumericData, IsOther
  <2>5. SpellNumber(v, ".").n = v
    BY DEF SpellNumber, NumberText
  <2>6. StoreText(SpellNumber(v, "."), info)
          = {Holding("number", n) : n \in {v} \cap NumbersHeld(info)}
    BY <2>4, <2>5 DEF StoreText
  <2>7. held = Holding("number", v)
    BY <2>2, <2>6
  <2>. QED  BY <1>1, <1>2, <2>7
<1>. QED  BY <1>3, <1>4

(* So are booleans, strings and bytes.                                      *)
LEMMA PlainStored ==
  ASSUME NEW type \in {"bool", "String", "Vec<u8>"},
         NEW v \in ValuesOf(type), NEW info \in DataTypes,
         Name(info) = Name(TypeInfo(type)), NEW held \in Stored(type, {v}, info)
  PROVE  /\ type = "bool" => info.tag = "Bit" /\ held = Holding("bit", v)
         /\ type = "String" =>
              /\ info.tag = "WVarchar" /\ v \in SomeTexts
              /\ held = Holding("text", v)
         /\ type = "Vec<u8>" =>
              info.tag = "Varbinary" /\ held = Holding("bytes", v)
<1>1. CASE type = "bool"
  <2>1. Encode(type, v) = {Kind("Bit", v)}
    BY <1>1, EncodeIs DEF BoolEncode
  <2>2. info.tag = "Bit"
    BY <1>1, ColumnTold, TypeInfoIs DEF RustTypes, Simple
  <2>3. held = Holding("bit", v)
    BY <2>1, BitSent
  <2>. QED  BY <1>1, <2>2, <2>3
<1>2. CASE type = "Vec<u8>"
  <2>1. Encode(type, v) = {Kind("Bytes", v)}
    BY <1>2, EncodeIs DEF BytesEncode
  <2>2. info.tag = "Varbinary"
    BY <1>2, ColumnTold, TypeInfoIs DEF RustTypes, Sized
  <2>3. ~IsOther(info, Udt)
    BY <2>2 DEF IsOther
  <2>4. Stored(type, {v}, info) = {Holding("bytes", v)}
    BY <2>1, <2>3, BytesSent
  <2>. QED  BY <1>2, <2>2, <2>4
<1>3. CASE type = "String"
  <2>1. Encode(type, v) = {Kind("Text", v)}
    BY <1>3, EncodeIs DEF StringEncode
  <2>2. info.tag = "WVarchar"
    BY <1>3, ColumnTold, TypeInfoIs DEF RustTypes, Sized
  <2>3. StoreText(v, info) = {Holding("text", v)}
    BY <2>2 DEF StoreText, AcceptsCharacterData, AcceptsNumericData, IsOther
  <2>4. held = Holding("text", v)
    BY <2>1, <2>3, TextSent
  <2>5. v \in SomeTexts
    BY <1>3, ValuesOfIs
  <2>. QED  BY <1>3, <2>2, <2>4, <2>5
<1>. QED  BY <1>1, <1>2, <1>3

(* JSON is stored as its text.                                              *)
LEMMA JsonStored ==
  ASSUME NEW v \in ValuesOf("Json"), NEW info \in DataTypes,
         Name(info) = Name(TypeInfo("Json")), NEW held \in Stored("Json", {v}, info)
  PROVE  /\ info.tag = "Varchar" /\ held = Holding("text", v)
         /\ v \in SomeTexts /\ v.of \in {"json", "bool"}
<1>1. info.tag = "Varchar"
  BY ColumnTold, TypeInfoIs DEF RustTypes, Sized
<1>2. v \in SomeTexts /\ v.of \in {"json", "bool"}
  BY ValuesOfIs
<1>3. Encode("Json", v) = {Kind("Text", v)}
  BY EncodeIs DEF JsonEncode
<1>4. StoreText(v, info) = {Holding("text", v)}
  BY <1>1 DEF StoreText, AcceptsCharacterData, AcceptsNumericData, IsOther
<1>5. held = Holding("text", v)
  BY <1>3, <1>4, TextSent
<1>. QED  BY <1>1, <1>2, <1>5

(* A Uuid is stored in the other order of its bytes, and no geometry is     *)
(* stored at all.                                                           *)
LEMMA OpaqueStored ==
  ASSUME NEW type \in {"Uuid", "Geometry"},
         NEW v \in ValuesOf(type), NEW info \in DataTypes,
         Name(info) = Name(TypeInfo(type)), NEW held \in Stored(type, {v}, info)
  PROVE  /\ type = "Uuid"
         /\ IsOther(info, Guid)
         /\ held = Holding("bytes", UuidBytes(v.id, ~v.wire))
<1>1. CASE type = "Geometry"
  <2>1. Encode(type, v) = {Kind("Bytes", TextOf("wkb", v))}
    BY <1>1, EncodeIs DEF GeometryEncode
  <2>2. IsOther(info, Udt)
    BY <1>1, ColumnTold, TypeInfoIs DEF RustTypes, Other, IsOther
  <2>3. Stored(type, {v}, info) = {}
    BY <2>1, <2>2, BytesSent
  <2>. QED  BY <2>3
<1>2. CASE type = "Uuid"
  <2>1. Encode(type, v) = {Kind("Text", UuidText(v))}
    BY <1>2, EncodeIs DEF UuidEncode
  <2>2. IsOther(info, Guid)
    BY <1>2, ColumnTold, TypeInfoIs DEF RustTypes, Other, IsOther
  <2>3. StoreText(UuidText(v), info) = {Holding("bytes", UuidBytes(v.id, ~v.wire))}
    BY <2>2 DEF StoreText, UuidText, AcceptsCharacterData, AcceptsNumericData,
         IsOther, Guid, DateTimeOffset
  <2>. QED  BY <1>2, <2>1, <2>2, <2>3, TextSent
<1>. QED  BY <1>1, <1>2

(* A date keeps its day, and its year to sixteen bits.                      *)
LEMMA DateStored ==
  ASSUME NEW type \in DateTypes \cup {"sys::Date"},
         NEW v \in ValuesOf(type), NEW info \in DataTypes,
         Name(info) = Name(TypeInfo(type)), NEW held \in Stored(type, {v}, info)
  PROVE  /\ info.tag = "Date"
         /\ v \in Int /\ v % 10 # 0
         /\ held = Holding("date", IF type = "NaiveDate"
                                   THEN 10 * Wrap16(v \div 10) + (v % 10) ELSE v)
<1>1. info.tag = "Date"
  BY ColumnTold, TypeInfoIs DEF RustTypes, ChronoTypes, TimeTypes, DateTypes, Simple
<1>2. v \in Int /\ v % 10 # 0
  BY ValuesOfIs, DataAssumption DEF DateTypes
<1>. DEFINE w == IF type = "NaiveDate" THEN 10 * Wrap16(v \div 10) + (v % 10) ELSE v
<1>3. Encode(type, v) = {Kind("Date", w)}
  BY EncodeIs DEF DateTypes, SysTypes, EncodeDate, EncodeTimeDate, SysEncode, SysTag
<1>. HIDE DEF w
<1>4. Stored(type, {v}, info)
        = IF w \div 10 \in ServerYears THEN {Holding("date", w)} ELSE {}
  BY <1>3, DateSent
<1>5. held = Holding("date", w)
  BY <1>4
<1>. QED  BY <1>1, <1>2, <1>5 DEF w

(* A time keeps its seconds.                                                *)
LEMMA TimeStored ==
  ASSUME NEW type \in ClockTypes \cup {"sys::Time"},
         NEW v \in ValuesOf(type), NEW info \in DataTypes,
         Name(info) = Name(TypeInfo(type)), NEW held \in Stored(type, {v}, info)
  PROVE  /\ info.tag = "Time"
         /\ v \in Int
         /\ held = Holding("time", IF type = "sys::Time" THEN v
                                   ELSE v - (v % SecondUnits))
<1>1. info.tag = "Time"
  BY ColumnTold, TypeInfoIs DEF RustTypes, ChronoTypes, TimeTypes, ClockTypes,
       Precise
<1>2. v \in Int
  BY ValuesOfIs, DataAssumption DEF ClockTypes
<1>. DEFINE w == IF type = "sys::Time" THEN v ELSE v - (v % SecondUnits)
<1>3. Encode(type, v) = {Kind("Time", w)}
  BY EncodeIs DEF ClockTypes, SysTypes, EncodeTime, SysEncode, SysTag
<1>. HIDE DEF w
<1>4. Stored(type, {v}, info) = {Holding("time", w)}
  BY <1>3, TimeSent
<1>. QED  BY <1>1, <1>2, <1>4 DEF w

(* A timestamp keeps its microseconds.                                      *)
LEMMA TimestampStored ==
  ASSUME NEW type \in NaiveTypes \cup {"sys::Timestamp"},
         NEW v \in ValuesOf(type), NEW info \in DataTypes,
         Name(info) = Name(TypeInfo(type)), NEW held \in Stored(type, {v}, info)
  PROVE  /\ info.tag = "Timestamp"
         /\ v \in Int
         /\ held = Holding("timestamp",
                     CASE type = "NaiveDateTime" -> TimestampFromNaive(v)
                       [] type = "PrimitiveDateTime" -> v - (v % MicroUnits)
                       [] type = "sys::Timestamp" -> v)
<1>1. info.tag = "Timestamp"
  BY ColumnTold, TypeInfoIs DEF RustTypes, ChronoTypes, TimeTypes, NaiveTypes,
       Precise
<1>2. v \in Int
  BY ValuesOfIs, DataAssumption DEF NaiveTypes
<1>. DEFINE w == CASE type = "NaiveDateTime" -> TimestampFromNaive(v)
                   [] type = "PrimitiveDateTime" -> v - (v % MicroUnits)
                   [] type = "sys::Timestamp" -> v
<1>3. Encode(type, v) = {Kind("Timestamp", w)}
  BY EncodeIs DEF NaiveTypes, SysTypes, EncodeNaiveDateTime, EncodePrimitive,
       SysEncode, SysTag
<1>. HIDE DEF w
<1>4. Stored(type, {v}, info) = StoreTimestamp(w, info)
  BY <1>3, TimestampSent
<1>5. ~IsOther(info, DateTimeOffset)
  BY <1>1 DEF IsOther
<1>6. held = Holding("timestamp", w)
  BY <1>4, <1>5 DEF StoreTimestamp
<1>. QED  BY <1>1, <1>2, <1>6 DEF w

(* A moment keeps its instant and its offset, but for a local one.          *)
LEMMA ZonedStored ==
  ASSUME NEW type \in ZonedTypes,
         NEW v \in ValuesOf(type), NEW info \in DataTypes,
         Name(info) = Name(TypeInfo(type)), NEW held \in Stored(type, {v}, info)
  PROVE  /\ IsOther(info, DateTimeOffset)
         /\ v.at \in Int /\ v.offset \in Int
         /\ held = Holding("zoned",
                     IF type = "DateTime<Local>"
                     THEN Zoned(TimestampFromNaive(v.at + v.offset), 0)
                     ELSE Zoned(v.at + v.offset, v.offset))
<1>1. IsOther(info, DateTimeOffset)
  BY ColumnTold, TypeInfoIs DEF RustTypes, ChronoTypes, TimeTypes, ZonedTypes,
       Other, IsOther
<1>2. v.at \in Int /\ v.offset \in Int
  BY ValuesOfIs, DataAssumption
<1>3. CASE type = "DateTime<Local>"
  <2>1. Encode(type, v) = {Kind("Timestamp", TimestampFromNaive(v.at + v.offset))}
    BY <1>3, EncodeIs DEF EncodeLocal
  <2>2. Stored(type, {v}, info)
          = StoreTimestamp(TimestampFromNaive(v.at + v.offset), info)
    BY <2>1, TimestampSent
  <2>. QED  BY <1>1, <1>2, <1>3, <2>2 DEF StoreTimestamp
<1>4. CASE type # "DateTime<Local>"
  <2>. DEFINE text == DateTimeText(v.at + v.offset, v.offset, "rfc")
  <2>1. Encode(type, v) = {Kind("Text", text)}
    BY <1>4, EncodeIs DEF EncodeZoned
  <2>2. Stored(type, {v}, info) = StoreText(text, info)
    BY <2>1, TextSent
  <2>3. StoreText(text, info) = {Holding("zoned", Zoned(text.local, text.offset))}
    BY <1>1 DEF StoreText, AcceptsCharacterData, AcceptsNumericData, IsOther,
       DateTimeOffset, Guid
  <2>4. text.local = v.at + v.offset /\ text.offset = v.offset
    BY DEF DateTimeText
  <2>. QED  BY <1>1, <1>2, <1>4, <2>2, <2>3, <2>4
<1>. QED  BY <1>3, <1>4

-----------------------------------------------------------------------------
(* What a column may hold.                                                  *)

(* Cutting to sixteen bits gives an integer.                                *)
LEMMA WrapsToInt ==
  ASSUME NEW n \in Int
  PROVE  Wrap16(n) \in Int
<1>. DEFINE half == 2 ^ (Bits[16] - 1)
<1>1. half \in Int
  BY WidthsAssumption
<1>2. 0 \in -half .. half - 1
  BY WidthsAssumption DEF Signed
<1>3. half > 0
  BY <1>1, <1>2
<1>. HIDE DEF half
<1>4. ((n + half) % (2 * half)) - half \in Int
  BY <1>1, <1>3
<1>. QED  BY <1>4 DEF Wrap16, half

(* A date and time cut to its microseconds is a number of units.            *)
LEMMA MomentOfNaive ==
  ASSUME NEW local \in Int
  PROVE  TimestampFromNaive(local) \in Int
<1>1. Wrap16(local \div YearUnits) \in Int
  BY WrapsToInt DEF YearUnits
<1>. QED  BY <1>1 DEF TimestampFromNaive, YearUnits, MicroUnits

(* The types a column with a text may have, and what a column of a type may *)
(* hold.                                                                    *)
IsTextColumn(info) ==
  \/ AcceptsCharacterData(info)
  \/ info.tag = "Unknown"
  \/ info.tag = "Other" /\ info.sql_data_type \notin {Guid, DateTimeOffset}

HeldBy(held, info) ==
  /\ held.form \in {"null", "number", "text", "bytes", "bit", "date", "time",
                    "timestamp", "zoned"}
  /\ held.form = "number" =>
       /\ AcceptsNumericData(info)
       /\ held.v \in SomeNumbers
       /\ info.tag = "Real" => held.v \in F32s
       /\ info.tag \in {"Float", "Double"} => held.v \in F64s
       /\ info.tag \in IntegerKinds =>
            IsWhole(held.v) /\ held.v \div 2 \in KindRange[info.tag]
  /\ held.form = "text" => IsTextColumn(info) /\ held.v \in SomeTexts
  /\ held.form = "bytes" => AcceptsBinaryData(info) \/ IsOther(info, Guid)
  /\ held.form = "bit" => info.tag = "Bit"
  /\ held.form = "date" => info.tag = "Date"
  /\ held.form = "time" => info.tag = "Time"
  /\ held.form = "timestamp" => info.tag = "Timestamp"
  /\ held.form = "zoned" =>
       /\ IsOther(info, DateTimeOffset)
       /\ held.v.at \in Int /\ held.v.offset \in Int

(* Every column may hold NULL.                                              *)
LEMMA NullHeld == ASSUME NEW info PROVE HeldBy(Null, info)
BY DEF HeldBy, Null

(* A numeric column may hold a number, a float column one of its floats, an  *)
(* integer column one in its range.                                         *)
LEMMA NumberHeld ==
  ASSUME NEW info, AcceptsNumericData(info), NEW n \in SomeNumbers,
         info.tag = "Real" => n \in F32s,
         info.tag \in {"Float", "Double"} => n \in F64s,
         info.tag \in IntegerKinds =>
            IsWhole(n) /\ n \div 2 \in KindRange[info.tag]
  PROVE  HeldBy(Holding("number", n), info)
BY DEF HeldBy, Holding

(* What is bound with a column's type fits the column.                      *)
LEMMA StoredHeld ==
  ASSUME NEW type \in RustTypes, NEW info \in DataTypes,
         Name(info) = Name(TypeInfo(type)),
         NEW option, option = {} \/ \E v \in ValuesOf(type) : option = {v},
         NEW held \in Stored(type, option, info)
  PROVE  HeldBy(held, info)
<1>1. CASE option = {}
  BY <1>1, NullStored, NullHeld
<1>2. ASSUME NEW v \in ValuesOf(type), option = {v}  PROVE HeldBy(held, info)
  <2>0. held \in Stored(type, {v}, info)
    BY <1>2
  <2>1. CASE type \in IntegerTypes
    <3>1. /\ info.tag \in IntegerKinds /\ v \in Int /\ v \in KindRange[info.tag]
          /\ 2 * v \in SomeNumbers
          /\ held = Holding("number", 2 * v)
      BY <2>0, <2>1, IntegerStored
    <3>2. AcceptsNumericData(info) /\ info.tag \notin {"Real", "Float", "Double"}
      BY <3>1 DEF AcceptsNumericData, IntegerKinds
    <3>3. 2 * v \in Int /\ (2 * v) % 2 = 0 /\ (2 * v) \div 2 = v
      BY <3>1
    <3>. QED  BY <3>1, <3>2, <3>3, NumberHeld DEF IsWhole
  <2>2. CASE type \in FloatTypes \cup {"Decimal", "BigDecimal"}
    <3>1. /\ info.tag = IF type = "f32" THEN "Real"
                          ELSE IF type = "f64" THEN "Double" ELSE "Numeric"
          /\ v \in SomeNumbers
          /\ type = "f32" => v \in F32s
          /\ type = "f64" => v \in F64s
          /\ held = Holding("number", v)
      BY <2>0, <2>2, NumberStored
    <3>2. /\ AcceptsNumericData(info) /\ info.tag \notin IntegerKinds
          /\ info.tag = "Real" => v \in F32s
          /\ info.tag \in {"Float", "Double"} => v \in F64s
      BY <3>1 DEF AcceptsNumericData, IntegerKinds
    <3>. QED  BY <3>1, <3>2, NumberHeld
  <2>3. CASE type \in {"bool", "String", "Json", "Vec<u8>"}
    <3>1. \/ info.tag = "Bit" /\ held = Holding("bit", v)
          \/ /\ info.tag \in {"WVarchar", "Varchar"} /\ v \in SomeTexts
             /\ held = Holding("text", v)
          \/ info.tag = "Varbinary" /\ held = Holding("bytes", v)
      <4>1. CASE type = "bool"
        BY <2>0, <4>1, PlainStored
      <4>2. CASE type = "String"
        BY <2>0, <4>2, PlainStored
      <4>3. CASE type = "Json"
        BY <2>0, <4>3, JsonStored
      <4>4. CASE type = "Vec<u8>"
        BY <2>0, <4>4, PlainStored
      <4>. QED  BY <2>3, <4>1, <4>2, <4>3, <4>4
    <3>. QED  BY <3>1 DEF HeldBy, Holding, IsTextColumn, AcceptsCharacterData,
                AcceptsBinaryData
  <2>4. CASE type \in {"Uuid", "Geometry"}
    <3>1. IsOther(info, Guid) /\ held = Holding("bytes", UuidBytes(v.id, ~v.wire))
      BY <2>0, <2>4, OpaqueStored
    <3>. QED  BY <3>1 DEF HeldBy, Holding
  <2>5. CASE type \in DateTypes \cup {"sys::Date"}
    <3>1. /\ info.tag = "Date"
          /\ held = Holding("date", IF type = "NaiveDate"
                                 THEN 10 * Wrap16(v \div 10) + (v % 10) ELSE v)
      BY <2>0, <2>5, DateStored
    <3>. QED  BY <3>1 DEF HeldBy, Holding
  <2>6. CASE type \in ClockTypes \cup {"sys::Time"}
    <3>1. info.tag = "Time" /\ \E w : held = Holding("time", w)
      BY <2>0, <2>6, TimeStored
    <3>. QED  BY <3>1 DEF HeldBy, Holding
  <2>7. CASE type \in NaiveTypes \cup {"sys::Timestamp"}
    <3>1. /\ info.tag = "Timestamp"
          /\ held = Holding("timestamp",
                      CASE type = "NaiveDateTime" -> TimestampFromNaive(v)
                        [] type = "PrimitiveDateTime" -> v - (v % MicroUnits)
                        [] type = "sys::Timestamp" -> v)
      BY <2>0, <2>7, TimestampStored
    <3>. QED  BY <3>1 DEF HeldBy, Holding
  <2>8. CASE type \in ZonedTypes
    <3>1. /\ IsOther(info, DateTimeOffset) /\ v.at \in Int /\ v.offset \in Int
          /\ held = Holding("zoned",
                     IF type = "DateTime<Local>"
                     THEN Zoned(TimestampFromNaive(v.at + v.offset), 0)
                     ELSE Zoned(v.at + v.offset, v.offset))
      BY <2>0, <2>8, ZonedStored
    <3>2. TimestampFromNaive(v.at + v.offset) \in Int
      BY <3>1, MomentOfNaive
    <3>3. held.form = "zoned" /\ held.v.at \in Int /\ held.v.offset \in Int
      BY <3>1, <3>2 DEF Holding, Zoned
    <3>. QED  BY <3>1, <3>3 DEF HeldBy
  <2>. QED  BY <2>1, <2>2, <2>3, <2>4, <2>5, <2>6, <2>7, <2>8 DEF RustTypes,
              ChronoTypes, TimeTypes, DateTypes, ClockTypes, NaiveTypes, ZonedTypes
<1>. QED  BY <1>1, <1>2

(* And so does what others put there.                                       *)
LEMMA ContentsHeld ==
  ASSUME NEW info \in DataTypes, NEW held \in Contents(info)
  PROVE  HeldBy(held, info)
<1>1. CASE AcceptsNumericData(info)
  <2>1. /\ ~AcceptsCharacterData(info) /\ ~AcceptsBinaryData(info)
        /\ info.tag \notin {"Bit", "Date", "Time", "Timestamp", "Other"}
    BY <1>1 DEF AcceptsNumericData, AcceptsCharacterData, AcceptsBinaryData
  <2>2. Contents(info) = {Null} \cup {Holding("number", n) : n \in NumbersHeld(info)}
    BY <1>1, <2>1 DEF Contents, IsOther
  <2>3. ASSUME NEW n \in NumbersHeld(info)
        PROVE  HeldBy(Holding("number", n), info)
    <3>1. n \in SomeNumbers
      BY <1>1 DEF NumbersHeld, NumbersIn, AcceptsNumericData
    <3>2. info.tag \in IntegerKinds =>
            IsWhole(n) /\ n \div 2 \in KindRange[info.tag]
      BY DEF NumbersHeld, NumbersIn, IntegerKinds, KindRange
    <3>3. /\ info.tag = "Real" => n \in F32s
          /\ info.tag \in {"Float", "Double"} => n \in F64s
      BY DEF NumbersHeld
    <3>. QED  BY <1>1, <3>1, <3>2, <3>3, NumberHeld
  <2>. QED  BY <2>2, <2>3, NullHeld
<1>2. CASE AcceptsCharacterData(info)
  <2>1. Contents(info) = {Null} \cup {Holding("text", t) : t \in SomeTexts}
    BY <1>2 DEF Contents, IsOther, AcceptsNumericData, AcceptsCharacterData,
         AcceptsBinaryData
  <2>. QED  BY <1>2, <2>1, NullHeld DEF HeldBy, Holding, IsTextColumn
<1>3. CASE AcceptsBinaryData(info)
  <2>1. Contents(info) = {Null} \cup {Holding("bytes", b) : b \in SomeBytes}
    BY <1>3 DEF Contents, IsOther, AcceptsNumericData, AcceptsCharacterData,
         AcceptsBinaryData
  <2>. QED  BY <1>3, <2>1, NullHeld DEF HeldBy, Holding
<1>4. CASE info.tag = "Bit"
  <2>1. Contents(info) = {Null} \cup {Holding("bit", b) : b \in BOOLEAN}
    BY <1>4 DEF Contents, IsOther, AcceptsNumericData, AcceptsCharacterData,
         AcceptsBinaryData
  <2>. QED  BY <1>4, <2>1, NullHeld DEF HeldBy, Holding
<1>5. CASE info.tag = "Date"
  <2>1. Contents(info) = {Null} \cup
         {Holding("date", d) : d \in {e \in SomeDates : e \div 10 \in ServerYears}}
    BY <1>5 DEF Contents, IsOther, AcceptsNumericData, AcceptsCharacterData,
         AcceptsBinaryData
  <2>. QED  BY <1>5, <2>1, NullHeld DEF HeldBy, Holding
<1>6. CASE info.tag = "Time"
  <2>1. Contents(info) = {Null} \cup {Holding("time", t) : t \in SomeTimes}
    BY <1>6 DEF Contents, IsOther, AcceptsNumericData, AcceptsCharacterData,
         AcceptsBinaryData
  <2>. QED  BY <1>6, <2>1, NullHeld DEF HeldBy, Holding
<1>7. CASE info.tag = "Timestamp"
  <2>1. Contents(info) = {Null} \cup
         {Holding("timestamp", l) :
            l \in {k \in SomeDateTimes : k \div YearUnits \in ServerYears}}
    BY <1>7 DEF Contents, IsOther, AcceptsNumericData, AcceptsCharacterData,
         AcceptsBinaryData
  <2>. QED  BY <1>7, <2>1, NullHeld DEF HeldBy, Holding
<1>8. CASE IsOther(info, DateTimeOffset)
  <2>1. Contents(info) = {Null} \cup {Holding("zoned", z) : z \in SomeZoned}
    BY <1>8 DEF Contents, IsOther, AcceptsNumericData, AcceptsCharacterData,
         AcceptsBinaryData, DateTimeOffset, Guid
  <2>2. ASSUME NEW z \in SomeZoned  PROVE HeldBy(Holding("zoned", z), info)
    BY <1>8, DataAssumption DEF HeldBy, Holding
  <2>. QED  BY <2>1, <2>2, NullHeld
<1>9. CASE IsOther(info, Guid)
  <2>1. Contents(info) = {Null} \cup
         {Holding("bytes", UuidBytes(u.id, TRUE)) : u \in SomeUuids}
    BY <1>9 DEF Contents, IsOther, AcceptsNumericData, AcceptsCharacterData,
         AcceptsBinaryData, DateTimeOffset, Guid
  <2>2. ASSUME NEW b  PROVE HeldBy(Holding("bytes", b), info)
    BY <1>9 DEF HeldBy, Holding
  <2>. QED  BY <2>1, <2>2, NullHeld
<1>10. CASE \/ info.tag = "Unknown"
            \/ info.tag = "Other" /\ ~IsOther(info, Guid)
                                  /\ ~IsOther(info, DateTimeOffset)
  <2>1. Contents(info) = {Null} \cup {Holding("text", t) : t \in SomeTexts}
    BY <1>10 DEF Contents, IsOther, AcceptsNumericData, AcceptsCharacterData,
         AcceptsBinaryData
  <2>. QED  BY <1>10, <2>1, NullHeld DEF HeldBy, Holding, IsTextColumn, IsOther
<1>. QED  BY <1>1, <1>2, <1>3, <1>4, <1>5, <1>6, <1>7, <1>8, <1>9, <1>10
     DEF IsOther, DataTypes, PlainTags, SizedTags, PreciseTags, ExactTags,
     AcceptsNumericData, AcceptsCharacterData, AcceptsBinaryData

-----------------------------------------------------------------------------
(* The invariant, and the steps.                                            *)

(* What a program bound is kept in a column of its type's name.             *)
BoundHere ==
  /\ bound.type \in RustTypes
  /\ bound.option = {} \/ \E v \in ValuesOf(bound.type) : bound.option = {v}
  /\ Name(column) = Name(TypeInfo(bound.type))
  /\ content \in Stored(bound.type, bound.option, column)

(* The column has a content of its type, and every kind and result is what  *)
(* the fetch makes of that content and the decoder of that kind.            *)
ValuesInv ==
  /\ stage \in {"empty", "stored", "refused", "fetched", "read"}
  /\ column \in Columns
  /\ separator \in Separators
  /\ fits \in BOOLEAN
  /\ utf8 \in BOOLEAN
  /\ HeldBy(content, column)
  /\ stage = "empty" => bound = None
  /\ bound = None \/ stage = "refused" \/ BoundHere
  /\ kinds = IF stage \in {"fetched", "read"}
             THEN [unbuffered |-> FetchValue(content, column, separator),
                   buffered |-> BufferedValue(content, column, separator, fits, utf8)]
             ELSE [mode \in Modes |-> NullKind]
  /\ stage = "read" =>
       /\ reading.type \in RustTypes /\ reading.checked \in BOOLEAN
       /\ results = [mode \in Modes |->
                       TryGet(reading.type, reading.checked, kinds[mode])]

(* An empty column satisfies the invariant.                                 *)
LEMMA InitValues == ValuesInit => ValuesInv
BY NullHeld DEF ValuesInit, ValuesInv

(* Binding keeps it.                                                        *)
LEMMA BindKeeps ==
  ASSUME ValuesInv, NEW type \in RustTypes, NEW option,
         option = {} \/ \E v \in ValuesOf(type) : option = {v},
         Bind(type, option)
  PROVE  ValuesInv'
<1>1. /\ stage = "empty" /\ Name(column) = Name(TypeInfo(type))
      /\ bound' = [type |-> type, option |-> option]
      /\ UNCHANGED <<column, separator, fits, utf8, kinds, reading, results>>
  BY DEF Bind
<1>2. column \in DataTypes
  BY ColumnsAssumption DEF ValuesInv
<1>3. CASE stage' = "refused" /\ content' = content
  BY <1>1, <1>3 DEF ValuesInv
<1>4. CASE stage' = "stored" /\ content' \in Stored(type, option, column)
  <2>1. HeldBy(content', column)
    BY <1>1, <1>2, <1>4, StoredHeld
  <2>2. bound'.type = type /\ bound'.option = option
    BY <1>1
  <2>3. BoundHere'
    BY <1>1, <1>4, <2>2 DEF BoundHere
  <2>. QED  BY <1>1, <1>4, <2>1, <2>3 DEF ValuesInv
<1>. QED  BY <1>3, <1>4 DEF Bind, Stored

(* A value found in the column keeps it.                                    *)
LEMMA FindKeeps == ASSUME ValuesInv, Find PROVE ValuesInv'
<1>1. HeldBy(content', column)
  BY ContentsHeld, ColumnsAssumption DEF ValuesInv, Find
<1>. QED  BY <1>1 DEF ValuesInv, Find

(* Fetching keeps it.                                                       *)
LEMMA FetchKeeps == ASSUME ValuesInv, Fetch PROVE ValuesInv'
<1>1. bound = None \/ BoundHere'
  BY DEF ValuesInv, Fetch, BoundHere
<1>. QED  BY <1>1 DEF ValuesInv, Fetch

(* Reading keeps it.                                                        *)
LEMMA ReadKeeps ==
  ASSUME ValuesInv, NEW type \in RustTypes, NEW checked \in BOOLEAN,
         Read(type, checked)
  PROVE  ValuesInv'
<1>1. bound = None \/ BoundHere'
  BY DEF ValuesInv, Read, BoundHere
<1>2. reading'.type = type /\ reading'.checked = checked
  BY DEF Read
<1>. QED  BY <1>1, <1>2 DEF ValuesInv, Read

(* Every step keeps it.                                                     *)
LEMMA ValuesStep == ValuesInv /\ [ValuesNext]_valueVars => ValuesInv'
<1>. SUFFICES ASSUME ValuesInv, [ValuesNext]_valueVars  PROVE ValuesInv'
  OBVIOUS
<1>1. ASSUME NEW type \in RustTypes, Bind(type, {})  PROVE ValuesInv'
  BY <1>1, BindKeeps
<1>2. ASSUME NEW type \in RustTypes, NEW v \in ValuesOf(type), Bind(type, {v})
      PROVE  ValuesInv'
  BY <1>2, BindKeeps
<1>3. CASE Find
  BY <1>3, FindKeeps
<1>4. CASE Fetch
  BY <1>4, FetchKeeps
<1>5. ASSUME NEW type \in RustTypes, NEW checked \in BOOLEAN, Read(type, checked)
      PROVE  ValuesInv'
  BY <1>5, ReadKeeps
<1>6. CASE UNCHANGED valueVars
  BY <1>6 DEF valueVars, ValuesInv, BoundHere
<1>. QED  BY <1>1, <1>2, <1>3, <1>4, <1>5, <1>6 DEF ValuesNext

(* Whatever is bound, found, fetched and read, ValuesInv holds.             *)
THEOREM ValuesInvariant == ValuesSpec => []ValuesInv
BY InitValues, ValuesStep, PTL DEF ValuesSpec

-----------------------------------------------------------------------------
(* What each mode makes of a content.                                       *)

(* Both modes fetch a NULL as NULL.                                         *)
LEMMA NullFetched ==
  ASSUME NEW held, held.form = "null", NEW info, NEW sep, NEW whole, NEW lossless
  PROVE  /\ FetchValue(held, info, sep) = NullKind
         /\ BufferedValue(held, info, sep, whole, lossless) = NullKind
<1>1. FetchValue(held, info, sep) = NullKind
  BY DEF FetchValue
<1>2. BufferedValue(held, info, sep, whole, lossless) = NullKind
  BY DEF BufferedValue
<1>. QED  BY <1>1, <1>2

(* Both modes fetch an integer with its value, the buffer as a BigInt.      *)
LEMMA IntegerFetched ==
  ASSUME NEW held, held.form # "null", NEW info, HeldBy(held, info),
         info.tag \in IntegerKinds, NEW sep, NEW whole, NEW lossless
  PROVE  /\ held.form = "number" /\ held.v \in SomeNumbers /\ IsWhole(held.v)
         /\ held.v \div 2 \in KindRange[info.tag]
         /\ FetchValue(held, info, sep) = Kind(info.tag, held.v \div 2)
         /\ BufferedValue(held, info, sep, whole, lossless) = Kind("BigInt", held.v \div 2)
<1>1. held.form = "number" /\ held.v \in SomeNumbers /\ IsWhole(held.v)
         /\ held.v \div 2 \in KindRange[info.tag]
  BY DEF HeldBy, IntegerKinds, IsTextColumn, AcceptsCharacterData,
       AcceptsBinaryData, IsOther
<1>2. FetchValue(held, info, sep) = Kind(info.tag, held.v \div 2)
  BY DEF FetchValue, IntegerKinds, AcceptsBinaryData, IsOther
<1>3. MapBufferDesc(info) = "I64"
  BY DEF MapBufferDesc, IntegerKinds, AcceptsBinaryData
<1>4. BufferedValue(held, info, sep, whole, lossless) = Kind("BigInt", held.v \div 2)
  BY <1>3 DEF BufferedValue
<1>. QED  BY <1>1, <1>2, <1>4

(* Both modes fetch these types alike.                                      *)
LEMMA PlainFetched ==
  ASSUME NEW held, held.form # "null", NEW info, HeldBy(held, info),
         info.tag \in {"Bit", "Real", "Date", "Time", "Timestamp"},
         NEW sep, NEW whole, NEW lossless
  PROVE  /\ FetchValue(held, info, sep) = Kind(info.tag, held.v)
         /\ BufferedValue(held, info, sep, whole, lossless) = Kind(info.tag, held.v)
         /\ held.form = CASE info.tag = "Bit" -> "bit" [] info.tag = "Real" -> "number"
                          [] info.tag = "Date" -> "date" [] info.tag = "Time" -> "time"
                          [] info.tag = "Timestamp" -> "timestamp"
<1>1. FetchValue(held, info, sep) = Kind(info.tag, held.v)
  BY DEF FetchValue, AcceptsBinaryData, IsOther
<1>2. MapBufferDesc(info) = (IF info.tag = "Real" THEN "F32" ELSE info.tag)
  BY DEF MapBufferDesc, AcceptsBinaryData
<1>3. BufferKind[MapBufferDesc(info)] = info.tag
  BY <1>2 DEF BufferKind
<1>4. BufferedValue(held, info, sep, whole, lossless) = Kind(info.tag, held.v)
  BY <1>2, <1>3 DEF BufferedValue
<1>5. held.form = CASE info.tag = "Bit" -> "bit" [] info.tag = "Real" -> "number"
                          [] info.tag = "Date" -> "date" [] info.tag = "Time" -> "time"
                          [] info.tag = "Timestamp" -> "timestamp"
  BY DEF HeldBy, AcceptsNumericData, IsTextColumn, AcceptsCharacterData,
       AcceptsBinaryData, IsOther
<1>. QED  BY <1>1, <1>4, <1>5

(* Both modes fetch a FLOAT or DOUBLE as a double.                          *)
LEMMA DoubleFetched ==
  ASSUME NEW held, held.form # "null", NEW info, HeldBy(held, info),
         info.tag \in {"Float", "Double"}, NEW sep, NEW whole, NEW lossless
  PROVE  /\ FetchValue(held, info, sep) = Kind("Double", held.v)
         /\ BufferedValue(held, info, sep, whole, lossless) = Kind("Double", held.v)
         /\ held.form = "number"
<1>1. FetchValue(held, info, sep) = Kind("Double", held.v)
  BY DEF FetchValue, AcceptsBinaryData, IsOther
<1>2. MapBufferDesc(info) = "F64"
  BY DEF MapBufferDesc, AcceptsBinaryData
<1>3. BufferKind["F64"] = "Double"
  BY DEF BufferKind
<1>4. BufferedValue(held, info, sep, whole, lossless) = Kind("Double", held.v)
  BY <1>2, <1>3 DEF BufferedValue
<1>5. held.form = "number"
  BY DEF HeldBy, IsTextColumn, AcceptsCharacterData, AcceptsBinaryData, IsOther
<1>. QED  BY <1>1, <1>4, <1>5

(* A buffer may cut bytes.                                                  *)
LEMMA BinaryFetched ==
  ASSUME NEW held, held.form # "null", NEW info, HeldBy(held, info),
         AcceptsBinaryData(info), NEW sep, NEW whole, NEW lossless
  PROVE  /\ FetchValue(held, info, sep) = Kind("Binary", held.v)
         /\ BufferedValue(held, info, sep, whole, lossless)
              = Kind("Binary", Kept(held.v, info, whole))
         /\ held.form = "bytes"
<1>1. FetchValue(held, info, sep) = Kind("Binary", held.v)
  BY DEF FetchValue, AcceptsBinaryData, IsOther
<1>2. MapBufferDesc(info) = "Binary"
  BY DEF MapBufferDesc, AcceptsBinaryData
<1>4. BufferedValue(held, info, sep, whole, lossless)
        = Kind("Binary", Kept(held.v, info, whole))
  BY <1>2 DEF BufferedValue
<1>5. held.form = "bytes"
  BY DEF HeldBy, IsTextColumn, AcceptsCharacterData, AcceptsBinaryData,
       AcceptsNumericData, IsOther
<1>. QED  BY <1>1, <1>4, <1>5

(* A narrow buffer keeps what is all ASCII.                                 *)
LEMMA NarrowKeeps ==
  ASSUME NEW text, text.of \notin {"plain", "json"}, NEW lossless
  PROVE  Narrow(text, lossless) = text
BY DataAssumption DEF Narrow

(* A UNIQUEIDENTIFIER is fetched as its bytes, or as text from a buffer.    *)
LEMMA GuidFetched ==
  ASSUME NEW held, held.form # "null", NEW info, HeldBy(held, info),
         IsOther(info, Guid), NEW sep, NEW whole, NEW lossless
  PROVE  /\ FetchValue(held, info, sep) = Kind("Guid", held.v)
         /\ BufferedValue(held, info, sep, whole, lossless)
              = Kind("Text", UuidGuidToString(held.v))
         /\ held.form = "bytes"
<1>5. held.form = "bytes"
  BY DEF HeldBy, IsTextColumn, AcceptsCharacterData, AcceptsBinaryData,
       AcceptsNumericData, IsOther,
         Guid, DateTimeOffset
<1>1. FetchValue(held, info, sep) = Kind("Guid", held.v)
  BY DEF FetchValue, AcceptsBinaryData, IsOther
<1>2. MapBufferDesc(info) = "Text"
  BY DEF MapBufferDesc, AcceptsBinaryData, IsOther
<1>. DEFINE text == UuidGuidToString(held.v)
<1>3. Render(held, info, sep) = text
  BY <1>5 DEF Render
<1>4. info.tag \notin {"Decimal", "Numeric"}
  BY DEF IsOther
<1>6. Narrow(text, lossless) = text
  BY NarrowKeeps DEF UuidGuidToString, UuidText
<1>. HIDE DEF text
<1>7. Kept(text, info, whole) = text
  BY DEF Kept, NeverCut
<1>8. BufferedValue(held, info, sep, whole, lossless)
        = Kind("Text", Kept(Narrow(text, lossless), info, whole))
  BY <1>2, <1>3, <1>4, <1>5 DEF BufferedValue
<1>. QED  BY <1>1, <1>5, <1>6, <1>7, <1>8 DEF text

(* The text of a decimal and that of a moment.                              *)
DecimalText(n, info, sep) == NumberText(n, IF info.scale = 0 THEN "none" ELSE sep)

MomentText(z) == DateTimeText(z.at + z.offset, z.offset, "sql")

(* A decimal is fetched as text with its type; a buffer may cut it.         *)
LEMMA DecimalFetched ==
  ASSUME NEW held, held.form # "null", NEW info, HeldBy(held, info),
         info.tag \in {"Decimal", "Numeric"}, NEW sep, NEW whole, NEW lossless
  PROVE  /\ FetchValue(held, info, sep) = DecimalKind(DecimalText(held.v, info, sep), info)
         /\ BufferedValue(held, info, sep, whole, lossless)
              = DecimalKind(Kept(DecimalText(held.v, info, sep), info, whole), info)
         /\ held.form = "number" /\ held.v \in SomeNumbers
<1>5. held.form = "number" /\ held.v \in SomeNumbers
  BY DEF HeldBy, IsTextColumn, AcceptsCharacterData, AcceptsBinaryData, IsOther
<1>0. Render(held, info, sep) = DecimalText(held.v, info, sep)
  BY <1>5 DEF Render, DecimalText
<1>1. FetchValue(held, info, sep) = DecimalKind(DecimalText(held.v, info, sep), info)
  BY <1>0 DEF FetchValue, AcceptsBinaryData, IsOther
<1>2. MapBufferDesc(info) = "Text"
  BY DEF MapBufferDesc, AcceptsBinaryData
<1>4. BufferedValue(held, info, sep, whole, lossless)
        = DecimalKind(Kept(DecimalText(held.v, info, sep), info, whole), info)
  BY <1>0, <1>2 DEF BufferedValue
<1>. QED  BY <1>1, <1>4, <1>5

(* A buffer may cut a text, a narrow one lose characters of it.             *)
Buffered(text, info, lossless) ==
  IF MapBufferDesc(info) = "Text" THEN Narrow(text, lossless) ELSE text

LEMMA TextFetched ==
  ASSUME NEW held, held.form # "null", NEW info, HeldBy(held, info),
         IsTextColumn(info), NEW sep, NEW whole, NEW lossless
  PROVE  /\ FetchValue(held, info, sep) = Kind("Text", held.v)
         /\ BufferedValue(held, info, sep, whole, lossless)
              = Kind("Text", Kept(Buffered(held.v, info, lossless), info, whole))
         /\ held.form = "text" /\ held.v \in SomeTexts
<1>1. held.form = "text" /\ held.v \in SomeTexts
  BY DEF HeldBy, IsTextColumn, AcceptsCharacterData, AcceptsBinaryData,
       AcceptsNumericData, IsOther
<1>2. Render(held, info, sep) = held.v
  BY <1>1 DEF Render
<1>3. FetchValue(held, info, sep) = Kind("Text", held.v)
  BY <1>2 DEF FetchValue, AcceptsBinaryData, IsOther, IsTextColumn,
       AcceptsCharacterData
<1>4. MapBufferDesc(info) \in {"Text", "WText"} /\ info.tag \notin {"Decimal", "Numeric"}
  BY DEF MapBufferDesc, AcceptsBinaryData, IsTextColumn, AcceptsCharacterData
<1>5. BufferedValue(held, info, sep, whole, lossless)
        = Kind("Text", Kept(Buffered(held.v, info, lossless), info, whole))
  <2>1. CASE MapBufferDesc(info) = "Text"
    BY <1>2, <1>4, <2>1 DEF BufferedValue, Buffered
  <2>2. CASE MapBufferDesc(info) = "WText"
    BY <1>2, <1>4, <2>2 DEF BufferedValue, Buffered
  <2>. QED  BY <1>4, <2>1, <2>2
<1>. QED  BY <1>1, <1>3, <1>5

(* Both modes fetch a DATETIMEOFFSET as text.                               *)
LEMMA ZonedFetched ==
  ASSUME NEW held, held.form # "null", NEW info, HeldBy(held, info),
         IsOther(info, DateTimeOffset), NEW sep, NEW whole, NEW lossless
  PROVE  /\ FetchValue(held, info, sep) = Kind("Text", MomentText(held.v))
         /\ BufferedValue(held, info, sep, whole, lossless) = Kind("Text", MomentText(held.v))
         /\ held.form = "zoned" /\ held.v.at \in Int /\ held.v.offset \in Int
<1>1. held.form = "zoned" /\ held.v.at \in Int /\ held.v.offset \in Int
  BY DEF HeldBy, IsTextColumn, AcceptsCharacterData, AcceptsBinaryData,
       AcceptsNumericData, IsOther,
         Guid, DateTimeOffset
<1>2. Render(held, info, sep) = MomentText(held.v)
  BY <1>1 DEF Render, MomentText
<1>3. FetchValue(held, info, sep) = Kind("Text", MomentText(held.v))
  BY <1>2 DEF FetchValue, AcceptsBinaryData, IsOther, Guid, DateTimeOffset
<1>4. MapBufferDesc(info) = "Text" /\ info.tag \notin {"Decimal", "Numeric"}
  BY DEF MapBufferDesc, AcceptsBinaryData, IsOther
<1>. DEFINE text == MomentText(held.v)
<1>5. Narrow(text, lossless) = text
  BY NarrowKeeps DEF MomentText, DateTimeText
<1>. HIDE DEF text
<1>6. Kept(text, info, whole) = text
  BY DEF Kept, NeverCut
<1>7. BufferedValue(held, info, sep, whole, lossless)
        = Kind("Text", Kept(Narrow(text, lossless), info, whole))
  BY <1>1, <1>2, <1>4 DEF BufferedValue, text
<1>. QED  BY <1>1, <1>3, <1>5, <1>6, <1>7 DEF text

(* Every data type is of one of these groups.                               *)
LEMMA EveryGroup ==
  ASSUME NEW info \in DataTypes
  PROVE  \/ info.tag \in IntegerKinds
         \/ info.tag \in {"Bit", "Real", "Date", "Time", "Timestamp"}
         \/ info.tag \in {"Float", "Double"}
         \/ AcceptsBinaryData(info)
         \/ IsOther(info, Guid)
         \/ info.tag \in {"Decimal", "Numeric"}
         \/ IsTextColumn(info)
         \/ IsOther(info, DateTimeOffset)
BY DEF DataTypes, PlainTags, SizedTags, PreciseTags, ExactTags, IntegerKinds,
       AcceptsBinaryData, AcceptsCharacterData, IsTextColumn, IsOther

(* The parts of a fetched value.                                            *)
LEMMA KindIs ==
  ASSUME NEW kind, NEW v
  PROVE  Kind(kind, v).kind = kind /\ Kind(kind, v).v = v
BY DEF Kind

(* The invariant leaves offline types what they were.                       *)
LEMMA OfflineKept == ValuesInv => OfflineKeepsTypes
<1>. SUFFICES ASSUME ValuesInv  PROVE OfflineKeepsTypes
  OBVIOUS
<1>. DEFINE offline == Deserialize(Serialize(column))
<1>1. SameGroups(column, offline)
  BY RestoredType, ColumnsAssumption DEF ValuesInv
<1>. HIDE DEF offline
<1>2. Name(offline) = Name(column) /\ MapBufferDesc(offline) = MapBufferDesc(column)
  BY <1>1, NamesKept
<1>3. \A type \in RustTypes : Compatible(type, offline) <=> Compatible(type, column)
  BY <1>1, CompatibleKept
<1>. QED  BY <1>2, <1>3 DEF OfflineKeepsTypes, offline

-----------------------------------------------------------------------------
(* Accessors, and the Any driver.                                           *)

(* What each accessor makes of each kind.                                   *)
LEMMA IntegerAccess ==
  ASSUME NEW value, value.kind \in IntegerKinds
  PROVE  /\ AsI64(value) = {value.v}
         /\ AsF64(value) = IF value.kind = "BigInt" THEN {ToF64[2 * value.v]}
                                                   ELSE {2 * value.v}
         /\ AsStr(value) = {} /\ AsBytes(value) = {} /\ AsBool(value) = {value.v # 0}
BY DEF IntegerKinds, AsI64, AsF64, AsStr, AsBytes, AsBool

LEMMA TextAccess ==
  ASSUME NEW value, value.kind = "Text"
  PROVE  /\ AsI64(value) = ParseInteger(value.v) /\ AsF64(value) = ParseFloat(value.v)
         /\ AsStr(value) = {value.v} /\ AsBytes(value) = {Utf8Bytes(value.v)}
         /\ AsBool(value) = ParseBool(value.v)
BY DEF IntegerKinds, AsI64, AsF64, AsStr, AsBytes, AsBool

LEMMA DecimalAccess ==
  ASSUME NEW value, value.kind = "Decimal"
  PROVE  LET text == NormalizeDecimal(value.v)
         IN  /\ AsI64(value) = ParseInteger(text) /\ AsF64(value) = ParseFloat(text)
             /\ AsStr(value) = {value.v} /\ AsBytes(value) = {Utf8Bytes(value.v)}
             /\ AsBool(value) = ParseBool(text)
BY DEF IntegerKinds, AsI64, AsF64, AsStr, AsBytes, AsBool

LEMMA FloatAccess ==
  ASSUME NEW value, value.kind \in {"Real", "Double"}
  PROVE  /\ AsI64(value) = {} /\ AsF64(value) = {value.v}
         /\ AsStr(value) = {} /\ AsBytes(value) = {} /\ AsBool(value) = {value.v # 0}
BY DEF IntegerKinds, AsI64, AsF64, AsStr, AsBytes, AsBool

LEMMA BinaryAccess ==
  ASSUME NEW value, value.kind \in {"Binary", "Guid"}
  PROVE  /\ AsI64(value) = {} /\ AsF64(value) = {}
         /\ AsStr(value) = {} /\ AsBytes(value) = {value.v} /\ AsBool(value) = {}
BY DEF IntegerKinds, AsI64, AsF64, AsStr, AsBytes, AsBool

LEMMA OtherAccess ==
  ASSUME NEW value, value.kind \in {"Null", "Bit", "Date", "Time", "Timestamp"}
  PROVE  /\ AsI64(value) = {} /\ AsF64(value) = {}
         /\ AsStr(value) = {} /\ AsBytes(value) = {}
         /\ AsBool(value) = IF value.kind = "Bit" THEN {value.v} ELSE {}
BY DEF IntegerKinds, AsI64, AsF64, AsStr, AsBytes, AsBool

(* An integer in the range of its kind is decoded through the Any driver.   *)
LEMMA AnyInteger ==
  ASSUME NEW value, value.kind \in IntegerKinds, value.v \in KindRange[value.kind]
  PROVE  AnyValue(value) = {value.v}
<1>1. AsI64(value) = {value.v}
  BY IntegerAccess
<1>2. KindType(value).tag = value.kind
  BY DEF KindType, IntegerKinds, Simple
<1>. DEFINE rust == AnyRust[AnyKind(KindType(value))]
<1>3. AnyKind(KindType(value))
        = IF value.kind = "TinyInt" THEN "SmallInt" ELSE value.kind
  BY <1>2 DEF AnyKind, IntegerKinds, AcceptsBinaryData
<1>4. rust = CASE value.kind \in {"TinyInt", "SmallInt"} -> "i16"
               [] value.kind = "Integer" -> "i32" [] value.kind = "BigInt" -> "i64"
  BY <1>3 DEF AnyRust, IntegerKinds
<1>. HIDE DEF rust
<1>5. rust \in IntegerTypes /\ value.v \in IntegerRange(rust)
  BY <1>4, WidthsAssumption DEF IntegerTypes, IntegerTypeInfo, IntegerRange,
       KindRange, IntegerKinds
<1>6. Decode(rust, value) = {value.v}
  BY <1>1, <1>5, DecodeIs DEF IntegerDecode
<1>. QED  BY <1>6 DEF AnyValue, rust

(* And so is every other kind but dates, times and a GUID.                  *)
LEMMA AnyOther ==
  ASSUME NEW value, value.kind \in {"Bit", "Real", "Double", "Binary", "Text", "Decimal"}
  PROVE  AnyValue(value) # {}
<1>1. CASE value.kind = "Bit"
  <2>1. AnyRust[AnyKind(KindType(value))] = "bool"
    BY <1>1 DEF AnyRust, AnyKind, KindType, Simple, AcceptsBinaryData
  <2>. QED  BY <1>1, <2>1, OtherAccess, DecodeIs DEF AnyValue, BoolDecode
<1>2. CASE value.kind \in {"Real", "Double"}
  <2>1. AnyRust[AnyKind(KindType(value))] \in FloatTypes
    BY <1>2 DEF AnyRust, AnyKind, KindType, Simple, AcceptsBinaryData, FloatTypes
  <2>2. AsF64(value) = {value.v}
    BY <1>2, FloatAccess
  <2>3. \A type \in FloatTypes : FloatDecode(type, value) # {}
    BY <2>2 DEF FloatDecode
  <2>. QED  BY <2>1, <2>3, DecodeIs DEF AnyValue
<1>3. CASE value.kind = "Binary"
  <2>1. AnyRust[AnyKind(KindType(value))] = "Vec<u8>"
    BY <1>3 DEF AnyRust, AnyKind, KindType, Sized, AcceptsBinaryData
  <2>. QED  BY <1>3, <2>1, BinaryAccess, DecodeIs DEF AnyValue, BytesDecode
<1>4. CASE value.kind \in {"Text", "Decimal"}
  <2>1. AnyRust[AnyKind(KindType(value))] = "String"
    BY <1>4 DEF AnyRust, AnyKind, KindType, Sized, Exact, AcceptsBinaryData
  <2>2. AsStr(value) = {value.v}
    BY <1>4 DEF AsStr
  <2>. QED  BY <2>1, <2>2, DecodeIs DEF AnyValue, StringDecode
<1>. QED  BY <1>1, <1>2, <1>3, <1>4

(* What a mode makes of a content.                                          *)
Made(mode) == IF mode = "unbuffered" THEN FetchValue(content, column, separator)
              ELSE BufferedValue(content, column, separator, fits, utf8)

(* A fetched value is what its mode makes of the content.                   *)
LEMMA KindsAre ==
  ASSUME ValuesInv, stage \in {"fetched", "read"}, NEW mode \in Modes
  PROVE  kinds[mode] = Made(mode)
BY DEF ValuesInv, Made, Modes

(* The column has a data type, and its content fits it.                     *)
LEMMA InvColumn ==
  ASSUME ValuesInv
  PROVE  column \in DataTypes /\ HeldBy(content, column)
BY ColumnsAssumption DEF ValuesInv

(* Under the invariant, rows are made through the Any driver.               *)
LEMMA AnyMade == ValuesInv => AnyRowsAreMade
<1>. SUFFICES ASSUME ValuesInv, stage = "fetched", NEW mode \in Modes,
                     kinds[mode].kind \notin {"Null", "Date", "Time", "Timestamp", "Guid"}
              PROVE  /\ AnyValue(kinds[mode]) # {}
                     /\ column.tag \in IntegerKinds =>
                          \A v \in AnyValue(kinds[mode]) : 2 * v = content.v
  BY DEF AnyRowsAreMade
<1>. DEFINE value == kinds[mode]
<1>1. value = Made(mode)
  BY KindsAre
<1>2. column \in DataTypes /\ HeldBy(content, column)
  BY InvColumn
<1>3. content.form # "null"
  BY <1>1, NullFetched DEF Made, NullKind
<1>. HIDE DEF value
<1>4. CASE column.tag \in IntegerKinds
  <2>. DEFINE n == content.v \div 2
  <2>1. /\ content.v \in SomeNumbers /\ IsWhole(content.v)
        /\ n \in KindRange[column.tag]
        /\ FetchValue(content, column, separator) = Kind(column.tag, n)
        /\ BufferedValue(content, column, separator, fits, utf8) = Kind("BigInt", n)
    BY <1>2, <1>3, <1>4, IntegerFetched
  <2>2. 2 * n = content.v
    BY <2>1, SomeNumbersAre DEF IsWhole
  <2>. HIDE DEF n
  <2>3. n \in KindRange["BigInt"]
    BY <1>4, <2>1, WidthsAssumption DEF KindRange, IntegerKinds
  <2>4. value.kind \in IntegerKinds /\ value.v = n /\ value.v \in KindRange[value.kind]
    BY <1>1, <1>4, <2>1, <2>3, KindIs DEF Made, IntegerKinds
  <2>5. AnyValue(value) = {n}
    BY <2>4, AnyInteger
  <2>. QED  BY <2>2, <2>5 DEF value
<1>5. CASE column.tag \notin IntegerKinds
  <2>1. value.kind \in {"Bit", "Real", "Double", "Binary", "Text", "Decimal"}
    <3>1. CASE column.tag \in {"Bit", "Real", "Date", "Time", "Timestamp"}
      <4>1. value.kind = column.tag
        BY <1>1, <1>2, <1>3, <3>1, PlainFetched, KindIs DEF Made
      <4>. QED  BY <3>1, <4>1 DEF value
    <3>2. CASE column.tag \in {"Float", "Double"}
      BY <1>1, <1>2, <1>3, <3>2, DoubleFetched, KindIs DEF Made
    <3>3. CASE AcceptsBinaryData(column)
      BY <1>1, <1>2, <1>3, <3>3, BinaryFetched, KindIs DEF Made
    <3>4. CASE IsOther(column, Guid)
      <4>1. value.kind \in {"Guid", "Text"}
        BY <1>1, <1>2, <1>3, <3>4, GuidFetched, KindIs DEF Made
      <4>. QED  BY <4>1 DEF value
    <3>5. CASE column.tag \in {"Decimal", "Numeric"}
      BY <1>1, <1>2, <1>3, <3>5, DecimalFetched DEF Made, DecimalKind
    <3>6. CASE IsTextColumn(column)
      BY <1>1, <1>2, <1>3, <3>6, TextFetched, KindIs DEF Made
    <3>7. CASE IsOther(column, DateTimeOffset)
      BY <1>1, <1>2, <1>3, <3>7, ZonedFetched, KindIs DEF Made
    <3>. QED  BY <1>2, <1>5, <3>1, <3>2, <3>3, <3>4, <3>5, <3>6, <3>7, EveryGroup
  <2>. QED  BY <1>5, <2>1, AnyOther DEF value
<1>. QED  BY <1>4, <1>5

-----------------------------------------------------------------------------
(* The two modes.                                                           *)

(* The Rust types an integer kind is compatible with.                       *)
LEMMA IntegersCompatible ==
  ASSUME NEW kind \in IntegerKinds, NEW type \in RustTypes
  PROVE  Compatible(type, Simple(kind))
           <=> type \in IntegerTypes \cup FloatTypes \cup {"bool"}
<1>. DEFINE info == Simple(kind)
<1>1. /\ info.tag = kind /\ AcceptsNumericData(info)
      /\ ~AcceptsCharacterData(info) /\ ~AcceptsBinaryData(info)
      /\ \A code : ~IsOther(info, code)
  BY DEF Simple, IntegerKinds, AcceptsNumericData, AcceptsCharacterData,
         AcceptsBinaryData, IsOther
<1>. HIDE DEF info
<1>2. /\ IntegerCompatible(info) /\ FloatCompatible(info) /\ BoolCompatible(info)
      /\ ~StringCompatible(info) /\ ~BytesCompatible(info)
      /\ ~UuidCompatible(info) /\ ~GeometryCompatible(info) /\ ~JsonCompatible(info)
      /\ ~DecimalCompatible(info) /\ ~DateCompatible(info) /\ ~ClockCompatible(info)
      /\ ~NaiveCompatible(info) /\ ~OffsetDateTimeCompatible(info)
      /\ ~ZonedCompatible(info)
  BY <1>1 DEF IntegerCompatible, FloatCompatible, BoolCompatible, StringCompatible,
       BytesCompatible, UuidCompatible, GeometryCompatible, JsonCompatible,
       DecimalCompatible, DateCompatible, ClockCompatible, NaiveCompatible,
       OffsetDateTimeCompatible, ZonedCompatible, IntegerKinds
<1>3. \A t \in SysTypes : ~SysCompatible(t, info)
  BY <1>1 DEF SysCompatible, SysTypes, SysTag, IntegerKinds
<1>4. CASE type \in IntegerTypes \cup FloatTypes \cup {"bool"}
  BY <1>2, <1>4, CompatibleIs DEF info
<1>5. CASE type \notin IntegerTypes \cup FloatTypes \cup {"bool"}
  <2>1. ~Compatible(type, info)
    BY <1>2, <1>3, <1>5, CompatibleIs DEF RustTypes, ChronoTypes, TimeTypes,
       DateTypes, ClockTypes, NaiveTypes, ZonedTypes, SysTypes
  <2>. QED  BY <1>5, <2>1 DEF info
<1>. QED  BY <1>4, <1>5

(* The cast of an i64 to an f64 keeps what a smaller integer holds.          *)
LEMMA SmallIsFloat ==
  ASSUME NEW kind \in IntegerKinds \ {"BigInt"}, NEW n \in KindRange[kind]
  PROVE  2 * n \in F64s /\ ToF64[2 * n] = 2 * n
<1>1. n \in Signed(32)
  BY WidthsAssumption DEF KindRange, IntegerKinds
<1>2. 2 * n \in F64s
  BY <1>1, RoundingAssumption
<1>. QED BY <1>2, FloatsRound

(* Decoding looks at the value of an integer, not at its kind.              *)
LEMMA IntegersDecode ==
  ASSUME NEW one, one.kind \in IntegerKinds, one.v \in KindRange[one.kind],
         NEW other, other.kind \in IntegerKinds, other.v \in KindRange[other.kind],
         one.v = other.v, NEW type \in RustTypes
  PROVE  Decode(type, one) = Decode(type, other)
<1>0. AsF64(one) = {ToF64[2 * one.v]} /\ AsF64(other) = {ToF64[2 * other.v]}
  BY IntegerAccess, SmallIsFloat
<1>1. /\ AsI64(one) = AsI64(other) /\ AsF64(one) = AsF64(other)
      /\ AsStr(one) = AsStr(other) /\ AsBytes(one) = AsBytes(other)
      /\ AsBool(one) = AsBool(other)
  BY <1>0, IntegerAccess
<1>2. /\ one.kind \notin {"Date", "Time", "Timestamp"}
      /\ other.kind \notin {"Date", "Time", "Timestamp"}
  BY DEF IntegerKinds
<1>3. \A t \in IntegerTypes : IntegerDecode(t, one) = IntegerDecode(t, other)
  BY <1>1 DEF IntegerDecode
<1>4. /\ BoolDecode(one) = BoolDecode(other) /\ BytesDecode(one) = BytesDecode(other)
      /\ \A t \in FloatTypes : FloatDecode(t, one) = FloatDecode(t, other)
  BY <1>1 DEF BoolDecode, FloatDecode, BytesDecode
<1>5. StringDecode(one) = StringDecode(other)
  BY <1>1 DEF StringDecode
<1>6. \A t \in SysTypes : SysDecode(t, one) = SysDecode(t, other)
  BY <1>2 DEF SysDecode, SysTag, SysTypes
<1>7. UuidDecode(one) = UuidDecode(other) /\ GeometryDecode(one) = GeometryDecode(other)
  BY <1>1 DEF UuidDecode, GeometryDecode
<1>8. JsonDecode(one) = JsonDecode(other)
  BY <1>1 DEF JsonDecode
<1>9. /\ DecimalDecode(one) = DecimalDecode(other)
      /\ BigDecimalDecode(one) = BigDecimalDecode(other)
  BY <1>1 DEF DecimalDecode, BigDecimalDecode
<1>10. NaiveDateDecode(one) = NaiveDateDecode(other)
  BY <1>1, <1>2 DEF NaiveDateDecode
<1>11. NaiveTimeDecode(one) = NaiveTimeDecode(other)
  BY <1>1, <1>2 DEF NaiveTimeDecode
<1>12. /\ NaiveDateTimeDecode(one) = NaiveDateTimeDecode(other)
       /\ PrimitiveDecode(one) = PrimitiveDecode(other)
  BY <1>1, <1>2 DEF NaiveDateTimeDecode, PrimitiveDecode
<1>13. /\ DateTimeFixedDecode(one) = DateTimeFixedDecode(other)
       /\ OffsetDateTimeDecode(one) = OffsetDateTimeDecode(other)
  BY <1>1, <1>12 DEF DateTimeFixedDecode, OffsetDateTimeDecode
<1>14. DateTimeUtcDecode(one) = DateTimeUtcDecode(other)
  BY <1>13 DEF DateTimeUtcDecode
<1>15. DateTimeLocalDecode(one) = DateTimeLocalDecode(other)
  BY <1>14 DEF DateTimeLocalDecode
<1>. QED
  BY <1>3, <1>4, <1>5, <1>6, <1>7, <1>8, <1>9, <1>10, <1>11, <1>12, <1>13, <1>14,
     <1>15, DecodeIs DEF RustTypes, ChronoTypes, TimeTypes, DateTypes, ClockTypes,
     NaiveTypes, ZonedTypes, SysTypes

(* So integers of two kinds are read alike.                                 *)
LEMMA IntegersReadAlike ==
  ASSUME NEW k \in IntegerKinds, NEW l \in IntegerKinds,
         NEW n, n \in KindRange[k], n \in KindRange[l],
         NEW type \in RustTypes, NEW checked \in BOOLEAN
  PROVE  TryGet(type, checked, Kind(k, n)) = TryGet(type, checked, Kind(l, n))
<1>1. Decode(type, Kind(k, n)) = Decode(type, Kind(l, n))
  BY KindIs, IntegersDecode
<1>2. KindType(Kind(k, n)) = Simple(k) /\ KindType(Kind(l, n)) = Simple(l)
  BY KindIs DEF KindType, IntegerKinds
<1>3. Compatible(type, Simple(k)) <=> Compatible(type, Simple(l))
  BY IntegersCompatible
<1>4. Kind(k, n).kind # "Null" /\ Kind(l, n).kind # "Null"
  BY KindIs DEF IntegerKinds
<1>. QED  BY <1>1, <1>2, <1>3, <1>4 DEF TryGet

(* A result is what reading the mode's value gives.                         *)
LEMMA ResultsAre ==
  ASSUME ValuesInv, stage = "read", NEW mode \in Modes
  PROVE  /\ reading.type \in RustTypes /\ reading.checked \in BOOLEAN
         /\ results[mode] = TryGet(reading.type, reading.checked, Made(mode))
<1>1. kinds[mode] = Made(mode)
  BY KindsAre
<1>. QED  BY <1>1 DEF ValuesInv

(* Where no character is lost, a buffer holds the text of the column.       *)
LEMMA LosslessText ==
  ASSUME Lossless, content.form = "text"
  PROVE  Buffered(content.v, column, utf8) = content.v
BY DEF Lossless, Buffered, Narrow

(* Under the invariant, the modes agree.                                    *)
LEMMA ModesKept == ValuesInv => ModesAgree
<1>. SUFFICES ASSUME ValuesInv, stage = "read", ~IsOther(column, Guid), Lossless,
                     fits \/ MapBufferDesc(column) \notin {"Text", "WText", "Binary"}
              PROVE  results["buffered"] = results["unbuffered"]
  BY DEF ModesAgree
<1>. DEFINE type == reading.type
            checked == reading.checked
            row == FetchValue(content, column, separator)
            block == BufferedValue(content, column, separator, fits, utf8)
<1>1. /\ type \in RustTypes /\ checked \in BOOLEAN
      /\ results["unbuffered"] = TryGet(type, checked, row)
      /\ results["buffered"] = TryGet(type, checked, block)
  BY ResultsAre DEF Made, Modes
<1>2. column \in DataTypes /\ HeldBy(content, column)
  BY InvColumn
<1>3. \/ row = block
      \/ \E k, l \in IntegerKinds : \E n \in KindRange[k] \cap KindRange[l] :
           row = Kind(k, n) /\ block = Kind(l, n)
  <2>1. CASE content.form = "null"
    BY <2>1, NullFetched
  <2>2. CASE content.form # "null"
    <3>1. CASE column.tag \in IntegerKinds
      <4>. DEFINE n == content.v \div 2
      <4>1. /\ row = Kind(column.tag, n) /\ block = Kind("BigInt", n)
            /\ n \in KindRange[column.tag]
        BY <1>2, <2>2, <3>1, IntegerFetched
      <4>. HIDE DEF row, block, n
      <4>2. "BigInt" \in IntegerKinds
        BY DEF IntegerKinds
      <4>3. n \in KindRange["BigInt"]
        BY <3>1, <4>1, WidthsAssumption DEF KindRange, IntegerKinds
      <4>. QED  BY <3>1, <4>1, <4>2, <4>3
    <3>2. CASE column.tag \in {"Bit", "Real", "Date", "Time", "Timestamp"}
      BY <1>2, <2>2, <3>2, PlainFetched
    <3>3. CASE column.tag \in {"Float", "Double"}
      BY <1>2, <2>2, <3>3, DoubleFetched
    <3>4. CASE AcceptsBinaryData(column)
      <4>1. fits
        BY <3>4 DEF MapBufferDesc, AcceptsBinaryData
      <4>2. Kept(content.v, column, fits) = content.v
        BY <4>1 DEF Kept
      <4>. QED  BY <1>2, <2>2, <3>4, <4>2, BinaryFetched
    <3>5. CASE column.tag \in {"Decimal", "Numeric"}
      <4>. DEFINE text == DecimalText(content.v, column, separator)
      <4>1. fits
        BY <3>5 DEF MapBufferDesc, AcceptsBinaryData
      <4>2. Kept(text, column, fits) = text
        BY <4>1 DEF Kept
      <4>. QED  BY <1>2, <2>2, <3>5, <4>2, DecimalFetched
    <3>6. CASE IsTextColumn(column)
      <4>1. fits
        BY <3>6 DEF MapBufferDesc, AcceptsBinaryData, IsTextColumn,
             AcceptsCharacterData
      <4>2. content.form = "text" /\ row = Kind("Text", content.v)
            /\ block = Kind("Text", Kept(Buffered(content.v, column, utf8), column, fits))
        BY <1>2, <2>2, <3>6, TextFetched
      <4>3. Buffered(content.v, column, utf8) = content.v
        BY <4>2, LosslessText
      <4>4. Kept(content.v, column, fits) = content.v
        BY <4>1 DEF Kept
      <4>. QED  BY <4>2, <4>3, <4>4
    <3>7. CASE IsOther(column, DateTimeOffset)
      BY <1>2, <2>2, <3>7, ZonedFetched
    <3>. QED  BY <1>2, <3>1, <3>2, <3>3, <3>4, <3>5, <3>6, <3>7, EveryGroup
  <2>. QED  BY <2>1, <2>2
<1>. HIDE DEF row, block, type, checked
<1>4. TryGet(type, checked, row) = TryGet(type, checked, block)
  BY <1>1, <1>3, IntegersReadAlike
<1>. QED  BY <1>1, <1>4

-----------------------------------------------------------------------------
(* How many values a read yields.                                           *)

AtMostOne(S) == \A a, b \in S : a = b

(* A parser yields one value at most.                                       *)
LEMMA ParsersYieldOne ==
  ASSUME NEW text
  PROVE  /\ AtMostOne(ParseInteger(text)) /\ AtMostOne(ParseNumber(text))
         /\ AtMostOne(ParseFloat(text)) /\ AtMostOne(ParseDecimal(text))
         /\ AtMostOne(ParseBool(text)) /\ AtMostOne(ParseJson(text))
         /\ AtMostOne(ParseDateText(text)) /\ AtMostOne(ParseSqlDateTime(text))
         /\ AtMostOne(ParseOffset(text))
<1>1. AtMostOne(ParseInteger(text))
  BY DEF AtMostOne, ParseInteger
<1>0. AtMostOne(ParseNumber(text))
  BY DEF AtMostOne, ParseNumber
<1>2. AtMostOne(ParseFloat(text)) /\ AtMostOne(ParseDecimal(text))
  BY <1>0 DEF AtMostOne, ParseFloat, ParseDecimal
<1>3. AtMostOne(ParseBool(text))
  BY <1>2 DEF AtMostOne, ParseBool
<1>4. AtMostOne(ParseJson(text))
  <2>1. AtMostOne(ParseJsonNumber(text))
    BY <1>2 DEF AtMostOne, ParseJsonNumber
  <2>. QED  BY <2>1 DEF AtMostOne, ParseJson
<1>5. AtMostOne(ParseDateText(text))
  BY DEF AtMostOne, ParseDateText, ParseYyyymmddText, ValidDate
<1>6. AtMostOne(ParseSqlDateTime(text)) /\ AtMostOne(ParseOffset(text))
  BY DEF AtMostOne, ParseSqlDateTime, ParseOffset
<1>. QED  BY <1>0, <1>1, <1>2, <1>3, <1>4, <1>5, <1>6

(* So does an accessor.                                                     *)
LEMMA AccessorsYieldOne ==
  ASSUME NEW value
  PROVE  /\ AtMostOne(AsI64(value)) /\ AtMostOne(AsF64(value)) /\ AtMostOne(AsStr(value))
         /\ AtMostOne(AsBytes(value)) /\ AtMostOne(AsBool(value))
<1>1. CASE value.kind \in IntegerKinds
  BY <1>1, IntegerAccess DEF AtMostOne
<1>2. CASE value.kind = "Text"
  <2>1. /\ AtMostOne(ParseInteger(value.v)) /\ AtMostOne(ParseFloat(value.v))
        /\ AtMostOne(ParseBool(value.v))
    BY ParsersYieldOne
  <2>. QED  BY <1>2, <2>1, TextAccess DEF AtMostOne
<1>3. CASE value.kind = "Decimal"
  <2>. DEFINE text == NormalizeDecimal(value.v)
  <2>1. /\ AtMostOne(ParseInteger(text)) /\ AtMostOne(ParseFloat(text))
        /\ AtMostOne(ParseBool(text))
    BY ParsersYieldOne
  <2>. QED  BY <1>3, <2>1, DecimalAccess DEF AtMostOne
<1>4. CASE value.kind \in {"Real", "Double"}
  BY <1>4, FloatAccess DEF AtMostOne
<1>5. CASE value.kind \in {"Binary", "Guid"}
  BY <1>5, BinaryAccess DEF AtMostOne
<1>6. CASE value.kind \notin IntegerKinds \cup {"Text", "Decimal", "Real", "Double",
                                               "Binary", "Guid"}
  BY <1>6 DEF AsI64, AsF64, AsStr, AsBytes, AsBool, AtMostOne
<1>. QED  BY <1>1, <1>2, <1>3, <1>4, <1>5, <1>6

(* And so does the decoding of every Rust type.                             *)
LEMMA DecodeYieldsOne ==
  ASSUME NEW value, NEW type \in RustTypes
  PROVE  AtMostOne(Decode(type, value))
<1>0. /\ AtMostOne(AsI64(value)) /\ AtMostOne(AsF64(value)) /\ AtMostOne(AsStr(value))
      /\ AtMostOne(AsBytes(value)) /\ AtMostOne(AsBool(value))
  BY AccessorsYieldOne
<1>1. \A t \in IntegerTypes : AtMostOne(IntegerDecode(t, value))
  BY <1>0 DEF IntegerDecode, AtMostOne
<1>2. /\ AtMostOne(BoolDecode(value)) /\ AtMostOne(BytesDecode(value))
      /\ \A t \in FloatTypes : AtMostOne(FloatDecode(t, value))
  BY <1>0 DEF BoolDecode, FloatDecode, BytesDecode, AtMostOne
<1>3. AtMostOne(UNION {Utf8(bytes) : bytes \in AsBytes(value)})
  <2>1. \A bytes : AtMostOne(Utf8(bytes))
    BY DEF Utf8, AtMostOne
  <2>. QED  BY <1>0, <2>1 DEF AtMostOne
<1>. DEFINE texts == UNION {Utf8(bytes) : bytes \in AsBytes(value)}
<1>4. AtMostOne(StringDecode(value))
  BY <1>0, <1>3 DEF StringDecode
<1>5. \A t \in SysTypes : AtMostOne(SysDecode(t, value))
  BY DEF SysDecode, AtMostOne
<1>6. AtMostOne(UuidDecode(value))
  <2>1. \A bytes \in AsBytes(value) : bytes.of = "uuid" => texts = {}
    BY <1>0 DEF Utf8, AtMostOne
  <2>2. AtMostOne({bytes \in AsBytes(value) : bytes.of = "uuid"})
    BY <1>0 DEF AtMostOne
  <2>3. AtMostOne({text.uuid : text \in {t \in texts : t.of = "uuid"}})
    BY <1>3 DEF AtMostOne
  <2>. HIDE DEF texts
  <2>. QED  BY <2>1, <2>2, <2>3 DEF UuidDecode, AtMostOne, texts
<1>7. AtMostOne(GeometryDecode(value))
  BY <1>0 DEF GeometryDecode, AtMostOne
<1>8. AtMostOne(JsonDecode(value))
  <2>1. \A text : AtMostOne(ParseJson(text))
    BY ParsersYieldOne
  <2>2. AtMostOne(UNION {ParseJson(text) : text \in texts})
    BY <1>3, <2>1 DEF AtMostOne
  <2>3. /\ AtMostOne({TextOf("number", n) : n \in AsF64(value)})
        /\ AtMostOne({TextOf("number", 2 * i) : i \in AsI64(value)})
    BY <1>0 DEF AtMostOne
  <2>. QED  BY <2>2, <2>3 DEF JsonDecode
<1>9. AtMostOne(DecimalDecode(value)) /\ AtMostOne(BigDecimalDecode(value))
  <2>1. \A text : AtMostOne(ParseDecimal(text)) /\ AtMostOne(ParseNumber(text))
    BY ParsersYieldOne
  <2>2. AtMostOne(UNION {ParseDecimal(NormalizeDecimal(text)) : text \in texts})
    BY <1>3, <2>1 DEF AtMostOne
  <2>3. AtMostOne(UNION {ParseNumber(text) : text \in texts})
    BY <1>3, <2>1 DEF AtMostOne
  <2>4. /\ AtMostOne({2 * i : i \in AsI64(value)})
        /\ AtMostOne({d \in {FloatToDecimal[n] : n \in AsF64(value)} : Finite(d)})
        /\ AtMostOne({n \in AsF64(value) : Finite(n)})
    BY <1>0 DEF AtMostOne
  <2>. HIDE DEF texts
  <2>5. AtMostOne(DecimalDecode(value))
    BY <2>2, <2>4 DEF DecimalDecode, texts
  <2>6. AtMostOne(BigDecimalDecode(value))
    BY <2>3, <2>4 DEF BigDecimalDecode, texts
  <2>. QED  BY <2>5, <2>6
<1>10. AtMostOne(NaiveDateDecode(value))
  <2>1. \A date : AtMostOne(ValidDate(date)) /\ AtMostOne(ParseYyyymmdd(date))
    BY DEF ValidDate, ParseYyyymmdd, AtMostOne
  <2>2. \A text : AtMostOne(ParseDateText(text))
    BY ParsersYieldOne
  <2>3. AtMostOne(UNION {ParseDateText(text) : text \in AsStr(value)})
    BY <1>0, <2>2 DEF AtMostOne
  <2>4. AtMostOne(UNION {ParseYyyymmdd(n) : n \in AsI64(value)})
    BY <1>0, <2>1 DEF AtMostOne
  <2>5. AtMostOne(UNION {ParseYyyymmdd(n \div 2) : n \in AsF64(value)})
    BY <1>0, <2>1 DEF AtMostOne
  <2>. QED  BY <2>1, <2>3, <2>4, <2>5 DEF NaiveDateDecode
<1>11. AtMostOne(NaiveTimeDecode(value))
  BY <1>0 DEF NaiveTimeDecode, AtMostOne
<1>12. AtMostOne(NaiveDateTimeDecode(value))
  <2>1. \A text : AtMostOne(ParseSqlDateTime(text))
    BY ParsersYieldOne
  <2>2. AtMostOne(UNION {ParseSqlDateTime(text) : text \in AsStr(value)})
    BY <1>0, <2>1 DEF AtMostOne
  <2>. QED  BY <2>2 DEF NaiveDateTimeDecode, AtMostOne
<1>13. AtMostOne(PrimitiveDecode(value))
  BY <1>0 DEF PrimitiveDecode, AtMostOne
<1>. HIDE DEF texts
<1>14. AtMostOne(UNION {ParseOffset(text) : text \in AsStr(value)})
  <2>1. \A text : AtMostOne(ParseOffset(text))
    BY ParsersYieldOne
  <2>. QED  BY <1>0, <2>1 DEF AtMostOne
<1>15. AtMostOne({Zoned(local, 0) : local \in NaiveDateTimeDecode(value)})
  BY <1>12 DEF AtMostOne
<1>16. AtMostOne({Zoned(local, 0) : local \in PrimitiveDecode(value)})
  BY <1>13 DEF AtMostOne
<1>17. AtMostOne(DateTimeFixedDecode(value)) /\ AtMostOne(OffsetDateTimeDecode(value))
  BY <1>14, <1>15, <1>16 DEF DateTimeFixedDecode, OffsetDateTimeDecode
<1>18. AtMostOne(DateTimeUtcDecode(value))
  BY <1>17 DEF DateTimeUtcDecode, AtMostOne
<1>19. AtMostOne(DateTimeLocalDecode(value))
  BY <1>18 DEF DateTimeLocalDecode, AtMostOne
<1>. QED
  BY <1>1, <1>2, <1>4, <1>5, <1>6, <1>7, <1>8, <1>9, <1>10, <1>11, <1>12, <1>13,
     <1>17, <1>18, <1>19, DecodeIs DEF RustTypes, ChronoTypes, TimeTypes,
     DateTypes, ClockTypes,
     NaiveTypes, ZonedTypes, SysTypes

(* The cardinality of such a set.                                           *)
LEMMA OneIsCounted ==
  ASSUME NEW S, AtMostOne(S)
  PROVE  Cardinality(S) = IF S = {} THEN 0 ELSE 1
<1>1. CASE S = {}
  BY <1>1, FS_EmptySet
<1>2. CASE S # {}
  <2>1. PICK x \in S : TRUE
    BY <1>2
  <2>2. S = {x}
    BY <2>1 DEF AtMostOne
  <2>. QED  BY <1>2, <2>2, FS_Singleton
<1>. QED  BY <1>1, <1>2

(* The invariant implies the type invariant.                                *)
LEMMA TypesKept == ValuesInv => ValuesTypeOK
<1>. SUFFICES ASSUME ValuesInv  PROVE ValuesTypeOK
  OBVIOUS
<1>1. ASSUME NEW mode \in Modes, kinds[mode].kind \in IntegerKinds
      PROVE  kinds[mode].v \in Signed(64)
  <2>1. CASE stage \in {"fetched", "read"}
    <3>1. kinds[mode] = Made(mode)
      BY <2>1, KindsAre
    <3>2. column \in DataTypes /\ HeldBy(content, column)
      BY InvColumn
    <3>3. content.form # "null"
      BY <1>1, <3>1, NullFetched DEF Made, NullKind, IntegerKinds
    <3>4. column.tag \in IntegerKinds
      <4>1. ~(column.tag \in {"Bit", "Real", "Date", "Time", "Timestamp"})
        BY <1>1, <3>1, <3>2, <3>3, PlainFetched, KindIs DEF Made, IntegerKinds
      <4>2. ~(column.tag \in {"Float", "Double"})
        BY <1>1, <3>1, <3>2, <3>3, DoubleFetched, KindIs DEF Made, IntegerKinds
      <4>3. ~AcceptsBinaryData(column)
        BY <1>1, <3>1, <3>2, <3>3, BinaryFetched, KindIs DEF Made, IntegerKinds
      <4>4. ~IsOther(column, Guid)
        BY <1>1, <3>1, <3>2, <3>3, GuidFetched, KindIs DEF Made, IntegerKinds
      <4>5. ~(column.tag \in {"Decimal", "Numeric"})
        BY <1>1, <3>1, <3>2, <3>3, DecimalFetched DEF Made, IntegerKinds,
             DecimalKind
      <4>6. ~IsTextColumn(column)
        BY <1>1, <3>1, <3>2, <3>3, TextFetched, KindIs DEF Made, IntegerKinds
      <4>7. ~IsOther(column, DateTimeOffset)
        BY <1>1, <3>1, <3>2, <3>3, ZonedFetched, KindIs DEF Made, IntegerKinds
      <4>. QED  BY <3>2, <4>1, <4>2, <4>3, <4>4, <4>5, <4>6, <4>7, EveryGroup
    <3>5. kinds[mode].v = content.v \div 2 /\ content.v \div 2 \in KindRange[column.tag]
      BY <3>1, <3>2, <3>3, <3>4, IntegerFetched, KindIs DEF Made
    <3>6. KindRange[column.tag] \subseteq Signed(64)
      BY <3>4, WidthsAssumption DEF KindRange, IntegerKinds
    <3>. QED  BY <3>5, <3>6
  <2>2. CASE stage \notin {"fetched", "read"}
    <3>1. kinds[mode] = NullKind
      BY <2>2 DEF ValuesInv
    <3>. QED  BY <1>1, <3>1 DEF NullKind, IntegerKinds
  <2>. QED  BY <2>1, <2>2
<1>2. ASSUME stage = "read", NEW mode \in Modes
      PROVE  /\ results[mode].outcome \in {"value", "null", "mismatch", "error"}
             /\ Cardinality(Got(mode)) = IF results[mode].outcome = "value" THEN 1 ELSE 0
             /\ reading.type \in IntegerTypes => Got(mode) \subseteq IntegerRange(reading.type)
  <2>. DEFINE decoded == Decode(reading.type, Made(mode))
  <2>1. results[mode] = TryGet(reading.type, reading.checked, Made(mode))
    BY <1>2, ResultsAre
  <2>2. AtMostOne(decoded)
    BY <1>2, ResultsAre, DecodeYieldsOne
  <2>3. reading.type \in IntegerTypes => decoded \subseteq IntegerRange(reading.type)
    BY DecodeIs DEF IntegerDecode
  <2>. HIDE DEF decoded
  <2>4. \/ results[mode] = Outcome("null", {})
        \/ results[mode] = Outcome("mismatch", {})
        \/ results[mode] = Outcome(IF decoded = {} THEN "error" ELSE "value", decoded)
    BY <2>1 DEF TryGet, decoded
  <2>5. Cardinality({}) = 0 /\ Cardinality(decoded) = IF decoded = {} THEN 0 ELSE 1
    BY <2>2, OneIsCounted, FS_EmptySet
  <2>6. CASE results[mode] = Outcome("null", {}) \/ results[mode] = Outcome("mismatch", {})
    BY <2>5, <2>6 DEF Outcome, Got
  <2>7. CASE results[mode] = Outcome(IF decoded = {} THEN "error" ELSE "value", decoded)
    BY <2>3, <2>5, <2>7 DEF Outcome, Got
  <2>. QED  BY <2>4, <2>6, <2>7
<1>. QED  BY <1>1, <1>2 DEF ValuesTypeOK, ValuesInv

-----------------------------------------------------------------------------
(* Reads tell the truth.                                                    *)

(* A fetched value that spells a number.                                    *)
SpelledByInteger(value, x) ==
  value.kind \in IntegerKinds /\ value.v \in KindRange[value.kind] /\ 2 * value.v = x

SpelledByFloat(value, x) == value.kind \in {"Real", "Double"} /\ value.v = x /\ x \in F64s

SpelledByText(value, x) ==
  value.kind \in {"Decimal", "Text"} /\ \E sep : value.v = NumberText(x, sep)

Spells(value, x) ==
  SpelledByInteger(value, x) \/ SpelledByFloat(value, x) \/ SpelledByText(value, x)

(* Replacing a separator leaves the number.                                 *)
LEMMA Normalized ==
  ASSUME NEW x, NEW sep
  PROVE  LET text == NormalizeDecimal(NumberText(x, sep))
         IN  text.of = "number" /\ text.n = x
BY DEF NormalizeDecimal, NumberText

(* What the parsers make of a number's text.                                *)
LEMMA NumberParsed ==
  ASSUME NEW x \in Halves, NEW text, text.of = "number", text.n = x
  PROVE  /\ \A got \in ParseInteger(text) : 2 * got = x
         /\ \A got \in ParseNumber(text) : got = x
         /\ \A got \in ParseFloat(text) : got = ToF64[x]
         /\ \A got \in ParseDecimal(text) : got = ToDecimal[x] /\ Finite(got)
         /\ \A got \in ParseBool(text) : got = (x # 0)
<1>0. x \in Int
  BY FloatsRound
<1>1. \A got \in ParseInteger(text) : 2 * got = x
  <2>1. \A got \in ParseInteger(text) : got = x \div 2 /\ x % 2 = 0
    BY DEF ParseInteger, IsWhole
  <2>2. x % 2 = 0 => 2 * (x \div 2) = x
    BY <1>0
  <2>. QED  BY <2>1, <2>2
<1>2. \A got \in ParseNumber(text) : got = x
  BY DEF ParseNumber
<1>3. \A got \in ParseFloat(text) : got = ToF64[x]
  BY <1>2 DEF ParseFloat
<1>4. \A got \in ParseDecimal(text) : got = ToDecimal[x] /\ Finite(got)
  BY <1>2 DEF ParseDecimal
<1>5. \A got \in ParseBool(text) : got = (x # 0)
  <2>1. \A got \in ParseBool(text) : got = (ToF64[x] # 0)
    BY <1>3 DEF ParseBool
  <2>. QED  BY <2>1, RoundedZero
<1>. QED  BY <1>1, <1>2, <1>3, <1>4, <1>5

(* An accessor that answers for a spelled number answers with that number,  *)
(* the float with the one next to it.                                       *)
LEMMA NumberAccess ==
  ASSUME NEW x \in Halves, NEW value, Spells(value, x)
  PROVE  /\ \A got \in AsI64(value) : 2 * got = x
         /\ \A got \in AsF64(value) : got = ToF64[x]
         /\ \A got \in AsBool(value) : got = (x # 0)
<1>1. CASE SpelledByInteger(value, x)
  <2>1. value.kind \in IntegerKinds /\ value.v \in KindRange[value.kind] /\ 2 * value.v = x
    BY <1>1 DEF SpelledByInteger
  <2>2. value.v \in Int
    <3>1. value.v \in Signed(64)
      BY <2>1, WidthsAssumption DEF KindRange, IntegerKinds
    <3>. QED  BY <3>1 DEF Signed
  <2>3. (value.v # 0) <=> (x # 0)
    BY <2>1, <2>2
  <2>4. AsI64(value) = {value.v} /\ AsBool(value) = {value.v # 0}
    BY <2>1, IntegerAccess
  <2>5. AsF64(value) = {ToF64[x]}
    BY <2>1, IntegerAccess, SmallIsFloat
  <2>. QED  BY <2>1, <2>3, <2>4, <2>5
<1>2. CASE SpelledByFloat(value, x)
  <2>1. ToF64[x] = x
    BY <1>2, FloatsRound DEF SpelledByFloat
  <2>. QED  BY <1>2, <2>1, FloatAccess DEF SpelledByFloat
<1>3. CASE SpelledByText(value, x)
  <2>1. PICK sep : value.v = NumberText(x, sep)
    BY <1>3 DEF SpelledByText
  <2>. DEFINE text == IF value.kind = "Text" THEN value.v ELSE NormalizeDecimal(value.v)
  <2>2. text.of = "number" /\ text.n = x
    BY <2>1, Normalized DEF NumberText
  <2>3. /\ AsI64(value) = ParseInteger(text) /\ AsF64(value) = ParseFloat(text)
        /\ AsBool(value) = ParseBool(text)
    <3>1. CASE value.kind = "Text"
      BY <3>1, TextAccess
    <3>2. CASE value.kind = "Decimal"
      BY <3>2, DecimalAccess
    <3>. QED  BY <1>3, <3>1, <3>2 DEF SpelledByText
  <2>. HIDE DEF text
  <2>. QED  BY <2>2, <2>3, NumberParsed
<1>. QED  BY <1>1, <1>2, <1>3 DEF Spells

(* Decimals are read from a text, an integer or a float.                    *)
LEMMA DecimalsRead ==
  ASSUME NEW x \in Halves, Finite(x), NEW value, Spells(value, x)
  PROVE  /\ \A got \in DecimalDecode(value) :
              /\ Finite(got)
              /\ Nearby(IF value.kind \in {"Real", "Double"} THEN FloatDecimals ELSE Decimals,
                        x, got)
         /\ \A got \in BigDecimalDecode(value) : got = x
<1>1. CASE SpelledByInteger(value, x)
  <2>1. value.kind \in IntegerKinds /\ value.v \in KindRange[value.kind] /\ 2 * value.v = x
    BY <1>1 DEF SpelledByInteger
  <2>2. value.kind \notin {"Real", "Double"}
    BY <2>1 DEF IntegerKinds
  <2>3. AsBytes(value) = {} /\ AsI64(value) = {value.v}
    BY <2>1, IntegerAccess
  <2>4. DecimalDecode(value) = {x} /\ BigDecimalDecode(value) = {x}
    BY <2>1, <2>3 DEF DecimalDecode, BigDecimalDecode
  <2>5. x \in Decimals
    <3>1. value.v \in Signed(64)
      BY <2>1, WidthsAssumption DEF KindRange, IntegerKinds
    <3>. QED  BY <2>1, <3>1, RoundingAssumption
  <2>6. Nearby(Decimals, x, x)
    BY <2>5, NearbyItself
  <2>. QED  BY <2>2, <2>4, <2>6
<1>2. CASE SpelledByFloat(value, x)
  <2>1. AsBytes(value) = {} /\ AsI64(value) = {} /\ AsF64(value) = {x}
    BY <1>2, FloatAccess DEF SpelledByFloat
  <2>2. \A got \in DecimalDecode(value) : got = FloatToDecimal[x] /\ Finite(got)
    BY <2>1 DEF DecimalDecode
  <2>3. \A got \in BigDecimalDecode(value) : got = x
    BY <2>1 DEF BigDecimalDecode
  <2>4. Nearby(FloatDecimals, x, FloatToDecimal[x])
    BY DecimalsRound
  <2>5. value.kind \in {"Real", "Double"}
    BY <1>2 DEF SpelledByFloat
  <2>. QED  BY <2>2, <2>3, <2>4, <2>5
<1>3. CASE SpelledByText(value, x)
  <2>1. PICK sep : value.v = NumberText(x, sep)
    BY <1>3 DEF SpelledByText
  <2>. DEFINE text == value.v
              plain == NormalizeDecimal(text)
  <2>2. text.of = "number" /\ text.n = x /\ plain.of = "number" /\ plain.n = x
    BY <2>1, Normalized DEF NumberText
  <2>3. AsBytes(value) = {Utf8Bytes(text)} /\ Utf8(Utf8Bytes(text)) = {text}
    BY <1>3, TextAccess, DecimalAccess DEF SpelledByText, Utf8, Utf8Bytes
  <2>4. UNION {Utf8(bytes) : bytes \in AsBytes(value)} = {text}
    BY <2>3
  <2>. HIDE DEF text
  <2>5. DecimalDecode(value) = ParseDecimal(plain) /\ BigDecimalDecode(value) = ParseNumber(text)
    BY <2>3, <2>4 DEF DecimalDecode, BigDecimalDecode
  <2>. HIDE DEF plain
  <2>6. \A got \in ParseDecimal(plain) : got = ToDecimal[x] /\ Finite(got)
    BY <2>2, NumberParsed
  <2>7. \A got \in ParseNumber(text) : got = x
    BY <2>2, NumberParsed
  <2>8. Nearby(Decimals, x, ToDecimal[x])
    BY DecimalsRound
  <2>9. value.kind \notin {"Real", "Double"}
    BY <1>3 DEF SpelledByText
  <2>. QED  BY <2>5, <2>6, <2>7, <2>8, <2>9
<1>. QED  BY <1>1, <1>2, <1>3 DEF Spells

(* The arms of Tells.                                                       *)
LEMMA TellsIs ==
  ASSUME NEW n, NEW got
  PROVE  /\ \A type \in IntegerTypes : 2 * got = n => Tells(type, n, got)
         /\ Tells("f32", n, got) = Nearby(F32s, n, got)
         /\ Tells("f64", n, got) = Nearby(F64s, n, got)
         /\ Tells("Decimal", n, got) =
              (/\ Finite(got)
               /\ Nearby(IF column.tag \in {"Real", "Float", "Double"}
                         THEN FloatDecimals ELSE Decimals, n, got))
         /\ Tells("BigDecimal", n, got) = (got = n)
         /\ Tells("bool", n, got) = (got = (n # 0))
         /\ \A type : type \notin IntegerTypes \cup FloatTypes
                        \cup {"Decimal", "BigDecimal", "bool"} => Tells(type, n, got)
BY DEF Tells, IntegerTypes, IntegerTypeInfo, FloatTypes

(* A spelled number is told by every Rust type that is read from it.        *)
LEMMA NumberTold ==
  ASSUME NEW x \in Halves, Finite(x), NEW value, Spells(value, x),
         column.tag \in {"Real", "Float", "Double"} <=> value.kind \in {"Real", "Double"},
         NEW type \in RustTypes, NEW got \in Decode(type, value)
  PROVE  Tells(type, x, got)
<1>1. CASE type \in IntegerTypes
  <2>1. got \in AsI64(value)
    BY <1>1, DecodeIs DEF IntegerDecode
  <2>2. 2 * got = x
    BY <2>1, NumberAccess
  <2>. QED  BY <1>1, <2>2, TellsIs
<1>2. CASE type = "bool"
  <2>1. got \in AsBool(value)
    BY <1>2, DecodeIs DEF BoolDecode
  <2>2. got = (x # 0)
    BY <2>1, NumberAccess
  <2>. QED  BY <1>2, <2>2, TellsIs
<1>3. CASE type = "f32"
  <2>1. got \in FloatDecode("f32", value)
    BY <1>3, DecodeIs DEF FloatTypes
  <2>2. got = ToF32[ToF64[x]]
    BY <2>1, NumberAccess DEF FloatDecode
  <2>. QED  BY <1>3, <2>2, RoundedTwice, TellsIs
<1>4. CASE type = "f64"
  <2>1. got \in FloatDecode("f64", value)
    BY <1>4, DecodeIs DEF FloatTypes
  <2>2. got = ToF64[x]
    BY <2>1, NumberAccess DEF FloatDecode
  <2>. QED  BY <1>4, <2>2, FloatsRound, TellsIs
<1>5. CASE type = "Decimal"
  <2>1. got \in DecimalDecode(value)
    BY <1>5, DecodeIs
  <2>2. /\ Finite(got)
        /\ Nearby(IF value.kind \in {"Real", "Double"} THEN FloatDecimals ELSE Decimals,
                  x, got)
    BY <2>1, DecimalsRead
  <2>. QED  BY <1>5, <2>2, TellsIs
<1>6. CASE type = "BigDecimal"
  <2>1. got \in BigDecimalDecode(value)
    BY <1>6, DecodeIs
  <2>2. got = x
    BY <2>1, DecimalsRead
  <2>. QED  BY <1>6, <2>2, TellsIs
<1>7. CASE type \notin IntegerTypes \cup FloatTypes \cup {"Decimal", "BigDecimal", "bool"}
  BY <1>7, TellsIs
<1>. QED  BY <1>1, <1>2, <1>3, <1>4, <1>5, <1>6, <1>7 DEF FloatTypes

(* What is not cut spells the number the column holds.                      *)
LEMMA WholeNumberMade ==
  ASSUME ValuesInv, content.form = "number", NEW mode \in Modes, Whole(mode)
  PROVE  /\ content.v \in SomeNumbers
         /\ Spells(Made(mode), content.v)
         /\ column.tag \in {"Real", "Float", "Double"}
              <=> Made(mode).kind \in {"Real", "Double"}
<1>1. column \in DataTypes /\ HeldBy(content, column) /\ content.form # "null"
  BY InvColumn
<1>2. content.v \in SomeNumbers /\ content.v \in Int
  BY <1>1, SomeNumbersAre DEF HeldBy
<1>3. AcceptsNumericData(column)
  BY <1>1 DEF HeldBy
<1>4. CASE column.tag \in IntegerKinds
  <2>. DEFINE n == content.v \div 2
              value == Made(mode)
  <2>1. n \in Int /\ 2 * n = content.v
    <3>1. IsWhole(content.v)
      BY <1>1, <1>4, IntegerFetched
    <3>. QED  BY <1>2, <3>1 DEF IsWhole
  <2>2. n \in KindRange[column.tag]
    BY <1>1, <1>4, IntegerFetched
  <2>3. value \in {Kind(column.tag, n), Kind("BigInt", n)}
    BY <1>1, <1>4, IntegerFetched DEF Made
  <2>. HIDE DEF n, value
  <2>4. "BigInt" \in IntegerKinds /\ n \in KindRange["BigInt"]
    BY <1>4, <2>2, WidthsAssumption DEF KindRange, IntegerKinds
  <2>5. value.kind \in IntegerKinds /\ value.v = n /\ n \in KindRange[value.kind]
    BY <1>4, <2>2, <2>3, <2>4, KindIs
  <2>6. SpelledByInteger(value, content.v)
    BY <2>1, <2>5 DEF SpelledByInteger
  <2>7. /\ column.tag \notin {"Real", "Float", "Double"}
        /\ value.kind \notin {"Real", "Double"}
    BY <1>4, <2>5 DEF IntegerKinds
  <2>. QED  BY <1>2, <2>6, <2>7 DEF Spells, value
<1>5. CASE column.tag \in {"Real", "Float", "Double"}
  <2>1. Made(mode).kind \in {"Real", "Double"} /\ Made(mode).v = content.v
    <3>1. CASE column.tag = "Real"
      BY <1>1, <3>1, PlainFetched, KindIs DEF Made
    <3>2. CASE column.tag \in {"Float", "Double"}
      BY <1>1, <3>2, DoubleFetched, KindIs DEF Made
    <3>. QED  BY <1>5, <3>1, <3>2
  <2>2. content.v \in F64s
    BY <1>1, <1>5, FloatsRound DEF HeldBy
  <2>3. SpelledByFloat(Made(mode), content.v)
    BY <2>1, <2>2 DEF SpelledByFloat
  <2>. QED  BY <1>2, <1>5, <2>1, <2>3 DEF Spells
<1>6. CASE column.tag \in {"Decimal", "Numeric"}
  <2>. DEFINE text == DecimalText(content.v, column, separator)
  <2>1. mode = "buffered" => Kept(text, column, fits) = text
    BY DEF Whole, Kept
  <2>2. Made(mode) = DecimalKind(text, column)
    BY <1>1, <1>6, <2>1, DecimalFetched DEF Made, Modes
  <2>3. Made(mode).kind = "Decimal" /\ Made(mode).v = text
    BY <2>2 DEF DecimalKind
  <2>4. SpelledByText(Made(mode), content.v)
    BY <2>3 DEF SpelledByText, DecimalText
  <2>. QED  BY <1>2, <1>6, <2>3, <2>4 DEF Spells
<1>. QED  BY <1>2, <1>3, <1>4, <1>5, <1>6 DEF AcceptsNumericData, IntegerKinds

(* So does a text column's number.                                          *)
LEMMA WholeTextMade ==
  ASSUME ValuesInv, content.form = "text", content.v.of = "number",
         NEW mode \in Modes, Whole(mode)
  PROVE  /\ content.v.n \in Halves /\ Finite(content.v.n)
         /\ Spells(Made(mode), content.v.n)
         /\ column.tag \in {"Real", "Float", "Double"}
              <=> Made(mode).kind \in {"Real", "Double"}
<1>1. column \in DataTypes /\ HeldBy(content, column) /\ content.form # "null"
  BY InvColumn
<1>2. IsTextColumn(column) /\ content.v \in SomeTexts
  BY <1>1 DEF HeldBy
<1>3. /\ content.v.n \in Halves /\ Finite(content.v.n)
      /\ content.v = NumberText(content.v.n, content.v.sep)
  BY <1>2, DataAssumption
<1>4. mode = "buffered" =>
        Kept(Buffered(content.v, column, utf8), column, fits) = content.v
  <2>1. Buffered(content.v, column, utf8) = content.v
    BY NarrowKeeps DEF Buffered
  <2>. QED  BY <2>1 DEF Whole, Kept
<1>5. Made(mode) = Kind("Text", content.v)
  BY <1>1, <1>2, <1>4, TextFetched DEF Made, Modes
<1>6. Made(mode).kind = "Text" /\ Made(mode).v = content.v
  BY <1>5, KindIs
<1>7. SpelledByText(Made(mode), content.v.n)
  BY <1>3, <1>6 DEF SpelledByText
<1>8. column.tag \notin {"Real", "Float", "Double"}
  BY <1>2 DEF IsTextColumn, AcceptsCharacterData
<1>. QED  BY <1>3, <1>6, <1>7, <1>8 DEF Spells

(* The text of a moment is read as its instant.                             *)
LEMMA MomentsRead ==
  ASSUME NEW z, z.at \in Int, z.offset \in Int, NEW type \in ZonedTypes,
         NEW value, value = Kind("Text", MomentText(z)),
         NEW got \in Decode(type, value)
  PROVE  got.at = z.at
<1>. DEFINE text == MomentText(z)
<1>1. AsStr(value) = {text}
  BY KindIs, TextAccess
<1>2. ParseOffset(text) = {Zoned(z.at + z.offset, z.offset)}
  BY DEF ParseOffset, MomentText, DateTimeText
<1>. DEFINE moment == Zoned(z.at + z.offset, z.offset)
<1>3. moment.at = z.at
  BY DEF Zoned
<1>. HIDE DEF text
<1>4. UNION {ParseOffset(t) : t \in AsStr(value)} = {moment}
  BY <1>1, <1>2
<1>5. DateTimeFixedDecode(value) = {moment} /\ OffsetDateTimeDecode(value) = {moment}
  BY <1>4 DEF DateTimeFixedDecode, OffsetDateTimeDecode
<1>6. moment = [at |-> moment.at, offset |-> moment.offset]
  BY DEF Zoned
<1>. HIDE DEF moment
<1>7. \A o : /\ InZone(moment, o).at = moment.at
             /\ InZone(InZone(moment, o), LocalOffset).at = moment.at
  BY <1>6 DEF InZone
<1>8. \A m \in DateTimeUtcDecode(value) : m.at = z.at
  BY <1>3, <1>5, <1>7 DEF DateTimeUtcDecode
<1>9. \A m \in DateTimeLocalDecode(value) : m.at = z.at
  BY <1>3, <1>5, <1>7 DEF DateTimeUtcDecode, DateTimeLocalDecode
<1>. QED  BY <1>3, <1>5, <1>8, <1>9, DecodeIs DEF ZonedTypes

(* What was got was decoded from what the mode made of the content.         *)
LEMMA GotDecoded ==
  ASSUME ValuesInv, stage = "read", NEW mode \in Modes, NEW got \in Got(mode)
  PROVE  got \in Decode(reading.type, Made(mode)) /\ reading.type \in RustTypes
<1>1. results[mode] = TryGet(reading.type, reading.checked, Made(mode))
  BY ResultsAre
<1>. QED  BY <1>1, ResultsAre DEF Got, TryGet, Outcome

(* Under the invariant, reads are true.                                     *)
LEMMA TruthKept == ValuesInv => ReadsAreTrue
<1>. SUFFICES ASSUME ValuesInv, stage = "read", NEW mode \in Modes, Whole(mode),
                     NEW got \in Got(mode)
     PROVE  /\ content.form = "number" => Tells(reading.type, content.v, got)
            /\ content.form = "text" /\ content.v.of = "number" =>
                 Tells(reading.type, content.v.n, got)
            /\ content.form = "zoned" /\ reading.type \in ZonedTypes =>
                 got.at = content.v.at
  BY DEF ReadsAreTrue
<1>. DEFINE type == reading.type
            value == Made(mode)
<1>1. got \in Decode(type, value) /\ type \in RustTypes
  BY GotDecoded
<1>2. column \in DataTypes /\ HeldBy(content, column)
  BY InvColumn
<1>3. ASSUME content.form = "number"  PROVE Tells(type, content.v, got)
  <2>1. /\ content.v \in Halves /\ Finite(content.v) /\ Spells(value, content.v)
        /\ column.tag \in {"Real", "Float", "Double"} <=> value.kind \in {"Real", "Double"}
    BY <1>3, WholeNumberMade, SomeNumbersAre
  <2>. HIDE DEF value, type
  <2>. QED  BY <1>1, <2>1, NumberTold
<1>4. ASSUME content.form = "text", content.v.of = "number"
      PROVE  Tells(type, content.v.n, got)
  <2>1. /\ content.v.n \in Halves /\ Finite(content.v.n) /\ Spells(value, content.v.n)
        /\ column.tag \in {"Real", "Float", "Double"} <=> value.kind \in {"Real", "Double"}
    BY <1>4, WholeTextMade
  <2>. HIDE DEF value, type
  <2>. QED  BY <1>1, <2>1, NumberTold
<1>5. ASSUME content.form = "zoned", type \in ZonedTypes
      PROVE  got.at = content.v.at
  <2>1. IsOther(column, DateTimeOffset) /\ content.form # "null"
    BY <1>2, <1>5 DEF HeldBy
  <2>2. /\ value = Kind("Text", MomentText(content.v))
        /\ content.v.at \in Int /\ content.v.offset \in Int
    BY <1>2, <2>1, ZonedFetched DEF Made
  <2>. DEFINE z == content.v
  <2>3. z.at \in Int /\ z.offset \in Int /\ value = Kind("Text", MomentText(z))
    BY <2>2
  <2>. HIDE DEF value, type, z
  <2>4. type \in ZonedTypes /\ got \in Decode(type, value)
    BY <1>1, <1>5
  <2>5. got.at = z.at
    BY <2>3, <2>4, MomentsRead
  <2>. QED  BY <2>5 DEF z
<1>. QED  BY <1>3, <1>4, <1>5

-----------------------------------------------------------------------------
(* Round trips.                                                             *)

(* The arms of Rounded.                                                     *)
LEMMA RoundedIs ==
  ASSUME NEW v
  PROVE  /\ \A type \in ClockTypes : Rounded(type, v) = v - (v % SecondUnits)
         /\ \A type \in NaiveTypes : Rounded(type, v) = v - (v % MicroUnits)
         /\ \A type : type \notin ClockTypes \cup NaiveTypes => Rounded(type, v) = v
BY DEF Rounded, ClockTypes, NaiveTypes

(* The arms of YearKept.                                                    *)
LEMMA YearKeptIs ==
  ASSUME NEW v
  PROVE  /\ \A type \in DateTypes : YearKept(type, v) = YearFits(v \div 10)
         /\ \A type \in NaiveTypes : YearKept(type, v) = YearFits(v \div YearUnits)
BY DEF YearKept, DateTypes, NaiveTypes

(* What a mode makes of a content gives back a value of a type, whether the *)
(* compatibility is checked or not.                                        *)
GivesBack(value, type, v) ==
  /\ value.kind # "Null"
  /\ Compatible(type, KindType(value))
  /\ Decode(type, value) # {}
  /\ Meaning(type, Decode(type, value)) = Meaning(type, {Rounded(type, v)})

(* A value given back is what try_get answers with.                         *)
LEMMA ReadBack ==
  ASSUME NEW value, NEW type, NEW checked \in BOOLEAN, NEW v, GivesBack(value, type, v)
  PROVE  LET result == TryGet(type, checked, value)
         IN  /\ result.outcome = "value"
             /\ Meaning(type, result.values) = Meaning(type, {Rounded(type, v)})
<1>1. TryGet(type, checked, value) = Outcome("value", Decode(type, value))
  BY DEF TryGet, GivesBack
<1>2. /\ Outcome("value", Decode(type, value)).outcome = "value"
      /\ Outcome("value", Decode(type, value)).values = Decode(type, value)
  BY DEF Outcome
<1>. QED  BY <1>1, <1>2 DEF GivesBack

(* It is given back when it is decoded to itself, rounded.                  *)
LEMMA ExactlyBack ==
  ASSUME NEW value, NEW type, NEW v, value.kind # "Null",
         Compatible(type, KindType(value)), Decode(type, value) = {Rounded(type, v)}
  PROVE  GivesBack(value, type, v)
BY DEF GivesBack

(* A value of a type that a column of its type holds.                       *)
HoldsA(type, v) ==
  /\ v \in ValuesOf(type)
  /\ Name(column) = Name(TypeInfo(type))
  /\ content \in Stored(type, {v}, column)
  /\ YearKept(type, v)

(* The parts of a content.                                                  *)
LEMMA HoldingIs ==
  ASSUME NEW form, NEW v
  PROVE  Holding(form, v).form = form /\ Holding(form, v).v = v
BY DEF Holding

(* Where everything fits, a buffer cuts nothing; where no character is lost, *)
(* it holds the text of the column.                                        *)
LEMMA KeptWhole ==
  ASSUME NEW mode \in Modes, Whole(mode), mode # "unbuffered", NEW v, NEW info
  PROVE  /\ Kept(v, info, fits) = v
         /\ content.form = "text" => Buffered(content.v, column, utf8) = content.v
BY LosslessText DEF Whole, Kept

(* Each group of Rust types gets its values back.                           *)
LEMMA IntegersBack ==
  ASSUME ValuesInv, NEW type \in IntegerTypes, NEW v, HoldsA(type, v),
         NEW mode \in Modes
  PROVE  GivesBack(Made(mode), type, v)
<1>1. column \in DataTypes /\ HeldBy(content, column) /\ type \in RustTypes
  BY InvColumn DEF RustTypes
<1>2. /\ column.tag \in IntegerKinds /\ v \in Int /\ v \in IntegerRange(type)
      /\ content = Holding("number", 2 * v)
  BY <1>1, IntegerStored DEF HoldsA
<1>3. content.form # "null" /\ content.v = 2 * v
  BY <1>2, HoldingIs
<1>4. content.v \div 2 = v
  BY <1>2, <1>3
<1>5. \E k \in IntegerKinds : Made(mode) = Kind(k, v)
  <2>1. "BigInt" \in IntegerKinds
    BY DEF IntegerKinds
  <2>2. Made(mode) \in {Kind(column.tag, v), Kind("BigInt", v)}
    BY <1>1, <1>2, <1>3, <1>4, IntegerFetched DEF Made
  <2>. QED  BY <1>2, <2>1, <2>2
<1>6. PICK k \in IntegerKinds : Made(mode) = Kind(k, v)
  BY <1>5
<1>7. Made(mode).kind = k /\ Made(mode).v = v
  BY <1>6, KindIs
<1>8. KindType(Made(mode)) = Simple(k) /\ k # "Null"
  BY <1>7 DEF KindType, IntegerKinds
<1>9. Compatible(type, Simple(k))
  BY <1>1, IntegersCompatible
<1>10. Decode(type, Made(mode)) = {v}
  <2>1. AsI64(Made(mode)) = {v}
    BY <1>7, IntegerAccess
  <2>. QED  BY <1>2, <2>1, DecodeIs DEF IntegerDecode
<1>11. Rounded(type, v) = v
  BY RoundedIs DEF IntegerTypes, IntegerTypeInfo, ClockTypes, NaiveTypes
<1>. QED  BY <1>7, <1>8, <1>9, <1>10, <1>11, ExactlyBack

LEMMA FloatsBack ==
  ASSUME ValuesInv, NEW type \in FloatTypes, NEW v, HoldsA(type, v),
         NEW mode \in Modes
  PROVE  GivesBack(Made(mode), type, v)
<1>1. column \in DataTypes /\ HeldBy(content, column) /\ type \in RustTypes
  BY InvColumn DEF RustTypes
<1>2. /\ column.tag = (IF type = "f32" THEN "Real" ELSE "Double")
      /\ column.tag \in {"Real", "Double"} /\ content = Holding("number", v)
      /\ type = "f32" => v \in F32s
  BY <1>1, NumberStored DEF HoldsA, FloatTypes
<1>3. content.form # "null" /\ content.v = v
  BY <1>2, HoldingIs
<1>4. Made(mode) = Kind(column.tag, v)
  BY <1>1, <1>2, <1>3, PlainFetched, DoubleFetched DEF Made
<1>5. Made(mode).kind = column.tag /\ Made(mode).v = v
  BY <1>4, KindIs
<1>6. KindType(Made(mode)) = Simple(column.tag)
  BY <1>2, <1>5 DEF KindType
<1>7. Compatible(type, Simple(column.tag))
  <2>1. FloatCompatible(Simple(column.tag))
    BY <1>2 DEF FloatCompatible, AcceptsNumericData, Simple
  <2>. QED  BY <2>1, CompatibleIs
<1>8. Decode(type, Made(mode)) = {v}
  <2>1. AsF64(Made(mode)) = {v}
    BY <1>2, <1>5, FloatAccess
  <2>2. type = "f32" => ToF32[v] = v
    BY <1>2, FloatsRound
  <2>3. FloatDecode(type, Made(mode)) = {v}
    BY <2>1, <2>2 DEF FloatDecode
  <2>. QED  BY <2>3, DecodeIs
<1>9. Rounded(type, v) = v
  BY RoundedIs DEF FloatTypes, ClockTypes, NaiveTypes
<1>. QED  BY <1>2, <1>5, <1>6, <1>7, <1>8, <1>9, ExactlyBack

LEMMA DecimalsBack ==
  ASSUME ValuesInv, NEW type \in {"Decimal", "BigDecimal"}, NEW v, HoldsA(type, v),
         type = "BigDecimal" => separator = ".",
         NEW mode \in Modes, Whole(mode)
  PROVE  GivesBack(Made(mode), type, v)
<1>1. column \in DataTypes /\ HeldBy(content, column) /\ type \in RustTypes
  BY InvColumn DEF RustTypes
<1>2. /\ column.tag = "Numeric" /\ content = Holding("number", v)
      /\ Finite(v)
      /\ type = "Decimal" => ToDecimal[v] = v
  BY <1>1, NumberStored, SomeNumbersAre, DecimalsRound DEF HoldsA, FloatTypes
<1>3. content.form # "null" /\ content.v = v
  BY <1>2, HoldingIs
<1>. DEFINE text == DecimalText(v, column, separator)
            value == Made(mode)
<1>4. value = DecimalKind(text, column)
  <2>1. mode # "unbuffered" => Kept(text, column, fits) = text
    BY KeptWhole
  <2>. QED  BY <1>1, <1>2, <1>3, <2>1, DecimalFetched DEF Made
<1>5. value.kind = "Decimal" /\ value.v = text
  BY <1>4 DEF DecimalKind
<1>6. /\ text.of = "number" /\ text.n = v
      /\ text.sep \in {"none", separator}
  BY DEF DecimalText, NumberText
<1>7. separator \in {".", ","}
  BY SeparatorsAssumption DEF ValuesInv
<1>8. type = "Decimal" => ParseDecimal(NormalizeDecimal(text)) = {v}
  <2>1. ParseNumber(NormalizeDecimal(text)) = {v}
    BY <1>7 DEF ParseNumber, NormalizeDecimal, DecimalText, NumberText
  <2>. QED  BY <1>2, <2>1 DEF ParseDecimal
<1>9. type = "BigDecimal" => ParseNumber(text) = {v}
  BY <1>6 DEF ParseNumber
<1>10. KindType(value).tag = "Decimal"
  BY <1>5 DEF KindType, Exact
<1>. HIDE DEF value, text
<1>11. Compatible(type, KindType(value))
  <2>1. DecimalCompatible(KindType(value))
    BY <1>10 DEF DecimalCompatible
  <2>. QED  BY <2>1, CompatibleIs
<1>12. AsBytes(value) = {Utf8Bytes(text)} /\ Utf8(Utf8Bytes(text)) = {text}
  BY <1>5, DecimalAccess DEF Utf8, Utf8Bytes
<1>13. UNION {Utf8(bytes) : bytes \in AsBytes(value)} = {text}
  BY <1>12
<1>14. /\ DecimalDecode(value) = ParseDecimal(NormalizeDecimal(text))
       /\ BigDecimalDecode(value) = ParseNumber(text)
  BY <1>12, <1>13 DEF DecimalDecode, BigDecimalDecode
<1>15. Decode(type, value) = {v}
  BY <1>8, <1>9, <1>14, DecodeIs
<1>16. Rounded(type, v) = v
  BY RoundedIs DEF ClockTypes, NaiveTypes
<1>17. GivesBack(value, type, v)
  BY <1>5, <1>11, <1>15, <1>16, ExactlyBack
<1>. QED  BY <1>17 DEF value

LEMMA TextsBack ==
  ASSUME ValuesInv, NEW type \in {"String", "Json", "Vec<u8>"}, NEW v, HoldsA(type, v),
         NEW mode \in Modes, Whole(mode)
  PROVE  GivesBack(Made(mode), type, v)
<1>1. column \in DataTypes /\ HeldBy(content, column) /\ type \in RustTypes
  BY InvColumn DEF RustTypes
<1>. DEFINE value == Made(mode)
<1>2. mode # "unbuffered" => Kept(v, column, fits) = v
  BY KeptWhole
<1>3. Rounded(type, v) = v
  BY RoundedIs DEF ClockTypes, NaiveTypes
<1>4. CASE type \in {"String", "Json"}
  <2>1. /\ column.tag \in {"WVarchar", "Varchar"} /\ content = Holding("text", v)
        /\ type = "Json" => v.of \in {"json", "bool"}
    <3>1. /\ type \in {"String", "Json"} /\ v \in ValuesOf(type)
          /\ column \in DataTypes /\ Name(column) = Name(TypeInfo(type))
          /\ content \in Stored(type, {v}, column)
      BY <1>1, <1>4 DEF HoldsA
    <3>2. CASE type = "String"
      <4>1. column.tag = "WVarchar" /\ content = Holding("text", v)
        BY <3>1, <3>2, PlainStored
      <4>. QED  BY <3>2, <4>1
    <3>3. CASE type = "Json"
      BY <3>1, <3>3, JsonStored
    <3>. QED  BY <1>4, <3>2, <3>3
  <2>2. content.form # "null" /\ content.v = v
    BY <2>1, HoldingIs
  <2>3. IsTextColumn(column)
    BY <2>1 DEF IsTextColumn, AcceptsCharacterData
  <2>4. value = Kind("Text", v)
    <3>1. content.form = "text"
      BY <2>1, HoldingIs
    <3>2. mode # "unbuffered" => Buffered(v, column, utf8) = v
      BY <2>2, <3>1, KeptWhole
    <3>. QED  BY <1>1, <1>2, <2>2, <2>3, <3>2, TextFetched DEF Made
  <2>5. value.kind = "Text" /\ value.v = v
    BY <2>4, KindIs
  <2>6. KindType(value).tag = "WVarchar"
    BY <2>5 DEF KindType, Sized
  <2>. HIDE DEF value
  <2>7. Compatible(type, KindType(value))
    <3>1. StringCompatible(KindType(value)) /\ JsonCompatible(KindType(value))
      BY <2>6 DEF StringCompatible, JsonCompatible, AcceptsCharacterData
    <3>. QED  BY <1>4, <3>1, CompatibleIs
  <2>8. AsStr(value) = {v} /\ AsBytes(value) = {Utf8Bytes(v)} /\ Utf8(Utf8Bytes(v)) = {v}
    BY <2>5, TextAccess DEF Utf8, Utf8Bytes
  <2>9. StringDecode(value) = {v}
    BY <2>8 DEF StringDecode
  <2>10. type = "Json" => JsonDecode(value) = {v}
    <3>1. UNION {Utf8(bytes) : bytes \in AsBytes(value)} = {v}
      BY <2>8
    <3>2. JsonDecode(value) = ParseJson(v)
      BY <2>8, <3>1 DEF JsonDecode
    <3>3. type = "Json" => ParseJson(v) = {v}
      BY <2>1 DEF ParseJson
    <3>. QED  BY <3>2, <3>3
  <2>11. Decode(type, value) = {v}
    BY <1>4, <2>9, <2>10, DecodeIs
  <2>12. GivesBack(value, type, v)
    BY <1>3, <2>5, <2>7, <2>11, ExactlyBack
  <2>. QED  BY <2>12 DEF value
<1>5. CASE type = "Vec<u8>"
  <2>1. column.tag = "Varbinary" /\ content = Holding("bytes", v)
    BY <1>1, <1>5, PlainStored DEF HoldsA
  <2>2. content.form # "null" /\ content.v = v
    BY <2>1, HoldingIs
  <2>3. AcceptsBinaryData(column)
    BY <2>1 DEF AcceptsBinaryData
  <2>4. value = Kind("Binary", v)
    BY <1>1, <1>2, <2>2, <2>3, BinaryFetched DEF Made
  <2>5. value.kind = "Binary" /\ value.v = v
    BY <2>4, KindIs
  <2>6. KindType(value).tag = "Varbinary"
    BY <2>5 DEF KindType, Sized
  <2>. HIDE DEF value
  <2>7. Compatible(type, KindType(value))
    <3>1. BytesCompatible(KindType(value))
      BY <2>6 DEF BytesCompatible, AcceptsBinaryData
    <3>. QED  BY <1>5, <3>1, CompatibleIs
  <2>8. Decode(type, value) = {v}
    BY <1>5, <2>5, BinaryAccess, DecodeIs DEF BytesDecode
  <2>9. GivesBack(value, type, v)
    BY <1>3, <2>5, <2>7, <2>8, ExactlyBack
  <2>. QED  BY <2>9 DEF value
<1>. QED  BY <1>4, <1>5

(* The types of ODBC itself are compared with the kind alone.               *)
LEMMA SysBack ==
  ASSUME NEW type \in SysTypes, NEW v, NEW value, value = Kind(SysTag(type), v)
  PROVE  GivesBack(value, type, v)
<1>1. value.kind = SysTag(type) /\ value.v = v /\ SysTag(type) \in {"Date", "Time", "Timestamp"}
  BY KindIs DEF SysTag, SysTypes
<1>2. KindType(value).tag = SysTag(type)
  BY <1>1 DEF KindType, Simple, Precise
<1>3. Compatible(type, KindType(value))
  BY <1>2, CompatibleIs DEF SysCompatible
<1>4. Decode(type, value) = {v}
  BY <1>1, DecodeIs DEF SysDecode
<1>5. Rounded(type, v) = v
  BY RoundedIs DEF SysTypes, ClockTypes, NaiveTypes
<1>. QED  BY <1>1, <1>3, <1>4, <1>5, ExactlyBack

LEMMA DatesBack ==
  ASSUME ValuesInv, NEW type \in DateTypes \cup {"sys::Date"}, NEW v, HoldsA(type, v),
         NEW mode \in Modes
  PROVE  GivesBack(Made(mode), type, v)
<1>1. column \in DataTypes /\ HeldBy(content, column) /\ type \in RustTypes
  BY InvColumn DEF RustTypes, ChronoTypes, TimeTypes, DateTypes
<1>2. /\ column.tag = "Date" /\ v \in Int /\ v % 10 # 0
      /\ content = Holding("date", IF type = "NaiveDate"
                                   THEN 10 * Wrap16(v \div 10) + (v % 10) ELSE v)
  BY <1>1, DateStored DEF HoldsA
<1>3. type = "NaiveDate" => Wrap16(v \div 10) = v \div 10
  BY YearKeptIs DEF HoldsA, YearFits, DateTypes
<1>4. 10 * (v \div 10) + (v % 10) = v
  BY <1>2
<1>5. content = Holding("date", v)
  BY <1>2, <1>3, <1>4
<1>6. content.form # "null" /\ content.v = v
  BY <1>5, HoldingIs
<1>. DEFINE value == Made(mode)
<1>7. value = Kind("Date", v)
  BY <1>1, <1>2, <1>6, PlainFetched DEF Made
<1>. HIDE DEF value
<1>8. CASE type = "sys::Date"
  <2>1. SysTag(type) = "Date"
    BY <1>8 DEF SysTag
  <2>2. GivesBack(value, type, v)
    BY <1>7, <1>8, <2>1, SysBack DEF SysTypes
  <2>. QED  BY <2>2 DEF value
<1>9. CASE type \in DateTypes
  <2>1. value.kind = "Date" /\ value.v = v
    BY <1>7, KindIs
  <2>2. KindType(value).tag = "Date"
    BY <2>1 DEF KindType, Simple
  <2>3. Compatible(type, KindType(value))
    BY <1>9, <2>2, CompatibleIs DEF DateCompatible
  <2>4. NaiveDateDecode(value) = {v}
    BY <1>2, <2>1 DEF NaiveDateDecode, ValidDate
  <2>5. Decode(type, value) = {v}
    BY <1>9, <2>4, DecodeIs
  <2>6. Rounded(type, v) = v
    BY <1>9, RoundedIs DEF DateTypes, ClockTypes, NaiveTypes
  <2>7. GivesBack(value, type, v)
    BY <2>1, <2>3, <2>5, <2>6, ExactlyBack
  <2>. QED  BY <2>7 DEF value
<1>. QED  BY <1>8, <1>9

LEMMA TimesBack ==
  ASSUME ValuesInv, NEW type \in ClockTypes \cup {"sys::Time"}, NEW v, HoldsA(type, v),
         NEW mode \in Modes
  PROVE  GivesBack(Made(mode), type, v)
<1>1. column \in DataTypes /\ HeldBy(content, column) /\ type \in RustTypes
  BY InvColumn DEF RustTypes, ChronoTypes, TimeTypes, ClockTypes
<1>. DEFINE w == IF type = "sys::Time" THEN v ELSE v - (v % SecondUnits)
            value == Made(mode)
<1>2. column.tag = "Time" /\ content = Holding("time", w)
  BY <1>1, TimeStored DEF HoldsA
<1>3. Rounded(type, v) = w
  BY RoundedIs DEF ClockTypes, NaiveTypes
<1>4. type = "sys::Time" => w = v
  OBVIOUS
<1>. HIDE DEF w
<1>5. content.form # "null" /\ content.v = w
  BY <1>2, HoldingIs
<1>6. value = Kind("Time", w)
  BY <1>1, <1>2, <1>5, PlainFetched DEF Made
<1>. HIDE DEF value
<1>7. CASE type = "sys::Time"
  <2>1. SysTag(type) = "Time"
    BY <1>7 DEF SysTag
  <2>2. value = Kind(SysTag(type), v)
    BY <1>4, <1>6, <1>7, <2>1
  <2>3. GivesBack(value, type, v)
    BY <1>7, <2>2, SysBack DEF SysTypes
  <2>. QED  BY <2>3 DEF value
<1>8. CASE type \in ClockTypes
  <2>1. value.kind = "Time" /\ value.v = w
    BY <1>6, KindIs
  <2>2. KindType(value).tag = "Time"
    BY <2>1 DEF KindType, Precise
  <2>3. Compatible(type, KindType(value))
    BY <1>8, <2>2, CompatibleIs DEF ClockCompatible
  <2>4. Decode(type, value) = {w}
    BY <1>8, <2>1, DecodeIs DEF NaiveTimeDecode
  <2>5. GivesBack(value, type, v)
    BY <1>3, <2>1, <2>3, <2>4, ExactlyBack
  <2>. QED  BY <2>5 DEF value
<1>. QED  BY <1>7, <1>8

(* A year of sixteen bits is kept with its units.                           *)
LEMMA NaiveKept ==
  ASSUME NEW v \in Int, YearFits(v \div YearUnits)
  PROVE  TimestampFromNaive(v) = v - (v % MicroUnits)
<1>1. Wrap16(v \div 16) = v \div 16
  BY DEF YearFits, YearUnits
<1>2. (v \div 16) * 16 + (v % 16) - ((v % 16) % 2) = v - (v % 2)
  OBVIOUS
<1>. QED  BY <1>1, <1>2 DEF TimestampFromNaive, YearUnits, MicroUnits

LEMMA TimestampsBack ==
  ASSUME ValuesInv, NEW type \in NaiveTypes \cup {"sys::Timestamp"}, NEW v,
         HoldsA(type, v), NEW mode \in Modes
  PROVE  GivesBack(Made(mode), type, v)
<1>1. column \in DataTypes /\ HeldBy(content, column) /\ type \in RustTypes
  BY InvColumn DEF RustTypes, ChronoTypes, TimeTypes, NaiveTypes
<1>2. /\ column.tag = "Timestamp" /\ v \in Int
      /\ content = Holding("timestamp",
                     CASE type = "NaiveDateTime" -> TimestampFromNaive(v)
                       [] type = "PrimitiveDateTime" -> v - (v % MicroUnits)
                       [] type = "sys::Timestamp" -> v)
  BY <1>1, TimestampStored DEF HoldsA
<1>3. type = "NaiveDateTime" => TimestampFromNaive(v) = v - (v % MicroUnits)
  BY <1>2, YearKeptIs, NaiveKept DEF HoldsA, NaiveTypes
<1>. DEFINE w == IF type = "sys::Timestamp" THEN v ELSE v - (v % MicroUnits)
            value == Made(mode)
<1>4. content = Holding("timestamp", w)
  BY <1>2, <1>3 DEF NaiveTypes
<1>5. Rounded(type, v) = w
  BY RoundedIs DEF ClockTypes, NaiveTypes
<1>6. type = "sys::Timestamp" => w = v
  OBVIOUS
<1>. HIDE DEF w
<1>7. content.form # "null" /\ content.v = w
  BY <1>4, HoldingIs
<1>8. value = Kind("Timestamp", w)
  BY <1>1, <1>2, <1>7, PlainFetched DEF Made
<1>. HIDE DEF value
<1>9. CASE type = "sys::Timestamp"
  <2>1. SysTag(type) = "Timestamp"
    BY <1>9 DEF SysTag
  <2>2. value = Kind(SysTag(type), v)
    BY <1>6, <1>8, <1>9, <2>1
  <2>3. GivesBack(value, type, v)
    BY <1>9, <2>2, SysBack DEF SysTypes
  <2>. QED  BY <2>3 DEF value
<1>10. CASE type \in NaiveTypes
  <2>1. value.kind = "Timestamp" /\ value.v = w
    BY <1>8, KindIs
  <2>2. KindType(value).tag = "Timestamp"
    BY <2>1 DEF KindType, Precise
  <2>3. Compatible(type, KindType(value))
    BY <1>10, <2>2, CompatibleIs DEF NaiveCompatible
  <2>4. NaiveDateTimeDecode(value) = {w} /\ PrimitiveDecode(value) = {w}
    BY <2>1 DEF NaiveDateTimeDecode, PrimitiveDecode
  <2>5. Decode(type, value) = {w}
    BY <1>10, <2>4, DecodeIs DEF NaiveTypes
  <2>6. GivesBack(value, type, v)
    BY <1>5, <2>1, <2>3, <2>5, ExactlyBack
  <2>. QED  BY <2>6 DEF value
<1>. QED  BY <1>9, <1>10

(* The text of a moment is always read.                                     *)
LEMMA MomentsDecode ==
  ASSUME NEW z, NEW type \in ZonedTypes, NEW value, value = Kind("Text", MomentText(z))
  PROVE  Decode(type, value) # {}
<1>. DEFINE text == MomentText(z)
<1>1. AsStr(value) = {text}
  BY KindIs, TextAccess
<1>2. ParseOffset(text) # {}
  BY DEF ParseOffset, MomentText, DateTimeText
<1>. HIDE DEF text
<1>3. UNION {ParseOffset(t) : t \in AsStr(value)} # {}
  BY <1>1, <1>2
<1>4. DateTimeFixedDecode(value) # {} /\ OffsetDateTimeDecode(value) # {}
  BY <1>3 DEF DateTimeFixedDecode, OffsetDateTimeDecode
<1>5. DateTimeUtcDecode(value) # {}
  BY <1>4 DEF DateTimeUtcDecode
<1>6. DateTimeLocalDecode(value) # {}
  BY <1>5 DEF DateTimeLocalDecode
<1>. QED  BY <1>4, <1>5, <1>6, DecodeIs DEF ZonedTypes

LEMMA ZonedBack ==
  ASSUME ValuesInv, NEW type \in ZonedTypes \ {"DateTime<Local>"}, NEW v,
         HoldsA(type, v), NEW mode \in Modes
  PROVE  GivesBack(Made(mode), type, v)
<1>1. column \in DataTypes /\ HeldBy(content, column) /\ type \in RustTypes
  BY InvColumn DEF RustTypes, ChronoTypes, TimeTypes, ZonedTypes
<1>2. /\ IsOther(column, DateTimeOffset) /\ v.at \in Int /\ v.offset \in Int
      /\ content = Holding("zoned", Zoned(v.at + v.offset, v.offset))
  BY <1>1, ZonedStored DEF HoldsA
<1>. DEFINE z == Zoned(v.at + v.offset, v.offset)
            value == Made(mode)
<1>3. content.form # "null" /\ content.v = z
  BY <1>2, HoldingIs
<1>4. z.at = v.at /\ z.offset = v.offset
  BY <1>2 DEF Zoned
<1>. HIDE DEF z
<1>5. value = Kind("Text", MomentText(z))
  BY <1>1, <1>2, <1>3, ZonedFetched DEF Made
<1>. HIDE DEF value
<1>6. value.kind = "Text"
  BY <1>5, KindIs
<1>7. KindType(value).tag = "WVarchar"
  BY <1>6 DEF KindType, Sized
<1>8. Compatible(type, KindType(value))
  <2>1. ZonedCompatible(KindType(value)) /\ OffsetDateTimeCompatible(KindType(value))
    BY <1>7 DEF ZonedCompatible, OffsetDateTimeCompatible, NaiveCompatible,
         AcceptsCharacterData
  <2>. QED  BY <2>1, CompatibleIs
<1>9. Decode(type, value) # {}
  BY <1>5, MomentsDecode
<1>10. \A got \in Decode(type, value) : got.at = v.at
  BY <1>2, <1>4, <1>5, MomentsRead
<1>11. Rounded(type, v) = v
  BY RoundedIs DEF ZonedTypes, ClockTypes, NaiveTypes
<1>12. Meaning(type, Decode(type, value)) = Meaning(type, {v})
  <2>1. {got.at : got \in Decode(type, value)} = {v.at}
    BY <1>9, <1>10
  <2>. QED  BY <2>1 DEF Meaning
<1>13. GivesBack(value, type, v)
  BY <1>6, <1>8, <1>9, <1>11, <1>12 DEF GivesBack
<1>. QED  BY <1>13 DEF value

(* Every type but the exempt ones gets its values back.                     *)
LEMMA EveryTypeBack ==
  ASSUME ValuesInv, NEW type \in RustTypes \ Exempt, NEW v, HoldsA(type, v),
         type = "BigDecimal" => separator = ".",
         NEW mode \in Modes, Whole(mode)
  PROVE  GivesBack(Made(mode), type, v)
<1>1. CASE type = "Geometry"
  BY <1>1, InvColumn, OpaqueStored DEF HoldsA
<1>2. CASE type \in {"String", "Json", "Vec<u8>"}
  BY <1>2, TextsBack
<1>3. CASE type \in {"Decimal", "BigDecimal"}
  BY <1>3, DecimalsBack
<1>4. CASE type \in IntegerTypes
  BY <1>4, IntegersBack
<1>5. CASE type \in FloatTypes
  BY <1>5, FloatsBack
<1>6. CASE type \in DateTypes \cup {"sys::Date"}
  BY <1>6, DatesBack
<1>7. CASE type \in ClockTypes \cup {"sys::Time"}
  BY <1>7, TimesBack
<1>8. CASE type \in NaiveTypes \cup {"sys::Timestamp"}
  BY <1>8, TimestampsBack
<1>9. CASE type \in ZonedTypes \ {"DateTime<Local>"}
  BY <1>9, ZonedBack
<1>. QED
  BY <1>1, <1>2, <1>3, <1>4, <1>5, <1>6, <1>7, <1>8, <1>9
  DEF RustTypes, Exempt, ChronoTypes, TimeTypes, DateTypes, ClockTypes, NaiveTypes,
      ZonedTypes

(* Under the invariant, what was bound is read back.                        *)
LEMMA RoundTripsKept == ValuesInv => ReadsBackWhatItBound
<1>. SUFFICES ASSUME ValuesInv, RoundTrips, NEW mode \in Modes, Whole(mode)
     PROVE  /\ results[mode].outcome = IF bound.option = {} THEN "null" ELSE "value"
            /\ Meaning(bound.type, Got(mode)) =
                 Meaning(bound.type, {Rounded(bound.type, v) : v \in bound.option})
  BY DEF ReadsBackWhatItBound
<1>. DEFINE type == bound.type
            result == TryGet(reading.type, reading.checked, Made(mode))
<1>1. /\ results[mode] = result /\ Got(mode) = result.values
      /\ reading.type = type /\ type \in RustTypes \ Exempt
      /\ reading.checked \in BOOLEAN
  BY ResultsAre DEF RoundTrips, Got
<1>2. bound # None
  BY <1>1 DEF None, RustTypes, IntegerTypes, IntegerTypeInfo, FloatTypes,
       ChronoTypes,
     TimeTypes
<1>3. BoundHere
  BY <1>2 DEF ValuesInv, RoundTrips
<1>4. CASE bound.option = {}
  <2>1. content = Null
    BY <1>3, <1>4, NullStored DEF BoundHere
  <2>2. Made(mode).kind = "Null"
    BY <2>1, NullFetched DEF Null, Made, NullKind
  <2>3. result.outcome = "null" /\ result.values = {}
    BY <2>2 DEF TryGet, Outcome
  <2>4. {Rounded(type, v) : v \in bound.option} = {}
    BY <1>4
  <2>. HIDE DEF result
  <2>. QED  BY <1>1, <1>4, <2>3, <2>4
<1>5. ASSUME NEW v \in ValuesOf(type), bound.option = {v}
      PROVE  /\ results[mode].outcome = IF bound.option = {} THEN "null" ELSE "value"
             /\ Meaning(bound.type, Got(mode)) =
                  Meaning(bound.type, {Rounded(bound.type, w) : w \in bound.option})
  <2>1. HoldsA(type, v)
    BY <1>3, <1>5 DEF BoundHere, HoldsA, RoundTrips
  <2>2. type = "BigDecimal" => separator = "."
    BY DEF RoundTrips
  <2>. HIDE DEF type
  <2>3. GivesBack(Made(mode), type, v)
    BY <1>1, <2>1, <2>2, EveryTypeBack
  <2>4. /\ result.outcome = "value"
        /\ Meaning(type, result.values) = Meaning(type, {Rounded(type, v)})
    BY <1>1, <2>3, ReadBack
  <2>5. {Rounded(type, w) : w \in bound.option} = {Rounded(type, v)}
    BY <1>5
  <2>. HIDE DEF result
  <2>6. results[mode].outcome = "value" /\ bound.option # {}
    BY <1>1, <1>5, <2>4
  <2>7. Meaning(type, Got(mode)) = Meaning(type, {Rounded(type, w) : w \in bound.option})
    BY <1>1, <2>4, <2>5
  <2>. QED  BY <2>6, <2>7 DEF type
<1>. QED  BY <1>3, <1>4, <1>5 DEF BoundHere

-----------------------------------------------------------------------------
(* The theorems of the specification.                                       *)

(* Every outcome has its form: an integer kind fits an i64, a read yields   *)
(* one value or none, and an integer type is read as one of its own values  *)
(* (the buffers of map_buffer_desc, and the try_from of every integer       *)
(* Decode).                                                                 *)
THEOREM ValuesTyped == ValuesSpec => []ValuesTypeOK
BY ValuesInvariant, TypesKept, PTL

(* What a program binds into a column of the value's own type it reads back *)
(* from it, by either fetch mode and under the check of compatibility (the  *)
(* Encode, Type and Decode of each Rust type).                              *)
THEOREM BoundValuesReadBack == ValuesSpec => []ReadsBackWhatItBound
BY ValuesInvariant, RoundTripsKept, PTL

(* Whatever Rust type is asked for, a number that is read is the number the *)
(* column holds, and a moment is its instant (as_i64, as_f64, as_bool and   *)
(* the decoders built on them).                                             *)
THEOREM ReadsTellTheTruth == ValuesSpec => []ReadsAreTrue
BY ValuesInvariant, TruthKept, PTL

(* Buffered and row-by-row fetching read alike, refusals included, where    *)
(* nothing is cut and no UNIQUEIDENTIFIER is read (map_buffer_desc against  *)
(* fetch_value_for_column).                                                 *)
THEOREM ModesTellTheSame == ValuesSpec => []ModesAgree
BY ValuesInvariant, ModesKept, PTL

(* A row is made through the Any driver from every kind but dates, times    *)
(* and a GUID, and its integers keep their values (any.rs against           *)
(* value.rs).                                                               *)
THEOREM AnyRowsDecode == ValuesSpec => []AnyRowsAreMade
BY ValuesInvariant, AnyMade, PTL

(* A column type read back from offline query data has the name, the buffer *)
(* and the compatible Rust types it had (type_info.rs, serialized and       *)
(* deserialized by name).                                                   *)
THEOREM OfflineTypesKept == ValuesSpec => []OfflineKeepsTypes
BY ValuesInvariant, OfflineKept, PTL

=============================================================================
