---------------------------- MODULE ColumnTypes ----------------------------
(***************************************************************************)
(* The type information of a column (type_info.rs): ODBC data types, their *)
(* names, the groups the Rust types ask for, and the form in which offline *)
(* query data keeps them.                                                  *)
(*                                                                         *)
(* A data type is a record: its tag and the parameters of that tag, under  *)
(* the names serialization gives them.  A length or a column size of 0     *)
(* stands for None.                                                        *)
(***************************************************************************)
EXTENDS Integers

Simple(tag) == [tag |-> tag]

Sized(tag, length) == [tag |-> tag, length |-> length]

Precise(tag, precision) == [tag |-> tag, precision |-> precision]

Exact(tag, precision, scale) ==
  [tag |-> tag, precision |-> precision, scale |-> scale]

Other(code, size, digits) ==
  [tag |-> "Other", sql_data_type |-> code, column_size |-> size,
   decimal_digits |-> digits]

PlainTags == {"BigInt", "Bit", "Date", "Double", "Integer", "Real", "SmallInt",
              "TinyInt", "Unknown"}

SizedTags == {"Binary", "Char", "LongVarbinary", "LongVarchar", "Varbinary",
              "Varchar", "WChar", "WLongVarchar", "WVarchar"}

PreciseTags == {"Float", "Time", "Timestamp"}

ExactTags == {"Decimal", "Numeric"}

(* odbc-api's DataType. *)
DataTypes ==
  [tag : PlainTags] \cup [tag : SizedTags, length : Nat]
    \cup [tag : PreciseTags, precision : Int]
    \cup [tag : ExactTags, precision : Nat, scale : Int]
    \cup [tag : {"Other"}, sql_data_type : Int, column_size : Nat,
          decimal_digits : Int]

(* The codes of SQL Server's own types, and SQL_UNKNOWN_TYPE. *)
Guid == -11
Variant == -150
Udt == -151
Xml == -152
DateTimeOffset == -155
HierarchyId == -156
UnknownCode == 0

IsOther(type, code) == type.tag = "Other" /\ type.sql_data_type = code

-----------------------------------------------------------------------------
(* The groups a type may belong to (DataTypeExt). *)

AcceptsCharacterData(type) ==
  type.tag \in {"Char", "Varchar", "LongVarchar",
                "WChar", "WVarchar", "WLongVarchar"}

AcceptsBinaryData(type) ==
  type.tag \in {"Binary", "Varbinary", "LongVarbinary"}

AcceptsNumericData(type) ==
  type.tag \in {"TinyInt", "SmallInt", "Integer", "BigInt",
                "Real", "Float", "Double", "Decimal", "Numeric"}

-----------------------------------------------------------------------------
(* Names. *)

TagNames ==
  [BigInt |-> "BIGINT", Binary |-> "BINARY", Bit |-> "BIT", Char |-> "CHAR",
   Date |-> "DATE", Decimal |-> "DECIMAL", Double |-> "DOUBLE",
   Float |-> "FLOAT", Integer |-> "INTEGER",
   LongVarbinary |-> "LONGVARBINARY", LongVarchar |-> "LONGVARCHAR",
   Numeric |-> "NUMERIC", Real |-> "REAL", SmallInt |-> "SMALLINT",
   Time |-> "TIME", Timestamp |-> "TIMESTAMP", TinyInt |-> "TINYINT",
   Varbinary |-> "VARBINARY", Varchar |-> "VARCHAR", WChar |-> "WCHAR",
   WLongVarchar |-> "WLONGVARCHAR", WVarchar |-> "WVARCHAR",
   Unknown |-> "UNKNOWN"]

CodeName(code) ==
  CASE code = Guid -> "UNIQUEIDENTIFIER"
    [] code = Variant -> "SQL_VARIANT"
    [] code = Udt -> "UDT"
    [] code = Xml -> "XML"
    [] code = DateTimeOffset -> "DATETIMEOFFSET"
    [] code = HierarchyId -> "HIERARCHYID"
    [] OTHER -> "OTHER"

Name(type) ==
  IF type.tag = "Other" THEN CodeName(type.sql_data_type)
                        ELSE TagNames[type.tag]

-----------------------------------------------------------------------------
(* Offline query data.  A field that is not written is read as its default. *)

WrittenFields(type) ==
  IF type.tag \in {"LongVarchar", "LongVarbinary", "WLongVarchar"}
  THEN {} ELSE (DOMAIN type) \ {"tag"}

Serialize(type) ==
  [field \in {"type_name"} \cup WrittenFields(type) |->
     IF field = "type_name" THEN Name(type) ELSE type[field]]

Field(data, field) == IF field \in DOMAIN data THEN data[field] ELSE 0

NamedPlain ==
  [BIGINT |-> "BigInt", BIT |-> "Bit", DATE |-> "Date", DOUBLE |-> "Double",
   INTEGER |-> "Integer", REAL |-> "Real", SMALLINT |-> "SmallInt",
   TINYINT |-> "TinyInt", UNKNOWN |-> "Unknown"]

NamedSized ==
  [BINARY |-> "Binary", CHAR |-> "Char", LONGVARBINARY |-> "LongVarbinary",
   LONGVARCHAR |-> "LongVarchar", VARBINARY |-> "Varbinary",
   VARCHAR |-> "Varchar", WCHAR |-> "WChar",
   WLONGVARCHAR |-> "WLongVarchar", WVARCHAR |-> "WVarchar"]

NamedPrecise ==
  [FLOAT |-> "Float", TIME |-> "Time", TIMESTAMP |-> "Timestamp"]

NamedExact == [DECIMAL |-> "Decimal", NUMERIC |-> "Numeric"]

(* Mutant: DATETIMEOFFSET is forgotten. *)
NamedCodeWithoutOffset ==
  [UNIQUEIDENTIFIER |-> Guid, SQL_VARIANT |-> Variant, UDT |-> Udt,
   XML |-> Xml, HIERARCHYID |-> HierarchyId]

NamedCode ==
  [UNIQUEIDENTIFIER |-> Guid, SQL_VARIANT |-> Variant, UDT |-> Udt,
   XML |-> Xml, DATETIMEOFFSET |-> DateTimeOffset,
   HIERARCHYID |-> HierarchyId]

(* "OTHER" carries its code; odbc-api's DataType::new makes an Other of the  *)
(* codes it does not know, which are the ones that were named so.            *)
Deserialize(data) ==
  LET name == data.type_name IN
  CASE name \in DOMAIN NamedPlain -> Simple(NamedPlain[name])
    [] name \in DOMAIN NamedSized ->
         Sized(NamedSized[name], Field(data, "length"))
    [] name \in DOMAIN NamedPrecise ->
         Precise(NamedPrecise[name], Field(data, "precision"))
    [] name \in DOMAIN NamedExact ->
         Exact(NamedExact[name], Field(data, "precision"),
               Field(data, "scale"))
    [] name \in DOMAIN NamedCode -> Other(NamedCode[name], 0, 0)
    [] name = "OTHER" ->
         Other(Field(data, "sql_data_type"), Field(data, "column_size"),
               Field(data, "decimal_digits"))
    [] OTHER -> Other(UnknownCode, Field(data, "length"), 0)

=============================================================================
