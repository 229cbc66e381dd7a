--------------------------- MODULE TemporalCodecs ---------------------------
(***************************************************************************)
(* Dates and times: types/chrono.rs, and types/time.rs where it differs.   *)
(*                                                                         *)
(* A value with an offset is [at |-> instant, offset |-> offset]; two of   *)
(* them are equal when their instants are.                                 *)
(***************************************************************************)
EXTENDS ValueCodecs

CONSTANTS
  FirstDay, LastDay      \* the integers taken for a date, 19000101..30001231

ChronoTypes == {"NaiveDate", "NaiveTime", "NaiveDateTime",
                "DateTime<Utc>", "DateTime<FixedOffset>", "DateTime<Local>"}

TimeTypes == {"time::Date", "time::Time", "PrimitiveDateTime", "OffsetDateTime"}

DateTypes == {"NaiveDate", "time::Date"}
ClockTypes == {"NaiveTime", "time::Time"}
NaiveTypes == {"NaiveDateTime", "PrimitiveDateTime"}
ZonedTypes == {"DateTime<Utc>", "DateTime<FixedOffset>", "DateTime<Local>",
               "OffsetDateTime"}

Zoned(local, offset) == [at |-> local - offset, offset |-> offset]

-----------------------------------------------------------------------------
(* Compatibility.  Every one of them reads text as well. *)

DateCompatible(column) == column.tag = "Date" \/ AcceptsCharacterData(column)

ClockCompatible(column) == column.tag = "Time" \/ AcceptsCharacterData(column)

NaiveCompatible(column) ==
  column.tag = "Timestamp" \/ AcceptsCharacterData(column)

ZonedCompatible(column) ==
  NaiveCompatible(column) \/ IsOther(column, DateTimeOffset)

OffsetDateTimeCompatible(column) ==
  \/ column.tag = "Timestamp"
  \/ IsOther(column, DateTimeOffset)
  \/ AcceptsCharacterData(column)

-----------------------------------------------------------------------------
(* Encoding.  The year is cut to 16 bits, a time to its seconds, and a      *)
(* timestamp to its microseconds.                                          *)

EncodeDate(date) ==
  Kind("Date", 10 * Wrap16(date \div 10) + (date % 10))

EncodeTime(time) == Kind("Time", time - (time % SecondUnits))

TimestampFromNaive(local) ==
  LET rest == local % YearUnits
  IN  Wrap16(local \div YearUnits) * YearUnits + rest - (rest % MicroUnits)

EncodeNaiveDateTime(local) == Kind("Timestamp", TimestampFromNaive(local))

(* RFC 3339 keeps the whole fraction and the offset. *)
EncodeZoned(moment) ==
  Kind("Text", DateTimeText(moment.at + moment.offset, moment.offset, "rfc"))

(* A local time is sent as what the wall clock shows, without its offset. *)
EncodeLocal(moment) ==
  Kind("Timestamp", TimestampFromNaive(moment.at + moment.offset))

(* The time crate's years fit 16 bits. *)
EncodeTimeDate(date) == Kind("Date", date)

EncodePrimitive(local) == Kind("Timestamp", local - (local % MicroUnits))

-----------------------------------------------------------------------------
(* Decoding. *)

ValidDate(date) == IF date % 10 # 0 THEN {date} ELSE {}

ParseYyyymmdd(n) == IF n \in FirstDay .. LastDay THEN ValidDate(n) ELSE {}

(* Eight digits, years 1 to 9999 in the scaled calendar. *)
ParseYyyymmddText(text) ==
  IF text.of = "number" /\ text.sep = "none" /\ text.n \div 2 \in 10 .. 159
  THEN ValidDate(text.n \div 2) ELSE {}

ParseDateText(text) ==
  IF text.of = "date" THEN {text.v} ELSE ParseYyyymmddText(text)

NaiveDateDecode(value) ==
  LET spelled == UNION {ParseDateText(text) : text \in AsStr(value)}
  IN  IF value.kind = "Date" THEN ValidDate(value.v)
      ELSE IF spelled # {} THEN spelled
      ELSE IF AsI64(value) # {} THEN UNION {ParseYyyymmdd(n) : n \in AsI64(value)}
      ELSE UNION {ParseYyyymmdd(n \div 2) : n \in AsF64(value)}

NaiveTimeDecode(value) ==
  IF value.kind = "Time" THEN {value.v}
  ELSE {text.v : text \in {t \in AsStr(value) : t.of = "time"}}

(* Text with an offset after a blank loses the offset. *)
ParseSqlDateTime(text) ==
  IF text.of = "datetime" /\ text.style \in {"sql", "plain"}
  THEN {text.local} ELSE {}

NaiveDateTimeDecode(value) ==
  IF value.kind = "Timestamp" THEN {value.v}
  ELSE UNION {ParseSqlDateTime(text) : text \in AsStr(value)}

ParseOffset(text) ==
  IF text.of = "datetime" /\ text.style \in {"rfc", "sql"}
  THEN {Zoned(text.local, text.offset)} ELSE {}

(* What has no offset is taken for UTC. *)
DateTimeFixedDecode(value) ==
  LET withOffset == UNION {ParseOffset(text) : text \in AsStr(value)}
  IN  IF withOffset # {} THEN withOffset
      ELSE {Zoned(local, 0) : local \in NaiveDateTimeDecode(value)}

InZone(moment, offset) == [moment EXCEPT !.offset = offset]

DateTimeUtcDecode(value) ==
  {InZone(moment, 0) : moment \in DateTimeFixedDecode(value)}

DateTimeLocalDecode(value) ==
  {InZone(moment, LocalOffset) : moment \in DateTimeUtcDecode(value)}

(* time.rs: dates and times are decoded in the same order, and ISO 8601 text *)
(* with an offset also yields a date and time.                              *)
TimeDateDecode(value) == NaiveDateDecode(value)

TimeTimeDecode(value) == NaiveTimeDecode(value)

PrimitiveDecode(value) ==
  IF value.kind = "Timestamp" THEN {value.v}
  ELSE {text.local : text \in {t \in AsStr(value) : t.of = "datetime"}}

OffsetDateTimeDecode(value) ==
  LET withOffset == UNION {ParseOffset(text) : text \in AsStr(value)}
  IN  IF withOffset # {} THEN withOffset
      ELSE {Zoned(local, 0) : local \in PrimitiveDecode(value)}

=============================================================================
