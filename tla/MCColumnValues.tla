--------------------------- MODULE MCColumnValues ---------------------------
(* Instances of ColumnValues: numbers at the ends of every integer type and    *)
(* ones that no float or no Decimal has, texts of every kind, dates and times  *)
(* with and without fractions and offsets.                                     *)
EXTENDS ColumnValues, TLC

MCBits == 8 :> 3 @@ 16 :> 5 @@ 32 :> 7 @@ 64 :> 9

(* 129 is rounded by an f64; 133 and its half less are rounded by it to the    *)
(* middle of two f32s; 1401 is rounded by a Decimal and 1801 beyond it; 3072   *)
(* is beyond an f32.                                                           *)
MCNumbers ==
  {0, 2, 5, -2, 50, 51, 265, 1401, 1801, 3072}
    \cup {2 * n : n \in {-4, 3, 4, 7, 8, -16, 15, 16, 31, 32, -64, 63, 64,
                         127, 128, 129, 133, -256, 255, 256, 511}}

MCTexts ==
  {NumberText(4, "none"), NumberText(4, "."), NumberText(5, "."),
   NumberText(4, ","), NumberText(1022, "none"), NumberText(70, "none"),
   NumberText(50, "none"), NumberText(265, "."),
   BoolText(TRUE), BoolText(FALSE), TextOf("json", 1),
   TextOf("plain", 1), TextOf("plain", 2), TextOf("json", 2), UuidText(UuidBytes(1, FALSE)),
   TextOf("date", 71), TextOf("time", 9),
   DateTimeText(37, 0, "plain"), DateTimeText(37, 4, "sql"),
   DateTimeText(37, 4, "rfc")}

MCNonAscii == {TextOf("plain", 2), TextOf("json", 2)}

(* Rounding: an f32 has 5 significant bits, an f64 7, a Decimal made of one 6; *)
(* a Decimal has fractions up to 1100.  Ties go to the even neighbour.         *)
MCInfinity == 4096

ToEven(n, grain) ==
  LET q    == n \div grain
      rest == n % grain
  IN  grain * (IF 2 * rest > grain \/ (2 * rest = grain /\ q % 2 = 1)
               THEN q + 1 ELSE q)

Grain(n, bits) ==
  CHOOSE g \in {2 ^ k : k \in 0 .. 12} :
    LET size == IF n < 0 THEN -n ELSE n
    IN  size < 2 ^ bits * g /\ (g = 1 \/ size >= 2 ^ (bits - 1) * g)

Significant(n, bits) == ToEven(n, Grain(n, bits))

UpTo(n, largest) ==
  IF n > largest THEN MCInfinity ELSE IF n < -largest THEN -MCInfinity ELSE n

MCHalves ==
  LET given == MCNumbers \cup {t.n : t \in {u \in MCTexts : u.of = "number"}}
  IN  given \cup {ToEven(n, 2) : n \in given} \cup {n - (n % 2) : n \in given}
        \cup {2 * i : i \in -256 .. 255} \cup -130 .. 130
        \cup {n \in -MCInfinity .. MCInfinity : Significant(n, 7) = n}

MCToF32 == [n \in MCHalves |-> UpTo(Significant(n, 5), 1984)]

MCToF64 == [n \in MCHalves |-> UpTo(Significant(n, 7), 4064)]

MCToDecimal ==
  [n \in MCHalves |-> UpTo(IF n \in -1100 .. 1100 THEN n ELSE ToEven(n, 2), 1600)]

MCFloatToDecimal == [n \in MCHalves |-> UpTo(Significant(n, 6), 1600)]

MCBytes ==
  {TextOf("raw", 1), TextOf("wkb", 1), UuidBytes(1, FALSE),
   Utf8Bytes(UuidText(UuidBytes(1, FALSE))),
   Utf8Bytes(NumberText(4, ".")), Utf8Bytes(TextOf("json", 1))}

MCDates == {12, 71, 150 + 9}

MCFarDates == MCDates \cup {341}

MCDateTimes == {36, 37, 3 * YearUnits + 8, 34 * YearUnits + 4}

MCUuids == {UuidBytes(id, FALSE) : id \in 1 .. 2}

MCZoned == {Zoned(40, 0), Zoned(41, 4), Zoned(44, -4), Zoned(40, 4)}

MCColumns ==
  {Simple(tag) : tag \in {"TinyInt", "SmallInt", "Integer", "BigInt", "Bit",
                          "Real", "Double", "Date", "Unknown"}}
    \cup {Sized(tag, length) :
            tag \in {"Char", "Varchar", "LongVarchar", "WChar", "WVarchar",
                     "WLongVarchar", "Binary", "Varbinary", "LongVarbinary"},
            length \in {0, 40}}
    \cup {Precise(tag, 7) : tag \in {"Float", "Time", "Timestamp"}}
    \cup {Exact(tag, 10, 4) : tag \in {"Decimal", "Numeric"}}
    \cup {Exact("Decimal", 10, 0)}
    \cup {Other(code, 36, 7) :
            code \in {Guid, Variant, Udt, Xml, DateTimeOffset, HierarchyId, -154}}

=============================================================================
