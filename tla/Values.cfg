\* Every column type, every Rust type, both fetch modes.
SPECIFICATION ValuesSpec
CONSTANTS
  Bits <- MCBits
  LocalOffset = 4
  Infinity <- MCInfinity
  ToF32 <- MCToF32
  ToF64 <- MCToF64
  ToDecimal <- MCToDecimal
  FloatToDecimal <- MCFloatToDecimal
  FirstDay = 31
  LastDay = 129
  Halves <- MCHalves
  SomeNumbers <- MCNumbers
  SomeTexts <- MCTexts
  NonAscii <- MCNonAscii
  SomeBytes <- MCBytes
  SomeDates <- MCFarDates
  SomeTimes = {8, 9}
  SomeDateTimes <- MCDateTimes
  SomeZoned <- MCZoned
  SomeUuids <- MCUuids
  Columns <- MCColumns
  Separators = {".", ","}
INVARIANTS
  ValuesTypeOK
  ReadsBackWhatItBound
  ReadsAreTrue
  ModesAgree
  AnyRowsAreMade
  OfflineKeepsTypes
\* One value has been read.
CHECK_DEADLOCK FALSE
