SPECIFICATION CSpec
CONSTANTS
  Bytes <- SomeBytes
  MaxLen = 3
  BUFSIZE = 271
  Crc <- CrcOf
  Separator = 47
  Zeros <- SomeZeros
  Long <- SomeLong
  Settings <- SomeSettings
INVARIANTS CrcIsRemainder DamageDetected ZeroIsZero SplitThenJoin WriteReadBack
CHECK_DEADLOCK FALSE
