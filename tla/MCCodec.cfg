SPECIFICATION CodecSpec
CONSTANTS
  Schema <- MCSchema
  Long = 128
  MaxFaulty = 24
INVARIANTS   CutsNoticed
CHECK_DEADLOCK FALSE
