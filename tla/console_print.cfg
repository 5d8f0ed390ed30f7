CONSTANTS
  Parameters <- MCUnsigned
  Lines <- MCSetUnsigned
  IntegerText <- MCIntegerText
  FloatText <- MCFloatText
  NaN = NaN
  NULL = NULL
  WIDTH = 4
  Floats <- MCFloats
  INFINITY = 512
  BUFFER = 8
  MAX_CMD_TOKENS = 4
  DIGITS = 3
  TABSTOP = 4
  COLUMNS = 8
SPECIFICATION Spec
INVARIANTS UnsignedShown
