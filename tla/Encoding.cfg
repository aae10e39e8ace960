SPECIFICATION EncodingSpec
CONSTANTS
  ServiceName = 12
  MaxHostname = 130
INVARIANTS
  LengthIsHonest
  EncodesShortNames
