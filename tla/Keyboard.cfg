SPECIFICATION MCSpec
CONSTANTS
  Keys <- MCKeys
  MaxWire = 4
  MaxHeld = 3
INVARIANTS TypeOK DecodedAsTyped NoStuckModifier
