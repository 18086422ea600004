\* Every knob off, and a text whose tenth byte is inside a character.
SPECIFICATION Spec
CONSTANTS
  Documents <- WideDocuments
  FieldNames <- MCFieldNames
  MaxDepth = 3
  MaxSample = 1
  MaxRest = 1
  Options <- OnlyPlain
INVARIANT PlainWhenOff
CHECK_DEADLOCK FALSE
