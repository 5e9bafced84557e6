\* Two more lines typed, then a write.
SPECIFICATION Spec
CONSTANTS
  Openings <- MCOpenings
  Lines <- MCLines
  NewValues <- MCNewValues
  FieldKeys <- MCFieldKeys
  Hints <- MCHints
  SectionKey = 3
  MaxTyped = 2
  MaxWrites = 1
INVARIANTS
  EmitInvertsParse
  WritesReadBack
  RefusedOnlyBehindBlanks
  FaultIsFirst
CHECK_DEADLOCK FALSE
