CONSTANTS
  Bytes = {"a", "b"}
  Wires <- MCWires
  MaxSize = 3

SPECIFICATION Spec

INVARIANTS
  TypeOK

PROPERTIES
  ReserveMakesRoom
  Refinement
