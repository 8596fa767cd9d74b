CONSTANTS
  Bytes = {"a", "b"}
  Wires <- MCWires
  MaxSize = 2

SPECIFICATION Spec

PROPERTIES
  NoDoubleDelete
