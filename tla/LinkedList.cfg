SPECIFICATION Spec
CONSTANTS
  Addrs = {a1, a2, a3, a4}
  Data = {x, y}
  Null = Null
INVARIANTS
  TypeOK
  Linked
PROPERTY ListIsSequence
