SPECIFICATION Spec
CONSTANTS
  SizeT = 10
  HeapLimit = 3
  BaseSize = 2
  GrowSize = 1
  Value = {o1, o2}
  Garbage = garbage
INVARIANTS
  TypeOK
  CountsAgree
PROPERTY
  ImplementsTable
