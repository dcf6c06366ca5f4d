SPECIFICATION Spec
CONSTANTS
  Node = {n1,n2,n3}
  Nil = Nil
  MaxTerm = 2
  MaxLog = 1
  MaxFaults = 1
SYMMETRY Symmetry
INVARIANTS OneLeaderPerTerm OneWriterPerTerm IInv
PROPERTIES TermDiscipline
CHECK_DEADLOCK FALSE
