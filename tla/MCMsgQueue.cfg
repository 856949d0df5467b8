CONSTANTS
  Node = {n1, n2, n3, n4}
  Stamp = {s1, s2, s3}
  None = None
SPECIFICATION Spec
INVARIANTS
  QueueInv
  FindStampBounds
PROPERTIES
  LosslessFifo
  DelStampExact
CHECK_DEADLOCK FALSE
SYMMETRY Symmetry
