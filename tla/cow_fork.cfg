SPECIFICATION Spec
CONSTANTS
  Envs = {e1, e2, e3}
  Boot = e1
  NPAGES = 7
  NVA = 3
  ReadOnly = {2}
  Values = {0, 1}
  Null = Null
SYMMETRY SlotSymmetry
INVARIANTS SharingSound ChildIsCopy NoBadFault
PROPERTIES PrivateMemory
CHECK_DEADLOCK FALSE
