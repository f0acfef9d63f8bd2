CONSTANTS
  k1 = k1
  k2 = k2
  k3 = k3
  k4 = k4
  Sig <- MCSig
  SlotOf <- MCSlotOf
  Info = {a, b}
  None = None
  BlkSize = 2
  MaxNode = 3
SPECIFICATION Spec
SYMMETRY DataSymmetry
INVARIANTS ListsSound FreshIsUnused
PROPERTIES MapSpec
