\* Two miners race each other and the handlers of the validator.
CONSTANTS
  v1 = v1
  v2 = v2
  v3 = v3
  m1 = m1
  m2 = m2
  b1 = b1
  b2 = b2
  b3 = b3
  none = none
  Nodes <- RivalNodes
  Miners = {m1, m2}
  Validators = {v1}
  GenesisNode = v1
  Blocks = {b1, b2, b3}
  NoBlock = none
  MaxTracked = 1
SYMMETRY RivalSymmetry
SPECIFICATION Spec
INVARIANTS
  TypeOK
  AncestorsHeld
  NoBlockTwice
  ParentAppliedFirst
CHECK_DEADLOCK FALSE
