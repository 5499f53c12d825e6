SPECIFICATION Spec
CONSTANTS
  Row = {r1, r2, r3, r4}
  PageSize = 2
  MaxTime = 3
SYMMETRY RowSymmetry
INVARIANTS TypeOK WalkIsComplete CausalOrder
CHECK_DEADLOCK FALSE
