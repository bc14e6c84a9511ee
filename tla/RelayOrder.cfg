CONSTANTS
  p1 = p1  p2 = p2
  wallet1 = wallet1  wallet2 = wallet2
  transfers = transfers  deposits = deposits
  Pods = {p1, p2}
  Rows = {1, 2, 3}
  KeyOf <- RowKey
  LaneOf <- RowLane
  BatchSize = 2
  MaxFaults = 0
SPECIFICATION Spec
SYMMETRY Symmetric
INVARIANTS
  OrderPerKey
