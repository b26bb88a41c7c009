SPECIFICATION InventorySpec
CONSTANTS
  Vms = {v1}
  Workers = {w1, w2}
  Creates = {c1, c2}
  NoVm = NoVm
  NoMeta = NoMeta
  FaultBound = 1
INVARIANT
  MissNotReadopted
