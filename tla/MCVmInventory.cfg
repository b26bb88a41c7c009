SPECIFICATION InventorySpec
CONSTANTS
  Vms = {v1}
  Workers = {w1}
  Creates = {c1, c2}
  NoVm = NoVm
  NoMeta = NoMeta
  FaultBound = 2
INVARIANTS
  InventoryTypeOK
  ParkedApart
  OneHolder
PROPERTIES
  SessionKeepsVm
  PrimedIsKnown
