SPECIFICATION Spec
CONSTANTS
  Keys = {k1, k2}
  Blank = Blank
  NoKey = NoKey
  Items = {i1}
  MaxEntries = 3
  DefaultLimit = 1
  MaxLimit = 2
  Asked = {0, 3}
  NoLimit = NoLimit
  MaxAppends = 4
SYMMETRY Interchangeable
INVARIANTS WalkMissesNothing
PROPERTIES MoneyKeyActs
CHECK_DEADLOCK FALSE
