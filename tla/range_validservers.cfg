SPECIFICATION Spec
CHECK_DEADLOCK FALSE
CONSTANTS
  RowCounts <- SmallRowCounts
  ItemCounts <- SmallItemCounts
INVARIANTS
  ValidServersShareNoRow
