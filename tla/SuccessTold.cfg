\* Two lots and two clicks: the page may stop anywhere.
SPECIFICATION Spec
CONSTANTS
  Lots = {l1, l2}
  Stray = Stray
  NoLot = NoLot
  Orders = {o1, o2}
  NoOrder = NoOrder
INVARIANT SuccessIsTrue
CHECK_DEADLOCK FALSE
