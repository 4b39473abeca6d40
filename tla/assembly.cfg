SPECIFICATION Spec
CONSTANTS
  Record = {1, 2, 3, 4}
  CostOf <- MCCostOf
  Budget = 3
  Width = 8
  MaxRetrieved = 3
  MaxTurns = 4
INVARIANTS HeldIsShown NeverDearer
PROPERTIES PrefixKept
CHECK_DEADLOCK FALSE
