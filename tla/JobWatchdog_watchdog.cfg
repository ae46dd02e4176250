SPECIFICATION FairSpec
CONSTANTS
  Jobs = {1, 2}
  Budgets = {1, 3}
  MaxTime = 6
CHECK_DEADLOCK FALSE
INVARIANT
  NoBudgetForgotten
PROPERTY
  BudgetEnforced

