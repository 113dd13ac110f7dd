SPECIFICATION Spec
CONSTANTS
  Tasks = {1, 2, 3, 4, 5}
  Accounts = {a1, a2}
INVARIANTS BlockOrder
PROPERTIES ImplementsPriority
