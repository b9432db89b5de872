CONSTANTS
  e1 = e1  e2 = e2  e3 = e3  e4 = e4
  EntryIds = {e1, e2, e3, e4}
  BRL = BRL
  Units = {BRL}
  y1 = y1  y2 = y2  y3 = y3
  ExpenseIds = {y1, y2, y3}
  SourceIds = {y1, y2, y3}
  NoEntry = NoEntry
  NoReceipt = NoReceipt
  NoSource = NoSource
  NoExpense = NoExpense
  x1 = x1  x2 = x2
  Clients = {x1, x2}
  Charges <- TwoCharges
  NewCharges <- OneCharge
  BatchSizes = {1, 2}
  MaxTime = 4
SYMMETRY ExpenseSymmetry
SPECIFICATION ExpensesSpec
INVARIANTS ExpensesTypeOK ExpenseMatchesLedger CancelledExpensesSettled RecreatedOnce
CHECK_DEADLOCK FALSE
PROPERTIES ExpensesEndForGood
