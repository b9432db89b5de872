CONSTANTS
  e1 = e1  e2 = e2  e3 = e3  e4 = e4  e5 = e5
  EntryIds = {e1, e2, e3, e4, e5}
  BRL = BRL
  Units = {BRL}
  y1 = y1
  ExpenseIds = {y1}
  SourceIds = {y1}
  NoEntry = NoEntry
  NoReceipt = NoReceipt
  NoSource = NoSource
  NoExpense = NoExpense
  x1 = x1  x2 = x2
  Clients = {x1, x2}
  Charges <- OneCharge
  NewCharges <- OneCharge
  BatchSizes = {1}
  MaxTime = 4
SYMMETRY ExpenseSymmetry
SPECIFICATION ExpensesSpec
INVARIANTS ActiveExpensesCancellable
CHECK_DEADLOCK FALSE
