CONSTANTS
  e1 = e1  e2 = e2  e3 = e3  e4 = e4  e5 = e5
  EntryIds = {e1, e2, e3, e4, e5}
  BRL = BRL
  Gold = Gold
  Units = {Gold, BRL}
  q1 = q1  q2 = q2
  RequestIds = {q1, q2}
  SourceIds = {q1, q2}
  NoEntry = NoEntry
  NoReceipt = NoReceipt
  NoSource = NoSource
  NoSettlement = NoSettlement
  NoRequest = NoRequest
  s1 = s1  c1 = c1  c2 = c2  k1 = k1  k2 = k2
  Settlers = {s1}
  Correctors = {c1, c2}
  Clerks = {k1, k2}
  PayoutAmounts <- MixedPayouts
  Replacements <- GoldReplacements
  OrdinaryPostings <- MixedPostings
  LegacyDebits = {e1}
  SettlementOps = {"ZERO_GOLD", "PAYOUT", "CLOSE_JOURNEY", "FINAL_TENANT_PAYMENT", "FINAL_COLLABORATOR_PAYMENT"}
  Approvals = {TRUE}
  PolicyValues = {}
SYMMETRY BooksSymmetry
SPECIFICATION Books
INVARIANTS TypeOK ReversalIntegrity ReplacementIntegrity BalanceOfEntriesInEffect ReceiptObligations FinalReceiptsCompletedByAcceptance
PROPERTIES SolePaymentsNeverCrossZero ReceiptsSettleOnce
