CONSTANTS
  e1 = e1  e2 = e2  e3 = e3  e4 = e4
  EntryIds = {e1, e2, e3, e4}
  BRL = BRL
  Gold = Gold
  Units = {Gold}
  q1 = q1  q2 = q2
  RequestIds = {q1, q2}
  SourceIds = {q1, q2}
  NoEntry = NoEntry
  NoReceipt = NoReceipt
  NoSource = NoSource
  NoSettlement = NoSettlement
  NoRequest = NoRequest
  s1 = s1  s2 = s2
  Settlers = {s1, s2}
  Correctors = {}
  Clerks = {}
  PayoutAmounts = {}
  Replacements = {}
  OrdinaryPostings <- GoldCredits
  LegacyDebits = {}
  SettlementOps = {"FINAL_TENANT_PAYMENT"}
  Approvals = {TRUE}
  PolicyValues = {}
SYMMETRY Symmetry
SPECIFICATION Spec
PROPERTIES SettlementNeverCrossesZero
