CONSTANTS
  e1 = e1  e2 = e2  e3 = e3  e4 = e4
  EntryIds = {e1, e2, e3, e4}
  BRL = BRL
  Gold = Gold
  Units = {Gold}
  q1 = q1
  RequestIds = {q1}
  SourceIds = {q1}
  NoEntry = NoEntry
  NoReceipt = NoReceipt
  NoSource = NoSource
  NoSettlement = NoSettlement
  NoRequest = NoRequest
  s1 = s1  c1 = c1
  Settlers = {s1}
  Correctors = {c1}
  Clerks = {}
  PayoutAmounts = {}
  Replacements <- SameReplacement
  OrdinaryPostings <- UnitPostings
  LegacyDebits = {}
  SettlementOps = {"CLOSE_JOURNEY"}
  Approvals = {TRUE}
  PolicyValues = {}
SPECIFICATION Spec
PROPERTIES ClosesUnblocked
