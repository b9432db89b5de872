CONSTANTS
  e1 = e1  e2 = e2  e3 = e3
  EntryIds = {e1, e2, e3}
  BRL = BRL
  Gold = Gold
  Units = {Gold}
  q1 = q1
  RequestIds = {q1}
  SourceIds = {q1}
  NoEntry = NoEntry
  NoReceipt = NoReceipt
  NoSource = NoSource
  NoSettlement = NoSettlement
  NoRequest = NoRequest
  s1 = s1  c1 = c1  k1 = k1
  Settlers = {s1}
  Correctors = {c1}
  Clerks = {k1}
  PayoutAmounts <- GoldPayouts
  Replacements <- SameReplacement
  OrdinaryPostings <- UnitPostings
  LegacyDebits = {e1}
  SettlementOps = {"PAYOUT", "CLOSE_JOURNEY"}
  Approvals = {TRUE, FALSE}
  PolicyValues = {TRUE, FALSE}
SPECIFICATION FairSpec
PROPERTIES PolicyTakesEffect
