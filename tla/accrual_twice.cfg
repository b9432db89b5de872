CONSTANTS
  original = original
  standIn = standIn
  Assignments = {original, standIn}
  digger = digger
  wager = wager
  spare = spare
  Collaborators = {digger, wager, spare}
  TermsOffered <- AllTerms
  GoldAmounts = {4}
  Outcomes = {"WORKED", "SICK_DAY_OFF", "TIME_OFF"}
  r1 = r1  r2 = r2
  Runs = {r1, r2}
  c1 = c1  c2 = c2 
  Calculations = {c1, c2}
  a1 = a1
  Accruers = {a1}
  p1 = p1
  Planners = {p1}
  NoAssignment = NoAssignment
  NoCollaborator = NoCollaborator
  NoRun = NoRun
  NoCalculation = NoCalculation
SPECIFICATION PlannedSpec
CHECK_DEADLOCK FALSE
INVARIANTS TransfersPaidOnce
