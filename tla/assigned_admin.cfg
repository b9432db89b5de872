SPECIFICATION MCSpec
CHECK_DEADLOCK FALSE
CONSTANTS
    p1 = p1  p2 = p2  p3 = p3
    g1 = g1  g2 = g2
    t1 = t1  t2 = t2
    c1 = c1  c2 = c2
    None = None
    Persons = {p1, p2, p3}
    Globals = {g1, g2}
    Tenants = {t1, t2}
    SessionIds = {s1, s2}
    TokenIds = {k1, k2}
    LeaseIds = {l1, l2}
    JourneyIds = {j1, j2}
    MaxExtension = 1
    Callers = {c1, c2}
    Codes = {x1, x2}
    Dates = {d1, d2}
    MaxRows = 4
    MaxLegacy = 2
    Editors = {c1, c2}
    NoEdit = NoEdit
    StaffCount = 3
    AssignmentIds = {n1, n2, n3}
    Planners = {c1, c2}
    NoRow = NoRow
    Workloads = {"roles"}
PROPERTY
    AssignmentTakesEffect
