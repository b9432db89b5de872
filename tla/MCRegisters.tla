---------------------------- MODULE MCRegisters ----------------------------
(***************************************************************************)
(* The registers for TLC: who may use the system, at which prices, and who *)
(* is planned to work.  Their state is far too large to explore at once,   *)
(* so the model has workloads: each starts from a database the operations  *)
(* can produce and lets the packages work on the part of it the properties *)
(* are about.                                                              *)
(***************************************************************************)
EXTENDS IdentitySystem, Prices, Planning

CONSTANTS p1, p2, p3, g1, g2, t1, t2, c1, c2,
          Workloads,    \* the workloads of the run
          MaxLegacy     \* bound on the price rows of earlier versions

VARIABLE workload

\* Members with an active account and a bound actor at the start, the
\* administrators among them, and the application administrators provisioned.
Enrolled ==
    CASE workload \in {"people", "globals", "items", "goldPrices", "plans", "bulk"} -> {}
      [] workload = "operators" -> {<<p1, t1>>}
      [] workload \in {"accounts", "journeys"} -> {<<p1, t1>>, <<p1, t2>>}
      [] workload = "roles" -> {<<p1, t1>>, <<p2, t1>>, <<p3, t1>>, <<p1, t2>>}
      [] workload = "leases" -> {<<p1, t1>>, <<p2, t2>>}

Appointed   == IF workload = "leases" THEN {<<p1, t1>>, <<p2, t2>>} ELSE {}
Provisioned == IF workload = "leases" THEN {g1, g2} ELSE {}

LegacyRows == IF workload = "people" THEN [{p1} \X {t1, t2} -> Projection \cup {None}]
              ELSE {[m \in {} |-> None]}

On == [active |-> TRUE, suspended |-> FALSE]

LegacyPrices(table, row) ==
    IF workload = table THEN UNION {[1..n -> row] : n \in 0..MaxLegacy} ELSE {<< >>}

\* The prior plans that make a difference: none, or collaborator 1 standing in
\* for collaborator 2.
Work(x, target) == [staff |-> x, included |-> TRUE, off |-> FALSE, replaces |-> target, active |-> TRUE]
Off(x)          == [staff |-> x, included |-> FALSE, off |-> TRUE, replaces |-> NoRow, active |-> TRUE]

PriorPlans ==
    LET i == CHOOSE i \in AssignmentIds : TRUE
        j == CHOOSE j \in AssignmentIds : j # i
        replaced == [x \in Staff |-> IF x = 1 THEN [id |-> i, row |-> Work(1, j)]
                                     ELSE IF x = 2 THEN [id |-> j, row |-> Off(2)] ELSE NoRow]
    IN  {[x \in Staff |-> NoRow]} \cup (IF workload = "bulk" THEN {replaced} ELSE {})

MCInit ==
    /\ workload \in Workloads
    /\ tenants = [t \in Tenants |-> IF workload = "globals" THEN None ELSE TRUE]
    /\ people = [p \in Persons |-> IF \E m \in Enrolled : PersonOf(m) = p
                                   THEN [operational |-> TRUE, complete |-> TRUE] ELSE None]
    /\ memberships = [m \in Members |-> IF m \in Enrolled THEN "ACTIVE" ELSE None]
    /\ \E legacy \in LegacyRows :
         projections = [m \in Members |-> IF m \in Enrolled THEN [status |-> "ACTIVE", complete |-> TRUE]
                                         ELSE IF m \in DOMAIN legacy THEN legacy[m] ELSE None]
    /\ accounts = [a \in Accounts |-> IF a \in Provisioned \/ \E m \in Enrolled : PersonOf(m) = a
                                      THEN On ELSE None]
    /\ sessions = [s \in SessionIds |-> None]
    /\ tokens = [k \in TokenIds |-> None]
    /\ requests = {} /\ bound = Enrolled \cup Provisioned
    /\ actors = [x \in Actors |-> IF x \in bound THEN TRUE ELSE None]
    /\ grants = [g \in GrantKeys |->
                    IF \/ g \in {TenantAdmin(m) : m \in Appointed}
                       \/ g \in {AppAdmin(x) : x \in Provisioned} THEN On ELSE None]
    /\ leases = [l \in LeaseIds |-> None]
    /\ journeys = [j \in JourneyIds |-> None]
    /\ calls = [c \in Callers |-> None]
    /\ outdated = {}
    /\ items \in LegacyPrices("items", ItemRow)
    /\ goldPrices \in LegacyPrices("goldPrices", GoldRow)
    /\ schema \in [{"items", "goldPrices"} -> Schemas]
    /\ \A table \in DOMAIN schema : workload = table \/ schema[table] = "ONE_ACTIVE"
    /\ PricesInit
    /\ prior \in PriorPlans
    /\ openStaff = Staff
    /\ assignments = [i \in AssignmentIds |-> NoRow]
    /\ planners = [p \in Planners |-> IdleCall]

-----------------------------------------------------------------------------
\* A person of two tenants, with rows of other programs, and its account.
PeopleWork ==
    \/ Directory({p1}, {t1, t2})
    \/ AccountCreation({<<p1, t1>>, <<p1, t2>>}, {<<p1, t1>>}, {c1})
    \/ \E active \in BOOLEAN : SetAccountActive(p1, active)

\* One account, two calls at once, deactivated and reactivated meanwhile.
AccountsWork ==
    \/ Sessions({p1}, {c1, c2})
    \/ Recovery({p1}, {<<p1, t1>>}, {c1, c2})
    \/ \E m \in Enrolled : Reactivate(m) \/ \E status \in Statuses : Update(m, status, {})

\* Application administrators from the empty database, two calls at once.
GlobalsWork ==
    \/ ApplicationAdministration({g1, g2})
    \/ AccountCreation({}, {g1, g2}, {c1})
    \/ ActorAdministration({g1, g2}, {c1, c2})
    \/ GrantAdministration({AppAdmin(g1), AppAdmin(g2)}, {c1, c2})
    \/ \E active \in BOOLEAN : SetAccountActive(g1, active)

\* Four possible administrators of two tenants, two grants at once, and the
\* lifecycle of one of the people.
RolesWork ==
    \/ TenantAdministration({}, Enrolled)
    \/ GrantAdministration({TenantAdmin(m) : m \in Enrolled}, {c1, c2})
    \/ Update(<<p2, t1>>, "INACTIVE", {})
    \/ Reactivate(<<p2, t1>>)

\* An operator who joins, is enabled, given a role and taken out again.
OperatorsWork ==
    \/ GrantAdministration({Operator(<<p1, t1>>)}, {c1, c2})
    \/ ActorAdministration({<<p1, t1>>}, {c1, c2})
    \/ AccountCreation({<<p1, t2>>}, {<<p1, t2>>}, {c1})
    \/ CreateMembership(p1, t2, "ACTIVE")
    \/ Update(<<p1, t1>>, "INACTIVE", {})
    \/ Reactivate(<<p1, t1>>)

LeasesWork ==
    \/ Leasing({g1, g2}, {p1, p2}, {t1, t2})
    \/ \E t \in {t1, t2}, active \in BOOLEAN : SetActive(t, active)
    \/ GrantAdministration({TenantAdmin(<<p1, t1>>), AppAdmin(g1)}, {c1})
    \/ Update(<<p1, t1>>, "INACTIVE", {})
    \/ Reactivate(<<p1, t1>>)

JourneysWork ==
    \/ Journeying(Enrolled, {c1, c2})
    \/ \E status \in Statuses, missing \in {{}, {"BANK"}} : Update(<<p1, t1>>, status, missing)
    \/ \E m \in Enrolled : Reactivate(m)

IdentityWork ==
    \/ workload = "people" /\ PeopleWork
    \/ workload = "accounts" /\ AccountsWork
    \/ workload = "globals" /\ (GlobalsWork \/ TenantAdministration({t1}, {}))
    \/ workload = "roles" /\ RolesWork
    \/ workload = "operators" /\ OperatorsWork
    \/ workload = "leases" /\ LeasesWork
    \/ workload = "journeys" /\ JourneysWork

-----------------------------------------------------------------------------
PriceWork ==
    \/ workload = "items" /\ ItemsNext
    \/ workload = "goldPrices" /\ GoldPricesNext

\* What the planning page sends: its template with some rows edited, less the
\* rows that need no saving.
Submitted(edited) ==
    LET page == [x \in openStaff |-> IF x \in DOMAIN edited THEN edited[x] ELSE PlanningTemplate[x]]
        sent == {x \in openStaff : page[x].selected \/ page[x].replaces # NoRow \/ x \in DOMAIN edited}
    IN  [x \in sent |-> page[x]]

PageRows(x) ==
    {[selected |-> TRUE, off |-> FALSE, replaces |-> y] : y \in (Staff \ {x}) \cup {NoRow}}
    \cup {[selected |-> FALSE, off |-> TRUE, replaces |-> NoRow]}

Edited == UNION {{f \in [S -> UNION {PageRows(x) : x \in S}] : \A x \in S : f[x] \in PageRows(x)} :
                    S \in {S \in SUBSET Staff : Cardinality(S) <= 2}}

\* Bulk plans one after the other, replacements included.
BulkWork(p) ==
    \/ \E edited \in Edited : BulkPlan(p, Submitted(edited))
    \/ BulkSteps({p})
    \/ CloseStaffJourney(1)

\* Two planners at once, single edits and a bulk plan, without replacements.
PlansWork ==
    \/ SingleSteps(Planners, {Work(x, NoRow) : x \in {1, 2}})
    \/ BulkSteps({c2})
    \/ BulkPlan(c2, [x \in {1, 2} |-> [selected |-> TRUE, off |-> FALSE, replaces |-> NoRow]])
    \/ CloseStaffJourney(2)

PlanWork ==
    \/ workload = "plans" /\ PlansWork
    \/ workload = "bulk" /\ BulkWork(c1)

MCNext ==
    /\ \/ IdentityWork /\ RecordOutdated /\ UNCHANGED <<priceVars, planningVars>>
       \/ PriceWork /\ UNCHANGED <<HistoryVars, planningVars>>
       \/ PlanWork /\ UNCHANGED <<HistoryVars, priceVars>>
    /\ UNCHANGED workload

MCSpec == MCInit /\ [][MCNext]_<<HistoryVars, priceVars, planningVars, workload>>
=============================================================================
