------------------------------ MODULE Planning ------------------------------
(***************************************************************************)
(* The assignments of one work period: single edits, and the bulk plan     *)
(* that writes many rows and then links temporary replacements.  Nothing   *)
(* here runs in a transaction: a bulk plan reads the current rows once and *)
(* then saves row after row, and whatever it has saved stays when a later  *)
(* row is refused.                                                         *)
(*                                                                         *)
(* A collaborator is a journey; its number is its place in the order of    *)
(* the planning page.  Sector, location and task of a row are left out     *)
(* (their validation is one of the reasons a row may be refused), as are   *)
(* outcomes, which module Accruals has.  No code path closes a work        *)
(* period, so ensureEditableWorkPeriod always passes.                      *)
(***************************************************************************)
EXTENDS Integers, FiniteSets, FiniteSetsExt

CONSTANTS StaffCount,      \* number of collaborators
          AssignmentIds,
          Planners,        \* planning calls that may be in flight at once
          NoRow            \* no assignment

VARIABLES openStaff,       \* collaborators with an open, active journey
          prior,           \* the plan of the previous period of the same code
          assignments,     \* work_period_assignments of the period
          planners         \* the calls in flight

planningVars == <<openStaff, prior, assignments, planners>>

Staff == 1..StaffCount

\* off: planning_availability is DAY_OFF or LEAVE_OF_ABSENCE.
PlanRow == [staff : Staff, included : BOOLEAN, off : BOOLEAN,
            replaces : AssignmentIds \cup {NoRow}, active : BOOLEAN]

\* A row of a bulk request as the planning page sends it: it names the replaced
\* collaborator.  The field replacementForAssignmentId, with which other clients
\* could name an assignment, is never filled in and is left out.
PlanEntry == [selected : BOOLEAN, off : BOOLEAN, replaces : Staff \cup {NoRow}]

\* A row as a call knows it.
Known == [id : AssignmentIds, row : PlanRow]

ASSUME PlanningConstants ==
    /\ StaffCount \in Nat
    /\ NoRow \notin PlanRow \cup Known \cup Staff \cup AssignmentIds

IdleCall == [op |-> "IDLE"]
PlannerCall ==
    {IdleCall}
    \cup [op : {"CREATE"}, row : PlanRow]
    \cup [op : {"SAVE"}, id : AssignmentIds, row : PlanRow]
    \cup [op : {"BULK_SAVE", "BULK_LINK"}, request : UNION {[S -> PlanEntry] : S \in SUBSET Staff},
          todo : SUBSET Staff, known : [Staff -> Known \cup {NoRow}]]

RowsOf(x)     == {i \in AssignmentIds : assignments[i] # NoRow /\ assignments[i].staff = x}
CurrentRow(x) == {i \in RowsOf(x) : assignments[i].active}

\* What ListActiveAssignmentsForWorkPeriod gives, by collaborator.
CurrentRows ==
    [x \in Staff |-> IF CurrentRow(x) = {} THEN NoRow
                     ELSE LET i == CHOOSE i \in CurrentRow(x) : TRUE
                          IN  [id |-> i, row |-> assignments[i]]]

-----------------------------------------------------------------------------
(***************************************************************************)
(* Writing a row.                                                          *)
(***************************************************************************)
\* A mutant of the next definition: the database has no such index.
AnyRow(i, row) == TRUE

\* The unique index on the active rows of a collaborator.
IndexAllows(i, row) == row.active => CurrentRow(row.staff) \subseteq {i}

Write(i, row) == assignments' = [assignments EXCEPT ![i] = row]

Answer(p)     == planners' = [planners EXCEPT ![p] = IdleCall]
Take(p, call) == planners[p] = IdleCall /\ planners' = [planners EXCEPT ![p] = call]

-----------------------------------------------------------------------------
(***************************************************************************)
(* Single edits.                                                           *)
(***************************************************************************)
\* validateReplacementAssignment: any other active assignment will do.
ValidReplacement(target, self) ==
    target # NoRow => target # self /\ assignments[target] # NoRow /\ assignments[target].active

\* validateCollaborator and validateAvailableForWorkPeriod
AvailableFor(x, self) == x \in openStaff /\ CurrentRow(x) \subseteq {self}

CreateAssignment(p, row) ==
    /\ AvailableFor(row.staff, NoRow) /\ ValidReplacement(row.replaces, NoRow)
    /\ Take(p, [op |-> "CREATE", row |-> [row EXCEPT !.active = TRUE]])
    /\ UNCHANGED <<openStaff, prior, assignments>>

InsertAssignment(p) ==
    /\ planners[p].op = "CREATE"
    /\ \E i \in AssignmentIds :
          /\ assignments[i] = NoRow
          /\ IF IndexAllows(i, planners[p].row) THEN Write(i, planners[p].row)
             ELSE UNCHANGED assignments
    /\ Answer(p)
    /\ UNCHANGED <<openStaff, prior>>

\* An edit may give the row to another collaborator.
UpdateAssignment(p, i, row) ==
    /\ assignments[i] # NoRow /\ assignments[i].active
    /\ AvailableFor(row.staff, i) /\ ValidReplacement(row.replaces, i)
    /\ Take(p, [op |-> "SAVE", id |-> i, row |-> [row EXCEPT !.active = TRUE]])
    /\ UNCHANGED <<openStaff, prior, assignments>>

DeactivateAssignment(p, i) ==
    /\ assignments[i] # NoRow /\ assignments[i].active
    /\ Take(p, [op |-> "SAVE", id |-> i, row |-> [assignments[i] EXCEPT !.active = FALSE]])
    /\ UNCHANGED <<openStaff, prior, assignments>>

\* The repository's Update: the whole row, as the call has it.
SaveAssignment(p) ==
    /\ planners[p].op = "SAVE"
    /\ IF IndexAllows(planners[p].id, planners[p].row) THEN Write(planners[p].id, planners[p].row)
       ELSE UNCHANGED assignments
    /\ Answer(p)
    /\ UNCHANGED <<openStaff, prior>>

-----------------------------------------------------------------------------
(***************************************************************************)
(* The bulk plan.                                                          *)
(***************************************************************************)
StaffOfAssignment(rows, i) == {x \in Staff : rows[x] # NoRow /\ rows[x].id = i}

\* GetPlanningTemplate: a row of the page for every open collaborator, from
\* the current plan, or from the prior one while the period has none.  An
\* included row of the prior plan starts as available.
PlanningTemplate ==
    LET current == CurrentRows
        source  == IF \A x \in Staff : current[x] = NoRow THEN prior ELSE current
        Linked(x) == StaffOfAssignment(source, source[x].row.replaces)
    IN  [x \in openStaff |->
            IF source[x] = NoRow THEN [selected |-> FALSE, off |-> FALSE, replaces |-> NoRow]
            ELSE [selected |-> source[x].row.included,
                  off      |-> source[x].row.off /\ (current[x] # NoRow \/ ~source[x].row.included),
                  replaces |-> IF Linked(x) = {} THEN NoRow ELSE CHOOSE y \in Linked(x) : TRUE]]

\* BulkPlan up to the first save; rows that need no saving are not in `request'.
BulkPlan(p, request) ==
    /\ Take(p, [op |-> "BULK_SAVE", request |-> request, todo |-> DOMAIN request,
                known |-> CurrentRows])
    /\ UNCHANGED <<openStaff, prior, assignments>>

\* The next row in the order of the request.
NextStaff(p) == Min(planners[p].todo)

SaveBulkRow(p) ==
    /\ planners[p].op = "BULK_SAVE" /\ planners[p].todo # {}
    /\ LET x     == NextStaff(p)
           known == planners[p].known[x]
           entry == planners[p].request[x]
           row   == [staff |-> x, included |-> entry.selected, off |-> entry.off,
                     replaces |-> NoRow, active |-> TRUE]
       IN  /\ x \in openStaff /\ entry.replaces # x
           /\ \E i \in AssignmentIds :
                 /\ IF known = NoRow THEN assignments[i] = NoRow ELSE i = known.id
                 /\ IndexAllows(i, row) /\ Write(i, row)
                 /\ planners' = [planners EXCEPT ![p].todo = @ \ {x},
                                                 ![p].known[x] = [id |-> i, row |-> row]]
    /\ UNCHANGED <<openStaff, prior>>

StartLinking(p) ==
    /\ planners[p].op = "BULK_SAVE" /\ planners[p].todo = {}
    /\ planners' = [planners EXCEPT ![p].op = "BULK_LINK",
           ![p].todo = {x \in DOMAIN planners[p].request : planners[p].request[x].replaces # NoRow}]
    /\ UNCHANGED <<openStaff, prior, assignments>>

\* A mutant of the next definition: an existing replacement is overlooked.
AnyTarget(known, x, t) ==
    /\ known[x].row.included /\ ~known[x].row.off
    /\ known[t] # NoRow /\ known[t].row.off /\ known[t].row.replaces = NoRow

\* What the second loop demands of a replacement x and its target t, and that
\* nobody else replaces t already (replacementOwnerByTargetAssignmentID).
LinkAllowed(known, x, t) ==
    /\ known[x].row.included /\ ~known[x].row.off
    /\ known[t] # NoRow /\ known[t].row.off /\ known[t].row.replaces = NoRow
    /\ \A y \in Staff \ {x} : known[y] # NoRow => known[y].row.replaces # known[t].id

LinkBulkRow(p) ==
    /\ planners[p].op = "BULK_LINK" /\ planners[p].todo # {}
    /\ LET x     == NextStaff(p)
           known == planners[p].known
           t     == planners[p].request[x].replaces
           row   == [known[x].row EXCEPT !.replaces = known[t].id]
       IN  /\ LinkAllowed(known, x, t)
           /\ IndexAllows(known[x].id, row) /\ Write(known[x].id, row)
           /\ planners' = [planners EXCEPT ![p].todo = @ \ {x}, ![p].known[x].row = row]
    /\ UNCHANGED <<openStaff, prior>>

\* The call ends: all is done, or the next row is refused (by one of the
\* checks above, by its references, or because the server stops).
EndBulkPlan(p) ==
    /\ planners[p].op \in {"BULK_SAVE", "BULK_LINK"}
    /\ Answer(p)
    /\ UNCHANGED <<openStaff, prior, assignments>>

-----------------------------------------------------------------------------
\* A journey is closed by the current account.
CloseStaffJourney(x) ==
    /\ x \in openStaff /\ openStaff' = openStaff \ {x}
    /\ UNCHANGED <<prior, assignments, planners>>

\* PrintRoster: who is expected to work.
Roster == {x \in Staff : \E i \in CurrentRow(x) : assignments[i].included}

PlanningInit ==
    /\ openStaff = Staff
    /\ prior \in [Staff -> Known \cup {NoRow}]
    /\ \A x \in Staff : prior[x] # NoRow => prior[x].row.staff = x /\ prior[x].row.active
    /\ assignments = [i \in AssignmentIds |-> NoRow]
    /\ planners = [p \in Planners |-> IdleCall]

BulkSteps(P) ==
    \E p \in P : SaveBulkRow(p) \/ StartLinking(p) \/ LinkBulkRow(p) \/ EndBulkPlan(p)

SingleSteps(P, R) ==
    \E p \in P :
        \/ InsertAssignment(p) \/ SaveAssignment(p)
        \/ \E row \in R : CreateAssignment(p, row) \/ \E i \in AssignmentIds : UpdateAssignment(p, i, row)
        \/ \E i \in AssignmentIds : DeactivateAssignment(p, i)

PlanningNext ==
    \/ SingleSteps(Planners, PlanRow)
    \/ \E p \in Planners, S \in SUBSET Staff : \E request \in [S -> PlanEntry] : BulkPlan(p, request)
    \/ BulkSteps(Planners)
    \/ \E x \in Staff : CloseStaffJourney(x)

PlanningSpec == PlanningInit /\ [][PlanningNext]_planningVars

-----------------------------------------------------------------------------
\* A collaborator has one active assignment in the period, although the check
\* and the insert are apart and a bulk plan writes back rows that were
\* deactivated or given to somebody else since it read them.
OneActiveAssignment == \A x \in Staff : Cardinality(CurrentRow(x)) <= 1

\* Bulk plans alone, one after the other, never give a collaborator two
\* replacements, also when one is broken off half-way and when the journey of a
\* replacement is closed meanwhile.  Each bulk plan clears the links of the
\* rows it saves before it makes new ones.
ReplacedOnce ==
    \A i, j \in AssignmentIds :
        /\ assignments[i] # NoRow /\ assignments[j] # NoRow
        /\ assignments[i].replaces # NoRow /\ assignments[i].replaces = assignments[j].replaces
        => i = j
=============================================================================
