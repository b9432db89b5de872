------------------------------ MODULE Accruals ------------------------------
(***************************************************************************)
(* The accruals of one work period: runs that calculate what its           *)
(* assignments earn (CreateRun, RecalculateRun) and post it to the ledger  *)
(* (PostRun), while planners edit the assignments, mark outcomes, change   *)
(* the payment terms of a journey, record gold production and inform the   *)
(* period.                                                                 *)
(*                                                                         *)
(* A statement or transaction is one step, as in Settlements.  A call in   *)
(* flight carries what it has read; a planner's call writes back the whole *)
(* row it has read.  No code path closes a work period or voids a run, so  *)
(* the checks for these statuses never fail and are left out.              *)
(***************************************************************************)
EXTENDS Integers, FiniteSets

CONSTANTS Assignments,   \* assignments of the period
          Collaborators, \* the journeys that may hold them
          TermsOffered,  \* payment terms that are given to a journey
          GoldAmounts,   \* amounts of gold production recorded
          Outcomes,      \* outcomes that are marked
          Runs,
          Calculations,  \* identifiers of calculations (bounds the history)
          Accruers,      \* accrual calls that may be in flight at once
          Planners,      \* planning calls of a history (bounds the edits)
          NoAssignment, NoCollaborator, NoRun, NoCalculation

VARIABLES plan,      \* work_period_assignments
          terms,     \* collaborator_journeys: the payment terms of each
          gold,      \* the active gold production entry; 0 when there is none
          period,    \* status of the work period
          runs,      \* accrual_runs: status of each
          items,     \* accrual_items
          entries,   \* ledger entries posted by runs
          accruing,  \* accrual calls in flight
          planning   \* planning calls in flight

accrualVars == <<plan, terms, gold, period, runs, items, entries, accruing, planning>>

AllOutcomes == {"WORKED", "ABSENT", "SICK_DAY_OFF", "TIME_OFF", "REPLACED", "CANCELLED"}

\* ACTUAL_OUTCOME and the two ..._MISSING kinds are of pending items.
TransferKinds == {"SICK_DAY_OFF_REPLACEMENT_GOLD_DEBIT",
                  "SICK_DAY_OFF_REPLACEMENT_GOLD_CREDIT",
                  "TIME_OFF_REPLACEMENT_GOLD_CREDIT",
                  "SICK_DAY_OFF_REPLACEMENT", "TIME_OFF_REPLACEMENT"}
PaymentKinds  == {"DAILY_BRL", "FIXED_BRL_DAILY", "GOLD_COMMISSION"}
EarningKinds  == PaymentKinds \cup {"TIME_OFF_GOLD_COMMISSION_RETAINED"}
Kinds         == TransferKinds \cup EarningKinds \cup AllOutcomes \cup {"ACTUAL_OUTCOME"}

\* The value unit of what an item pays, and the suffix of its entry's id.
UnitOf(kind) == IF kind \in {"DAILY_BRL", "FIXED_BRL_DAILY"} THEN "BRL" ELSE "GOLD"

\* kind: what the payment method pays; rate: BRL per period, or percent of the
\* gold produced, 0 when not configured; split: the replacement's percent of a
\* time off; grams: what a sick day costs the original.
Terms == [kind : PaymentKinds, rate : Nat, split : 0..100, grams : Nat]

NoTerms == [kind |-> "DAILY_BRL", rate |-> 0, split |-> 50, grams |-> 1]

\* status: planned_status of an active row.  A row that is not created yet is
\* an excluded one, and a link to another period's assignment is none, since
\* the calculation sees neither.
Row == [status   : {"INCLUDED", "EXCLUDED", "DEACTIVATED"},
        holder   : Collaborators \cup {NoCollaborator},
        outcome  : AllOutcomes \cup {"NONE"},
        replaces : Assignments \cup {NoAssignment}]

Excluded == [status |-> "EXCLUDED", holder |-> NoCollaborator, outcome |-> "NONE",
             replaces |-> NoAssignment]

\* The row's id is `calc' with assignment, kind and direction: ids.New() of
\* the calculation that made the item.
Item == [calc       : Calculations,
         run        : Runs,
         assignment : Assignments,
         holder     : Collaborators \cup {NoCollaborator},
         kind       : Kinds,
         direction  : {"CREDIT", "DEBIT"},
         amount     : Nat,
         status     : {"PENDING", "READY", "SKIPPED", "POSTED"}]

\* item is the calculation for a transfer, NoCalculation for an earning, whose
\* id is made of the assignment.
Posting == [assignment : Assignments,
            holder     : Collaborators \cup {NoCollaborator},
            kind       : Kinds,
            direction  : {"CREDIT", "DEBIT"},
            amount     : Nat \ {0},
            item       : Calculations \cup {NoCalculation}]

RunStatuses == {"NONE", "DRAFT", "PENDING_INPUT", "READY_TO_POST", "POSTED"}
Key == Assignments \X Kinds \X {"CREDIT", "DEBIT"}

\* rows, terms, keys, todo, sick: what a calculation has read and has left to do;
\* found: the items it has calculated, or the ready items it will post.
AccrualCall ==
    [pc    : {"idle", "run", "rows", "terms", "keys", "calculate",
              "ready", "pending", "commit"},
     run   : Runs \cup {NoRun},
     calc  : Calculations \cup {NoCalculation},
     rows  : [Assignments -> Row],
     terms : [Assignments -> Terms],
     keys  : SUBSET Key,
     todo  : SUBSET Assignments,
     sick  : Assignments \cup {NoAssignment},
     found : SUBSET Item,
     pending : BOOLEAN]

NoRows      == [x \in Assignments |-> Excluded]
NoTermsRead == [x \in Assignments |-> NoTerms]

IdleAccruer == [pc |-> "idle", run |-> NoRun, calc |-> NoCalculation,
                rows |-> NoRows, terms |-> NoTermsRead, keys |-> {}, todo |-> {},
                sick |-> NoAssignment, found |-> {}, pending |-> FALSE]

\* row: what an assignment will be written as.
PlanningCall == [op  : {"IDLE", "ASSIGNMENT", "INFORM", "DONE"},
                 of  : Assignments \cup {NoAssignment},
                 row : Row]

IdlePlanner == [op |-> "IDLE", of |-> NoAssignment, row |-> Excluded]
DonePlanner == [IdlePlanner EXCEPT !.op = "DONE"]

ASSUME AccrualConstants ==
    /\ TermsOffered \subseteq Terms
    /\ GoldAmounts \subseteq Nat \ {0}
    /\ Outcomes \subseteq AllOutcomes
    /\ NoAssignment \notin Assignments /\ NoCollaborator \notin Collaborators
    /\ NoRun \notin Runs /\ NoCalculation \notin Calculations

IsActive(row) == row.status # "DEACTIVATED" /\ row.holder # NoCollaborator

\* The unique index on the active rows of a collaborator.
HeldAlone(rows, x, row) ==
    IsActive(row) =>
       \A y \in Assignments \ {x} : IsActive(rows[y]) => rows[y].holder # row.holder

AccrualsInit ==
    /\ plan \in [Assignments -> Row]
    /\ \A x \in Assignments : /\ plan[x].replaces # x
                              /\ plan[x].holder = NoCollaborator => plan[x] = Excluded
                              /\ HeldAlone(plan, x, plan[x])
    /\ terms \in [Collaborators -> TermsOffered]
    /\ gold \in GoldAmounts \cup {0}
    /\ period \in {"PLANNING", "INFORMED"}
    /\ runs = [r \in Runs |-> "NONE"]
    /\ items = {}
    /\ entries = {}
    /\ accruing = [a \in Accruers |-> IdleAccruer]
    /\ planning = [p \in Planners |-> IdlePlanner]

RecordsUnchanged == UNCHANGED <<plan, terms, gold, period, runs, items, entries, planning>>
AnswerAccruer(a) == accruing' = [accruing EXCEPT ![a] = IdleAccruer]

-----------------------------------------------------------------------------
(***************************************************************************)
(* The calculation, over the rows, posted keys and gold a call has read.   *)
(***************************************************************************)
ReplacementsOf(rows, x) ==
    {y \in Assignments : rows[y].status = "INCLUDED" /\ rows[y].replaces = x}

\* The assignment stands in for one that is on time off: it gets the split
\* only.
StandsInForTimeOff(rows, x) ==
    \E o \in Assignments : /\ rows[x].replaces = o
                           /\ rows[o].status = "INCLUDED"
                           /\ rows[o].outcome = "TIME_OFF"

\* Mutant of PaidByOutcome: a replacement of a time off earns its day too.
PaidAnyway(rows, x) == rows[x].outcome \in {"WORKED", "SICK_DAY_OFF", "TIME_OFF"}

PaidByOutcome(rows, x) == /\ rows[x].outcome \in {"WORKED", "SICK_DAY_OFF", "TIME_OFF"}
                          /\ ~StandsInForTimeOff(rows, x)

\* isGoldCommissionAssignment.
Commissioned(call, x) == call.terms[x].kind = "GOLD_COMMISSION"

\* goldCommissionAmount; the instances' amounts divide exactly.
Commission(call, x) == (gold * call.terms[x].rate) \div 100

\* FindGoldProduction misses, where the commission asks for it.
GoldMissing(call, x) == call.terms[x].rate > 0 /\ gold = 0

\* An item of the call's calculation.
ItemOf(call, x, kind, direction, amount, status) ==
    [calc |-> call.calc, run |-> call.run, assignment |-> x,
     holder |-> call.rows[x].holder, kind |-> kind, direction |-> direction,
     amount |-> amount, status |-> status]

Pending(call, x, kind)   == ItemOf(call, x, kind, "CREDIT", 0, "PENDING")
Skipped(call, x)         == ItemOf(call, x, call.rows[x].outcome, "CREDIT", 0, "SKIPPED")
Ready(call, x, kind, direction, amount) ==
    ItemOf(call, x, kind, direction, amount, "READY")

\* calculatePaymentItem, for WORKED and SICK_DAY_OFF.
PaymentItem(call, x) ==
    IF call.terms[x].rate = 0 \/ (Commissioned(call, x) /\ gold = 0)
      THEN Pending(call, x, call.terms[x].kind)
      ELSE Ready(call, x, call.terms[x].kind, "CREDIT",
                 IF Commissioned(call, x) THEN Commission(call, x) ELSE call.terms[x].rate)

\* Mutant of SplitShare: the percentage is not divided by a hundred.
ShareInPercent(call, x) == Commission(call, x) * call.terms[x].split

SplitShare(call, x) == (Commission(call, x) * call.terms[x].split) \div 100

\* calculateTimeOffItems; y is the first of the replacements.
TimeOffItems(call, x, y) ==
    IF ~Commissioned(call, x) THEN {Skipped(call, x)}
    ELSE IF y = NoAssignment THEN {Pending(call, x, "TIME_OFF_REPLACEMENT")}
    ELSE IF GoldMissing(call, x)
      THEN {Pending(call, x, "TIME_OFF_GOLD_COMMISSION_RETAINED"),
            Pending(call, y, "TIME_OFF_REPLACEMENT_GOLD_CREDIT")}
      ELSE {Ready(call, x, "TIME_OFF_GOLD_COMMISSION_RETAINED", "CREDIT",
                  Commission(call, x) - SplitShare(call, x)),
            Ready(call, y, "TIME_OFF_REPLACEMENT_GOLD_CREDIT", "CREDIT",
                  SplitShare(call, x))}

\* calculateSickDayOffReplacementItems; a pending debit is stored as a credit.
SickDayItems(call, x, y) ==
    IF y = NoAssignment THEN {Pending(call, x, "SICK_DAY_OFF_REPLACEMENT")}
    ELSE IF GoldMissing(call, x)
      THEN {Pending(call, x, "SICK_DAY_OFF_REPLACEMENT_GOLD_DEBIT"),
            Pending(call, y, "SICK_DAY_OFF_REPLACEMENT_GOLD_CREDIT")}
      ELSE {Ready(call, x, "SICK_DAY_OFF_REPLACEMENT_GOLD_DEBIT", "DEBIT",
                  call.terms[x].grams),
            Ready(call, y, "SICK_DAY_OFF_REPLACEMENT_GOLD_CREDIT", "CREDIT",
                  call.terms[x].grams)}

KeyOf(item) == <<item.assignment, item.kind, item.direction>>

\* appendIfNotPosted.
NotPosted(call, new) == {i \in new : KeyOf(i) \notin call.keys}

\* The query has no order: any replacement may be the first.
FirstReplacement(rows, x) ==
    IF ReplacementsOf(rows, x) = {} THEN {NoAssignment} ELSE ReplacementsOf(rows, x)

\* What assignment x yields before the transfers of a sick day.
OutcomeItems(call, x, y) ==
    IF call.rows[x].outcome = "NONE" THEN {Pending(call, x, "ACTUAL_OUTCOME")}
    ELSE IF call.rows[x].outcome \in {"ABSENT", "CANCELLED", "REPLACED"}
      THEN {Skipped(call, x)}
    ELSE IF ~PaidByOutcome(call.rows, x) THEN {}
    ELSE IF call.rows[x].outcome = "TIME_OFF" THEN TimeOffItems(call, x, y)
    ELSE {PaymentItem(call, x)}

HasSickTransfer(call, x) == /\ call.rows[x].outcome = "SICK_DAY_OFF"
                            /\ Commissioned(call, x)
                            /\ PaidByOutcome(call.rows, x)

-----------------------------------------------------------------------------
(***************************************************************************)
(* RecalculateRun, alone or as the end of CreateRun.                       *)
(***************************************************************************)
\* Identifiers are new: no item, entry or call in flight has them.
NewCalculations ==
    Calculations \ ({i.calc : i \in items} \cup {e.item : e \in entries}
                    \cup {accruing[a].calc : a \in Accruers}
                    \cup {i.calc : i \in UNION {accruing[a].found : a \in Accruers}})

CreateRun(a, r, c) ==
    /\ accruing[a].pc = "idle" /\ runs[r] = "NONE" /\ c \in NewCalculations
    /\ runs' = [runs EXCEPT ![r] = "DRAFT"]
    /\ accruing' = [accruing EXCEPT ![a] = [IdleAccruer EXCEPT
                       !.pc = "run", !.run = r, !.calc = c]]
    /\ UNCHANGED <<plan, terms, gold, period, items, entries, planning>>

\* A posted run is refused.
StartRecalculate(a, r, c) ==
    /\ accruing[a].pc = "idle" /\ runs[r] \notin {"NONE", "POSTED"}
    /\ c \in NewCalculations
    /\ accruing' = [accruing EXCEPT ![a] = [IdleAccruer EXCEPT
                       !.pc = "rows", !.run = r, !.calc = c]]
    /\ RecordsUnchanged

FindCreatedRun(a) ==
    /\ accruing[a].pc = "run"
    /\ IF runs[accruing[a].run] = "POSTED"
         THEN AnswerAccruer(a)
         ELSE accruing' = [accruing EXCEPT ![a].pc = "rows"]
    /\ RecordsUnchanged

ListAssignmentsForCalculation(a) ==
    LET included == {x \in Assignments : plan[x].status = "INCLUDED"}
    IN  /\ accruing[a].pc = "rows"
        /\ accruing' = [accruing EXCEPT
                           ![a].pc = "terms", ![a].todo = included,
                           ![a].rows = [x \in Assignments |->
                              IF x \in included THEN plan[x] ELSE Excluded]]
        /\ RecordsUnchanged

\* The preload of the listed assignments' journeys, a statement of its own.
PreloadTerms(a) ==
    LET call == accruing[a]
    IN  /\ call.pc = "terms"
        /\ accruing' = [accruing EXCEPT
                           ![a].pc = "keys",
                           ![a].terms = [x \in Assignments |->
                              IF call.rows[x].holder \in Collaborators
                                THEN terms[call.rows[x].holder] ELSE NoTerms]]
        /\ RecordsUnchanged

PostedItemKeys(a) ==
    /\ accruing[a].pc = "keys"
    /\ accruing' = [accruing EXCEPT
                       ![a].pc = "calculate",
                       ![a].keys = {KeyOf(i) : i \in {j \in items : j.status = "POSTED"}}]
    /\ RecordsUnchanged

\* One turn of the loop of calculateItems, with its read of the gold.
CalculateAssignment(a, x) ==
    LET call == accruing[a]
    IN  /\ call.pc = "calculate" /\ call.sick = NoAssignment /\ x \in call.todo
        /\ \E y \in FirstReplacement(call.rows, x) :
             accruing' = [accruing EXCEPT
                 ![a].todo  = @ \ {x},
                 ![a].sick  = IF HasSickTransfer(call, x) THEN x ELSE NoAssignment,
                 ![a].found = @ \cup NotPosted(call, OutcomeItems(call, x, y))]
        /\ RecordsUnchanged

\* The transfer of a sick day reads the gold again.
CalculateSickTransfer(a) ==
    LET call == accruing[a]
    IN  /\ call.pc = "calculate" /\ call.sick # NoAssignment
        /\ \E y \in FirstReplacement(call.rows, call.sick) :
             accruing' = [accruing EXCEPT
                 ![a].sick  = NoAssignment,
                 ![a].found = @ \cup NotPosted(call, SickDayItems(call, call.sick, y))]
        /\ RecordsUnchanged

StatusForItems(new) ==
    IF \E i \in new : i.status = "PENDING" THEN "PENDING_INPUT"
    ELSE IF \E i \in new : i.status = "READY" THEN "READY_TO_POST"
    ELSE "DRAFT"

\* Mutant of Replaceable: the posted items go too.
AllReplaceable(r) == {i \in items : i.run = r}

Replaceable(r) == {i \in items : i.run = r /\ i.status # "POSTED"}

\* The status is written whatever it has become.
ReplaceItemsForRun(a) ==
    LET call == accruing[a]
    IN  /\ call.pc = "calculate" /\ call.todo = {} /\ call.sick = NoAssignment
        /\ items' = (items \ Replaceable(call.run)) \cup call.found
        /\ runs' = [runs EXCEPT ![call.run] = StatusForItems(call.found)]
        /\ AnswerAccruer(a)
        /\ UNCHANGED <<plan, terms, gold, period, entries, planning>>

-----------------------------------------------------------------------------
(***************************************************************************)
(* PostRun.                                                                *)
(***************************************************************************)
\* A posted run is answered as it is.
StartPost(a, r) ==
    /\ accruing[a].pc = "idle" /\ runs[r] \notin {"NONE", "POSTED"}
    /\ accruing' = [accruing EXCEPT ![a] = [IdleAccruer EXCEPT
                       !.pc = "ready", !.run = r]]
    /\ RecordsUnchanged

\* No ready items, or none with an amount: refused.
ListReadyItems(a) ==
    LET ready == {i \in items : i.run = accruing[a].run /\ i.status = "READY"}
    IN  /\ accruing[a].pc = "ready"
        /\ IF \E i \in ready : i.amount > 0
             THEN accruing' = [accruing EXCEPT ![a].pc = "pending", ![a].found = ready]
             ELSE AnswerAccruer(a)
        /\ RecordsUnchanged

PendingItemCount(a) ==
    /\ accruing[a].pc = "pending"
    /\ accruing' = [accruing EXCEPT
                       ![a].pc = "commit",
                       ![a].pending = \E i \in items : /\ i.run = accruing[a].run
                                                       /\ i.status = "PENDING"]
    /\ RecordsUnchanged

\* Mutant of SourceOf: an earning is known by its item, not its assignment.
SourceIsItem(item) == item.calc

SourceOf(item) == IF item.kind \in TransferKinds THEN item.calc ELSE NoCalculation

PostingOf(item) == [assignment |-> item.assignment, holder |-> item.holder,
                    kind |-> item.kind, direction |-> item.direction,
                    amount |-> item.amount, item |-> SourceOf(item)]

\* The primary key of the ledger entry, and its index over source, unit and
\* direction.
SameEntry(e, f) == /\ e.assignment = f.assignment /\ e.direction = f.direction
                   /\ UnitOf(e.kind) = UnitOf(f.kind)
                   /\ e.item = f.item
                   /\ e.item # NoCalculation => e.kind = f.kind

\* ON CONFLICT DO NOTHING.
EntriesFor(ready) ==
    {e \in {PostingOf(i) : i \in {j \in ready : j.amount > 0}} :
        ~ \E f \in entries : SameEntry(e, f)}

\* Mutant of MarkedPosted: whatever is ready, listed or not.
MarkedUnlisted(call) == {i \in items : i.run = call.run /\ i.status = "READY"}

MarkedPosted(call) == {i \in items : i \in call.found /\ i.status = "READY"}

PostReadyItems(a) ==
    LET call == accruing[a]
    IN  /\ call.pc = "commit"
        /\ entries' = entries \cup EntriesFor(call.found)
        /\ items' = (items \ MarkedPosted(call))
                       \cup {[i EXCEPT !.status = "POSTED"] : i \in MarkedPosted(call)}
        /\ runs' = [runs EXCEPT ![call.run] = "POSTED"]
        /\ period' = IF call.pending THEN "PARTIALLY_POSTED" ELSE "FULLY_POSTED"
        /\ AnswerAccruer(a)
        /\ UNCHANGED <<plan, terms, gold, planning>>

\* The request is cancelled or the process dies between two statements.
AbortAccrual(a) ==
    /\ accruing[a].pc # "idle"
    /\ AnswerAccruer(a)
    /\ RecordsUnchanged

-----------------------------------------------------------------------------
(***************************************************************************)
(* Planning.                                                               *)
(***************************************************************************)
ReadForPlanning(p, call) ==
    /\ planning[p].op = "IDLE"
    /\ planning' = [planning EXCEPT ![p] = call]
    /\ UNCHANGED <<plan, terms, gold, period, runs, items, entries, accruing>>

RowToWrite(x, row) == [op |-> "ASSIGNMENT", of |-> x, row |-> row]

MarkActualOutcome(p, x, o) ==
    /\ plan[x].status = "INCLUDED"
    /\ ReadForPlanning(p, RowToWrite(x, [plan[x] EXCEPT !.outcome = o]))

\* Create, Update and BulkPlan, which may give the assignment to another
\* collaborator; the outcome is written back as it was read.
UpdateAssignment(p, x, status, w, o) ==
    LET row == [plan[x] EXCEPT !.status = status, !.holder = w, !.replaces = o]
    IN  /\ plan[x].status # "DEACTIVATED"
        /\ HeldAlone(plan, x, row)
        /\ o # NoAssignment => o # x /\ plan[o].status # "DEACTIVATED"
        /\ ReadForPlanning(p, RowToWrite(x, row))

DeactivateAssignment(p, x) ==
    /\ plan[x].status # "DEACTIVATED"
    /\ ReadForPlanning(p, RowToWrite(x, [plan[x] EXCEPT !.status = "DEACTIVATED"]))

Inform(p) ==
    /\ period = "PLANNING"
    /\ ReadForPlanning(p, [IdlePlanner EXCEPT !.op = "INFORM"])

WriteAssignment(p) ==
    /\ planning[p].op = "ASSIGNMENT"
    /\ HeldAlone(plan, planning[p].of, planning[p].row)
    /\ plan' = [plan EXCEPT ![planning[p].of] = planning[p].row]
    /\ planning' = [planning EXCEPT ![p] = DonePlanner]
    /\ UNCHANGED <<terms, gold, period, runs, items, entries, accruing>>

\* The period is written as INFORMED whatever it has become.
WriteInformed(p) ==
    /\ planning[p].op = "INFORM"
    /\ period' = "INFORMED"
    /\ planning' = [planning EXCEPT ![p] = DonePlanner]
    /\ UNCHANGED <<plan, terms, gold, runs, items, entries, accruing>>

\* collaborators.Update writes all the terms of the journey, so that the row it
\* has read before does not matter.
ChangeTerms(p, w, t) ==
    /\ planning[p].op = "IDLE"
    /\ t # terms[w]
    /\ terms' = [terms EXCEPT ![w] = t]
    /\ planning' = [planning EXCEPT ![p] = DonePlanner]
    /\ UNCHANGED <<plan, gold, period, runs, items, entries, accruing>>

\* The request is cancelled, or its write is refused by the index.
AbortPlanning(p) ==
    /\ planning[p].op \in {"ASSIGNMENT", "INFORM"}
    /\ planning' = [planning EXCEPT ![p] = DonePlanner]
    /\ UNCHANGED <<plan, terms, gold, period, runs, items, entries, accruing>>

\* Create, Update and Deactivate of the gold production entry: one active entry
\* by its unique index, so a step each.
SetGoldProduction(p, g) ==
    /\ planning[p].op = "IDLE"
    /\ g # gold
    /\ gold' = g
    /\ planning' = [planning EXCEPT ![p] = DonePlanner]
    /\ UNCHANGED <<plan, terms, period, runs, items, entries, accruing>>

AccrualStep(a) ==
    \/ FindCreatedRun(a) \/ ListAssignmentsForCalculation(a) \/ PreloadTerms(a)
    \/ PostedItemKeys(a)
    \/ \E x \in Assignments : CalculateAssignment(a, x)
    \/ CalculateSickTransfer(a) \/ ReplaceItemsForRun(a)
    \/ ListReadyItems(a) \/ PendingItemCount(a) \/ PostReadyItems(a)

AccrualRequest(a) ==
    \E r \in Runs :
       \/ \E c \in Calculations : CreateRun(a, r, c) \/ StartRecalculate(a, r, c)
       \/ StartPost(a, r)

PlanningRequest(p) ==
    \/ Inform(p)
    \/ \E x \in Assignments :
         \/ \E o \in Outcomes : MarkActualOutcome(p, x, o)
         \/ \E status \in {"INCLUDED", "EXCLUDED"}, w \in Collaborators,
               o \in Assignments \cup {NoAssignment} :
               UpdateAssignment(p, x, status, w, o)
         \/ DeactivateAssignment(p, x)
    \/ \E w \in Collaborators, t \in TermsOffered : ChangeTerms(p, w, t)
    \/ \E g \in GoldAmounts \cup {0} : SetGoldProduction(p, g)

AccrualsNext ==
    \/ \E a \in Accruers : AccrualRequest(a) \/ AccrualStep(a) \/ AbortAccrual(a)
    \/ \E p \in Planners : \/ PlanningRequest(p) \/ WriteAssignment(p)
                           \/ WriteInformed(p) \/ AbortPlanning(p)

AccrualsSpec == AccrualsInit /\ [][AccrualsNext]_accrualVars

-----------------------------------------------------------------------------
(***************************************************************************)
(* Properties.                                                             *)
(***************************************************************************)
\* The variables have their types.
AccrualTypeOK ==
    /\ plan \in [Assignments -> Row]
    /\ terms \in [Collaborators -> TermsOffered]
    /\ gold \in GoldAmounts \cup {0}
    /\ period \in {"PLANNING", "INFORMED", "PARTIALLY_POSTED", "FULLY_POSTED"}
    /\ runs \in [Runs -> RunStatuses]
    /\ items \subseteq Item
    /\ entries \subseteq Posting
    /\ accruing \in [Accruers -> AccrualCall]
    /\ planning \in [Planners -> PlanningCall]

IsEarning(e) == e.kind \in EarningKinds

\* An assignment is paid for its period at most once in BRL and once in gold,
\* whatever runs are calculated, recalculated and posted at the same time and
\* whatever happens in between to its outcome, its holder and the holder's
\* payment method: the entry's id is made of the unit and the assignment
\* (accrualLedgerEntry) and PostReadyItems inserts ON CONFLICT DO NOTHING.
\* A method that changes between two calculations may pay it in each unit.
EarningsOnce ==
    \A e, f \in entries :
       /\ IsEarning(e) /\ IsEarning(f)
       /\ e.assignment = f.assignment /\ UnitOf(e.kind) = UnitOf(f.kind)
       => e = f

\* Every item reported as posted has its money in the ledger: the item's own
\* transfer, or the earning of its assignment in its unit, which went to the
\* collaborator who held the assignment when it was entered.  A run
\* recalculated while it is posted must not have its new items marked
\* (PostReadyItems).
PostedItemsPaid ==
    \A i \in items : i.status = "POSTED" /\ i.amount > 0 =>
       \E e \in entries : /\ e.assignment = i.assignment
                          /\ e.direction = i.direction
                          /\ IF i.kind \in TransferKinds
                               THEN e.kind = i.kind /\ e.item = i.calc
                               ELSE IsEarning(e) /\ UnitOf(e.kind) = UnitOf(i.kind)

\* A posted item is history: recalculating its run neither deletes nor changes
\* it (ReplaceItemsForRun), although a recalculation that found the run not
\* yet posted may commit afterwards.
PostedItemsFinal ==
    [][\A i \in items : i.status = "POSTED" => i \in items']_accrualVars

\* Who stands in for a collaborator on time off gets half of the commission
\* and no day of its own: no calculation yields both for one assignment
\* (calculateItems).
TimeOffPaysSplitOnly ==
    \A i, j \in items :
       /\ i.calc = j.calc /\ i.assignment = j.assignment
       /\ i.kind = "TIME_OFF_REPLACEMENT_GOLD_CREDIT"
       => j.kind \notin PaymentKinds

\* The collaborator pays the gram of a sick day once: one entry of a kind of
\* transfer for each assignment of the period.
TransfersPaidOnce ==
    \A e, f \in entries :
       /\ e.kind \in TransferKinds /\ e.kind = f.kind
       /\ e.assignment = f.assignment /\ e.direction = f.direction
       => e = f
=============================================================================
