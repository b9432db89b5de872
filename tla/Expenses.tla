------------------------------ MODULE Expenses ------------------------------
(***************************************************************************)
(* The expenses of one collaborator journey and the debits they post: the  *)
(* package expenses with creation, canteen batches, recreation of a        *)
(* cancelled expense, update, cancellation and deactivation.               *)
(*                                                                         *)
(* As in the current account, a statement or a transaction is one atomic   *)
(* step and a service method is a sequence of them.  A method takes its    *)
(* timestamp from time.Now() before its transaction, and the transaction   *)
(* finds the expense's current debit as the posting with the greatest      *)
(* created_at; timestamps are therefore part of the state.                 *)
(*                                                                         *)
(* Ledger corrections of an expense's debit (ReverseEntry, ReplaceEntry)   *)
(* are modelled in LedgerCorrections and do not occur here.                *)
(***************************************************************************)
EXTENDS Ledger

CONSTANTS ExpenseIds,   \* identifiers of expenses (bounds the table)
          Clients,      \* expense calls that may be in flight at once
          Charges,      \* what an expense may cost: records [unit, amount]
          NewCharges,   \* the ones it may be created with
          BatchSizes,   \* numbers of items a creation may record
          MaxTime,      \* bound on timestamps
          NoExpense

VARIABLES expenses,     \* the table expenses
          createdAt,    \* created_at of each debit posted for an expense
          journeyOpen,  \* the journey is active and open
          expensing     \* the calls in flight

Expense == [active    : BOOLEAN,
            cancelled : BOOLEAN,                       \* cancelled_at IS NOT NULL
            charge    : Charges,
            from      : ExpenseIds \cup {NoExpense}]   \* recreated_from_expense_id

ExpenseOps == {"CREATE", "UPDATE", "CANCEL", "DEACTIVATE"}

\* target: the expense concerned, or the source of a recreation.
ExpenseCall == [pc     : {"idle", "source", "recreated", "journey", "commit"},
                op     : ExpenseOps,
                target : ExpenseIds \cup {NoExpense},
                charge : Charges,
                items  : BatchSizes,
                stamp  : 0..MaxTime]

IdleClient == [pc |-> "idle", op |-> "CREATE", target |-> NoExpense,
               charge |-> CHOOSE c \in Charges : TRUE,
               items |-> CHOOSE n \in BatchSizes : TRUE, stamp |-> 0]

ASSUME ExpenseConstants ==
    /\ ExpenseIds \subseteq SourceIds /\ IsFiniteSet(ExpenseIds)
    /\ Charges # {} /\ Charges \subseteq [unit : Units, amount : PosNat]
    /\ NewCharges \subseteq Charges
    /\ BatchSizes # {} /\ BatchSizes \subseteq PosNat
    /\ MaxTime \in Nat
    /\ NoExpense \notin ExpenseIds /\ NoExpense \notin Expense

expenseVars == <<ledger, receipts, expenses, createdAt, journeyOpen, expensing>>

ExpensesInit ==
    /\ ledger = [e \in EntryIds |-> NoEntry]
    /\ receipts = [e \in EntryIds |-> NoReceipt]
    /\ expenses = [y \in ExpenseIds |-> NoExpense]
    /\ createdAt = [e \in EntryIds |-> 0]
    /\ journeyOpen = TRUE
    /\ expensing = [x \in Clients |-> IdleClient]

-----------------------------------------------------------------------------
Recorded == {y \in ExpenseIds : expenses[y] # NoExpense}

\* Debits posted for an expense, whether or not they are still in effect.
Postings(y) == {e \in Posted :
                   /\ ledger[e].source \in {"EXPENSE", "EXPENSE_REPLACEMENT"}
                   /\ ledger[e].sourceId = y}

\* ORDER BY created_at DESC, first row.
LatestExpenseLedgerEntry(y) ==
    CHOOSE e \in Postings(y) : \A f \in Postings(y) : createdAt[f] <= createdAt[e]

ExpenseLedgerEntry(y, charge) ==
    [type       |-> "ORDINARY",
     source     |-> "EXPENSE",
     sourceId   |-> y,
     direction  |-> "DEBIT",
     unit       |-> charge.unit,
     amount     |-> charge.amount,
     correction |-> "ORIGINAL",
     related    |-> NoEntry]

ReplacementExpenseLedgerEntry(y, charge, previous) ==
    [ExpenseLedgerEntry(y, charge) EXCEPT !.source     = "EXPENSE_REPLACEMENT",
                                          !.correction = "REPLACEMENT",
                                          !.related    = previous]

AtStep(x, pc, ops) == expensing[x].pc = pc /\ expensing[x].op \in ops
Answer(x)          == expensing' = [expensing EXCEPT ![x] = IdleClient]

TablesUnchanged == UNCHANGED <<ledger, receipts, expenses, createdAt, journeyOpen>>

\* time.Now(): later than every timestamp that is recorded or waits to be.
Now == 1 + Max({createdAt[e] : e \in Posted} \cup {expensing[x].stamp : x \in Clients})

\* The last read before the transaction; the method then takes its timestamp.
StampFor(pc)   == IF pc = "commit" THEN Now ELSE 0
Proceed(x, pc) == /\ StampFor(pc) <= MaxTime
                  /\ expensing' = [expensing EXCEPT ![x].pc = pc, ![x].stamp = StampFor(pc)]

\* A new call with the first read of its method behind it.
Begin(x, pc, op, target, charge, items) ==
    /\ expensing[x].pc = "idle"
    /\ StampFor(pc) <= MaxTime
    /\ expensing' = [expensing EXCEPT ![x] =
          [pc |-> pc, op |-> op, target |-> target, charge |-> charge,
           items |-> items, stamp |-> StampFor(pc)]]
    /\ TablesUnchanged

-----------------------------------------------------------------------------
\* Create and CreateCanteenBatch read the journey first; a batch recreates
\* nothing, and the source of a recreation exists.
StartCreate(x, source, charge, items) ==
    /\ journeyOpen
    /\ source \in Recorded \cup {NoExpense}
    /\ items > 1 => source = NoExpense
    /\ Begin(x, IF source = NoExpense THEN "commit" ELSE "source",
             "CREATE", source, charge, items)

CheckSource(x) ==
    /\ AtStep(x, "source", {"CREATE"})
    /\ IF expenses[expensing[x].target].cancelled
         THEN Proceed(x, "recreated") ELSE Answer(x)
    /\ TablesUnchanged

Recreated(source) == \E y \in Recorded : expenses[y].from = source

CheckNotRecreated(x) ==
    /\ AtStep(x, "recreated", {"CREATE"})
    /\ IF Recreated(expensing[x].target) THEN Answer(x) ELSE Proceed(x, "commit")
    /\ TablesUnchanged

\* Update reads the expense, then the journey it charges.
StartUpdate(x, y, charge) ==
    /\ y \in Recorded /\ expenses[y].active
    /\ Begin(x, "journey", "UPDATE", y, charge, IdleClient.items)

CheckJourney(x) ==
    /\ AtStep(x, "journey", {"UPDATE"})
    /\ IF journeyOpen THEN Proceed(x, "commit") ELSE Answer(x)
    /\ TablesUnchanged

\* Cancel and Deactivate answer at once for an inactive expense.  Deactivate
\* writes back the charge it has read.
StartCancel(x, y) ==
    /\ y \in Recorded /\ expenses[y].active
    /\ Begin(x, "commit", "CANCEL", y, IdleClient.charge, IdleClient.items)

StartDeactivate(x, y) ==
    /\ y \in Recorded /\ expenses[y].active
    /\ Begin(x, "commit", "DEACTIVATE", y, expenses[y].charge, IdleClient.items)

-----------------------------------------------------------------------------
\* The entries of a transaction; created_at of a reversal is never read.
PostAt(x, new) ==
    /\ CreateEntries(new)
    /\ createdAt' = [e \in EntryIds |->
          IF e \in DOMAIN new /\ new[e].correction # "REVERSAL"
            THEN expensing[x].stamp ELSE createdAt[e]]

\* Mutant of RecreationIndexFree: no unique index on recreated_from_expense_id.
RecreationUnchecked(source) == TRUE

\* ux_expenses_recreated_from_expense admits the row.
RecreationIndexFree(source) == source # NoExpense => ~Recreated(source)

\* One transaction for all items of the call: each expense with its debit.
CreateExpenses(x) ==
    /\ AtStep(x, "commit", {"CREATE"})
    /\ RecreationIndexFree(expensing[x].target)
    /\ \E S \in kSubset(expensing[x].items, ExpenseIds \ Recorded) :
         \E id \in [S -> Unused] :
            /\ \A y, z \in S : y # z => id[y] # id[z]
            /\ expenses' = [y \in ExpenseIds |-> IF y \in S
                  THEN [active |-> TRUE, cancelled |-> FALSE,
                        charge |-> expensing[x].charge, from |-> expensing[x].target]
                  ELSE expenses[y]]
            /\ PostAt(x, [e \in {id[y] : y \in S} |->
                  ExpenseLedgerEntry(CHOOSE y \in S : id[y] = e, expensing[x].charge)])
    /\ Answer(x)
    /\ UNCHANGED journeyOpen

\* Mutant of PostingReversible: the single-reversal index is missing.
PostingAlwaysReversible(y) == TRUE

\* ux_ledger_entries_single_reversal admits the reversal of the latest posting.
PostingReversible(y) == ~HasReversal(LatestExpenseLedgerEntry(y))

\* trg_expenses_cancellation_update_guard: `active' is frozen by cancellation.
CancellationGuard(y, active) == expenses[y].cancelled => active = expenses[y].active

\* repository.Update, for Update and (with active = FALSE) for Deactivate.
UpdateExpense(x) ==
    LET y        == expensing[x].target
        active   == expensing[x].op = "UPDATE"
        previous == LatestExpenseLedgerEntry(y)
    IN  /\ AtStep(x, "commit", {"UPDATE", "DEACTIVATE"})
        /\ CancellationGuard(y, active)
        /\ PostingReversible(y)
        /\ expenses' = [expenses EXCEPT ![y].active = active,
                                        ![y].charge = expensing[x].charge]
        /\ \E r \in Unused :
              IF active
                THEN \E p \in Unused \ {r} :
                       PostAt(x, [e \in {r, p} |-> IF e = r
                          THEN ReversalOf(previous)
                          ELSE ReplacementExpenseLedgerEntry(y, expensing[x].charge, previous)])
                ELSE PostAt(x, [e \in {r} |-> ReversalOf(previous)])
        /\ Answer(x)
        /\ UNCHANGED journeyOpen

\* Mutant of ReceiptsToCancel: only the receipt of the latest posting.
LatestReceipt(y) == {LatestExpenseLedgerEntry(y)}

\* The latest posting's receipt and those of the earlier ones.
ReceiptsToCancel(y) == Postings(y)

CancelAllowed(y) == /\ expenses[y].active
                    /\ PostingReversible(y)
                    /\ receipts[LatestExpenseLedgerEntry(y)] # NoReceipt

\* The reversal is a credit, for which AfterCreate opens no receipt.
CancelExpense(x) ==
    LET y        == expensing[x].target
        previous == LatestExpenseLedgerEntry(y)
    IN  /\ AtStep(x, "commit", {"CANCEL"})
        /\ CancelAllowed(y)
        /\ expenses' = [expenses EXCEPT ![y].active = FALSE, ![y].cancelled = TRUE]
        /\ \E r \in Unused : ledger' = [ledger EXCEPT ![r] = ReversalOf(previous)]
        /\ receipts' = [e \in EntryIds |->
              IF e \in ReceiptsToCancel(y) /\ e \in Outstanding
                THEN [receipts[e] EXCEPT !.status = "CANCELLED"] ELSE receipts[e]]
        /\ Answer(x)
        /\ UNCHANGED <<createdAt, journeyOpen>>

\* The transaction is rolled back: an index, a trigger or a missing row.
CommitRefused(x) ==
    /\ \/ AtStep(x, "commit", {"CREATE"}) /\ ~RecreationIndexFree(expensing[x].target)
       \/ /\ AtStep(x, "commit", {"UPDATE", "DEACTIVATE"})
          /\ \/ ~CancellationGuard(expensing[x].target, expensing[x].op = "UPDATE")
             \/ ~PostingReversible(expensing[x].target)
       \/ AtStep(x, "commit", {"CANCEL"}) /\ ~CancelAllowed(expensing[x].target)
    /\ Answer(x)
    /\ TablesUnchanged

\* The process dies, or the request is cancelled, before its transaction.
AbortExpenseCall(x) ==
    /\ expensing[x].pc # "idle"
    /\ Answer(x)
    /\ TablesUnchanged

-----------------------------------------------------------------------------
\* The current account's part: a receipt is returned, the journey is closed.
ReturnReceipt(e) ==
    /\ e \in Outstanding
    /\ receipts' = [receipts EXCEPT ![e].status = "RETURNED"]
    /\ UNCHANGED <<ledger, expenses, createdAt, journeyOpen, expensing>>

CloseJourney ==
    /\ journeyOpen
    /\ ZeroBalance
    /\ journeyOpen' = FALSE
    /\ UNCHANGED <<ledger, receipts, expenses, createdAt, expensing>>

ExpenseRequest(x) ==
    \/ \E source \in ExpenseIds \cup {NoExpense}, charge \in NewCharges,
          items \in BatchSizes : StartCreate(x, source, charge, items)
    \/ \E y \in ExpenseIds, charge \in Charges : StartUpdate(x, y, charge)
    \/ \E y \in ExpenseIds : StartCancel(x, y)
    \/ \E y \in ExpenseIds : StartDeactivate(x, y)

ExpenseStep(x) ==
    \/ CheckSource(x)
    \/ CheckNotRecreated(x)
    \/ CheckJourney(x)
    \/ CreateExpenses(x)
    \/ UpdateExpense(x)
    \/ CancelExpense(x)
    \/ CommitRefused(x)

ExpensesNext ==
    \/ \E x \in Clients : \/ ExpenseRequest(x)
                          \/ ExpenseStep(x)
                          \/ AbortExpenseCall(x)
    \/ \E e \in EntryIds : ReturnReceipt(e)
    \/ CloseJourney

ExpensesSpec == ExpensesInit /\ [][ExpensesNext]_expenseVars

-----------------------------------------------------------------------------
\* Every variable keeps its type.
ExpensesTypeOK ==
    /\ LedgerTypeOK
    /\ expenses \in [ExpenseIds -> Expense \cup {NoExpense}]
    /\ createdAt \in [EntryIds -> 0..MaxTime]
    /\ journeyOpen \in BOOLEAN
    /\ expensing \in [Clients -> ExpenseCall]

InEffect(y) == {e \in Postings(y) : ~HasReversal(e)}

\* Whatever updates, cancellations and deactivations race, an active expense
\* has exactly one debit in effect, of its current charge, and an inactive one
\* has none: a stale update neither revives an expense nor charges it twice.
ExpenseMatchesLedger ==
    \A y \in Recorded :
        IF expenses[y].active
          THEN \E e \in EntryIds :
                  /\ InEffect(y) = {e}
                  /\ ledger[e].unit = expenses[y].charge.unit
                  /\ ledger[e].amount = expenses[y].charge.amount
          ELSE InEffect(y) = {}

\* A cancelled expense leaves no receipt open, for any debit it ever posted,
\* and no call that was in flight opens one afterwards.
CancelledExpensesSettled ==
    \A y \in Recorded : expenses[y].cancelled =>
        /\ ~expenses[y].active
        /\ Postings(y) \cap Outstanding = {}

\* An expense that is no longer active is never revived by a call that read it
\* earlier, and the row of a cancelled expense never changes again.
ExpensesEndForGood ==
    [][\A y \in Recorded : ~expenses[y].active =>
          /\ y \in Recorded' /\ ~expenses'[y].active
          /\ expenses[y].cancelled => expenses'[y] = expenses[y]]_expenseVars

\* Two recreations of a cancelled expense that race record one replacement, of
\* an expense that is cancelled.
RecreatedOnce ==
    \A y \in Recorded : expenses[y].from # NoExpense =>
        /\ expenses[y].from \in Recorded
        /\ expenses[expenses[y].from].cancelled
        /\ \A z \in Recorded : expenses[z].from = expenses[y].from => z = y

\* An active expense can be cancelled: the posting that the transaction takes
\* for the current one is the one in effect.
ActiveExpensesCancellable ==
    \A y \in Recorded : expenses[y].active => PostingReversible(y)
=============================================================================
