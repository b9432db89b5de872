--------------------------- MODULE ExpenseProofs ---------------------------
(***************************************************************************)
(* Theorems about expenses, for every set of expenses, charges, batches    *)
(* and calls in flight.  A call reads the expense, and perhaps its journey *)
(* or its source, before its transaction; what keeps the debits right is   *)
(* the single-reversal index, and what keeps recreations single is the     *)
(* unique index on recreated_from_expense_id.                              *)
(***************************************************************************)
EXTENDS Expenses, FiniteSetTheorems, WellFoundedInduction, TLAPS

USE DEF PosNat

-----------------------------------------------------------------------------
(***************************************************************************)
(* Timestamps are bounded, so a latest one exists.                         *)
(***************************************************************************)

\* A nonempty set of numbers up to n has a greatest element.
LEMMA BoundedMaximum ==
    ASSUME NEW n \in Nat, NEW S \in SUBSET (0..n), S # {}
    PROVE  \E m \in S : \A k \in S : k <= m
  <1> DEFINE R == OpToRel(<, Nat)
             T == {n - s : s \in S}
  <1>1. IsWellFoundedOn(R, Nat)
    BY NatLessThanWellFounded
  <1>2. \A t \in T : t \in Nat
    OBVIOUS
  <1>3. T # {}
    <2>1. PICK s \in S : TRUE
      OBVIOUS
    <2>2. n - s \in T
      OBVIOUS
    <2> QED BY <2>2
  <1>4. \A a, b \in Nat : a < b => <<a, b>> \in R
    BY DEF OpToRel
  <1> HIDE DEF R, T
  <1>5. PICK x \in T : \A y \in T : ~(<<y, x>> \in R)
    <2>1. T \subseteq Nat
      BY <1>2
    <2> QED BY <1>1, <1>3, <2>1, WFMin
  <1>6. \A y \in T : x <= y
    <2>1. \A y \in T : ~(y < x)
      BY <1>2, <1>4, <1>5
    <2> QED BY <1>2, <2>1
  <1>7. PICK m \in S : x = n - m
    BY DEF T
  <1>8. \A k \in S : n - m <= n - k
    BY <1>6, <1>7 DEF T
  <1> QED BY <1>7, <1>8

\* Max is that element.
LEMMA MaxOfBounded ==
    ASSUME NEW n \in Nat, NEW S \in SUBSET (0..n), S # {}
    PROVE  Max(S) \in S
  <1>1. PICK m \in S : \A k \in S : k <= m
    BY BoundedMaximum
  <1>2. \A k \in S : m >= k
    <2>1. \A a, b \in 0..n : a <= b => b >= a
      OBVIOUS
    <2> QED BY <1>1, <2>1
  <1> QED BY <1>2 DEF Max

\* An expense with postings has a latest one.
LEMMA LatestIsPosting ==
    ASSUME ExpensesTypeOK, NEW y \in ExpenseIds, Postings(y) # {}
    PROVE  LatestExpenseLedgerEntry(y) \in Postings(y)
  <1> DEFINE S == {createdAt[e] : e \in Postings(y)}
  <1>1. Postings(y) \subseteq EntryIds
    BY DEF Postings, Posted
  <1>2. MaxTime \in Nat /\ createdAt \in [EntryIds -> 0..MaxTime]
    BY ExpenseConstants DEF ExpensesTypeOK
  <1>3. S \in SUBSET (0..MaxTime)
    BY <1>1, <1>2
  <1>4. S # {}
    <2>1. PICK e \in Postings(y) : TRUE
      OBVIOUS
    <2>2. createdAt[e] \in S
      OBVIOUS
    <2> QED BY <2>2
  <1>5. PICK m \in S : \A k \in S : k <= m
    <2> HIDE DEF S
    <2> QED BY <1>2, <1>3, <1>4, BoundedMaximum
  <1>6. PICK e \in Postings(y) : createdAt[e] = m
    OBVIOUS
  <1>7. \A f \in Postings(y) : createdAt[f] <= createdAt[e]
    BY <1>5, <1>6
  <1> QED BY <1>7 DEF LatestExpenseLedgerEntry

\* time.Now() is a number.
LEMMA NowType ==
    ASSUME ExpensesTypeOK, NEW x \in Clients
    PROVE  Now \in Nat
  <1> DEFINE S == {createdAt[e] : e \in Posted} \cup {expensing[z].stamp : z \in Clients}
  <1>1. MaxTime \in Nat /\ createdAt \in [EntryIds -> 0..MaxTime]
    BY ExpenseConstants DEF ExpensesTypeOK
  <1>2. \A z \in Clients : expensing[z].stamp \in 0..MaxTime
    BY DEF ExpensesTypeOK, ExpenseCall
  <1>3. S \in SUBSET (0..MaxTime)
    BY <1>1, <1>2 DEF Posted
  <1>4. S # {}
    <2>1. expensing[x].stamp \in S
      OBVIOUS
    <2> QED BY <2>1
  <1>5. Now = 1 + Max(S)
    BY DEF Now
  <1> HIDE DEF S
  <1>6. Max(S) \in S
    BY <1>1, <1>3, <1>4, MaxOfBounded
  <1>7. Max(S) \in 0..MaxTime
    BY <1>3, <1>6
  <1> QED BY <1>1, <1>5, <1>7

-----------------------------------------------------------------------------
(***************************************************************************)
(* What the operators of Ledger return.                                    *)
(***************************************************************************)

\* The hook makes a well-typed receipt or none.
LEMMA AfterCreateType ==
    ASSUME NEW entry \in Entry
    PROVE  AfterCreate(entry) \in Receipt \cup {NoReceipt}
  <1>1. \A purpose \in {"LEDGER_DEBIT"} \cup FinalPurposes, party \in Parties :
           NewReceipt(purpose, party) \in Receipt
    BY DEF NewReceipt, Receipt, OutstandingStatuses, TerminalStatuses
  <1> QED BY <1>1 DEF AfterCreate, FinalPurposes, Parties

\* The mirror image of a posted entry is a well-typed entry.
LEMMA ReversalType ==
    ASSUME LedgerTypeOK, NEW e \in Posted
    PROVE  ReversalOf(e) \in Entry
  <1>1. e \in EntryIds /\ ledger[e] \in Entry
    BY DEF LedgerTypeOK, Posted
  <1> QED BY <1>1 DEF ReversalOf, Entry, Opposite, Sources, Directions,
                      CorrectionTypes

\* The debit of an expense is a well-typed entry.
LEMMA ExpenseEntryType ==
    ASSUME NEW y \in ExpenseIds, NEW charge \in Charges
    PROVE  ExpenseLedgerEntry(y, charge) \in Entry
  <1>1. y \in SourceIds /\ charge.unit \in Units /\ charge.amount \in Nat \ {0}
    BY ExpenseConstants
  <1> QED BY <1>1 DEF ExpenseLedgerEntry, Entry, EntryTypes, Sources, Directions,
                      CorrectionTypes

\* What it says of the expense.
LEMMA ExpenseEntryFields ==
    ASSUME NEW y, NEW charge
    PROVE  /\ ExpenseLedgerEntry(y, charge).source = "EXPENSE"
           /\ ExpenseLedgerEntry(y, charge).sourceId = y
           /\ ExpenseLedgerEntry(y, charge).correction = "ORIGINAL"
           /\ ExpenseLedgerEntry(y, charge).unit = charge.unit
           /\ ExpenseLedgerEntry(y, charge).amount = charge.amount
  BY DEF ExpenseLedgerEntry

\* So is the debit that replaces it.
LEMMA ReplacementEntryType ==
    ASSUME NEW y \in ExpenseIds, NEW charge \in Charges, NEW previous \in EntryIds
    PROVE  ReplacementExpenseLedgerEntry(y, charge, previous) \in Entry
  BY ExpenseEntryType
  DEF ReplacementExpenseLedgerEntry, Entry, Sources, CorrectionTypes

\* The record of an idle client is well typed.
LEMMA IdleClientType == IdleClient \in ExpenseCall /\ IdleClient.pc = "idle"
  <1>1. (CHOOSE c \in Charges : TRUE) \in Charges
    BY ExpenseConstants
  <1>2. (CHOOSE n \in BatchSizes : TRUE) \in BatchSizes
    BY ExpenseConstants
  <1>3. 0 \in 0..MaxTime
    BY ExpenseConstants
  <1> QED BY <1>1, <1>2, <1>3 DEF IdleClient, ExpenseCall, ExpenseOps

-----------------------------------------------------------------------------
(***************************************************************************)
(* The inductive invariant.                                                *)
(***************************************************************************)

\* What a call in flight has found out for good: the expense it aims at is
\* recorded, and the source of a recreation, of one item, is cancelled.
CallsAim ==
    \A x \in Clients : expensing[x].pc # "idle" =>
        LET call == expensing[x] IN
        IF call.op = "CREATE"
          THEN call.target # NoExpense =>
                  /\ call.target \in Recorded
                  /\ call.items = 1
                  /\ call.pc \in {"recreated", "commit"} => expenses[call.target].cancelled
          ELSE call.target \in Recorded

\* Where the entries come from: debits of recorded expenses, and reversals of
\* entries there are.
EntriesOfExpenses ==
    /\ \A e \in Posted : ledger[e].source \in {"EXPENSE", "EXPENSE_REPLACEMENT"} =>
          ledger[e].sourceId \in Recorded
    /\ \A e \in Posted : ledger[e].correction = "REVERSAL" =>
          /\ ledger[e].source = "LEDGER_CORRECTION"
          /\ ledger[e].related \in Posted
    /\ \A y \in Recorded : Postings(y) # {}

ExpenseInv == /\ ExpensesTypeOK
              /\ CallsAim
              /\ EntriesOfExpenses
              /\ ExpenseMatchesLedger
              /\ CancelledExpensesSettled
              /\ RecreatedOnce

\* The initial states.
LEMMA ExpenseInit == ExpensesInit => ExpenseInv
  <1> SUFFICES ASSUME ExpensesInit PROVE ExpenseInv
    OBVIOUS
  <1>1. Posted = {} /\ Recorded = {}
    BY DEF ExpensesInit, Posted, Recorded
  <1>2. \A x \in Clients : expensing[x] = IdleClient
    BY DEF ExpensesInit
  <1>3. ExpensesTypeOK
    <2>1. 0 \in 0..MaxTime
      BY ExpenseConstants
    <2> QED BY <2>1, IdleClientType DEF ExpensesInit, ExpensesTypeOK, LedgerTypeOK
  <1>4. CallsAim
    BY <1>2, IdleClientType DEF CallsAim
  <1> QED BY <1>1, <1>3, <1>4
          DEF ExpenseInv, EntriesOfExpenses, ExpenseMatchesLedger,
              CancelledExpensesSettled, RecreatedOnce

\* A posting that the single-reversal index lets a transaction reverse belongs
\* to an active expense and is its one debit in effect.
LEMMA ReversibleIsCurrent ==
    ASSUME ExpenseInv, NEW y \in Recorded, PostingReversible(y)
    PROVE  /\ expenses[y] \in Expense
           /\ expenses[y].active /\ ~expenses[y].cancelled
           /\ LatestExpenseLedgerEntry(y) \in Postings(y)
           /\ InEffect(y) = {LatestExpenseLedgerEntry(y)}
  <1>1. y \in ExpenseIds /\ Postings(y) # {} /\ expenses[y] \in Expense
    BY DEF Recorded, ExpenseInv, EntriesOfExpenses, ExpensesTypeOK
  <1>2. LatestExpenseLedgerEntry(y) \in Postings(y)
    BY <1>1, LatestIsPosting DEF ExpenseInv
  <1>3. LatestExpenseLedgerEntry(y) \in InEffect(y)
    BY <1>2 DEF PostingReversible, InEffect
  <1>4. expenses[y].active
    BY <1>3 DEF ExpenseInv, ExpenseMatchesLedger
  <1>5. \E e \in EntryIds : InEffect(y) = {e}
    BY <1>4 DEF ExpenseInv, ExpenseMatchesLedger
  <1>6. ~expenses[y].cancelled
    BY <1>4 DEF ExpenseInv, CancelledExpensesSettled
  <1> QED BY <1>1, <1>2, <1>3, <1>4, <1>5, <1>6

-----------------------------------------------------------------------------
(***************************************************************************)
(* What a transaction does to the two tables of the ledger.                *)
(***************************************************************************)

\* The entries there are keep their rows.
Extends(new) ==
    /\ DOMAIN new \subseteq Unused
    /\ \A e \in DOMAIN new : new[e] \in Entry
    /\ ledger' = [e \in EntryIds |-> IF e \in DOMAIN new THEN new[e] ELSE ledger[e]]

\* Postings and reversals after new entries are those of before and the new.
LEMMA EntriesAfter ==
    ASSUME LedgerTypeOK, NEW new, Extends(new)
    PROVE  /\ Posted' = Posted \cup DOMAIN new
           /\ \A e \in Posted : ledger'[e] = ledger[e] /\ e \notin DOMAIN new
           /\ \A e \in DOMAIN new : ledger'[e] = new[e] /\ e \notin Posted /\ e \in EntryIds
           /\ \A r, e \in EntryIds : Reverses(r, e)' <=>
                 \/ Reverses(r, e)
                 \/ /\ r \in DOMAIN new
                    /\ new[r].correction = "REVERSAL" /\ new[r].related = e
  <1>1. \A e \in EntryIds : /\ e \in DOMAIN new => ledger'[e] = new[e] /\ ledger'[e] # NoEntry
                                                   /\ e \notin Posted
                            /\ e \notin DOMAIN new => ledger'[e] = ledger[e]
    BY LedgerNulls DEF Extends, Unused
  <1>2. DOMAIN new \subseteq EntryIds
    BY DEF Extends, Unused
  <1>3. Posted' = Posted \cup DOMAIN new
    BY <1>1, <1>2 DEF Posted
  <1> QED BY <1>1, <1>2, <1>3 DEF Reverses, Posted

\* A transaction keeps the two tables well typed.
LEMMA PostAtType ==
    ASSUME ExpensesTypeOK, NEW x \in Clients, NEW new, DOMAIN new \subseteq Unused,
           \A e \in DOMAIN new : new[e] \in Entry, PostAt(x, new)
    PROVE  /\ LedgerTypeOK' /\ createdAt' \in [EntryIds -> 0..MaxTime]
           /\ Extends(new)
           /\ \A e \in EntryIds : e \notin DOMAIN new => receipts'[e] = receipts[e]
  <1>1. \A e \in DOMAIN new : AfterCreate(new[e]) \in Receipt \cup {NoReceipt}
    BY AfterCreateType
  <1>2. expensing[x].stamp \in 0..MaxTime
    BY DEF ExpensesTypeOK, ExpenseCall
  <1>3. createdAt' \in [EntryIds -> 0..MaxTime]
    BY <1>2 DEF ExpensesTypeOK, PostAt
  <1> QED BY <1>1, <1>3 DEF ExpensesTypeOK, LedgerTypeOK, PostAt, CreateEntries, Extends

\* Answering a call keeps the others' aims: expenses stay, and stay cancelled.
LEMMA AnswerKeepsCalls ==
    ASSUME ExpenseInv, NEW x \in Clients, Answer(x),
           \A y \in Recorded : /\ y \in Recorded'
                               /\ expenses[y].cancelled => expenses'[y].cancelled
    PROVE  expensing' \in [Clients -> ExpenseCall] /\ CallsAim'
  <1>1. expensing \in [Clients -> ExpenseCall] /\ CallsAim
    BY DEF ExpenseInv, ExpensesTypeOK
  <1>2. expensing' \in [Clients -> ExpenseCall]
    BY <1>1, IdleClientType DEF Answer
  <1>3. expensing'[x].pc = "idle" /\ \A z \in Clients \ {x} : expensing'[z] = expensing[z]
    BY <1>1, IdleClientType DEF Answer
  <1> QED BY <1>1, <1>2, <1>3 DEF CallsAim

-----------------------------------------------------------------------------
(***************************************************************************)
(* Steps that write no table.                                              *)
(***************************************************************************)

\* The tables and the invariants about them stay as they are.
LEMMA ReadsKeep ==
    ASSUME ExpenseInv, TablesUnchanged, expensing' \in [Clients -> ExpenseCall], CallsAim'
    PROVE  ExpenseInv'
  <1>1. UNCHANGED <<ledger, receipts, expenses, createdAt, journeyOpen>>
    BY DEF TablesUnchanged
  <1>2. ExpensesTypeOK'
    BY <1>1 DEF ExpenseInv, ExpensesTypeOK, LedgerTypeOK
  <1>3. EntriesOfExpenses' /\ ExpenseMatchesLedger'
    BY <1>1 DEF ExpenseInv, EntriesOfExpenses, ExpenseMatchesLedger, InEffect, Postings,
                Posted, Recorded, HasReversal, Reverses
  <1>4. CancelledExpensesSettled' /\ RecreatedOnce'
    BY <1>1 DEF ExpenseInv, CancelledExpensesSettled, RecreatedOnce, Postings, Posted,
                Recorded, Outstanding
  <1> QED BY <1>2, <1>3, <1>4 DEF ExpenseInv

\* The timestamp a call takes is one of the bounded ones.
LEMMA StampType ==
    ASSUME ExpensesTypeOK, NEW x \in Clients, NEW pc, StampFor(pc) <= MaxTime
    PROVE  StampFor(pc) \in 0..MaxTime
  <1>1. MaxTime \in Nat
    BY ExpenseConstants
  <1>2. CASE pc = "commit"
    BY <1>1, <1>2, NowType DEF StampFor
  <1>3. CASE pc # "commit"
    BY <1>1, <1>3 DEF StampFor
  <1> QED BY <1>2, <1>3

\* A new call aims at what its first read found.
LEMMA BeginKeeps ==
    ASSUME ExpenseInv, NEW x \in Clients, NEW pc \in {"source", "journey", "commit"},
           NEW op \in ExpenseOps, NEW target \in ExpenseIds \cup {NoExpense},
           NEW charge \in Charges, NEW items \in BatchSizes,
           Begin(x, pc, op, target, charge, items),
           op # "CREATE" => target \in Recorded,
           op = "CREATE" /\ target # NoExpense =>
              target \in Recorded /\ items = 1 /\ pc = "source"
    PROVE  ExpenseInv'
  <1>0. expensing \in [Clients -> ExpenseCall] /\ CallsAim /\ ExpensesTypeOK
    BY DEF ExpenseInv, ExpensesTypeOK
  <1>1. StampFor(pc) \in 0..MaxTime
    BY <1>0, StampType DEF Begin
  <1> DEFINE call == [pc |-> pc, op |-> op, target |-> target, charge |-> charge,
                      items |-> items, stamp |-> StampFor(pc)]
  <1>2. /\ call \in ExpenseCall
        /\ call.op = op /\ call.target = target /\ call.items = items /\ call.pc = pc
    BY <1>1 DEF ExpenseCall
  <1>3. expensing' = [expensing EXCEPT ![x] = call] /\ TablesUnchanged
    BY DEF Begin
  <1> HIDE DEF call
  <1>4. expensing' \in [Clients -> ExpenseCall]
    BY <1>0, <1>2, <1>3
  <1>5. expensing'[x] = call /\ \A z \in Clients \ {x} : expensing'[z] = expensing[z]
    BY <1>0, <1>3
  <1>6. Recorded' = Recorded /\ expenses' = expenses
    BY <1>3 DEF TablesUnchanged, Recorded
  <1>7. CallsAim'
    BY <1>0, <1>2, <1>5, <1>6 DEF CallsAim
  <1> QED BY <1>3, <1>4, <1>7, ReadsKeep

\* The next step of a call.
LEMMA ProceedKeeps ==
    ASSUME ExpenseInv, NEW x \in Clients, NEW pc \in {"recreated", "commit"},
           Proceed(x, pc), TablesUnchanged, expensing[x].pc # "idle",
           \/ expensing[x].op # "CREATE"
           \/ expensing[x].pc = "recreated"
           \/ expenses[expensing[x].target].cancelled
    PROVE  ExpenseInv'
  <1>0. expensing \in [Clients -> ExpenseCall] /\ CallsAim /\ ExpensesTypeOK
    BY DEF ExpenseInv, ExpensesTypeOK
  <1>1. StampFor(pc) \in 0..MaxTime
    BY <1>0, StampType DEF Proceed
  <1> DEFINE call == [expensing[x] EXCEPT !.pc = pc, !.stamp = StampFor(pc)]
  <1>2. /\ call \in ExpenseCall
        /\ call.op = expensing[x].op /\ call.target = expensing[x].target
        /\ call.items = expensing[x].items /\ call.pc = pc
    BY <1>0, <1>1 DEF ExpenseCall
  <1>3. expensing' = [expensing EXCEPT ![x] = call]
    BY <1>0 DEF Proceed
  <1> HIDE DEF call
  <1>4. expensing' \in [Clients -> ExpenseCall]
    BY <1>0, <1>2, <1>3
  <1>5. expensing'[x] = call /\ \A z \in Clients \ {x} : expensing'[z] = expensing[z]
    BY <1>0, <1>3
  <1>6. Recorded' = Recorded /\ expenses' = expenses
    BY DEF TablesUnchanged, Recorded
  <1>7. CallsAim'
    BY <1>0, <1>2, <1>5, <1>6 DEF CallsAim
  <1> QED BY <1>4, <1>7, ReadsKeep

\* A call that is answered without a write.
LEMMA AnswerKeeps ==
    ASSUME ExpenseInv, NEW x \in Clients, Answer(x), TablesUnchanged
    PROVE  ExpenseInv'
  <1>1. Recorded' = Recorded /\ expenses' = expenses
    BY DEF TablesUnchanged, Recorded
  <1> QED BY <1>1, AnswerKeepsCalls, ReadsKeep

\* Requests, checks, refusals and interrupted calls.
LEMMA ExpenseReads ==
    ASSUME ExpenseInv, NEW x \in Clients,
           \/ ExpenseRequest(x)
           \/ CheckSource(x) \/ CheckNotRecreated(x) \/ CheckJourney(x)
           \/ CommitRefused(x) \/ AbortExpenseCall(x)
    PROVE  ExpenseInv'
  <1>1. ASSUME NEW source \in ExpenseIds \cup {NoExpense}, NEW charge \in NewCharges,
               NEW items \in BatchSizes, StartCreate(x, source, charge, items)
        PROVE  ExpenseInv'
    <2> DEFINE pc == IF source = NoExpense THEN "commit" ELSE "source"
    <2>1. pc \in {"source", "journey", "commit"} /\ (source # NoExpense => pc = "source")
      OBVIOUS
    <2>2. /\ source # NoExpense => source \in Recorded /\ items = 1
          /\ Begin(x, pc, "CREATE", source, charge, items)
      BY <1>1, ExpenseConstants DEF StartCreate
    <2>3. charge \in Charges
      BY ExpenseConstants
    <2> HIDE DEF pc
    <2> QED BY <2>1, <2>2, <2>3, BeginKeeps DEF ExpenseOps
  <1>2. IdleClient.charge \in Charges /\ IdleClient.items \in BatchSizes
    BY IdleClientType DEF ExpenseCall
  <1>3. ASSUME NEW y \in ExpenseIds, NEW charge \in Charges, StartUpdate(x, y, charge)
        PROVE  ExpenseInv'
    BY <1>2, <1>3, BeginKeeps DEF StartUpdate, ExpenseOps
  <1>4. ASSUME NEW y \in ExpenseIds, StartCancel(x, y)
        PROVE  ExpenseInv'
    BY <1>2, <1>4, BeginKeeps DEF StartCancel, ExpenseOps
  <1>5. ASSUME NEW y \in ExpenseIds, StartDeactivate(x, y)
        PROVE  ExpenseInv'
    <2>1. expenses[y].charge \in Charges
      BY <1>5 DEF StartDeactivate, Recorded, ExpenseInv, ExpensesTypeOK, Expense
    <2> QED BY <1>2, <1>5, <2>1, BeginKeeps DEF StartDeactivate, ExpenseOps
  <1>6. CASE CheckSource(x)
    BY <1>6, AnswerKeeps, ProceedKeeps DEF CheckSource, AtStep
  <1>7. CASE CheckNotRecreated(x)
    BY <1>7, AnswerKeeps, ProceedKeeps DEF CheckNotRecreated, AtStep
  <1>8. CASE CheckJourney(x)
    BY <1>8, AnswerKeeps, ProceedKeeps DEF CheckJourney, AtStep
  <1>9. CASE CommitRefused(x) \/ AbortExpenseCall(x)
    BY <1>9, AnswerKeeps DEF CommitRefused, AbortExpenseCall
  <1> QED BY <1>1, <1>3, <1>4, <1>5, <1>6, <1>7, <1>8, <1>9 DEF ExpenseRequest

\* The current account's steps: a receipt is returned, the journey is closed.
LEMMA AccountKeeps ==
    ASSUME ExpenseInv, CloseJourney \/ \E e \in EntryIds : ReturnReceipt(e)
    PROVE  ExpenseInv'
  <1>1. UNCHANGED <<ledger, expenses, createdAt, expensing>> /\ journeyOpen' \in BOOLEAN
    BY DEF CloseJourney, ReturnReceipt, ExpenseInv, ExpensesTypeOK
  <1>2. receipts' \in [EntryIds -> Receipt \cup {NoReceipt}] /\ Outstanding' \subseteq Outstanding
    <2>1. CASE CloseJourney
      BY <2>1 DEF CloseJourney, ExpenseInv, ExpensesTypeOK, LedgerTypeOK, Outstanding
    <2>2. ASSUME NEW e \in EntryIds, ReturnReceipt(e)
          PROVE  receipts' \in [EntryIds -> Receipt \cup {NoReceipt}]
                 /\ Outstanding' \subseteq Outstanding
      <3>1. receipts \in [EntryIds -> Receipt \cup {NoReceipt}] /\ receipts[e] \in Receipt
        BY <2>2 DEF ReturnReceipt, ExpenseInv, ExpensesTypeOK, LedgerTypeOK, Outstanding
      <3> DEFINE row == [receipts[e] EXCEPT !.status = "RETURNED"]
      <3>2. row \in Receipt /\ row.status = "RETURNED"
        BY <3>1 DEF Receipt, TerminalStatuses
      <3>3. receipts' = [receipts EXCEPT ![e] = row]
        BY <2>2, <3>1 DEF ReturnReceipt
      <3> HIDE DEF row
      <3> QED BY <3>1, <3>2, <3>3 DEF Outstanding, OutstandingStatuses
    <2> QED BY <2>1, <2>2
  <1>3. ExpensesTypeOK'
    BY <1>1, <1>2 DEF ExpenseInv, ExpensesTypeOK, LedgerTypeOK
  <1>4. CallsAim' /\ EntriesOfExpenses' /\ ExpenseMatchesLedger' /\ RecreatedOnce'
    BY <1>1 DEF ExpenseInv, CallsAim, EntriesOfExpenses, ExpenseMatchesLedger, InEffect,
                Postings, Posted, Recorded, HasReversal, Reverses, RecreatedOnce
  <1>5. CancelledExpensesSettled'
    <2>1. \A y \in Recorded : Postings(y)' = Postings(y)
      BY <1>1 DEF Postings, Posted
    <2>2. Recorded' = Recorded
      BY <1>1 DEF Recorded
    <2> QED BY <1>1, <1>2, <2>1, <2>2 DEF ExpenseInv, CancelledExpensesSettled
  <1> QED BY <1>3, <1>4, <1>5 DEF ExpenseInv

-----------------------------------------------------------------------------
(***************************************************************************)
(* The creation of expenses.                                               *)
(***************************************************************************)

\* The rows and the debits that a creation writes.
LEMMA CreationRows ==
    ASSUME ExpenseInv, NEW x \in Clients, CreateExpenses(x)
    PROVE  \E S, id, new :
              /\ S \in SUBSET (ExpenseIds \ Recorded)
              /\ expensing[x].target # NoExpense => \E y : S = {y}
              /\ DOMAIN new = {id[y] : y \in S}
              /\ \A y \in S : /\ id[y] \in Unused
                              /\ new[id[y]] = ExpenseLedgerEntry(y, expensing[x].charge)
              /\ PostAt(x, new)
              /\ expenses' = [y \in ExpenseIds |-> IF y \in S
                    THEN [active |-> TRUE, cancelled |-> FALSE,
                          charge |-> expensing[x].charge, from |-> expensing[x].target]
                    ELSE expenses[y]]
  <1> DEFINE charge == expensing[x].charge
  <1>1. PICK S \in kSubset(expensing[x].items, ExpenseIds \ Recorded) :
         \E id \in [S -> Unused] :
            /\ \A y, z \in S : y # z => id[y] # id[z]
            /\ expenses' = [y \in ExpenseIds |-> IF y \in S
                  THEN [active |-> TRUE, cancelled |-> FALSE,
                        charge |-> charge, from |-> expensing[x].target]
                  ELSE expenses[y]]
            /\ PostAt(x, [e \in {id[y] : y \in S} |->
                  ExpenseLedgerEntry(CHOOSE y \in S : id[y] = e, charge)])
    BY DEF CreateExpenses
  <1>2. PICK id \in [S -> Unused] :
            /\ \A y, z \in S : y # z => id[y] # id[z]
            /\ expenses' = [y \in ExpenseIds |-> IF y \in S
                  THEN [active |-> TRUE, cancelled |-> FALSE,
                        charge |-> charge, from |-> expensing[x].target]
                  ELSE expenses[y]]
            /\ PostAt(x, [e \in {id[y] : y \in S} |->
                  ExpenseLedgerEntry(CHOOSE y \in S : id[y] = e, charge)])
    BY <1>1
  <1> DEFINE new == [e \in {id[y] : y \in S} |->
                       ExpenseLedgerEntry(CHOOSE y \in S : id[y] = e, charge)]
  <1>3. S \in SUBSET (ExpenseIds \ Recorded) /\ Cardinality(S) = expensing[x].items
    BY <1>1 DEF kSubset
  <1>4. ASSUME expensing[x].target # NoExpense
        PROVE  \E y : S = {y}
    <2>1. expensing[x].items = 1
      BY <1>4 DEF ExpenseInv, CallsAim, CreateExpenses, AtStep
    <2>2. IsFiniteSet(S)
      BY <1>3, ExpenseConstants, FS_Subset
    <2> QED BY <1>3, <2>1, <2>2, FS_Singleton
  <1>5. ASSUME NEW y \in S
        PROVE  id[y] \in Unused /\ new[id[y]] = ExpenseLedgerEntry(y, charge)
    <2>1. (CHOOSE z \in S : id[z] = id[y]) = y
      BY <1>2
    <2> QED BY <2>1
  <1>6. DOMAIN new = {id[y] : y \in S} /\ PostAt(x, new)
    BY <1>2
  <1> HIDE DEF new
  <1> QED BY <1>2, <1>3, <1>4, <1>5, <1>6

\* New expenses get one debit each; nothing else changes.
LEMMA CreateKeeps ==
    ASSUME ExpenseInv, NEW x \in Clients, CreateExpenses(x)
    PROVE  ExpenseInv' /\ \A y \in Recorded : y \in Recorded' /\ expenses'[y] = expenses[y]
  <1> DEFINE call == expensing[x]
  <1>0. /\ ExpensesTypeOK /\ LedgerTypeOK /\ EntriesOfExpenses /\ CallsAim
        /\ call \in ExpenseCall /\ call.pc = "commit" /\ call.op = "CREATE"
        /\ UNCHANGED journeyOpen /\ Answer(x)
    BY DEF ExpenseInv, ExpensesTypeOK, CreateExpenses, AtStep
  <1>1. PICK S, id, new :
              /\ S \in SUBSET (ExpenseIds \ Recorded)
              /\ call.target # NoExpense => \E y : S = {y}
              /\ DOMAIN new = {id[y] : y \in S}
              /\ \A y \in S : /\ id[y] \in Unused
                              /\ new[id[y]] = ExpenseLedgerEntry(y, call.charge)
              /\ PostAt(x, new)
              /\ expenses' = [y \in ExpenseIds |-> IF y \in S
                    THEN [active |-> TRUE, cancelled |-> FALSE,
                          charge |-> call.charge, from |-> call.target]
                    ELSE expenses[y]]
    BY CreationRows
  <1> DEFINE row == [active |-> TRUE, cancelled |-> FALSE,
                     charge |-> call.charge, from |-> call.target]
  <1>2. /\ row \in Expense /\ row # NoExpense
        /\ row.active = TRUE /\ row.cancelled = FALSE
        /\ row.charge = call.charge /\ row.from = call.target
    <2>1. call.charge \in Charges /\ call.target \in ExpenseIds \cup {NoExpense}
      BY <1>0 DEF ExpenseCall
    <2> HIDE DEF call
    <2>2. row \in Expense
      BY <2>1 DEF Expense
    <2> QED BY <2>2, ExpenseConstants
  <1>3. expenses' = [y \in ExpenseIds |-> IF y \in S THEN row ELSE expenses[y]]
    BY <1>1
  <1> HIDE DEF row, call
  <1>4. /\ Recorded' = Recorded \cup S
        /\ \A y \in Recorded : y \in ExpenseIds /\ y \notin S /\ expenses'[y] = expenses[y]
        /\ \A y \in S : expenses'[y] = row
    <2>1. S \subseteq ExpenseIds /\ \A y \in Recorded : y \notin S /\ y \in ExpenseIds
      BY <1>1 DEF Recorded
    <2>2. \A y \in ExpenseIds : expenses'[y] = IF y \in S THEN row ELSE expenses[y]
      BY <1>3
    <2>3. Recorded' = Recorded \cup S
      BY <1>2, <2>1, <2>2 DEF Recorded
    <2> QED BY <2>1, <2>2, <2>3
  <1>5. \A y \in S : new[id[y]] \in Entry
    <2>1. call.charge \in Charges
      BY <1>0 DEF ExpenseCall
    <2> QED BY <1>1, <2>1, ExpenseEntryType
  <1>6. /\ DOMAIN new \subseteq Unused
        /\ \A e \in DOMAIN new : new[e] \in Entry
    BY <1>1, <1>5
  <1>7. /\ LedgerTypeOK' /\ createdAt' \in [EntryIds -> 0..MaxTime]
        /\ Extends(new)
        /\ \A e \in EntryIds : e \notin DOMAIN new => receipts'[e] = receipts[e]
    BY <1>0, <1>1, <1>6, PostAtType
  <1>8. /\ Posted' = Posted \cup DOMAIN new
        /\ \A e \in Posted : ledger'[e] = ledger[e] /\ e \notin DOMAIN new
        /\ \A e \in DOMAIN new : ledger'[e] = new[e] /\ e \notin Posted /\ e \in EntryIds
        /\ \A r, e \in EntryIds : Reverses(r, e)' <=>
              \/ Reverses(r, e)
              \/ r \in DOMAIN new /\ new[r].correction = "REVERSAL" /\ new[r].related = e
    BY <1>0, <1>7, EntriesAfter
  <1>9. \A y \in S : /\ new[id[y]].source = "EXPENSE" /\ new[id[y]].sourceId = y
                     /\ new[id[y]].correction = "ORIGINAL"
                     /\ new[id[y]].unit = call.charge.unit
                     /\ new[id[y]].amount = call.charge.amount
                     /\ id[y] \in DOMAIN new
    <2>1. ASSUME NEW y \in S
          PROVE  id[y] \in DOMAIN new /\ new[id[y]] = ExpenseLedgerEntry(y, call.charge)
      BY <1>1
    <2> QED BY <2>1, ExpenseEntryFields
  <1>10. \A e \in DOMAIN new : new[e].correction = "ORIGINAL"
    BY <1>1, <1>9
  <1>11. /\ \A r, e \in EntryIds : Reverses(r, e)' <=> Reverses(r, e)
         /\ \A e \in EntryIds : HasReversal(e)' <=> HasReversal(e)
    BY <1>8, <1>10 DEF HasReversal
  <1>12. \A y \in Recorded : Postings(y)' = Postings(y)
    <2>1. \A e \in DOMAIN new : ledger'[e].sourceId \in S
      BY <1>1, <1>8, <1>9
    <2> QED BY <1>4, <1>8, <2>1 DEF Postings
  <1>13. \A y \in S : Postings(y)' = {id[y]}
    <2>1. \A y \in S, e \in Posted : ~(/\ ledger[e].source \in {"EXPENSE", "EXPENSE_REPLACEMENT"}
                                       /\ ledger[e].sourceId = y)
      BY <1>0, <1>1 DEF EntriesOfExpenses
    <2>2. \A y \in S, e \in DOMAIN new : new[e].sourceId = y => e = id[y]
      BY <1>1, <1>9
    <2> QED BY <1>8, <1>9, <2>1, <2>2 DEF Postings
  <1>14. \A y \in Recorded : InEffect(y)' = InEffect(y)
    BY <1>11, <1>12 DEF InEffect, Postings, Posted
  <1>15. \A y \in S : InEffect(y)' = {id[y]}
    <2>1. \A e \in DOMAIN new : ~HasReversal(e)
      BY <1>0, <1>8 DEF HasReversal, Reverses, EntriesOfExpenses
    <2>2. \A e \in DOMAIN new : ~HasReversal(e)'
      BY <1>8, <1>11, <2>1
    <2> QED BY <1>9, <1>13, <2>2 DEF InEffect
  <1>16. EntriesOfExpenses'
    <2>1. \A e \in DOMAIN new : new[e].sourceId \in S
      BY <1>1, <1>9
    <2>2. \A e \in Posted' : ledger'[e].source \in {"EXPENSE", "EXPENSE_REPLACEMENT"} =>
             ledger'[e].sourceId \in Recorded'
      BY <1>0, <1>4, <1>8, <2>1 DEF EntriesOfExpenses
    <2>3. \A e \in Posted' : ledger'[e].correction = "REVERSAL" =>
             /\ ledger'[e].source = "LEDGER_CORRECTION"
             /\ ledger'[e].related \in Posted'
      BY <1>0, <1>8, <1>10 DEF EntriesOfExpenses
    <2>4. \A y \in Recorded' : Postings(y)' # {}
      BY <1>0, <1>4, <1>12, <1>13 DEF EntriesOfExpenses
    <2> QED BY <2>2, <2>3, <2>4 DEF EntriesOfExpenses
  <1>17. ExpenseMatchesLedger'
    <2> SUFFICES ASSUME NEW y \in Recorded'
                 PROVE  IF expenses'[y].active
                          THEN \E e \in EntryIds :
                                  /\ InEffect(y)' = {e}
                                  /\ ledger'[e].unit = expenses'[y].charge.unit
                                  /\ ledger'[e].amount = expenses'[y].charge.amount
                          ELSE InEffect(y)' = {}
      BY DEF ExpenseMatchesLedger
    <2>1. CASE y \in Recorded
      <3>1. \A e \in InEffect(y) : ledger'[e] = ledger[e]
        BY <1>8 DEF InEffect, Postings
      <3> QED BY <1>4, <1>14, <2>1, <3>1 DEF ExpenseInv, ExpenseMatchesLedger
    <2>2. CASE y \in S
      BY <1>2, <1>4, <1>8, <1>9, <1>15, <2>2
    <2> QED BY <1>4, <2>1, <2>2
  <1>18. CancelledExpensesSettled'
    <2> SUFFICES ASSUME NEW y \in Recorded', expenses'[y].cancelled
                 PROVE  ~expenses'[y].active /\ Postings(y)' \cap Outstanding' = {}
      BY DEF CancelledExpensesSettled
    <2>1. y \in Recorded /\ expenses'[y] = expenses[y]
      BY <1>2, <1>4
    <2>2. \A e \in Postings(y) : receipts'[e] = receipts[e]
      BY <1>7, <1>8 DEF Postings, Posted
    <2> QED BY <1>12, <2>1, <2>2 DEF ExpenseInv, CancelledExpensesSettled, Outstanding
  <1>19. RecreatedOnce'
    <2>1. call.target # NoExpense =>
             /\ call.target \in Recorded
             /\ expenses[call.target].cancelled
             /\ \A z \in Recorded : expenses[z].from # call.target
             /\ \E y : S = {y}
      BY <1>0, <1>1 DEF CallsAim, CreateExpenses, RecreationIndexFree, Recreated, call
    <2>2. \A y \in Recorded : expenses[y].from # NoExpense =>
             /\ expenses[y].from \in Recorded
             /\ expenses[expenses[y].from].cancelled
             /\ \A z \in Recorded : expenses[z].from = expenses[y].from => z = y
      BY DEF ExpenseInv, RecreatedOnce
    <2> SUFFICES ASSUME NEW y \in Recorded', expenses'[y].from # NoExpense
                 PROVE  /\ expenses'[y].from \in Recorded'
                        /\ expenses'[expenses'[y].from].cancelled
                        /\ \A z \in Recorded' : expenses'[z].from = expenses'[y].from => z = y
      BY DEF RecreatedOnce
    <2>3. CASE y \in Recorded
      BY <1>2, <1>4, <2>1, <2>2, <2>3
    <2>4. CASE y \in S
      BY <1>2, <1>4, <2>1, <2>2, <2>4
    <2> QED BY <1>4, <2>3, <2>4
  <1>20. expensing' \in [Clients -> ExpenseCall] /\ CallsAim'
    BY <1>0, <1>4, AnswerKeepsCalls
  <1>21. expenses' \in [ExpenseIds -> Expense \cup {NoExpense}]
    BY <1>0, <1>2, <1>3 DEF ExpensesTypeOK
  <1>22. ExpensesTypeOK'
    BY <1>0, <1>7, <1>20, <1>21 DEF ExpensesTypeOK
  <1> QED BY <1>4, <1>16, <1>17, <1>18, <1>19, <1>20, <1>22 DEF ExpenseInv

-----------------------------------------------------------------------------
(***************************************************************************)
(* The transactions on a recorded expense.                                 *)
(***************************************************************************)

\* The latest posting of an expense is reversed by r and, for an update,
\* replaced by a debit p of the new charge.  The expense had one debit in
\* effect and has the replacement now, or none; other expenses keep theirs.
LEMMA ReversalEffect ==
    ASSUME ExpenseInv, NEW y \in Recorded, NEW previous, NEW new, NEW r,
           InEffect(y) = {previous}, previous \in Postings(y),
           Extends(new), r \in DOMAIN new,
           new[r].correction = "REVERSAL", new[r].related = previous,
           new[r].source = "LEDGER_CORRECTION",
           \A p \in DOMAIN new \ {r} : /\ new[p].source = "EXPENSE_REPLACEMENT"
                                       /\ new[p].sourceId = y
                                       /\ new[p].correction = "REPLACEMENT"
    PROVE  /\ \A z \in Recorded \ {y} : /\ Postings(z)' = Postings(z)
                                        /\ InEffect(z)' = InEffect(z)
           /\ Postings(y)' = Postings(y) \cup (DOMAIN new \ {r})
           /\ InEffect(y)' = DOMAIN new \ {r}
           /\ \A z \in Recorded : \A e \in Postings(z) : ledger'[e] = ledger[e]
           /\ Recorded' = Recorded => EntriesOfExpenses'
  <1>0. LedgerTypeOK /\ EntriesOfExpenses /\ previous \in Posted /\ previous \in EntryIds
    BY DEF ExpenseInv, ExpensesTypeOK, Postings, Posted
  <1>1. /\ Posted' = Posted \cup DOMAIN new
        /\ \A e \in Posted : ledger'[e] = ledger[e] /\ e \notin DOMAIN new
        /\ \A e \in DOMAIN new : ledger'[e] = new[e] /\ e \notin Posted /\ e \in EntryIds
        /\ \A a, e \in EntryIds : Reverses(a, e)' <=>
              \/ Reverses(a, e)
              \/ a \in DOMAIN new /\ new[a].correction = "REVERSAL" /\ new[a].related = e
    BY <1>0, EntriesAfter
  <1>2. \A a, e \in EntryIds : Reverses(a, e)' <=> Reverses(a, e) \/ (a = r /\ e = previous)
    BY <1>1
  <1>3. \A e \in EntryIds : HasReversal(e)' <=> HasReversal(e) \/ e = previous
    BY <1>1, <1>2 DEF HasReversal
  <1>4. \A z \in Recorded \ {y} : Postings(z)' = Postings(z)
    BY <1>1 DEF Postings
  <1>5. Postings(y)' = Postings(y) \cup (DOMAIN new \ {r})
    BY <1>1 DEF Postings
  <1>6. \A e \in DOMAIN new : ~HasReversal(e)'
    BY <1>0, <1>1, <1>3 DEF HasReversal, Reverses, EntriesOfExpenses
  <1>7. InEffect(y)' = DOMAIN new \ {r}
    <2>1. \A e \in Postings(y) : HasReversal(e)'
      BY <1>3 DEF InEffect, Postings, Posted
    <2> QED BY <1>5, <1>6, <2>1 DEF InEffect
  <1>8. \A z \in Recorded \ {y} : InEffect(z)' = InEffect(z)
    <2>1. \A z \in Recorded \ {y} : previous \notin Postings(z)
      BY DEF Postings
    <2> QED BY <1>3, <1>4, <2>1 DEF InEffect, Postings, Posted
  <1>9. \A z \in Recorded : \A e \in Postings(z) : ledger'[e] = ledger[e]
    BY <1>1 DEF Postings
  <1>10. ASSUME Recorded' = Recorded PROVE EntriesOfExpenses'
    <2>1. \A e \in Posted' : ledger'[e].source \in {"EXPENSE", "EXPENSE_REPLACEMENT"} =>
             ledger'[e].sourceId \in Recorded'
      BY <1>0, <1>1, <1>10 DEF EntriesOfExpenses
    <2>2. \A e \in Posted' : ledger'[e].correction = "REVERSAL" =>
             /\ ledger'[e].source = "LEDGER_CORRECTION"
             /\ ledger'[e].related \in Posted'
      BY <1>0, <1>1 DEF EntriesOfExpenses
    <2>3. \A z \in Recorded' : Postings(z)' # {}
      BY <1>0, <1>4, <1>5, <1>10 DEF EntriesOfExpenses
    <2> QED BY <2>1, <2>2, <2>3 DEF EntriesOfExpenses
  <1> QED BY <1>4, <1>5, <1>7, <1>8, <1>9, <1>10

\* When one active expense is rewritten, the other expenses and what was
\* recreated from what stay as they are.
LEMMA RewriteKeeps ==
    ASSUME ExpenseInv, NEW x \in Clients, NEW y \in Recorded, NEW row \in Expense,
           expenses' = [expenses EXCEPT ![y] = row],
           expenses[y] \in Expense, ~expenses[y].cancelled,
           row.from = expenses[y].from,
           Answer(x)
    PROVE  /\ Recorded' = Recorded
           /\ expenses' \in [ExpenseIds -> Expense \cup {NoExpense}]
           /\ \A z \in Recorded \ {y} : expenses'[z] = expenses[z]
           /\ expenses'[y] = row
           /\ RecreatedOnce'
           /\ expensing' \in [Clients -> ExpenseCall] /\ CallsAim'
  <1>1. expenses \in [ExpenseIds -> Expense \cup {NoExpense}] /\ y \in ExpenseIds
    BY DEF ExpenseInv, ExpensesTypeOK, Recorded
  <1>2. /\ Recorded' = Recorded
        /\ expenses' \in [ExpenseIds -> Expense \cup {NoExpense}]
        /\ \A z \in Recorded \ {y} : expenses'[z] = expenses[z]
        /\ expenses'[y] = row
    BY <1>1, ExpenseConstants DEF Recorded
  <1>3. \A z \in Recorded : /\ expenses'[z].from = expenses[z].from
                            /\ expenses[z].cancelled => expenses'[z].cancelled
    BY <1>2
  <1>4. RecreatedOnce'
    BY <1>2, <1>3 DEF ExpenseInv, RecreatedOnce
  <1>5. expensing' \in [Clients -> ExpenseCall] /\ CallsAim'
    BY <1>2, <1>3, AnswerKeepsCalls
  <1> QED BY <1>2, <1>4, <1>5

\* The books agree after the transaction when they agree for the expense that
\* was rewritten, and a cancellation leaves it no open receipt.
LEMMA TransactionKeeps ==
    ASSUME ExpenseInv, NEW y \in Recorded, NEW row \in Expense,
           Recorded' = Recorded, expenses'[y] = row,
           \A z \in Recorded \ {y} : expenses'[z] = expenses[z],
           \A z \in Recorded \ {y} : /\ Postings(z)' = Postings(z)
                                     /\ InEffect(z)' = InEffect(z),
           \A z \in Recorded : \A e \in Postings(z) : ledger'[e] = ledger[e],
           \A z \in Recorded \ {y} : \A e \in Postings(z) : e \in Outstanding' => e \in Outstanding,
           IF row.active THEN \E e \in EntryIds : /\ InEffect(y)' = {e}
                                                  /\ ledger'[e].unit = row.charge.unit
                                                  /\ ledger'[e].amount = row.charge.amount
                         ELSE InEffect(y)' = {},
           row.cancelled => ~row.active /\ Postings(y)' \cap Outstanding' = {}
    PROVE  ExpenseMatchesLedger' /\ CancelledExpensesSettled'
  <1>1. ASSUME NEW z \in Recorded \ {y}
        PROVE  /\ IF expenses'[z].active
                    THEN \E e \in EntryIds : /\ InEffect(z)' = {e}
                                             /\ ledger'[e].unit = expenses'[z].charge.unit
                                             /\ ledger'[e].amount = expenses'[z].charge.amount
                    ELSE InEffect(z)' = {}
               /\ expenses'[z].cancelled =>
                    ~expenses'[z].active /\ Postings(z)' \cap Outstanding' = {}
    <2>1. \A e \in InEffect(z) : ledger'[e] = ledger[e]
      BY DEF InEffect
    <2>2. expenses'[z] = expenses[z] /\ InEffect(z)' = InEffect(z) /\ Postings(z)' = Postings(z)
      OBVIOUS
    <2>3. IF expenses[z].active
            THEN \E e \in EntryIds : /\ InEffect(z) = {e}
                                     /\ ledger[e].unit = expenses[z].charge.unit
                                     /\ ledger[e].amount = expenses[z].charge.amount
            ELSE InEffect(z) = {}
      BY DEF ExpenseInv, ExpenseMatchesLedger
    <2>4. expenses[z].cancelled => ~expenses[z].active /\ Postings(z) \cap Outstanding = {}
      BY DEF ExpenseInv, CancelledExpensesSettled
    <2> QED BY <2>1, <2>2, <2>3, <2>4
  <1>2. ExpenseMatchesLedger'
    BY <1>1 DEF ExpenseMatchesLedger
  <1>3. CancelledExpensesSettled'
    BY <1>1 DEF CancelledExpensesSettled
  <1> QED BY <1>2, <1>3

\* The replacement debit says the new charge of the expense.
LEMMA ReplacementFields ==
    ASSUME NEW y \in ExpenseIds, NEW charge \in Charges, NEW previous \in EntryIds,
           NEW entry, entry = ReplacementExpenseLedgerEntry(y, charge, previous)
    PROVE  /\ entry \in Entry
           /\ entry.source = "EXPENSE_REPLACEMENT" /\ entry.sourceId = y
           /\ entry.correction = "REPLACEMENT"
           /\ entry.unit = charge.unit /\ entry.amount = charge.amount
  <1>1. PICK base \in Entry : base = ExpenseLedgerEntry(y, charge)
    BY ExpenseEntryType
  <1>2. /\ base.sourceId = y
        /\ base.unit = charge.unit /\ base.amount = charge.amount
    BY <1>1, ExpenseEntryFields
  <1>3. entry = [base EXCEPT !.source = "EXPENSE_REPLACEMENT",
                             !.correction = "REPLACEMENT", !.related = previous]
    BY <1>1 DEF ReplacementExpenseLedgerEntry
  <1>4. /\ entry.source = "EXPENSE_REPLACEMENT" /\ entry.correction = "REPLACEMENT"
        /\ entry.sourceId = base.sourceId
        /\ entry.unit = base.unit /\ entry.amount = base.amount
    BY <1>3 DEF Entry
  <1> QED BY <1>2, <1>4, ReplacementEntryType

\* Update and Deactivate: the debit in effect is reversed, an update posts the
\* one of the new charge.
LEMMA UpdateKeeps ==
    ASSUME ExpenseInv, NEW x \in Clients, UpdateExpense(x)
    PROVE  ExpenseInv' /\ \A z \in Recorded : z \in Recorded'
                             /\ (~expenses[z].active => expenses'[z] = expenses[z])
  <1>0. /\ ExpensesTypeOK /\ LedgerTypeOK /\ EntriesOfExpenses
        /\ expenses \in [ExpenseIds -> Expense \cup {NoExpense}]
        /\ expensing[x] \in ExpenseCall
        /\ expensing[x].pc = "commit" /\ expensing[x].op \in {"UPDATE", "DEACTIVATE"}
        /\ Answer(x) /\ UNCHANGED journeyOpen
    BY DEF ExpenseInv, ExpensesTypeOK, UpdateExpense, AtStep
  <1>1. expensing[x].target \in Recorded
    BY <1>0 DEF ExpenseInv, CallsAim
  <1>2. PICK y \in Recorded : y = expensing[x].target
    BY <1>1
  <1>3. PICK charge \in Charges : charge = expensing[x].charge
    BY <1>0 DEF ExpenseCall
  <1>4. PICK previous : previous = LatestExpenseLedgerEntry(y)
    OBVIOUS
  <1>5. PICK active \in BOOLEAN : active = (expensing[x].op = "UPDATE")
    OBVIOUS
  <1>6. /\ expenses[y] \in Expense
        /\ expenses[y].active /\ ~expenses[y].cancelled
        /\ previous \in Postings(y)
        /\ InEffect(y) = {previous}
    <2>1. PostingReversible(y)
      BY <1>2 DEF UpdateExpense
    <2> QED BY <1>4, <2>1, ReversibleIsCurrent
  <1>7. y \in ExpenseIds /\ previous \in EntryIds /\ previous \in Posted
    BY <1>6 DEF Recorded, Postings, Posted
  <1>8. PICK row \in Expense :
           /\ expenses' = [expenses EXCEPT ![y] = row]
           /\ row.active = active /\ row.charge = charge
           /\ row.cancelled = expenses[y].cancelled /\ row.from = expenses[y].from
    <2> DEFINE row == [expenses[y] EXCEPT !.active = active, !.charge = charge]
    <2>1. /\ row \in Expense
          /\ row.active = active /\ row.charge = charge
          /\ row.cancelled = expenses[y].cancelled /\ row.from = expenses[y].from
      BY <1>6 DEF Expense
    <2>2. expenses' = [expenses EXCEPT ![y] = row]
      BY <1>0, <1>2, <1>3, <1>5, <1>7 DEF UpdateExpense
    <2> HIDE DEF row
    <2> QED BY <2>1, <2>2
  <1>9. PICK r, new :
           /\ r \in DOMAIN new
           /\ DOMAIN new \subseteq Unused
           /\ new[r] = ReversalOf(previous)
           /\ PostAt(x, new)
           /\ ~active => DOMAIN new = {r}
           /\ active => \E p : /\ p # r /\ DOMAIN new = {r, p}
                               /\ new[p] = ReplacementExpenseLedgerEntry(y, charge, previous)
    <2>1. PICK r \in Unused :
              IF active
                THEN \E p \in Unused \ {r} :
                       PostAt(x, [e \in {r, p} |-> IF e = r
                          THEN ReversalOf(previous)
                          ELSE ReplacementExpenseLedgerEntry(y, charge, previous)])
                ELSE PostAt(x, [e \in {r} |-> ReversalOf(previous)])
      BY <1>2, <1>3, <1>4, <1>5 DEF UpdateExpense
    <2>2. CASE active
      <3>1. PICK p \in Unused \ {r} :
               PostAt(x, [e \in {r, p} |-> IF e = r
                          THEN ReversalOf(previous)
                          ELSE ReplacementExpenseLedgerEntry(y, charge, previous)])
        BY <2>1, <2>2
      <3> DEFINE new == [e \in {r, p} |-> IF e = r
                          THEN ReversalOf(previous)
                          ELSE ReplacementExpenseLedgerEntry(y, charge, previous)]
      <3>2. /\ r \in DOMAIN new /\ DOMAIN new \subseteq Unused /\ DOMAIN new = {r, p}
            /\ new[r] = ReversalOf(previous)
            /\ new[p] = ReplacementExpenseLedgerEntry(y, charge, previous)
            /\ PostAt(x, new) /\ p # r
        BY <3>1
      <3> HIDE DEF new
      <3> QED BY <2>2, <3>2
    <2>3. CASE ~active
      <3> DEFINE new == [e \in {r} |-> ReversalOf(previous)]
      <3>1. /\ r \in DOMAIN new /\ DOMAIN new \subseteq Unused /\ DOMAIN new = {r}
            /\ new[r] = ReversalOf(previous)
            /\ PostAt(x, new)
        BY <2>1, <2>3
      <3> HIDE DEF new
      <3> QED BY <2>3, <3>1
    <2> QED BY <2>2, <2>3
  <1>10. /\ new[r] \in Entry
         /\ new[r].correction = "REVERSAL" /\ new[r].related = previous
         /\ new[r].source = "LEDGER_CORRECTION"
    BY <1>0, <1>7, <1>9, ReversalType DEF ReversalOf
  <1>11. \A p \in DOMAIN new \ {r} :
            /\ active /\ new[p] \in Entry
            /\ new[p].source = "EXPENSE_REPLACEMENT" /\ new[p].sourceId = y
            /\ new[p].correction = "REPLACEMENT"
            /\ new[p].unit = charge.unit /\ new[p].amount = charge.amount
    <2> SUFFICES ASSUME NEW p \in DOMAIN new \ {r}
                 PROVE  /\ active /\ new[p] \in Entry
                        /\ new[p].source = "EXPENSE_REPLACEMENT" /\ new[p].sourceId = y
                        /\ new[p].correction = "REPLACEMENT"
                        /\ new[p].unit = charge.unit /\ new[p].amount = charge.amount
      OBVIOUS
    <2>1. active /\ new[p] = ReplacementExpenseLedgerEntry(y, charge, previous)
      BY <1>9
    <2> QED BY <1>7, <2>1, ReplacementFields
  <1>12. \A e \in DOMAIN new : new[e] \in Entry
    BY <1>10, <1>11
  <1>13. /\ LedgerTypeOK' /\ createdAt' \in [EntryIds -> 0..MaxTime]
         /\ Extends(new)
         /\ \A e \in EntryIds : e \notin DOMAIN new => receipts'[e] = receipts[e]
    BY <1>0, <1>9, <1>12, PostAtType
  <1>14. /\ Recorded' = Recorded
         /\ expenses' \in [ExpenseIds -> Expense \cup {NoExpense}]
         /\ \A z \in Recorded \ {y} : expenses'[z] = expenses[z]
         /\ expenses'[y] = row
         /\ RecreatedOnce'
         /\ expensing' \in [Clients -> ExpenseCall] /\ CallsAim'
    BY <1>0, <1>6, <1>8, RewriteKeeps
  <1>15. /\ \A z \in Recorded \ {y} : /\ Postings(z)' = Postings(z)
                                      /\ InEffect(z)' = InEffect(z)
         /\ InEffect(y)' = DOMAIN new \ {r}
         /\ \A z \in Recorded : \A e \in Postings(z) : ledger'[e] = ledger[e]
         /\ EntriesOfExpenses'
    BY <1>6, <1>9, <1>10, <1>11, <1>13, <1>14, ReversalEffect
  <1>16. IF row.active THEN \E e \in EntryIds : /\ InEffect(y)' = {e}
                                                /\ ledger'[e].unit = row.charge.unit
                                                /\ ledger'[e].amount = row.charge.amount
                       ELSE InEffect(y)' = {}
    <2>1. CASE active
      <3>1. PICK p : p # r /\ DOMAIN new = {r, p}
        BY <1>9, <2>1
      <3>2. p \in EntryIds /\ ledger'[p] = new[p]
        BY <1>0, <1>13, <3>1, EntriesAfter
      <3>3. InEffect(y)' = {p}
        BY <1>15, <3>1
      <3> QED BY <1>8, <1>11, <2>1, <3>1, <3>2, <3>3
    <2>2. CASE ~active
      BY <1>8, <1>9, <1>15, <2>2
    <2> QED BY <2>1, <2>2
  <1>17. \A z \in Recorded \ {y} : \A e \in Postings(z) : e \in Outstanding' => e \in Outstanding
    <2>1. \A z \in Recorded : \A e \in Postings(z) : e \notin DOMAIN new /\ e \in EntryIds
      BY <1>9 DEF Postings, Posted, Unused
    <2> QED BY <1>13, <2>1 DEF Outstanding
  <1>18. ExpenseMatchesLedger' /\ CancelledExpensesSettled'
    BY <1>6, <1>8, <1>14, <1>15, <1>16, <1>17, TransactionKeeps
  <1>19. ExpensesTypeOK'
    BY <1>0, <1>13, <1>14 DEF ExpensesTypeOK
  <1> QED BY <1>6, <1>14, <1>15, <1>18, <1>19 DEF ExpenseInv

\* Cancel: the debit in effect is reversed and every open receipt of the
\* expense's debits is cancelled.
LEMMA CancelKeeps ==
    ASSUME ExpenseInv, NEW x \in Clients, CancelExpense(x)
    PROVE  ExpenseInv' /\ \A z \in Recorded : z \in Recorded'
                             /\ (~expenses[z].active => expenses'[z] = expenses[z])
  <1>0. /\ ExpensesTypeOK /\ LedgerTypeOK /\ EntriesOfExpenses
        /\ expenses \in [ExpenseIds -> Expense \cup {NoExpense}]
        /\ expensing[x].pc = "commit" /\ expensing[x].op = "CANCEL"
        /\ Answer(x) /\ UNCHANGED <<createdAt, journeyOpen>>
    BY DEF ExpenseInv, ExpensesTypeOK, CancelExpense, AtStep
  <1>1. expensing[x].target \in Recorded
    BY <1>0 DEF ExpenseInv, CallsAim
  <1>2. PICK y \in Recorded : y = expensing[x].target
    BY <1>1
  <1>3. PICK previous : previous = LatestExpenseLedgerEntry(y)
    OBVIOUS
  <1>4. /\ expenses[y] \in Expense
        /\ expenses[y].active /\ ~expenses[y].cancelled
        /\ previous \in Postings(y)
        /\ InEffect(y) = {previous}
    <2>1. PostingReversible(y)
      BY <1>2 DEF CancelExpense, CancelAllowed
    <2> QED BY <1>3, <2>1, ReversibleIsCurrent
  <1>5. y \in ExpenseIds /\ previous \in EntryIds /\ previous \in Posted
    BY <1>4 DEF Recorded, Postings, Posted
  <1>6. PICK row \in Expense :
           /\ expenses' = [expenses EXCEPT ![y] = row]
           /\ row.active = FALSE /\ row.cancelled = TRUE /\ row.from = expenses[y].from
    <2> DEFINE row == [expenses[y] EXCEPT !.active = FALSE, !.cancelled = TRUE]
    <2>1. /\ row \in Expense
          /\ row.active = FALSE /\ row.cancelled = TRUE /\ row.from = expenses[y].from
      BY <1>4 DEF Expense
    <2>2. expenses' = [expenses EXCEPT ![y] = row]
      BY <1>0, <1>2, <1>5 DEF CancelExpense
    <2> HIDE DEF row
    <2> QED BY <2>1, <2>2
  <1>7. PICK r \in Unused : ledger' = [ledger EXCEPT ![r] = ReversalOf(previous)]
    BY <1>2, <1>3 DEF CancelExpense
  <1> DEFINE new == [e \in {r} |-> ReversalOf(previous)]
  <1>8. /\ DOMAIN new = {r} /\ new[r] \in Entry
        /\ new[r].correction = "REVERSAL" /\ new[r].related = previous
        /\ new[r].source = "LEDGER_CORRECTION"
    BY <1>0, <1>5, ReversalType DEF ReversalOf
  <1>9. Extends(new)
    BY <1>0, <1>7, <1>8 DEF Extends, LedgerTypeOK
  <1> HIDE DEF new
  <1>10. /\ \A e \in EntryIds : receipts'[e] =
               IF e \in Postings(y) /\ e \in Outstanding
                 THEN [receipts[e] EXCEPT !.status = "CANCELLED"] ELSE receipts[e]
         /\ receipts' = [e \in EntryIds |-> receipts'[e]]
    BY <1>2 DEF CancelExpense, ReceiptsToCancel
  <1>11. ASSUME NEW e \in EntryIds
         PROVE  /\ receipts'[e] \in Receipt \cup {NoReceipt}
                /\ e \in Postings(y) => e \notin Outstanding'
                /\ e \in Outstanding' => e \in Outstanding
    <2>1. CASE e \in Postings(y) /\ e \in Outstanding
      <3>1. receipts[e] \in Receipt
        BY <1>0, <2>1 DEF LedgerTypeOK, Outstanding
      <3>2. receipts'[e] \in Receipt /\ receipts'[e].status = "CANCELLED"
        BY <1>10, <2>1, <3>1 DEF Receipt, TerminalStatuses
      <3> QED BY <3>2, <2>1 DEF Outstanding, OutstandingStatuses
    <2>2. CASE ~(e \in Postings(y) /\ e \in Outstanding)
      BY <1>0, <1>10, <2>2 DEF LedgerTypeOK, Outstanding
    <2> QED BY <2>1, <2>2
  <1>12. LedgerTypeOK'
    <2>1. ledger' \in [EntryIds -> Entry \cup {NoEntry}]
      BY <1>0, <1>8, <1>9 DEF Extends, LedgerTypeOK
    <2> QED BY <1>10, <1>11, <2>1 DEF LedgerTypeOK
  <1>13. /\ Recorded' = Recorded
         /\ expenses' \in [ExpenseIds -> Expense \cup {NoExpense}]
         /\ \A z \in Recorded \ {y} : expenses'[z] = expenses[z]
         /\ expenses'[y] = row
         /\ RecreatedOnce'
         /\ expensing' \in [Clients -> ExpenseCall] /\ CallsAim'
    BY <1>0, <1>4, <1>6, RewriteKeeps
  <1>14. /\ \A z \in Recorded \ {y} : /\ Postings(z)' = Postings(z)
                                      /\ InEffect(z)' = InEffect(z)
         /\ Postings(y)' = Postings(y)
         /\ InEffect(y)' = {}
         /\ \A z \in Recorded : \A e \in Postings(z) : ledger'[e] = ledger[e]
         /\ EntriesOfExpenses'
    <2>1. /\ \A z \in Recorded \ {y} : /\ Postings(z)' = Postings(z)
                                       /\ InEffect(z)' = InEffect(z)
          /\ Postings(y)' = Postings(y) \cup (DOMAIN new \ {r})
          /\ InEffect(y)' = DOMAIN new \ {r}
          /\ \A z \in Recorded : \A e \in Postings(z) : ledger'[e] = ledger[e]
          /\ EntriesOfExpenses'
      BY <1>4, <1>8, <1>9, <1>13, ReversalEffect
    <2> QED BY <1>8, <2>1
  <1>15. \A z \in Recorded : \A e \in Postings(z) : e \in EntryIds
    BY DEF Postings, Posted
  <1>16. /\ \A z \in Recorded \ {y} : \A e \in Postings(z) : e \in Outstanding' => e \in Outstanding
         /\ Postings(y)' \cap Outstanding' = {}
    BY <1>11, <1>14, <1>15
  <1>17. ExpenseMatchesLedger' /\ CancelledExpensesSettled'
    BY <1>6, <1>13, <1>14, <1>16, TransactionKeeps
  <1>18. ExpensesTypeOK'
    BY <1>0, <1>12, <1>13 DEF ExpensesTypeOK
  <1> QED BY <1>4, <1>13, <1>14, <1>17, <1>18 DEF ExpenseInv

-----------------------------------------------------------------------------
\* Every step keeps the books right and leaves an inactive expense alone.
LEMMA ExpenseNext ==
    ASSUME ExpenseInv, [ExpensesNext]_expenseVars
    PROVE  ExpenseInv' /\ \A z \in Recorded : z \in Recorded'
                             /\ (~expenses[z].active => expenses'[z] = expenses[z])
  <1>1. ASSUME NEW x \in Clients, CreateExpenses(x) \/ UpdateExpense(x) \/ CancelExpense(x)
        PROVE  ExpenseInv' /\ \A z \in Recorded : z \in Recorded'
                                 /\ (~expenses[z].active => expenses'[z] = expenses[z])
    BY <1>1, CreateKeeps, UpdateKeeps, CancelKeeps
  <1>2. ASSUME expenses' = expenses
        PROVE  \A z \in Recorded : z \in Recorded' /\ expenses'[z] = expenses[z]
    BY <1>2 DEF Recorded
  <1>3. ASSUME NEW x \in Clients,
               \/ ExpenseRequest(x)
               \/ CheckSource(x) \/ CheckNotRecreated(x) \/ CheckJourney(x)
               \/ CommitRefused(x) \/ AbortExpenseCall(x)
        PROVE  ExpenseInv' /\ expenses' = expenses
    <2>1. TablesUnchanged
      BY <1>3 DEF ExpenseRequest, StartCreate, StartUpdate, StartCancel, StartDeactivate,
                  Begin, CheckSource, CheckNotRecreated, CheckJourney, CommitRefused,
                  AbortExpenseCall
    <2> QED BY <1>3, <2>1, ExpenseReads DEF TablesUnchanged
  <1>4. ASSUME CloseJourney \/ \E e \in EntryIds : ReturnReceipt(e)
        PROVE  ExpenseInv' /\ expenses' = expenses
    BY <1>4, AccountKeeps DEF CloseJourney, ReturnReceipt
  <1>5. CASE UNCHANGED expenseVars
    <2>1. TablesUnchanged /\ expensing' = expensing /\ expenses' = expenses
      BY <1>5 DEF expenseVars, TablesUnchanged
    <2>2. expensing' \in [Clients -> ExpenseCall] /\ CallsAim'
      BY <2>1 DEF ExpenseInv, ExpensesTypeOK, CallsAim, Recorded
    <2> QED BY <1>2, <2>1, <2>2, ReadsKeep
  <1> QED BY <1>1, <1>2, <1>3, <1>4, <1>5 DEF ExpensesNext, ExpenseStep

\* The invariant holds throughout.
LEMMA ExpenseInvariance == ExpensesSpec => []ExpenseInv
  <1>1. ExpenseInv /\ [ExpensesNext]_expenseVars => ExpenseInv'
    BY ExpenseNext
  <1> QED BY <1>1, ExpenseInit, PTL DEF ExpensesSpec

\* Type correctness: tables, timestamps and calls in flight stay well typed.
THEOREM ExpensesTypeCorrect == ExpensesSpec => []ExpensesTypeOK
  <1>1. ExpenseInv => ExpensesTypeOK
    BY DEF ExpenseInv
  <1> QED BY <1>1, ExpenseInvariance, PTL

\* However many updates, cancellations and deactivations of an expense are in
\* flight, it is charged exactly once, by its current charge, while it is
\* active and not at all afterwards.
THEOREM ChargedOnce == ExpensesSpec => []ExpenseMatchesLedger
  <1>1. ExpenseInv => ExpenseMatchesLedger
    BY DEF ExpenseInv
  <1> QED BY <1>1, ExpenseInvariance, PTL

\* A cancelled expense leaves no receipt open for any debit it ever posted.
THEOREM CancellationSettles == ExpensesSpec => []CancelledExpensesSettled
  <1>1. ExpenseInv => CancelledExpensesSettled
    BY DEF ExpenseInv
  <1> QED BY <1>1, ExpenseInvariance, PTL

\* Recreations that race record one replacement, of a cancelled expense.
THEOREM RecreatedAtMostOnce == ExpensesSpec => []RecreatedOnce
  <1>1. ExpenseInv => RecreatedOnce
    BY DEF ExpenseInv
  <1> QED BY <1>1, ExpenseInvariance, PTL

\* An expense that has ended is never revived by a call that read it earlier.
THEOREM EndedForGood == ExpensesSpec => ExpensesEndForGood
  <1>1. ExpenseInv /\ [ExpensesNext]_expenseVars =>
          [\A y \in Recorded : ~expenses[y].active =>
              /\ y \in Recorded' /\ ~expenses'[y].active
              /\ expenses[y].cancelled => expenses'[y] = expenses[y]]_expenseVars
    BY ExpenseNext
  <1> QED BY <1>1, ExpenseInvariance, PTL DEF ExpensesSpec, ExpensesEndForGood
=============================================================================
