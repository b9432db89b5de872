--------------------------- MODULE CurrentAccount ---------------------------
(***************************************************************************)
(* The current account of one collaborator journey: settlements and        *)
(* closure, corrections and receipts, run by concurrent HTTP requests over *)
(* the same tables, together with what the other packages do to those      *)
(* tables (expenses and accruals post entries, cancelling an expense       *)
(* reverses its debit, accrual runs create and resolve PENDING items).     *)
(***************************************************************************)
EXTENDS Settlements, LedgerCorrections, LedgerReceipts

CONSTANTS OrdinaryPostings,  \* records [direction, unit, amount] the other
                             \* packages may post
          LegacyDebits,      \* entries that predate the receipt hook
          SettlementOps,     \* the settlement operations requested
          Approvals,         \* whether requests name a second approver
          PolicyValues       \* values the approval policy is updated to

ASSUME CurrentAccountConstants ==
    /\ OrdinaryPostings \subseteq [direction : Directions, unit : Units,
                                   amount : PosNat]
    /\ LegacyDebits \subseteq EntryIds
    /\ SettlementOps \subseteq SettlementTypes
    /\ Approvals \subseteq BOOLEAN
    /\ PolicyValues \subseteq BOOLEAN

vars == <<ledger, receipts, secondApproval, journey, settlements,
          pendingAccruals, settling, correcting, handling>>

-----------------------------------------------------------------------------
\* An expense debits the account, a work period assignment credits it.
OrdinaryEntry(p) ==
    [type       |-> "ORDINARY",
     source     |-> IF p.direction = "DEBIT" THEN "EXPENSE"
                                             ELSE "WORK_PERIOD_ASSIGNMENT",
     sourceId   |-> NoSource,
     direction  |-> p.direction,
     unit       |-> p.unit,
     amount     |-> p.amount,
     correction |-> "ORIGINAL",
     related    |-> NoEntry]

Init ==
    /\ \E legacy \in [LegacyDebits ->
                        {p \in OrdinaryPostings : p.direction = "DEBIT"}] :
          ledger = [e \in EntryIds |-> IF e \in LegacyDebits
                                         THEN OrdinaryEntry(legacy[e])
                                         ELSE NoEntry]
    /\ receipts = [e \in EntryIds |-> NoReceipt]
    /\ ApprovalInit
    /\ SettlementsInit
    /\ CorrectionsInit
    /\ ReceiptsInit

\* The bound on the ledger: a request is accepted, and an entry posted, only
\* while the identifiers left cover what the calls in flight may still post.
Reserved == Cardinality(Units) * Cardinality({s \in Settlers :
                                    settling[s].op \in PaymentTypes})
            + 2 * Cardinality({c \in Correctors : correcting[c].pc # "idle"})

Room(n) == Cardinality(Unused) >= Reserved + n

\* Creation of an expense, or posting of an accrual run.  The journey's
\* status was checked earlier, if at all.
PostOrdinaryEntry(p) ==
    /\ Room(1)
    /\ \E e \in Unused : CreateEntries([x \in {e} |-> OrdinaryEntry(p)])
    /\ UNCHANGED <<secondApproval, settlementVars, correcting, handling>>

\* expenses.Cancel: the reversal and the cancellation of an open receipt, in
\* one transaction.
CancelExpense(e) ==
    /\ Room(1)
    /\ e \in Posted
    /\ ledger[e].source = "EXPENSE"
    /\ ~HasReversal(e)
    /\ receipts[e] # NoReceipt
    /\ \E r \in Unused : ledger' = [ledger EXCEPT ![r] = ReversalOf(e)]
    /\ receipts' = [receipts EXCEPT ![e].status =
                      IF @ \in TerminalStatuses THEN @ ELSE "CANCELLED"]
    /\ UNCHANGED <<secondApproval, settlementVars, correcting, handling>>

\* An accrual run of the journey's work periods is recalculated.
RecalculateAccruals ==
    /\ pendingAccruals' = ~pendingAccruals
    /\ UNCHANGED <<ledger, receipts, secondApproval, journey, settlements,
                   settling, correcting, handling>>

UpdatePolicy ==
    /\ \E required \in PolicyValues : UpdateSecondPersonApprovalPolicy(required)
    /\ UNCHANGED <<ledger, receipts, settlementVars, correcting, handling>>

-----------------------------------------------------------------------------
RequestSettlement(s) ==
    /\ Room(Cardinality(Units))
    /\ \E op \in SettlementOps, q \in RequestIds, approved \in Approvals,
          amounts \in PayoutAmounts \cup {ZeroAmounts} :
            StartSettlement(s, op, q, amounts, approved)
    /\ UNCHANGED <<correcting, handling>>

RequestPreview(s) == StartPreview(s) /\ UNCHANGED <<correcting, handling>>

SettlementProgress(s) == SettlementStep(s) /\ UNCHANGED <<correcting, handling>>

SettlementAborted(s) == AbortSettlement(s) /\ UNCHANGED <<correcting, handling>>

RequestCorrection(c) ==
    /\ Room(2)
    /\ \E e \in EntryIds, r \in Replacements \cup {NoEntry},
          approved \in Approvals : StartCorrection(c, e, r, approved)
    /\ UNCHANGED <<settlementVars, handling>>

CorrectionProgress(c) == CorrectionStep(c) /\ UNCHANGED <<settlementVars, handling>>

CorrectionAborted(c) == AbortCorrection(c) /\ UNCHANGED <<settlementVars, handling>>

RequestReceiptCall(k) ==
    /\ \/ \E e \in EntryIds : \/ StartPrint(k, e)
                              \/ StartReturn(k, e)
                              \/ \E party \in Parties : StartAccept(k, e, party)
       \/ \E approved \in Approvals : StartBackfill(k, approved)
    /\ UNCHANGED <<settlementVars, correcting>>

ReceiptProgress(k) == ReceiptStep(k) /\ UNCHANGED <<settlementVars, correcting>>

ReceiptCallAborted(k) == AbortReceiptCall(k) /\ UNCHANGED <<settlementVars, correcting>>

Next ==
    \/ \E s \in Settlers : \/ RequestSettlement(s)
                           \/ RequestPreview(s)
                           \/ SettlementProgress(s)
                           \/ SettlementAborted(s)
    \/ \E c \in Correctors : \/ RequestCorrection(c)
                             \/ CorrectionProgress(c)
                             \/ CorrectionAborted(c)
    \/ \E k \in Clerks : \/ RequestReceiptCall(k)
                         \/ ReceiptProgress(k)
                         \/ ReceiptCallAborted(k)
    \/ \E p \in OrdinaryPostings : PostOrdinaryEntry(p)
    \/ \E e \in EntryIds : CancelExpense(e)
    \/ RecalculateAccruals
    \/ UpdatePolicy

Spec == Init /\ [][Next]_vars

\* A handler has no loop and waits for nothing but the database, whose busy
\* timeout bounds every statement: a call in flight takes its next step.
FairSpec == /\ Spec
            /\ \A s \in Settlers : WF_vars(SettlementProgress(s))
            /\ \A c \in Correctors : WF_vars(CorrectionProgress(c))
            /\ \A k \in Clerks : WF_vars(ReceiptProgress(k))
-----------------------------------------------------------------------------
(***************************************************************************)
(* Properties                                                              *)
(***************************************************************************)

\* Every variable keeps its type.
TypeOK == /\ LedgerTypeOK
          /\ ApprovalTypeOK
          /\ SettlementsTypeOK
          /\ CorrectionsTypeOK
          /\ ReceiptsTypeOK

\* Whatever corrections and cancellations race, an entry is reversed at most
\* once, never by or of another reversal, and the reversal mirrors it exactly.
ReversalIntegrity ==
    /\ \A r \in Posted : ledger[r].correction = "REVERSAL" => ledger[r].related \in Posted
    /\ \A r, o \in EntryIds : Reverses(r, o) =>
          /\ ledger[o].correction # "REVERSAL"
          /\ ledger[r].unit = ledger[o].unit
          /\ ledger[r].amount = ledger[o].amount
          /\ ledger[r].direction = Opposite(ledger[o].direction)
          /\ \A r2 \in EntryIds : Reverses(r2, o) => r2 = r

Replaces(p, e) == /\ p \in Posted
                  /\ ledger[p].correction = "REPLACEMENT"
                  /\ ledger[p].related = e

\* A replacement never adds to the entry it replaces: that entry is reversed,
\* and no second replacement stands for it (ReplaceEntry posts both at once).
ReplacementIntegrity ==
    \A p \in EntryIds, o \in EntryIds \cup {NoEntry} : Replaces(p, o) =>
        /\ HasReversal(o)
        /\ \A p2 \in EntryIds : Replaces(p2, o) => p2 = p

\* The balance the queries compute from all rows is the sum of the entries
\* still in effect: reversed entries and their reversals cancel out.
BalanceOfEntriesInEffect ==
    \A u \in Units :
        Balance(u) = MapThenSumSet(LAMBDA e : Signed(ledger[e]),
                        {e \in Posted : /\ ledger[e].unit = u
                                        /\ ledger[e].correction # "REVERSAL"
                                        /\ ~HasReversal(e)})

\* Every debit and every final-settlement entry has one receipt addressed to
\* the party that must confirm it, and no other entry has one; only debits
\* that predate the hook may lack theirs.
ReceiptObligations ==
    \A e \in EntryIds :
        IF receipts[e] = NoReceipt
          THEN e \in Posted =>
                  \/ ledger[e].direction = "CREDIT" /\ ~IsFinalSettlement(ledger[e])
                  \/ e \in LegacyDebits
          ELSE /\ e \in Posted
               /\ <<IsFinalSettlement(ledger[e]), ledger[e].direction,
                    receipts[e].purpose, receipts[e].party>> \in
                  {<<FALSE, "DEBIT", "LEDGER_DEBIT", "COLLABORATOR">>,
                   <<TRUE, "DEBIT", "FINAL_SETTLEMENT_TENANT_PAYMENT", "COLLABORATOR">>,
                   <<TRUE, "CREDIT", "FINAL_SETTLEMENT_COLLABORATOR_PAYMENT", "TENANT">>}

\* Printing, returning, accepting and cancelling may race: a final-settlement
\* receipt is completed by the in-app acceptance of its party and by nothing
\* else, and an ordinary receipt is never accepted in the application.
FinalReceiptsCompletedByAcceptance ==
    \A e \in EntryIds : receipts[e] # NoReceipt =>
        IF receipts[e].purpose \in FinalPurposes
          THEN /\ receipts[e].status # "CANCELLED"
               /\ receipts[e].accepted <=> receipts[e].status = "RETURNED"
          ELSE ~receipts[e].accepted

EntriesOf(q, u) == {e \in Posted : /\ ledger[e].source = "JOURNEY_SETTLEMENT"
                                   /\ ledger[e].sourceId = q
                                   /\ ledger[e].unit = u}

\* Retries and concurrent duplicates of a request post its money once: the
\* entries of a request id are exactly those of its recorded settlement.
SettlementsMatchLedger ==
    \A q \in RequestIds, u \in Units :
        IF settlements[q] = NoSettlement \/ settlements[q].amounts[u] = 0
          THEN EntriesOf(q, u) = {}
          ELSE \E e \in EntryIds : /\ EntriesOf(q, u) = {e}
                                   /\ ledger[e].amount = settlements[q].amounts[u]

Closures == {q \in RequestIds : /\ settlements[q] # NoSettlement
                                /\ settlements[q].type = "CLOSE_JOURNEY"}

\* A journey is closed exactly when one CLOSE_JOURNEY audit row exists, also
\* when two closures race or a closure is retried.
ClosedIffAudited ==
    IF journey = "FINISHED" THEN \E q \in RequestIds : Closures = {q}
                            ELSE Closures = {}

\* The step that closes the journey finds every unit at zero, although the
\* preview read the balances several steps earlier.
ClosesAtZeroBalance == [][journey' # journey => ZeroBalance]_vars

\* A receipt that has been returned or cancelled never changes, and no receipt
\* disappears or is re-addressed, whatever calls were in flight.
ReceiptsSettleOnce ==
    [][\A e \in EntryIds : receipts[e] # NoReceipt =>
          /\ receipts'[e] # NoReceipt
          /\ receipts'[e].purpose = receipts[e].purpose
          /\ receipts'[e].party = receipts[e].party
          /\ receipts[e].status \in TerminalStatuses =>
                receipts'[e] = receipts[e]]_vars

PaysWithinBalance ==
    \A q \in RequestIds, u \in Units :
        /\ settlements[q] = NoSettlement
        /\ settlements'[q] # NoSettlement
        /\ settlements'[q].amounts[u] > 0
        => IF settlements'[q].type = "FINAL_COLLABORATOR_PAYMENT"
             THEN Balance(u)' <= 0
             ELSE Balance(u)' >= 0

\* A settlement takes no unit's balance past zero: a payment to the
\* collaborator leaves it at least zero, a repayment at most zero.
SettlementNeverCrossesZero == [][PaysWithinBalance]_vars

\* The step that closes the journey finds no blocker of the preview present:
\* no receipt outstanding and no accrual item pending.
ClosesUnblocked ==
    [][journey' # journey => Outstanding = {} /\ ~pendingAccruals]_vars

\* Once the approval policy is turned on for good, a time comes after which no
\* call without a second approver is at work.
PolicyTakesEffect ==
    <>[]secondApproval =>
        <>[](/\ \A s \in Settlers : settling[s].approved
             /\ \A c \in Correctors : correcting[c].approved
             /\ \A k \in Clerks : handling[k].approved)
=============================================================================
