--------------------------- MODULE LedgerReceipts ---------------------------
(***************************************************************************)
(* The life of a receipt obligation: PrintReceipt, ReturnReceipt,          *)
(* AcceptReceipt and the repair operation BackfillDebitLedgerReceipts.     *)
(* Each finds the receipt in one statement, checks it, and changes it in a *)
(* later transaction that reads it again.  The triggers on ledger_receipts *)
(* (terminal statuses, immutable acceptance and direction) admit exactly   *)
(* the updates whose own checks pass, so no update below meets one.        *)
(***************************************************************************)
EXTENDS Ledger, ApprovalPolicy

CONSTANT Clerks           \* receipt calls that may be in flight at once

VARIABLE handling

ReceiptOps == {"PRINT", "RETURN", "ACCEPT", "BACKFILL"}

ReceiptCall == [pc       : {"idle", "list", "commit"},
                op       : ReceiptOps,
                target   : EntryIds \cup {NoEntry},
                missing  : SUBSET EntryIds,
                approved : BOOLEAN]

IdleClerk == [pc |-> "idle", op |-> "PRINT", target |-> NoEntry,
              missing |-> {}, approved |-> TRUE]

ReceiptsTypeOK == handling \in [Clerks -> ReceiptCall]

ReceiptsInit == handling = [k \in Clerks |-> IdleClerk]

-----------------------------------------------------------------------------
FinishHandling(k) == handling' = [handling EXCEPT ![k] = IdleClerk]

Committing(k, op) == handling[k].pc = "commit" /\ handling[k].op = op

BeginCommit(k, op, target) ==
    handling' = [handling EXCEPT ![k] =
                   [IdleClerk EXCEPT !.pc = "commit", !.op = op,
                                     !.target = target]]

\* FindReceiptByLedgerEntryID of a receipt that exists.
StartPrint(k, e) ==
    /\ handling[k].pc = "idle"
    /\ receipts[e] # NoReceipt
    /\ BeginCommit(k, "PRINT", e)
    /\ UNCHANGED <<ledger, receipts, secondApproval>>

\* Mutant of StartReturn: any receipt may be returned by hand.
StartAnyReturn(k, e) ==
    /\ handling[k].pc = "idle"
    /\ receipts[e] # NoReceipt
    /\ BeginCommit(k, "RETURN", e)
    /\ UNCHANGED <<ledger, receipts, secondApproval>>

\* Final-settlement receipts are accepted in the application, not returned.
StartReturn(k, e) ==
    /\ handling[k].pc = "idle"
    /\ receipts[e] # NoReceipt
    /\ receipts[e].purpose \notin FinalPurposes
    /\ BeginCommit(k, "RETURN", e)
    /\ UNCHANGED <<ledger, receipts, secondApproval>>

\* `party' is the side on whose behalf the route was called.
StartAccept(k, e, party) ==
    /\ handling[k].pc = "idle"
    /\ receipts[e] # NoReceipt
    /\ ~receipts[e].accepted
    /\ receipts[e].status \notin TerminalStatuses
    /\ receipts[e].purpose \in FinalPurposes
    /\ receipts[e].party = party
    /\ BeginCommit(k, "ACCEPT", e)
    /\ UNCHANGED <<ledger, receipts, secondApproval>>

\* A returned receipt may be printed again; it keeps its status.
MarkReceiptPrinted(k) ==
    /\ Committing(k, "PRINT")
    /\ receipts' = [receipts EXCEPT ![handling[k].target].status =
                      IF @ \in {"PENDING_ISSUE", "ISSUED", "PRINTED"}
                        THEN "PRINTED" ELSE @]
    /\ FinishHandling(k)
    /\ UNCHANGED <<ledger, secondApproval>>

MayReturn(receipt) == receipt.status \notin TerminalStatuses

MarkReceiptReturned(k) ==
    /\ Committing(k, "RETURN")
    /\ MayReturn(receipts[handling[k].target])
    /\ receipts' = [receipts EXCEPT ![handling[k].target].status = "RETURNED"]
    /\ FinishHandling(k)
    /\ UNCHANGED <<ledger, secondApproval>>

MayAccept(receipt) == /\ receipt.status \notin TerminalStatuses
                      /\ ~receipt.accepted

MarkReceiptAccepted(k) ==
    /\ Committing(k, "ACCEPT")
    /\ MayAccept(receipts[handling[k].target])
    /\ receipts' = [receipts EXCEPT ![handling[k].target].status = "RETURNED",
                                    ![handling[k].target].accepted = TRUE]
    /\ FinishHandling(k)
    /\ UNCHANGED <<ledger, secondApproval>>

\* ErrReceiptAlreadyReturned, ErrReceiptAlreadyAccepted, ErrReceiptCancelled.
ReceiptRefused(k) ==
    /\ \/ Committing(k, "RETURN") /\ ~MayReturn(receipts[handling[k].target])
       \/ Committing(k, "ACCEPT") /\ ~MayAccept(receipts[handling[k].target])
    /\ FinishHandling(k)
    /\ UNCHANGED <<ledger, receipts, secondApproval>>

-----------------------------------------------------------------------------
StartBackfill(k, approved) ==
    /\ handling[k].pc = "idle"
    /\ RequireSecondApproval(approved)
    /\ handling' = [handling EXCEPT ![k] =
                      [IdleClerk EXCEPT !.pc = "list", !.op = "BACKFILL",
                                        !.approved = approved]]
    /\ UNCHANGED <<ledger, receipts, secondApproval>>

DebitsMissingReceipts == {e \in Posted : /\ ledger[e].direction = "DEBIT"
                                         /\ receipts[e] = NoReceipt}

\* A dry run stops here, as does a run that finds nothing missing.
ListDebitsMissingReceipts(k, dryRun) ==
    /\ handling[k].pc = "list"
    /\ IF dryRun \/ DebitsMissingReceipts = {}
         THEN FinishHandling(k)
         ELSE handling' = [handling EXCEPT
                             ![k].pc = "commit",
                             ![k].missing = DebitsMissingReceipts]
    /\ UNCHANGED <<ledger, receipts, secondApproval>>

\* Mutant of ReceiptIndexFree: the backfill overwrites existing receipts.
ReceiptIndexMissing(missing) == TRUE

\* One transaction for all of them; the unique index on ledger_entry_id
\* refuses all of them when one has got its receipt meanwhile.
ReceiptIndexFree(missing) == \A e \in missing : receipts[e] = NoReceipt

CreateLedgerReceipts(k) ==
    /\ Committing(k, "BACKFILL")
    /\ receipts' = IF ReceiptIndexFree(handling[k].missing)
                     THEN [e \in EntryIds |->
                             IF e \in handling[k].missing
                               THEN NewReceipt("LEDGER_DEBIT", "COLLABORATOR")
                               ELSE receipts[e]]
                     ELSE receipts
    /\ FinishHandling(k)
    /\ UNCHANGED <<ledger, secondApproval>>

AbortReceiptCall(k) ==
    /\ handling[k].pc # "idle"
    /\ FinishHandling(k)
    /\ UNCHANGED <<ledger, receipts, secondApproval>>

ReceiptStep(k) ==
    \/ MarkReceiptPrinted(k)
    \/ MarkReceiptReturned(k)
    \/ MarkReceiptAccepted(k)
    \/ ReceiptRefused(k)
    \/ \E dryRun \in BOOLEAN : ListDebitsMissingReceipts(k, dryRun)
    \/ CreateLedgerReceipts(k)
=============================================================================
