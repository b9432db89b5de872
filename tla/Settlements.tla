----------------------------- MODULE Settlements -----------------------------
(***************************************************************************)
(* Settlement and closure of one collaborator journey: ZeroGold,           *)
(* PartialPayout, FinalTenantPayment, FinalCollaboratorPayment,            *)
(* SettlementPreview and CloseJourney.                                     *)
(*                                                                         *)
(* The database handle has a single connection, so a statement or a        *)
(* transaction is one atomic step; a service method is a sequence of such  *)
(* steps with no lock held between them, and the methods of concurrent     *)
(* HTTP requests interleave.  A call in flight is an element of Settlers,  *)
(* and `pc' names the repository call it makes next.  Reads of rows that   *)
(* never change (the journey's person, value units, the FINISHED status)   *)
(* are folded into the neighbouring step.                                  *)
(***************************************************************************)
EXTENDS Ledger, ApprovalPolicy

CONSTANTS Settlers,       \* settlement calls that may be in flight at once
          RequestIds,     \* client-chosen request ids
          Gold,           \* the GOLD_GRAM unit
          PayoutAmounts,  \* amounts a payout request may ask for
          NoSettlement,
          NoRequest

VARIABLES journey,          \* "OPEN", or "FINISHED" with closed_at set
          settlements,      \* journey_settlements, unique by request id
          pendingAccruals,  \* some accrual item of the journey is PENDING
          settling          \* the calls in flight

FinalTypes      == {"FINAL_TENANT_PAYMENT", "FINAL_COLLABORATOR_PAYMENT"}
PaymentTypes    == {"ZERO_GOLD", "PAYOUT"} \cup FinalTypes
SettlementTypes == PaymentTypes \cup {"CLOSE_JOURNEY"}

Amounts     == [Units -> Nat]
ZeroAmounts == [u \in Units |-> 0]

Settlement == [type : SettlementTypes, amounts : Amounts, approved : BOOLEAN]

Blockers == {"JOURNEY_ALREADY_CLOSED", "NON_ZERO_BALANCE",
             "PENDING_ACCRUALS", "OUTSTANDING_RECEIPTS"}

SettlementCall ==
    [pc       : {"idle", "journey", "lookup", "balances", "accruals",
                 "receipts", "commit"},
     op       : SettlementTypes \cup {"PREVIEW"},
     request  : RequestIds \cup {NoRequest},
     amounts  : Amounts,
     approved : BOOLEAN,
     blockers : SUBSET Blockers]

IdleCall == [pc |-> "idle", op |-> "PREVIEW", request |-> NoRequest,
             amounts |-> ZeroAmounts, approved |-> TRUE, blockers |-> {}]

ASSUME SettlementNulls == /\ NoSettlement \notin Settlement
                          /\ NoRequest \notin RequestIds
ASSUME SettlementConstants == /\ RequestIds \subseteq SourceIds
                              /\ Gold \in Units
                              /\ PayoutAmounts \subseteq Amounts

SettlementsTypeOK ==
    /\ journey \in {"OPEN", "FINISHED"}
    /\ settlements \in [RequestIds -> Settlement \cup {NoSettlement}]
    /\ pendingAccruals \in BOOLEAN
    /\ settling \in [Settlers -> SettlementCall]

SettlementsInit ==
    /\ journey = "OPEN"
    /\ settlements = [q \in RequestIds |-> NoSettlement]
    /\ pendingAccruals = FALSE
    /\ settling = [s \in Settlers |-> IdleCall]

settlementVars == <<journey, settlements, pendingAccruals, settling>>

-----------------------------------------------------------------------------
At(s, pc)  == settling[s].pc = pc
Goto(s, pc) == settling' = [settling EXCEPT ![s].pc = pc]
Finish(s)  == settling' = [settling EXCEPT ![s] = IdleCall]

DataUnchanged == UNCHANGED <<ledger, receipts, secondApproval, journey,
                             settlements, pendingAccruals>>

\* Validation of the request, then the read of the approval policy.
StartSettlement(s, op, q, amounts, approved) ==
    /\ At(s, "idle")
    /\ RequireSecondApproval(approved)
    /\ (op = "PAYOUT") = (amounts # ZeroAmounts)
    /\ settling' = [settling EXCEPT ![s] =
          [pc       |-> IF op \in FinalTypes THEN "journey" ELSE "lookup",
           op       |-> op,
           request  |-> q,
           amounts  |-> amounts,
           approved |-> approved,
           blockers |-> {}]]
    /\ DataUnchanged

\* GET of the settlement preview.
StartPreview(s) ==
    /\ At(s, "idle")
    /\ Goto(s, "journey")
    /\ DataUnchanged

\* FindSettlementByRequestID: a hit answers with the recorded settlement,
\* whatever its type.
ReplaySettlement(s) ==
    /\ At(s, "lookup")
    /\ settlements[settling[s].request] # NoSettlement
    /\ Finish(s)
    /\ DataUnchanged

NoSettlementYet(s) ==
    /\ At(s, "lookup")
    /\ settlements[settling[s].request] = NoSettlement
    /\ Goto(s, IF settling[s].op = "CLOSE_JOURNEY" THEN "journey"
                                                   ELSE "balances")
    /\ DataUnchanged

\* FindCollaborator before a final settlement, which a closed journey refuses.
CheckJourneyOpen(s) ==
    /\ At(s, "journey")
    /\ settling[s].op \in FinalTypes
    /\ IF journey = "OPEN" THEN Goto(s, "lookup") ELSE Finish(s)
    /\ DataUnchanged

-----------------------------------------------------------------------------
\* What ListBalances lets the call settle, per unit.
PayableAmounts(call) ==
    CASE call.op = "ZERO_GOLD" ->
            [u \in Units |-> IF u = Gold /\ Balance(u) \in PosNat
                               THEN Balance(u) ELSE 0]
      [] call.op = "PAYOUT" -> call.amounts
      [] call.op = "FINAL_TENANT_PAYMENT" ->
            [u \in Units |-> IF Balance(u) \in PosNat THEN Balance(u) ELSE 0]
      [] call.op = "FINAL_COLLABORATOR_PAYMENT" ->
            [u \in Units |-> IF -Balance(u) \in PosNat THEN -Balance(u) ELSE 0]

\* Mutant of Payable: the requested payout is not compared with the balance.
PayableUnchecked(call) == PayableAmounts(call) # ZeroAmounts

\* A payout may not exceed the balance of any unit: asking for nothing in a
\* unit whose balance is negative is refused too.
Payable(call) ==
    /\ PayableAmounts(call) # ZeroAmounts
    /\ call.op = "PAYOUT" => \A u \in Units : call.amounts[u] <= Balance(u)

ListBalances(s) ==
    /\ At(s, "balances")
    /\ settling[s].op \in PaymentTypes
    /\ IF Payable(settling[s])
         THEN settling' = [settling EXCEPT
                             ![s].pc = "commit",
                             ![s].amounts = PayableAmounts(settling[s])]
         ELSE Finish(s)
    /\ DataUnchanged

\* CreateSettlementWithEntries: the settlement row, refused by the unique
\* index when the request id is taken, and one entry per settled unit.
SettlementEntry(call, u) ==
    [type       |-> IF call.op \in FinalTypes THEN "FINAL_SETTLEMENT"
                                              ELSE "ORDINARY",
     source     |-> "JOURNEY_SETTLEMENT",
     sourceId   |-> call.request,
     direction  |-> IF call.op = "FINAL_COLLABORATOR_PAYMENT" THEN "CREDIT"
                                                              ELSE "DEBIT",
     unit       |-> u,
     amount     |-> call.amounts[u],
     correction |-> "ORIGINAL",
     related    |-> NoEntry]

\* Mutant of SettledUnits: units with nothing to settle get an entry too.
AllUnits(call) == Units

SettledUnits(call) == {u \in Units : call.amounts[u] > 0}

\* Mutant of RequestIdFree: no unique index on the request id.
RequestIdUnchecked(call) == TRUE

RequestIdFree(call) == settlements[call.request] = NoSettlement

RecordSettlement(call) ==
    settlements' = [settlements EXCEPT ![call.request] =
                      [type |-> call.op, amounts |-> call.amounts,
                       approved |-> call.approved]]

PostSettlementEntries(call) ==
    \E id \in [SettledUnits(call) -> Unused] :
       /\ \A u, v \in DOMAIN id : u # v => id[u] # id[v]
       /\ CreateEntries([e \in {id[u] : u \in DOMAIN id} |->
             SettlementEntry(call, CHOOSE u \in DOMAIN id : id[u] = e)])

CreateSettlementWithEntries(s) ==
    /\ At(s, "commit")
    /\ settling[s].op \in PaymentTypes
    /\ RequestIdFree(settling[s])
    /\ PostSettlementEntries(settling[s])
    /\ RecordSettlement(settling[s])
    /\ Finish(s)
    /\ UNCHANGED <<secondApproval, journey, pendingAccruals>>

\* The unique index refuses the row: nothing is posted, the caller gets the error.
DuplicateRequest(s) ==
    /\ At(s, "commit")
    /\ ~RequestIdFree(settling[s])
    /\ Finish(s)
    /\ DataUnchanged

-----------------------------------------------------------------------------
\* SettlementPreview: four separate reads, a blocker noted by each.
Previews(s) == settling[s].op \in {"PREVIEW", "CLOSE_JOURNEY"}

Note(s, blocker, present, pc) ==
    settling' = [settling EXCEPT
                   ![s].pc = pc,
                   ![s].blockers = @ \cup (IF present THEN {blocker} ELSE {})]

PreviewJourney(s) ==
    /\ At(s, "journey") /\ Previews(s)
    /\ Note(s, "JOURNEY_ALREADY_CLOSED", journey = "FINISHED", "balances")
    /\ DataUnchanged

PreviewBalances(s) ==
    /\ At(s, "balances") /\ Previews(s)
    /\ Note(s, "NON_ZERO_BALANCE", ~ZeroBalance, "accruals")
    /\ DataUnchanged

PreviewAccruals(s) ==
    /\ At(s, "accruals")
    /\ Note(s, "PENDING_ACCRUALS", pendingAccruals, "receipts")
    /\ DataUnchanged

\* The last read decides: a preview answers, a blocked closure is refused.
PreviewReceipts(s) ==
    /\ At(s, "receipts")
    /\ IF \/ settling[s].op = "PREVIEW"
          \/ settling[s].blockers # {}
          \/ Outstanding # {}
         THEN Finish(s)
         ELSE Goto(s, "commit")
    /\ DataUnchanged

\* CloseJourneyWithAudit: the update needs closed_at IS NULL, the trigger
\* trg_collaborator_journey_zero_balance_close recomputes the balances, and
\* the audit row needs an unused request id.
\* Mutants of JourneyCloseAllowed: no closed_at IS NULL, no closure trigger.
CloseAgain           == ZeroBalance
CloseWithoutTrigger  == journey = "OPEN"

JourneyCloseAllowed == journey = "OPEN" /\ ZeroBalance

CloseJourneyWithAudit(s) ==
    /\ At(s, "commit")
    /\ settling[s].op = "CLOSE_JOURNEY"
    /\ JourneyCloseAllowed
    /\ RequestIdFree(settling[s])
    /\ journey' = "FINISHED"
    /\ RecordSettlement(settling[s])
    /\ Finish(s)
    /\ UNCHANGED <<ledger, receipts, secondApproval, pendingAccruals>>

JourneyCloseRefused(s) ==
    /\ At(s, "commit")
    /\ settling[s].op = "CLOSE_JOURNEY"
    /\ ~JourneyCloseAllowed
    /\ Finish(s)
    /\ DataUnchanged

\* The process dies, or the request's context is cancelled, between two
\* statements.
AbortSettlement(s) ==
    /\ ~At(s, "idle")
    /\ Finish(s)
    /\ DataUnchanged

SettlementStep(s) ==
    \/ ReplaySettlement(s)
    \/ NoSettlementYet(s)
    \/ CheckJourneyOpen(s)
    \/ ListBalances(s)
    \/ CreateSettlementWithEntries(s)
    \/ DuplicateRequest(s)
    \/ PreviewJourney(s)
    \/ PreviewBalances(s)
    \/ PreviewAccruals(s)
    \/ PreviewReceipts(s)
    \/ CloseJourneyWithAudit(s)
    \/ JourneyCloseRefused(s)
=============================================================================
