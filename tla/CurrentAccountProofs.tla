------------------------ MODULE CurrentAccountProofs ------------------------
(***************************************************************************)
(* Theorems about the current account, for every set of calls, requests,   *)
(* units, entries and postings.                                            *)
(***************************************************************************)
EXTENDS CurrentAccount, TLAPS

USE DEF PosNat

-----------------------------------------------------------------------------
(***************************************************************************)
(* What the operators of Ledger return.                                    *)
(***************************************************************************)

\* A receipt row made by the hook or by the backfill is well typed.
LEMMA NewReceiptType ==
    ASSUME NEW purpose \in {"LEDGER_DEBIT"} \cup FinalPurposes,
           NEW party \in Parties
    PROVE  NewReceipt(purpose, party) \in Receipt
  BY DEF NewReceipt, Receipt, OutstandingStatuses, TerminalStatuses

\* The hook makes a well-typed receipt or none.
LEMMA AfterCreateType ==
    ASSUME NEW entry \in Entry
    PROVE  AfterCreate(entry) \in Receipt \cup {NoReceipt}
  <1>1. NewReceipt("FINAL_SETTLEMENT_TENANT_PAYMENT", "COLLABORATOR") \in Receipt
    BY NewReceiptType DEF FinalPurposes, Parties
  <1>2. NewReceipt("FINAL_SETTLEMENT_COLLABORATOR_PAYMENT", "TENANT") \in Receipt
    BY NewReceiptType DEF FinalPurposes, Parties
  <1>3. NewReceipt("LEDGER_DEBIT", "COLLABORATOR") \in Receipt
    BY NewReceiptType DEF FinalPurposes, Parties
  <1> QED BY <1>1, <1>2, <1>3 DEF AfterCreate

\* A transaction that creates well-typed entries keeps the tables well typed.
LEMMA CreateEntriesType ==
    ASSUME LedgerTypeOK, NEW new,
           \A e \in DOMAIN new : new[e] \in Entry,
           CreateEntries(new)
    PROVE  LedgerTypeOK'
  <1>1. \A e \in DOMAIN new : AfterCreate(new[e]) \in Receipt \cup {NoReceipt}
    BY AfterCreateType
  <1> QED BY <1>1 DEF LedgerTypeOK, CreateEntries

\* The mirror image of a posted entry is a well-typed entry.
LEMMA ReversalType ==
    ASSUME LedgerTypeOK, NEW e \in Posted
    PROVE  ReversalOf(e) \in Entry
  <1>1. e \in EntryIds /\ ledger[e] \in Entry
    BY DEF LedgerTypeOK, Posted
  <1> QED BY <1>1 DEF ReversalOf, Entry, Opposite, Sources, Directions,
                      CorrectionTypes

\* What the other packages post is a well-typed entry.
LEMMA OrdinaryEntryType ==
    ASSUME NEW p \in OrdinaryPostings
    PROVE  OrdinaryEntry(p) \in Entry
  BY CurrentAccountConstants
  DEF OrdinaryEntry, Entry, EntryTypes, Sources, CorrectionTypes

-----------------------------------------------------------------------------
(***************************************************************************)
(* What the settlement operators return.                                   *)
(***************************************************************************)

\* The amounts a call may settle are natural numbers, whatever the balances.
LEMMA PayableAmountsType ==
    ASSUME NEW call \in SettlementCall, call.op \in PaymentTypes
    PROVE  PayableAmounts(call) \in Amounts
  <1>1. CASE call.op = "ZERO_GOLD"
    BY <1>1 DEF PayableAmounts, Amounts
  <1>2. CASE call.op = "PAYOUT"
    <2>1. PayableAmounts(call) = call.amounts
      BY <1>2 DEF PayableAmounts
    <2> QED BY <2>1 DEF SettlementCall
  <1>3. CASE call.op = "FINAL_TENANT_PAYMENT"
    BY <1>3 DEF PayableAmounts, Amounts
  <1>4. CASE call.op = "FINAL_COLLABORATOR_PAYMENT"
    BY <1>4 DEF PayableAmounts, Amounts
  <1> QED BY <1>1, <1>2, <1>3, <1>4 DEF PaymentTypes, FinalTypes

\* The idle record of each kind of call is well typed.
LEMMA IdleTypes ==
    /\ IdleCall \in SettlementCall
    /\ IdleCorrection \in CorrectionCall
    /\ IdleClerk \in ReceiptCall
  BY DEF IdleCall, SettlementCall, Amounts, ZeroAmounts,
         IdleCorrection, CorrectionCall, IdleClerk, ReceiptCall, ReceiptOps

\* An entry of a settlement is well typed when the unit is settled.
LEMMA SettlementEntryType ==
    ASSUME NEW call \in SettlementCall, call.request \in RequestIds,
           NEW u \in SettledUnits(call)
    PROVE  SettlementEntry(call, u) \in Entry
  BY SettlementConstants
  DEF SettlementEntry, SettledUnits, SettlementCall, Amounts, Entry,
      EntryTypes, Sources, Directions, CorrectionTypes

-----------------------------------------------------------------------------
(***************************************************************************)
(* What a call in flight has established and no other call can undo: a     *)
(* settlement has its request id, a correction aims at a posted entry that *)
(* is no reversal, a receipt call aims at a receipt that exists.           *)
(***************************************************************************)
RequestsNamed ==
    \A s \in Settlers : settling[s].op # "PREVIEW" =>
                            settling[s].request \in RequestIds

CorrectionTargets ==
    \A c \in Correctors : correcting[c].pc # "idle" =>
        /\ correcting[c].target \in Posted
        /\ ledger[correcting[c].target].correction # "REVERSAL"

ReceiptTargets ==
    \A k \in Clerks :
        /\ handling[k].missing \subseteq Posted
        /\ handling[k].pc # "idle" /\ handling[k].op # "BACKFILL" =>
              /\ handling[k].pc = "commit"
              /\ handling[k].target \in EntryIds
              /\ receipts[handling[k].target] # NoReceipt

ReceiptsPosted == \A e \in EntryIds : receipts[e] # NoReceipt => ledger[e] # NoEntry

TypeInv == /\ TypeOK
           /\ RequestsNamed
           /\ CorrectionTargets
           /\ ReceiptTargets
           /\ ReceiptsPosted

\* Entries are never changed or deleted, receipts never deleted.
Grows == /\ \A e \in EntryIds : ledger[e] # NoEntry => ledger'[e] = ledger[e]
         /\ \A e \in EntryIds : receipts[e] # NoReceipt => receipts'[e] # NoReceipt

\* The calls of the other two kinds keep what they have established.
LEMMA GrowthKeepsTargets ==
    ASSUME TypeInv, Grows
    PROVE  /\ UNCHANGED correcting => CorrectionTargets'
           /\ UNCHANGED handling => ReceiptTargets'
  BY DEF TypeInv, Grows, CorrectionTargets, ReceiptTargets, Posted

\* The initial states.
LEMMA TypeInit == Init => TypeInv
  <1> SUFFICES ASSUME Init PROVE TypeInv
    OBVIOUS
  <1>1. LedgerTypeOK
    BY OrdinaryEntryType DEF Init, LedgerTypeOK
  <1>2. SettlementsTypeOK /\ RequestsNamed
    BY IdleTypes DEF Init, SettlementsInit, SettlementsTypeOK, RequestsNamed, IdleCall
  <1>3. CorrectionsTypeOK /\ CorrectionTargets
    BY IdleTypes DEF Init, CorrectionsInit, CorrectionsTypeOK, CorrectionTargets,
                     IdleCorrection
  <1>4. ReceiptsTypeOK /\ ReceiptTargets
    BY IdleTypes DEF Init, ReceiptsInit, ReceiptsTypeOK, ReceiptTargets, IdleClerk
  <1>5. ApprovalTypeOK
    BY DEF Init, ApprovalInit, ApprovalTypeOK
  <1>6. ReceiptsPosted
    BY DEF Init, ReceiptsPosted
  <1> QED BY <1>1, <1>2, <1>3, <1>4, <1>5, <1>6 DEF TypeInv, TypeOK

\* Fresh identifiers: the transaction leaves the rows there are alone.
LEMMA CreateEntriesGrows ==
    ASSUME LedgerTypeOK, ReceiptsPosted, NEW new, DOMAIN new \subseteq Unused,
           \A e \in DOMAIN new : new[e] \in Entry, CreateEntries(new)
    PROVE  Grows /\ ReceiptsPosted'
  BY LedgerNulls
  DEF LedgerTypeOK, ReceiptsPosted, CreateEntries, Grows, Unused, Posted

-----------------------------------------------------------------------------
(***************************************************************************)
(* The settlement calls keep the types.                                    *)
(***************************************************************************)

\* Steps of a settlement call that write no table.
LEMMA SettlementReadsType ==
    ASSUME TypeInv, NEW s \in Settlers, DataUnchanged,
           UNCHANGED <<correcting, handling>>,
           SettlementsTypeOK', RequestsNamed'
    PROVE  TypeInv'
  BY DEF TypeInv, TypeOK, DataUnchanged, LedgerTypeOK, ApprovalTypeOK,
         CorrectionsTypeOK, ReceiptsTypeOK, CorrectionTargets, ReceiptTargets,
         ReceiptsPosted, Posted

\* Answering a call, or moving it on, keeps the calls well formed.
LEMMA SettlingType ==
    ASSUME TypeInv, NEW s \in Settlers
    PROVE  /\ Finish(s) => settling' \in [Settlers -> SettlementCall] /\ RequestsNamed'
           /\ \A pc \in {"journey", "lookup", "balances", "accruals", "receipts",
                         "commit"} :
                 Goto(s, pc) => settling' \in [Settlers -> SettlementCall] /\ RequestsNamed'
  <1>1. settling \in [Settlers -> SettlementCall] /\ RequestsNamed
    BY DEF TypeInv, TypeOK, SettlementsTypeOK
  <1>2. ASSUME Finish(s)
        PROVE  settling' \in [Settlers -> SettlementCall] /\ RequestsNamed'
    BY <1>1, <1>2, IdleTypes DEF Finish, RequestsNamed, IdleCall
  <1>3. ASSUME NEW pc \in {"journey", "lookup", "balances", "accruals", "receipts",
                           "commit"},
               Goto(s, pc)
        PROVE  settling' \in [Settlers -> SettlementCall] /\ RequestsNamed'
    <2>1. settling' \in [Settlers -> SettlementCall]
      BY <1>1, <1>3 DEF Goto, SettlementCall
    <2>2. RequestsNamed'
      BY <1>1, <1>3 DEF Goto, SettlementCall, RequestsNamed
    <2> QED BY <2>1, <2>2
  <1> QED BY <1>2, <1>3

\* The calls that only read: requests, lookups, checks, previews, refusals.
LEMMA SettlementReads ==
    ASSUME TypeInv, NEW s \in Settlers, UNCHANGED <<correcting, handling>>,
           \/ \E op \in SettlementOps, q \in RequestIds, approved \in Approvals,
                 amounts \in PayoutAmounts \cup {ZeroAmounts} :
                   StartSettlement(s, op, q, amounts, approved)
           \/ StartPreview(s)
           \/ ReplaySettlement(s)
           \/ NoSettlementYet(s)
           \/ CheckJourneyOpen(s)
           \/ ListBalances(s)
           \/ DuplicateRequest(s)
           \/ PreviewJourney(s)
           \/ PreviewBalances(s)
           \/ PreviewAccruals(s)
           \/ PreviewReceipts(s)
           \/ JourneyCloseRefused(s)
           \/ AbortSettlement(s)
    PROVE  TypeInv'
  <1> DEFINE Calls == settling' \in [Settlers -> SettlementCall] /\ RequestsNamed'
  <1>0. settling \in [Settlers -> SettlementCall] /\ RequestsNamed /\ SettlementsTypeOK
    BY DEF TypeInv, TypeOK, SettlementsTypeOK
  <1>s. SUFFICES ASSUME DataUnchanged PROVE Calls
    <2>1. DataUnchanged
      BY DEF StartSettlement, StartPreview, ReplaySettlement, NoSettlementYet,
             CheckJourneyOpen, ListBalances, DuplicateRequest, PreviewJourney,
             PreviewBalances, PreviewAccruals, PreviewReceipts,
             JourneyCloseRefused, AbortSettlement
    <2>2. Calls => SettlementsTypeOK' /\ RequestsNamed'
      BY <1>0, <2>1 DEF SettlementsTypeOK, DataUnchanged
    <2> QED BY <2>1, <2>2, SettlementReadsType
  <1>1. ASSUME NEW op \in SettlementOps, NEW q \in RequestIds, NEW approved \in Approvals,
               NEW amounts \in PayoutAmounts \cup {ZeroAmounts},
               StartSettlement(s, op, q, amounts, approved)
        PROVE  Calls
    <2> DEFINE call == [pc       |-> IF op \in FinalTypes THEN "journey" ELSE "lookup",
                        op       |-> op,
                        request  |-> q,
                        amounts  |-> amounts,
                        approved |-> approved,
                        blockers |-> {}]
    <2>1. amounts \in Amounts
      BY SettlementConstants DEF Amounts, ZeroAmounts
    <2>2. call \in SettlementCall
      BY <2>1, CurrentAccountConstants DEF SettlementCall
    <2>3. settling' = [settling EXCEPT ![s] = call]
      BY <1>1 DEF StartSettlement
    <2>4. call.request \in RequestIds
      OBVIOUS
    <2> HIDE DEF call
    <2> QED BY <1>0, <2>2, <2>3, <2>4 DEF RequestsNamed
  <1>2. CASE StartPreview(s)
    BY <1>2, SettlingType DEF StartPreview
  <1>3. CASE ReplaySettlement(s) \/ DuplicateRequest(s) \/ JourneyCloseRefused(s)
             \/ AbortSettlement(s)
    BY <1>3, SettlingType DEF ReplaySettlement, DuplicateRequest,
                              JourneyCloseRefused, AbortSettlement
  <1>4. CASE NoSettlementYet(s)
    BY <1>4, SettlingType DEF NoSettlementYet
  <1>5. CASE CheckJourneyOpen(s)
    BY <1>5, SettlingType DEF CheckJourneyOpen
  <1>6. CASE ListBalances(s)
    <2>1. CASE Payable(settling[s])
      <3>1. PayableAmounts(settling[s]) \in Amounts
        BY <1>0, <1>6, PayableAmountsType DEF ListBalances
      <3>2. settling' = [settling EXCEPT ![s] = [settling[s] EXCEPT
                            !.pc = "commit", !.amounts = PayableAmounts(settling[s])]]
        BY <1>0, <1>6, <2>1 DEF ListBalances
      <3>3. [settling[s] EXCEPT !.pc = "commit",
                                !.amounts = PayableAmounts(settling[s])] \in SettlementCall
        BY <1>0, <3>1 DEF SettlementCall
      <3> QED BY <1>0, <3>2, <3>3 DEF RequestsNamed, SettlementCall
    <2>2. CASE ~Payable(settling[s])
      BY <1>6, <2>2, SettlingType DEF ListBalances
    <2> QED BY <2>1, <2>2
  <1>7. ASSUME NEW blocker \in Blockers, NEW present \in BOOLEAN,
               NEW pc \in {"balances", "accruals", "receipts"},
               Note(s, blocker, present, pc)
        PROVE  Calls
    <2> DEFINE noted == settling[s].blockers \cup (IF present THEN {blocker} ELSE {})
               call == [settling[s] EXCEPT !.pc = pc, !.blockers = noted]
    <2>1. noted \in SUBSET Blockers
      BY <1>0 DEF SettlementCall
    <2>2. settling' = [settling EXCEPT ![s] = call]
      BY <1>0, <1>7 DEF Note
    <2> HIDE DEF noted
    <2>3. call \in SettlementCall /\ call.op = settling[s].op
                                  /\ call.request = settling[s].request
      BY <1>0, <2>1 DEF SettlementCall
    <2> QED BY <1>0, <2>2, <2>3 DEF RequestsNamed
  <1>8. CASE PreviewJourney(s)
    BY <1>7, <1>8 DEF PreviewJourney, Blockers
  <1>9. CASE PreviewBalances(s)
    BY <1>7, <1>9 DEF PreviewBalances, Blockers
  <1>10. CASE PreviewAccruals(s)
    BY <1>0, <1>7, <1>10 DEF PreviewAccruals, Blockers, SettlementsTypeOK
  <1>11. CASE PreviewReceipts(s)
    BY <1>11, SettlingType DEF PreviewReceipts
  <1> HIDE DEF Calls
  <1> QED BY <1>1, <1>2, <1>3, <1>4, <1>5, <1>6, <1>8, <1>9, <1>10, <1>11

\* The entries of a settlement: fresh identifiers, one per settled unit.
LEMMA SettlementEntriesType ==
    ASSUME NEW call \in SettlementCall, call.request \in RequestIds,
           NEW id \in [SettledUnits(call) -> Unused],
           NEW new,
           new = [e \in {id[u] : u \in DOMAIN id} |->
                    SettlementEntry(call, CHOOSE u \in DOMAIN id : id[u] = e)]
    PROVE  /\ DOMAIN new \subseteq Unused
           /\ \A e \in DOMAIN new : new[e] \in Entry
  <1>1. DOMAIN new = {id[u] : u \in SettledUnits(call)}
    OBVIOUS
  <1>2. ASSUME NEW e \in DOMAIN new
        PROVE  new[e] \in Entry
    <2>1. \E u \in SettledUnits(call) : id[u] = e
      BY <1>1, <1>2
    <2> DEFINE v == CHOOSE u \in DOMAIN id : id[u] = e
    <2>2. v \in SettledUnits(call)
      BY <2>1
    <2>3. new[e] = SettlementEntry(call, v)
      BY <1>1
    <2> HIDE DEF v
    <2> QED BY <2>2, <2>3, SettlementEntryType
  <1>3. \A u \in SettledUnits(call) : id[u] \in Unused
    OBVIOUS
  <1>4. DOMAIN new \subseteq Unused
    BY <1>1, <1>3
  <1> QED BY <1>2, <1>4

\* The transaction of a payment.
LEMMA SettlementCommitType ==
    ASSUME TypeInv, NEW s \in Settlers, UNCHANGED <<correcting, handling>>,
           CreateSettlementWithEntries(s)
    PROVE  TypeInv'
  <1> DEFINE call == settling[s]
  <1>0. LedgerTypeOK /\ SettlementsTypeOK /\ ReceiptsPosted
    BY DEF TypeInv, TypeOK
  <1>1. /\ call \in SettlementCall
        /\ call.op \in PaymentTypes
        /\ call.request \in RequestIds
    BY DEF TypeInv, TypeOK, SettlementsTypeOK, RequestsNamed, PaymentTypes,
           FinalTypes, CreateSettlementWithEntries
  <1>2. PICK id \in [SettledUnits(call) -> Unused] :
           CreateEntries([e \in {id[u] : u \in DOMAIN id} |->
               SettlementEntry(call, CHOOSE u \in DOMAIN id : id[u] = e)])
    BY DEF CreateSettlementWithEntries, PostSettlementEntries
  <1> DEFINE new == [e \in {id[u] : u \in DOMAIN id} |->
                       SettlementEntry(call, CHOOSE u \in DOMAIN id : id[u] = e)]
  <1>3. /\ DOMAIN new \subseteq Unused
        /\ \A e \in DOMAIN new : new[e] \in Entry
    BY <1>1, <1>2, SettlementEntriesType
  <1>4. CreateEntries(new)
    BY <1>2
  <1> HIDE DEF new
  <1>5. LedgerTypeOK' /\ Grows /\ ReceiptsPosted'
    BY <1>0, <1>3, <1>4, CreateEntriesType, CreateEntriesGrows
  <1>6. CorrectionTargets' /\ ReceiptTargets'
    BY <1>5, GrowthKeepsTargets
  <1>7. settling' \in [Settlers -> SettlementCall] /\ RequestsNamed'
    BY SettlingType DEF CreateSettlementWithEntries
  <1>8. settlements' \in [RequestIds -> Settlement \cup {NoSettlement}]
    BY <1>0, <1>1 DEF CreateSettlementWithEntries, RecordSettlement, SettlementsTypeOK,
                      Settlement, SettlementTypes, SettlementCall
  <1>9. SettlementsTypeOK' /\ ApprovalTypeOK' /\ CorrectionsTypeOK' /\ ReceiptsTypeOK'
    BY <1>7, <1>8 DEF TypeInv, TypeOK, SettlementsTypeOK, ApprovalTypeOK,
                      CorrectionsTypeOK, ReceiptsTypeOK, CreateSettlementWithEntries
  <1> QED BY <1>5, <1>6, <1>7, <1>9 DEF TypeInv, TypeOK

\* The transaction of a closure.
LEMMA CloseJourneyType ==
    ASSUME TypeInv, NEW s \in Settlers, UNCHANGED <<correcting, handling>>,
           CloseJourneyWithAudit(s)
    PROVE  TypeInv'
  <1>1. settling' \in [Settlers -> SettlementCall] /\ RequestsNamed'
    BY SettlingType DEF CloseJourneyWithAudit
  <1>2. settlements' \in [RequestIds -> Settlement \cup {NoSettlement}]
    BY DEF TypeInv, TypeOK, SettlementsTypeOK, RequestsNamed, CloseJourneyWithAudit,
           RecordSettlement, Settlement, SettlementTypes, SettlementCall
  <1>3. SettlementsTypeOK'
    BY <1>1, <1>2 DEF TypeInv, TypeOK, SettlementsTypeOK, CloseJourneyWithAudit
  <1>4. UNCHANGED <<ledger, receipts, secondApproval, correcting, handling>>
    BY DEF CloseJourneyWithAudit
  <1>5. LedgerTypeOK' /\ ApprovalTypeOK' /\ CorrectionsTypeOK' /\ ReceiptsTypeOK'
    BY <1>4 DEF TypeInv, TypeOK, LedgerTypeOK, ApprovalTypeOK, CorrectionsTypeOK,
                ReceiptsTypeOK
  <1>6. CorrectionTargets' /\ ReceiptTargets' /\ ReceiptsPosted'
    BY <1>4 DEF TypeInv, CorrectionTargets, ReceiptTargets, ReceiptsPosted, Posted
  <1> QED BY <1>1, <1>3, <1>5, <1>6 DEF TypeInv, TypeOK

-----------------------------------------------------------------------------
(***************************************************************************)
(* The corrections keep the types.                                         *)
(***************************************************************************)

\* Steps of a correction that write no table.
LEMMA CorrectionReads ==
    ASSUME TypeInv, NEW c \in Correctors, UNCHANGED <<settlementVars, handling>>,
           \/ \E e \in EntryIds, r \in Replacements \cup {NoEntry},
                 approved \in Approvals : StartCorrection(c, e, r, approved)
           \/ CheckNotReversed(c)
           \/ CorrectionConflict(c)
           \/ AbortCorrection(c)
    PROVE  TypeInv'
  <1>1. UNCHANGED <<ledger, receipts, secondApproval, settlementVars, handling>>
    BY DEF StartCorrection, CheckNotReversed, CorrectionConflict, AbortCorrection
  <1>2. /\ LedgerTypeOK' /\ ApprovalTypeOK' /\ SettlementsTypeOK' /\ ReceiptsTypeOK'
        /\ RequestsNamed' /\ ReceiptTargets' /\ ReceiptsPosted'
    BY <1>1 DEF TypeInv, TypeOK, LedgerTypeOK, ApprovalTypeOK, SettlementsTypeOK,
                ReceiptsTypeOK, RequestsNamed, ReceiptTargets, ReceiptsPosted,
                Posted, settlementVars
  <1>s. SUFFICES CorrectionsTypeOK' /\ CorrectionTargets'
    BY <1>2 DEF TypeInv, TypeOK
  <1>0. correcting \in [Correctors -> CorrectionCall] /\ CorrectionTargets
    BY DEF TypeInv, TypeOK, CorrectionsTypeOK
  <1>3. Posted' = Posted
    BY <1>1 DEF Posted
  <1>4. ASSUME NEW e \in EntryIds, NEW r \in Replacements \cup {NoEntry},
               NEW approved \in Approvals, StartCorrection(c, e, r, approved)
        PROVE  CorrectionsTypeOK' /\ CorrectionTargets'
    BY <1>0, <1>1, <1>3, <1>4, CurrentAccountConstants
    DEF StartCorrection, CorrectionCall, CorrectionsTypeOK, CorrectionTargets
  <1>5. ASSUME FinishCorrection(c)
        PROVE  CorrectionsTypeOK' /\ CorrectionTargets'
    BY <1>0, <1>1, <1>3, <1>5, IdleTypes
    DEF FinishCorrection, CorrectionsTypeOK, CorrectionTargets, IdleCorrection
  <1>6. CASE CheckNotReversed(c)
    <2>1. CASE HasReversal(correcting[c].target)
      BY <1>5, <1>6, <2>1 DEF CheckNotReversed
    <2>2. CASE ~HasReversal(correcting[c].target)
      <3>1. /\ correcting' = [correcting EXCEPT ![c].pc = "commit"]
            /\ correcting[c].pc = "reversed"
        BY <1>6, <2>2 DEF CheckNotReversed
      <3> QED BY <1>0, <1>1, <1>3, <3>1
              DEF CorrectionCall, CorrectionsTypeOK, CorrectionTargets
    <2> QED BY <2>1, <2>2
  <1>7. CASE CorrectionConflict(c) \/ AbortCorrection(c)
    BY <1>5, <1>7 DEF CorrectionConflict, AbortCorrection
  <1> QED BY <1>4, <1>6, <1>7

\* The replacement in a correction request is a well-typed entry.
LEMMA ReplacementType ==
    ASSUME NEW call \in CorrectionCall, call.replacement # NoEntry
    PROVE  ReplacementEntry(call) \in Entry
  BY ReplacementsAssumption
  DEF CorrectionCall, ReplacementEntry, Entry, Sources, CorrectionTypes

\* The entries of a correction: the reversal and, for a ReplaceEntry request,
\* the replacement, under fresh identifiers.
LEMMA CorrectionEntries ==
    ASSUME TypeInv, NEW c \in Correctors, CreateCorrectionEntries(c)
    PROVE  \E r, p, new :
              /\ r \in Unused /\ p \in EntryIds
              /\ CreateEntries(new)
              /\ new[r] = ReversalOf(correcting[c].target)
              /\ \A e \in DOMAIN new : new[e] \in Entry
              /\ \/ DOMAIN new = {r}
                 \/ /\ p \in Unused \ {r}
                    /\ DOMAIN new = {r, p}
                    /\ new[p] = ReplacementEntry(correcting[c])
  <1> DEFINE call == correcting[c]
  <1>1. /\ LedgerTypeOK
        /\ call \in CorrectionCall
        /\ call.target \in Posted
    BY DEF TypeInv, TypeOK, CorrectionsTypeOK, CorrectionTargets, CreateCorrectionEntries
  <1>2. ReversalOf(call.target) \in Entry
    BY <1>1, ReversalType
  <1>3. PICK r \in Unused :
          IF call.replacement = NoEntry
            THEN CreateEntries([e \in {r} |-> ReversalOf(call.target)])
            ELSE \E p \in Unused \ {r} :
                   CreateEntries([e \in {r, p} |->
                      IF e = r THEN ReversalOf(call.target)
                               ELSE ReplacementEntry(call)])
    BY DEF CreateCorrectionEntries
  <1>4. CASE call.replacement = NoEntry
    <2> DEFINE new == [e \in {r} |-> ReversalOf(call.target)]
    <2>1. CreateEntries(new) /\ new[r] = ReversalOf(call.target) /\ DOMAIN new = {r}
      BY <1>3, <1>4
    <2>2. \A e \in DOMAIN new : new[e] \in Entry
      BY <1>2
    <2>3. r \in EntryIds
      BY DEF Unused
    <2> HIDE DEF new
    <2> QED BY <2>1, <2>2, <2>3
  <1>5. CASE call.replacement # NoEntry
    <2>1. PICK p \in Unused \ {r} :
             CreateEntries([e \in {r, p} |-> IF e = r THEN ReversalOf(call.target)
                                                      ELSE ReplacementEntry(call)])
      BY <1>3, <1>5
    <2> DEFINE new == [e \in {r, p} |-> IF e = r THEN ReversalOf(call.target)
                                                 ELSE ReplacementEntry(call)]
    <2>2. /\ CreateEntries(new)
          /\ DOMAIN new = {r, p}
          /\ new[r] = ReversalOf(call.target)
          /\ new[p] = ReplacementEntry(call)
      BY <2>1
    <2>3. \A e \in DOMAIN new : new[e] \in Entry
      BY <1>1, <1>2, <1>5, ReplacementType
    <2>4. p \in EntryIds
      BY DEF Unused
    <2> HIDE DEF new
    <2> QED BY <2>2, <2>3, <2>4
  <1> QED BY <1>4, <1>5

\* The transaction of a correction.
LEMMA CorrectionCommitType ==
    ASSUME TypeInv, NEW c \in Correctors, UNCHANGED <<settlementVars, handling>>,
           CreateCorrectionEntries(c)
    PROVE  TypeInv' /\ Grows
  <1>0. LedgerTypeOK /\ ReceiptsPosted /\ CorrectionTargets
        /\ correcting \in [Correctors -> CorrectionCall]
    BY DEF TypeInv, TypeOK, CorrectionsTypeOK
  <1>1. PICK r, p, new :
              /\ r \in Unused /\ p \in EntryIds
              /\ CreateEntries(new)
              /\ \A e \in DOMAIN new : new[e] \in Entry
              /\ \/ DOMAIN new = {r}
                 \/ p \in Unused \ {r} /\ DOMAIN new = {r, p}
    BY CorrectionEntries
  <1>2. DOMAIN new \subseteq Unused
    BY <1>1
  <1>3. LedgerTypeOK' /\ Grows /\ ReceiptsPosted'
    BY <1>0, <1>1, <1>2, CreateEntriesType, CreateEntriesGrows
  <1>4. correcting' = [correcting EXCEPT ![c] = IdleCorrection]
    BY DEF CreateCorrectionEntries, FinishCorrection
  <1>5. CorrectionsTypeOK' /\ CorrectionTargets'
    BY <1>0, <1>3, <1>4, IdleTypes
    DEF CorrectionsTypeOK, CorrectionTargets, Grows, Posted, IdleCorrection
  <1>6. ReceiptTargets'
    BY <1>3, GrowthKeepsTargets
  <1>7. ApprovalTypeOK' /\ SettlementsTypeOK' /\ ReceiptsTypeOK' /\ RequestsNamed'
    BY DEF TypeInv, TypeOK, ApprovalTypeOK, SettlementsTypeOK, ReceiptsTypeOK,
           RequestsNamed, settlementVars, CreateCorrectionEntries
  <1> QED BY <1>3, <1>5, <1>6, <1>7 DEF TypeInv, TypeOK

-----------------------------------------------------------------------------
(***************************************************************************)
(* The receipt calls keep the types.                                       *)
(***************************************************************************)

\* Steps of a receipt call that write no table.
LEMMA ReceiptReads ==
    ASSUME TypeInv, NEW k \in Clerks, UNCHANGED <<settlementVars, correcting>>,
           \/ \E e \in EntryIds : \/ StartPrint(k, e)
                                  \/ StartReturn(k, e)
                                  \/ \E party \in Parties : StartAccept(k, e, party)
           \/ \E approved \in Approvals : StartBackfill(k, approved)
           \/ ReceiptRefused(k)
           \/ \E dryRun \in BOOLEAN : ListDebitsMissingReceipts(k, dryRun)
           \/ AbortReceiptCall(k)
    PROVE  TypeInv'
  <1>1. UNCHANGED <<ledger, receipts, secondApproval, settlementVars, correcting>>
    BY DEF StartPrint, StartReturn, StartAccept, StartBackfill, ReceiptRefused,
           ListDebitsMissingReceipts, AbortReceiptCall
  <1>2. /\ LedgerTypeOK' /\ ApprovalTypeOK' /\ SettlementsTypeOK' /\ CorrectionsTypeOK'
        /\ RequestsNamed' /\ CorrectionTargets' /\ ReceiptsPosted'
    BY <1>1 DEF TypeInv, TypeOK, LedgerTypeOK, ApprovalTypeOK, SettlementsTypeOK,
                CorrectionsTypeOK, RequestsNamed, CorrectionTargets, ReceiptsPosted,
                Posted, settlementVars
  <1>s. SUFFICES ReceiptsTypeOK' /\ ReceiptTargets'
    BY <1>2 DEF TypeInv, TypeOK
  <1>0. handling \in [Clerks -> ReceiptCall] /\ ReceiptTargets
    BY DEF TypeInv, TypeOK, ReceiptsTypeOK
  <1>3. ASSUME NEW e \in EntryIds, NEW op \in {"PRINT", "RETURN", "ACCEPT"},
               receipts[e] # NoReceipt, BeginCommit(k, op, e)
        PROVE  ReceiptsTypeOK' /\ ReceiptTargets'
    <2> DEFINE call == [IdleClerk EXCEPT !.pc = "commit", !.op = op, !.target = e]
    <2>1. /\ call \in ReceiptCall
          /\ call.target = e /\ call.pc = "commit" /\ call.missing = {}
      BY DEF IdleClerk, ReceiptCall, ReceiptOps
    <2>2. handling' = [handling EXCEPT ![k] = call]
      BY <1>3 DEF BeginCommit
    <2> HIDE DEF call
    <2> QED BY <1>0, <1>1, <1>3, <2>1, <2>2 DEF ReceiptsTypeOK, ReceiptTargets, Posted
  <1>4. ASSUME NEW e \in EntryIds,
               \/ StartPrint(k, e)
               \/ StartReturn(k, e)
               \/ \E party \in Parties : StartAccept(k, e, party)
        PROVE  ReceiptsTypeOK' /\ ReceiptTargets'
    BY <1>3, <1>4 DEF StartPrint, StartReturn, StartAccept
  <1>5. ASSUME FinishHandling(k)
        PROVE  ReceiptsTypeOK' /\ ReceiptTargets'
    BY <1>0, <1>1, <1>5, IdleTypes
    DEF FinishHandling, ReceiptsTypeOK, ReceiptTargets, IdleClerk, Posted
  <1>6. CASE ReceiptRefused(k) \/ AbortReceiptCall(k)
    BY <1>5, <1>6 DEF ReceiptRefused, AbortReceiptCall
  <1>7. ASSUME NEW approved \in Approvals, StartBackfill(k, approved)
        PROVE  ReceiptsTypeOK' /\ ReceiptTargets'
    <2> DEFINE call == [IdleClerk EXCEPT !.pc = "list", !.op = "BACKFILL",
                                         !.approved = approved]
    <2>1. call \in ReceiptCall /\ call.op = "BACKFILL" /\ call.missing = {}
      BY CurrentAccountConstants DEF IdleClerk, ReceiptCall, ReceiptOps
    <2>2. handling' = [handling EXCEPT ![k] = call]
      BY <1>7 DEF StartBackfill
    <2> HIDE DEF call
    <2> QED BY <1>0, <1>1, <2>1, <2>2 DEF ReceiptsTypeOK, ReceiptTargets, Posted
  <1>8. ASSUME NEW dryRun \in BOOLEAN, ListDebitsMissingReceipts(k, dryRun)
        PROVE  ReceiptsTypeOK' /\ ReceiptTargets'
    <2>1. CASE FinishHandling(k)
      BY <1>5, <2>1
    <2>2. CASE handling' = [handling EXCEPT ![k].pc = "commit",
                                            ![k].missing = DebitsMissingReceipts]
      <3>1. DebitsMissingReceipts \in SUBSET EntryIds /\ DebitsMissingReceipts \subseteq Posted
        BY DEF DebitsMissingReceipts, Posted
      <3>2. handling[k].pc = "list"
        BY <1>8 DEF ListDebitsMissingReceipts
      <3> QED BY <1>0, <1>1, <2>2, <3>1, <3>2
              DEF ReceiptsTypeOK, ReceiptTargets, ReceiptCall, Posted
    <2> QED BY <1>8, <2>1, <2>2 DEF ListDebitsMissingReceipts
  <1> QED BY <1>4, <1>6, <1>7, <1>8

\* The transactions of the receipt calls.
LEMMA ReceiptCommitType ==
    ASSUME TypeInv, NEW k \in Clerks, UNCHANGED <<settlementVars, correcting>>,
           \/ MarkReceiptPrinted(k)
           \/ MarkReceiptReturned(k)
           \/ MarkReceiptAccepted(k)
           \/ CreateLedgerReceipts(k)
    PROVE  TypeInv'
  <1> DEFINE t == handling[k].target
  <1>0. /\ LedgerTypeOK /\ ReceiptTargets /\ ReceiptsPosted
        /\ handling \in [Clerks -> ReceiptCall]
    BY DEF TypeInv, TypeOK, ReceiptsTypeOK
  <1>1. /\ UNCHANGED <<ledger, secondApproval, settlementVars, correcting>>
        /\ FinishHandling(k)
    BY DEF MarkReceiptPrinted, MarkReceiptReturned, MarkReceiptAccepted,
           CreateLedgerReceipts
  <1>2. /\ ApprovalTypeOK' /\ SettlementsTypeOK' /\ CorrectionsTypeOK'
        /\ RequestsNamed' /\ CorrectionTargets'
    BY <1>1 DEF TypeInv, TypeOK, ApprovalTypeOK, SettlementsTypeOK,
                CorrectionsTypeOK, RequestsNamed, CorrectionTargets,
                Posted, settlementVars
  <1>3. ReceiptsTypeOK'
    BY <1>0, <1>1, IdleTypes DEF FinishHandling, ReceiptsTypeOK
  <1>s. SUFFICES /\ receipts' \in [EntryIds -> Receipt \cup {NoReceipt}]
                 /\ ReceiptsPosted'
                 /\ Grows
    <2>1. ASSUME Grows PROVE ReceiptTargets'
      BY <1>0, <1>1, <2>1 DEF FinishHandling, ReceiptTargets, Grows, IdleClerk, Posted
    <2>2. LedgerTypeOK'
      BY <1>0, <1>1 DEF LedgerTypeOK
    <2> QED BY <1>2, <1>3, <2>1, <2>2 DEF TypeInv, TypeOK
  <1>4. ASSUME t \in EntryIds, receipts[t] # NoReceipt,
               NEW r \in Receipt, receipts' = [receipts EXCEPT ![t] = r]
        PROVE  /\ receipts' \in [EntryIds -> Receipt \cup {NoReceipt}]
               /\ ReceiptsPosted'
               /\ Grows
    BY <1>0, <1>1, <1>4, LedgerNulls DEF LedgerTypeOK, ReceiptsPosted, Grows
  <1>5. ASSUME \E op \in {"PRINT", "RETURN", "ACCEPT"} : Committing(k, op)
        PROVE  t \in EntryIds /\ receipts[t] # NoReceipt /\ receipts[t] \in Receipt
    BY <1>0, <1>5 DEF Committing, ReceiptTargets, LedgerTypeOK
  <1>6. CASE MarkReceiptPrinted(k)
    <2> DEFINE st == IF receipts[t].status \in {"PENDING_ISSUE", "ISSUED", "PRINTED"}
                       THEN "PRINTED" ELSE receipts[t].status
               r == [receipts[t] EXCEPT !.status = st]
    <2>1. t \in EntryIds /\ receipts[t] # NoReceipt /\ receipts[t] \in Receipt
      BY <1>5, <1>6 DEF MarkReceiptPrinted
    <2>2. receipts' = [receipts EXCEPT ![t] = r]
      BY <1>0, <1>6, <2>1 DEF MarkReceiptPrinted, LedgerTypeOK
    <2>3. st \in OutstandingStatuses \cup TerminalStatuses
      BY <2>1 DEF Receipt, OutstandingStatuses
    <2> HIDE DEF st
    <2>4. r \in Receipt
      BY <2>1, <2>3 DEF Receipt
    <2> QED BY <1>4, <2>1, <2>2, <2>4
  <1>7. CASE MarkReceiptReturned(k)
    <2> DEFINE r == [receipts[t] EXCEPT !.status = "RETURNED"]
    <2>1. t \in EntryIds /\ receipts[t] # NoReceipt /\ receipts[t] \in Receipt
      BY <1>5, <1>7 DEF MarkReceiptReturned
    <2>2. receipts' = [receipts EXCEPT ![t] = r]
      BY <1>0, <1>7, <2>1 DEF MarkReceiptReturned, LedgerTypeOK
    <2>3. r \in Receipt
      BY <2>1 DEF Receipt, TerminalStatuses
    <2> QED BY <1>4, <2>1, <2>2, <2>3
  <1>8. CASE MarkReceiptAccepted(k)
    <2> DEFINE r == [receipts[t] EXCEPT !.status = "RETURNED", !.accepted = TRUE]
    <2>1. t \in EntryIds /\ receipts[t] # NoReceipt /\ receipts[t] \in Receipt
      BY <1>5, <1>8 DEF MarkReceiptAccepted
    <2>2. receipts' = [receipts EXCEPT ![t] = r]
      BY <1>0, <1>8, <2>1 DEF MarkReceiptAccepted, LedgerTypeOK
    <2>3. r \in Receipt
      BY <2>1 DEF Receipt, TerminalStatuses
    <2> QED BY <1>4, <2>1, <2>2, <2>3
  <1>9. CASE CreateLedgerReceipts(k)
    <2>1. NewReceipt("LEDGER_DEBIT", "COLLABORATOR") \in Receipt
      BY NewReceiptType DEF FinalPurposes, Parties
    <2>2. receipts' = receipts \/
          receipts' = [e \in EntryIds |->
                         IF e \in handling[k].missing
                           THEN NewReceipt("LEDGER_DEBIT", "COLLABORATOR")
                           ELSE receipts[e]]
      BY <1>9 DEF CreateLedgerReceipts
    <2> QED BY <1>0, <1>1, <2>1, <2>2, LedgerNulls
            DEF LedgerTypeOK, ReceiptTargets, ReceiptsPosted, Posted, Grows
  <1> QED BY <1>6, <1>7, <1>8, <1>9

-----------------------------------------------------------------------------
(***************************************************************************)
(* The other packages keep the types.                                      *)
(***************************************************************************)

\* An entry posted by the other packages.
LEMMA PostOrdinaryType ==
    ASSUME TypeInv, NEW p \in OrdinaryPostings, PostOrdinaryEntry(p)
    PROVE  TypeInv'
  <1>0. LedgerTypeOK /\ ReceiptsPosted
    BY DEF TypeInv, TypeOK
  <1>1. PICK e \in Unused : CreateEntries([x \in {e} |-> OrdinaryEntry(p)])
    BY DEF PostOrdinaryEntry
  <1> DEFINE new == [x \in {e} |-> OrdinaryEntry(p)]
  <1>2. CreateEntries(new) /\ DOMAIN new \subseteq Unused
        /\ \A x \in DOMAIN new : new[x] \in Entry
    BY <1>1, OrdinaryEntryType
  <1> HIDE DEF new
  <1>3. LedgerTypeOK' /\ Grows /\ ReceiptsPosted'
    BY <1>0, <1>2, CreateEntriesType, CreateEntriesGrows
  <1>4. UNCHANGED <<secondApproval, settlementVars, correcting, handling>>
    BY DEF PostOrdinaryEntry
  <1>5. CorrectionTargets' /\ ReceiptTargets'
    BY <1>3, <1>4, GrowthKeepsTargets
  <1>6. /\ ApprovalTypeOK' /\ SettlementsTypeOK' /\ CorrectionsTypeOK' /\ ReceiptsTypeOK'
        /\ RequestsNamed'
    BY <1>4 DEF TypeInv, TypeOK, ApprovalTypeOK, SettlementsTypeOK, CorrectionsTypeOK,
                ReceiptsTypeOK, RequestsNamed, settlementVars
  <1> QED BY <1>3, <1>5, <1>6 DEF TypeInv, TypeOK

\* The cancellation of an expense.
LEMMA CancelExpenseType ==
    ASSUME TypeInv, NEW e \in EntryIds, CancelExpense(e)
    PROVE  TypeInv' /\ Grows
  <1>0. LedgerTypeOK /\ ReceiptsPosted /\ e \in Posted /\ receipts[e] # NoReceipt
    BY DEF TypeInv, TypeOK, CancelExpense
  <1>1. PICK r \in Unused : ledger' = [ledger EXCEPT ![r] = ReversalOf(e)]
    BY DEF CancelExpense
  <1>2. ReversalOf(e) \in Entry
    BY <1>0, ReversalType
  <1> DEFINE st == IF receipts[e].status \in TerminalStatuses
                     THEN receipts[e].status ELSE "CANCELLED"
             new == [receipts[e] EXCEPT !.status = st]
  <1>3. receipts' = [receipts EXCEPT ![e] = new]
    BY <1>0 DEF CancelExpense, LedgerTypeOK
  <1>4. st \in TerminalStatuses
    BY DEF TerminalStatuses
  <1> HIDE DEF st
  <1>5. new \in Receipt
    BY <1>0, <1>4 DEF LedgerTypeOK, Receipt
  <1> HIDE DEF new
  <1>6. LedgerTypeOK' /\ Grows /\ ReceiptsPosted'
    BY <1>0, <1>1, <1>2, <1>3, <1>5, LedgerNulls
    DEF LedgerTypeOK, Grows, ReceiptsPosted, Unused, Posted
  <1>7. UNCHANGED <<secondApproval, settlementVars, correcting, handling>>
    BY DEF CancelExpense
  <1>8. CorrectionTargets' /\ ReceiptTargets'
    BY <1>6, <1>7, GrowthKeepsTargets
  <1>9. /\ ApprovalTypeOK' /\ SettlementsTypeOK' /\ CorrectionsTypeOK' /\ ReceiptsTypeOK'
        /\ RequestsNamed'
    BY <1>7 DEF TypeInv, TypeOK, ApprovalTypeOK, SettlementsTypeOK, CorrectionsTypeOK,
                ReceiptsTypeOK, RequestsNamed, settlementVars
  <1> QED BY <1>6, <1>8, <1>9 DEF TypeInv, TypeOK

\* Accrual runs and the approval policy touch no call and no table row.
LEMMA SettingsType ==
    ASSUME TypeInv, RecalculateAccruals \/ UpdatePolicy
    PROVE  TypeInv'
  <1>1. UNCHANGED <<ledger, receipts, journey, settlements, settling, correcting, handling>>
    BY DEF RecalculateAccruals, UpdatePolicy, settlementVars
  <1>2. secondApproval' \in BOOLEAN /\ pendingAccruals' \in BOOLEAN
    BY CurrentAccountConstants
    DEF TypeInv, TypeOK, SettlementsTypeOK, ApprovalTypeOK, RecalculateAccruals,
        UpdatePolicy, UpdateSecondPersonApprovalPolicy, settlementVars
  <1> QED BY <1>1, <1>2
          DEF TypeInv, TypeOK, LedgerTypeOK, SettlementsTypeOK, ApprovalTypeOK,
              CorrectionsTypeOK, ReceiptsTypeOK, RequestsNamed, CorrectionTargets,
              ReceiptTargets, ReceiptsPosted, Posted

-----------------------------------------------------------------------------
\* Every step keeps the types and what the calls in flight rely on.
LEMMA TypeNext == TypeInv /\ [Next]_vars => TypeInv'
  <1> SUFFICES ASSUME TypeInv, [Next]_vars PROVE TypeInv'
    OBVIOUS
  <1>1. ASSUME NEW s \in Settlers,
               \/ RequestSettlement(s) \/ RequestPreview(s)
               \/ SettlementProgress(s) \/ SettlementAborted(s)
        PROVE  TypeInv'
    <2>1. UNCHANGED <<correcting, handling>>
      BY <1>1 DEF RequestSettlement, RequestPreview, SettlementProgress, SettlementAborted
    <2>2. CASE CreateSettlementWithEntries(s)
      BY <2>1, <2>2, SettlementCommitType
    <2>3. CASE CloseJourneyWithAudit(s)
      BY <2>1, <2>3, CloseJourneyType
    <2> QED BY <1>1, <2>1, <2>2, <2>3, SettlementReads
            DEF RequestSettlement, RequestPreview, SettlementProgress,
                SettlementAborted, SettlementStep
  <1>2. ASSUME NEW c \in Correctors,
               RequestCorrection(c) \/ CorrectionProgress(c) \/ CorrectionAborted(c)
        PROVE  TypeInv'
    <2>1. UNCHANGED <<settlementVars, handling>>
      BY <1>2 DEF RequestCorrection, CorrectionProgress, CorrectionAborted
    <2>2. CASE CreateCorrectionEntries(c)
      BY <2>1, <2>2, CorrectionCommitType
    <2> QED BY <1>2, <2>1, <2>2, CorrectionReads
            DEF RequestCorrection, CorrectionProgress, CorrectionAborted, CorrectionStep
  <1>3. ASSUME NEW k \in Clerks,
               RequestReceiptCall(k) \/ ReceiptProgress(k) \/ ReceiptCallAborted(k)
        PROVE  TypeInv'
    <2>1. UNCHANGED <<settlementVars, correcting>>
      BY <1>3 DEF RequestReceiptCall, ReceiptProgress, ReceiptCallAborted
    <2> QED BY <1>3, <2>1, ReceiptReads, ReceiptCommitType
            DEF RequestReceiptCall, ReceiptProgress, ReceiptCallAborted, ReceiptStep
  <1>4. CASE UNCHANGED vars
    BY <1>4 DEF vars, TypeInv, TypeOK, LedgerTypeOK, SettlementsTypeOK, ApprovalTypeOK,
                CorrectionsTypeOK, ReceiptsTypeOK, RequestsNamed, CorrectionTargets,
                ReceiptTargets, ReceiptsPosted, Posted
  <1> QED BY <1>1, <1>2, <1>3, <1>4, PostOrdinaryType, CancelExpenseType, SettingsType
          DEF Next

\* Type correctness: the tables and the calls in flight stay well typed
\* whatever requests, crashes and postings interleave.
THEOREM TypeCorrect == Spec => []TypeOK
  <1>1. TypeInv => TypeOK
    BY DEF TypeInv
  <1> QED BY <1>1, TypeInit, TypeNext, PTL DEF Spec

\* The steps that write entries are the commits of payments and corrections,
\* the postings of the other packages, and the cancellation of expenses.
LEMMA EntryWriters ==
    ASSUME [Next]_vars, ledger' # ledger
    PROVE  \/ \E s \in Settlers : CreateSettlementWithEntries(s)
                                  /\ UNCHANGED <<correcting, handling>>
           \/ \E c \in Correctors : CreateCorrectionEntries(c)
                                    /\ UNCHANGED <<settlementVars, handling>>
           \/ \E p \in OrdinaryPostings : PostOrdinaryEntry(p)
           \/ \E e \in EntryIds : CancelExpense(e)
  <1>1. ASSUME NEW s \in Settlers,
               RequestSettlement(s) \/ RequestPreview(s) \/ SettlementAborted(s)
               \/ (SettlementProgress(s) /\ ~CreateSettlementWithEntries(s))
        PROVE  FALSE
    BY <1>1 DEF RequestSettlement, RequestPreview, SettlementAborted,
                SettlementProgress, SettlementStep, StartSettlement, StartPreview,
                ReplaySettlement, NoSettlementYet, CheckJourneyOpen, ListBalances,
                DuplicateRequest, PreviewJourney, PreviewBalances, PreviewAccruals,
                PreviewReceipts, CloseJourneyWithAudit, JourneyCloseRefused,
                AbortSettlement, DataUnchanged
  <1>2. ASSUME NEW c \in Correctors,
               RequestCorrection(c) \/ CorrectionAborted(c)
               \/ (CorrectionProgress(c) /\ ~CreateCorrectionEntries(c))
        PROVE  FALSE
    BY <1>2 DEF RequestCorrection, CorrectionAborted, CorrectionProgress,
                CorrectionStep, StartCorrection, CheckNotReversed,
                CorrectionConflict, AbortCorrection
  <1>3. ASSUME NEW k \in Clerks,
               RequestReceiptCall(k) \/ ReceiptProgress(k) \/ ReceiptCallAborted(k)
        PROVE  FALSE
    BY <1>3 DEF RequestReceiptCall, ReceiptProgress, ReceiptCallAborted, ReceiptStep,
                StartPrint, StartReturn, StartAccept, StartBackfill,
                MarkReceiptPrinted, MarkReceiptReturned, MarkReceiptAccepted,
                ReceiptRefused, ListDebitsMissingReceipts, CreateLedgerReceipts,
                AbortReceiptCall
  <1>4. ~RecalculateAccruals /\ ~UpdatePolicy /\ ~UNCHANGED vars
    BY DEF RecalculateAccruals, UpdatePolicy, vars
  <1> QED BY <1>1, <1>2, <1>3, <1>4
          DEF Next, SettlementProgress, CorrectionProgress
=============================================================================
