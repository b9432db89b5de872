-------------------------- MODULE SettlementProofs --------------------------
(***************************************************************************)
(* Settlements post the money of a request id once, and a journey is       *)
(* closed by one audited closure at a zero balance, for any number of      *)
(* concurrent, repeated and aborted requests; and a payment overdraws the  *)
(* account only if entries are written between its reading and its commit. *)
(***************************************************************************)
EXTENDS LedgerProofs

\* A closure in flight settles nothing.
ClosuresPayNothing ==
    \A s \in Settlers : settling[s].op = "CLOSE_JOURNEY" =>
                            settling[s].amounts = ZeroAmounts

\* The inductive form of SettlementsMatchLedger.
PostedOnce == SettlementsMatchLedger /\ ClosuresPayNothing

\* The writers of the settlement table and of the journey.
LEMMA SettlementWriters ==
    ASSUME [Next]_vars, settlements' # settlements \/ journey' # journey
    PROVE  \E s \in Settlers :
              /\ CreateSettlementWithEntries(s) \/ CloseJourneyWithAudit(s)
              /\ UNCHANGED <<correcting, handling>>
  <1>1. ASSUME NEW s \in Settlers,
               RequestSettlement(s) \/ RequestPreview(s) \/ SettlementAborted(s)
        PROVE  FALSE
    BY <1>1 DEF RequestSettlement, RequestPreview, SettlementAborted,
                StartSettlement, StartPreview, AbortSettlement, DataUnchanged
  <1>2. ASSUME NEW s \in Settlers, SettlementProgress(s),
               ~CreateSettlementWithEntries(s), ~CloseJourneyWithAudit(s)
        PROVE  FALSE
    BY <1>2 DEF SettlementProgress, SettlementStep,
                ReplaySettlement, NoSettlementYet, CheckJourneyOpen, ListBalances,
                DuplicateRequest, PreviewJourney, PreviewBalances, PreviewAccruals,
                PreviewReceipts, JourneyCloseRefused, DataUnchanged
  <1>3. ASSUME NEW c \in Correctors,
               RequestCorrection(c) \/ CorrectionProgress(c) \/ CorrectionAborted(c)
        PROVE  FALSE
    BY <1>3 DEF RequestCorrection, CorrectionProgress, CorrectionAborted, settlementVars
  <1>4. ASSUME NEW k \in Clerks,
               RequestReceiptCall(k) \/ ReceiptProgress(k) \/ ReceiptCallAborted(k)
        PROVE  FALSE
    BY <1>4 DEF RequestReceiptCall, ReceiptProgress, ReceiptCallAborted, settlementVars
  <1>5. /\ ~RecalculateAccruals /\ ~UpdatePolicy /\ ~UNCHANGED vars
        /\ \A p \in OrdinaryPostings : ~PostOrdinaryEntry(p)
        /\ \A e \in EntryIds : ~CancelExpense(e)
    BY DEF RecalculateAccruals, UpdatePolicy, vars, PostOrdinaryEntry, CancelExpense,
           settlementVars
  <1> QED BY <1>1, <1>2, <1>3, <1>4, <1>5 DEF Next, SettlementProgress

-----------------------------------------------------------------------------
\* The closing step re-reads the balances: whatever was posted since the
\* preview, the journey is closed at zero in every unit.
THEOREM ClosedAtZero == Spec => ClosesAtZeroBalance
  <1>1. ASSUME [Next]_vars PROVE [journey' # journey => ZeroBalance]_vars
    BY <1>1, SettlementWriters
    DEF CreateSettlementWithEntries, CloseJourneyWithAudit, JourneyCloseAllowed
  <1> QED BY <1>1, PTL DEF Spec, ClosesAtZeroBalance

\* The closing step and the audit row are one transaction.
LEMMA ClosedNext ==
    ASSUME TypeInv, ClosedIffAudited, [Next]_vars
    PROVE  ClosedIffAudited'
  <1>0. settlements \in [RequestIds -> Settlement \cup {NoSettlement}]
    BY DEF TypeInv, TypeOK, SettlementsTypeOK
  <1>1. CASE UNCHANGED <<settlements, journey>>
    BY <1>1 DEF ClosedIffAudited, Closures
  <1>2. ASSUME NEW s \in Settlers, CreateSettlementWithEntries(s)
        PROVE  ClosedIffAudited'
    <2> DEFINE call == settling[s]
               row == [type |-> call.op, amounts |-> call.amounts,
                       approved |-> call.approved]
    <2>1. /\ settlements' = [settlements EXCEPT ![call.request] = row]
          /\ settlements[call.request] = NoSettlement
          /\ journey' = journey
      BY <1>2 DEF CreateSettlementWithEntries, RecordSettlement, RequestIdFree
    <2>2. row.type # "CLOSE_JOURNEY"
      BY <1>2 DEF CreateSettlementWithEntries, PaymentTypes, FinalTypes
    <2> HIDE DEF row
    <2>3. Closures' = Closures
      BY <1>0, <2>1, <2>2 DEF Closures
    <2> QED BY <2>1, <2>3 DEF ClosedIffAudited
  <1>3. ASSUME NEW s \in Settlers, CloseJourneyWithAudit(s)
        PROVE  ClosedIffAudited'
    <2> DEFINE call == settling[s]
               row == [type |-> call.op, amounts |-> call.amounts,
                       approved |-> call.approved]
    <2>1. /\ settlements' = [settlements EXCEPT ![call.request] = row]
          /\ journey = "OPEN" /\ journey' = "FINISHED"
          /\ call.op = "CLOSE_JOURNEY"
      BY <1>3 DEF CloseJourneyWithAudit, RecordSettlement, JourneyCloseAllowed
    <2>2. call.request \in RequestIds /\ call \in SettlementCall
      BY <2>1 DEF TypeInv, TypeOK, SettlementsTypeOK, RequestsNamed
    <2>3. row.type = "CLOSE_JOURNEY" /\ row \in Settlement
      BY <2>1, <2>2 DEF Settlement, SettlementTypes, SettlementCall
    <2> HIDE DEF row
    <2>4. Closures = {}
      BY <2>1 DEF ClosedIffAudited
    <2>5. Closures' = {call.request}
      BY <1>0, <2>1, <2>2, <2>3, <2>4, SettlementNulls DEF Closures
    <2> QED BY <2>1, <2>2, <2>5 DEF ClosedIffAudited
  <1> QED BY <1>1, <1>2, <1>3, SettlementWriters

\* A journey is closed exactly when one CLOSE_JOURNEY row records it.
THEOREM ClosureAudited == Spec => []ClosedIffAudited
  <1>1. Init => ClosedIffAudited
    BY DEF Init, SettlementsInit, ClosedIffAudited, Closures
  <1>2. TypeInv /\ ClosedIffAudited /\ [Next]_vars => (TypeInv /\ ClosedIffAudited)'
    BY TypeNext, ClosedNext
  <1> QED BY <1>1, <1>2, TypeInit, PTL DEF Spec

-----------------------------------------------------------------------------
\* Only the read of the balances changes the amounts of a call in flight.
LEMMA ClosuresPayNothingNext ==
    ASSUME TypeInv, ClosuresPayNothing, [Next]_vars
    PROVE  ClosuresPayNothing'
  <1>0. settling \in [Settlers -> SettlementCall]
    BY DEF TypeInv, TypeOK, SettlementsTypeOK
  <1>1. CASE UNCHANGED settling
    BY <1>1 DEF ClosuresPayNothing
  <1>2. ASSUME NEW s \in Settlers, NEW call,
               settling' = [settling EXCEPT ![s] = call],
               call.op = "CLOSE_JOURNEY" => call.amounts = ZeroAmounts
        PROVE  ClosuresPayNothing'
    BY <1>0, <1>2 DEF ClosuresPayNothing
  <1>3. ASSUME NEW s \in Settlers, Finish(s) PROVE ClosuresPayNothing'
    BY <1>2, <1>3 DEF Finish, IdleCall
  <1>4. ASSUME NEW s \in Settlers, NEW pc, NEW blockers,
               \/ settling' = [settling EXCEPT ![s].pc = pc]
               \/ settling' = [settling EXCEPT ![s].pc = pc, ![s].blockers = blockers]
        PROVE  ClosuresPayNothing'
    <2>1. \A x \in Settlers : /\ settling'[x].op = settling[x].op
                              /\ settling'[x].amounts = settling[x].amounts
      BY <1>0, <1>4 DEF SettlementCall
    <2> QED BY <2>1 DEF ClosuresPayNothing
  <1>5. ASSUME NEW s \in Settlers, RequestSettlement(s) PROVE ClosuresPayNothing'
    <2>1. PICK op \in SettlementOps, q \in RequestIds, approved \in Approvals,
               amounts \in PayoutAmounts \cup {ZeroAmounts} :
                  StartSettlement(s, op, q, amounts, approved)
      BY <1>5 DEF RequestSettlement
    <2> DEFINE call == [pc       |-> IF op \in FinalTypes THEN "journey" ELSE "lookup",
                        op       |-> op,
                        request  |-> q,
                        amounts  |-> amounts,
                        approved |-> approved,
                        blockers |-> {}]
    <2>2. settling' = [settling EXCEPT ![s] = call]
      BY <2>1 DEF StartSettlement
    <2>3. (op = "PAYOUT") = (amounts # ZeroAmounts)
      BY <2>1 DEF StartSettlement
    <2>4. call.op = "CLOSE_JOURNEY" => call.amounts = ZeroAmounts
      BY <2>3
    <2> HIDE DEF call
    <2> QED BY <1>2, <2>2, <2>4
  <1>6. ASSUME NEW s \in Settlers, ListBalances(s) PROVE ClosuresPayNothing'
    <2>1. settling[s].op # "CLOSE_JOURNEY"
      BY <1>6 DEF ListBalances, PaymentTypes, FinalTypes
    <2>2. CASE settling' = [settling EXCEPT ![s].pc = "commit",
                                            ![s].amounts = PayableAmounts(settling[s])]
      <3>1. \A x \in Settlers : /\ settling'[x].op = settling[x].op
                                /\ x # s => settling'[x] = settling[x]
        BY <1>0, <2>2 DEF SettlementCall
      <3> QED BY <2>1, <3>1 DEF ClosuresPayNothing
    <2>3. CASE Finish(s)
      BY <1>3, <2>3
    <2> QED BY <1>6, <2>2, <2>3 DEF ListBalances
  <1>7. ASSUME NEW s \in Settlers,
               \/ StartPreview(s) \/ AbortSettlement(s) \/ ReplaySettlement(s)
               \/ NoSettlementYet(s) \/ CheckJourneyOpen(s)
               \/ CreateSettlementWithEntries(s) \/ DuplicateRequest(s)
               \/ PreviewReceipts(s) \/ CloseJourneyWithAudit(s)
               \/ JourneyCloseRefused(s)
        PROVE  ClosuresPayNothing'
    BY <1>3, <1>4, <1>7
    DEF StartPreview, AbortSettlement, ReplaySettlement, NoSettlementYet,
        CheckJourneyOpen, CreateSettlementWithEntries, DuplicateRequest,
        PreviewReceipts, CloseJourneyWithAudit, JourneyCloseRefused, Goto
  <1>8. ASSUME NEW s \in Settlers,
               PreviewJourney(s) \/ PreviewBalances(s) \/ PreviewAccruals(s)
        PROVE  ClosuresPayNothing'
    BY <1>4, <1>8 DEF PreviewJourney, PreviewBalances, PreviewAccruals, Note
  <1>9. ASSUME NEW s \in Settlers,
               RequestPreview(s) \/ SettlementProgress(s) \/ SettlementAborted(s)
        PROVE  ClosuresPayNothing'
    BY <1>6, <1>7, <1>8, <1>9
    DEF RequestPreview, SettlementProgress, SettlementAborted, SettlementStep
  <1>10. ASSUME ~UNCHANGED settling
         PROVE  \E s \in Settlers : \/ RequestSettlement(s) \/ RequestPreview(s)
                                    \/ SettlementProgress(s) \/ SettlementAborted(s)
    BY <1>10 DEF Next, vars, settlementVars, RequestCorrection, CorrectionProgress,
                 CorrectionAborted, RequestReceiptCall, ReceiptProgress,
                 ReceiptCallAborted, PostOrdinaryEntry, CancelExpense,
                 RecalculateAccruals, UpdatePolicy
  <1> QED BY <1>1, <1>5, <1>9, <1>10

\* Entries from elsewhere are no entries of a request.
LEMMA OtherEntriesKeepSettlements ==
    ASSUME TypeInv, SettlementsMatchLedger, UNCHANGED settlements,
           NEW new, DOMAIN new \subseteq Unused,
           \A e \in DOMAIN new : new[e] \in Entry /\ new[e].source # "JOURNEY_SETTLEMENT",
           ledger' = [e \in EntryIds |-> IF e \in DOMAIN new THEN new[e] ELSE ledger[e]]
    PROVE  SettlementsMatchLedger'
  <1>1. \A e \in EntryIds : /\ e \in Posted => e \in Posted' /\ ledger'[e] = ledger[e]
                            /\ e \in Posted' \ Posted =>
                                  ledger'[e].source # "JOURNEY_SETTLEMENT"
    BY LedgerNulls DEF Posted, Unused
  <1>2. \A q \in RequestIds, u \in Units : EntriesOf(q, u)' = EntriesOf(q, u)
    BY <1>1 DEF EntriesOf, Posted
  <1>3. \A q \in RequestIds, u \in Units, e \in EntryIds :
           EntriesOf(q, u) = {e} => ledger'[e] = ledger[e]
    BY <1>1 DEF EntriesOf
  <1> QED BY <1>2, <1>3 DEF SettlementsMatchLedger

\* The transaction of a payment writes the row and the entries of its request.
LEMMA PaymentKeepsSettlements ==
    ASSUME TypeInv, SettlementsMatchLedger, NEW s \in Settlers,
           CreateSettlementWithEntries(s)
    PROVE  SettlementsMatchLedger'
  <1>a. PICK call \in SettlementCall, q \in RequestIds :
           call = settling[s] /\ q = call.request
    BY DEF TypeInv, TypeOK, SettlementsTypeOK, RequestsNamed, PaymentTypes,
           FinalTypes, CreateSettlementWithEntries
  <1> DEFINE row == [type |-> call.op, amounts |-> call.amounts,
                     approved |-> call.approved]
  <1>0. settlements \in [RequestIds -> Settlement \cup {NoSettlement}]
    BY DEF TypeInv, TypeOK, SettlementsTypeOK
  <1>1. call.op \in PaymentTypes
    BY <1>a DEF CreateSettlementWithEntries
  <1>2. /\ settlements' = [settlements EXCEPT ![q] = row]
        /\ settlements[q] = NoSettlement
    BY <1>a DEF CreateSettlementWithEntries, RecordSettlement, RequestIdFree
  <1>3. row # NoSettlement /\ row.amounts = call.amounts
    BY <1>1, SettlementNulls DEF Settlement, SettlementTypes, SettlementCall
  <1>3a. PostSettlementEntries(call)
    BY <1>a DEF CreateSettlementWithEntries
  <1>4. PICK id \in [SettledUnits(call) -> Unused] :
           /\ \A u, v \in DOMAIN id : u # v => id[u] # id[v]
           /\ CreateEntries([e \in {id[u] : u \in DOMAIN id} |->
                  SettlementEntry(call, CHOOSE u \in DOMAIN id : id[u] = e)])
    BY <1>3a DEF PostSettlementEntries
  <1> DEFINE new == [e \in {id[u] : u \in DOMAIN id} |->
                       SettlementEntry(call, CHOOSE u \in DOMAIN id : id[u] = e)]
  <1>5. /\ DOMAIN new \subseteq Unused
        /\ \A e \in DOMAIN new : new[e] \in Entry
    BY <1>a, <1>4, SettlementEntriesType
  <1>6. \A u \in SettledUnits(call) :
           id[u] \in DOMAIN new /\ new[id[u]] = SettlementEntry(call, u)
    <2> TAKE u \in SettledUnits(call)
    <2>1. \A v \in DOMAIN id : id[v] = id[u] <=> v = u
      BY <1>4
    <2>2. (CHOOSE v \in DOMAIN id : id[v] = id[u]) = u
      BY <2>1
    <2> QED BY <2>2
  <1>7. \A e \in DOMAIN new : \E u \in SettledUnits(call) : e = id[u]
    OBVIOUS
  <1>8. ledger' = [e \in EntryIds |-> IF e \in DOMAIN new THEN new[e] ELSE ledger[e]]
    BY <1>4 DEF CreateEntries
  <1> HIDE DEF new, row
  <1>9. \A e \in EntryIds : /\ e \in Posted => e \in Posted' /\ ledger'[e] = ledger[e]
                            /\ e \in Posted' \ Posted => e \in DOMAIN new
                            /\ e \in DOMAIN new => /\ e \in Posted' \ Posted
                                                   /\ ledger'[e] = new[e]
    BY <1>5, <1>8, LedgerNulls DEF Posted, Unused
  <1>10. \A u \in SettledUnits(call) :
            /\ id[u] \in EntryIds
            /\ id[u] \in Posted' \ Posted
            /\ ledger'[id[u]].source = "JOURNEY_SETTLEMENT"
            /\ ledger'[id[u]].sourceId = q
            /\ ledger'[id[u]].unit = u
            /\ ledger'[id[u]].amount = call.amounts[u]
    <2> TAKE u \in SettledUnits(call)
    <2>1. id[u] \in DOMAIN new /\ id[u] \in EntryIds
      BY <1>5, <1>6 DEF Unused
    <2>2. id[u] \in Posted' \ Posted /\ ledger'[id[u]] = SettlementEntry(call, u)
      BY <1>6, <1>9, <2>1
    <2> QED BY <1>a, <2>1, <2>2 DEF SettlementEntry
  <1>11. ASSUME NEW q2 \in RequestIds, q2 # q, NEW u \in Units
         PROVE  /\ EntriesOf(q2, u)' = EntriesOf(q2, u)
                /\ settlements'[q2] = settlements[q2]
                /\ \A e \in EntryIds : EntriesOf(q2, u) = {e} => ledger'[e] = ledger[e]
    <2>1. EntriesOf(q2, u)' = EntriesOf(q2, u)
      BY <1>7, <1>9, <1>10, <1>11 DEF EntriesOf, Posted
    <2>2. \A e \in EntryIds : EntriesOf(q2, u) = {e} => ledger'[e] = ledger[e]
      BY <1>9 DEF EntriesOf
    <2> QED BY <1>0, <1>2, <1>11, <2>1, <2>2
  <1>12. ASSUME NEW u \in Units
         PROVE  EntriesOf(q, u)' = IF u \in SettledUnits(call) THEN {id[u]} ELSE {}
    <2>1. EntriesOf(q, u) = {}
      BY <1>1, <1>2 DEF SettlementsMatchLedger
    <2>2. ASSUME NEW e \in EntriesOf(q, u)'
          PROVE  u \in SettledUnits(call) /\ e = id[u]
      <3>1. e \in EntryIds /\ e \in Posted' /\ ledger'[e].unit = u
        BY DEF EntriesOf, Posted
      <3>2. e \notin Posted
        BY <1>9, <2>1, <2>2, <3>1 DEF EntriesOf
      <3>3. e \in DOMAIN new
        BY <1>9, <3>1, <3>2
      <3> QED BY <1>7, <1>10, <3>1, <3>3
    <2>3. ASSUME u \in SettledUnits(call)
          PROVE  id[u] \in EntriesOf(q, u)'
      BY <1>10, <2>3 DEF EntriesOf
    <2> QED BY <2>2, <2>3
  <1>13. ASSUME NEW u \in Units
         PROVE  IF settlements'[q] = NoSettlement \/ settlements'[q].amounts[u] = 0
                  THEN EntriesOf(q, u)' = {}
                  ELSE \E e \in EntryIds : /\ EntriesOf(q, u)' = {e}
                                           /\ ledger'[e].amount = settlements'[q].amounts[u]
    <2>1. settlements'[q] = row
      BY <1>0, <1>1, <1>2
    <2>2. call.amounts[u] \in Nat /\ (u \in SettledUnits(call) <=> call.amounts[u] > 0)
      BY <1>1 DEF SettlementCall, Amounts, SettledUnits
    <2> QED BY <1>3, <1>10, <1>12, <2>1, <2>2
  <1> QED BY <1>11, <1>13 DEF SettlementsMatchLedger

\* The audit row of a closure has no amounts, so it needs no entries.
LEMMA ClosureKeepsSettlements ==
    ASSUME TypeInv, PostedOnce, NEW s \in Settlers, CloseJourneyWithAudit(s)
    PROVE  SettlementsMatchLedger'
  <1>0. settlements \in [RequestIds -> Settlement \cup {NoSettlement}]
    BY DEF TypeInv, TypeOK, SettlementsTypeOK
  <1>a. PICK call \in SettlementCall, q \in RequestIds :
           call = settling[s] /\ q = call.request
    BY DEF TypeInv, TypeOK, SettlementsTypeOK, RequestsNamed, CloseJourneyWithAudit
  <1> DEFINE row == [type |-> call.op, amounts |-> call.amounts,
                     approved |-> call.approved]
  <1>1. /\ settlements' = [settlements EXCEPT ![q] = row]
        /\ settlements[q] = NoSettlement
        /\ ledger' = ledger
    BY <1>a DEF CloseJourneyWithAudit, RecordSettlement, RequestIdFree
  <1>2. \A u \in Units : row.amounts[u] = 0
    BY <1>a DEF PostedOnce, ClosuresPayNothing, CloseJourneyWithAudit, ZeroAmounts
  <1> HIDE DEF row
  <1>3. \A p \in RequestIds, u \in Units : EntriesOf(p, u)' = EntriesOf(p, u)
    BY <1>1 DEF EntriesOf, Posted
  <1>4. \A u \in Units : EntriesOf(q, u) = {}
    BY <1>1 DEF PostedOnce, SettlementsMatchLedger
  <1>5. settlements'[q] = row /\ \A p \in RequestIds : p # q => settlements'[p] = settlements[p]
    BY <1>0, <1>1
  <1> QED BY <1>1, <1>2, <1>3, <1>4, <1>5 DEF PostedOnce, SettlementsMatchLedger

\* Every step keeps entries and settlement rows in correspondence.
LEMMA PostedOnceNext ==
    ASSUME TypeInv, PostedOnce, [Next]_vars
    PROVE  PostedOnce'
  <1>s. SUFFICES SettlementsMatchLedger'
    BY ClosuresPayNothingNext DEF PostedOnce
  <1>0. SettlementsMatchLedger /\ ledger \in [EntryIds -> Entry \cup {NoEntry}]
    BY DEF PostedOnce, TypeInv, TypeOK, LedgerTypeOK
  <1>1. CASE UNCHANGED <<ledger, settlements>>
    BY <1>0, <1>1 DEF SettlementsMatchLedger, EntriesOf, Posted
  <1>2. ASSUME NEW s \in Settlers, CreateSettlementWithEntries(s)
        PROVE  SettlementsMatchLedger'
    BY <1>0, <1>2, PaymentKeepsSettlements
  <1>3. ASSUME NEW s \in Settlers, CloseJourneyWithAudit(s)
        PROVE  SettlementsMatchLedger'
    BY <1>3, ClosureKeepsSettlements
  <1>4. ASSUME NEW c \in Correctors, CreateCorrectionEntries(c),
               UNCHANGED <<settlementVars, handling>>
        PROVE  SettlementsMatchLedger'
    <2>1. PICK r, p, new :
              /\ r \in Unused /\ p \in EntryIds
              /\ CreateEntries(new)
              /\ new[r] = ReversalOf(correcting[c].target)
              /\ \A e \in DOMAIN new : new[e] \in Entry
              /\ \/ DOMAIN new = {r}
                 \/ /\ p \in Unused \ {r}
                    /\ DOMAIN new = {r, p}
                    /\ new[p] = ReplacementEntry(correcting[c])
      BY <1>4, CorrectionEntries
    <2>2. DOMAIN new \subseteq Unused
          /\ \A e \in DOMAIN new : new[e].source # "JOURNEY_SETTLEMENT"
      BY <2>1 DEF ReversalOf, ReplacementEntry
    <2>3. ledger' = [e \in EntryIds |-> IF e \in DOMAIN new THEN new[e] ELSE ledger[e]]
      BY <2>1 DEF CreateEntries
    <2>4. UNCHANGED settlements
      BY <1>4 DEF settlementVars
    <2> QED BY <1>0, <2>1, <2>2, <2>3, <2>4, OtherEntriesKeepSettlements
  <1>5. ASSUME NEW p \in OrdinaryPostings, PostOrdinaryEntry(p)
        PROVE  SettlementsMatchLedger'
    <2>1. PICK e \in Unused : CreateEntries([x \in {e} |-> OrdinaryEntry(p)])
      BY <1>5 DEF PostOrdinaryEntry
    <2> DEFINE new == [x \in {e} |-> OrdinaryEntry(p)]
    <2>2. /\ DOMAIN new \subseteq Unused
          /\ \A x \in DOMAIN new : new[x] \in Entry /\ new[x].source # "JOURNEY_SETTLEMENT"
      BY OrdinaryEntryType DEF OrdinaryEntry
    <2>3. ledger' = [x \in EntryIds |-> IF x \in DOMAIN new THEN new[x] ELSE ledger[x]]
      BY <2>1 DEF CreateEntries
    <2>4. UNCHANGED settlements
      BY <1>5 DEF PostOrdinaryEntry, settlementVars
    <2> HIDE DEF new
    <2> QED BY <1>0, <2>2, <2>3, <2>4, OtherEntriesKeepSettlements
  <1>6. ASSUME NEW e \in EntryIds, CancelExpense(e)
        PROVE  SettlementsMatchLedger'
    <2>1. PICK r \in Unused : ledger' = [ledger EXCEPT ![r] = ReversalOf(e)]
      BY <1>6 DEF CancelExpense
    <2> DEFINE new == [x \in {r} |-> ReversalOf(e)]
    <2>2. ReversalOf(e) \in Entry /\ ReversalOf(e).source # "JOURNEY_SETTLEMENT"
      BY <1>6, ReversalType DEF TypeInv, TypeOK, CancelExpense, ReversalOf
    <2>3. /\ DOMAIN new \subseteq Unused
          /\ \A x \in DOMAIN new : new[x] \in Entry /\ new[x].source # "JOURNEY_SETTLEMENT"
      BY <2>2
    <2>4. ledger' = [x \in EntryIds |-> IF x \in DOMAIN new THEN new[x] ELSE ledger[x]]
      BY <1>0, <2>1
    <2>5. UNCHANGED settlements
      BY <1>6 DEF CancelExpense, settlementVars
    <2> HIDE DEF new
    <2> QED BY <1>0, <2>3, <2>4, <2>5, OtherEntriesKeepSettlements
  <1> QED BY <1>1, <1>2, <1>3, <1>4, <1>5, <1>6, EntryWriters, SettlementWriters

LEMMA PostedOnceInit == Init => PostedOnce
  <1> SUFFICES ASSUME Init PROVE PostedOnce
    OBVIOUS
  <1>1. \A e \in Posted : ledger[e].source # "JOURNEY_SETTLEMENT"
    BY DEF Init, Posted, OrdinaryEntry
  <1> QED BY <1>1 DEF Init, SettlementsInit, PostedOnce, SettlementsMatchLedger,
                      EntriesOf, ClosuresPayNothing, IdleCall

\* However often and however concurrently a settlement request is sent, the
\* ledger holds exactly the entries of the one settlement recorded for it.
THEOREM SettledOnce == Spec => []SettlementsMatchLedger
  <1>1. TypeInv /\ PostedOnce /\ [Next]_vars => (TypeInv /\ PostedOnce)'
    BY TypeNext, PostedOnceNext
  <1>2. PostedOnce => SettlementsMatchLedger
    BY DEF PostedOnce
  <1> QED BY <1>1, <1>2, TypeInit, PostedOnceInit, PTL DEF Spec

-----------------------------------------------------------------------------
(***************************************************************************)
(* Payments and balances.  A payment reads the balances in one statement   *)
(* and posts in a later one.                                               *)
(***************************************************************************)
LEMMA BalanceIsInt ==
    ASSUME TypeInv, NEW u
    PROVE  Balance(u) \in Int
  <1>1. PICK S : S = {e \in Posted : ledger[e].unit = u}
    OBVIOUS
  <1>2. S \in SUBSET EntryIds
    BY <1>1 DEF Posted
  <1>3. IsFiniteSet(S)
    BY <1>2, LedgerFinite, FS_Subset
  <1>4. \A e \in S : Signed(ledger[e]) \in Int
    BY <1>1 DEF TypeInv, TypeOK, LedgerTypeOK, Posted, Entry, Signed, PosNat
  <1>5. SumOf(ledger, S) \in Int
    BY <1>3, <1>4, SumWithout
  <1> QED BY <1>1, <1>5 DEF Balance, SumOf

\* The balance before a step and the one after it, as sums.
LEMMA BalanceAsSum ==
    ASSUME NEW u
    PROVE  /\ Balance(u) = SumOf(ledger, {e \in Posted : ledger[e].unit = u})
           /\ Balance(u)' = SumOf(ledger', {e \in Posted' : ledger'[e].unit = u})
  <1>1. Balance(u) = SumOf(ledger, {e \in Posted : ledger[e].unit = u})
    BY DEF Balance, SumOf
  <1>2. Balance(u)' = SumOf(ledger', {e \in Posted' : ledger'[e].unit = u})
    BY DEF Balance, SumOf, MapThenSumSet, MapThenFoldSet
  <1> QED BY <1>1, <1>2

\* A transaction adds its entry of a unit to the unit's balance.
LEMMA PostingMovesBalance ==
    ASSUME TypeInv, NEW new, DOMAIN new \subseteq Unused,
           \A e \in DOMAIN new : new[e] \in Entry,
           ledger' = [e \in EntryIds |-> IF e \in DOMAIN new THEN new[e] ELSE ledger[e]],
           NEW u, NEW x \in DOMAIN new,
           \A e \in DOMAIN new : new[e].unit = u <=> e = x
    PROVE  Balance(u)' = Balance(u) + Signed(new[x])
  <1> DEFINE S == {e \in Posted : ledger[e].unit = u}
             T == {e \in Posted' : ledger'[e].unit = u}
  <1>1. \A e \in EntryIds : /\ e \in Posted => e \in Posted' /\ ledger'[e] = ledger[e]
                            /\ e \in Posted' \ Posted => e \in DOMAIN new
                            /\ e \in DOMAIN new => /\ e \in Posted' \ Posted
                                                   /\ ledger'[e] = new[e]
    BY LedgerNulls DEF Posted, Unused
  <1>2. x \in EntryIds /\ x \in T /\ x \notin S
    BY <1>1 DEF Unused, Posted
  <1>3. \A e \in EntryIds : e \in T <=> e \in S \/ e = x
    BY <1>1, <1>2 DEF Posted
  <1>4. S \subseteq EntryIds /\ T \subseteq EntryIds
    BY DEF Posted
  <1>5. T \ {x} = S
    BY <1>2, <1>3, <1>4
  <1>6. \A e \in S : ledger[e] = ledger'[e]
    BY <1>1, <1>4
  <1>7. IsFiniteSet(S) /\ IsFiniteSet(T)
    <2>1. S \in SUBSET EntryIds /\ T \in SUBSET EntryIds
      BY <1>4
    <2> HIDE DEF S, T
    <2> QED BY <2>1, LedgerFinite, FS_Subset
  <1>8. \A e \in T : Signed(ledger'[e]) \in Int
    <2>1. \A e \in T : ledger'[e] \in Entry
      BY <1>1, <1>3, <1>4 DEF TypeInv, TypeOK, LedgerTypeOK, Posted
    <2> QED BY <2>1 DEF Entry, Signed, PosNat
  <1>9. Balance(u) = SumOf(ledger, S) /\ Balance(u)' = SumOf(ledger', T)
    BY BalanceAsSum
  <1>10. Balance(u) \in Int /\ Signed(new[x]) \in Int /\ ledger'[x] = new[x]
    BY <1>1, <1>2, <1>8, BalanceIsInt
  <1> HIDE DEF S, T
  <1>11. SumOf(ledger', T) = Signed(ledger'[x]) + SumOf(ledger', T \ {x})
    BY <1>2, <1>7, <1>8, SumWithout
  <1>12. SumOf(ledger', S) = SumOf(ledger, S)
    BY <1>6, <1>7, SumSame
  <1>13. SumOf(ledger', T \ {x}) = SumOf(ledger, S)
    BY <1>5, <1>12
  <1> QED BY <1>9, <1>10, <1>11, <1>13

\* The commit of a payment takes what it settles off the balance, or adds it.
LEMMA PaymentMovesBalance ==
    ASSUME TypeInv, NEW s \in Settlers, CreateSettlementWithEntries(s),
           NEW u \in Units, settling[s].amounts[u] > 0
    PROVE  Balance(u)' = IF settling[s].op = "FINAL_COLLABORATOR_PAYMENT"
                           THEN Balance(u) + settling[s].amounts[u]
                           ELSE Balance(u) - settling[s].amounts[u]
  <1>a. PICK call \in SettlementCall, q \in RequestIds :
           call = settling[s] /\ q = call.request
    BY DEF TypeInv, TypeOK, SettlementsTypeOK, RequestsNamed, PaymentTypes,
           FinalTypes, CreateSettlementWithEntries
  <1>1. call.op \in PaymentTypes /\ PostSettlementEntries(call)
    BY <1>a DEF CreateSettlementWithEntries
  <1>2. PICK id \in [SettledUnits(call) -> Unused] :
           /\ \A v, w \in DOMAIN id : v # w => id[v] # id[w]
           /\ CreateEntries([e \in {id[v] : v \in DOMAIN id} |->
                  SettlementEntry(call, CHOOSE v \in DOMAIN id : id[v] = e)])
    BY <1>1 DEF PostSettlementEntries
  <1> DEFINE new == [e \in {id[v] : v \in DOMAIN id} |->
                       SettlementEntry(call, CHOOSE v \in DOMAIN id : id[v] = e)]
  <1>3. /\ DOMAIN new \subseteq Unused
        /\ \A e \in DOMAIN new : new[e] \in Entry
    BY <1>a, <1>2, SettlementEntriesType
  <1>4. \A v \in SettledUnits(call) :
           id[v] \in DOMAIN new /\ new[id[v]] = SettlementEntry(call, v)
    <2> TAKE v \in SettledUnits(call)
    <2>1. \A w \in DOMAIN id : id[w] = id[v] <=> w = v
      BY <1>2
    <2>2. (CHOOSE w \in DOMAIN id : id[w] = id[v]) = v
      BY <2>1
    <2> QED BY <2>2
  <1>5. \A e \in DOMAIN new : \E v \in SettledUnits(call) : e = id[v]
    OBVIOUS
  <1>6. ledger' = [e \in EntryIds |-> IF e \in DOMAIN new THEN new[e] ELSE ledger[e]]
    BY <1>2 DEF CreateEntries
  <1> HIDE DEF new
  <1>7. u \in SettledUnits(call)
    BY <1>a DEF SettledUnits
  <1>8. PICK x \in DOMAIN new : x = id[u]
    BY <1>4, <1>7
  <1>9. \A v \in SettledUnits(call) : new[id[v]].unit = v
    <2>1. \A v : SettlementEntry(call, v).unit = v
      BY DEF SettlementEntry
    <2> QED BY <1>4, <2>1
  <1>10. \A e \in DOMAIN new : new[e].unit = u <=> e = x
    BY <1>5, <1>7, <1>8, <1>9
  <1>11. Balance(u)' = Balance(u) + Signed(new[x])
    BY <1>3, <1>6, <1>8, <1>10, PostingMovesBalance
  <1>12. new[x] = SettlementEntry(call, u)
    BY <1>4, <1>7, <1>8
  <1>13. Signed(new[x]) = IF call.op = "FINAL_COLLABORATOR_PAYMENT" THEN call.amounts[u]
                                                                    ELSE -call.amounts[u]
    BY <1>12 DEF SettlementEntry, Signed
  <1>14. Balance(u) \in Int /\ call.amounts[u] \in Int
    BY BalanceIsInt DEF SettlementCall, Amounts
  <1> QED BY <1>a, <1>11, <1>13, <1>14

\* A payment that has read the balances and waits to commit.
Quoted(s) == settling[s].pc = "commit" /\ settling[s].op \in PaymentTypes

\* While a payment waits, nobody else writes entries.
Undisturbed == \A s \in Settlers : Quoted(s) /\ ledger' # ledger => CreateSettlementWithEntries(s)

\* What a payment waits to settle is still owed.
QuotesHold ==
    \A s \in Settlers, u \in Units : Quoted(s) /\ settling[s].amounts[u] > 0 =>
        IF settling[s].op = "FINAL_COLLABORATOR_PAYMENT"
          THEN Balance(u) <= -settling[s].amounts[u]
          ELSE Balance(u) >= settling[s].amounts[u]

\* Only previews and closures read accruals and receipts.
PreviewsOnly == \A s \in Settlers : settling[s].pc \in {"accruals", "receipts"} => Previews(s)

\* A call comes to wait for its commit by reading the balances, or as a closure.
LEMMA SettlerMoves ==
    ASSUME TypeInv, PreviewsOnly, [Next]_vars, NEW s \in Settlers
    PROVE  \/ settling'[s] = settling[s]
           \/ settling'[s].pc \notin {"commit", "accruals", "receipts"}
           \/ settling'[s].op = settling[s].op /\ Previews(s)
           \/ /\ ListBalances(s) /\ Payable(settling[s])
              /\ settling'[s].pc = "commit" /\ settling'[s].op = settling[s].op
              /\ settling'[s].amounts = PayableAmounts(settling[s])
  <1> DEFINE Moved == \/ settling'[s] = settling[s]
                      \/ settling'[s].pc \notin {"commit", "accruals", "receipts"}
                      \/ settling'[s].op = settling[s].op /\ Previews(s)
                      \/ /\ ListBalances(s) /\ Payable(settling[s])
                         /\ settling'[s].pc = "commit" /\ settling'[s].op = settling[s].op
                         /\ settling'[s].amounts = PayableAmounts(settling[s])
  <1>0. settling \in [Settlers -> SettlementCall]
    BY DEF TypeInv, TypeOK, SettlementsTypeOK
  <1>1. UNCHANGED settling => Moved
    OBVIOUS
  <1>2. ASSUME NEW x \in Settlers, NEW call, settling' = [settling EXCEPT ![x] = call],
               x = s => call.pc \notin {"commit", "accruals", "receipts"}
        PROVE  Moved
    BY <1>0, <1>2
  <1>3. ASSUME NEW x \in Settlers, Finish(x) PROVE Moved
    BY <1>2, <1>3 DEF Finish, IdleCall
  <1>4. ASSUME NEW x \in Settlers, NEW pc, Goto(x, pc),
               x = s => pc \notin {"commit", "accruals", "receipts"} \/ Previews(s)
        PROVE  Moved
    <2>1. /\ x # s => settling'[s] = settling[s]
          /\ x = s => settling'[s].pc = pc /\ settling'[s].op = settling[s].op
      BY <1>0, <1>4 DEF Goto, SettlementCall
    <2> QED BY <1>4, <2>1
  <1>5. ASSUME NEW x \in Settlers, Previews(x), NEW blocker, NEW present, NEW pc,
               Note(x, blocker, present, pc)
        PROVE  Moved
    <2>1. /\ x # s => settling'[s] = settling[s]
          /\ settling'[s].op = settling[s].op
      BY <1>0, <1>5 DEF Note, SettlementCall
    <2> QED BY <1>5, <2>1
  <1>6. ASSUME NEW x \in Settlers, RequestSettlement(x) PROVE Moved
    <2>1. PICK op \in SettlementOps, q \in RequestIds, approved \in Approvals,
               amounts \in PayoutAmounts \cup {ZeroAmounts} :
                  StartSettlement(x, op, q, amounts, approved)
      BY <1>6 DEF RequestSettlement
    <2> DEFINE call == [pc       |-> IF op \in FinalTypes THEN "journey" ELSE "lookup",
                        op       |-> op,
                        request  |-> q,
                        amounts  |-> amounts,
                        approved |-> approved,
                        blockers |-> {}]
    <2>2. settling' = [settling EXCEPT ![x] = call]
      BY <2>1 DEF StartSettlement
    <2>3. call.pc \notin {"commit", "accruals", "receipts"}
      OBVIOUS
    <2> HIDE DEF call, Moved
    <2> QED BY <1>2, <2>2, <2>3
  <1>7. ASSUME NEW x \in Settlers, ListBalances(x) PROVE Moved
    <2>1. CASE Payable(settling[x])
      <3>1. settling' = [settling EXCEPT ![x].pc = "commit",
                                         ![x].amounts = PayableAmounts(settling[x])]
        BY <1>7, <2>1 DEF ListBalances
      <3>2. /\ x # s => settling'[s] = settling[s]
            /\ x = s => /\ settling'[s].pc = "commit" /\ settling'[s].op = settling[s].op
                        /\ settling'[s].amounts = PayableAmounts(settling[s])
        BY <1>0, <3>1 DEF SettlementCall
      <3> QED BY <1>7, <2>1, <3>2
    <2>2. CASE ~Payable(settling[x])
      BY <1>3, <1>7, <2>2 DEF ListBalances
    <2> QED BY <2>1, <2>2
  <1>8. ASSUME NEW x \in Settlers,
               \/ StartPreview(x) \/ AbortSettlement(x) \/ ReplaySettlement(x)
               \/ NoSettlementYet(x) \/ CheckJourneyOpen(x)
               \/ CreateSettlementWithEntries(x) \/ DuplicateRequest(x)
               \/ CloseJourneyWithAudit(x) \/ JourneyCloseRefused(x)
        PROVE  Moved
    <2> HIDE DEF Moved
    <2> QED BY <1>3, <1>4, <1>8
    DEF StartPreview, AbortSettlement, ReplaySettlement, NoSettlementYet,
        CheckJourneyOpen, CreateSettlementWithEntries, DuplicateRequest,
        CloseJourneyWithAudit, JourneyCloseRefused
  <1>9. ASSUME NEW x \in Settlers,
               \/ PreviewJourney(x) \/ PreviewBalances(x) \/ PreviewAccruals(x)
               \/ PreviewReceipts(x)
        PROVE  Moved
    <2>1. At(x, "accruals") \/ At(x, "receipts") => Previews(x)
      BY DEF PreviewsOnly, At
    <2> HIDE DEF Moved
    <2> QED BY <1>3, <1>4, <1>5, <1>9, <2>1
            DEF PreviewJourney, PreviewBalances, PreviewAccruals, PreviewReceipts
  <1>10. ASSUME ~UNCHANGED settling
         PROVE  \E x \in Settlers : \/ RequestSettlement(x) \/ RequestPreview(x)
                                    \/ SettlementProgress(x) \/ SettlementAborted(x)
    BY <1>10 DEF Next, vars, settlementVars, RequestCorrection, CorrectionProgress,
                 CorrectionAborted, RequestReceiptCall, ReceiptProgress,
                 ReceiptCallAborted, PostOrdinaryEntry, CancelExpense,
                 RecalculateAccruals, UpdatePolicy
  <1>11. ASSUME NEW x \in Settlers,
               RequestPreview(x) \/ SettlementProgress(x) \/ SettlementAborted(x)
        PROVE  Moved
    <2> HIDE DEF Moved
    <2> QED BY <1>7, <1>8, <1>9, <1>11
            DEF RequestPreview, SettlementProgress, SettlementAborted, SettlementStep
  <1> HIDE DEF Moved
  <1>12. Moved
    BY <1>1, <1>6, <1>10, <1>11
  <1> QED BY <1>12 DEF Moved

LEMMA PreviewsOnlyNext ==
    ASSUME TypeInv, PreviewsOnly, [Next]_vars
    PROVE  PreviewsOnly'
  <1> SUFFICES ASSUME NEW s \in Settlers, settling'[s].pc \in {"accruals", "receipts"}
               PROVE  settling'[s].op \in {"PREVIEW", "CLOSE_JOURNEY"}
    BY DEF PreviewsOnly, Previews
  <1>1. \/ settling'[s] = settling[s]
        \/ settling'[s].op = settling[s].op /\ Previews(s)
    BY SettlerMoves
  <1> QED BY <1>1 DEF PreviewsOnly, Previews

\* What a payment quotes is owed when it reads the balances.
LEMMA QuoteIsOwed ==
    ASSUME TypeInv, NEW s \in Settlers, NEW u \in Units,
           settling[s].op \in PaymentTypes, Payable(settling[s]),
           PayableAmounts(settling[s])[u] > 0
    PROVE  IF settling[s].op = "FINAL_COLLABORATOR_PAYMENT"
             THEN Balance(u) <= -PayableAmounts(settling[s])[u]
             ELSE Balance(u) >= PayableAmounts(settling[s])[u]
  <1>1. Balance(u) \in Int
    BY BalanceIsInt
  <1>2. PICK call : call = settling[s]
    OBVIOUS
  <1>3. CASE call.op = "ZERO_GOLD"
    <2>1. PayableAmounts(call)[u] = IF u = Gold /\ Balance(u) \in PosNat THEN Balance(u) ELSE 0
      BY <1>3 DEF PayableAmounts
    <2> QED BY <1>1, <1>2, <1>3, <2>1
  <1>4. CASE call.op = "PAYOUT"
    <2>1. PayableAmounts(call) = call.amounts
      BY <1>4 DEF PayableAmounts
    <2>2. call.amounts[u] <= Balance(u) /\ call.amounts[u] \in Int
      BY <1>2, <1>4 DEF Payable, TypeInv, TypeOK, SettlementsTypeOK, SettlementCall, Amounts
    <2> QED BY <1>1, <1>2, <1>4, <2>1, <2>2
  <1>5. CASE call.op = "FINAL_TENANT_PAYMENT"
    <2>1. PayableAmounts(call)[u] = IF Balance(u) \in PosNat THEN Balance(u) ELSE 0
      BY <1>5 DEF PayableAmounts
    <2> QED BY <1>1, <1>2, <1>5, <2>1
  <1>6. CASE call.op = "FINAL_COLLABORATOR_PAYMENT"
    <2>1. PayableAmounts(call)[u] = IF -Balance(u) \in PosNat THEN -Balance(u) ELSE 0
      BY <1>6 DEF PayableAmounts
    <2> QED BY <1>1, <1>2, <1>6, <2>1
  <1> QED BY <1>2, <1>3, <1>4, <1>5, <1>6 DEF PaymentTypes, FinalTypes

LEMMA QuotesHoldNext ==
    ASSUME TypeInv, PreviewsOnly, QuotesHold, [Next]_vars, [Undisturbed]_vars
    PROVE  QuotesHold'
  <1>0. settling \in [Settlers -> SettlementCall]
    BY DEF TypeInv, TypeOK, SettlementsTypeOK
  <1>1. CASE ledger' # ledger
    <2>1. Undisturbed
      BY <1>1 DEF vars
    <2>2. ASSUME NEW x \in Settlers, CreateSettlementWithEntries(x), NEW s \in Settlers
          PROVE  ~Quoted(s)'
      <3>1. settling' = [settling EXCEPT ![x] = IdleCall]
        BY <2>2 DEF CreateSettlementWithEntries, Finish
      <3>2. CASE s = x
        BY <1>0, <3>1, <3>2 DEF Quoted, IdleCall
      <3>3. CASE s # x
        <4>1. settling'[s] = settling[s] /\ settling'[x].pc = "idle"
          BY <1>0, <3>1, <3>3 DEF IdleCall
        <4>2. ASSUME Quoted(s) PROVE FALSE
          <5>1. CreateSettlementWithEntries(s)
            BY <1>1, <2>1, <4>2 DEF Undisturbed
          <5>2. settling' = [settling EXCEPT ![s] = IdleCall]
            BY <5>1 DEF CreateSettlementWithEntries, Finish
          <5>3. settling'[s].pc = "idle"
            BY <1>0, <5>2 DEF IdleCall
          <5> QED BY <4>1, <4>2, <5>3 DEF Quoted
        <4> QED BY <4>1, <4>2 DEF Quoted
      <3> QED BY <3>2, <3>3
    <2>3. ASSUME UNCHANGED settling, NEW s \in Settlers PROVE ~Quoted(s)'
      <3>1. ASSUME Quoted(s) PROVE FALSE
        <4>1. CreateSettlementWithEntries(s)
          BY <1>1, <2>1, <3>1 DEF Undisturbed
        <4>2. settling' = [settling EXCEPT ![s] = IdleCall]
          BY <4>1 DEF CreateSettlementWithEntries, Finish
        <4>3. settling'[s].pc = "idle"
          BY <1>0, <4>2 DEF IdleCall
        <4> QED BY <2>3, <3>1, <4>3 DEF Quoted
      <3> QED BY <2>3, <3>1 DEF Quoted
    <2>4. UNCHANGED settling \/ \E x \in Settlers : CreateSettlementWithEntries(x)
      BY <1>1, EntryWriters DEF settlementVars, PostOrdinaryEntry, CancelExpense
    <2> QED BY <2>2, <2>3, <2>4 DEF QuotesHold
  <1>2. CASE ledger' = ledger
    <2>1. \A u : Balance(u)' = Balance(u)
      BY <1>2, BalanceAsSum DEF Posted
    <2> SUFFICES ASSUME NEW s \in Settlers, NEW u \in Units, Quoted(s)',
                        settling'[s].amounts[u] > 0
                 PROVE  IF settling'[s].op = "FINAL_COLLABORATOR_PAYMENT"
                          THEN Balance(u) <= -settling'[s].amounts[u]
                          ELSE Balance(u) >= settling'[s].amounts[u]
      BY <2>1 DEF QuotesHold
    <2>2. settling'[s].pc = "commit" /\ settling'[s].op \in PaymentTypes
      BY DEF Quoted
    <2>3. \/ settling'[s] = settling[s]
          \/ settling'[s].op = settling[s].op /\ Previews(s)
          \/ /\ ListBalances(s) /\ Payable(settling[s])
             /\ settling'[s].op = settling[s].op
             /\ settling'[s].amounts = PayableAmounts(settling[s])
      BY <2>2, SettlerMoves
    <2>4. CASE settling'[s] = settling[s]
      BY <2>2, <2>4 DEF QuotesHold, Quoted
    <2>5. CASE settling'[s].op = settling[s].op /\ Previews(s)
      BY <2>2, <2>5 DEF Previews, PaymentTypes, FinalTypes
    <2>6. CASE /\ Payable(settling[s]) /\ settling'[s].op = settling[s].op
               /\ settling'[s].amounts = PayableAmounts(settling[s])
      BY <2>2, <2>6, QuoteIsOwed
    <2> QED BY <2>3, <2>4, <2>5, <2>6
  <1> QED BY <1>1, <1>2

\* Where a payment can overdraw the account: only between its reading of the
\* balances and its commit.  If nobody else writes entries while a payment
\* waits to commit, no payment takes a balance past zero, whatever the calls do
\* otherwise.
THEOREM PaidWithinBalance ==
    Spec /\ [][Undisturbed]_vars => SettlementNeverCrossesZero
  <1> DEFINE Inv == TypeInv /\ PostedOnce /\ PreviewsOnly /\ QuotesHold
  <1>1. Init => PreviewsOnly /\ QuotesHold
    BY DEF Init, SettlementsInit, PreviewsOnly, QuotesHold, Quoted, IdleCall
  <1>2. Inv /\ [Next]_vars /\ [Undisturbed]_vars => Inv'
    BY TypeNext, PostedOnceNext, PreviewsOnlyNext, QuotesHoldNext
  <1>3. ASSUME Inv, [Next]_vars PROVE PaysWithinBalance
    <2> SUFFICES ASSUME NEW q \in RequestIds, NEW u \in Units,
                        settlements[q] = NoSettlement, settlements'[q] # NoSettlement,
                        settlements'[q].amounts[u] > 0
                 PROVE  IF settlements'[q].type = "FINAL_COLLABORATOR_PAYMENT"
                          THEN Balance(u)' <= 0 ELSE Balance(u)' >= 0
      BY DEF PaysWithinBalance
    <2>0. settlements \in [RequestIds -> Settlement \cup {NoSettlement}]
      BY <1>3 DEF TypeInv, TypeOK, SettlementsTypeOK
    <2>1. PICK s \in Settlers : CreateSettlementWithEntries(s) \/ CloseJourneyWithAudit(s)
      BY <1>3, SettlementWriters
    <2>2. RecordSettlement(settling[s])
      BY <2>1 DEF CreateSettlementWithEntries, CloseJourneyWithAudit
    <2>3. /\ settlements'[q].type = settling[s].op
          /\ settlements'[q].amounts = settling[s].amounts
      BY <2>0, <2>2 DEF RecordSettlement
    <2>4. CreateSettlementWithEntries(s)
      <3>1. CASE CloseJourneyWithAudit(s)
        <4>1. settling[s].amounts = ZeroAmounts
          BY <1>3, <3>1 DEF PostedOnce, ClosuresPayNothing, CloseJourneyWithAudit
        <4> QED BY <2>3, <4>1 DEF ZeroAmounts
      <3> QED BY <2>1, <3>1
    <2>5. /\ Quoted(s) /\ settling[s].amounts[u] > 0
      BY <2>3, <2>4 DEF CreateSettlementWithEntries, Quoted, At
    <2>6. IF settling[s].op = "FINAL_COLLABORATOR_PAYMENT"
            THEN Balance(u) <= -settling[s].amounts[u] ELSE Balance(u) >= settling[s].amounts[u]
      BY <1>3, <2>5 DEF QuotesHold
    <2>7. Balance(u) \in Int /\ settling[s].amounts[u] \in Int
      BY <1>3, BalanceIsInt DEF TypeInv, TypeOK, SettlementsTypeOK, SettlementCall, Amounts
    <2>8. Balance(u)' = IF settling[s].op = "FINAL_COLLABORATOR_PAYMENT"
                          THEN Balance(u) + settling[s].amounts[u]
                          ELSE Balance(u) - settling[s].amounts[u]
      BY <1>3, <2>4, <2>5, PaymentMovesBalance
    <2> QED BY <2>3, <2>6, <2>7, <2>8
  <1>4. Init => PostedOnce
    BY PostedOnceInit
  <1> QED BY <1>1, <1>2, <1>3, <1>4, TypeInit, PTL DEF Spec, SettlementNeverCrossesZero
=============================================================================
