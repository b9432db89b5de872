---------------------------- MODULE AccrualProofs ----------------------------
(***************************************************************************)
(* Posted items stay, their money is in the ledger, an assignment is paid  *)
(* once in each unit, and a stand-in for time off gets the split and no day of its own, *)
(* for any number of assignments, runs, calls and edits.                   *)
(***************************************************************************)
EXTENDS Accruals, TLAPS

LEMMA ProductIsNat == ASSUME NEW m \in Nat, NEW n \in Nat PROVE m * n \in Nat
  OBVIOUS

LEMMA ShareIsNat == ASSUME NEW m \in Nat PROVE m \div 100 \in Nat
  OBVIOUS

LEMMA ShareOfWhole ==
    ASSUME NEW m \in Nat, NEW p \in 0..100
    PROVE  (m * p) \div 100 \in 0..m
  <1>1. m * p \in Nat /\ m * (100 - p) \in Nat
    BY ProductIsNat
  <1>2. m * p + m * (100 - p) = m * 100
    OBVIOUS
  <1>3. m * p <= m * 100
    BY <1>1, <1>2
  <1> QED BY <1>1, <1>3

LEMMA AmountsAreNat ==
    ASSUME NEW call \in AccrualCall, NEW x \in Assignments, gold \in GoldAmounts \cup {0}
    PROVE  /\ call.terms[x].rate \in Nat /\ call.terms[x].kind \in PaymentKinds
           /\ Commission(call, x) \in Nat /\ SplitShare(call, x) \in Nat
           /\ Commission(call, x) - SplitShare(call, x) \in Nat
  <1>1. /\ gold \in Nat /\ call.terms[x].split \in 0..100
        /\ call.terms[x].rate \in Nat /\ call.terms[x].kind \in PaymentKinds
    BY AccrualConstants DEF AccrualCall, Terms
  <1>2. Commission(call, x) \in Nat
    BY <1>1, ProductIsNat, ShareIsNat DEF Commission
  <1>3. SplitShare(call, x) \in 0..Commission(call, x)
    BY <1>1, <1>2, ShareOfWhole DEF SplitShare
  <1> QED BY <1>1, <1>2, <1>3

\* A calculated item that may be posted is an earning or a transfer.
PayableItem(i) ==
    i \in Item /\ (i.status \in {"READY", "POSTED"} => i.kind \in EarningKinds \cup TransferKinds)

\* What a call carries is not posted yet.
FoundItem(i) == PayableItem(i) /\ i.status # "POSTED"

LEMMA CalculatedItems ==
    ASSUME NEW call \in AccrualCall, call.run \in Runs, call.calc \in Calculations,
           NEW x \in Assignments, NEW y \in Assignments \cup {NoAssignment},
           gold \in GoldAmounts \cup {0}
    PROVE  /\ \A i \in OutcomeItems(call, x, y) : FoundItem(i)
           /\ \A i \in SickDayItems(call, x, y) : FoundItem(i)
  <1>1. ASSUME NEW z \in Assignments, NEW kind \in Kinds
        PROVE  FoundItem(Pending(call, z, kind))
    BY <1>1 DEF FoundItem, PayableItem, Pending, ItemOf, Item, AccrualCall, Row
  <1>2. ASSUME NEW z \in Assignments, NEW kind \in EarningKinds \cup TransferKinds,
               NEW direction \in {"CREDIT", "DEBIT"}, NEW amount \in Nat
        PROVE  FoundItem(Ready(call, z, kind, direction, amount))
    BY <1>2 DEF FoundItem, PayableItem, Ready, ItemOf, Item, AccrualCall, Row, Kinds
  <1>3. ASSUME call.rows[x].outcome # "NONE"
        PROVE  FoundItem(Skipped(call, x))
    <2>1. call.rows[x].outcome \in Kinds
      BY <1>3 DEF AccrualCall, Row, Kinds
    <2> QED BY <2>1 DEF FoundItem, PayableItem, Skipped, ItemOf, Item, AccrualCall, Row
  <1>4. /\ call.terms[x].grams \in Nat
        /\ call.terms[x].rate \in Nat /\ call.terms[x].kind \in PaymentKinds
        /\ Commission(call, x) \in Nat /\ SplitShare(call, x) \in Nat
        /\ Commission(call, x) - SplitShare(call, x) \in Nat
    BY AmountsAreNat DEF AccrualCall, Terms
  <1>5. /\ "ACTUAL_OUTCOME" \in Kinds /\ PaymentKinds \subseteq Kinds \cap EarningKinds
        /\ "TIME_OFF_REPLACEMENT" \in Kinds /\ "SICK_DAY_OFF_REPLACEMENT" \in Kinds
        /\ "TIME_OFF_GOLD_COMMISSION_RETAINED" \in Kinds \cap EarningKinds
        /\ "TIME_OFF_REPLACEMENT_GOLD_CREDIT" \in Kinds \cap TransferKinds
        /\ "SICK_DAY_OFF_REPLACEMENT_GOLD_DEBIT" \in Kinds \cap TransferKinds
        /\ "SICK_DAY_OFF_REPLACEMENT_GOLD_CREDIT" \in Kinds \cap TransferKinds
    BY DEF Kinds, EarningKinds, TransferKinds
  <1>6. FoundItem(PaymentItem(call, x))
    BY <1>1, <1>2, <1>4, <1>5 DEF PaymentItem
  <1>7. ASSUME call.rows[x].outcome # "NONE", NEW i \in TimeOffItems(call, x, y)
        PROVE  FoundItem(i)
    BY <1>7, <1>1, <1>2, <1>3, <1>4, <1>5 DEF TimeOffItems
  <1>8. ASSUME NEW i \in SickDayItems(call, x, y)
        PROVE  FoundItem(i)
    BY <1>8, <1>1, <1>2, <1>4, <1>5 DEF SickDayItems
  <1> QED BY <1>1, <1>3, <1>5, <1>6, <1>7, <1>8 DEF OutcomeItems

-----------------------------------------------------------------------------
Calculating(a) == accruing[a].pc \in {"run", "rows", "terms", "keys", "calculate"}

\* A call in flight is about a run, and a calculation has its identifier.
CallsAimed ==
    \A a \in Accruers : /\ accruing[a].pc # "idle" => accruing[a].run \in Runs
                        /\ Calculating(a) => accruing[a].calc \in Calculations

Posts(call) == call.pc \in {"pending", "commit"}

\* A call that posts carries ready items.
ItemsPayable ==
    /\ \A i \in items : PayableItem(i)
    /\ \A a \in Accruers : \A i \in accruing[a].found :
          FoundItem(i) /\ (Posts(accruing[a]) => i.status = "READY")

\* Transfers are entered under their item, earnings under their assignment.
EntriesSourced ==
    \A e \in entries : IF e.kind \in TransferKinds
                         THEN e.item \in Calculations
                         ELSE e.item = NoCalculation /\ IsEarning(e)

AccrualInv == AccrualTypeOK /\ CallsAimed /\ ItemsPayable /\ EntriesSourced

\* The accrual calls a step leaves alone keep their facts; the one it moves has
\* the new ones.
LEMMA CallMoves ==
    ASSUME AccrualInv, NEW a \in Accruers, NEW call \in AccrualCall,
           call.pc # "idle" => call.run \in Runs,
           call.pc \in {"run", "rows", "terms", "keys", "calculate"} => call.calc \in Calculations,
           \A i \in call.found : FoundItem(i) /\ (Posts(call) => i.status = "READY"),
           accruing' = [accruing EXCEPT ![a] = call],
           RecordsUnchanged
    PROVE  AccrualInv'
  <1>1. AccrualTypeOK'
    BY DEF AccrualInv, AccrualTypeOK, RecordsUnchanged
  <1>2. CallsAimed'
    BY DEF AccrualInv, AccrualTypeOK, CallsAimed, Calculating
  <1>3. ItemsPayable' /\ EntriesSourced'
    BY DEF AccrualInv, AccrualTypeOK, ItemsPayable, EntriesSourced, FoundItem, PayableItem, RecordsUnchanged
  <1> QED BY <1>1, <1>2, <1>3 DEF AccrualInv

LEMMA IdleAccruerTyped == IdleAccruer \in AccrualCall
  BY DEF IdleAccruer, AccrualCall, NoRows, Excluded, Row, NoTermsRead, NoTerms, Terms,
         PaymentKinds

LEMMA IdlePlannerTyped == IdlePlanner \in PlanningCall /\ DonePlanner \in PlanningCall
  BY DEF IdlePlanner, DonePlanner, PlanningCall, Excluded, Row

LEMMA AccrualInitial == AccrualsInit => AccrualInv /\ PostedItemsPaid
  BY IdleAccruerTyped, IdlePlannerTyped
  DEF AccrualsInit, AccrualInv, AccrualTypeOK, CallsAimed, Calculating, ItemsPayable,
      EntriesSourced, PostedItemsPaid, RunStatuses, IdleAccruer

\* A call that ends leaves nothing to show.
LEMMA AnswerKeepsInv ==
    ASSUME AccrualInv, NEW a \in Accruers, AnswerAccruer(a), RecordsUnchanged
    PROVE  AccrualInv'
  BY CallMoves, IdleAccruerTyped DEF AnswerAccruer, IdleAccruer

\* The steps that only read.
LEMMA CalculationReads ==
    ASSUME AccrualInv, NEW a \in Accruers,
           \/ FindCreatedRun(a) \/ ListAssignmentsForCalculation(a) \/ PreloadTerms(a)
           \/ PostedItemKeys(a)
           \/ \E x \in Assignments : CalculateAssignment(a, x)
           \/ CalculateSickTransfer(a)
    PROVE  AccrualInv'
  <1>a. /\ accruing[a] \in AccrualCall /\ accruing \in [Accruers -> AccrualCall]
        /\ \A i \in accruing[a].found : FoundItem(i)
        /\ Calculating(a) => accruing[a].run \in Runs /\ accruing[a].calc \in Calculations
        /\ gold \in GoldAmounts \cup {0} /\ plan \in [Assignments -> Row] /\ items \subseteq Item
        /\ terms \in [Collaborators -> TermsOffered]
    BY DEF AccrualInv, AccrualTypeOK, ItemsPayable, CallsAimed, Calculating
  <1>1. CASE FindCreatedRun(a)
    <2>1. CASE AnswerAccruer(a)
      BY <1>1, <2>1, AnswerKeepsInv DEF FindCreatedRun
    <2>2. CASE accruing' = [accruing EXCEPT ![a].pc = "rows"]
      <3> DEFINE call == [accruing[a] EXCEPT !.pc = "rows"]
      <3>1. /\ call \in AccrualCall /\ ~Posts(call)
            /\ call.run \in Runs /\ call.calc \in Calculations
            /\ call.found = accruing[a].found
        BY <1>a, <1>1 DEF FindCreatedRun, AccrualCall, Calculating, Posts
      <3>2. accruing' = [accruing EXCEPT ![a] = call]
        BY <2>2
      <3> QED BY <1>a, <1>1, <3>1, <3>2, CallMoves DEF FindCreatedRun
    <2> QED BY <1>1, <2>1, <2>2 DEF FindCreatedRun
  <1>2. CASE ListAssignmentsForCalculation(a)
    <2> DEFINE included == {x \in Assignments : plan[x].status = "INCLUDED"}
               call == [accruing[a] EXCEPT
                          !.pc = "terms", !.todo = included,
                          !.rows = [x \in Assignments |->
                                      IF x \in included THEN plan[x] ELSE Excluded]]
    <2>1. /\ call \in AccrualCall /\ ~Posts(call)
          /\ call.run \in Runs /\ call.calc \in Calculations
          /\ call.found = accruing[a].found
      BY <1>a, <1>2 DEF ListAssignmentsForCalculation, AccrualCall, Posts, Calculating, Row, Excluded
    <2>2. accruing' = [accruing EXCEPT ![a] = call]
      BY <1>2 DEF ListAssignmentsForCalculation
    <2> QED BY <1>a, <1>2, <2>1, <2>2, CallMoves DEF ListAssignmentsForCalculation
  <1>3. CASE PostedItemKeys(a)
    <2> DEFINE keys == {KeyOf(i) : i \in {j \in items : j.status = "POSTED"}}
               call == [accruing[a] EXCEPT !.pc = "calculate", !.keys = keys]
    <2>1. keys \subseteq Key
      BY <1>a DEF KeyOf, Key, Item
    <2>2. /\ call \in AccrualCall /\ ~Posts(call)
          /\ call.run \in Runs /\ call.calc \in Calculations
          /\ call.found = accruing[a].found
      BY <1>a, <1>3, <2>1 DEF PostedItemKeys, AccrualCall, Calculating, Posts
    <2>3. accruing' = [accruing EXCEPT ![a] = call]
      BY <1>3 DEF PostedItemKeys
    <2> QED BY <1>a, <1>3, <2>2, <2>3, CallMoves DEF PostedItemKeys
  <1>4. ASSUME NEW x \in Assignments, CalculateAssignment(a, x)
        PROVE  AccrualInv'
    <2>1. PICK y \in FirstReplacement(accruing[a].rows, x) :
             accruing' = [accruing EXCEPT
                 ![a].todo  = @ \ {x},
                 ![a].sick  = IF HasSickTransfer(accruing[a], x) THEN x ELSE NoAssignment,
                 ![a].found = @ \cup NotPosted(accruing[a], OutcomeItems(accruing[a], x, y))]
      BY <1>4 DEF CalculateAssignment
    <2> DEFINE new  == NotPosted(accruing[a], OutcomeItems(accruing[a], x, y))
               sick == IF HasSickTransfer(accruing[a], x) THEN x ELSE NoAssignment
               call == [accruing[a] EXCEPT !.todo = @ \ {x}, !.sick = sick,
                                           !.found = @ \cup new]
    <2>2. y \in Assignments \cup {NoAssignment}
      BY <2>1 DEF FirstReplacement, ReplacementsOf
    <2>3. accruing[a].run \in Runs /\ accruing[a].calc \in Calculations
      BY <1>a, <1>4 DEF CalculateAssignment, Calculating
    <2>4. \A i \in new : FoundItem(i)
      BY <1>a, <2>2, <2>3, CalculatedItems DEF NotPosted
    <2>5. sick \in Assignments \cup {NoAssignment}
      OBVIOUS
    <2>6. /\ call \in AccrualCall /\ ~Posts(call)
          /\ call.run \in Runs /\ call.calc \in Calculations
          /\ call.found = accruing[a].found \cup new
      <3> HIDE DEF new, sick
      <3> QED BY <1>a, <1>4, <2>3, <2>4, <2>5 DEF CalculateAssignment, Posts, AccrualCall, FoundItem, PayableItem
    <2>7. accruing' = [accruing EXCEPT ![a] = call]
      BY <2>1
    <2>8. \A i \in call.found : FoundItem(i)
      BY <1>a, <2>4, <2>6
    <2> QED
      <3> HIDE DEF call
      <3> QED BY <1>4, <2>6, <2>7, <2>8, CallMoves DEF CalculateAssignment
  <1>5. CASE CalculateSickTransfer(a)
    <2>1. PICK y \in FirstReplacement(accruing[a].rows, accruing[a].sick) :
             accruing' = [accruing EXCEPT
                 ![a].sick  = NoAssignment,
                 ![a].found = @ \cup NotPosted(accruing[a],
                                        SickDayItems(accruing[a], accruing[a].sick, y))]
      BY <1>5 DEF CalculateSickTransfer
    <2> DEFINE new  == NotPosted(accruing[a], SickDayItems(accruing[a], accruing[a].sick, y))
               call == [accruing[a] EXCEPT !.sick = NoAssignment, !.found = @ \cup new]
    <2>2. y \in Assignments \cup {NoAssignment} /\ accruing[a].sick \in Assignments
      BY <1>a, <1>5, <2>1 DEF FirstReplacement, ReplacementsOf, CalculateSickTransfer, AccrualCall
    <2>3. accruing[a].run \in Runs /\ accruing[a].calc \in Calculations
      BY <1>a, <1>5 DEF CalculateSickTransfer, Calculating
    <2>4. \A i \in new : FoundItem(i)
      BY <1>a, <2>2, <2>3, CalculatedItems DEF NotPosted
    <2>5. /\ call \in AccrualCall /\ ~Posts(call)
          /\ call.run \in Runs /\ call.calc \in Calculations
          /\ call.found = accruing[a].found \cup new
      <3> HIDE DEF new
      <3> QED BY <1>a, <1>5, <2>3, <2>4 DEF CalculateSickTransfer, Posts, AccrualCall, FoundItem, PayableItem
    <2>6. accruing' = [accruing EXCEPT ![a] = call]
      BY <2>1
    <2>7. \A i \in call.found : FoundItem(i)
      BY <1>a, <2>4, <2>5
    <2> QED
      <3> HIDE DEF call
      <3> QED BY <1>5, <2>5, <2>6, <2>7, CallMoves DEF CalculateSickTransfer
  <1>6. CASE PreloadTerms(a)
    <2> DEFINE read == [x \in Assignments |->
                          IF accruing[a].rows[x].holder \in Collaborators
                            THEN terms[accruing[a].rows[x].holder] ELSE NoTerms]
               call == [accruing[a] EXCEPT !.pc = "keys", !.terms = read]
    <2>1. read \in [Assignments -> Terms]
      BY <1>a, AccrualConstants DEF NoTerms, Terms, PaymentKinds
    <2>2. accruing' = [accruing EXCEPT ![a] = call]
      BY <1>6 DEF PreloadTerms
    <2> HIDE DEF read
    <2>3. /\ call \in AccrualCall /\ ~Posts(call)
          /\ call.run \in Runs /\ call.calc \in Calculations
          /\ call.found = accruing[a].found
      BY <1>a, <1>6, <2>1 DEF PreloadTerms, AccrualCall, Calculating, Posts
    <2> QED BY <1>a, <1>6, <2>2, <2>3, CallMoves DEF PreloadTerms
  <1> QED BY <1>1, <1>2, <1>3, <1>4, <1>5, <1>6

\* The requests, and the reads of PostRun.
LEMMA RequestsKeepInv ==
    ASSUME AccrualInv, NEW a \in Accruers, AccrualRequest(a)
    PROVE  AccrualInv'
  <1>1. PICK r \in Runs : \/ \E c \in Calculations : CreateRun(a, r, c) \/ StartRecalculate(a, r, c)
                          \/ StartPost(a, r)
    BY DEF AccrualRequest
  <1>2. ASSUME NEW c \in Calculations, CreateRun(a, r, c)
        PROVE  AccrualInv'
    <2> DEFINE call == [IdleAccruer EXCEPT !.pc = "run", !.run = r, !.calc = c]
    <2>1. call \in AccrualCall /\ call.pc = "run" /\ call.run = r /\ call.calc = c /\ call.found = {}
      BY IdleAccruerTyped DEF IdleAccruer, AccrualCall
    <2>2. /\ accruing' = [accruing EXCEPT ![a] = call]
          /\ runs' = [runs EXCEPT ![r] = "DRAFT"]
          /\ UNCHANGED <<plan, terms, gold, period, items, entries, planning>>
      BY <1>2 DEF CreateRun
    <2> HIDE DEF call
    <2>3. AccrualTypeOK'
      BY <2>1, <2>2 DEF AccrualInv, AccrualTypeOK, RunStatuses
    <2>4. CallsAimed'
      BY <2>1, <2>2 DEF AccrualInv, AccrualTypeOK, CallsAimed, Calculating
    <2>5. ItemsPayable' /\ EntriesSourced'
      BY <2>1, <2>2 DEF AccrualInv, AccrualTypeOK, ItemsPayable, FoundItem, PayableItem, Posts,
                        EntriesSourced, IsEarning
    <2> QED BY <2>3, <2>4, <2>5 DEF AccrualInv
  <1>3. ASSUME NEW c \in Calculations, StartRecalculate(a, r, c)
        PROVE  AccrualInv'
    <2> DEFINE call == [IdleAccruer EXCEPT !.pc = "rows", !.run = r, !.calc = c]
    <2>1. call \in AccrualCall /\ call.run = r /\ call.calc = c /\ call.found = {}
      BY IdleAccruerTyped DEF IdleAccruer, AccrualCall
    <2>2. accruing' = [accruing EXCEPT ![a] = call] /\ RecordsUnchanged
      BY <1>3 DEF StartRecalculate
    <2> HIDE DEF call
    <2> QED BY <2>1, <2>2, CallMoves
  <1>4. ASSUME StartPost(a, r)
        PROVE  AccrualInv'
    <2> DEFINE call == [IdleAccruer EXCEPT !.pc = "ready", !.run = r]
    <2>1. call \in AccrualCall /\ call.pc = "ready" /\ call.run = r /\ call.found = {}
      BY IdleAccruerTyped DEF IdleAccruer, AccrualCall
    <2>2. accruing' = [accruing EXCEPT ![a] = call] /\ RecordsUnchanged
      BY <1>4 DEF StartPost
    <2> HIDE DEF call
    <2> QED BY <2>1, <2>2, CallMoves
  <1> QED BY <1>1, <1>2, <1>3, <1>4

LEMMA PostingReads ==
    ASSUME AccrualInv, NEW a \in Accruers, ListReadyItems(a) \/ PendingItemCount(a)
    PROVE  AccrualInv'
  <1>a. /\ accruing[a] \in AccrualCall /\ accruing[a].run \in Runs
        /\ \A i \in accruing[a].found : FoundItem(i) /\ (Posts(accruing[a]) => i.status = "READY")
        /\ items \subseteq Item /\ \A i \in items : PayableItem(i)
    BY DEF AccrualInv, AccrualTypeOK, ItemsPayable, CallsAimed, ListReadyItems, PendingItemCount
  <1>1. CASE ListReadyItems(a)
    <2> DEFINE ready == {i \in items : i.run = accruing[a].run /\ i.status = "READY"}
               call  == [accruing[a] EXCEPT !.pc = "pending", !.found = ready]
    <2>1. CASE AnswerAccruer(a)
      BY <1>1, <2>1, AnswerKeepsInv DEF ListReadyItems
    <2>2. CASE accruing' = [accruing EXCEPT ![a] = call]
      <3>1. /\ call \in AccrualCall /\ call.pc = "pending" /\ call.run \in Runs
            /\ \A i \in call.found : FoundItem(i) /\ i.status = "READY"
        BY <1>a DEF AccrualCall, FoundItem
      <3> HIDE DEF call
      <3> QED BY <1>1, <2>2, <3>1, CallMoves DEF ListReadyItems
    <2> QED BY <1>1, <2>1, <2>2 DEF ListReadyItems
  <1>2. CASE PendingItemCount(a)
    <2> DEFINE left == \E i \in items : i.run = accruing[a].run /\ i.status = "PENDING"
               call == [accruing[a] EXCEPT !.pc = "commit", !.pending = left]
    <2>1. accruing' = [accruing EXCEPT ![a] = call] /\ RecordsUnchanged
      BY <1>2 DEF PendingItemCount
    <2>2. left \in BOOLEAN
      OBVIOUS
    <2>3. /\ call \in AccrualCall /\ call.pc = "commit" /\ call.run \in Runs
          /\ \A i \in call.found : FoundItem(i) /\ i.status = "READY"
      <3> HIDE DEF left
      <3> QED BY <1>a, <1>2, <2>2 DEF AccrualCall, PendingItemCount, Posts
    <2> HIDE DEF call
    <2> QED BY <2>1, <2>3, CallMoves
  <1> QED BY <1>1, <1>2

LEMMA ReplaceKeepsInv ==
    ASSUME AccrualInv, NEW a \in Accruers, ReplaceItemsForRun(a)
    PROVE  AccrualInv'
  <1> DEFINE call == accruing[a]
  <1>1. /\ call \in AccrualCall /\ call.run \in Runs
        /\ \A i \in call.found : FoundItem(i)
    BY DEF AccrualInv, AccrualTypeOK, CallsAimed, ItemsPayable, ReplaceItemsForRun
  <1>2. /\ items' = (items \ Replaceable(call.run)) \cup call.found
        /\ runs' = [runs EXCEPT ![call.run] = StatusForItems(call.found)]
        /\ accruing' = [accruing EXCEPT ![a] = IdleAccruer]
        /\ UNCHANGED <<plan, terms, gold, period, entries, planning>>
    BY DEF ReplaceItemsForRun, AnswerAccruer
  <1>3. StatusForItems(call.found) \in RunStatuses
    BY DEF StatusForItems, RunStatuses
  <1>4. AccrualTypeOK'
    <2>1. items' \subseteq Item
      BY <1>1, <1>2 DEF AccrualInv, AccrualTypeOK, FoundItem, PayableItem
    <2> QED BY <1>2, <1>3, <2>1, IdleAccruerTyped DEF AccrualInv, AccrualTypeOK
  <1>5. CallsAimed'
    BY <1>2 DEF AccrualInv, AccrualTypeOK, CallsAimed, Calculating, IdleAccruer
  <1>6. ItemsPayable'
    BY <1>1, <1>2 DEF AccrualInv, AccrualTypeOK, ItemsPayable, FoundItem, PayableItem, Posts, IdleAccruer
  <1>7. EntriesSourced'
    BY <1>2 DEF AccrualInv, EntriesSourced, IsEarning
  <1> QED BY <1>4, <1>5, <1>6, <1>7 DEF AccrualInv

\* What a posting is made of.
LEMMA PostingsSourced ==
    ASSUME NEW i, FoundItem(i), i.status = "READY"
    PROVE  /\ i.amount > 0 => PostingOf(i) \in Posting
           /\ IF i.kind \in TransferKinds
                THEN PostingOf(i).item = i.calc /\ i.calc \in Calculations
                ELSE PostingOf(i).item = NoCalculation /\ IsEarning(PostingOf(i))
  BY DEF FoundItem, PayableItem, Item, PostingOf, Posting, SourceOf, IsEarning

LEMMA PostKeepsInv ==
    ASSUME AccrualInv, NEW a \in Accruers, PostReadyItems(a)
    PROVE  AccrualInv'
  <1> DEFINE call == accruing[a]
  <1>1. /\ call \in AccrualCall /\ call.run \in Runs
        /\ \A i \in call.found : FoundItem(i) /\ i.status = "READY"
    BY DEF AccrualInv, AccrualTypeOK, CallsAimed, ItemsPayable, PostReadyItems, Posts
  <1>2. /\ entries' = entries \cup EntriesFor(call.found)
        /\ items' = (items \ MarkedPosted(call))
                       \cup {[i EXCEPT !.status = "POSTED"] : i \in MarkedPosted(call)}
        /\ runs' = [runs EXCEPT ![call.run] = "POSTED"]
        /\ period' \in {"PARTIALLY_POSTED", "FULLY_POSTED"}
        /\ accruing' = [accruing EXCEPT ![a] = IdleAccruer]
        /\ UNCHANGED <<plan, terms, gold, planning>>
    BY DEF PostReadyItems, AnswerAccruer
  <1>3. \A i \in items' : PayableItem(i)
    <2>1. ASSUME NEW i \in MarkedPosted(call)
          PROVE  PayableItem([i EXCEPT !.status = "POSTED"])
      BY <1>1 DEF MarkedPosted, FoundItem, PayableItem, Item
    <2> QED BY <1>2, <2>1 DEF AccrualInv, ItemsPayable
  <1>4. \A e \in EntriesFor(call.found) :
           \E i \in call.found : e = PostingOf(i) /\ i.amount > 0
    BY DEF EntriesFor
  <1>5. EntriesFor(call.found) \subseteq Posting
    BY <1>1, <1>4, PostingsSourced
  <1>6. AccrualTypeOK'
    <2>1. items' \subseteq Item
      BY <1>3 DEF PayableItem
    <2> QED BY <1>2, <1>5, <2>1, IdleAccruerTyped DEF AccrualInv, AccrualTypeOK, RunStatuses
  <1>7. CallsAimed'
    BY <1>2 DEF AccrualInv, AccrualTypeOK, CallsAimed, Calculating, IdleAccruer
  <1>8. ItemsPayable'
    BY <1>2, <1>3 DEF AccrualInv, AccrualTypeOK, ItemsPayable, FoundItem, PayableItem, Posts, IdleAccruer
  <1>9. EntriesSourced'
    <2>1. ASSUME NEW e \in EntriesFor(call.found)
          PROVE  IF e.kind \in TransferKinds
                   THEN e.item \in Calculations
                   ELSE e.item = NoCalculation /\ IsEarning(e)
      <3>1. PICK i \in call.found : e = PostingOf(i)
        BY <1>4
      <3>2. e.kind = i.kind
        BY <3>1 DEF PostingOf
      <3> QED BY <1>1, <3>1, <3>2, PostingsSourced
    <2> QED BY <1>2, <2>1 DEF AccrualInv, EntriesSourced, IsEarning
  <1> QED BY <1>6, <1>7, <1>8, <1>9 DEF AccrualInv

-----------------------------------------------------------------------------
\* A step that touches neither items nor entries nor calls.
PlanMoves ==
    /\ UNCHANGED <<runs, items, entries, accruing>>
    /\ plan' \in [Assignments -> Row] /\ terms' \in [Collaborators -> TermsOffered]
    /\ gold' \in GoldAmounts \cup {0}
    /\ period' = period \/ period' = "INFORMED"
    /\ planning' \in [Planners -> PlanningCall]

LEMMA PlanningKeepsInv ==
    ASSUME AccrualInv,
           \E p \in Planners : \/ PlanningRequest(p) \/ WriteAssignment(p)
                               \/ WriteInformed(p) \/ AbortPlanning(p)
    PROVE  AccrualInv' /\ UNCHANGED <<items, entries, accruing>>
  <1>a. /\ plan \in [Assignments -> Row] /\ planning \in [Planners -> PlanningCall]
        /\ gold \in GoldAmounts \cup {0} /\ terms \in [Collaborators -> TermsOffered]
    BY DEF AccrualInv, AccrualTypeOK
  <1>1. PlanMoves
    <2>1. ASSUME NEW p \in Planners, NEW call \in PlanningCall, ReadForPlanning(p, call)
          PROVE  PlanMoves
      BY <2>1, <1>a DEF PlanMoves, ReadForPlanning
    <2>2. ASSUME NEW x \in Assignments, NEW row \in Row
          PROVE  RowToWrite(x, row) \in PlanningCall
      BY DEF RowToWrite, PlanningCall
    <2>3. ASSUME NEW p \in Planners, Inform(p)
          PROVE  PlanMoves
      <3>1. [IdlePlanner EXCEPT !.op = "INFORM"] \in PlanningCall
        BY IdlePlannerTyped DEF PlanningCall
      <3> QED BY <2>1, <2>3, <3>1 DEF Inform
    <2>4. ASSUME NEW p \in Planners, NEW x \in Assignments, NEW o \in Outcomes,
                 MarkActualOutcome(p, x, o)
          PROVE  PlanMoves
      <3>1. [plan[x] EXCEPT !.outcome = o] \in Row
        BY <1>a, AccrualConstants DEF Row
      <3> QED BY <2>1, <2>2, <2>4, <3>1 DEF MarkActualOutcome
    <2>5. ASSUME NEW p \in Planners, NEW x \in Assignments,
                 NEW status \in {"INCLUDED", "EXCLUDED"},
                 NEW w \in Collaborators, NEW o \in Assignments \cup {NoAssignment},
                 UpdateAssignment(p, x, status, w, o)
          PROVE  PlanMoves
      <3>1. [plan[x] EXCEPT !.status = status, !.holder = w, !.replaces = o] \in Row
        BY <1>a DEF Row
      <3> QED BY <2>1, <2>2, <2>5, <3>1 DEF UpdateAssignment
    <2>6. ASSUME NEW p \in Planners, NEW x \in Assignments, DeactivateAssignment(p, x)
          PROVE  PlanMoves
      <3>1. [plan[x] EXCEPT !.status = "DEACTIVATED"] \in Row
        BY <1>a DEF Row
      <3> QED BY <2>1, <2>2, <2>6, <3>1 DEF DeactivateAssignment
    <2>7. ASSUME NEW p \in Planners, WriteAssignment(p)
          PROVE  PlanMoves
      BY <2>7, <1>a, IdlePlannerTyped DEF PlanMoves, WriteAssignment, PlanningCall
    <2>8. ASSUME NEW p \in Planners, WriteInformed(p) \/ AbortPlanning(p)
          PROVE  PlanMoves
      BY <2>8, <1>a, IdlePlannerTyped DEF PlanMoves, WriteInformed, AbortPlanning
    <2>9. ASSUME NEW p \in Planners, NEW g \in GoldAmounts \cup {0}, SetGoldProduction(p, g)
          PROVE  PlanMoves
      BY <2>9, <1>a, IdlePlannerTyped DEF PlanMoves, SetGoldProduction
    <2>10. ASSUME NEW p \in Planners, NEW w \in Collaborators, NEW t \in TermsOffered,
                  ChangeTerms(p, w, t)
           PROVE  PlanMoves
      BY <2>10, <1>a, IdlePlannerTyped DEF PlanMoves, ChangeTerms
    <2> QED BY <2>3, <2>4, <2>5, <2>6, <2>7, <2>8, <2>9, <2>10 DEF PlanningRequest
  <1>2. AccrualTypeOK'
    BY <1>1 DEF PlanMoves, AccrualInv, AccrualTypeOK
  <1>3. CallsAimed' /\ ItemsPayable' /\ EntriesSourced'
    BY <1>1 DEF PlanMoves, AccrualInv, CallsAimed, Calculating, ItemsPayable, FoundItem, PayableItem, Posts,
                EntriesSourced, IsEarning
  <1> QED BY <1>1, <1>2, <1>3 DEF PlanMoves, AccrualInv

LEMMA AccrualInductive == AccrualInv /\ [AccrualsNext]_accrualVars => AccrualInv'
  <1> SUFFICES ASSUME AccrualInv, [AccrualsNext]_accrualVars PROVE AccrualInv'
    OBVIOUS
  <1>1. ASSUME NEW a \in Accruers, AccrualStep(a)
        PROVE  AccrualInv'
    BY <1>1, CalculationReads, PostingReads, ReplaceKeepsInv, PostKeepsInv DEF AccrualStep
  <1>2. ASSUME NEW a \in Accruers, AbortAccrual(a)
        PROVE  AccrualInv'
    BY <1>2, AnswerKeepsInv DEF AbortAccrual
  <1>3. CASE UNCHANGED accrualVars
    BY <1>3 DEF accrualVars, AccrualInv, AccrualTypeOK, CallsAimed, Calculating, ItemsPayable,
                FoundItem, PayableItem, Posts, EntriesSourced, IsEarning
  <1> QED BY <1>1, <1>2, <1>3, RequestsKeepInv, PlanningKeepsInv DEF AccrualsNext

LEMMA AccrualInvariant == AccrualsSpec => []AccrualInv
  BY AccrualInitial, AccrualInductive, PTL DEF AccrualsSpec

\* Types, for every set of assignments, rates, runs and calls.
THEOREM AccrualsTyped == AccrualsSpec => []AccrualTypeOK
  <1>1. AccrualInv => AccrualTypeOK
    BY DEF AccrualInv
  <1> QED BY <1>1, AccrualInvariant, PTL

-----------------------------------------------------------------------------
\* Only the two transactions write items.
LEMMA ItemsWritten ==
    ASSUME AccrualInv, [AccrualsNext]_accrualVars
    PROVE  \/ \E a \in Accruers : ReplaceItemsForRun(a) \/ PostReadyItems(a)
           \/ UNCHANGED <<items, entries>>
  <1>1. ASSUME NEW a \in Accruers, AccrualStep(a)
        PROVE  \/ ReplaceItemsForRun(a) \/ PostReadyItems(a)
               \/ UNCHANGED <<items, entries>>
    BY <1>1 DEF AccrualStep, FindCreatedRun, ListAssignmentsForCalculation, PreloadTerms, PostedItemKeys,
                CalculateAssignment, CalculateSickTransfer, ListReadyItems, PendingItemCount,
                RecordsUnchanged
  <1>2. ASSUME NEW a \in Accruers, AccrualRequest(a) \/ AbortAccrual(a)
        PROVE  UNCHANGED <<items, entries>>
    BY <1>2 DEF AccrualRequest, CreateRun, StartRecalculate, StartPost, AbortAccrual,
                RecordsUnchanged
  <1>3. CASE UNCHANGED accrualVars
    BY <1>3 DEF accrualVars
  <1> QED BY <1>1, <1>2, <1>3, PlanningKeepsInv DEF AccrualsNext

\* A posted item is history (ReplaceItemsForRun deletes the others of its run;
\* PostReadyItems marks ready ones), whatever calls overlap.
THEOREM PostedForGood == AccrualsSpec => PostedItemsFinal
  <1>1. ASSUME AccrualInv, [AccrualsNext]_accrualVars, NEW i \in items, i.status = "POSTED"
        PROVE  i \in items'
    <2>1. ASSUME NEW a \in Accruers, ReplaceItemsForRun(a)
          PROVE  i \in items'
      BY <1>1, <2>1 DEF ReplaceItemsForRun, Replaceable
    <2>2. ASSUME NEW a \in Accruers, PostReadyItems(a)
          PROVE  i \in items'
      BY <1>1, <2>2 DEF PostReadyItems, MarkedPosted
    <2> QED BY <1>1, <2>1, <2>2, ItemsWritten
  <1>2. AccrualInv /\ [AccrualsNext]_accrualVars
        => [\A i \in items : i.status = "POSTED" => i \in items']_accrualVars
    BY <1>1
  <1> QED BY <1>2, AccrualInvariant, PTL DEF AccrualsSpec, PostedItemsFinal

\* Every item reported as posted has its money in the ledger: PostReadyItems
\* marks what it has listed, and an entry it does not insert is already there.
THEOREM PostedArePaid == AccrualsSpec => []PostedItemsPaid
  <1> DEFINE Paid(i, ledger) ==
        \E e \in ledger : /\ e.assignment = i.assignment
                          /\ e.direction = i.direction
                          /\ IF i.kind \in TransferKinds
                               THEN e.kind = i.kind /\ e.item = i.calc
                               ELSE IsEarning(e) /\ UnitOf(e.kind) = UnitOf(i.kind)
  <1>1. ASSUME AccrualInv, PostedItemsPaid, [AccrualsNext]_accrualVars
        PROVE  PostedItemsPaid'
    <2>1. ASSUME NEW a \in Accruers, ReplaceItemsForRun(a)
          PROVE  PostedItemsPaid'
      <3>1. entries' = entries /\ \A i \in accruing[a].found : i.status # "POSTED"
        BY <1>1, <2>1 DEF ReplaceItemsForRun, AccrualInv, ItemsPayable, FoundItem
      <3>2. \A i \in items' : i.status = "POSTED" => i \in items
        BY <2>1, <3>1 DEF ReplaceItemsForRun
      <3> QED BY <1>1, <3>1, <3>2 DEF PostedItemsPaid, IsEarning
    <2>2. ASSUME NEW a \in Accruers, PostReadyItems(a)
          PROVE  PostedItemsPaid'
      <3> DEFINE found == accruing[a].found
      <3>1. /\ entries' = entries \cup EntriesFor(found)
            /\ items' = (items \ MarkedPosted(accruing[a]))
                           \cup {[i EXCEPT !.status = "POSTED"] : i \in MarkedPosted(accruing[a])}
            /\ \A i \in found : FoundItem(i) /\ i.status = "READY"
        BY <1>1, <2>2 DEF PostReadyItems, AccrualInv, ItemsPayable, Posts
      <3>2. ASSUME NEW i \in found, i.amount > 0
            PROVE  Paid(i, entries')
        <4>1. CASE PostingOf(i) \in EntriesFor(found)
          <5>1. PostingOf(i) \in entries'
            BY <3>1, <4>1
          <5>2. /\ PostingOf(i).assignment = i.assignment
                /\ PostingOf(i).direction = i.direction
                /\ PostingOf(i).kind = i.kind
            BY DEF PostingOf
          <5> QED BY <3>1, <5>1, <5>2, PostingsSourced
        <4>2. CASE PostingOf(i) \notin EntriesFor(found)
          <5>1. PICK f \in entries : SameEntry(PostingOf(i), f)
            BY <3>2, <4>2 DEF EntriesFor
          <5>2. /\ f.assignment = i.assignment /\ f.direction = i.direction
                /\ f.item = PostingOf(i).item
                /\ UnitOf(f.kind) = UnitOf(i.kind)
                /\ f.item # NoCalculation => f.kind = i.kind
            BY <5>1 DEF SameEntry, PostingOf
          <5>3. CASE i.kind \in TransferKinds
            BY <3>1, <5>2, <5>3, PostingsSourced, AccrualConstants
          <5>4. CASE i.kind \notin TransferKinds
            <6>1. f.item = NoCalculation
              BY <3>1, <5>2, <5>4, PostingsSourced
            <6>2. IsEarning(f)
              BY <1>1, <6>1, AccrualConstants DEF AccrualInv, EntriesSourced
            <6> QED BY <3>1, <5>2, <5>4, <6>2
          <5> QED BY <5>3, <5>4
        <4> QED BY <4>1, <4>2
      <3>3. ASSUME NEW i \in items', i.status = "POSTED", i.amount > 0
            PROVE  Paid(i, entries')
        <4>1. CASE i \in items
          <5>1. Paid(i, entries)
            BY <1>1, <3>3, <4>1 DEF PostedItemsPaid
          <5> QED BY <3>1, <5>1
        <4>2. CASE i \notin items
          <5>1. PICK j \in MarkedPosted(accruing[a]) : i = [j EXCEPT !.status = "POSTED"]
            BY <3>1, <4>2
          <5>2. j \in found /\ j \in Item
            BY <3>1, <5>1 DEF MarkedPosted, FoundItem, PayableItem
          <5>3. /\ i.assignment = j.assignment /\ i.direction = j.direction
                /\ i.kind = j.kind /\ i.calc = j.calc /\ i.amount = j.amount
            BY <5>1, <5>2 DEF Item
          <5>4. Paid(j, entries')
            BY <3>2, <3>3, <5>2, <5>3
          <5> QED BY <5>3, <5>4
        <4> QED BY <4>1, <4>2
      <3> QED BY <3>3 DEF PostedItemsPaid, IsEarning
    <2>3. CASE UNCHANGED <<items, entries>>
      BY <1>1, <2>3 DEF PostedItemsPaid, IsEarning
    <2> QED BY <1>1, <2>1, <2>2, <2>3, ItemsWritten
  <1>2. AccrualsInit => PostedItemsPaid
    BY AccrualInitial
  <1> QED BY <1>1, <1>2, AccrualInvariant, PTL DEF AccrualsSpec

-----------------------------------------------------------------------------
(***************************************************************************)
(* An assignment is paid once in each unit.  A calculation makes at most   *)
(* one earning of an assignment, so a run holds at most one that is not    *)
(* posted, a call posts at most one, and the ledger refuses a second in    *)
(* the unit of the first.                                                  *)
(***************************************************************************)
EarnOnce(S) ==
    \A i, j \in S : IsEarning(i) /\ IsEarning(j) /\ i.assignment = j.assignment => i = j

EarningsCredit(S) == \A i \in S : IsEarning(i) => i.direction = "CREDIT"

CalculatesOnce ==
    \A a \in Accruers :
       /\ EarnOnce(accruing[a].found) /\ EarningsCredit(accruing[a].found)
       /\ accruing[a].pc \in {"run", "rows", "terms", "keys"} => accruing[a].found = {}
       /\ accruing[a].pc = "calculate" =>
             \A i \in accruing[a].found :
                /\ i.run = accruing[a].run
                /\ IsEarning(i) => i.assignment \notin accruing[a].todo

RunsEarnOnce ==
    /\ EarningsCredit(items)
    /\ \A r \in Runs : EarnOnce(Replaceable(r))

EarningInv == CalculatesOnce /\ RunsEarnOnce /\ EarningsOnce /\ EarningsCredit(entries)

LEMMA OneEarningCalculated ==
    ASSUME NEW call, NEW x, NEW y
    PROVE  /\ EarnOnce(OutcomeItems(call, x, y)) /\ EarningsCredit(OutcomeItems(call, x, y))
           /\ \A i \in OutcomeItems(call, x, y) :
                 i.run = call.run /\ (IsEarning(i) => i.assignment = x)
           /\ \A i \in SickDayItems(call, x, y) : i.run = call.run /\ ~IsEarning(i)
  <1>1. /\ \A z, kind : /\ Pending(call, z, kind).run = call.run
                        /\ Pending(call, z, kind).kind = kind
                        /\ Pending(call, z, kind).assignment = z
                        /\ Pending(call, z, kind).direction = "CREDIT"
        /\ \A z, kind, direction, amount :
              /\ Ready(call, z, kind, direction, amount).run = call.run
              /\ Ready(call, z, kind, direction, amount).kind = kind
              /\ Ready(call, z, kind, direction, amount).assignment = z
              /\ Ready(call, z, kind, direction, amount).direction = direction
        /\ Skipped(call, x).run = call.run /\ Skipped(call, x).kind = call.rows[x].outcome
        /\ Skipped(call, x).assignment = x /\ Skipped(call, x).direction = "CREDIT"
    BY DEF Pending, Ready, Skipped, ItemOf
  <1>2. \A i \in SickDayItems(call, x, y) : i.run = call.run /\ ~IsEarning(i)
    BY <1>1 DEF SickDayItems, IsEarning, EarningKinds, PaymentKinds
  <1>3. /\ EarnOnce(TimeOffItems(call, x, y)) /\ EarningsCredit(TimeOffItems(call, x, y))
        /\ \A i \in TimeOffItems(call, x, y) :
              i.run = call.run /\ (IsEarning(i) => i.assignment = x)
    BY <1>1 DEF TimeOffItems, EarnOnce, EarningsCredit, IsEarning, EarningKinds, PaymentKinds
  <1>4. /\ PaymentItem(call, x).run = call.run /\ PaymentItem(call, x).assignment = x
        /\ PaymentItem(call, x).direction = "CREDIT"
    BY <1>1 DEF PaymentItem
  <1> QED BY <1>1, <1>2, <1>3, <1>4 DEF OutcomeItems, EarnOnce, EarningsCredit

\* The call a step moves has the new facts; the records are left alone.
LEMMA CallEarns ==
    ASSUME AccrualInv, EarningInv, NEW a \in Accruers, NEW call \in AccrualCall,
           EarnOnce(call.found), EarningsCredit(call.found),
           call.pc \in {"run", "rows", "terms", "keys"} => call.found = {},
           call.pc = "calculate" =>
              \A i \in call.found : i.run = call.run /\ (IsEarning(i) => i.assignment \notin call.todo),
           accruing' = [accruing EXCEPT ![a] = call],
           UNCHANGED <<items, entries>>
    PROVE  EarningInv'
  <1>1. \A b \in Accruers : accruing'[b] = IF b = a THEN call ELSE accruing[b]
    BY DEF AccrualInv, AccrualTypeOK
  <1>2. CalculatesOnce'
    BY <1>1 DEF EarningInv, CalculatesOnce, EarnOnce, EarningsCredit, IsEarning
  <1>3. RunsEarnOnce' /\ EarningsOnce' /\ EarningsCredit(entries)'
    BY DEF EarningInv, RunsEarnOnce, Replaceable, EarnOnce, EarningsCredit, EarningsOnce, IsEarning
  <1> QED BY <1>2, <1>3 DEF EarningInv

\* A call that ends, or has nothing to show.
LEMMA EmptyCallEarns ==
    ASSUME AccrualInv, EarningInv, NEW a \in Accruers, NEW call \in AccrualCall, call.found = {},
           accruing' = [accruing EXCEPT ![a] = call],
           UNCHANGED <<items, entries>>
    PROVE  EarningInv'
  BY CallEarns DEF EarnOnce, EarningsCredit

LEMMA AnswerEarns ==
    ASSUME AccrualInv, EarningInv, NEW a \in Accruers, AnswerAccruer(a),
           UNCHANGED <<items, entries>>
    PROVE  EarningInv'
  BY EmptyCallEarns, IdleAccruerTyped DEF AnswerAccruer, IdleAccruer

LEMMA RequestsEarn ==
    ASSUME AccrualInv, EarningInv, NEW a \in Accruers, AccrualRequest(a)
    PROVE  EarningInv'
  <1>1. PICK r \in Runs : \/ \E c \in Calculations : CreateRun(a, r, c) \/ StartRecalculate(a, r, c)
                          \/ StartPost(a, r)
    BY DEF AccrualRequest
  <1>2. UNCHANGED <<items, entries>>
    BY <1>1 DEF CreateRun, StartRecalculate, StartPost, RecordsUnchanged
  <1>3. ASSUME NEW c \in Calculations, NEW pc \in {"run", "rows"},
               accruing' = [accruing EXCEPT ![a] = [IdleAccruer EXCEPT
                               !.pc = pc, !.run = r, !.calc = c]]
        PROVE  EarningInv'
    <2> DEFINE call == [IdleAccruer EXCEPT !.pc = pc, !.run = r, !.calc = c]
    <2>1. call \in AccrualCall /\ call.found = {}
      BY IdleAccruerTyped DEF IdleAccruer, AccrualCall
    <2>2. accruing' = [accruing EXCEPT ![a] = call]
      BY <1>3
    <2> HIDE DEF call
    <2> QED BY <1>2, <2>1, <2>2, EmptyCallEarns
  <1>4. ASSUME StartPost(a, r)
        PROVE  EarningInv'
    <2> DEFINE call == [IdleAccruer EXCEPT !.pc = "ready", !.run = r]
    <2>1. call \in AccrualCall /\ call.found = {}
      BY IdleAccruerTyped DEF IdleAccruer, AccrualCall
    <2>2. accruing' = [accruing EXCEPT ![a] = call]
      BY <1>4 DEF StartPost
    <2> HIDE DEF call
    <2> QED BY <1>2, <2>1, <2>2, EmptyCallEarns
  <1> QED BY <1>1, <1>3, <1>4 DEF CreateRun, StartRecalculate

LEMMA ReadsEarn ==
    ASSUME AccrualInv, EarningInv, NEW a \in Accruers,
           \/ FindCreatedRun(a) \/ ListAssignmentsForCalculation(a) \/ PreloadTerms(a)
           \/ PostedItemKeys(a)
           \/ ListReadyItems(a) \/ PendingItemCount(a)
    PROVE  EarningInv'
  <1> DEFINE old == accruing[a]
             new == accruing'[a]
  <1>1. UNCHANGED <<items, entries>>
    BY DEF FindCreatedRun, ListAssignmentsForCalculation, PreloadTerms, PostedItemKeys, ListReadyItems,
           PendingItemCount, RecordsUnchanged
  <1>2. CASE AnswerAccruer(a)
    BY <1>1, <1>2, AnswerEarns
  <1>3. CASE ~AnswerAccruer(a)
    <2>1. /\ accruing \in [Accruers -> AccrualCall] /\ old \in AccrualCall
          /\ EarnOnce(old.found) /\ EarningsCredit(old.found)
          /\ old.pc \in {"run", "rows", "terms", "keys"} => old.found = {}
      BY DEF AccrualInv, AccrualTypeOK, EarningInv, CalculatesOnce
    <2>2. AccrualInv'
      BY CalculationReads, PostingReads
    <2>3. accruing' = [accruing EXCEPT ![a] = new] /\ new \in AccrualCall
      <3>1. new \in AccrualCall
        BY <2>2 DEF AccrualInv, AccrualTypeOK
      <3> QED BY <1>3, <2>1, <3>1
           DEF FindCreatedRun, ListAssignmentsForCalculation, PreloadTerms, PostedItemKeys, ListReadyItems,
               PendingItemCount
    <2>4. CASE \/ FindCreatedRun(a) \/ ListAssignmentsForCalculation(a) \/ PreloadTerms(a)
               \/ PostedItemKeys(a)
      <3>1. CASE FindCreatedRun(a)
        BY <1>1, <1>3, <2>1, <2>3, <3>1, EmptyCallEarns DEF FindCreatedRun, AccrualCall
      <3>2. CASE ListAssignmentsForCalculation(a)
        <4>1. new.found = {}
          BY <2>1, <3>2 DEF ListAssignmentsForCalculation, AccrualCall
        <4> QED BY <1>1, <2>3, <4>1, EmptyCallEarns
      <3>3. CASE PostedItemKeys(a)
        <4>1. new.found = {}
          BY <2>1, <3>3 DEF PostedItemKeys, AccrualCall
        <4> QED BY <1>1, <2>3, <4>1, EmptyCallEarns
      <3>4. CASE PreloadTerms(a)
        <4>1. new.found = {}
          BY <2>1, <3>4 DEF PreloadTerms, AccrualCall
        <4> QED BY <1>1, <2>3, <4>1, EmptyCallEarns
      <3> QED BY <2>4, <3>1, <3>2, <3>3, <3>4
    <2>5. CASE ListReadyItems(a)
      <3>1. /\ new.pc = "pending"
            /\ new.found = {i \in items : i.run = old.run /\ i.status = "READY"}
        BY <1>3, <2>1, <2>5 DEF ListReadyItems, AccrualCall
      <3>2. old.run \in Runs
        BY <2>5 DEF ListReadyItems, AccrualInv, CallsAimed
      <3>3. EarnOnce(new.found) /\ EarningsCredit(new.found)
        <4>1. new.found \subseteq Replaceable(old.run) /\ new.found \subseteq items
          BY <3>1 DEF Replaceable
        <4>2. EarnOnce(Replaceable(old.run)) /\ EarningsCredit(items)
          BY <3>2 DEF EarningInv, RunsEarnOnce
        <4> QED BY <4>1, <4>2 DEF EarnOnce, EarningsCredit
      <3> QED BY <1>1, <2>3, <3>1, <3>3, CallEarns
    <2>6. CASE PendingItemCount(a)
      <3>1. new.pc = "commit" /\ new.found = old.found
        BY <2>1, <2>6 DEF PendingItemCount, AccrualCall
      <3> QED BY <1>1, <2>1, <2>3, <3>1, CallEarns
    <2> QED BY <2>4, <2>5, <2>6
  <1> QED BY <1>2, <1>3

LEMMA CalculationEarns ==
    ASSUME AccrualInv, EarningInv, NEW a \in Accruers,
           (\E x \in Assignments : CalculateAssignment(a, x)) \/ CalculateSickTransfer(a)
    PROVE  EarningInv'
  <1> DEFINE old == accruing[a]
             new == accruing'[a]
  <1>1. UNCHANGED <<items, entries>> /\ old.pc = "calculate"
    BY DEF CalculateAssignment, CalculateSickTransfer, RecordsUnchanged
  <1>2. /\ accruing \in [Accruers -> AccrualCall] /\ old \in AccrualCall
        /\ EarnOnce(old.found) /\ EarningsCredit(old.found)
        /\ \A i \in old.found : i.run = old.run /\ (IsEarning(i) => i.assignment \notin old.todo)
    BY <1>1 DEF AccrualInv, AccrualTypeOK, EarningInv, CalculatesOnce
  <1>3. new \in AccrualCall
    BY CalculationReads DEF AccrualInv, AccrualTypeOK
  <1>4. ASSUME NEW x \in Assignments, CalculateAssignment(a, x)
        PROVE  EarningInv'
    <2>1. PICK y \in FirstReplacement(old.rows, x) :
             accruing' = [accruing EXCEPT
                 ![a].todo  = @ \ {x},
                 ![a].sick  = IF HasSickTransfer(old, x) THEN x ELSE NoAssignment,
                 ![a].found = @ \cup NotPosted(old, OutcomeItems(old, x, y))]
      BY <1>4 DEF CalculateAssignment
    <2> DEFINE more == NotPosted(old, OutcomeItems(old, x, y))
    <2>2. /\ new.found = old.found \cup more /\ new.todo = old.todo \ {x}
          /\ new.pc = old.pc /\ new.run = old.run
          /\ accruing' = [accruing EXCEPT ![a] = new]
      <3> HIDE DEF more
      <3> QED BY <1>2, <2>1 DEF AccrualCall, more
    <2>3. /\ EarnOnce(more) /\ EarningsCredit(more)
          /\ \A i \in more : i.run = old.run /\ (IsEarning(i) => i.assignment = x)
      <3>1. more \subseteq OutcomeItems(old, x, y)
        BY DEF NotPosted
      <3> QED BY <3>1, OneEarningCalculated DEF EarnOnce, EarningsCredit
    <2>4. x \in old.todo
      BY <1>4 DEF CalculateAssignment
    <2> HIDE DEF more, new, old
    <2>5. EarnOnce(new.found) /\ EarningsCredit(new.found)
      BY <1>2, <2>2, <2>3, <2>4 DEF EarnOnce, EarningsCredit
    <2>6. \A i \in new.found : i.run = new.run /\ (IsEarning(i) => i.assignment \notin new.todo)
      BY <1>2, <2>2, <2>3
    <2> QED BY <1>1, <1>3, <2>2, <2>5, <2>6, CallEarns
  <1>5. CASE CalculateSickTransfer(a)
    <2>1. PICK y \in FirstReplacement(old.rows, old.sick) :
             accruing' = [accruing EXCEPT
                 ![a].sick  = NoAssignment,
                 ![a].found = @ \cup NotPosted(old, SickDayItems(old, old.sick, y))]
      BY <1>5 DEF CalculateSickTransfer
    <2> DEFINE more == NotPosted(old, SickDayItems(old, old.sick, y))
    <2>2. /\ new.found = old.found \cup more /\ new.todo = old.todo
          /\ new.pc = old.pc /\ new.run = old.run
          /\ accruing' = [accruing EXCEPT ![a] = new]
      <3> HIDE DEF more
      <3> QED BY <1>2, <2>1 DEF AccrualCall, more
    <2>3. \A i \in more : i.run = old.run /\ ~IsEarning(i)
      BY OneEarningCalculated DEF NotPosted
    <2> HIDE DEF more, new, old
    <2>4. EarnOnce(new.found) /\ EarningsCredit(new.found)
      BY <1>2, <2>2, <2>3 DEF EarnOnce, EarningsCredit
    <2>5. \A i \in new.found : i.run = new.run /\ (IsEarning(i) => i.assignment \notin new.todo)
      BY <1>2, <2>2, <2>3
    <2> QED BY <1>1, <1>3, <2>2, <2>4, <2>5, CallEarns
  <1> QED BY <1>4, <1>5

\* The calls after one has answered.
LEMMA OthersCalculateOnce ==
    ASSUME AccrualInv, EarningInv, NEW a \in Accruers, AnswerAccruer(a)
    PROVE  CalculatesOnce'
  <1>1. \A b \in Accruers : accruing'[b] = IF b = a THEN IdleAccruer ELSE accruing[b]
    BY DEF AccrualInv, AccrualTypeOK, AnswerAccruer
  <1> QED BY <1>1 DEF EarningInv, CalculatesOnce, EarnOnce, EarningsCredit, IsEarning, IdleAccruer

LEMMA ReplaceEarns ==
    ASSUME AccrualInv, EarningInv, NEW a \in Accruers, ReplaceItemsForRun(a)
    PROVE  EarningInv'
  <1> DEFINE call == accruing[a]
  <1>1. /\ items' = (items \ Replaceable(call.run)) \cup call.found
        /\ entries' = entries
    BY DEF ReplaceItemsForRun
  <1>2. /\ EarnOnce(call.found) /\ EarningsCredit(call.found)
        /\ \A i \in call.found : i.run = call.run
    BY DEF ReplaceItemsForRun, EarningInv, CalculatesOnce
  <1>3. CalculatesOnce'
    BY OthersCalculateOnce DEF ReplaceItemsForRun
  <1> HIDE DEF call
  <1>4. RunsEarnOnce'
    <2>1. EarningsCredit(items')
      BY <1>1, <1>2 DEF EarningInv, RunsEarnOnce, EarningsCredit
    <2>2. ASSUME NEW r \in Runs
          PROVE  EarnOnce({i \in items' : i.run = r /\ i.status # "POSTED"})
      <3>1. EarnOnce(Replaceable(r))
        BY DEF EarningInv, RunsEarnOnce
      <3>2. CASE r = call.run
        <4>1. {i \in items' : i.run = r /\ i.status # "POSTED"} \subseteq call.found
          BY <1>1, <3>2 DEF Replaceable
        <4> QED BY <1>2, <4>1 DEF EarnOnce
      <3>3. CASE r # call.run
        <4>1. {i \in items' : i.run = r /\ i.status # "POSTED"} \subseteq Replaceable(r)
          BY <1>1, <1>2, <3>3 DEF Replaceable
        <4> QED BY <3>1, <4>1 DEF EarnOnce
      <3> QED BY <3>2, <3>3
    <2> QED BY <2>1, <2>2 DEF RunsEarnOnce, Replaceable, EarnOnce, EarningsCredit, IsEarning
  <1>5. EarningsOnce' /\ EarningsCredit(entries)'
    BY <1>1 DEF EarningInv, EarningsOnce, EarningsCredit, IsEarning
  <1> QED BY <1>3, <1>4, <1>5 DEF EarningInv

LEMMA PostEarns ==
    ASSUME AccrualInv, EarningInv, NEW a \in Accruers, PostReadyItems(a)
    PROVE  EarningInv'
  <1> DEFINE call == accruing[a]
             new  == EntriesFor(call.found)
  <1>1. /\ entries' = entries \cup new
        /\ items' = (items \ MarkedPosted(call))
                       \cup {[i EXCEPT !.status = "POSTED"] : i \in MarkedPosted(call)}
    BY DEF PostReadyItems
  <1>2. /\ EarnOnce(call.found) /\ EarningsCredit(call.found)
        /\ \A i \in call.found : FoundItem(i) /\ i.status = "READY"
    BY DEF PostReadyItems, EarningInv, CalculatesOnce, AccrualInv, ItemsPayable, Posts
  <1>3. CalculatesOnce'
    BY OthersCalculateOnce DEF PostReadyItems
  <1>4. RunsEarnOnce'
    <2>1. ASSUME NEW i \in MarkedPosted(call)
          PROVE  /\ [i EXCEPT !.status = "POSTED"].kind = i.kind
                 /\ [i EXCEPT !.status = "POSTED"].direction = i.direction
                 /\ [i EXCEPT !.status = "POSTED"].status = "POSTED"
                 /\ i \in items
      BY <1>2 DEF MarkedPosted, FoundItem, PayableItem, Item
    <2> HIDE DEF call
    <2>2. ASSUME NEW i \in items', IsEarning(i)
          PROVE  i.direction = "CREDIT"
      <3>1. \A j \in items : IsEarning(j) => j.direction = "CREDIT"
        BY DEF EarningInv, RunsEarnOnce, EarningsCredit
      <3>2. i \in items \/ \E j \in MarkedPosted(call) : i = [j EXCEPT !.status = "POSTED"]
        BY <1>1
      <3> QED BY <2>1, <2>2, <3>1, <3>2 DEF IsEarning
    <2>3. \A i \in items' : i.status # "POSTED" => i \in items
      BY <1>1, <2>1
    <2> QED BY <2>2, <2>3 DEF EarningInv, RunsEarnOnce, Replaceable, EarnOnce, EarningsCredit, IsEarning
  <1>5. ASSUME NEW e \in new
        PROVE  \E i \in call.found : e = PostingOf(i) /\ i.kind = e.kind
                                     /\ i.assignment = e.assignment /\ i.direction = e.direction
    BY DEF EntriesFor, PostingOf
  <1>6. \A e \in new : IsEarning(e) => e.direction = "CREDIT" /\ e.item = NoCalculation
    <2>1. \A k \in EarningKinds : k \notin TransferKinds
      BY DEF EarningKinds, PaymentKinds, TransferKinds
    <2> SUFFICES ASSUME NEW e \in new, IsEarning(e)
                 PROVE  e.direction = "CREDIT" /\ e.item = NoCalculation
      OBVIOUS
    <2>2. PICK i \in call.found : e = PostingOf(i) /\ i.kind = e.kind
                                   /\ i.assignment = e.assignment /\ i.direction = e.direction
      BY <1>5
    <2> QED BY <1>2, <2>1, <2>2, PostingsSourced DEF EarningsCredit, IsEarning
  <1>7. EarningsCredit(entries)'
    <2> HIDE DEF new
    <2> QED BY <1>1, <1>6 DEF EarningInv, EarningsCredit, IsEarning
  <1>8. EarningsOnce'
    <2>1. ASSUME NEW e \in new, NEW f \in new, IsEarning(e), IsEarning(f),
                 e.assignment = f.assignment
          PROVE  e = f
      <3>1. PICK i \in call.found : e = PostingOf(i) /\ i.kind = e.kind
                                     /\ i.assignment = e.assignment /\ i.direction = e.direction
        BY <1>5
      <3>2. PICK j \in call.found : f = PostingOf(j) /\ j.kind = f.kind
                                     /\ j.assignment = f.assignment /\ j.direction = f.direction
        BY <1>5
      <3> QED BY <1>2, <2>1, <3>1, <3>2 DEF EarnOnce, IsEarning
    <2>2. ASSUME NEW e \in new, NEW f \in entries, IsEarning(e), IsEarning(f),
                 UnitOf(e.kind) = UnitOf(f.kind)
          PROVE  e.assignment # f.assignment
      <3>1. ~SameEntry(e, f)
        BY DEF EntriesFor
      <3>2. e.direction = "CREDIT" /\ e.item = NoCalculation
        BY <1>6, <2>2
      <3>3. f.direction = "CREDIT" /\ f.item = NoCalculation
        <4>1. f.kind \notin TransferKinds
          BY <2>2 DEF IsEarning, EarningKinds, PaymentKinds, TransferKinds
        <4> QED BY <2>2, <4>1 DEF EarningInv, EarningsCredit, AccrualInv, EntriesSourced
      <3> QED BY <2>2, <3>1, <3>2, <3>3 DEF SameEntry
    <2> HIDE DEF new
    <2> QED BY <1>1, <2>1, <2>2 DEF EarningInv, EarningsOnce, IsEarning
  <1> QED BY <1>3, <1>4, <1>7, <1>8 DEF EarningInv

\* An assignment is paid for its period at most once in BRL and once in gold,
\* whatever runs are calculated, recalculated and posted at the same time and
\* however often its holder or the holder's payment method changes: the
\* entry's id is made of the unit and the assignment (accrualLedgerEntry), and
\* a run never holds two earnings of one assignment that are not posted
\* (calculateItems, ReplaceItemsForRun).
THEOREM PaidOncePerUnit == AccrualsSpec => []EarningsOnce
  <1>1. AccrualsInit => EarningInv
    BY DEF AccrualsInit, EarningInv, CalculatesOnce, RunsEarnOnce, Replaceable, EarningsOnce,
           EarnOnce, EarningsCredit, IdleAccruer
  <1>2. ASSUME AccrualInv, EarningInv, [AccrualsNext]_accrualVars
        PROVE  EarningInv'
    <2>1. ASSUME NEW a \in Accruers, AccrualStep(a)
          PROVE  EarningInv'
      BY <1>2, <2>1, ReadsEarn, CalculationEarns, ReplaceEarns, PostEarns DEF AccrualStep
    <2>2. ASSUME NEW a \in Accruers, AbortAccrual(a)
          PROVE  EarningInv'
      BY <1>2, <2>2, AnswerEarns DEF AbortAccrual, RecordsUnchanged
    <2>3. CASE UNCHANGED <<items, entries, accruing>>
      BY <1>2, <2>3 DEF EarningInv, CalculatesOnce, RunsEarnOnce, Replaceable, EarningsOnce,
                        EarnOnce, EarningsCredit, IsEarning
    <2>4. UNCHANGED accrualVars => UNCHANGED <<items, entries, accruing>>
      BY DEF accrualVars
    <2> QED BY <1>2, <2>1, <2>2, <2>3, <2>4, RequestsEarn, PlanningKeepsInv DEF AccrualsNext
  <1>3. EarningInv => EarningsOnce
    BY DEF EarningInv
  <1> QED BY <1>1, <1>2, <1>3, AccrualInvariant, PTL DEF AccrualsSpec

-----------------------------------------------------------------------------
(***************************************************************************)
(* A time off pays the split only.  A calculation decides both items of a  *)
(* stand-in from the rows it has read once, and the items of a calculation *)
(* are written once, under an identifier nobody else has.                  *)
(***************************************************************************)
FromRows(call) ==
    \A i \in call.found :
       /\ i.calc = call.calc
       /\ i.kind = "TIME_OFF_REPLACEMENT_GOLD_CREDIT" => StandsInForTimeOff(call.rows, i.assignment)
       /\ i.kind \in PaymentKinds => ~StandsInForTimeOff(call.rows, i.assignment)

Drawn(call) ==
    /\ call.pc \in {"run", "rows", "terms", "keys"} => call.found = {}
    /\ call.pc \in {"terms", "keys", "calculate"} => \A x \in call.todo : call.rows[x].status = "INCLUDED"
    /\ call.pc = "calculate" => FromRows(call)

CalculationsFresh ==
    \A a \in Accruers : Calculating(a) =>
       /\ \A i \in items : i.calc # accruing[a].calc
       /\ \A b \in Accruers \ {a} : Calculating(b) => accruing[b].calc # accruing[a].calc

SplitInv == (\A a \in Accruers : Drawn(accruing[a])) /\ CalculationsFresh /\ TimeOffPaysSplitOnly

\* What one turn of the calculation yields.
LEMMA ItemsFromRows ==
    ASSUME NEW call \in AccrualCall, NEW x \in Assignments, NEW y \in Assignments \cup {NoAssignment}
    PROVE  /\ \A i \in OutcomeItems(call, x, y) :
                 /\ i.calc = call.calc
                 /\ i.kind \in PaymentKinds => i.assignment = x /\ PaidByOutcome(call.rows, x)
                 /\ i.kind = "TIME_OFF_REPLACEMENT_GOLD_CREDIT" =>
                       /\ i.assignment = y /\ y # NoAssignment
                       /\ call.rows[x].outcome = "TIME_OFF"
           /\ \A i \in SickDayItems(call, x, y) :
                 /\ i.calc = call.calc
                 /\ i.kind \notin PaymentKinds \cup {"TIME_OFF_REPLACEMENT_GOLD_CREDIT"}
  <1>1. /\ \A z, kind : /\ Pending(call, z, kind).calc = call.calc
                        /\ Pending(call, z, kind).kind = kind
                        /\ Pending(call, z, kind).assignment = z
        /\ \A z, kind, direction, amount :
              /\ Ready(call, z, kind, direction, amount).calc = call.calc
              /\ Ready(call, z, kind, direction, amount).kind = kind
              /\ Ready(call, z, kind, direction, amount).assignment = z
        /\ Skipped(call, x).calc = call.calc /\ Skipped(call, x).kind = call.rows[x].outcome
    BY DEF Pending, Ready, Skipped, ItemOf
  <1>2. \A i \in SickDayItems(call, x, y) :
           /\ i.calc = call.calc
           /\ i.kind \notin PaymentKinds \cup {"TIME_OFF_REPLACEMENT_GOLD_CREDIT"}
    BY <1>1 DEF SickDayItems, PaymentKinds
  <1>3. ASSUME call.rows[x].outcome = "TIME_OFF", NEW i \in TimeOffItems(call, x, y)
        PROVE  /\ i.calc = call.calc /\ i.kind \notin PaymentKinds
               /\ i.kind = "TIME_OFF_REPLACEMENT_GOLD_CREDIT" => i.assignment = y /\ y # NoAssignment
    BY <1>1, <1>3 DEF TimeOffItems, PaymentKinds
  <1>4. /\ PaymentItem(call, x).calc = call.calc /\ PaymentItem(call, x).kind = call.terms[x].kind
        /\ PaymentItem(call, x).assignment = x
    BY <1>1 DEF PaymentItem
  <1>5. call.terms[x].kind \in PaymentKinds
    BY DEF AccrualCall, Terms
  <1>6. /\ "TIME_OFF_REPLACEMENT_GOLD_CREDIT" \notin PaymentKinds /\ "ACTUAL_OUTCOME" \notin PaymentKinds
        /\ \A o \in {"ABSENT", "CANCELLED", "REPLACED"} : o \notin PaymentKinds
    BY DEF PaymentKinds
  <1> QED BY <1>1, <1>2, <1>3, <1>4, <1>5, <1>6 DEF OutcomeItems

\* The call a step moves has the new facts, and a new identifier or its own.
LEMMA CallDrawn ==
    ASSUME AccrualInv, SplitInv, NEW a \in Accruers, NEW call \in AccrualCall, Drawn(call),
           call.pc \in {"run", "rows", "terms", "keys", "calculate"} =>
              \/ Calculating(a) /\ call.calc = accruing[a].calc
              \/ call.calc \in NewCalculations,
           accruing' = [accruing EXCEPT ![a] = call], UNCHANGED items
    PROVE  SplitInv'
  <1>1. \A b \in Accruers : accruing'[b] = IF b = a THEN call ELSE accruing[b]
    BY DEF AccrualInv, AccrualTypeOK
  <1>2. \A b \in Accruers : Drawn(accruing'[b])
    BY <1>1 DEF SplitInv
  <1>3. \A c \in NewCalculations : /\ \A i \in items : i.calc # c
                                   /\ \A b \in Accruers : accruing[b].calc # c
    BY DEF NewCalculations
  <1>4. CalculationsFresh'
    BY <1>1, <1>3 DEF SplitInv, CalculationsFresh, Calculating
  <1>5. TimeOffPaysSplitOnly'
    BY DEF SplitInv, TimeOffPaysSplitOnly
  <1> QED BY <1>2, <1>4, <1>5 DEF SplitInv

LEMMA IdleDrawn == Drawn(IdleAccruer) /\ IdleAccruer.pc = "idle"
  BY DEF Drawn, IdleAccruer

LEMMA AnswerDrawn ==
    ASSUME AccrualInv, SplitInv, NEW a \in Accruers, AnswerAccruer(a), UNCHANGED items
    PROVE  SplitInv'
  BY IdleDrawn, IdleAccruerTyped, CallDrawn DEF AnswerAccruer

\* A request carries nothing yet.
LEMMA RequestsDrawn ==
    ASSUME AccrualInv, SplitInv, NEW a \in Accruers, AccrualRequest(a)
    PROVE  SplitInv'
  <1>1. PICK r \in Runs : \/ \E c \in Calculations : CreateRun(a, r, c) \/ StartRecalculate(a, r, c)
                          \/ StartPost(a, r)
    BY DEF AccrualRequest
  <1>2. UNCHANGED items
    BY <1>1 DEF CreateRun, StartRecalculate, StartPost, RecordsUnchanged
  <1>3. ASSUME NEW c \in Calculations, c \in NewCalculations, NEW pc \in {"run", "rows"},
               accruing' = [accruing EXCEPT ![a] = [IdleAccruer EXCEPT
                               !.pc = pc, !.run = r, !.calc = c]]
        PROVE  SplitInv'
    <2> DEFINE call == [IdleAccruer EXCEPT !.pc = pc, !.run = r, !.calc = c]
    <2>1. call \in AccrualCall /\ call.found = {} /\ call.calc = c /\ call.pc = pc
      BY IdleAccruerTyped DEF IdleAccruer, AccrualCall
    <2>2. accruing' = [accruing EXCEPT ![a] = call]
      BY <1>3
    <2> HIDE DEF call
    <2>3. Drawn(call)
      BY <2>1 DEF Drawn
    <2> QED BY <1>2, <1>3, <2>1, <2>2, <2>3, CallDrawn
  <1>4. ASSUME StartPost(a, r) PROVE SplitInv'
    <2> DEFINE call == [IdleAccruer EXCEPT !.pc = "ready", !.run = r]
    <2>1. call \in AccrualCall /\ call.pc = "ready"
      BY IdleAccruerTyped DEF IdleAccruer, AccrualCall
    <2>2. accruing' = [accruing EXCEPT ![a] = call]
      BY <1>4 DEF StartPost
    <2> HIDE DEF call
    <2>3. Drawn(call)
      BY <2>1 DEF Drawn
    <2> QED BY <1>2, <2>1, <2>2, <2>3, CallDrawn
  <1> QED BY <1>1, <1>3, <1>4 DEF CreateRun, StartRecalculate

\* Reads: of the run, the rows, the posted keys, the items to post.
LEMMA ReadsDrawn ==
    ASSUME AccrualInv, SplitInv, NEW a \in Accruers,
           \/ FindCreatedRun(a) \/ ListAssignmentsForCalculation(a) \/ PreloadTerms(a)
           \/ PostedItemKeys(a)
           \/ ListReadyItems(a) \/ PendingItemCount(a)
    PROVE  SplitInv'
  <1> DEFINE old == accruing[a]
             new == accruing'[a]
  <1>1. UNCHANGED items
    BY DEF FindCreatedRun, ListAssignmentsForCalculation, PreloadTerms, PostedItemKeys, ListReadyItems,
           PendingItemCount, RecordsUnchanged
  <1>2. CASE AnswerAccruer(a)
    BY <1>1, <1>2, AnswerDrawn
  <1>3. CASE ~AnswerAccruer(a)
    <2>1. accruing \in [Accruers -> AccrualCall] /\ old \in AccrualCall /\ Drawn(old)
      BY DEF AccrualInv, AccrualTypeOK, SplitInv
    <2>2. AccrualInv'
      BY CalculationReads, PostingReads
    <2>3. accruing' = [accruing EXCEPT ![a] = new] /\ new \in AccrualCall
      <3>1. new \in AccrualCall
        BY <2>2 DEF AccrualInv, AccrualTypeOK
      <3> QED BY <1>3, <2>1, <3>1
           DEF FindCreatedRun, ListAssignmentsForCalculation, PreloadTerms, PostedItemKeys, ListReadyItems,
               PendingItemCount
    <2>4. CASE FindCreatedRun(a)
      <3>1. new.pc = "rows" /\ new.calc = old.calc /\ new.found = old.found /\ old.pc = "run"
        BY <1>3, <2>1, <2>4 DEF FindCreatedRun, AccrualCall
      <3>2. Drawn(new)
        BY <2>1, <3>1 DEF Drawn
      <3> QED BY <1>1, <2>3, <3>1, <3>2, CallDrawn DEF Calculating
    <2>5. CASE ListAssignmentsForCalculation(a)
      <3> DEFINE included == {x \in Assignments : plan[x].status = "INCLUDED"}
                 rows == [x \in Assignments |-> IF x \in included THEN plan[x] ELSE Excluded]
      <3>1. /\ new.pc = "terms" /\ new.calc = old.calc /\ new.found = old.found /\ old.pc = "rows"
            /\ new.todo = included /\ new.rows = rows
        <4> HIDE DEF included, rows
        <4> QED BY <2>1, <2>5 DEF ListAssignmentsForCalculation, AccrualCall, included, rows
      <3>2. \A x \in included : rows[x].status = "INCLUDED"
        OBVIOUS
      <3> HIDE DEF included, rows
      <3>3. Drawn(new)
        BY <2>1, <3>1, <3>2 DEF Drawn
      <3> QED BY <1>1, <2>3, <3>1, <3>3, CallDrawn DEF Calculating
    <2>6. CASE PostedItemKeys(a)
      <3>1. /\ new.pc = "calculate" /\ new.calc = old.calc /\ new.found = old.found /\ old.pc = "keys"
            /\ new.todo = old.todo /\ new.rows = old.rows
        BY <2>1, <2>6 DEF PostedItemKeys, AccrualCall
      <3>2. Drawn(new)
        BY <2>1, <3>1 DEF Drawn, FromRows
      <3> QED BY <1>1, <2>3, <3>1, <3>2, CallDrawn DEF Calculating
    <2>7. CASE ListReadyItems(a) \/ PendingItemCount(a)
      <3>1. new.pc \in {"pending", "commit"}
        BY <1>3, <2>1, <2>7 DEF ListReadyItems, PendingItemCount, AccrualCall
      <3>2. Drawn(new)
        BY <3>1 DEF Drawn
      <3> QED BY <1>1, <2>3, <3>1, <3>2, CallDrawn
    <2>8. CASE PreloadTerms(a)
      <3>1. /\ new.pc = "keys" /\ new.calc = old.calc /\ new.found = old.found /\ old.pc = "terms"
            /\ new.todo = old.todo /\ new.rows = old.rows
        BY <2>1, <2>8 DEF PreloadTerms, AccrualCall
      <3>2. Drawn(new)
        BY <2>1, <3>1 DEF Drawn
      <3> QED BY <1>1, <2>3, <3>1, <3>2, CallDrawn DEF Calculating
    <2> QED BY <2>4, <2>5, <2>6, <2>7, <2>8
  <1> QED BY <1>2, <1>3

\* A turn of the calculation: who is paid stands in for no time off, and who
\* gets the split stands in for the one whose turn it is.
LEMMA CalculationDraws ==
    ASSUME AccrualInv, SplitInv, NEW a \in Accruers,
           (\E x \in Assignments : CalculateAssignment(a, x)) \/ CalculateSickTransfer(a)
    PROVE  SplitInv'
  <1> DEFINE old == accruing[a]
             new == accruing'[a]
  <1>1. UNCHANGED items /\ old.pc = "calculate"
    BY DEF CalculateAssignment, CalculateSickTransfer, RecordsUnchanged
  <1>2. /\ accruing \in [Accruers -> AccrualCall] /\ old \in AccrualCall /\ Drawn(old)
    BY DEF AccrualInv, AccrualTypeOK, SplitInv
  <1>3. new \in AccrualCall
    BY CalculationReads DEF AccrualInv, AccrualTypeOK
  <1>4. Calculating(a)
    BY <1>1 DEF Calculating
  <1>5. ASSUME NEW more, \A i \in more :
                  /\ i.calc = old.calc
                  /\ i.kind = "TIME_OFF_REPLACEMENT_GOLD_CREDIT" => StandsInForTimeOff(old.rows, i.assignment)
                  /\ i.kind \in PaymentKinds => ~StandsInForTimeOff(old.rows, i.assignment),
               new.found = old.found \cup more, new.todo \subseteq old.todo, new.rows = old.rows,
               new.pc = old.pc, new.calc = old.calc, accruing' = [accruing EXCEPT ![a] = new]
        PROVE  SplitInv'
    <2> HIDE DEF old, new
    <2>1. FromRows(new)
      BY <1>1, <1>2, <1>5 DEF Drawn, FromRows
    <2>2. Drawn(new)
      BY <1>1, <1>2, <1>5, <2>1 DEF Drawn
    <2>3. new.calc = accruing[a].calc
      BY <1>5 DEF old
    <2> QED BY <1>1, <1>3, <1>4, <1>5, <2>2, <2>3, CallDrawn
  <1>6. ASSUME NEW x \in Assignments, CalculateAssignment(a, x)
        PROVE  SplitInv'
    <2>1. PICK y \in FirstReplacement(old.rows, x) :
             accruing' = [accruing EXCEPT
                 ![a].todo  = @ \ {x},
                 ![a].sick  = IF HasSickTransfer(old, x) THEN x ELSE NoAssignment,
                 ![a].found = @ \cup NotPosted(old, OutcomeItems(old, x, y))]
      BY <1>6 DEF CalculateAssignment
    <2> DEFINE more == NotPosted(old, OutcomeItems(old, x, y))
    <2>2. /\ new.found = old.found \cup more /\ new.todo = old.todo \ {x}
          /\ new.pc = old.pc /\ new.calc = old.calc /\ new.rows = old.rows
          /\ accruing' = [accruing EXCEPT ![a] = new]
      <3> HIDE DEF more
      <3> QED BY <1>2, <2>1 DEF AccrualCall, more
    <2>3. more \subseteq OutcomeItems(old, x, y)
      BY DEF NotPosted
    <2>4. old.rows[x].status = "INCLUDED"
      BY <1>1, <1>2, <1>6 DEF Drawn, CalculateAssignment
    <2>5. /\ y \in Assignments \cup {NoAssignment}
          /\ y # NoAssignment => old.rows[y].replaces = x
      BY <2>1 DEF FirstReplacement, ReplacementsOf
    <2> HIDE DEF more, old, new
    <2>6. ASSUME NEW i \in more
          PROVE  /\ i.calc = old.calc
                 /\ i.kind = "TIME_OFF_REPLACEMENT_GOLD_CREDIT" => StandsInForTimeOff(old.rows, i.assignment)
                 /\ i.kind \in PaymentKinds => ~StandsInForTimeOff(old.rows, i.assignment)
      <3>1. /\ i.calc = old.calc
            /\ i.kind \in PaymentKinds => i.assignment = x /\ PaidByOutcome(old.rows, x)
            /\ i.kind = "TIME_OFF_REPLACEMENT_GOLD_CREDIT" =>
                  /\ i.assignment = y /\ y # NoAssignment
                  /\ old.rows[x].outcome = "TIME_OFF"
        BY <1>2, <2>3, <2>5, <2>6, ItemsFromRows
      <3>2. i.kind = "TIME_OFF_REPLACEMENT_GOLD_CREDIT" => StandsInForTimeOff(old.rows, i.assignment)
        BY <3>1, <2>4, <2>5 DEF StandsInForTimeOff
      <3> QED BY <3>1, <3>2 DEF PaidByOutcome
    <2> QED BY <1>5, <2>2, <2>6
  <1>7. CASE CalculateSickTransfer(a)
    <2>1. PICK y \in FirstReplacement(old.rows, old.sick) :
             accruing' = [accruing EXCEPT
                 ![a].sick  = NoAssignment,
                 ![a].found = @ \cup NotPosted(old, SickDayItems(old, old.sick, y))]
      BY <1>7 DEF CalculateSickTransfer
    <2> DEFINE more == NotPosted(old, SickDayItems(old, old.sick, y))
    <2>2. /\ new.found = old.found \cup more /\ new.todo = old.todo
          /\ new.pc = old.pc /\ new.calc = old.calc /\ new.rows = old.rows
          /\ accruing' = [accruing EXCEPT ![a] = new]
      <3> HIDE DEF more
      <3> QED BY <1>2, <2>1 DEF AccrualCall, more
    <2>3. old.sick \in Assignments /\ y \in Assignments \cup {NoAssignment}
      BY <1>2, <1>7, <2>1 DEF CalculateSickTransfer, AccrualCall, FirstReplacement, ReplacementsOf
    <2>4. \A i \in more : /\ i.calc = old.calc
                          /\ i.kind \notin PaymentKinds \cup {"TIME_OFF_REPLACEMENT_GOLD_CREDIT"}
      BY <1>2, <2>3, ItemsFromRows DEF NotPosted
    <2> HIDE DEF more, old, new
    <2> QED BY <1>5, <2>2, <2>4
  <1> QED BY <1>6, <1>7

\* The items of a calculation are written when no item has its identifier.
LEMMA ReplaceDrawn ==
    ASSUME AccrualInv, SplitInv, NEW a \in Accruers, ReplaceItemsForRun(a)
    PROVE  SplitInv'
  <1> DEFINE call == accruing[a]
  <1>1. /\ items' \subseteq items \cup call.found /\ call.pc = "calculate"
        /\ AnswerAccruer(a)
    BY DEF ReplaceItemsForRun
  <1>2. FromRows(call) /\ Calculating(a)
    BY <1>1 DEF SplitInv, Drawn, Calculating
  <1>3. \A b \in Accruers : accruing'[b] = IF b = a THEN IdleAccruer ELSE accruing[b]
    BY <1>1 DEF AccrualInv, AccrualTypeOK, AnswerAccruer
  <1>4. \A b \in Accruers : Drawn(accruing'[b])
    BY <1>3, IdleDrawn DEF SplitInv
  <1>5. CalculationsFresh'
    BY <1>1, <1>2, <1>3, IdleDrawn DEF SplitInv, CalculationsFresh, Calculating, FromRows
  <1>6. \A i \in items : i.calc # call.calc
    BY <1>2 DEF SplitInv, CalculationsFresh
  <1>7. TimeOffPaysSplitOnly'
    <2> SUFFICES ASSUME NEW i \in items', NEW j \in items', i.calc = j.calc, i.assignment = j.assignment,
                        i.kind = "TIME_OFF_REPLACEMENT_GOLD_CREDIT", j.kind \in PaymentKinds
                 PROVE  FALSE
      BY DEF TimeOffPaysSplitOnly
    <2> HIDE DEF call
    <2>1. CASE i \in items /\ j \in items
      BY <2>1 DEF SplitInv, TimeOffPaysSplitOnly
    <2>2. CASE i \in call.found /\ j \in call.found
      BY <1>2, <2>2 DEF FromRows
    <2>3. CASE \/ i \in items /\ j \in call.found
               \/ i \in call.found /\ j \in items
      BY <1>2, <1>6, <2>3 DEF FromRows
    <2> QED BY <1>1, <2>1, <2>2, <2>3
  <1> QED BY <1>4, <1>5, <1>7 DEF SplitInv

\* Posting marks items and changes nothing else of them.
LEMMA PostDrawn ==
    ASSUME AccrualInv, SplitInv, NEW a \in Accruers, PostReadyItems(a)
    PROVE  SplitInv'
  <1> DEFINE call == accruing[a]
  <1>1. /\ AnswerAccruer(a)
        /\ items' = (items \ MarkedPosted(call))
                       \cup {[i EXCEPT !.status = "POSTED"] : i \in MarkedPosted(call)}
    BY DEF PostReadyItems
  <1>2. ASSUME NEW i \in items'
        PROVE  \E j \in items : i.calc = j.calc /\ i.assignment = j.assignment /\ i.kind = j.kind
    <2>1. ASSUME NEW j \in items
          PROVE  /\ [j EXCEPT !.status = "POSTED"].calc = j.calc
                 /\ [j EXCEPT !.status = "POSTED"].assignment = j.assignment
                 /\ [j EXCEPT !.status = "POSTED"].kind = j.kind
      BY DEF AccrualInv, AccrualTypeOK, Item
    <2>2. i \in items \/ \E j \in items : i = [j EXCEPT !.status = "POSTED"]
      BY <1>1, <1>2 DEF MarkedPosted
    <2> QED BY <2>1, <2>2
  <1>3. \A b \in Accruers : accruing'[b] = IF b = a THEN IdleAccruer ELSE accruing[b]
    BY <1>1 DEF AccrualInv, AccrualTypeOK, AnswerAccruer
  <1>4. \A b \in Accruers : Drawn(accruing'[b])
    BY <1>3, IdleDrawn DEF SplitInv
  <1>5. CalculationsFresh'
    BY <1>2, <1>3, IdleDrawn DEF SplitInv, CalculationsFresh, Calculating
  <1>6. TimeOffPaysSplitOnly'
    BY <1>2 DEF SplitInv, TimeOffPaysSplitOnly
  <1> QED BY <1>4, <1>5, <1>6 DEF SplitInv

\* TimeOffPaysSplitOnly: calculateItems never yields the day's payment and the
\* split of a time off for one assignment, although the rows, the posted keys and
\* the gold are read in different statements and the plan changes meanwhile.
THEOREM SplitInsteadOfDay == AccrualsSpec => []TimeOffPaysSplitOnly
  <1>1. AccrualsInit => SplitInv
    BY IdleDrawn DEF AccrualsInit, SplitInv, CalculationsFresh, Calculating, TimeOffPaysSplitOnly
  <1>2. ASSUME AccrualInv, SplitInv, [AccrualsNext]_accrualVars
        PROVE  SplitInv'
    <2>1. ASSUME NEW a \in Accruers, AccrualStep(a)
          PROVE  SplitInv'
      BY <1>2, <2>1, ReadsDrawn, CalculationDraws, ReplaceDrawn, PostDrawn DEF AccrualStep
    <2>2. ASSUME NEW a \in Accruers, AbortAccrual(a)
          PROVE  SplitInv'
      BY <1>2, <2>2, AnswerDrawn DEF AbortAccrual, RecordsUnchanged
    <2>3. CASE UNCHANGED <<items, entries, accruing>>
      BY <1>2, <2>3 DEF SplitInv, CalculationsFresh, Calculating, TimeOffPaysSplitOnly, Drawn, FromRows
    <2>4. UNCHANGED accrualVars => UNCHANGED <<items, entries, accruing>>
      BY DEF accrualVars
    <2> QED BY <1>2, <2>1, <2>2, <2>3, <2>4, RequestsDrawn, PlanningKeepsInv DEF AccrualsNext
  <1>3. SplitInv => TimeOffPaysSplitOnly
    BY DEF SplitInv
  <1> QED BY <1>1, <1>2, <1>3, AccrualInvariant, PTL DEF AccrualsSpec
=============================================================================
