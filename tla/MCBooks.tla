------------------------------- MODULE MCBooks -------------------------------
(***************************************************************************)
(* Three workloads over one small ledger.  "payments": requests are served *)
(* one at a time, in two units; nothing is posted while a settlement is at *)
(* work.  "corrections": two correctors and the final payment of one       *)
(* request.  "receipts": two clerks and the final payment of one request.  *)
(***************************************************************************)
EXTENDS MCCurrentAccount

VARIABLE workload

BooksSymmetry == Permutations(EntryIds \ LegacyDebits) \cup Permutations(Clerks)

InFlight == {s \in Settlers : settling[s].pc # "idle"}

PostedBySettlement == \A e \in Posted' \ Posted : ledger'[e].source = "JOURNEY_SETTLEMENT"

FinalPayments == {"FINAL_TENANT_PAYMENT", "FINAL_COLLABORATOR_PAYMENT"}

FirstRequest == CHOOSE q \in RequestIds : TRUE

FinalPaymentsInGold ==
    /\ \A s \in Settlers : settling'[s].pc # "idle" =>
          settling'[s].op \in FinalPayments /\ settling'[s].request = FirstRequest
    /\ \A e \in Posted' : ledger'[e].unit = Gold

BooksInit == Init /\ workload \in {"payments", "corrections", "receipts"}

BooksNext ==
    /\ Next
    /\ UNCHANGED workload
    /\ workload = "payments"     => /\ InFlight # {} => PostedBySettlement
                                    /\ UNCHANGED <<correcting, handling>>
    /\ workload = "corrections"  => FinalPaymentsInGold /\ UNCHANGED handling
    /\ workload = "receipts"     => FinalPaymentsInGold /\ UNCHANGED correcting

Books == BooksInit /\ [][BooksNext]_<<vars, workload>>

\* As long as nothing is posted while a settlement is at work, no settlement
\* takes a unit's balance past zero: the preview's balance is still the one
\* the payment meets.
SolePaymentsNeverCrossZero ==
    [][workload = "payments" => PaysWithinBalance]_<<vars, workload>>
=============================================================================
