----------------------------- MODULE MCAccruals -----------------------------
(***************************************************************************)
(* Instances of Accruals for TLC: an original paid by commission, a daily   *)
(* wager who replaces it, and a third collaborator either may be given to.  *)
(***************************************************************************)
EXTENDS Accruals, TLC

CONSTANTS original, standIn,  \* the assignments
          digger, wager, spare \* the collaborators

GoldTerms  == [kind |-> "GOLD_COMMISSION", rate |-> 50, split |-> 50, grams |-> 1]
DailyTerms == [kind |-> "DAILY_BRL", rate |-> 3, split |-> 50, grams |-> 1]
FixedTerms == [kind |-> "FIXED_BRL_DAILY", rate |-> 2, split |-> 50, grams |-> 1]
AllTerms   == {GoldTerms, DailyTerms, FixedTerms}

\* Planned when the first run is created: both included, the stand-in linked to
\* the original, who is absent or to be marked; the rest is left to the edits.
PlannedInit ==
    /\ \E outcome \in {"NONE", "SICK_DAY_OFF", "TIME_OFF"} :
          plan = original :> [status |-> "INCLUDED", holder |-> digger,
                              outcome |-> outcome, replaces |-> NoAssignment]
              @@ standIn  :> [status |-> "INCLUDED", holder |-> wager,
                              outcome |-> "WORKED", replaces |-> original]
    /\ period = "PLANNING"
    /\ terms = digger :> GoldTerms @@ wager :> DailyTerms @@ spare :> FixedTerms
    /\ AccrualsInit

PlannedSpec == PlannedInit /\ [][AccrualsNext]_accrualVars

AccrualSymmetry == Permutations(Runs) \cup Permutations(Calculations)
                   \cup Permutations(Accruers)
=============================================================================
