----------------------------- MODULE MCExpenses -----------------------------
(***************************************************************************)
(* Instances of Expenses for TLC.                                          *)
(***************************************************************************)
EXTENDS Expenses, TLC

CONSTANT BRL

TwoCharges == {[unit |-> BRL, amount |-> 1], [unit |-> BRL, amount |-> 2]}
OneCharge  == {[unit |-> BRL, amount |-> 1]}

ExpenseSymmetry == Permutations(EntryIds) \cup Permutations(ExpenseIds)
                   \cup Permutations(Clients)
=============================================================================
