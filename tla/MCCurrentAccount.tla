-------------------------- MODULE MCCurrentAccount --------------------------
(***************************************************************************)
(* Instances of CurrentAccount for TLC.  Each configuration chooses which  *)
(* calls may be in flight and which requests and postings occur.           *)
(***************************************************************************)
EXTENDS CurrentAccount, TLC

CONSTANTS BRL

Posting(direction, unit, amount) ==
    [direction |-> direction, unit |-> unit, amount |-> amount]

Replacing(type, direction, unit, amount) ==
    [type |-> type, direction |-> direction, unit |-> unit, amount |-> amount]

\* One unit of value: credits and debits of one and two.
GoldPostings == {Posting("CREDIT", Gold, 2), Posting("DEBIT", Gold, 1)}
GoldCredits  == {Posting("CREDIT", Gold, 1), Posting("CREDIT", Gold, 2)}
GoldPayouts  == {[u \in Units |-> 1], [u \in Units |-> 2]}

UnitPostings == {Posting("CREDIT", Gold, 1), Posting("DEBIT", Gold, 1)}

\* Two units, so that a settlement posts one or two entries.
MixedPostings == UnitPostings \cup {Posting("CREDIT", BRL, 1)}
MixedPayouts  == {[u \in Units |-> 1], [u \in Units |-> IF u = Gold THEN 1 ELSE 0]}

GoldReplacements == {Replacing("ORDINARY", "CREDIT", Gold, 1),
                     Replacing("FINAL_SETTLEMENT", "DEBIT", Gold, 2)}
SameReplacement  == {Replacing("ORDINARY", "CREDIT", Gold, 1)}

Symmetry == Permutations(EntryIds) \cup Permutations(Settlers)
            \cup Permutations(RequestIds)
=============================================================================
