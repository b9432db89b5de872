---------------------------- MODULE LedgerProofs ----------------------------
(***************************************************************************)
(* What the ledger keeps, for any number of calls in flight and entries:   *)
(* corrections, balances and receipts.                                     *)
(***************************************************************************)
EXTENDS CurrentAccountProofs, FiniteSetTheorems, WellFoundedInduction

-----------------------------------------------------------------------------
(***************************************************************************)
(* Corrections.  An entry is reversed once, by its mirror image, and       *)
(* replaced once: the check HasReversal of a call may be stale when the    *)
(* call commits, the unique index is not.                                  *)
(***************************************************************************)
CorrectionInv == /\ ReversalIntegrity
                 /\ ReplacementIntegrity
                 /\ \A e \in Posted : ledger[e].source = "EXPENSE" =>
                                         ledger[e].correction # "REVERSAL"

\* Entries that correct nothing disturb no correction.
LEMMA OriginalsKeepCorrections ==
    ASSUME TypeInv, CorrectionInv, NEW new, DOMAIN new \subseteq Unused,
           \A e \in DOMAIN new : new[e] \in Entry /\ new[e].correction = "ORIGINAL",
           ledger' = [e \in EntryIds |-> IF e \in DOMAIN new THEN new[e] ELSE ledger[e]]
    PROVE  CorrectionInv'
  <1>0. \A e \in EntryIds : ledger[e] # NoEntry => ledger[e] \in Entry
    BY DEF TypeInv, TypeOK, LedgerTypeOK
  <1>1. \A e \in EntryIds : /\ e \in DOMAIN new => e \in Posted' /\ ledger'[e] = new[e]
                            /\ e \notin DOMAIN new => /\ ledger'[e] = ledger[e]
                                                      /\ e \in Posted' <=> e \in Posted
                            /\ e \in Posted => ledger'[e] = ledger[e] /\ e \in Posted'
    BY LedgerNulls DEF Posted, Unused
  <1>2. \A r \in EntryIds, e \in EntryIds \cup {NoEntry} : Reverses(r, e)' <=> Reverses(r, e)
    BY <1>1 DEF Reverses, Unused
  <1>3. \A p \in EntryIds, e \in EntryIds \cup {NoEntry} : Replaces(p, e)' <=> Replaces(p, e)
    BY <1>1 DEF Replaces, Unused
  <1>4. ReversalIntegrity'
    <2>1. ASSUME NEW r \in Posted', ledger'[r].correction = "REVERSAL"
          PROVE  ledger'[r].related \in Posted'
      BY <1>1, <2>1 DEF CorrectionInv, ReversalIntegrity, Posted
    <2>2. ASSUME NEW r \in EntryIds, NEW o \in EntryIds, Reverses(r, o)
          PROVE  ledger'[r] = ledger[r] /\ ledger'[o] = ledger[o]
      BY <1>1, <2>2 DEF Reverses, CorrectionInv, ReversalIntegrity
    <2> QED BY <1>2, <2>1, <2>2 DEF CorrectionInv, ReversalIntegrity
  <1>5. ReplacementIntegrity'
    BY <1>2, <1>3 DEF CorrectionInv, ReplacementIntegrity, HasReversal
  <1>6. \A e \in Posted' : ledger'[e].source = "EXPENSE" => ledger'[e].correction # "REVERSAL"
    BY <1>1 DEF CorrectionInv, Posted
  <1> QED BY <1>4, <1>5, <1>6 DEF CorrectionInv

\* A fresh mirror image of an entry that has none yet, alone or with the
\* replacement of that entry, leaves every entry reversed and replaced at
\* most once.
LEMMA CorrectionsKeepCorrections ==
    ASSUME TypeInv, CorrectionInv, NEW t \in Posted, NEW r \in Unused, NEW p \in EntryIds,
           NEW new, DOMAIN new \subseteq {r, p}, r \in DOMAIN new,
           p \in DOMAIN new \ {r} =>
              /\ p \in Unused
              /\ new[p] \in Entry
              /\ new[p].correction = "REPLACEMENT"
              /\ new[p].related = t
              /\ new[p].source # "EXPENSE",
           new[r] = ReversalOf(t),
           ledger[t].correction # "REVERSAL",
           ~HasReversal(t),
           ledger' = [e \in EntryIds |-> IF e \in DOMAIN new THEN new[e] ELSE ledger[e]]
    PROVE  CorrectionInv'
  <1>0. /\ \A e \in EntryIds : ledger[e] # NoEntry => ledger[e] \in Entry
        /\ t \in EntryIds /\ r \in EntryIds /\ r # t
        /\ ReversalOf(t) \in Entry
    BY ReversalType DEF TypeInv, TypeOK, LedgerTypeOK, Posted, Unused
  <1>1. /\ \A e \in Posted : ledger'[e] = ledger[e] /\ e \in Posted' /\ e \in EntryIds
        /\ \A e \in Posted' \ Posted : e \in DOMAIN new /\ ledger'[e] = new[e]
        /\ r \in Posted' /\ ledger'[r] = ReversalOf(t)
    BY <1>0, LedgerNulls DEF Posted, Unused
  <1>2. \A x \in EntryIds, e \in EntryIds \cup {NoEntry} :
           Reverses(x, e)' <=> Reverses(x, e) \/ (x = r /\ e = t)
    <2>1. /\ ledger'[r].correction = "REVERSAL" /\ ledger'[r].related = t
          /\ ~(r \in Posted)
      BY <1>1 DEF ReversalOf, Unused
    <2>2. \A x \in Posted' \ Posted : x # r => ledger'[x].correction # "REVERSAL"
      BY <1>1
    <2> QED BY <1>1, <2>1, <2>2 DEF Reverses
  <1>3. \A x \in EntryIds, e \in EntryIds \cup {NoEntry} :
           Replaces(x, e)' <=> Replaces(x, e) \/ (x = p /\ e = t /\ p \in DOMAIN new \ {r})
    <2>1. ledger'[r].correction # "REPLACEMENT" /\ r \notin Posted
      BY <1>1 DEF ReversalOf, Unused
    <2>2. \A x \in Posted' \ Posted : x # r => x = p /\ p \in DOMAIN new \ {r}
      BY <1>1
    <2>3. p \in DOMAIN new \ {r} => /\ p \in Posted' /\ ledger'[p] = new[p]
                                    /\ p \notin Posted
      BY LedgerNulls DEF Posted, Unused
    <2> QED BY <1>1, <2>1, <2>2, <2>3 DEF Replaces
  <1>4. ReversalIntegrity'
    <2>1. ASSUME NEW x \in Posted', ledger'[x].correction = "REVERSAL"
          PROVE  ledger'[x].related \in Posted'
      <3>1. CASE x \in Posted
        BY <1>1, <2>1, <3>1 DEF CorrectionInv, ReversalIntegrity
      <3>2. CASE x = r
        BY <1>1, <3>2 DEF ReversalOf
      <3>3. CASE x \notin Posted /\ x # r
        BY <1>1, <2>1, <3>3
      <3> QED BY <3>1, <3>2, <3>3
    <2>2. ASSUME NEW x \in EntryIds, NEW o \in EntryIds, Reverses(x, o)'
          PROVE  /\ ledger'[o].correction # "REVERSAL"
                 /\ ledger'[x].unit = ledger'[o].unit
                 /\ ledger'[x].amount = ledger'[o].amount
                 /\ ledger'[x].direction = Opposite(ledger'[o].direction)
                 /\ \A r2 \in EntryIds : Reverses(r2, o)' => r2 = x
      <3>1. CASE Reverses(x, o)
        <4>1. x \in Posted /\ o \in Posted /\ o # t
          BY <3>1 DEF Reverses, CorrectionInv, ReversalIntegrity, HasReversal
        <4>2. /\ ledger[o].correction # "REVERSAL"
              /\ ledger[x].unit = ledger[o].unit
              /\ ledger[x].amount = ledger[o].amount
              /\ ledger[x].direction = Opposite(ledger[o].direction)
              /\ \A r2 \in EntryIds : Reverses(r2, o) => r2 = x
          BY <3>1 DEF CorrectionInv, ReversalIntegrity
        <4>3. ledger'[x] = ledger[x] /\ ledger'[o] = ledger[o]
          BY <1>1, <4>1
        <4>4. \A r2 \in EntryIds : Reverses(r2, o)' => r2 = x
          BY <1>2, <4>1, <4>2
        <4> QED BY <4>2, <4>3, <4>4
      <3>2. CASE x = r /\ o = t
        <4>1. \A r2 \in EntryIds : ~Reverses(r2, t)
          BY DEF HasReversal
        <4> QED BY <1>0, <1>1, <1>2, <3>2, <4>1 DEF ReversalOf
      <3> QED BY <1>2, <2>2, <3>1, <3>2
    <2> QED BY <2>1, <2>2 DEF ReversalIntegrity
  <1>5. ReplacementIntegrity'
    <2>1. \A p2 \in EntryIds : ~Replaces(p2, t)
      BY <1>0 DEF CorrectionInv, ReplacementIntegrity
    <2>2. HasReversal(t)'
      BY <1>0, <1>2 DEF HasReversal
    <2>3. \A e \in EntryIds \cup {NoEntry} : HasReversal(e) => HasReversal(e)'
      BY <1>2 DEF HasReversal
    <2> QED BY <1>0, <1>3, <2>1, <2>2, <2>3 DEF CorrectionInv, ReplacementIntegrity
  <1>6. \A e \in Posted' : ledger'[e].source = "EXPENSE" => ledger'[e].correction # "REVERSAL"
    BY <1>1 DEF CorrectionInv, ReversalOf
  <1> QED BY <1>4, <1>5, <1>6 DEF CorrectionInv

\* Steps that write no entry.
LEMMA SameLedgerKeepsCorrections ==
    ASSUME CorrectionInv, ledger' = ledger
    PROVE  CorrectionInv'
  BY DEF CorrectionInv, ReversalIntegrity, ReplacementIntegrity, Posted, Reverses,
         Replaces, HasReversal

\* Every step leaves each entry reversed at most once and replaced at most once.
LEMMA CorrectionNext ==
    ASSUME TypeInv, CorrectionInv, [Next]_vars
    PROVE  CorrectionInv'
  <1>1. CASE ledger' = ledger
    BY <1>1, SameLedgerKeepsCorrections
  <1>2. ASSUME NEW s \in Settlers, CreateSettlementWithEntries(s)
        PROVE  CorrectionInv'
    <2> DEFINE call == settling[s]
    <2>1. /\ call \in SettlementCall
          /\ call.request \in RequestIds
      BY <1>2 DEF TypeInv, TypeOK, SettlementsTypeOK, RequestsNamed, PaymentTypes,
                  FinalTypes, CreateSettlementWithEntries
    <2>2. PICK id \in [SettledUnits(call) -> Unused] :
             CreateEntries([e \in {id[u] : u \in DOMAIN id} |->
                 SettlementEntry(call, CHOOSE u \in DOMAIN id : id[u] = e)])
      BY <1>2 DEF CreateSettlementWithEntries, PostSettlementEntries
    <2> DEFINE new == [e \in {id[u] : u \in DOMAIN id} |->
                         SettlementEntry(call, CHOOSE u \in DOMAIN id : id[u] = e)]
    <2>3. /\ DOMAIN new \subseteq Unused
          /\ \A e \in DOMAIN new : new[e] \in Entry
      BY <2>1, <2>2, SettlementEntriesType
    <2>4. \A e \in DOMAIN new : new[e].correction = "ORIGINAL"
      BY DEF SettlementEntry
    <2>5. ledger' = [e \in EntryIds |-> IF e \in DOMAIN new THEN new[e] ELSE ledger[e]]
      BY <2>2 DEF CreateEntries
    <2> HIDE DEF new
    <2> QED BY <2>3, <2>4, <2>5, OriginalsKeepCorrections
  <1>3. ASSUME NEW c \in Correctors, CreateCorrectionEntries(c)
        PROVE  CorrectionInv'
    <2> DEFINE t == correcting[c].target
    <2>1. /\ t \in Posted
          /\ ledger[t].correction # "REVERSAL"
          /\ ~HasReversal(t)
      BY <1>3 DEF TypeInv, CorrectionTargets, CreateCorrectionEntries,
                  SingleReversalIndex
    <2>2. PICK r, p, new :
              /\ r \in Unused /\ p \in EntryIds
              /\ CreateEntries(new)
              /\ new[r] = ReversalOf(t)
              /\ \A e \in DOMAIN new : new[e] \in Entry
              /\ \/ DOMAIN new = {r}
                 \/ /\ p \in Unused \ {r}
                    /\ DOMAIN new = {r, p}
                    /\ new[p] = ReplacementEntry(correcting[c])
      BY <1>3, CorrectionEntries
    <2>3. p \in DOMAIN new \ {r} => /\ p \in Unused
                                    /\ new[p] \in Entry
                                    /\ new[p].correction = "REPLACEMENT"
                                    /\ new[p].related = t
                                    /\ new[p].source # "EXPENSE"
      BY <2>2 DEF ReplacementEntry
    <2>4. ledger' = [e \in EntryIds |-> IF e \in DOMAIN new THEN new[e] ELSE ledger[e]]
      BY <2>2 DEF CreateEntries
    <2>5. DOMAIN new \subseteq {r, p} /\ r \in DOMAIN new
      BY <2>2
    <2> QED BY <2>1, <2>2, <2>3, <2>4, <2>5, CorrectionsKeepCorrections
  <1>4. ASSUME NEW p \in OrdinaryPostings, PostOrdinaryEntry(p)
        PROVE  CorrectionInv'
    <2>1. PICK e \in Unused : CreateEntries([x \in {e} |-> OrdinaryEntry(p)])
      BY <1>4 DEF PostOrdinaryEntry
    <2> DEFINE new == [x \in {e} |-> OrdinaryEntry(p)]
    <2>2. /\ DOMAIN new \subseteq Unused
          /\ \A x \in DOMAIN new : new[x] \in Entry /\ new[x].correction = "ORIGINAL"
      BY OrdinaryEntryType DEF OrdinaryEntry
    <2>3. ledger' = [x \in EntryIds |-> IF x \in DOMAIN new THEN new[x] ELSE ledger[x]]
      BY <2>1 DEF CreateEntries
    <2> HIDE DEF new
    <2> QED BY <2>2, <2>3, OriginalsKeepCorrections
  <1>5. ASSUME NEW e \in EntryIds, CancelExpense(e)
        PROVE  CorrectionInv'
    <2>1. /\ e \in Posted
          /\ ledger[e].correction # "REVERSAL"
          /\ ~HasReversal(e)
      BY <1>5 DEF CancelExpense, CorrectionInv
    <2>2. PICK r \in Unused : ledger' = [ledger EXCEPT ![r] = ReversalOf(e)]
      BY <1>5 DEF CancelExpense
    <2> DEFINE new == [x \in {r} |-> ReversalOf(e)]
    <2>3. ledger' = [x \in EntryIds |-> IF x \in DOMAIN new THEN new[x] ELSE ledger[x]]
      BY <2>2 DEF TypeInv, TypeOK, LedgerTypeOK
    <2>4. DOMAIN new \subseteq {r, e} /\ r \in DOMAIN new /\ new[r] = ReversalOf(e)
          /\ ~(e \in DOMAIN new \ {r})
      BY <2>1 DEF Unused
    <2> HIDE DEF new
    <2> QED BY <2>1, <2>3, <2>4, CorrectionsKeepCorrections
  <1> QED BY <1>1, <1>2, <1>3, <1>4, <1>5, EntryWriters

\* Initially nothing is corrected.
LEMMA CorrectionInit == Init => CorrectionInv
  BY LedgerNulls DEF Init, CorrectionInv, ReversalIntegrity, ReplacementIntegrity, Posted,
         Reverses, Replaces, HasReversal, OrdinaryEntry

\* For any number of correction and cancellation requests in flight, an entry
\* is reversed at most once, by an exact mirror image, and never a reversal.
THEOREM ReversedOnce == Spec => []ReversalIntegrity
  <1>1. TypeInv /\ CorrectionInv /\ [Next]_vars => (TypeInv /\ CorrectionInv)'
    BY TypeNext, CorrectionNext
  <1>2. CorrectionInv => ReversalIntegrity
    BY DEF CorrectionInv
  <1> QED BY <1>1, <1>2, TypeInit, CorrectionInit, PTL DEF Spec

\* A replacement always stands for a reversed entry, and alone.
THEOREM ReplacedOnce == Spec => []ReplacementIntegrity
  <1>1. TypeInv /\ CorrectionInv /\ [Next]_vars => (TypeInv /\ CorrectionInv)'
    BY TypeNext, CorrectionNext
  <1>2. CorrectionInv => ReplacementIntegrity
    BY DEF CorrectionInv
  <1> QED BY <1>1, <1>2, TypeInit, CorrectionInit, PTL DEF Spec

-----------------------------------------------------------------------------
(***************************************************************************)
(* Balances.  Balance sums a unit's entries with a fold that picks them in *)
(* an order of its own; any order gives the same sum, so an entry and its  *)
(* reversal may be taken out together.  Induction over sets is by the      *)
(* smallest set that is not as claimed.                                    *)
(***************************************************************************)
\* The sum of the signed amounts of a set of entries, as Balance computes it:
\* a fold picks the entries one by one, and what it has at every subset is a
\* function.
SumOf(L, S) == MapThenSumSet(LAMBDA e : Signed(L[e]), S)

Picked(s) == CHOOSE x \in s : TRUE

Totals(L, g, S) ==
    g = [s \in SUBSET S |->
            IF s = {} THEN 0 ELSE Signed(L[Picked(s)]) + g[s \ {Picked(s)}]]

LEMMA SumIsTotal ==
    ASSUME NEW L, NEW S
    PROVE  SumOf(L, S) = (CHOOSE g : Totals(L, g, S))[S]
  BY DEF SumOf, Totals, Picked, MapThenSumSet, MapThenFoldSet

LEMMA PickedIsIn == ASSUME NEW s, s # {} PROVE Picked(s) \in s
  BY DEF Picked

\* Of finite sets that are not as claimed, one has no smaller one beside it.
LEMMA SmallestSet ==
    ASSUME NEW C, C # {}, \A S \in C : IsFiniteSet(S)
    PROVE  \E S \in C : \A T \in C : ~(Cardinality(T) < Cardinality(S))
  <1> DEFINE R == OpToRel(<, Nat)
             N == {Cardinality(S) : S \in C}
  <1>1. IsWellFoundedOn(R, Nat)
    BY NatLessThanWellFounded
  <1>2. \A S \in C : Cardinality(S) \in Nat
    BY FS_CardinalityType
  <1>3. N \subseteq Nat /\ N # {}
    BY <1>2
  <1>4. \A a, b \in Nat : a < b => <<a, b>> \in R
    BY DEF OpToRel
  <1>5. \A S \in C : Cardinality(S) \in N
    OBVIOUS
  <1>6. \A n \in N : \E S \in C : n = Cardinality(S)
    OBVIOUS
  <1> HIDE DEF R, N
  <1>7. PICK n \in N : \A k \in N : ~(<<k, n>> \in R)
    BY <1>1, <1>3, WFMin
  <1>8. PICK S \in C : n = Cardinality(S)
    BY <1>6
  <1> QED BY <1>2, <1>4, <1>5, <1>7, <1>8

LEMMA SmallerSubset ==
    ASSUME NEW S, IsFiniteSet(S), NEW T, T \subseteq S, T # S
    PROVE  IsFiniteSet(T) /\ Cardinality(T) < Cardinality(S)
  <1>1. T \in SUBSET S
    OBVIOUS
  <1>2. IsFiniteSet(T) /\ Cardinality(T) <= Cardinality(S) /\ Cardinality(T) # Cardinality(S)
    BY <1>1, FS_Subset
  <1>3. Cardinality(T) \in Nat /\ Cardinality(S) \in Nat
    BY <1>2, FS_CardinalityType
  <1> QED BY <1>2, <1>3

LEMMA TotalsAt ==
    ASSUME NEW L, NEW S, NEW g, Totals(L, g, S), NEW s, s \subseteq S
    PROVE  g[s] = IF s = {} THEN 0 ELSE Signed(L[Picked(s)]) + g[s \ {Picked(s)}]
  <1> DEFINE h == [r \in SUBSET S |-> IF r = {} THEN 0 ELSE Signed(L[Picked(r)]) + g[r \ {Picked(r)}]]
  <1>1. g = h
    BY DEF Totals
  <1>2. s \in SUBSET S
    OBVIOUS
  <1>3. h[s] = IF s = {} THEN 0 ELSE Signed(L[Picked(s)]) + g[s \ {Picked(s)}]
    BY <1>2
  <1> QED BY <1>1, <1>3

\* Two functions of this kind agree wherever both are defined.
LEMMA TotalsAgree ==
    ASSUME NEW L, NEW S, NEW T, NEW g, NEW h, Totals(L, g, S), Totals(L, h, T),
           NEW s, s \subseteq S, s \subseteq T, IsFiniteSet(s)
    PROVE  g[s] = h[s]
  <1> DEFINE C == {r \in SUBSET s : g[r] # h[r]}
  <1> SUFFICES ASSUME C # {} PROVE FALSE
    <2>1. C = {} => g[s] = h[s]
      OBVIOUS
    <2> QED BY <2>1
  <1>1. \A r \in C : IsFiniteSet(r)
    BY FS_Subset
  <1>2. PICK r \in C : \A q \in C : ~(Cardinality(q) < Cardinality(r))
    <2> HIDE DEF C
    <2> QED BY <1>1, SmallestSet
  <1>3. r \subseteq S /\ r \subseteq T /\ g[r] # h[r] /\ r \subseteq s
    OBVIOUS
  <1>4. g[r] = IF r = {} THEN 0 ELSE Signed(L[Picked(r)]) + g[r \ {Picked(r)}]
    BY <1>3, TotalsAt
  <1>5. h[r] = IF r = {} THEN 0 ELSE Signed(L[Picked(r)]) + h[r \ {Picked(r)}]
    BY <1>3, TotalsAt
  <1>6. r # {}
    BY <1>3, <1>4, <1>5
  <1>7. Picked(r) \in r
    BY <1>6, PickedIsIn
  <1>8. Cardinality(r \ {Picked(r)}) < Cardinality(r)
    BY <1>1, <1>7, SmallerSubset
  <1>9. r \ {Picked(r)} \notin C
    BY <1>2, <1>8
  <1>10. g[r \ {Picked(r)}] = h[r \ {Picked(r)}]
    BY <1>3, <1>9
  <1> QED BY <1>3, <1>4, <1>5, <1>6, <1>10

\* Such a function exists over a finite set.
LEMMA TotalsExist ==
    ASSUME NEW L, NEW S, IsFiniteSet(S)
    PROVE  \E g : Totals(L, g, S)
  <1> DEFINE C == {T \in SUBSET S : ~\E g : Totals(L, g, T)}
  <1> SUFFICES ASSUME C # {} PROVE FALSE
    <2>1. C = {} => \E g : Totals(L, g, S)
      OBVIOUS
    <2> QED BY <2>1
  <1>1. \A T \in C : IsFiniteSet(T)
    BY FS_Subset
  <1>2. PICK T \in C : \A q \in C : ~(Cardinality(q) < Cardinality(T))
    <2> HIDE DEF C
    <2> QED BY <1>1, SmallestSet
  <1>3. T \subseteq S /\ IsFiniteSet(T) /\ ~\E g : Totals(L, g, T)
    BY <1>1
  <1>4. ASSUME NEW q, q \subseteq T, q # T
        PROVE  IsFiniteSet(q) /\ \E g : Totals(L, g, q)
    <2>1. IsFiniteSet(q) /\ Cardinality(q) < Cardinality(T)
      BY <1>3, <1>4, SmallerSubset
    <2>2. q \notin C
      BY <1>2, <2>1
    <2> QED BY <1>3, <1>4, <2>1, <2>2
  <1> DEFINE G(q) == CHOOSE g : Totals(L, g, q)
             rest(s) == s \ {Picked(s)}
             h == [s \in SUBSET T |->
                      IF s = {} THEN 0 ELSE Signed(L[Picked(s)]) + G(rest(s))[rest(s)]]
             k == [s \in SUBSET T |->
                      IF s = {} THEN 0 ELSE Signed(L[Picked(s)]) + h[rest(s)]]
  <1>5. ASSUME NEW q, q \subseteq T, q # T PROVE Totals(L, G(q), q)
    BY <1>4, <1>5
  <1>6. ASSUME NEW s \in SUBSET T, s # {} PROVE h[rest(s)] = G(rest(s))[rest(s)]
    <2>1. PICK q : q = rest(s)
      OBVIOUS
    <2>2. Picked(s) \in s
      BY <1>6, PickedIsIn
    <2>3. q \subseteq T /\ q # T
      BY <2>1, <2>2
    <2>4. Totals(L, G(q), q)
      BY <1>5, <2>3
    <2>5. h[q] = IF q = {} THEN 0 ELSE Signed(L[Picked(q)]) + G(rest(q))[rest(q)]
      BY <2>3
    <2>6. G(q)[q] = IF q = {} THEN 0 ELSE Signed(L[Picked(q)]) + G(q)[rest(q)]
      <3> HIDE DEF G
      <3> QED BY <2>4, TotalsAt
    <2>7. ASSUME q # {} PROVE G(rest(q))[rest(q)] = G(q)[rest(q)]
      <3>1. PICK p : p = rest(q)
        OBVIOUS
      <3>2. Picked(q) \in q
        BY <2>7, PickedIsIn
      <3>3. p \subseteq T /\ p # T /\ p \subseteq q
        BY <2>3, <3>1, <3>2
      <3>4. Totals(L, G(p), p) /\ IsFiniteSet(p)
        BY <1>4, <1>5, <3>3
      <3>5. G(p)[p] = G(q)[p]
        <4> HIDE DEF G
        <4> QED BY <2>4, <3>3, <3>4, TotalsAgree
      <3> QED BY <3>1, <3>5
    <2>8. h[q] = G(q)[q]
      BY <2>5, <2>6, <2>7
    <2> QED BY <2>1, <2>8
  <1>7. h = k
    <2>1. ASSUME NEW s \in SUBSET T PROVE h[s] = k[s]
      <3>1. h[s] = IF s = {} THEN 0 ELSE Signed(L[Picked(s)]) + G(rest(s))[rest(s)]
        OBVIOUS
      <3>2. k[s] = IF s = {} THEN 0 ELSE Signed(L[Picked(s)]) + h[rest(s)]
        BY Zenon
      <3>3. s # {} => h[rest(s)] = G(rest(s))[rest(s)]
        BY <1>6
      <3> HIDE DEF h, k, G, rest
      <3> QED BY <3>1, <3>2, <3>3
    <2> QED BY <2>1
  <1>8. Totals(L, h, T)
    BY <1>7 DEF Totals
  <1> QED BY <1>3, <1>8

\* What the fold has at a set of entries.
LEMMA SumAt ==
    ASSUME NEW L, NEW S, IsFiniteSet(S), NEW T, T \subseteq S
    PROVE  /\ T = {} => SumOf(L, T) = 0
           /\ T # {} => SumOf(L, T) = Signed(L[Picked(T)]) + SumOf(L, T \ {Picked(T)})
  <1>1. IsFiniteSet(T) /\ IsFiniteSet(T \ {Picked(T)})
    BY FS_Subset, FS_RemoveElement
  <1> DEFINE G(q) == CHOOSE g : Totals(L, g, q)
  <1>2. Totals(L, G(T), T) /\ SumOf(L, T) = G(T)[T]
    BY <1>1, TotalsExist, SumIsTotal
  <1>3. PICK q : q = T \ {Picked(T)}
    OBVIOUS
  <1>4. Totals(L, G(q), q) /\ SumOf(L, q) = G(q)[q]
    BY <1>1, <1>3, TotalsExist, SumIsTotal
  <1> HIDE DEF G
  <1>5. G(T)[T] = IF T = {} THEN 0 ELSE Signed(L[Picked(T)]) + G(T)[q]
    BY <1>2, <1>3, TotalsAt
  <1>6. G(T)[q] = G(q)[q]
    <2>1. q \subseteq T
      BY <1>3
    <2> QED BY <1>1, <1>2, <1>3, <1>4, <2>1, TotalsAgree
  <1> QED BY <1>2, <1>3, <1>4, <1>5, <1>6

\* The order in which the fold picks the entries does not matter.
LEMMA SumWithout ==
    ASSUME NEW L, NEW S, IsFiniteSet(S), \A e \in S : Signed(L[e]) \in Int
    PROVE  /\ SumOf(L, S) \in Int
           /\ \A y \in S : SumOf(L, S) = Signed(L[y]) + SumOf(L, S \ {y})
  <1> DEFINE Good(T) == /\ SumOf(L, T) \in Int
                        /\ \A y \in T : SumOf(L, T) = Signed(L[y]) + SumOf(L, T \ {y})
             C == {T \in SUBSET S : ~Good(T)}
  <1> SUFFICES ASSUME C # {} PROVE FALSE
    <2>1. C = {} => Good(S)
      <3> HIDE DEF Good
      <3> QED OBVIOUS
    <2> QED BY <2>1
  <1>1. \A T \in C : IsFiniteSet(T)
    BY FS_Subset
  <1>2. PICK T \in C : \A q \in C : ~(Cardinality(q) < Cardinality(T))
    <2> HIDE DEF C
    <2> QED BY <1>1, SmallestSet
  <1>3. T \subseteq S /\ IsFiniteSet(T) /\ ~Good(T)
    BY <1>1
  <1>4. ASSUME NEW q, q \subseteq T, q # T PROVE Good(q)
    <2>1. Cardinality(q) < Cardinality(T)
      BY <1>3, <1>4, SmallerSubset
    <2>2. q \in SUBSET S /\ q \notin C
      BY <1>2, <1>3, <1>4, <2>1
    <2> HIDE DEF Good
    <2> QED BY <2>2
  <1>5. CASE T = {}
    <2>1. SumOf(L, T) = 0
      BY <1>3, <1>5, SumAt
    <2> QED BY <1>3, <1>5, <2>1
  <1>6. CASE T # {}
    <2>1. PICK x : x = Picked(T)
      OBVIOUS
    <2>2. x \in T /\ Signed(L[x]) \in Int
      BY <1>3, <1>6, <2>1, PickedIsIn
    <2>3. SumOf(L, T) = Signed(L[x]) + SumOf(L, T \ {x})
      BY <1>3, <1>6, <2>1, SumAt
    <2>4. Good(T \ {x})
      BY <1>4, <2>2
    <2>5. SumOf(L, T) \in Int
      BY <2>2, <2>3, <2>4
    <2>6. ASSUME NEW y \in T, y # x PROVE SumOf(L, T) = Signed(L[y]) + SumOf(L, T \ {y})
      <3>1. Good(T \ {y}) /\ Good((T \ {x}) \ {y})
        BY <1>4, <2>2
      <3>2. (T \ {x}) \ {y} = (T \ {y}) \ {x}
        OBVIOUS
      <3>3. SumOf(L, T \ {x}) = Signed(L[y]) + SumOf(L, (T \ {x}) \ {y})
        BY <2>4, <2>6
      <3>4. SumOf(L, T \ {y}) = Signed(L[x]) + SumOf(L, (T \ {x}) \ {y})
        BY <2>2, <2>6, <3>1, <3>2
      <3>5. Signed(L[y]) \in Int /\ SumOf(L, (T \ {x}) \ {y}) \in Int
        BY <1>3, <3>1
      <3> QED BY <2>2, <2>3, <3>3, <3>4, <3>5
    <2> QED BY <1>3, <2>3, <2>5, <2>6
  <1> QED BY <1>5, <1>6

\* Ledgers with the same rows at S have the same sum there.
LEMMA SumSame ==
    ASSUME NEW L, NEW M, NEW S, IsFiniteSet(S), \A e \in S : L[e] = M[e]
    PROVE  SumOf(L, S) = SumOf(M, S)
  <1> DEFINE C == {T \in SUBSET S : SumOf(L, T) # SumOf(M, T)}
  <1> SUFFICES ASSUME C # {} PROVE FALSE
    <2>1. C = {} => SumOf(L, S) = SumOf(M, S)
      OBVIOUS
    <2> QED BY <2>1
  <1>1. \A T \in C : IsFiniteSet(T)
    BY FS_Subset
  <1>2. PICK T \in C : \A q \in C : ~(Cardinality(q) < Cardinality(T))
    <2> HIDE DEF C
    <2> QED BY <1>1, SmallestSet
  <1>3. T \subseteq S /\ IsFiniteSet(T) /\ SumOf(L, T) # SumOf(M, T)
    BY <1>1
  <1>4. T # {} /\ Picked(T) \in T
    BY <1>3, SumAt, PickedIsIn
  <1>5. /\ SumOf(L, T) = Signed(L[Picked(T)]) + SumOf(L, T \ {Picked(T)})
        /\ SumOf(M, T) = Signed(M[Picked(T)]) + SumOf(M, T \ {Picked(T)})
    BY <1>3, <1>4, SumAt
  <1>6. Cardinality(T \ {Picked(T)}) < Cardinality(T)
    BY <1>3, <1>4, SmallerSubset
  <1>7. SumOf(L, T \ {Picked(T)}) = SumOf(M, T \ {Picked(T)})
    <2>1. T \ {Picked(T)} \in SUBSET S /\ T \ {Picked(T)} \notin C
      BY <1>2, <1>3, <1>6
    <2> QED BY <2>1
  <1>8. L[Picked(T)] = M[Picked(T)]
    BY <1>3, <1>4
  <1> QED BY <1>3, <1>5, <1>7, <1>8

\* The entries in effect, and sets that hold an entry together with its reversal.
InEffect(S) == {e \in S : ledger[e].correction # "REVERSAL" /\ ~HasReversal(e)}

Paired(S) == \A r \in S, o \in EntryIds : Reverses(r, o) => o \in S

PairedBack(S) == \A o \in S, r \in EntryIds : Reverses(r, o) => r \in S

\* An entry and its reversal add up to nothing.
LEMMA ReversalsCancel ==
    ASSUME LedgerTypeOK, ReversalIntegrity,
           NEW S, S \subseteq Posted, IsFiniteSet(S), Paired(S), PairedBack(S)
    PROVE  SumOf(ledger, S) = SumOf(ledger, InEffect(S))
  <1>0. \A e \in S : Signed(ledger[e]) \in Int
    BY DEF LedgerTypeOK, Posted, Entry, Signed, PosNat
  <1> DEFINE C == {T \in SUBSET S : Paired(T) /\ PairedBack(T) /\ SumOf(ledger, T) # SumOf(ledger, InEffect(T))}
  <1> SUFFICES ASSUME C # {} PROVE FALSE
    <2>1. C = {} => SumOf(ledger, S) = SumOf(ledger, InEffect(S))
      OBVIOUS
    <2> QED BY <2>1
  <1>1. \A T \in C : IsFiniteSet(T)
    BY FS_Subset
  <1>2. PICK T \in C : \A q \in C : ~(Cardinality(q) < Cardinality(T))
    <2> HIDE DEF C
    <2> QED BY <1>1, SmallestSet
  <1>3. /\ T \subseteq S /\ IsFiniteSet(T) /\ Paired(T) /\ PairedBack(T)
        /\ SumOf(ledger, T) # SumOf(ledger, InEffect(T))
    BY <1>1
  <1>4. \A e \in T : e \in Posted /\ e \in EntryIds /\ Signed(ledger[e]) \in Int
    BY <1>0, <1>3 DEF Posted
  <1>5. PICK r \in T, o \in T : Reverses(r, o)
    <2>1. InEffect(T) # T
      BY <1>3
    <2>2. PICK e \in T : ledger[e].correction = "REVERSAL" \/ HasReversal(e)
      BY <2>1 DEF InEffect
    <2>3. CASE ledger[e].correction = "REVERSAL"
      <3>1. ledger[e].related \in Posted /\ Reverses(e, ledger[e].related)
        BY <1>4, <2>3 DEF ReversalIntegrity, Reverses
      <3> QED BY <1>3, <3>1 DEF Paired, Posted
    <2>4. CASE HasReversal(e)
      BY <1>3, <2>4 DEF HasReversal, PairedBack
    <2> QED BY <2>2, <2>3, <2>4
  <1>6. /\ r # o /\ Signed(ledger[r]) + Signed(ledger[o]) = 0
        /\ ledger[r].correction = "REVERSAL" /\ HasReversal(o)
    <2>1. /\ ledger[o].correction # "REVERSAL" /\ ledger[r].correction = "REVERSAL"
          /\ ledger[r].amount = ledger[o].amount
          /\ ledger[r].direction = Opposite(ledger[o].direction)
      BY <1>4, <1>5 DEF ReversalIntegrity, Reverses
    <2>2. ledger[o] \in Entry /\ ledger[r] \in Entry
      BY <1>4 DEF LedgerTypeOK, Posted
    <2>3. ledger[o].amount \in Int /\ ledger[o].direction \in {"CREDIT", "DEBIT"}
      BY <2>2 DEF Entry, PosNat, Directions
    <2>4. Signed(ledger[r]) + Signed(ledger[o]) = 0
      BY <2>1, <2>3 DEF Signed, Opposite
    <2> QED BY <1>4, <1>5, <2>1, <2>4 DEF HasReversal
  <1>7. PICK q : q = (T \ {r}) \ {o}
    OBVIOUS
  <1>8. InEffect(q) = InEffect(T)
    BY <1>6, <1>7 DEF InEffect
  <1>9. SumOf(ledger, T) = SumOf(ledger, q)
    <2>1. SumOf(ledger, T) = Signed(ledger[r]) + SumOf(ledger, T \ {r})
      BY <1>3, <1>4, SumWithout
    <2>2. IsFiniteSet(T \ {r})
      BY <1>3, FS_RemoveElement
    <2>3. SumOf(ledger, T \ {r}) = Signed(ledger[o]) + SumOf(ledger, q)
      BY <1>4, <1>6, <1>7, <2>2, SumWithout
    <2>4. IsFiniteSet(q)
      BY <1>7, <2>2, FS_RemoveElement
    <2>5. SumOf(ledger, q) \in Int
      BY <1>4, <1>7, <2>4, SumWithout
    <2> QED BY <1>4, <1>6, <2>1, <2>3, <2>5
  <1>10. Paired(q) /\ PairedBack(q)
    <2>1. ASSUME NEW r2 \in q, NEW o2 \in EntryIds, Reverses(r2, o2) PROVE o2 \in q
      <3>1. o2 \in T /\ r2 \in EntryIds
        BY <1>3, <1>4, <1>7, <2>1 DEF Paired
      <3>2. o2 # o
        BY <1>4, <1>5, <1>7, <2>1, <3>1 DEF ReversalIntegrity
      <3>3. o2 # r
        BY <1>4, <1>6, <2>1, <3>1 DEF ReversalIntegrity
      <3> QED BY <1>7, <3>1, <3>2, <3>3
    <2>2. ASSUME NEW o2 \in q, NEW r2 \in EntryIds, Reverses(r2, o2) PROVE r2 \in q
      <3>1. r2 \in T
        BY <1>3, <1>7, <2>2 DEF PairedBack
      <3>2. r2 # r
        BY <1>5, <1>7, <2>2 DEF Reverses
      <3>3. r2 # o
        BY <1>4, <1>5, <2>2 DEF ReversalIntegrity, Reverses
      <3> QED BY <1>7, <3>1, <3>2, <3>3
    <2> QED BY <2>1, <2>2 DEF Paired, PairedBack
  <1>11. q \in C
    BY <1>3, <1>7, <1>8, <1>9, <1>10
  <1>12. Cardinality(q) < Cardinality(T)
    BY <1>3, <1>7, SmallerSubset
  <1> QED BY <1>2, <1>11, <1>12

LEMMA EffectiveBalance ==
    ASSUME LedgerTypeOK, ReversalIntegrity, IsFiniteSet(EntryIds)
    PROVE  BalanceOfEntriesInEffect
  <1> SUFFICES ASSUME NEW u \in Units
               PROVE  Balance(u) = MapThenSumSet(LAMBDA e : Signed(ledger[e]),
                        {e \in Posted : /\ ledger[e].unit = u
                                        /\ ledger[e].correction # "REVERSAL"
                                        /\ ~HasReversal(e)})
    BY DEF BalanceOfEntriesInEffect
  <1>1. PICK S : S = {e \in Posted : ledger[e].unit = u}
    OBVIOUS
  <1>2. S \subseteq Posted /\ IsFiniteSet(S)
    <2>1. S \in SUBSET EntryIds
      BY <1>1 DEF Posted
    <2> QED BY <1>1, <2>1, FS_Subset
  <1>3. Paired(S) /\ PairedBack(S)
    <2>1. \A r, o \in EntryIds : Reverses(r, o) =>
             r \in Posted /\ o \in Posted /\ ledger[r].unit = ledger[o].unit
      BY DEF ReversalIntegrity, Reverses
    <2> QED BY <1>1, <2>1 DEF Paired, PairedBack, Posted
  <1>4. SumOf(ledger, S) = SumOf(ledger, InEffect(S))
    BY <1>2, <1>3, ReversalsCancel
  <1>5. Balance(u) = SumOf(ledger, S)
    BY <1>1 DEF Balance, SumOf
  <1>6. InEffect(S) = {e \in Posted : /\ ledger[e].unit = u
                                      /\ ledger[e].correction # "REVERSAL"
                                      /\ ~HasReversal(e)}
    BY <1>1 DEF InEffect
  <1>7. SumOf(ledger, InEffect(S)) = MapThenSumSet(LAMBDA e : Signed(ledger[e]),
                        {e \in Posted : /\ ledger[e].unit = u
                                        /\ ledger[e].correction # "REVERSAL"
                                        /\ ~HasReversal(e)})
    BY <1>6 DEF SumOf
  <1> QED BY <1>4, <1>5, <1>7

\* What the queries report as the balance of a unit is the sum of the entries
\* still in effect, for any ledger the calls can build: reversed entries and
\* their reversals cancel out.
THEOREM BalanceInEffect == Spec => []BalanceOfEntriesInEffect
  <1>1. TypeInv /\ CorrectionInv /\ [Next]_vars => (TypeInv /\ CorrectionInv)'
    BY TypeNext, CorrectionNext
  <1>2. TypeInv /\ CorrectionInv => BalanceOfEntriesInEffect
    BY EffectiveBalance, LedgerFinite DEF TypeInv, TypeOK, CorrectionInv
  <1> QED BY <1>1, <1>2, TypeInit, CorrectionInit, PTL DEF Spec

-----------------------------------------------------------------------------
(***************************************************************************)
(* Receipts.  A receipt call checks the receipt it found and commits       *)
(* later: what it checked about the purpose cannot change meanwhile, what  *)
(* it checked about the status is read again.                              *)
(***************************************************************************)

\* What the receipt calls in flight have found out for good.
ReceiptCallsAim ==
    \A k \in Clerks : handling[k].pc = "commit" =>
        /\ handling[k].op = "RETURN" =>
              receipts[handling[k].target].purpose \notin FinalPurposes
        /\ handling[k].op = "ACCEPT" =>
              receipts[handling[k].target].purpose \in FinalPurposes
        /\ \A e \in handling[k].missing : ledger[e].direction = "DEBIT"

\* Where entries come from decides which receipt they have.
EntryOrigins ==
    /\ \A e \in LegacyDebits : e \in Posted /\ ~IsFinalSettlement(ledger[e])
    /\ \A e \in Posted : ledger[e].source = "EXPENSE" => ledger[e].direction = "DEBIT"

ReceiptInv == /\ ReceiptObligations
              /\ FinalReceiptsCompletedByAcceptance
              /\ ReceiptCallsAim
              /\ EntryOrigins

\* Which receipt an entry may have: final settlement or not, direction,
\* purpose and party.
ReceiptKinds ==
    {<<FALSE, "DEBIT", "LEDGER_DEBIT", "COLLABORATOR">>,
     <<TRUE, "DEBIT", "FINAL_SETTLEMENT_TENANT_PAYMENT", "COLLABORATOR">>,
     <<TRUE, "CREDIT", "FINAL_SETTLEMENT_COLLABORATOR_PAYMENT", "TENANT">>}

-----------------------------------------------------------------------------
\* The ways in which a step may treat the entry e and its receipt.
RowKept(e) == ledger'[e] = ledger[e] /\ receipts'[e] = receipts[e]

RowCreated(e) == /\ e \in Unused
                 /\ ledger'[e] \in Entry
                 /\ ledger'[e].source = "EXPENSE" => ledger'[e].direction = "DEBIT"
                 /\ receipts'[e] = AfterCreate(ledger'[e])

ReceiptBackfilled(e) == /\ ledger'[e] = ledger[e]
                        /\ e \in Posted
                        /\ ledger[e].direction = "DEBIT"
                        /\ receipts[e] = NoReceipt
                        /\ receipts'[e] = NewReceipt("LEDGER_DEBIT", "COLLABORATOR")

\* An open receipt gets the status `status'.
ReceiptMoved(e, status, accepted) ==
    /\ ledger'[e] = ledger[e]
    /\ receipts[e] \in Receipt
    /\ receipts[e].status \notin TerminalStatuses
    /\ receipts'[e] = [status |-> status, purpose |-> receipts[e].purpose,
                       party |-> receipts[e].party, accepted |-> accepted]

ReceiptMove(e) ==
    \/ RowKept(e)
    \/ RowCreated(e)
    \/ ReceiptBackfilled(e)
    \/ ReceiptMoved(e, "PRINTED", receipts[e].accepted)
    \/ /\ receipts[e].purpose \notin FinalPurposes
       /\ \/ ReceiptMoved(e, "RETURNED", receipts[e].accepted)
          \/ ReceiptMoved(e, "CANCELLED", receipts[e].accepted)
    \/ /\ receipts[e].purpose \in FinalPurposes
       /\ ReceiptMoved(e, "RETURNED", TRUE)

\* A transaction that creates entries under fresh identifiers.
LEMMA CreationMoves ==
    ASSUME TypeInv, NEW new, DOMAIN new \subseteq Unused, CreateEntries(new),
           \A e \in DOMAIN new : /\ new[e] \in Entry
                                 /\ new[e].source = "EXPENSE" => new[e].direction = "DEBIT"
    PROVE  \A e \in EntryIds : ReceiptMove(e)
  BY DEF CreateEntries, ReceiptMove, RowKept, RowCreated

\* The payment of a settlement creates entries of its own source.
LEMMA PaymentMoves ==
    ASSUME TypeInv, NEW s \in Settlers, CreateSettlementWithEntries(s)
    PROVE  \A e \in EntryIds : ReceiptMove(e)
  <1> DEFINE call == settling[s]
  <1>1. /\ call \in SettlementCall
        /\ call.request \in RequestIds
    BY DEF TypeInv, TypeOK, SettlementsTypeOK, RequestsNamed, PaymentTypes,
                FinalTypes, CreateSettlementWithEntries
  <1>2. PICK id \in [SettledUnits(call) -> Unused] :
           CreateEntries([e \in {id[u] : u \in DOMAIN id} |->
               SettlementEntry(call, CHOOSE u \in DOMAIN id : id[u] = e)])
    BY DEF CreateSettlementWithEntries, PostSettlementEntries
  <1> DEFINE new == [e \in {id[u] : u \in DOMAIN id} |->
                       SettlementEntry(call, CHOOSE u \in DOMAIN id : id[u] = e)]
  <1>3. /\ DOMAIN new \subseteq Unused
        /\ \A e \in DOMAIN new : new[e] \in Entry
    BY <1>1, <1>2, SettlementEntriesType
  <1>4. \A e \in DOMAIN new : new[e].source # "EXPENSE"
    BY DEF SettlementEntry
  <1>5. CreateEntries(new)
    BY <1>2
  <1> HIDE DEF new
  <1> QED BY <1>3, <1>4, <1>5, CreationMoves

\* A correction creates a reversal and at most one replacement.
LEMMA CorrectionMoves ==
    ASSUME TypeInv, NEW c \in Correctors, CreateCorrectionEntries(c)
    PROVE  \A e \in EntryIds : ReceiptMove(e)
  <1>1. PICK r, p, new :
              /\ r \in Unused /\ p \in EntryIds
              /\ CreateEntries(new)
              /\ new[r] = ReversalOf(correcting[c].target)
              /\ \A e \in DOMAIN new : new[e] \in Entry
              /\ \/ DOMAIN new = {r}
                 \/ /\ p \in Unused \ {r}
                    /\ DOMAIN new = {r, p}
                    /\ new[p] = ReplacementEntry(correcting[c])
    BY CorrectionEntries
  <1>2. DOMAIN new \subseteq Unused
    BY <1>1
  <1>3. \A e \in DOMAIN new : new[e].source # "EXPENSE"
    BY <1>1 DEF ReversalOf, ReplacementEntry
  <1> QED BY <1>1, <1>2, <1>3, CreationMoves

\* What the other packages post.
LEMMA OrdinaryMoves ==
    ASSUME TypeInv, NEW p \in OrdinaryPostings, PostOrdinaryEntry(p)
    PROVE  \A e \in EntryIds : ReceiptMove(e)
  <1>1. PICK e \in Unused : CreateEntries([x \in {e} |-> OrdinaryEntry(p)])
    BY DEF PostOrdinaryEntry
  <1> DEFINE new == [x \in {e} |-> OrdinaryEntry(p)]
  <1>2. /\ DOMAIN new \subseteq Unused
        /\ \A x \in DOMAIN new : /\ new[x] \in Entry
                                 /\ new[x].source = "EXPENSE" => new[x].direction = "DEBIT"
    BY OrdinaryEntryType DEF OrdinaryEntry
  <1>3. CreateEntries(new)
    BY <1>1
  <1> HIDE DEF new
  <1> QED BY <1>2, <1>3, CreationMoves

\* The cancellation of an expense: its reversal is a credit and needs no
\* receipt, and the receipt it cancels is an ordinary one.
LEMMA CancellationMoves ==
    ASSUME TypeInv, ReceiptInv, NEW e \in EntryIds, CancelExpense(e)
    PROVE  \A x \in EntryIds : ReceiptMove(x)
  <1>1. /\ LedgerTypeOK /\ ReceiptsPosted
        /\ e \in Posted /\ ledger[e].source = "EXPENSE"
        /\ receipts[e] \in Receipt /\ receipts[e] # NoReceipt
    BY DEF TypeInv, TypeOK, LedgerTypeOK, CancelExpense
  <1>2. PICK r \in Unused : ledger' = [ledger EXCEPT ![r] = ReversalOf(e)]
    BY DEF CancelExpense
  <1>3. r # e /\ r \in EntryIds /\ receipts[r] = NoReceipt
    BY <1>1 DEF ReceiptsPosted, Unused, Posted
  <1>4. /\ ReversalOf(e) \in Entry
        /\ ReversalOf(e).direction = "CREDIT" /\ ~IsFinalSettlement(ReversalOf(e))
        /\ ReversalOf(e).source # "EXPENSE"
    BY <1>1, ReversalType
    DEF ReceiptInv, EntryOrigins, ReversalOf, Opposite, IsFinalSettlement
  <1>5. AfterCreate(ReversalOf(e)) = NoReceipt
    BY <1>4 DEF AfterCreate
  <1>6. ASSUME NEW x \in EntryIds, x # e
        PROVE  receipts'[x] = receipts[x]
    BY <1>1, <1>6 DEF CancelExpense, LedgerTypeOK
  <1>7. RowCreated(r)
    BY <1>1, <1>2, <1>3, <1>4, <1>5, <1>6 DEF RowCreated, LedgerTypeOK
  <1>8. ReceiptMove(e)
    <2>1. receipts[e].purpose \notin FinalPurposes
      BY <1>1 DEF ReceiptInv, ReceiptObligations, IsFinalSettlement, FinalPurposes
    <2>2. ledger'[e] = ledger[e]
      BY <1>1, <1>2, <1>3 DEF LedgerTypeOK
    <2>3. CASE receipts[e].status \in TerminalStatuses
      <3>1. receipts'[e] = receipts[e]
        BY <1>1, <2>3 DEF CancelExpense, LedgerTypeOK, Receipt
      <3> QED BY <2>2, <3>1 DEF ReceiptMove, RowKept
    <2>4. CASE receipts[e].status \notin TerminalStatuses
      <3>1. receipts'[e] = [receipts[e] EXCEPT !.status = "CANCELLED"]
        BY <1>1, <2>4 DEF CancelExpense, LedgerTypeOK
      <3>2. receipts'[e] = [status |-> "CANCELLED", purpose |-> receipts[e].purpose,
                            party |-> receipts[e].party, accepted |-> receipts[e].accepted]
        BY <1>1, <3>1 DEF Receipt
      <3>3. ReceiptMoved(e, "CANCELLED", receipts[e].accepted)
        BY <1>1, <2>2, <2>4, <3>2 DEF ReceiptMoved
      <3> QED BY <2>1, <3>3 DEF ReceiptMove
    <2> QED BY <2>3, <2>4
  <1>9. ASSUME NEW x \in EntryIds, x # e, x # r
        PROVE  RowKept(x)
    BY <1>1, <1>2, <1>6, <1>9 DEF RowKept, LedgerTypeOK
  <1> QED BY <1>7, <1>8, <1>9 DEF ReceiptMove

\* The transactions of the receipt calls: the status is read again, and the
\* purpose the call relies on is that of the receipt it writes.
LEMMA ReceiptCommitMoves ==
    ASSUME TypeInv, ReceiptInv, NEW k \in Clerks,
           \/ MarkReceiptPrinted(k)
           \/ MarkReceiptReturned(k)
           \/ MarkReceiptAccepted(k)
           \/ CreateLedgerReceipts(k)
    PROVE  \A e \in EntryIds : ReceiptMove(e)
  <1> DEFINE t == handling[k].target
  <1>0. /\ LedgerTypeOK /\ ReceiptTargets
        /\ handling \in [Clerks -> ReceiptCall]
        /\ ledger' = ledger
    BY DEF TypeInv, TypeOK, ReceiptsTypeOK, MarkReceiptPrinted, MarkReceiptReturned,
           MarkReceiptAccepted, CreateLedgerReceipts
  <1>1. ASSUME \E op \in {"PRINT", "RETURN", "ACCEPT"} : Committing(k, op)
        PROVE  t \in EntryIds /\ receipts[t] # NoReceipt /\ receipts[t] \in Receipt
    BY <1>0, <1>1 DEF Committing, ReceiptTargets, LedgerTypeOK
  <1>2. ASSUME t \in EntryIds, \A e \in EntryIds : e # t => receipts'[e] = receipts[e],
               ReceiptMove(t)
        PROVE  \A e \in EntryIds : ReceiptMove(e)
    BY <1>0, <1>2 DEF ReceiptMove, RowKept
  <1>3. CASE MarkReceiptPrinted(k)
    <2>1. t \in EntryIds /\ receipts[t] \in Receipt
      BY <1>1, <1>3 DEF MarkReceiptPrinted
    <2>2. \A e \in EntryIds : e # t => receipts'[e] = receipts[e]
      BY <1>0, <1>3, <2>1 DEF MarkReceiptPrinted, LedgerTypeOK
    <2>3. CASE receipts[t].status \in {"PENDING_ISSUE", "ISSUED", "PRINTED"}
      <3>1. receipts'[t] = [receipts[t] EXCEPT !.status = "PRINTED"]
        BY <1>0, <1>3, <2>1, <2>3 DEF MarkReceiptPrinted, LedgerTypeOK
      <3>2. receipts'[t] = [status |-> "PRINTED", purpose |-> receipts[t].purpose,
                            party |-> receipts[t].party, accepted |-> receipts[t].accepted]
        BY <2>1, <3>1 DEF Receipt
      <3>3. ReceiptMoved(t, "PRINTED", receipts[t].accepted)
        BY <1>0, <2>1, <2>3, <3>2 DEF ReceiptMoved, TerminalStatuses
      <3> QED BY <1>2, <2>1, <2>2, <3>3 DEF ReceiptMove
    <2>4. CASE receipts[t].status \notin {"PENDING_ISSUE", "ISSUED", "PRINTED"}
      <3>1. receipts'[t] = [receipts[t] EXCEPT !.status = receipts[t].status]
        BY <1>0, <1>3, <2>1, <2>4 DEF MarkReceiptPrinted, LedgerTypeOK
      <3>2. receipts'[t] = receipts[t]
        BY <2>1, <3>1 DEF Receipt
      <3> QED BY <1>0, <1>2, <2>1, <2>2, <3>2 DEF ReceiptMove, RowKept
    <2> QED BY <2>3, <2>4
  <1>4. CASE MarkReceiptReturned(k)
    <2>1. t \in EntryIds /\ receipts[t] \in Receipt
      BY <1>1, <1>4 DEF MarkReceiptReturned
    <2>2. \A e \in EntryIds : e # t => receipts'[e] = receipts[e]
      BY <1>0, <1>4, <2>1 DEF MarkReceiptReturned, LedgerTypeOK
    <2>3. receipts'[t] = [receipts[t] EXCEPT !.status = "RETURNED"]
      BY <1>0, <1>4, <2>1 DEF MarkReceiptReturned, LedgerTypeOK
    <2>4. receipts'[t] = [status |-> "RETURNED", purpose |-> receipts[t].purpose,
                          party |-> receipts[t].party, accepted |-> receipts[t].accepted]
      BY <2>1, <2>3 DEF Receipt
    <2>5. ReceiptMoved(t, "RETURNED", receipts[t].accepted)
      BY <1>0, <1>4, <2>1, <2>4 DEF ReceiptMoved, MarkReceiptReturned, MayReturn
    <2>6. receipts[t].purpose \notin FinalPurposes
      BY <1>4 DEF ReceiptInv, ReceiptCallsAim, MarkReceiptReturned, Committing
    <2> QED BY <1>2, <2>1, <2>2, <2>5, <2>6 DEF ReceiptMove
  <1>5. CASE MarkReceiptAccepted(k)
    <2>1. t \in EntryIds /\ receipts[t] \in Receipt
      BY <1>1, <1>5 DEF MarkReceiptAccepted
    <2>2. \A e \in EntryIds : e # t => receipts'[e] = receipts[e]
      BY <1>0, <1>5, <2>1 DEF MarkReceiptAccepted, LedgerTypeOK
    <2>3. receipts'[t] = [receipts[t] EXCEPT !.status = "RETURNED", !.accepted = TRUE]
      BY <1>0, <1>5, <2>1 DEF MarkReceiptAccepted, LedgerTypeOK
    <2>4. receipts'[t] = [status |-> "RETURNED", purpose |-> receipts[t].purpose,
                          party |-> receipts[t].party, accepted |-> TRUE]
      BY <2>1, <2>3 DEF Receipt
    <2>5. ReceiptMoved(t, "RETURNED", TRUE)
      BY <1>0, <1>5, <2>1, <2>4 DEF ReceiptMoved, MarkReceiptAccepted, MayAccept
    <2>6. receipts[t].purpose \in FinalPurposes
      BY <1>5 DEF ReceiptInv, ReceiptCallsAim, MarkReceiptAccepted, Committing
    <2> QED BY <1>2, <2>1, <2>2, <2>5, <2>6 DEF ReceiptMove
  <1>6. CASE CreateLedgerReceipts(k)
    <2>1. CASE receipts' = receipts
      BY <1>0, <2>1 DEF ReceiptMove, RowKept
    <2>2. CASE /\ ReceiptIndexFree(handling[k].missing)
               /\ receipts' = [e \in EntryIds |->
                         IF e \in handling[k].missing
                           THEN NewReceipt("LEDGER_DEBIT", "COLLABORATOR")
                           ELSE receipts[e]]
      <3>1. \A e \in handling[k].missing : /\ e \in Posted
                                           /\ ledger[e].direction = "DEBIT"
                                           /\ receipts[e] = NoReceipt
        BY <1>0, <1>6, <2>2 DEF ReceiptTargets, ReceiptInv, ReceiptCallsAim,
                                CreateLedgerReceipts, Committing, ReceiptIndexFree
      <3> QED BY <1>0, <2>2, <3>1 DEF ReceiptMove, RowKept, ReceiptBackfilled
    <2> QED BY <1>6, <2>1, <2>2 DEF CreateLedgerReceipts
  <1> QED BY <1>3, <1>4, <1>5, <1>6

\* The steps that write neither table.
LEMMA TableWriters ==
    ASSUME [Next]_vars, UNCHANGED ledger
    PROVE  \/ UNCHANGED receipts
           \/ \E s \in Settlers : CreateSettlementWithEntries(s)
           \/ \E c \in Correctors : CreateCorrectionEntries(c)
           \/ \E p \in OrdinaryPostings : PostOrdinaryEntry(p)
           \/ \E e \in EntryIds : CancelExpense(e)
           \/ \E k \in Clerks : \/ MarkReceiptPrinted(k)
                                \/ MarkReceiptReturned(k)
                                \/ MarkReceiptAccepted(k)
                                \/ CreateLedgerReceipts(k)
  <1>1. ASSUME NEW s \in Settlers,
               RequestSettlement(s) \/ RequestPreview(s) \/ SettlementAborted(s)
               \/ (SettlementProgress(s) /\ ~CreateSettlementWithEntries(s))
        PROVE  UNCHANGED receipts
    BY <1>1 DEF RequestSettlement, RequestPreview, SettlementAborted,
                SettlementProgress, SettlementStep, StartSettlement, StartPreview,
                ReplaySettlement, NoSettlementYet, CheckJourneyOpen, ListBalances,
                DuplicateRequest, PreviewJourney, PreviewBalances, PreviewAccruals,
                PreviewReceipts, CloseJourneyWithAudit, JourneyCloseRefused,
                AbortSettlement, DataUnchanged
  <1>2. ASSUME NEW c \in Correctors,
               RequestCorrection(c) \/ CorrectionAborted(c)
               \/ (CorrectionProgress(c) /\ ~CreateCorrectionEntries(c))
        PROVE  UNCHANGED receipts
    BY <1>2 DEF RequestCorrection, CorrectionAborted, CorrectionProgress,
                CorrectionStep, StartCorrection, CheckNotReversed,
                CorrectionConflict, AbortCorrection
  <1>3. ASSUME NEW k \in Clerks,
               \/ RequestReceiptCall(k) \/ ReceiptCallAborted(k) \/ ReceiptRefused(k)
               \/ \E dryRun \in BOOLEAN : ListDebitsMissingReceipts(k, dryRun)
        PROVE  UNCHANGED receipts
    BY <1>3 DEF RequestReceiptCall, ReceiptCallAborted,
                StartPrint, StartReturn, StartAccept, StartBackfill,
                ReceiptRefused, ListDebitsMissingReceipts, AbortReceiptCall
  <1>4. RecalculateAccruals \/ UpdatePolicy \/ UNCHANGED vars => UNCHANGED receipts
    BY DEF RecalculateAccruals, UpdatePolicy, vars
  <1> QED BY <1>1, <1>2, <1>3, <1>4
          DEF Next, SettlementProgress, CorrectionProgress, ReceiptProgress, ReceiptStep

\* Every step treats every row in one of those ways.
LEMMA StepMoves ==
    ASSUME TypeInv, ReceiptInv, [Next]_vars
    PROVE  \A e \in EntryIds : ReceiptMove(e)
  <1>1. CASE UNCHANGED <<ledger, receipts>>
    BY <1>1 DEF ReceiptMove, RowKept
  <1> QED BY <1>1, EntryWriters, TableWriters, PaymentMoves, CorrectionMoves,
             OrdinaryMoves, CancellationMoves, ReceiptCommitMoves

-----------------------------------------------------------------------------
\* The hook gives an entry the receipt it owes, open and not yet accepted.
LEMMA HookObligation ==
    ASSUME NEW entry \in Entry
    PROVE  IF AfterCreate(entry) = NoReceipt
             THEN entry.direction = "CREDIT" /\ ~IsFinalSettlement(entry)
             ELSE /\ <<IsFinalSettlement(entry), entry.direction,
                       AfterCreate(entry).purpose, AfterCreate(entry).party>> \in ReceiptKinds
                  /\ AfterCreate(entry).status = "PENDING_ISSUE"
                  /\ AfterCreate(entry).accepted = FALSE
  <1>1. \A purpose \in {"LEDGER_DEBIT"} \cup FinalPurposes, party \in Parties :
           NewReceipt(purpose, party) # NoReceipt
    BY NewReceiptType, LedgerNulls
  <1>2. entry.direction \in {"CREDIT", "DEBIT"}
    BY DEF Entry, Directions
  <1>3. CASE entry.direction = "DEBIT" /\ IsFinalSettlement(entry)
    BY <1>1, <1>3 DEF AfterCreate, NewReceipt, FinalPurposes, Parties, ReceiptKinds
  <1>4. CASE entry.direction = "CREDIT" /\ IsFinalSettlement(entry)
    BY <1>1, <1>4 DEF AfterCreate, NewReceipt, FinalPurposes, Parties, ReceiptKinds
  <1>5. CASE entry.direction = "DEBIT" /\ ~IsFinalSettlement(entry)
    <2>1. IsFinalSettlement(entry) = FALSE
      BY <1>5 DEF IsFinalSettlement
    <2>2. AfterCreate(entry) = NewReceipt("LEDGER_DEBIT", "COLLABORATOR")
      BY <1>5 DEF AfterCreate
    <2>3. <<IsFinalSettlement(entry), entry.direction,
            AfterCreate(entry).purpose, AfterCreate(entry).party>>
          = <<FALSE, "DEBIT", "LEDGER_DEBIT", "COLLABORATOR">>
      <3>1. /\ AfterCreate(entry).purpose = "LEDGER_DEBIT"
            /\ AfterCreate(entry).party = "COLLABORATOR"
        BY <2>2 DEF NewReceipt
      <3> QED BY <1>5, <2>1, <3>1, Zenon
    <2>4. /\ AfterCreate(entry) # NoReceipt
          /\ AfterCreate(entry).status = "PENDING_ISSUE"
          /\ AfterCreate(entry).accepted = FALSE
      BY <1>1, <2>2 DEF NewReceipt, Parties
    <2> QED BY <2>3, <2>4 DEF ReceiptKinds
  <1>6. CASE entry.direction = "CREDIT" /\ ~IsFinalSettlement(entry)
    BY <1>6 DEF AfterCreate
  <1> QED BY <1>2, <1>3, <1>4, <1>5, <1>6

\* Each of the ways keeps the obligation of the row, and the way its receipt
\* may be completed.
LEMMA MoveKeepsRow ==
    ASSUME TypeInv, ReceiptInv, NEW e \in EntryIds, ReceiptMove(e)
    PROVE  /\ e \in Posted => ledger'[e] = ledger[e] /\ e \in Posted'
           /\ receipts[e] # NoReceipt =>
                 /\ receipts'[e] # NoReceipt
                 /\ receipts'[e].purpose = receipts[e].purpose
                 /\ receipts'[e].party = receipts[e].party
                 /\ receipts[e].status \in TerminalStatuses => receipts'[e] = receipts[e]
           /\ ledger'[e] # ledger[e] =>
                 /\ e \notin Posted
                 /\ ledger'[e].source = "EXPENSE" => ledger'[e].direction = "DEBIT"
  <1>1. receipts[e] # NoReceipt => receipts[e] \in Receipt /\ e \in Posted
    BY DEF TypeInv, TypeOK, LedgerTypeOK, ReceiptsPosted, Posted
  <1>2. CASE RowKept(e)
    BY <1>2 DEF RowKept, Posted
  <1>3. CASE RowCreated(e)
    BY <1>1, <1>3 DEF RowCreated, Unused
  <1>4. CASE ReceiptBackfilled(e)
    BY <1>4 DEF ReceiptBackfilled, Posted
  <1>5. ASSUME NEW status \in {"PRINTED", "RETURNED", "CANCELLED"},
               NEW accepted \in BOOLEAN, ReceiptMoved(e, status, accepted)
        PROVE  /\ ledger'[e] = ledger[e]
               /\ receipts'[e] \in Receipt
               /\ receipts'[e].purpose = receipts[e].purpose
               /\ receipts'[e].party = receipts[e].party
               /\ receipts[e].status \notin TerminalStatuses
    BY <1>5 DEF ReceiptMoved, Receipt, OutstandingStatuses, TerminalStatuses
  <1>6. CASE \E status \in {"PRINTED", "RETURNED", "CANCELLED"}, accepted \in BOOLEAN :
                ReceiptMoved(e, status, accepted)
    BY <1>5, <1>6, LedgerNulls DEF Posted
  <1>7. ASSUME NEW status, NEW accepted, ReceiptMoved(e, status, accepted)
        PROVE  receipts[e].accepted \in BOOLEAN
    BY <1>7 DEF ReceiptMoved, Receipt
  <1> QED BY <1>2, <1>3, <1>4, <1>6, <1>7 DEF ReceiptMove

\* The obligations.
LEMMA ObligationsNext ==
    ASSUME TypeInv, ReceiptInv, \A e \in EntryIds : ReceiptMove(e)
    PROVE  ReceiptObligations'
  <1> SUFFICES ASSUME NEW e \in EntryIds
               PROVE  IF receipts'[e] = NoReceipt
                        THEN e \in Posted' =>
                          \/ ledger'[e].direction = "CREDIT" /\ ~IsFinalSettlement(ledger'[e])
                          \/ e \in LegacyDebits
                        ELSE /\ e \in Posted'
                             /\ <<IsFinalSettlement(ledger'[e]), ledger'[e].direction,
                                  receipts'[e].purpose, receipts'[e].party>> \in ReceiptKinds
    BY DEF ReceiptObligations, IsFinalSettlement, ReceiptKinds
  <1>1. CASE RowKept(e)
    BY <1>1 DEF RowKept, ReceiptInv, ReceiptObligations, ReceiptKinds, Posted
  <1>2. CASE RowCreated(e)
    <2>1. ledger'[e] \in Entry /\ e \in Posted'
      BY <1>2, LedgerNulls DEF RowCreated, Posted
    <2> QED BY <1>2, <2>1, HookObligation DEF RowCreated
  <1>3. CASE ReceiptBackfilled(e)
    <2>1. e \in Posted' /\ ledger'[e] = ledger[e] /\ ledger[e].direction = "DEBIT"
      BY <1>3 DEF ReceiptBackfilled, Posted
    <2>2. e \in LegacyDebits
      BY <1>3 DEF ReceiptBackfilled, ReceiptInv, ReceiptObligations
    <2>3. IsFinalSettlement(ledger[e]) = FALSE
      BY <2>2 DEF ReceiptInv, EntryOrigins, IsFinalSettlement
    <2>4. receipts'[e] = NewReceipt("LEDGER_DEBIT", "COLLABORATOR")
      BY <1>3 DEF ReceiptBackfilled
    <2>5. receipts'[e] # NoReceipt
      BY <2>4, NewReceiptType, LedgerNulls DEF Parties
    <2>6. <<IsFinalSettlement(ledger'[e]), ledger'[e].direction,
            receipts'[e].purpose, receipts'[e].party>>
          = <<FALSE, "DEBIT", "LEDGER_DEBIT", "COLLABORATOR">>
      <3>1. receipts'[e].purpose = "LEDGER_DEBIT" /\ receipts'[e].party = "COLLABORATOR"
        BY <2>4 DEF NewReceipt
      <3> QED BY <2>1, <2>3, <3>1, Zenon
    <2> QED BY <2>1, <2>5, <2>6 DEF ReceiptKinds
  <1>4. CASE receipts[e] # NoReceipt /\ ledger'[e] = ledger[e]
    <2>1. /\ receipts'[e] # NoReceipt
          /\ receipts'[e].purpose = receipts[e].purpose
          /\ receipts'[e].party = receipts[e].party
      BY <1>4, MoveKeepsRow
    <2> QED BY <1>4, <2>1 DEF ReceiptInv, ReceiptObligations, ReceiptKinds, Posted
  <1>5. ASSUME NEW status, NEW accepted, ReceiptMoved(e, status, accepted)
        PROVE  receipts[e] # NoReceipt /\ ledger'[e] = ledger[e]
    BY <1>5, LedgerNulls DEF ReceiptMoved
  <1> QED BY <1>1, <1>2, <1>3, <1>4, <1>5 DEF ReceiptMove

\* The completion of receipts.
LEMMA CompletionNext ==
    ASSUME TypeInv, ReceiptInv, \A e \in EntryIds : ReceiptMove(e)
    PROVE  FinalReceiptsCompletedByAcceptance'
  <1> SUFFICES ASSUME NEW e \in EntryIds, receipts'[e] # NoReceipt
               PROVE  IF receipts'[e].purpose \in FinalPurposes
                        THEN /\ receipts'[e].status # "CANCELLED"
                             /\ receipts'[e].accepted <=> receipts'[e].status = "RETURNED"
                        ELSE ~receipts'[e].accepted
    BY DEF FinalReceiptsCompletedByAcceptance
  <1>1. CASE RowKept(e)
    BY <1>1 DEF RowKept, ReceiptInv, FinalReceiptsCompletedByAcceptance
  <1>2. CASE RowCreated(e)
    <2>1. ledger'[e] \in Entry /\ receipts'[e] = AfterCreate(ledger'[e])
      BY <1>2 DEF RowCreated
    <2>2. receipts'[e].status = "PENDING_ISSUE" /\ receipts'[e].accepted = FALSE
      BY <2>1, HookObligation
    <2> QED BY <2>2
  <1>3. CASE ReceiptBackfilled(e)
    BY <1>3 DEF ReceiptBackfilled, NewReceipt
  <1>4. ASSUME NEW status, NEW accepted, ReceiptMoved(e, status, accepted)
        PROVE  /\ receipts[e] # NoReceipt
               /\ receipts[e].status \notin TerminalStatuses
               /\ receipts'[e].status = status
               /\ receipts'[e].accepted = accepted
               /\ receipts'[e].purpose = receipts[e].purpose
    BY <1>4, LedgerNulls DEF ReceiptMoved
  <1>5. CASE ReceiptMoved(e, "PRINTED", receipts[e].accepted)
    <2>1. receipts[e].status # "RETURNED"
      BY <1>4, <1>5 DEF TerminalStatuses
    <2> QED BY <1>4, <1>5, <2>1 DEF ReceiptInv, FinalReceiptsCompletedByAcceptance
  <1>6. CASE /\ receipts[e].purpose \notin FinalPurposes
             /\ \/ ReceiptMoved(e, "RETURNED", receipts[e].accepted)
                \/ ReceiptMoved(e, "CANCELLED", receipts[e].accepted)
    BY <1>4, <1>6 DEF ReceiptInv, FinalReceiptsCompletedByAcceptance
  <1>7. CASE receipts[e].purpose \in FinalPurposes /\ ReceiptMoved(e, "RETURNED", TRUE)
    <2>1. receipts'[e].accepted = TRUE
      BY <1>4, <1>7
    <2>2. receipts'[e].status = "RETURNED" /\ receipts'[e].purpose \in FinalPurposes
      BY <1>4, <1>7
    <2> QED BY <2>1, <2>2
  <1> QED BY <1>1, <1>2, <1>3, <1>5, <1>6, <1>7 DEF ReceiptMove

\* What a receipt call found out about the purpose stays true.
LEMMA AimsNext ==
    ASSUME TypeInv, ReceiptInv, [Next]_vars, \A e \in EntryIds : ReceiptMove(e)
    PROVE  ReceiptCallsAim'
  <1>0. handling \in [Clerks -> ReceiptCall] /\ ReceiptTargets /\ ReceiptCallsAim
    BY DEF TypeInv, TypeOK, ReceiptsTypeOK, ReceiptInv
  <1>1. ASSUME NEW k \in Clerks, handling'[k] = handling[k], handling[k].pc = "commit"
        PROVE  /\ handling'[k].op = "RETURN" =>
                     receipts'[handling'[k].target].purpose \notin FinalPurposes
               /\ handling'[k].op = "ACCEPT" =>
                     receipts'[handling'[k].target].purpose \in FinalPurposes
               /\ \A e \in handling'[k].missing : ledger'[e].direction = "DEBIT"
    <2>1. handling[k].op \in {"RETURN", "ACCEPT"} =>
             /\ handling[k].target \in EntryIds
             /\ receipts[handling[k].target] # NoReceipt
      BY <1>0, <1>1 DEF ReceiptTargets
    <2>2. \A e \in handling[k].missing : e \in Posted /\ e \in EntryIds
      BY <1>0 DEF ReceiptTargets, Posted
    <2> QED BY <1>0, <1>1, <2>1, <2>2, MoveKeepsRow DEF ReceiptCallsAim
  <1>2. ASSUME handling' = handling PROVE ReceiptCallsAim'
    BY <1>1, <1>2 DEF ReceiptCallsAim
  <1>3. ASSUME NEW k \in Clerks, FinishHandling(k) PROVE ReceiptCallsAim'
    <2>1. handling'[k].pc = "idle" /\ \A j \in Clerks \ {k} : handling'[j] = handling[j]
      BY <1>0, <1>3 DEF FinishHandling, IdleClerk
    <2> QED BY <1>1, <2>1 DEF ReceiptCallsAim
  <1>4. ASSUME NEW k \in Clerks, NEW e \in EntryIds,
               \/ StartPrint(k, e)
               \/ StartReturn(k, e)
               \/ \E party \in Parties : StartAccept(k, e, party)
        PROVE  ReceiptCallsAim'
    <2>1. PICK op \in {"PRINT", "RETURN", "ACCEPT"} :
             /\ BeginCommit(k, op, e)
             /\ UNCHANGED receipts
             /\ op = "RETURN" => receipts[e].purpose \notin FinalPurposes
             /\ op = "ACCEPT" => receipts[e].purpose \in FinalPurposes
      BY <1>4 DEF StartPrint, StartReturn, StartAccept
    <2>2. /\ handling'[k].op = op /\ handling'[k].target = e
          /\ handling'[k].missing = {}
          /\ \A j \in Clerks \ {k} : handling'[j] = handling[j]
      BY <1>0, <2>1 DEF BeginCommit, IdleClerk
    <2> QED BY <1>1, <2>1, <2>2 DEF ReceiptCallsAim
  <1>5. ASSUME NEW k \in Clerks, NEW approved \in Approvals, StartBackfill(k, approved)
        PROVE  ReceiptCallsAim'
    <2>1. handling'[k].pc = "list" /\ \A j \in Clerks \ {k} : handling'[j] = handling[j]
      BY <1>0, <1>5 DEF StartBackfill, IdleClerk
    <2> QED BY <1>1, <2>1 DEF ReceiptCallsAim
  <1>6. ASSUME NEW k \in Clerks, NEW dryRun \in BOOLEAN, ListDebitsMissingReceipts(k, dryRun)
        PROVE  ReceiptCallsAim'
    <2>1. CASE FinishHandling(k)
      BY <1>3, <2>1
    <2>2. CASE handling' = [handling EXCEPT ![k].pc = "commit",
                                            ![k].missing = DebitsMissingReceipts]
      <3>1. handling[k].pc = "list" /\ UNCHANGED ledger
        BY <1>6 DEF ListDebitsMissingReceipts
      <3>2. handling[k].op = "BACKFILL"
        BY <1>0, <3>1 DEF ReceiptTargets
      <3>3. /\ handling'[k].op = "BACKFILL"
            /\ handling'[k].missing = DebitsMissingReceipts
            /\ \A j \in Clerks \ {k} : handling'[j] = handling[j]
        BY <1>0, <2>2, <3>2 DEF ReceiptCall
      <3>4. \A e \in DebitsMissingReceipts : ledger'[e].direction = "DEBIT"
        BY <3>1 DEF DebitsMissingReceipts
      <3> QED BY <1>1, <3>3, <3>4 DEF ReceiptCallsAim
    <2> QED BY <1>6, <2>1, <2>2 DEF ListDebitsMissingReceipts
  <1>7. ASSUME NEW k \in Clerks,
               RequestReceiptCall(k) \/ ReceiptProgress(k) \/ ReceiptCallAborted(k)
        PROVE  ReceiptCallsAim'
    BY <1>3, <1>4, <1>5, <1>6, <1>7
    DEF RequestReceiptCall, ReceiptProgress, ReceiptCallAborted, ReceiptStep,
        MarkReceiptPrinted, MarkReceiptReturned, MarkReceiptAccepted, ReceiptRefused,
        CreateLedgerReceipts, AbortReceiptCall
  <1>8. handling' = handling
        \/ \E k \in Clerks : RequestReceiptCall(k) \/ ReceiptProgress(k) \/ ReceiptCallAborted(k)
    BY DEF Next, vars, RequestSettlement, RequestPreview, SettlementProgress,
           SettlementAborted, RequestCorrection, CorrectionProgress, CorrectionAborted,
           PostOrdinaryEntry, CancelExpense, RecalculateAccruals, UpdatePolicy
  <1> QED BY <1>2, <1>7, <1>8

\* Legacy debits and expense debits keep their origin.
LEMMA OriginsNext ==
    ASSUME TypeInv, ReceiptInv, \A e \in EntryIds : ReceiptMove(e)
    PROVE  EntryOrigins'
  <1>1. \A e \in LegacyDebits : e \in Posted' /\ ~IsFinalSettlement(ledger'[e])
    BY MoveKeepsRow, CurrentAccountConstants DEF ReceiptInv, EntryOrigins
  <1>2. ASSUME NEW e \in Posted', ledger'[e].source = "EXPENSE"
        PROVE  ledger'[e].direction = "DEBIT"
    <2>1. CASE ledger'[e] = ledger[e]
      BY <1>2, <2>1 DEF ReceiptInv, EntryOrigins, Posted
    <2>2. CASE ledger'[e] # ledger[e]
      BY <1>2, <2>2, MoveKeepsRow DEF Posted
    <2> QED BY <2>1, <2>2
  <1> QED BY <1>1, <1>2 DEF EntryOrigins, IsFinalSettlement

\* Every step keeps the receipts and the calls about them right.
LEMMA ReceiptNext ==
    ASSUME TypeInv, ReceiptInv, [Next]_vars
    PROVE  ReceiptInv'
  <1>1. \A e \in EntryIds : ReceiptMove(e)
    BY StepMoves
  <1> QED BY <1>1, ObligationsNext, CompletionNext, AimsNext, OriginsNext DEF ReceiptInv

\* Initially there is no receipt, and every entry is an ordinary legacy debit.
LEMMA ReceiptInit == Init => ReceiptInv
  <1> SUFFICES ASSUME Init PROVE ReceiptInv
    OBVIOUS
  <1>1. PICK legacy \in [LegacyDebits -> {p \in OrdinaryPostings : p.direction = "DEBIT"}] :
           ledger = [e \in EntryIds |-> IF e \in LegacyDebits
                                          THEN OrdinaryEntry(legacy[e]) ELSE NoEntry]
    BY DEF Init
  <1>2. \A e \in LegacyDebits : /\ e \in EntryIds
                                /\ ledger[e] = OrdinaryEntry(legacy[e])
                                /\ legacy[e] \in OrdinaryPostings
                                /\ legacy[e].direction = "DEBIT"
    BY <1>1, CurrentAccountConstants
  <1>3. \A e \in LegacyDebits : e \in Posted /\ ~IsFinalSettlement(ledger[e])
    <2>1. \A p \in OrdinaryPostings :
             OrdinaryEntry(p) # NoEntry /\ ~IsFinalSettlement(OrdinaryEntry(p))
      BY OrdinaryEntryType, LedgerNulls DEF IsFinalSettlement, OrdinaryEntry
    <2> QED BY <1>2, <2>1 DEF Posted
  <1>4. \A e \in Posted : e \in LegacyDebits /\ ledger[e].direction = "DEBIT"
    BY <1>1, <1>2 DEF Posted, OrdinaryEntry
  <1>5. receipts = [e \in EntryIds |-> NoReceipt] /\ \A k \in Clerks : handling[k].pc = "idle"
    BY DEF Init, ReceiptsInit, IdleClerk
  <1> QED BY <1>3, <1>4, <1>5
          DEF ReceiptInv, ReceiptObligations, FinalReceiptsCompletedByAcceptance,
              ReceiptCallsAim, EntryOrigins

\* For any number of calls in flight, an entry has the receipt it owes,
\* addressed to the party that must confirm it, and none it does not owe.
THEOREM ReceiptsOwed == Spec => []ReceiptObligations
  <1>1. TypeInv /\ ReceiptInv /\ [Next]_vars => (TypeInv /\ ReceiptInv)'
    BY TypeNext, ReceiptNext
  <1>2. ReceiptInv => ReceiptObligations
    BY DEF ReceiptInv
  <1> QED BY <1>1, <1>2, TypeInit, ReceiptInit, PTL DEF Spec

\* A final-settlement receipt is completed by acceptance and by nothing else:
\* neither a return nor a cancellation that was in flight reaches one.
THEOREM CompletedByAcceptance == Spec => []FinalReceiptsCompletedByAcceptance
  <1>1. TypeInv /\ ReceiptInv /\ [Next]_vars => (TypeInv /\ ReceiptInv)'
    BY TypeNext, ReceiptNext
  <1>2. ReceiptInv => FinalReceiptsCompletedByAcceptance
    BY DEF ReceiptInv
  <1> QED BY <1>1, <1>2, TypeInit, ReceiptInit, PTL DEF Spec

\* A receipt that is returned or cancelled is final, and none is deleted or
\* addressed to another party.
THEOREM ReceiptsSettledOnce == Spec => ReceiptsSettleOnce
  <1>1. TypeInv /\ ReceiptInv /\ [Next]_vars => (TypeInv /\ ReceiptInv)'
    BY TypeNext, ReceiptNext
  <1>2. TypeInv /\ ReceiptInv /\ [Next]_vars =>
          [\A e \in EntryIds : receipts[e] # NoReceipt =>
              /\ receipts'[e] # NoReceipt
              /\ receipts'[e].purpose = receipts[e].purpose
              /\ receipts'[e].party = receipts[e].party
              /\ receipts[e].status \in TerminalStatuses =>
                    receipts'[e] = receipts[e]]_vars
    BY StepMoves, MoveKeepsRow
  <1> QED BY <1>1, <1>2, TypeInit, ReceiptInit, PTL DEF Spec, ReceiptsSettleOnce
=============================================================================
