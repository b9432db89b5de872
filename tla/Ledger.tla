------------------------------- MODULE Ledger -------------------------------
(***************************************************************************)
(* The two tables every financial operation of the backend writes:         *)
(* ledger_entries and ledger_receipts, for the account of one collaborator *)
(* journey.  Both are indexed by the identifier of the entry: an entry's   *)
(* id is its primary key, and ledger_receipts has a unique index on        *)
(* ledger_entry_id.  Identifiers are the fresh values of ids.New(), so     *)
(* they carry no order and may be permuted.                                *)
(*                                                                         *)
(* Amounts are natural numbers: the code stores decimals and treats sums   *)
(* within 1e-9 of zero as zero, so a whole number of the smallest unit     *)
(* stands for a stored amount.                                             *)
(***************************************************************************)
EXTENDS Integers, FiniteSets, FiniteSetsExt

CONSTANTS EntryIds,   \* identifiers of ledger entries (bounds the ledger)
          Units,      \* value units; BRL and GOLD_GRAM in the program
          SourceIds,  \* identifiers of the records that entries come from
          NoEntry,    \* an identifier not yet used in ledger_entries
          NoReceipt,  \* an entry without a row in ledger_receipts
          NoSource    \* a source id nobody else can name (ids.New())

VARIABLES ledger,     \* ledger_entries
          receipts    \* ledger_receipts

Directions == {"CREDIT", "DEBIT"}

\* FINAL_SETTLEMENT is the only entry type the code tests for.
EntryTypes == {"ORDINARY", "FINAL_SETTLEMENT"}

Sources == {"JOURNEY_SETTLEMENT", "LEDGER_CORRECTION", "EXPENSE",
            "EXPENSE_REPLACEMENT", "WORK_PERIOD_ASSIGNMENT", "ACCRUAL_ITEM"}

CorrectionTypes == {"ORIGINAL", "REVERSAL", "REPLACEMENT"}

PosNat == Nat \ {0}

Entry == [type       : EntryTypes,
          source     : Sources,
          sourceId   : SourceIds \cup {NoSource},
          direction  : Directions,
          unit       : Units,
          amount     : PosNat,
          correction : CorrectionTypes,
          related    : EntryIds \cup {NoEntry}]

\* No code path writes ISSUED or SIGNED; the schema and the queries know them.
OutstandingStatuses == {"PENDING_ISSUE", "ISSUED", "PRINTED", "SIGNED"}
TerminalStatuses    == {"RETURNED", "CANCELLED"}

FinalPurposes == {"FINAL_SETTLEMENT_TENANT_PAYMENT",
                  "FINAL_SETTLEMENT_COLLABORATOR_PAYMENT"}
Parties == {"COLLABORATOR", "TENANT"}

Receipt == [status   : OutstandingStatuses \cup TerminalStatuses,
            purpose  : {"LEDGER_DEBIT"} \cup FinalPurposes,
            party    : Parties,
            accepted : BOOLEAN]

ASSUME LedgerNulls == /\ NoEntry \notin EntryIds
                      /\ NoEntry \notin Entry
                      /\ NoReceipt \notin Receipt
                      /\ NoSource \notin SourceIds

\* A table has finitely many rows, so that its balance is a sum.
ASSUME LedgerFinite == IsFiniteSet(EntryIds)

LedgerTypeOK == /\ ledger \in [EntryIds -> Entry \cup {NoEntry}]
                /\ receipts \in [EntryIds -> Receipt \cup {NoReceipt}]

-----------------------------------------------------------------------------
Posted == {e \in EntryIds : ledger[e] # NoEntry}

\* Mutant of Opposite: the reversal keeps the direction.
SameDirection(direction) == direction

Opposite(direction) == IF direction = "CREDIT" THEN "DEBIT" ELSE "CREDIT"

IsFinalSettlement(entry) == /\ entry.type = "FINAL_SETTLEMENT"
                            /\ entry.source = "JOURNEY_SETTLEMENT"

Signed(entry) == IF entry.direction = "CREDIT" THEN entry.amount
                                               ELSE -entry.amount

\* SUM(CASE direction WHEN 'CREDIT' THEN amount ELSE -amount END) of a unit.
Balance(u) == MapThenSumSet(LAMBDA e : Signed(ledger[e]),
                            {e \in Posted : ledger[e].unit = u})

ZeroBalance == \A u \in Units : Balance(u) = 0

Reverses(r, e) == /\ r \in Posted
                  /\ ledger[r].correction = "REVERSAL"
                  /\ ledger[r].related = e

HasReversal(e) == \E r \in EntryIds : Reverses(r, e)

Outstanding == {e \in EntryIds : /\ receipts[e] # NoReceipt
                                 /\ receipts[e].status \in OutstandingStatuses}

-----------------------------------------------------------------------------
NewReceipt(purpose, party) == [status |-> "PENDING_ISSUE", purpose |-> purpose,
                               party |-> party, accepted |-> FALSE]

\* Mutant of AfterCreate: credits get no receipt, as before final settlements
\* became bidirectional.
AfterCreateDebitOnly(entry) ==
    IF entry.direction = "DEBIT"
      THEN IF IsFinalSettlement(entry)
             THEN NewReceipt("FINAL_SETTLEMENT_TENANT_PAYMENT", "COLLABORATOR")
             ELSE NewReceipt("LEDGER_DEBIT", "COLLABORATOR")
      ELSE NoReceipt

\* The GORM hook that runs in the transaction that creates an entry.
AfterCreate(entry) ==
    CASE entry.direction = "DEBIT" /\ IsFinalSettlement(entry) ->
            NewReceipt("FINAL_SETTLEMENT_TENANT_PAYMENT", "COLLABORATOR")
      [] entry.direction = "CREDIT" /\ IsFinalSettlement(entry) ->
            NewReceipt("FINAL_SETTLEMENT_COLLABORATOR_PAYMENT", "TENANT")
      [] entry.direction = "DEBIT" /\ ~IsFinalSettlement(entry) ->
            NewReceipt("LEDGER_DEBIT", "COLLABORATOR")
      [] OTHER -> NoReceipt

\* Mutants of ReversalOf: a negative amount in the same direction; no link to
\* the entry it reverses.
ReversalNegated(e) == [ledger[e] EXCEPT !.source = "LEDGER_CORRECTION",
                                        !.sourceId = NoSource,
                                        !.amount = -ledger[e].amount,
                                        !.correction = "REVERSAL",
                                        !.related = e]
ReversalUnlinked(e) == [ledger[e] EXCEPT !.source = "LEDGER_CORRECTION",
                                         !.sourceId = NoSource,
                                         !.direction = Opposite(ledger[e].direction),
                                         !.correction = "REVERSAL"]

\* The entry that undoes `e`: same unit, type and amount, opposite direction.
ReversalOf(e) == [type       |-> ledger[e].type,
                  source     |-> "LEDGER_CORRECTION",
                  sourceId   |-> NoSource,
                  direction  |-> Opposite(ledger[e].direction),
                  unit       |-> ledger[e].unit,
                  amount     |-> ledger[e].amount,
                  correction |-> "REVERSAL",
                  related    |-> e]

\* One transaction that creates the entries `new` (a function from unused
\* identifiers to entries); each creation runs AfterCreate.
CreateEntries(new) ==
    /\ ledger' = [e \in EntryIds |-> IF e \in DOMAIN new THEN new[e]
                                                         ELSE ledger[e]]
    /\ receipts' = [e \in EntryIds |-> IF e \in DOMAIN new
                                         THEN AfterCreate(new[e])
                                         ELSE receipts[e]]

Unused == EntryIds \ Posted
=============================================================================
