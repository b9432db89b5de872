-------------------------- MODULE LedgerCorrections --------------------------
(***************************************************************************)
(* Corrections of posted entries: ReverseEntry posts the mirror image of   *)
(* an entry, ReplaceEntry posts the mirror image and a replacement in one  *)
(* transaction.  Entries are never updated.  The check that the entry has  *)
(* no reversal yet and the posting are separate statements; the partial    *)
(* unique index ux_ledger_entries_single_reversal decides the race.        *)
(***************************************************************************)
EXTENDS Ledger, ApprovalPolicy

CONSTANTS Correctors,     \* correction calls that may be in flight at once
          Replacements    \* what a ReplaceEntry request may put instead:
                          \* records [type, direction, unit, amount]

VARIABLE correcting

CorrectionCall == [pc          : {"idle", "reversed", "commit"},
                   target      : EntryIds \cup {NoEntry},
                   replacement : Replacements \cup {NoEntry},
                   approved    : BOOLEAN]

IdleCorrection == [pc |-> "idle", target |-> NoEntry,
                   replacement |-> NoEntry, approved |-> TRUE]

ASSUME ReplacementsAssumption ==
    /\ Replacements \subseteq [type : EntryTypes, direction : Directions,
                               unit : Units, amount : PosNat]
    /\ NoEntry \notin Replacements

CorrectionsTypeOK == correcting \in [Correctors -> CorrectionCall]

CorrectionsInit == correcting = [c \in Correctors |-> IdleCorrection]

-----------------------------------------------------------------------------
FinishCorrection(c) == correcting' = [correcting EXCEPT ![c] = IdleCorrection]

\* Validation, the approval policy, then FindEntryByID: a reversal is not
\* correctable.  replacement = NoEntry is a ReverseEntry request.
StartCorrection(c, target, replacement, approved) ==
    /\ correcting[c].pc = "idle"
    /\ RequireSecondApproval(approved)
    /\ target \in Posted
    /\ ledger[target].correction # "REVERSAL"
    /\ correcting' = [correcting EXCEPT ![c] =
          [pc |-> "reversed", target |-> target,
           replacement |-> replacement, approved |-> approved]]
    /\ UNCHANGED <<ledger, receipts, secondApproval>>

\* HasReversal: refused with ErrLedgerEntryAlreadyReversed on a hit.
CheckNotReversed(c) ==
    /\ correcting[c].pc = "reversed"
    /\ IF HasReversal(correcting[c].target)
         THEN FinishCorrection(c)
         ELSE correcting' = [correcting EXCEPT ![c].pc = "commit"]
    /\ UNCHANGED <<ledger, receipts, secondApproval>>

ReplacementEntry(call) ==
    [type       |-> call.replacement.type,
     source     |-> "LEDGER_CORRECTION",
     sourceId   |-> NoSource,
     direction  |-> call.replacement.direction,
     unit       |-> call.replacement.unit,
     amount     |-> call.replacement.amount,
     correction |-> "REPLACEMENT",
     related    |-> call.target]

\* Mutant of SingleReversalIndex: the index is missing.
ReversalUnchecked(call) == TRUE

\* The unique index on (related_entry_id) of REVERSAL entries lets it pass.
SingleReversalIndex(call) == ~HasReversal(call.target)

CreateCorrectionEntries(c) ==
    /\ correcting[c].pc = "commit"
    /\ SingleReversalIndex(correcting[c])
    /\ \E r \in Unused :
          IF correcting[c].replacement = NoEntry
            THEN CreateEntries([e \in {r} |-> ReversalOf(correcting[c].target)])
            ELSE \E p \in Unused \ {r} :
                   CreateEntries([e \in {r, p} |->
                      IF e = r THEN ReversalOf(correcting[c].target)
                               ELSE ReplacementEntry(correcting[c])])
    /\ FinishCorrection(c)
    /\ UNCHANGED secondApproval

CorrectionConflict(c) ==
    /\ correcting[c].pc = "commit"
    /\ ~SingleReversalIndex(correcting[c])
    /\ FinishCorrection(c)
    /\ UNCHANGED <<ledger, receipts, secondApproval>>

AbortCorrection(c) ==
    /\ correcting[c].pc # "idle"
    /\ FinishCorrection(c)
    /\ UNCHANGED <<ledger, receipts, secondApproval>>

CorrectionStep(c) ==
    \/ CheckNotReversed(c)
    \/ CreateCorrectionEntries(c)
    \/ CorrectionConflict(c)
=============================================================================
