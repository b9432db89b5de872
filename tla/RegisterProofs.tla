--------------------------- MODULE RegisterProofs ---------------------------
(***************************************************************************)
(* The registers, for any number of planners, editors, collaborators,      *)
(* codes, dates and rows.                                                  *)
(***************************************************************************)
EXTENDS Planning, Prices, FiniteSetTheorems, WellFoundedInduction, TLAPS

-----------------------------------------------------------------------------
(***************************************************************************)
(* Planning: however single edits and bulk plans overlap, a collaborator   *)
(* has one active assignment in the period.                                *)
(***************************************************************************)
\* OneActiveAssignment without cardinalities, over a table with a row for every
\* identifier.
OneRowEach ==
    /\ assignments = [i \in AssignmentIds |-> assignments[i]]
    /\ \A x : \A i, j \in CurrentRow(x) : i = j

\* The index is what keeps it: a row is written active only if no other row of
\* the collaborator is.
LEMMA WriteKeepsOne ==
    ASSUME OneRowEach, NEW i, NEW row, IndexAllows(i, row), Write(i, row)
    PROVE  OneRowEach'
  <1>1. assignments' = [j \in AssignmentIds |-> IF j = i THEN row ELSE assignments[j]]
    BY DEF Write, OneRowEach
  <1>2. ASSUME NEW x, NEW j \in CurrentRow(x)', NEW k \in CurrentRow(x)' PROVE j = k
    <2>1. /\ j \in AssignmentIds /\ assignments'[j] # NoRow
          /\ assignments'[j].staff = x /\ assignments'[j].active
          /\ k \in AssignmentIds /\ assignments'[k] # NoRow
          /\ assignments'[k].staff = x /\ assignments'[k].active
      BY <1>2 DEF CurrentRow, RowsOf
    <2>2. j # i => j \in CurrentRow(x)
      BY <1>1, <2>1 DEF CurrentRow, RowsOf
    <2>3. k # i => k \in CurrentRow(x)
      BY <1>1, <2>1 DEF CurrentRow, RowsOf
    <2>4. CASE j # i /\ k # i
      BY <2>2, <2>3, <2>4 DEF OneRowEach
    <2>5. CASE j = i \/ k = i
      <3>1. row.active /\ row.staff = x
        BY <1>1, <2>1, <2>5
      <3>2. CurrentRow(x) \subseteq {i}
        BY <3>1 DEF IndexAllows
      <3> QED BY <3>2, <2>2, <2>3, <2>5
    <2> QED BY <2>4, <2>5
  <1>3. assignments' = [j \in AssignmentIds |-> assignments'[j]]
    BY <1>1
  <1> QED BY <1>2, <1>3 DEF OneRowEach

LEMMA UnchangedKeepsOne ==
    ASSUME OneRowEach, UNCHANGED assignments
    PROVE  OneRowEach'
  BY DEF OneRowEach, CurrentRow, RowsOf

\* One step per action: it writes a row the index allows, or none.
LEMMA PlanningKeepsOne ==
    ASSUME OneRowEach, PlanningNext
    PROVE  OneRowEach'
  <1> USE WriteKeepsOne, UnchangedKeepsOne
  <1>1. ASSUME NEW p \in Planners, InsertAssignment(p) PROVE OneRowEach'
    BY <1>1 DEF InsertAssignment
  <1>2. ASSUME NEW p \in Planners, SaveAssignment(p) PROVE OneRowEach'
    BY <1>2 DEF SaveAssignment
  <1>3. ASSUME NEW p \in Planners, SaveBulkRow(p) PROVE OneRowEach'
    BY <1>3 DEF SaveBulkRow
  <1>4. ASSUME NEW p \in Planners, LinkBulkRow(p) PROVE OneRowEach'
    BY <1>4 DEF LinkBulkRow
  <1>5. ASSUME NEW p \in Planners, StartLinking(p) \/ EndBulkPlan(p) PROVE OneRowEach'
    BY <1>5 DEF StartLinking, EndBulkPlan
  <1>6. ASSUME NEW p \in Planners, NEW row,
               CreateAssignment(p, row) \/ \E i \in AssignmentIds : UpdateAssignment(p, i, row)
        PROVE  OneRowEach'
    BY <1>6 DEF CreateAssignment, UpdateAssignment
  <1>7. ASSUME NEW p \in Planners, NEW i \in AssignmentIds, DeactivateAssignment(p, i) PROVE OneRowEach'
    BY <1>7 DEF DeactivateAssignment
  <1>8. ASSUME NEW p \in Planners, NEW request, BulkPlan(p, request) PROVE OneRowEach'
    BY <1>8 DEF BulkPlan
  <1>9. ASSUME NEW x \in Staff, CloseStaffJourney(x) PROVE OneRowEach'
    BY <1>9 DEF CloseStaffJourney
  <1>10. CASE SingleSteps(Planners, PlanRow)
    BY <1>10, <1>1, <1>2, <1>6, <1>7 DEF SingleSteps
  <1>11. CASE BulkSteps(Planners)
    BY <1>11, <1>3, <1>4, <1>5 DEF BulkSteps
  <1> QED BY <1>8, <1>9, <1>10, <1>11 DEF PlanningNext

LEMMA OneRowIsOne == OneRowEach => OneActiveAssignment
  <1> SUFFICES ASSUME OneRowEach, NEW x \in Staff PROVE Cardinality(CurrentRow(x)) <= 1
    BY DEF OneActiveAssignment
  <1>1. CASE CurrentRow(x) = {}
    BY <1>1, FS_EmptySet
  <1>2. CASE CurrentRow(x) # {}
    <2>1. PICK i \in CurrentRow(x) : CurrentRow(x) = {i}
      BY <1>2 DEF OneRowEach
    <2>2. Cardinality({i}) = 1
      BY FS_Singleton
    <2> QED BY <2>1, <2>2
  <1> QED BY <1>1, <1>2

\* OneActiveAssignment: the check before an insert is stale by the time it
\* runs, and a bulk plan saves the rows it read long before.  The unique index
\* on the active rows of a collaborator and a period alone carries the promise.
THEOREM AssignedOnce == PlanningSpec => []OneActiveAssignment
  <1>1. PlanningInit => OneRowEach
    BY DEF PlanningInit, OneRowEach, CurrentRow, RowsOf
  <1>2. OneRowEach /\ [PlanningNext]_planningVars => OneRowEach'
    BY PlanningKeepsOne, UnchangedKeepsOne DEF planningVars
  <1> QED BY <1>1, <1>2, OneRowIsOne, PTL DEF PlanningSpec

-----------------------------------------------------------------------------
(***************************************************************************)
(* What the operators on a table return.                                   *)
(***************************************************************************)
\* A row that is switched off is a row of the same key.
Switchable(Row) ==
    \A r \in Row : /\ [r EXCEPT !.active = FALSE] \in Row
                   /\ [r EXCEPT !.active = FALSE].key = r.key
                   /\ [r EXCEPT !.active = FALSE].active = FALSE

LEMMA RowMarks == Switchable(ItemRow) /\ Switchable(GoldRow)
  BY DEF Switchable, ItemRow, GoldRow

\* Marking an item changes nothing else.
LEMMA ItemMarked ==
    ASSUME NEW r \in ItemRow, NEW active \in BOOLEAN
    PROVE  /\ [r EXCEPT !.active = active] \in ItemRow
           /\ [r EXCEPT !.active = active].key = r.key
           /\ [r EXCEPT !.active = active].active = active
  BY DEF ItemRow

\* The rebuilt row of an item, and that of a gold price.
LEMMA RowsRebuilt ==
    /\ \A r \in ItemRow : [r EXCEPT !.replaces = 0] \in ItemRow
    /\ \A r \in GoldRow : /\ [r EXCEPT !.key = Day(r.key[1])] \in GoldRow
                          /\ [r EXCEPT !.key = Day(r.key[1])].key[2] = "DATE"
  <1>1. ASSUME NEW r \in ItemRow PROVE [r EXCEPT !.replaces = 0] \in ItemRow
    BY PriceConstants DEF ItemRow
  <1>2. ASSUME NEW r \in GoldRow
        PROVE  /\ [r EXCEPT !.key = Day(r.key[1])] \in GoldRow
               /\ [r EXCEPT !.key = Day(r.key[1])].key[2] = "DATE"
    <2>1. Day(r.key[1]) \in GoldKeys /\ Day(r.key[1])[2] = "DATE"
      BY DEF GoldRow, GoldKeys, Day
    <2>2. [r EXCEPT !.key = Day(r.key[1])].key = Day(r.key[1])
      BY DEF GoldRow
    <2> QED BY <2>1, <2>2 DEF GoldRow
  <1> QED BY <1>1, <1>2

\* Switching rows off keeps their number and every column but the mark.
LEMMA SwitchOffRows ==
    ASSUME NEW Row, NEW table \in Seq(Row), NEW rows,
           Switchable(Row)
    PROVE  /\ SwitchOff(table, rows) \in Seq(Row)
           /\ Len(SwitchOff(table, rows)) = Len(table)
           /\ DOMAIN SwitchOff(table, rows) = DOMAIN table
           /\ \A i \in DOMAIN table : SwitchOff(table, rows)[i] =
                 IF i \in rows THEN [table[i] EXCEPT !.active = FALSE] ELSE table[i]
  <1> DEFINE off == SwitchOff(table, rows)
  <1>1. Len(table) \in Nat /\ DOMAIN table = 1..Len(table) /\ \A i \in 1..Len(table) : table[i] \in Row
    OBVIOUS
  <1>2. off \in [1..Len(table) -> Row]
    BY <1>1 DEF SwitchOff, Switchable
  <1> QED BY <1>1, <1>2 DEF SwitchOff

\* A save gives the new table, or leaves the old one: in either case it adds at
\* most one row, and one price in force stays one price in force.
LEMMA SaveRows ==
    ASSUME NEW Row, NEW table \in Seq(Row), NEW rows, NEW row \in Row,
           Switchable(Row)
    PROVE  /\ Save(table, rows, row) \in Seq(Row)
           /\ Len(Save(table, rows, row)) \in {Len(table), Len(table) + 1}
           /\ OneActiveEach(table) => OneActiveEach(Save(table, rows, row))
           /\ \/ Save(table, rows, row) = table
              \/ Save(table, rows, row) = Append(SwitchOff(table, rows), row)
  <1>1. /\ SwitchOff(table, rows) \in Seq(Row)
        /\ Len(SwitchOff(table, rows)) = Len(table)
    BY SwitchOffRows
  <1>2. /\ Append(SwitchOff(table, rows), row) \in Seq(Row)
        /\ Len(Append(SwitchOff(table, rows), row)) = Len(table) + 1
    BY <1>1
  <1> QED BY <1>2 DEF Save

\* Switching off more rows cannot put two prices in force.
LEMMA SwitchOffKeepsOne ==
    ASSUME NEW Row, NEW table \in Seq(Row), NEW rows, OneActiveEach(table),
           Switchable(Row)
    PROVE  OneActiveEach(SwitchOff(table, rows))
  <1>1. \A i \in DOMAIN table : table[i] \in Row
    OBVIOUS
  <1>2. /\ DOMAIN SwitchOff(table, rows) = DOMAIN table
        /\ \A i \in DOMAIN table : SwitchOff(table, rows)[i] =
              IF i \in rows THEN [table[i] EXCEPT !.active = FALSE] ELSE table[i]
    BY DEF SwitchOff
  <1>3. \A i \in DOMAIN table : SwitchOff(table, rows)[i].active =>
           i \notin rows /\ SwitchOff(table, rows)[i] = table[i]
    BY <1>1, <1>2 DEF Switchable
  <1> QED BY <1>2, <1>3 DEF OneActiveEach

\* The repair leaves one price in force: of two active rows of a key the older
\* one is switched off.
LEMMA NewestOnlyOne ==
    ASSUME NEW Row, NEW table \in Seq(Row),
           Switchable(Row)
    PROVE  /\ NewestOnly(table) \in Seq(Row) /\ Len(NewestOnly(table)) = Len(table)
           /\ DOMAIN NewestOnly(table) = DOMAIN table
           /\ \A i \in DOMAIN table : NewestOnly(table)[i].key = table[i].key
           /\ OneActiveEach(NewestOnly(table))
  <1> DEFINE stale == {i \in DOMAIN table :
          \E j \in DOMAIN table : j > i /\ table[j].active /\ table[j].key = table[i].key}
  <1>1. NewestOnly(table) = SwitchOff(table, stale)
    BY DEF NewestOnly
  <1>2. /\ SwitchOff(table, stale) \in Seq(Row)
        /\ Len(SwitchOff(table, stale)) = Len(table)
        /\ DOMAIN SwitchOff(table, stale) = DOMAIN table
        /\ \A i \in DOMAIN table : SwitchOff(table, stale)[i] =
              IF i \in stale THEN [table[i] EXCEPT !.active = FALSE] ELSE table[i]
    <2> HIDE DEF stale
    <2> QED BY SwitchOffRows
  <1>3. DOMAIN table \subseteq Nat /\ \A i \in DOMAIN table : table[i] \in Row
    OBVIOUS
  <1>4. ASSUME NEW i \in DOMAIN table, NEW j \in DOMAIN table, i < j,
               SwitchOff(table, stale)[i].active, SwitchOff(table, stale)[j].active,
               SwitchOff(table, stale)[i].key = SwitchOff(table, stale)[j].key
        PROVE  FALSE
    <2> HIDE DEF stale
    <2>1. i \notin stale /\ j \notin stale
      BY <1>2, <1>3, <1>4 DEF Switchable
    <2>2. table[j].active /\ table[j].key = table[i].key
      BY <1>2, <1>4, <2>1
    <2> QED BY <2>1, <2>2, <1>3, <1>4 DEF stale
  <1>5. OneActiveEach(SwitchOff(table, stale))
    <2> HIDE DEF stale
    <2> SUFFICES ASSUME NEW i \in DOMAIN table, NEW j \in DOMAIN table,
                        SwitchOff(table, stale)[i].active, SwitchOff(table, stale)[j].active,
                        SwitchOff(table, stale)[i].key = SwitchOff(table, stale)[j].key
                 PROVE  i = j
      BY <1>2 DEF OneActiveEach
    <2>1. ~(i < j) /\ ~(j < i)
      BY <1>4
    <2> QED BY <2>1, <1>3
  <1> HIDE DEF stale
  <1> QED BY <1>1, <1>2, <1>3, <1>5 DEF Switchable

-----------------------------------------------------------------------------
(***************************************************************************)
(* The invariant.  The index is what a table's schema says it is, gold     *)
(* prices are kept by calendar day from the rebuild on, and an edit in     *)
(* flight is of a running server and for a key and a row of its table.     *)
(***************************************************************************)
IndexHolds ==
    /\ schema["items"] = "ONE_ACTIVE" => OneActiveEach(items)
    /\ schema["goldPrices"] = "ONE_ACTIVE" => OneActiveEach(goldPrices)

GoldDays ==
    schema["goldPrices"] # "UNIQUE_KEY" => \A i \in DOMAIN goldPrices : goldPrices[i].key[2] = "DATE"

EditsAimed ==
    \A e \in Editors : edits[e] # NoEdit =>
        /\ edits[e].op \in {"CREATE_ITEM", "UPDATE_ITEM"} => edits[e].key \in Codes
        /\ edits[e].op = "UPDATE_ITEM" => edits[e].row \in DOMAIN items
        /\ edits[e].op \in {"CREATE_GOLD_PRICE", "REPLACE_GOLD_PRICE"} =>
              edits[e].key \in GoldKeys /\ edits[e].key[2] = "DATE"

PricesInv == PricesTypeOK /\ IndexHolds /\ GoldDays /\ EditsAimed

LEMMA InitialPrices == PricesInit => PricesInv
  BY PriceConstants DEF PricesInit, PricesInv, PricesTypeOK, IndexHolds, GoldDays, EditsAimed

\* The invariant says what OneActivePrice says: keys that name a day differ
\* only if the days do.
LEMMA InvOneActive == PricesInv => OneActivePrice
  <1> SUFFICES ASSUME PricesInv, Started PROVE OneActivePrice
    BY DEF OneActivePrice
  <1>1. schema["items"] = "ONE_ACTIVE" /\ schema["goldPrices"] = "ONE_ACTIVE"
    BY DEF Started, PricesInv, PricesTypeOK
  <1>2. OneActiveEach(items) /\ OneActiveEach(goldPrices)
    BY <1>1 DEF PricesInv, IndexHolds
  <1>3. \A i \in DOMAIN goldPrices : /\ goldPrices[i].key \in GoldKeys
                                     /\ goldPrices[i].key[2] = "DATE"
    <2>1. \A i \in DOMAIN goldPrices : goldPrices[i] \in GoldRow
      BY DEF PricesInv, PricesTypeOK
    <2>2. \A i \in DOMAIN goldPrices : goldPrices[i].key \in GoldKeys
      BY <2>1 DEF GoldRow
    <2>3. \A i \in DOMAIN goldPrices : goldPrices[i].key[2] = "DATE"
      BY <1>1 DEF PricesInv, GoldDays
    <2> QED BY <2>2, <2>3
  <1>4. \A k, l \in GoldKeys : k[1] = l[1] /\ k[2] = l[2] => k = l
    BY DEF GoldKeys
  <1>5. \A i, j \in DOMAIN goldPrices :
           goldPrices[i].key[1] = goldPrices[j].key[1] => goldPrices[i].key = goldPrices[j].key
    BY <1>3, <1>4
  <1> QED BY <1>2, <1>5 DEF OneActiveEach, OneActivePrice

-----------------------------------------------------------------------------
(***************************************************************************)
(* Every step keeps it.                                                    *)
(***************************************************************************)
\* An accepted request only adds an edit.
LEMMA BeginKeeps ==
    ASSUME PricesInv, NEW e \in Editors, NEW op \in EditOps, NEW key \in Codes \cup GoldKeys,
           NEW row \in 0..MaxRows, BeginEdit(e, op, key, row),
           op \in {"CREATE_ITEM", "UPDATE_ITEM"} => key \in Codes,
           op = "UPDATE_ITEM" => row \in DOMAIN items,
           op \in {"CREATE_GOLD_PRICE", "REPLACE_GOLD_PRICE"} => key \in GoldKeys /\ key[2] = "DATE"
    PROVE  PricesInv'
  <1> DEFINE edit == [op |-> op, key |-> key, row |-> row]
  <1>1. edit \in Edit
    BY DEF Edit
  <1>2. edits' = [edits EXCEPT ![e] = edit] /\ UNCHANGED <<items, goldPrices, schema>>
    BY DEF BeginEdit
  <1>3. edit.op = op /\ edit.key = key /\ edit.row = row
    OBVIOUS
  <1> HIDE DEF edit
  <1>4. PricesTypeOK'
    BY <1>1, <1>2 DEF PricesInv, PricesTypeOK
  <1>5. IndexHolds' /\ GoldDays'
    BY <1>2 DEF PricesInv, IndexHolds, GoldDays, OneActiveEach
  <1>6. EditsAimed'
    BY <1>2, <1>3 DEF PricesInv, EditsAimed, PricesTypeOK
  <1> QED BY <1>4, <1>5, <1>6 DEF PricesInv

\* A save by an edit in flight, or a switch, of price-list items.
LEMMA ItemsKeep ==
    ASSUME PricesInv, UNCHANGED <<goldPrices, schema>>,
           items' \in Seq(ItemRow), Len(items') <= MaxRows, DOMAIN items \subseteq DOMAIN items',
           OneActiveEach(items) => OneActiveEach(items'),
           edits' \in [Editors -> Edit \cup {NoEdit}],
           \A e \in Editors : edits'[e] \in {edits[e], NoEdit}
    PROVE  PricesInv'
  <1>1. PricesTypeOK'
    BY DEF PricesInv, PricesTypeOK
  <1>2. IndexHolds' /\ GoldDays'
    BY DEF PricesInv, IndexHolds, GoldDays, OneActiveEach
  <1>3. EditsAimed'
    BY DEF PricesInv, EditsAimed
  <1> QED BY <1>1, <1>2, <1>3 DEF PricesInv

\* The same of gold prices, whose keys must stay days.
LEMMA GoldPricesKeep ==
    ASSUME PricesInv, UNCHANGED <<items, schema>>,
           goldPrices' \in Seq(GoldRow), Len(goldPrices') <= MaxRows,
           OneActiveEach(goldPrices) => OneActiveEach(goldPrices'),
           GoldDays => GoldDays',
           edits' \in [Editors -> Edit \cup {NoEdit}],
           \A e \in Editors : edits'[e] \in {edits[e], NoEdit}
    PROVE  PricesInv'
  <1>1. PricesTypeOK'
    BY DEF PricesInv, PricesTypeOK
  <1>2. IndexHolds' /\ GoldDays'
    BY DEF PricesInv, IndexHolds, OneActiveEach
  <1>3. EditsAimed'
    BY DEF PricesInv, EditsAimed
  <1> QED BY <1>1, <1>2, <1>3 DEF PricesInv

\* An edit that ends leaves the others as they are.
LEMMA EndKeeps ==
    ASSUME PricesInv, NEW e \in Editors, EndEdit(e)
    PROVE  /\ edits' \in [Editors -> Edit \cup {NoEdit}] /\ UNCHANGED schema
           /\ \A d \in Editors : edits'[d] \in {edits[d], NoEdit}
  BY DEF EndEdit, PricesInv, PricesTypeOK

\* A row saved for an item.
LEMMA ItemSaved ==
    ASSUME PricesInv, NEW e \in Editors, EndEdit(e), UNCHANGED goldPrices, Len(items) < MaxRows,
           NEW rows, NEW row \in ItemRow, items' = Save(items, rows, row)
    PROVE  PricesInv'
  <1>1. items \in Seq(ItemRow) /\ MaxRows \in Nat
    BY PriceConstants DEF PricesInv, PricesTypeOK
  <1>2. /\ items' \in Seq(ItemRow) /\ Len(items') \in {Len(items), Len(items) + 1}
        /\ OneActiveEach(items) => OneActiveEach(items')
    BY <1>1, SaveRows, RowMarks
  <1>3. Len(items') <= MaxRows /\ DOMAIN items \subseteq DOMAIN items'
    BY <1>1, <1>2
  <1> QED BY <1>2, <1>3, EndKeeps, ItemsKeep

\* A row saved for a day.
LEMMA GoldPriceSaved ==
    ASSUME PricesInv, NEW e \in Editors, EndEdit(e), UNCHANGED items, Len(goldPrices) < MaxRows,
           NEW rows, NEW row \in GoldRow, row.key[2] = "DATE",
           goldPrices' = Save(goldPrices, rows, row)
    PROVE  PricesInv'
  <1>1. goldPrices \in Seq(GoldRow) /\ MaxRows \in Nat
    BY PriceConstants DEF PricesInv, PricesTypeOK
  <1>2. /\ goldPrices' \in Seq(GoldRow) /\ Len(goldPrices') \in {Len(goldPrices), Len(goldPrices) + 1}
        /\ OneActiveEach(goldPrices) => OneActiveEach(goldPrices')
        /\ goldPrices' = goldPrices \/ goldPrices' = Append(SwitchOff(goldPrices, rows), row)
    BY <1>1, SaveRows, RowMarks
  <1>3. Len(goldPrices') <= MaxRows
    BY <1>1, <1>2
  <1>4. UNCHANGED schema
    BY DEF EndEdit
  <1>5. GoldDays => GoldDays'
    <2>1. CASE goldPrices' = goldPrices
      BY <2>1, <1>4 DEF GoldDays
    <2>2. CASE goldPrices' = Append(SwitchOff(goldPrices, rows), row)
      <3> DEFINE off == SwitchOff(goldPrices, rows)
      <3>1. /\ off \in Seq(GoldRow) /\ Len(off) = Len(goldPrices)
            /\ \A i \in DOMAIN goldPrices : off[i] =
                  IF i \in rows THEN [goldPrices[i] EXCEPT !.active = FALSE] ELSE goldPrices[i]
        BY <1>1, SwitchOffRows, RowMarks
      <3>2. \A i \in DOMAIN goldPrices : off[i].key = goldPrices[i].key
        <4> SUFFICES ASSUME NEW i \in DOMAIN goldPrices PROVE off[i].key = goldPrices[i].key
          OBVIOUS
        <4>1. goldPrices[i] \in GoldRow
          BY <1>1
        <4>2. [goldPrices[i] EXCEPT !.active = FALSE].key = goldPrices[i].key
          BY <4>1, RowMarks DEF Switchable
        <4> HIDE DEF off
        <4> QED BY <3>1, <4>2
      <3> HIDE DEF off
      <3>3. \A i \in DOMAIN goldPrices' : \/ i \in DOMAIN goldPrices /\ goldPrices'[i] = off[i]
                                        \/ goldPrices'[i] = row
        BY <3>1, <1>1, <2>2 DEF off
      <3> QED BY <3>2, <3>3, <1>4 DEF GoldDays
    <2> QED BY <1>2, <2>1, <2>2
  <1> QED BY <1>2, <1>3, <1>5, EndKeeps, GoldPricesKeep

\* Startup: the repaired tables satisfy the index that is then created.
LEMMA StartupKeeps ==
    ASSUME PricesInv, InstallPriceListItemRevisionHistory \/ InstallGoldPriceActiveDate
    PROVE  PricesInv'
  <1>1. /\ items \in Seq(ItemRow) /\ Len(items) <= MaxRows /\ MaxRows \in Nat
        /\ goldPrices \in Seq(GoldRow) /\ Len(goldPrices) <= MaxRows
        /\ schema \in [{"items", "goldPrices"} -> Schemas]
    BY PriceConstants DEF PricesInv, PricesTypeOK
  <1>2. CASE InstallPriceListItemRevisionHistory
    <2> DEFINE table == IF schema["items"] = "UNIQUE_KEY" THEN RebuildItems ELSE items
    <2>1. RebuildItems \in [1..Len(items) -> ItemRow]
      <3>1. \A i \in 1..Len(items) : items[i] \in ItemRow
        BY <1>1
      <3> QED BY <1>1, <3>1, RowsRebuilt DEF RebuildItems
    <2>2. RebuildItems \in Seq(ItemRow) /\ Len(RebuildItems) = Len(items)
      BY <2>1, <1>1
    <2>3. table \in Seq(ItemRow) /\ Len(table) = Len(items)
      BY <2>2, <1>1
    <2>4. items' = NewestOnly(table) /\ schema' = [schema EXCEPT !["items"] = "ONE_ACTIVE"]
          /\ UNCHANGED <<goldPrices, edits>>
      BY <1>2 DEF InstallPriceListItemRevisionHistory
    <2> HIDE DEF table
    <2>5. items' \in Seq(ItemRow) /\ Len(items') = Len(items) /\ OneActiveEach(items')
      BY <2>3, <2>4, NewestOnlyOne, RowMarks
    <2>6. DOMAIN items' = DOMAIN items
      BY <2>5, <1>1
    <2>7. PricesTypeOK'
      BY <1>1, <2>4, <2>5 DEF PricesInv, PricesTypeOK, Schemas
    <2>8. IndexHolds' /\ GoldDays'
      BY <1>1, <2>4, <2>5 DEF PricesInv, IndexHolds, GoldDays, OneActiveEach
    <2>9. EditsAimed'
      BY <2>4, <2>6 DEF PricesInv, EditsAimed
    <2> QED BY <2>7, <2>8, <2>9 DEF PricesInv
  <1>3. CASE InstallGoldPriceActiveDate
    <2> DEFINE table == IF schema["goldPrices"] = "UNIQUE_KEY" THEN RebuildPrices ELSE goldPrices
    <2>1. RebuildPrices \in [1..Len(goldPrices) -> GoldRow]
          /\ \A i \in DOMAIN goldPrices : RebuildPrices[i].key[2] = "DATE"
      <3>1. \A i \in 1..Len(goldPrices) : goldPrices[i] \in GoldRow
        BY <1>1
      <3>2. DOMAIN goldPrices = 1..Len(goldPrices)
        BY <1>1
      <3>3. RebuildPrices =
               [i \in 1..Len(goldPrices) |-> [goldPrices[i] EXCEPT !.key = Day(goldPrices[i].key[1])]]
        BY <3>2 DEF RebuildPrices
      <3>4. \A i \in 1..Len(goldPrices) :
               /\ [goldPrices[i] EXCEPT !.key = Day(goldPrices[i].key[1])] \in GoldRow
               /\ [goldPrices[i] EXCEPT !.key = Day(goldPrices[i].key[1])].key[2] = "DATE"
        BY <3>1, RowsRebuilt
      <3> QED BY <3>2, <3>3, <3>4
    <2>2. RebuildPrices \in Seq(GoldRow) /\ Len(RebuildPrices) = Len(goldPrices)
      BY <2>1, <1>1
    <2>3. table \in Seq(GoldRow) /\ Len(table) = Len(goldPrices)
      BY <2>2, <1>1
    <2>4. \A i \in DOMAIN table : table[i].key[2] = "DATE"
      BY <1>1, <2>1, <2>2 DEF PricesInv, GoldDays
    <2>5. goldPrices' = NewestOnly(table) /\ schema' = [schema EXCEPT !["goldPrices"] = "ONE_ACTIVE"]
          /\ UNCHANGED <<items, edits>>
      BY <1>3 DEF InstallGoldPriceActiveDate
    <2> HIDE DEF table
    <2>6. /\ goldPrices' \in Seq(GoldRow) /\ Len(goldPrices') = Len(goldPrices)
          /\ DOMAIN goldPrices' = DOMAIN table
          /\ \A i \in DOMAIN table : goldPrices'[i].key = table[i].key
          /\ OneActiveEach(goldPrices')
      BY <2>3, <2>5, NewestOnlyOne, RowMarks
    <2>7. PricesTypeOK'
      BY <1>1, <2>5, <2>6 DEF PricesInv, PricesTypeOK, Schemas
    <2>8. IndexHolds'
      BY <1>1, <2>5, <2>6 DEF PricesInv, IndexHolds, OneActiveEach
    <2>9. GoldDays'
      BY <2>4, <2>6 DEF GoldDays
    <2>10. EditsAimed'
      BY <2>5 DEF PricesInv, EditsAimed
    <2> QED BY <2>7, <2>8, <2>9, <2>10 DEF PricesInv
  <1> QED BY <1>2, <1>3

\* Items: requests, their saves, and the switch with its counterpart.
LEMMA ItemStepsKeep ==
    ASSUME PricesInv, ItemsNext
    PROVE  PricesInv'
  <1>1. /\ items \in Seq(ItemRow) /\ Len(items) <= MaxRows /\ MaxRows \in Nat
        /\ DOMAIN items = 1..Len(items) /\ Len(items) \in Nat
    BY PriceConstants DEF PricesInv, PricesTypeOK
  <1>2. ASSUME NEW e \in Editors, NEW key \in Codes, CreateItem(e, key) PROVE PricesInv'
    BY <1>1, <1>2, BeginKeeps DEF CreateItem, EditOps
  <1>3. ASSUME NEW e \in Editors, NEW key \in Codes, NEW i \in DOMAIN items, UpdateItem(e, i, key)
        PROVE  PricesInv'
    <2>1. i \in 0..MaxRows
      BY <1>1
    <2> QED BY <2>1, <1>3, BeginKeeps DEF UpdateItem, EditOps
  <1>4. ASSUME NEW e \in Editors, InsertItem(e) PROVE PricesInv'
    <2>1. edits[e].key \in Codes
      BY <1>4 DEF InsertItem, Editing, PricesInv, EditsAimed
    <2>2. [key |-> edits[e].key, active |-> TRUE, replaces |-> 0] \in ItemRow
      BY <2>1, <1>1 DEF ItemRow
    <2> QED BY <2>2, <1>4, ItemSaved DEF InsertItem
  <1>5. ASSUME NEW e \in Editors, ReplaceItemWithRevision(e) PROVE PricesInv'
    <2> DEFINE i   == edits[e].row
               key == edits[e].key
               old == IF items[i].key = key THEN ActiveRows(items, key) ELSE {i}
               row == [key |-> key, active |-> TRUE, replaces |-> i]
    <2>1. key \in Codes /\ i \in DOMAIN items
      BY <1>5 DEF ReplaceItemWithRevision, Editing, PricesInv, EditsAimed
    <2>2. row \in ItemRow
      BY <2>1, <1>1 DEF ItemRow
    <2>3. items' = Save(items, old, row) /\ EndEdit(e) /\ UNCHANGED goldPrices /\ Len(items) < MaxRows
      BY <1>5 DEF ReplaceItemWithRevision
    <2> HIDE DEF old, row
    <2> QED BY <2>2, <2>3, ItemSaved
  <1>6. ASSUME NEW i \in DOMAIN items, NEW active \in BOOLEAN, SetItemActive(i, active) PROVE PricesInv'
    <2> DEFINE others == IF active THEN ActiveRows(items, items[i].key) \ {i} ELSE {}
               off == SwitchOff(items, others)
    <2>1. items' = [off EXCEPT ![i].active = active] /\ UNCHANGED <<goldPrices, schema, edits>>
      BY <1>6 DEF SetItemActive
    <2>2. others \subseteq DOMAIN items /\ i \notin others
          /\ \A j \in DOMAIN items \ {i} : active /\ items[j].active /\ items[j].key = items[i].key => j \in others
      BY DEF ActiveRows
    <2> HIDE DEF others
    <2>3. /\ off \in Seq(ItemRow) /\ Len(off) = Len(items) /\ DOMAIN off = DOMAIN items
          /\ \A j \in DOMAIN items : off[j] =
                IF j \in others THEN [items[j] EXCEPT !.active = FALSE] ELSE items[j]
      BY <1>1, SwitchOffRows, RowMarks
    <2> HIDE DEF off
    <2>4. /\ items' \in Seq(ItemRow) /\ Len(items') = Len(items) /\ DOMAIN items' = DOMAIN items
          /\ items'[i] = [items[i] EXCEPT !.active = active]
          /\ \A j \in DOMAIN items \ {i} : items'[j] = off[j]
      <3>1. [off[i] EXCEPT !.active = active] \in ItemRow
        BY <2>3, <1>1, ItemMarked
      <3>2. items' = [off EXCEPT ![i] = [off[i] EXCEPT !.active = active]]
        BY <2>1
      <3>3. off[i] = items[i]
        BY <2>2, <2>3
      <3>4. items' \in [1..Len(items) -> ItemRow]
        BY <3>1, <3>2, <2>3, <1>1
      <3>5. /\ items'[i] = [items[i] EXCEPT !.active = active]
            /\ \A j \in DOMAIN items \ {i} : items'[j] = off[j]
        BY <3>2, <3>3, <2>3
      <3> QED BY <3>4, <3>5, <1>1
    <2>5. items'[i].key = items[i].key /\ items'[i].active = active
      BY <2>4, <1>1, ItemMarked
    <2>6. \A j \in DOMAIN items \ {i} : /\ items'[j].key = items[j].key
                                        /\ items'[j].active => items[j].active /\ j \notin others
      <3> SUFFICES ASSUME NEW j \in DOMAIN items \ {i}
                   PROVE  /\ items'[j].key = items[j].key
                          /\ items'[j].active => items[j].active /\ j \notin others
        OBVIOUS
      <3>1. items[j] \in ItemRow
        BY <1>1
      <3>2. /\ [items[j] EXCEPT !.active = FALSE].key = items[j].key
            /\ [items[j] EXCEPT !.active = FALSE].active = FALSE
        BY <3>1, RowMarks DEF Switchable
      <3>3. items'[j] = IF j \in others THEN [items[j] EXCEPT !.active = FALSE] ELSE items[j]
        BY <2>3, <2>4
      <3> QED BY <3>2, <3>3
    <2>7. OneActiveEach(items) => OneActiveEach(items')
      <3> SUFFICES ASSUME OneActiveEach(items), NEW j \in DOMAIN items, NEW k \in DOMAIN items, j # k,
                          items'[j].active, items'[k].active, items'[j].key = items'[k].key
                   PROVE  FALSE
        BY <2>4 DEF OneActiveEach
      <3>1. CASE j = i
        BY <3>1, <2>2, <2>5, <2>6
      <3>2. CASE k = i
        BY <3>2, <2>2, <2>5, <2>6
      <3>3. CASE j # i /\ k # i
        BY <3>3, <2>6 DEF OneActiveEach
      <3> QED BY <3>1, <3>2, <3>3
    <2>8. edits' \in [Editors -> Edit \cup {NoEdit}] /\ \A e \in Editors : edits'[e] \in {edits[e], NoEdit}
      BY <2>1 DEF PricesInv, PricesTypeOK
    <2> QED BY <1>1, <2>1, <2>4, <2>7, <2>8, ItemsKeep
  <1> QED BY <1>2, <1>3, <1>4, <1>5, <1>6, StartupKeeps DEF ItemsNext

\* Gold prices: requests, their saves, and deactivation.
LEMMA GoldPriceStepsKeep ==
    ASSUME PricesInv, GoldPricesNext
    PROVE  PricesInv'
  <1>1. /\ goldPrices \in Seq(GoldRow) /\ Len(goldPrices) <= MaxRows /\ MaxRows \in Nat
        /\ DOMAIN goldPrices = 1..Len(goldPrices) /\ Len(goldPrices) \in Nat
    BY PriceConstants DEF PricesInv, PricesTypeOK
  <1>2. ASSUME NEW e \in Editors, NEW date \in Dates, CreateGoldPrice(e, date) PROVE PricesInv'
    <2>1. Day(date) \in GoldKeys /\ Day(date)[2] = "DATE"
      BY DEF Day, GoldKeys
    <2>2. PICK op \in {"CREATE_GOLD_PRICE", "REPLACE_GOLD_PRICE"} : BeginEdit(e, op, Day(date), 0)
      BY <1>2 DEF CreateGoldPrice
    <2> QED BY <2>1, <2>2, <1>1, BeginKeeps DEF EditOps
  <1>3. ASSUME NEW e \in Editors, InsertGoldPrice(e) \/ ReplaceActiveGoldPrice(e) PROVE PricesInv'
    <2> DEFINE row == [key |-> edits[e].key, active |-> TRUE]
    <2>1. edits[e].key \in GoldKeys /\ edits[e].key[2] = "DATE"
      BY <1>3 DEF InsertGoldPrice, ReplaceActiveGoldPrice, Editing, PricesInv, EditsAimed
    <2>2. row \in GoldRow /\ row.key[2] = "DATE"
      BY <2>1 DEF GoldRow
    <2>3. PICK rows \in SUBSET DOMAIN goldPrices : goldPrices' = Save(goldPrices, rows, row)
      BY <1>3 DEF InsertGoldPrice, ReplaceActiveGoldPrice, ActiveRows
    <2>4. EndEdit(e) /\ UNCHANGED items /\ Len(goldPrices) < MaxRows
      BY <1>3 DEF InsertGoldPrice, ReplaceActiveGoldPrice
    <2> HIDE DEF row
    <2> QED BY <2>2, <2>3, <2>4, GoldPriceSaved
  <1>4. ASSUME NEW i \in DOMAIN goldPrices, DeactivateGoldPrice(i) PROVE PricesInv'
    <2>1. /\ goldPrices' = [goldPrices EXCEPT ![i].active = FALSE]
          /\ UNCHANGED <<items, schema, edits>>
      BY <1>4 DEF DeactivateGoldPrice
    <2>2. goldPrices' = SwitchOff(goldPrices, {i})
      BY <1>1, <2>1 DEF SwitchOff
    <2>3. /\ goldPrices' \in Seq(GoldRow) /\ Len(goldPrices') = Len(goldPrices)
          /\ DOMAIN goldPrices' = DOMAIN goldPrices
      BY <1>1, <2>2, SwitchOffRows, RowMarks
    <2>4. OneActiveEach(goldPrices) => OneActiveEach(goldPrices')
      BY <1>1, <2>2, SwitchOffKeepsOne, RowMarks
    <2>5. \A j \in DOMAIN goldPrices : goldPrices'[j].key = goldPrices[j].key
      BY <1>1, <2>1 DEF GoldRow
    <2>6. GoldDays => GoldDays'
      BY <2>1, <2>3, <2>5 DEF GoldDays
    <2>7. edits' \in [Editors -> Edit \cup {NoEdit}] /\ \A e \in Editors : edits'[e] \in {edits[e], NoEdit}
      BY <2>1 DEF PricesInv, PricesTypeOK
    <2> QED BY <1>1, <2>1, <2>3, <2>4, <2>6, <2>7, GoldPricesKeep
  <1> QED BY <1>2, <1>3, <1>4, StartupKeeps DEF GoldPricesNext

LEMMA PricesStuttering == PricesInv /\ UNCHANGED priceVars => PricesInv'
  BY DEF priceVars, PricesInv, PricesTypeOK, IndexHolds, GoldDays, EditsAimed, OneActiveEach

LEMMA PricesInvariant == PricesSpec => []PricesInv
  <1>1. PricesInv /\ [PricesNext]_priceVars => PricesInv'
    BY ItemStepsKeep, GoldPriceStepsKeep, PricesStuttering DEF PricesNext
  <1> QED BY <1>1, InitialPrices, PTL DEF PricesSpec

\* The tables hold rows, edits in flight are edits, and the bound holds.
THEOREM PricesTyped == PricesSpec => []PricesTypeOK
  <1>1. PricesInv => PricesTypeOK
    BY DEF PricesInv
  <1> QED BY <1>1, PricesInvariant, PTL

\* OneActivePrice: whatever rows earlier versions left and however edits
\* overlap, a running server has one price in force per code (the unique index
\* of price_list_item_constraints.go) and one gold price per calendar day (that of
\* gold_price_constraints.go).
THEOREM PricedOnce == PricesSpec => []OneActivePrice
  BY InvOneActive, PricesInvariant, PTL

-----------------------------------------------------------------------------
(***************************************************************************)
(* Nobody loses a price by accident.                                       *)
(***************************************************************************)
\* Of some rows of a table one is the newest.
LEMMA NewestRow ==
    ASSUME NEW n \in Nat, NEW S \in SUBSET (1..n), S # {}
    PROVE  \E m \in S : \A k \in S : k <= m
  <1> DEFINE R == OpToRel(<, Nat)
             T == {n - s : s \in S}
  <1>1. IsWellFoundedOn(R, Nat)
    BY NatLessThanWellFounded
  <1>2. T \subseteq Nat
    OBVIOUS
  <1>3. T # {}
    <2>1. PICK s \in S : TRUE
      OBVIOUS
    <2>2. n - s \in T
      OBVIOUS
    <2> QED BY <2>2
  <1>4. \A a, b \in Nat : a < b => <<a, b>> \in R
    BY DEF OpToRel
  <1> HIDE DEF R, T
  <1>5. PICK x \in T : \A y \in T : ~(<<y, x>> \in R)
    BY <1>1, <1>2, <1>3, WFMin
  <1>6. \A y \in T : ~(y < x)
    BY <1>2, <1>4, <1>5
  <1>7. PICK m \in S : x = n - m
    BY DEF T
  <1>8. \A k \in S : ~(n - k < n - m)
    BY <1>6, <1>7 DEF T
  <1> QED BY <1>7, <1>8

\* The repair leaves a row of every key that had one in force: the newest.
LEMMA NewestOnlyKeeps ==
    ASSUME NEW Row, NEW table \in Seq(Row), Switchable(Row),
           NEW i \in DOMAIN table, table[i].active
    PROVE  \E j \in DOMAIN table : /\ NewestOnly(table)[j] = table[j]
                                   /\ table[j].active /\ table[j].key = table[i].key
  <1> DEFINE S     == {j \in DOMAIN table : table[j].active /\ table[j].key = table[i].key}
             stale == {j \in DOMAIN table :
          \E k \in DOMAIN table : k > j /\ table[k].active /\ table[k].key = table[j].key}
  <1>1. Len(table) \in Nat /\ DOMAIN table = 1..Len(table)
    OBVIOUS
  <1>2. S \in SUBSET (1..Len(table)) /\ i \in S
    BY <1>1
  <1>3. PICK m \in S : \A k \in S : k <= m
    <2> HIDE DEF S
    <2> QED BY <1>1, <1>2, NewestRow
  <1>4. m \in DOMAIN table /\ table[m].active /\ table[m].key = table[i].key
    OBVIOUS
  <1>5. m \notin stale
    <2> SUFFICES ASSUME NEW k \in DOMAIN table, k > m, table[k].active, table[k].key = table[m].key
                 PROVE  FALSE
      OBVIOUS
    <2>1. k \in S
      BY <1>4
    <2>2. k <= m
      BY <1>3, <2>1
    <2> QED BY <2>2, <1>1, <1>4
  <1>6. NewestOnly(table) = SwitchOff(table, stale)
    BY DEF NewestOnly
  <1>7. SwitchOff(table, stale)[m] = table[m]
    <2> HIDE DEF stale
    <2> QED BY <1>4, <1>5 DEF SwitchOff
  <1> QED BY <1>4, <1>6, <1>7

\* A save leaves a row in force of every key that had one, the rows it switches
\* off giving way to the new one; a save that is refused leaves the table.
LEMMA SaveKeepsPriced ==
    ASSUME NEW Row, NEW table \in Seq(Row), NEW rows, NEW row \in Row, Switchable(Row),
           row.active, NEW i \in DOMAIN table, table[i].active,
           i \in rows => table[i].key = row.key
    PROVE  \E j \in DOMAIN Save(table, rows, row) :
              /\ Save(table, rows, row)[j].active
              /\ Save(table, rows, row)[j].key = table[i].key
  <1>1. CASE Save(table, rows, row) = table
    BY <1>1
  <1>2. CASE Save(table, rows, row) = Append(SwitchOff(table, rows), row)
    <2> DEFINE off == SwitchOff(table, rows)
    <2>1. /\ off \in Seq(Row) /\ Len(off) = Len(table)
          /\ i \notin rows => off[i] = table[i]
      <3>1. \A j \in DOMAIN table : off[j] =
               IF j \in rows THEN [table[j] EXCEPT !.active = FALSE] ELSE table[j]
        BY SwitchOffRows
      <3>2. off \in Seq(Row) /\ Len(off) = Len(table)
        BY SwitchOffRows
      <3> HIDE DEF off
      <3> QED BY <3>1, <3>2
    <2>2. i \in 1..Len(table) /\ Len(table) \in Nat
      OBVIOUS
    <2> HIDE DEF off
    <2>3. /\ i \in DOMAIN Append(off, row) /\ Append(off, row)[i] = off[i]
          /\ Len(table) + 1 \in DOMAIN Append(off, row) /\ Append(off, row)[Len(table) + 1] = row
      BY <2>1, <2>2
    <2>4. Save(table, rows, row) = Append(off, row)
      BY <1>2 DEF off
    <2> QED BY <2>1, <2>3, <2>4
  <1> QED BY <1>1, <1>2, SaveRows

ItemPricesKept ==
    \A code \in Codes : Priced(code) /\ ~Priced(code)' =>
        \E i \in ActiveRows(items, code) : SetItemActive(i, FALSE) \/ MovedAway(i)

GoldPricesKept ==
    \A date \in Dates : GoldPriced(date) /\ ~GoldPriced(date)' =>
        \E i \in DOMAIN goldPrices : DeactivateGoldPrice(i)

\* Steps of price-list items.
LEMMA ItemStepsKeepPrices ==
    ASSUME PricesInv, ItemsNext
    PROVE  ItemPricesKept
  <1> SUFFICES ASSUME NEW code \in Codes, NEW r \in DOMAIN items,
                      items[r].active, items[r].key = code, ~Priced(code)'
               PROVE  \E i \in ActiveRows(items, code) : SetItemActive(i, FALSE) \/ MovedAway(i)
    BY DEF ItemPricesKept, Priced, ActiveRows
  <1>1. /\ items \in Seq(ItemRow) /\ MaxRows \in Nat /\ DOMAIN items = 1..Len(items)
        /\ Len(items) \in Nat /\ r \in ActiveRows(items, code)
    BY PriceConstants DEF PricesInv, PricesTypeOK, ActiveRows
  <1>2. \A j \in DOMAIN items' : ~(items'[j].active /\ items'[j].key = code)
    BY DEF Priced, ActiveRows
  <1>3. ASSUME InstallPriceListItemRevisionHistory PROVE FALSE
    <2> DEFINE table == IF schema["items"] = "UNIQUE_KEY" THEN RebuildItems ELSE items
    <2>1. /\ RebuildItems \in [1..Len(items) -> ItemRow]
          /\ RebuildItems[r].active = items[r].active /\ RebuildItems[r].key = items[r].key
      <3>1. \A i \in 1..Len(items) : items[i] \in ItemRow
        BY <1>1
      <3>2. RebuildItems[r] = [items[r] EXCEPT !.replaces = 0]
        BY DEF RebuildItems
      <3>3. RebuildItems[r].active = items[r].active /\ RebuildItems[r].key = items[r].key
        BY <1>1, <3>1, <3>2 DEF ItemRow
      <3> QED BY <1>1, <3>1, <3>3, RowsRebuilt DEF RebuildItems
    <2>2. RebuildItems \in Seq(ItemRow) /\ Len(RebuildItems) = Len(items)
      BY <2>1, <1>1
    <2>3. /\ table \in Seq(ItemRow) /\ Len(table) = Len(items) /\ r \in DOMAIN table
          /\ table[r].active /\ table[r].key = code
      BY <1>1, <2>1, <2>2
    <2>4. items' = NewestOnly(table)
      BY <1>3 DEF InstallPriceListItemRevisionHistory
    <2> HIDE DEF table
    <2>5. DOMAIN items' = DOMAIN table
      BY <2>3, <2>4, NewestOnlyOne, RowMarks
    <2> QED BY <1>2, <2>3, <2>4, <2>5, NewestOnlyKeeps, RowMarks
  <1>4. ASSUME NEW e \in Editors, InsertItem(e) PROVE FALSE
    <2> DEFINE row == [key |-> edits[e].key, active |-> TRUE, replaces |-> 0]
    <2>1. row \in ItemRow /\ row.active
      BY <1>1, <1>4 DEF InsertItem, Editing, PricesInv, EditsAimed, ItemRow
    <2>2. items' = Save(items, {}, row)
      BY <1>4 DEF InsertItem
    <2> HIDE DEF row
    <2> QED BY <1>1, <1>2, <2>1, <2>2, SaveKeepsPriced, RowMarks
  <1>5. ASSUME NEW e \in Editors, ReplaceItemWithRevision(e)
        PROVE  \E i \in ActiveRows(items, code) : MovedAway(i)
    <2> DEFINE i   == edits[e].row
               key == edits[e].key
               old == IF items[i].key = key THEN ActiveRows(items, key) ELSE {i}
               row == [key |-> key, active |-> TRUE, replaces |-> i]
    <2>1. key \in Codes /\ i \in DOMAIN items
      BY <1>5 DEF ReplaceItemWithRevision, Editing, PricesInv, EditsAimed
    <2>2. i \in 0..MaxRows
      BY <2>1, <1>1 DEF PricesInv, PricesTypeOK
    <2>3. row \in ItemRow /\ row.active /\ row.key = key /\ row.replaces = i
      BY <2>1, <2>2 DEF ItemRow
    <2>4. items' = Save(items, old, row)
      BY <1>5 DEF ReplaceItemWithRevision
    <2>5. old = ActiveRows(items, key) \/ old = {i}
      OBVIOUS
    <2> HIDE DEF old, row
    <2>6. r \in old /\ items[r].key # key
      BY <1>1, <1>2, <2>3, <2>4, SaveKeepsPriced, RowMarks
    <2>7. r = i
      BY <2>5, <2>6 DEF ActiveRows
    <2>8. items' # items
      BY <1>2
    <2>9. items' = Append(SwitchOff(items, old), row)
      BY <1>1, <2>3, <2>4, <2>8, SaveRows, RowMarks
    <2>10. SwitchOff(items, old) \in Seq(ItemRow) /\ Len(SwitchOff(items, old)) = Len(items)
      BY <1>1, SwitchOffRows, RowMarks
    <2>11. Len(items') = Len(items) + 1 /\ items'[Len(items')] = row
      BY <1>1, <2>3, <2>9, <2>10
    <2>12. MovedAway(r)
      BY <2>3, <2>7, <2>11 DEF MovedAway
    <2> QED BY <1>1, <2>12
  <1>6. ASSUME NEW i \in DOMAIN items, NEW active \in BOOLEAN, SetItemActive(i, active)
        PROVE  i = r /\ active = FALSE
    <2> DEFINE others == IF active THEN ActiveRows(items, items[i].key) \ {i} ELSE {}
               off == SwitchOff(items, others)
    <2>1. items' = [off EXCEPT ![i].active = active]
      BY <1>6 DEF SetItemActive
    <2>2. i \notin others /\ \A j \in others : active /\ items[j].key = items[i].key
      BY DEF ActiveRows
    <2> HIDE DEF others
    <2>3. /\ DOMAIN off = DOMAIN items
          /\ \A j \in DOMAIN items : off[j] =
                IF j \in others THEN [items[j] EXCEPT !.active = FALSE] ELSE items[j]
      BY <1>1, SwitchOffRows, RowMarks
    <2> HIDE DEF off
    <2>4. DOMAIN items' = DOMAIN items /\ \A j \in DOMAIN items \ {i} : items'[j] = off[j]
      BY <2>1, <2>3
    <2>5. items'[i] = [items[i] EXCEPT !.active = active]
      BY <2>1, <2>2, <2>3
    <2>6. items'[i].key = items[i].key /\ items'[i].active = active
      BY <2>5, <1>1, ItemMarked
    <2>7. CASE r = i
      <3>1. ~active
        BY <2>7, <2>4, <2>6, <1>2
      <3> QED BY <2>7, <3>1
    <2>8. CASE r # i
      <3>1. r \in others
        BY <2>8, <2>3, <2>4, <1>2
      <3>2. items'[i].active /\ items'[i].key = code
        BY <3>1, <2>2, <2>6
      <3> QED BY <3>2, <2>4, <1>2
    <2> QED BY <2>7, <2>8
  <1>7. ASSUME UNCHANGED items PROVE FALSE
    BY <1>2, <1>7
  <1>8. ASSUME NEW i \in DOMAIN items, NEW active \in BOOLEAN, SetItemActive(i, active)
        PROVE  SetItemActive(r, FALSE)
    BY <1>6, <1>8
  <1> QED BY <1>1, <1>3, <1>4, <1>5, <1>7, <1>8 DEF ItemsNext, CreateItem, UpdateItem, BeginEdit

\* Steps of gold prices.
LEMMA GoldStepsKeepPrices ==
    ASSUME PricesInv, GoldPricesNext
    PROVE  GoldPricesKept
  <1> SUFFICES ASSUME NEW date \in Dates, NEW r \in DOMAIN goldPrices,
                      goldPrices[r].active, goldPrices[r].key[1] = date, ~GoldPriced(date)'
               PROVE  \E i \in DOMAIN goldPrices : DeactivateGoldPrice(i)
    BY DEF GoldPricesKept, GoldPriced
  <1>1. /\ goldPrices \in Seq(GoldRow) /\ DOMAIN goldPrices = 1..Len(goldPrices)
        /\ Len(goldPrices) \in Nat
    BY DEF PricesInv, PricesTypeOK
  <1>2. \A j \in DOMAIN goldPrices' : ~(goldPrices'[j].active /\ goldPrices'[j].key[1] = date)
    BY DEF GoldPriced
  <1>3. ASSUME InstallGoldPriceActiveDate PROVE FALSE
    <2> DEFINE table == IF schema["goldPrices"] = "UNIQUE_KEY" THEN RebuildPrices ELSE goldPrices
    <2>1. /\ RebuildPrices \in [1..Len(goldPrices) -> GoldRow]
          /\ RebuildPrices[r].active = goldPrices[r].active
          /\ RebuildPrices[r].key[1] = goldPrices[r].key[1]
      <3>1. \A i \in 1..Len(goldPrices) : goldPrices[i] \in GoldRow
        BY <1>1
      <3>2. RebuildPrices =
               [i \in 1..Len(goldPrices) |-> [goldPrices[i] EXCEPT !.key = Day(goldPrices[i].key[1])]]
        BY <1>1 DEF RebuildPrices
      <3>3. RebuildPrices[r] = [goldPrices[r] EXCEPT !.key = Day(goldPrices[r].key[1])]
        BY <1>1, <3>2
      <3>4. /\ RebuildPrices[r].active = goldPrices[r].active
            /\ RebuildPrices[r].key = Day(goldPrices[r].key[1])
        BY <1>1, <3>1, <3>3 DEF GoldRow
      <3>5. RebuildPrices \in [1..Len(goldPrices) -> GoldRow]
        BY <3>1, <3>2, RowsRebuilt
      <3> QED BY <3>4, <3>5 DEF Day
    <2>2. RebuildPrices \in Seq(GoldRow) /\ Len(RebuildPrices) = Len(goldPrices)
      BY <2>1, <1>1
    <2>3. /\ table \in Seq(GoldRow) /\ Len(table) = Len(goldPrices) /\ r \in DOMAIN table
          /\ table[r].active /\ table[r].key[1] = date
      BY <1>1, <2>1, <2>2
    <2>4. goldPrices' = NewestOnly(table)
      BY <1>3 DEF InstallGoldPriceActiveDate
    <2> HIDE DEF table
    <2>5. DOMAIN goldPrices' = DOMAIN table
      BY <2>3, <2>4, NewestOnlyOne, RowMarks
    <2> QED BY <1>2, <2>3, <2>4, <2>5, NewestOnlyKeeps, RowMarks
  <1>4. ASSUME NEW e \in Editors, InsertGoldPrice(e) \/ ReplaceActiveGoldPrice(e) PROVE FALSE
    <2> DEFINE row == [key |-> edits[e].key, active |-> TRUE]
    <2>1. row \in GoldRow /\ row.active /\ row.key = edits[e].key
      BY <1>4 DEF InsertGoldPrice, ReplaceActiveGoldPrice, Editing, PricesInv, EditsAimed, GoldRow
    <2>2. PICK rows \in SUBSET ActiveRows(goldPrices, edits[e].key) :
             goldPrices' = Save(goldPrices, rows, row)
      BY <1>4 DEF InsertGoldPrice, ReplaceActiveGoldPrice
    <2>3. r \in rows => goldPrices[r].key = row.key
      BY <2>1, <2>2 DEF ActiveRows
    <2> HIDE DEF row
    <2> QED BY <1>1, <1>2, <2>1, <2>2, <2>3, SaveKeepsPriced, RowMarks
  <1>5. ASSUME UNCHANGED goldPrices PROVE FALSE
    BY <1>2, <1>5
  <1> QED BY <1>3, <1>4, <1>5 DEF GoldPricesNext, CreateGoldPrice, BeginEdit

\* PriceKept: a code loses its price only when its item is deactivated or given
\* another code, a day only when its gold price is deactivated.  An edit whose
\* save is refused is rolled back with the rows it switched off, and the repair
\* at startup keeps the newest row of every key.
THEOREM PricesNotLost == PricesSpec => PriceKept
  <1>1. ASSUME PricesInv, ItemsNext PROVE ItemPricesKept /\ GoldPricesKept
    <2>1. UNCHANGED goldPrices
      BY <1>1 DEF ItemsNext, InstallPriceListItemRevisionHistory, CreateItem, UpdateItem, BeginEdit,
                  InsertItem, ReplaceItemWithRevision, SetItemActive
    <2> QED BY <1>1, <2>1, ItemStepsKeepPrices DEF GoldPricesKept, GoldPriced
  <1>2. ASSUME PricesInv, GoldPricesNext PROVE ItemPricesKept /\ GoldPricesKept
    <2>1. UNCHANGED items
      BY <1>2 DEF GoldPricesNext, InstallGoldPriceActiveDate, CreateGoldPrice, BeginEdit,
                  InsertGoldPrice, ReplaceActiveGoldPrice, DeactivateGoldPrice
    <2> QED BY <1>2, <2>1, GoldStepsKeepPrices DEF ItemPricesKept, Priced, ActiveRows
  <1>3. PricesInv /\ [PricesNext]_priceVars => [ItemPricesKept /\ GoldPricesKept]_priceVars
    BY <1>1, <1>2 DEF PricesNext
  <1> QED BY <1>3, PricesInvariant, PTL DEF PricesSpec, PriceKept, ItemPricesKept, GoldPricesKept

-----------------------------------------------------------------------------
(***************************************************************************)
(* Replacements.  A single edit checks only that the replaced assignment   *)
(* is active, and two plans in flight do not see each other's links: the   *)
(* promise is of bulk plans that follow one another.  What it rests on is  *)
(* that the rows a bulk plan knows are then exactly the rows of the table. *)
(***************************************************************************)
BulkCall == [op : {"BULK_SAVE", "BULK_LINK"}, request : UNION {[S -> PlanEntry] : S \in SUBSET Staff},
             todo : SUBSET Staff, known : [Staff -> Known \cup {NoRow}]]

Busy(p) == planners[p] # IdleCall

OnePlanner == \A p, q \in Planners : Busy(p) /\ Busy(q) => p = q

PlanTable ==
    /\ assignments \in [AssignmentIds -> PlanRow \cup {NoRow}]
    /\ \A i \in AssignmentIds : assignments[i] # NoRow => assignments[i].active
    /\ ReplacedOnce

\* `known' is the table, by collaborator.
KnowsTable(known) ==
    /\ \A x \in Staff : known[x] # NoRow =>
           assignments[known[x].id] = known[x].row /\ known[x].row.staff = x
    /\ \A i \in AssignmentIds : assignments[i] # NoRow =>
           known[assignments[i].staff] # NoRow /\ known[assignments[i].staff].id = i

\* A row that has been saved is known, and linking comes after saving.
CallSound(call) ==
    /\ call.todo \subseteq DOMAIN call.request
    /\ \A x \in DOMAIN call.request : call.op = "BULK_LINK" \/ x \notin call.todo => call.known[x] # NoRow
    /\ call.op = "BULK_LINK" => \A x \in call.todo : call.request[x].replaces # NoRow

BulkInv ==
    /\ OneRowEach /\ PlanTable
    /\ planners \in [Planners -> BulkCall \cup {IdleCall}]
    /\ \A p \in Planners : Busy(p) => CallSound(planners[p]) /\ KnowsTable(planners[p].known)

LEMMA BulkCallFields ==
    ASSUME NEW call \in BulkCall
    PROVE  /\ call.op \in {"BULK_SAVE", "BULK_LINK"} /\ call # IdleCall
           /\ DOMAIN call.request \in SUBSET Staff
           /\ \A x \in DOMAIN call.request : call.request[x] \in PlanEntry
           /\ call.todo \in SUBSET Staff /\ call.known \in [Staff -> Known \cup {NoRow}]
  <1>1. /\ call.op \in {"BULK_SAVE", "BULK_LINK"}
        /\ call.request \in UNION {[S -> PlanEntry] : S \in SUBSET Staff}
        /\ call.todo \in SUBSET Staff /\ call.known \in [Staff -> Known \cup {NoRow}]
    BY DEF BulkCall
  <1>2. IdleCall.op = "IDLE"
    BY DEF IdleCall
  <1>3. PICK S \in SUBSET Staff : call.request \in [S -> PlanEntry]
    BY <1>1
  <1> QED BY <1>1, <1>2, <1>3

\* The next collaborator of a loop is one of those left.
LEMMA NextIsLeft ==
    ASSUME NEW S \in SUBSET Staff, S # {}
    PROVE  Min(S) \in S
  <1> DEFINE R == OpToRel(<, Nat)
  <1>1. IsWellFoundedOn(R, Nat)
    BY NatLessThanWellFounded
  <1>2. S \subseteq Nat
    BY PlanningConstants DEF Staff
  <1>3. \A a, b \in Nat : a < b => <<a, b>> \in R
    BY DEF OpToRel
  <1> HIDE DEF R
  <1>4. PICK x \in S : \A y \in S : ~(<<y, x>> \in R)
    BY <1>1, <1>2, WFMin
  <1>5. \A y \in S : ~(y < x)
    BY <1>2, <1>3, <1>4
  <1>6. \A y \in S : x <= y
    BY <1>2, <1>5
  <1> QED BY <1>6 DEF Min

\* What a call starts from.
LEMMA CurrentRowsAreTable ==
    ASSUME OneRowEach, PlanTable
    PROVE  CurrentRows \in [Staff -> Known \cup {NoRow}] /\ KnowsTable(CurrentRows)
  <1>1. ASSUME NEW x \in Staff, NEW i \in CurrentRow(x)
        PROVE  /\ CurrentRows[x] = [id |-> i, row |-> assignments[i]]
               /\ CurrentRows[x].id = i /\ CurrentRows[x].row = assignments[i] /\ CurrentRows[x] \in Known
               /\ assignments[i].staff = x
    <2>1. \A j \in CurrentRow(x) : j = i
      BY DEF OneRowEach
    <2>2. CurrentRows[x] = [id |-> i, row |-> assignments[i]]
      BY <2>1 DEF CurrentRows
    <2>3. i \in AssignmentIds /\ assignments[i] \in PlanRow /\ assignments[i].staff = x
      BY DEF CurrentRow, RowsOf, PlanTable
    <2>4. [id |-> i, row |-> assignments[i]] \in Known
      BY <2>3 DEF Known
    <2> QED BY <2>2, <2>3, <2>4
  <1>2. ASSUME NEW x \in Staff, CurrentRow(x) = {} PROVE CurrentRows[x] = NoRow
    BY <1>2 DEF CurrentRows
  <1>3. CurrentRows = [x \in Staff |-> CurrentRows[x]]
    BY DEF CurrentRows
  <1>4. CurrentRows \in [Staff -> Known \cup {NoRow}]
    BY <1>1, <1>2, <1>3
  <1>5. ASSUME NEW x \in Staff, CurrentRows[x] # NoRow
        PROVE  assignments[CurrentRows[x].id] = CurrentRows[x].row /\ CurrentRows[x].row.staff = x
    <2>1. PICK i \in CurrentRow(x) : TRUE
      BY <1>2, <1>5
    <2> QED BY <1>1, <2>1
  <1>6. ASSUME NEW i \in AssignmentIds, assignments[i] # NoRow
        PROVE  CurrentRows[assignments[i].staff] # NoRow /\ CurrentRows[assignments[i].staff].id = i
    <2>1. PICK x \in Staff : x = assignments[i].staff /\ i \in CurrentRow(x)
      BY <1>6 DEF PlanTable, PlanRow, CurrentRow, RowsOf
    <2>2. i \in CurrentRow(x)
      BY <2>1
    <2>3. CurrentRows[x] \in Known /\ CurrentRows[x].id = i
      BY ONLY <1>1, <2>2, x \in Staff
    <2> QED BY <2>1, <2>3, PlanningConstants
  <1> QED BY <1>4, <1>5, <1>6 DEF KnowsTable

\* A row written for a collaborator where the call knows its row, or in a free
\* place, and noted by the call.  Its link, if any, is nobody else's.
LEMMA KnownWrite ==
    ASSUME PlanTable, NEW known \in [Staff -> Known \cup {NoRow}], NEW after, KnowsTable(known),
           NEW x \in Staff, NEW i \in AssignmentIds, NEW row \in PlanRow, Write(i, row),
           row.staff = x, row.active,
           IF known[x] = NoRow THEN assignments[i] = NoRow ELSE i = known[x].id,
           after[x] # NoRow, after[x].id = i, after[x].row = row,
           \A y \in Staff : y # x => after[y] = known[y],
           \/ row.replaces = NoRow
           \/ \A y \in Staff : y # x /\ known[y] # NoRow => known[y].row.replaces # row.replaces
    PROVE  PlanTable' /\ KnowsTable(after)'
  <1>1. \A j \in AssignmentIds : assignments'[j] = IF j = i THEN row ELSE assignments[j]
    BY DEF Write, PlanTable
  <1>2. assignments' \in [AssignmentIds -> PlanRow \cup {NoRow}]
    BY DEF Write, PlanTable
  <1>3. row # NoRow
    BY PlanningConstants
  <1>4. ASSUME NEW j \in AssignmentIds, j # i, assignments[j] # NoRow
        PROVE  /\ assignments[j].staff \in Staff /\ assignments[j].staff # x
               /\ known[assignments[j].staff] # NoRow
               /\ known[assignments[j].staff].id = j /\ known[assignments[j].staff].row = assignments[j]
    <2>1. assignments[j].staff \in Staff
      BY <1>4 DEF PlanTable, PlanRow
    <2>2. known[assignments[j].staff] # NoRow /\ known[assignments[j].staff].id = j
      BY <1>4 DEF KnowsTable
    <2>3. known[assignments[j].staff].row = assignments[j]
      BY <2>1, <2>2 DEF KnowsTable
    <2> QED BY <1>4, <2>1, <2>2, <2>3
  <1>5. ASSUME NEW j \in AssignmentIds, j # i, assignments[j] # NoRow, row.replaces # NoRow
        PROVE  assignments[j].replaces # row.replaces
    <2>1. PICK y \in Staff : y = assignments[j].staff
      BY <1>4, <1>5
    <2>2. y # x /\ known[y] # NoRow /\ known[y].row = assignments[j]
      BY <1>4, <1>5, <2>1
    <2> QED BY <1>5, <2>2
  <1>6. ReplacedOnce'
    BY <1>1, <1>5 DEF PlanTable, ReplacedOnce
  <1>7. PlanTable'
    BY <1>1, <1>2, <1>3, <1>6 DEF PlanTable
  <1>8. ASSUME NEW y \in Staff, after[y] # NoRow
        PROVE  assignments'[after[y].id] = after[y].row /\ after[y].row.staff = y
    <2>1. CASE y = x
      BY <1>1, <2>1
    <2>2. CASE y # x
      <3>1. /\ after[y] = known[y] /\ known[y].id \in AssignmentIds /\ known[y].row \in PlanRow
            /\ assignments[known[y].id] = known[y].row /\ known[y].row.staff = y
        BY <1>8, <2>2 DEF KnowsTable, Known
      <3>2. assignments[known[y].id] # NoRow
        BY <3>1, PlanningConstants
      <3>3. known[y].id # i
        BY <2>2, <3>1, <3>2 DEF KnowsTable
      <3> QED BY <1>1, <3>1, <3>3
    <2> QED BY <2>1, <2>2
  <1>9. ASSUME NEW j \in AssignmentIds, assignments'[j] # NoRow
        PROVE  after[assignments'[j].staff] # NoRow /\ after[assignments'[j].staff].id = j
    <2>1. CASE j = i
      BY <1>1, <2>1
    <2>2. CASE j # i
      BY <1>1, <1>4, <1>9, <2>2
    <2> QED BY <2>1, <2>2
  <1>10. KnowsTable(after)'
    BY <1>8, <1>9 DEF KnowsTable
  <1> QED BY <1>7, <1>10

LEMMA BulkPlanKeeps ==
    ASSUME BulkInv, NEW p \in Planners, NEW S \in SUBSET Staff, NEW request \in [S -> PlanEntry], BulkPlan(p, request)
    PROVE  BulkInv'
  <1>1. PICK call : call = [op |-> "BULK_SAVE", request |-> request, todo |-> DOMAIN request, known |-> CurrentRows]
    OBVIOUS
  <1>2. CurrentRows \in [Staff -> Known \cup {NoRow}] /\ KnowsTable(CurrentRows)
    BY CurrentRowsAreTable DEF BulkInv
  <1>3. call \in BulkCall /\ call.known = CurrentRows /\ CallSound(call)
    BY <1>1, <1>2 DEF BulkCall, CallSound
  <1>4. planners' = [planners EXCEPT ![p] = call] /\ UNCHANGED assignments
    BY <1>1 DEF BulkPlan, Take
  <1>5. \A q \in Planners : planners'[q] = IF q = p THEN call ELSE planners[q]
    BY <1>4 DEF BulkInv
  <1>6. planners' \in [Planners -> BulkCall \cup {IdleCall}]
    BY <1>3, <1>4 DEF BulkInv
  <1>7. \A q \in Planners : Busy(q)' => CallSound(planners'[q]) /\ KnowsTable(planners'[q].known)
    BY <1>2, <1>3, <1>5 DEF BulkInv, Busy
  <1>8. OneRowEach' /\ PlanTable'
    BY <1>4, UnchangedKeepsOne DEF BulkInv, PlanTable, ReplacedOnce
  <1>9. ASSUME NEW q \in Planners, Busy(q)' PROVE CallSound(planners[q])' /\ KnowsTable(planners[q].known)'
    BY <1>4, <1>7, <1>9 DEF CallSound, KnowsTable
  <1> QED BY <1>6, <1>8, <1>9 DEF BulkInv

\* The step of one call while no other is in flight.
LEMMA SolePlanner ==
    ASSUME BulkInv, OnePlanner, NEW p \in Planners, Busy(p), NEW call \in BulkCall \cup {IdleCall},
           planners' = [planners EXCEPT ![p] = call], OneRowEach', PlanTable',
           call = IdleCall \/ (CallSound(call) /\ KnowsTable(call.known)')
    PROVE  BulkInv'
  <1>1. \A q \in Planners : planners'[q] = IF q = p THEN call ELSE planners[q]
    BY DEF BulkInv
  <1>2. planners' \in [Planners -> BulkCall \cup {IdleCall}]
    BY DEF BulkInv
  <1>3. ASSUME NEW q \in Planners, Busy(q)' PROVE CallSound(planners[q])' /\ KnowsTable(planners[q].known)'
    <2>1. q = p /\ planners'[q] = call /\ call # IdleCall
      BY <1>1, <1>3 DEF OnePlanner, Busy
    <2> QED BY <2>1 DEF CallSound, KnowsTable
  <1> QED BY <1>2, <1>3 DEF BulkInv

LEMMA BusyCall ==
    ASSUME BulkInv, NEW p \in Planners, planners[p].op \in {"BULK_SAVE", "BULK_LINK"}
    PROVE  /\ Busy(p) /\ planners[p] \in BulkCall
           /\ CallSound(planners[p]) /\ KnowsTable(planners[p].known)
  <1>1. IdleCall.op = "IDLE"
    BY DEF IdleCall
  <1> QED BY <1>1 DEF BulkInv, Busy

LEMMA EndBulkPlanKeeps ==
    ASSUME BulkInv, OnePlanner, NEW p \in Planners, EndBulkPlan(p)
    PROVE  BulkInv'
  <1>1. Busy(p) /\ planners' = [planners EXCEPT ![p] = IdleCall] /\ UNCHANGED assignments
    BY BusyCall DEF EndBulkPlan, Answer
  <1>2. OneRowEach' /\ PlanTable'
    BY <1>1, UnchangedKeepsOne DEF BulkInv, PlanTable, ReplacedOnce
  <1> QED BY <1>1, <1>2, SolePlanner

LEMMA StartLinkingKeeps ==
    ASSUME BulkInv, OnePlanner, NEW p \in Planners, StartLinking(p)
    PROVE  BulkInv'
  <1>1. PICK call \in BulkCall : /\ call = planners[p] /\ call.op = "BULK_SAVE" /\ call.todo = {}
                                 /\ CallSound(call) /\ KnowsTable(call.known) /\ Busy(p)
    BY BusyCall DEF StartLinking
  <1>2. PICK todo : todo = {x \in DOMAIN call.request : call.request[x].replaces # NoRow}
    OBVIOUS
  <1>3. todo \in SUBSET Staff /\ todo \subseteq DOMAIN call.request
        /\ \A x \in todo : call.request[x].replaces # NoRow
    BY <1>2, BulkCallFields
  <1>4. PICK after : after = [call EXCEPT !.op = "BULK_LINK", !.todo = todo]
    OBVIOUS
  <1>5. /\ after \in BulkCall /\ after.op = "BULK_LINK" /\ after.todo = todo
        /\ after.request = call.request /\ after.known = call.known
    BY <1>3, <1>4 DEF BulkCall
  <1>6. planners' = [planners EXCEPT ![p] = after] /\ UNCHANGED assignments
    BY <1>1, <1>2, <1>4 DEF StartLinking, BulkInv
  <1>7. CallSound(after)
    BY <1>1, <1>3, <1>5 DEF CallSound
  <1>8. OneRowEach' /\ PlanTable' /\ KnowsTable(after.known)'
    BY <1>1, <1>5, <1>6, UnchangedKeepsOne DEF BulkInv, PlanTable, ReplacedOnce, KnowsTable
  <1> QED BY <1>1, <1>5, <1>6, <1>7, <1>8, SolePlanner

LEMMA SaveBulkRowKeeps ==
    ASSUME BulkInv, OnePlanner, NEW p \in Planners, SaveBulkRow(p)
    PROVE  BulkInv'
  <1>1. PICK call \in BulkCall : /\ call = planners[p] /\ call.op = "BULK_SAVE" /\ call.todo # {}
                                 /\ CallSound(call) /\ KnowsTable(call.known) /\ Busy(p)
    BY BusyCall DEF SaveBulkRow
  <1>2. PICK x \in call.todo : x = NextStaff(p) /\ x = Min(call.todo)
    BY <1>1, BulkCallFields, NextIsLeft DEF NextStaff
  <1>3. /\ x \in Staff /\ x \in DOMAIN call.request /\ call.request[x] \in PlanEntry
        /\ call.known \in [Staff -> Known \cup {NoRow}]
    BY <1>1, <1>2, BulkCallFields DEF CallSound
  <1>4. PICK row : row = [staff |-> x, included |-> call.request[x].selected, off |-> call.request[x].off,
                          replaces |-> NoRow, active |-> TRUE]
    OBVIOUS
  <1>5. row \in PlanRow /\ row.staff = x /\ row.active /\ row.replaces = NoRow
    BY <1>3, <1>4 DEF PlanRow, PlanEntry
  <1>6. PICK i \in AssignmentIds :
            /\ IF call.known[x] = NoRow THEN assignments[i] = NoRow ELSE i = call.known[x].id
            /\ IndexAllows(i, row) /\ Write(i, row)
            /\ planners' = [planners EXCEPT ![p].todo = @ \ {x}, ![p].known[x] = [id |-> i, row |-> row]]
    BY <1>1, <1>2, <1>4 DEF SaveBulkRow
  <1>7. PICK new : new = [id |-> i, row |-> row]
    OBVIOUS
  <1>8. new \in Known /\ new.id = i /\ new.row = row /\ new # NoRow
    BY <1>5, <1>7, PlanningConstants DEF Known
  <1>9. PICK known : known = [call.known EXCEPT ![x] = new]
    OBVIOUS
  <1>10. /\ known \in [Staff -> Known \cup {NoRow}] /\ known[x] = new
         /\ \A y \in Staff : y # x => known[y] = call.known[y]
    BY <1>3, <1>8, <1>9
  <1>11. PICK after : after = [call EXCEPT !.todo = @ \ {x}, !.known = known]
    OBVIOUS
  <1>12. /\ after \in BulkCall /\ after.op = "BULK_SAVE" /\ after.todo = call.todo \ {x}
         /\ after.request = call.request /\ after.known = known
    BY <1>1, <1>10, <1>11 DEF BulkCall
  <1>13. planners' = [planners EXCEPT ![p] = after]
    BY <1>1, <1>6, <1>7, <1>9, <1>11 DEF BulkInv, BulkCall
  <1>14. DOMAIN call.request \in SUBSET Staff
    BY BulkCallFields
  <1>15. CallSound(after)
    BY <1>1, <1>8, <1>10, <1>12, <1>14 DEF CallSound
  <1>16. PlanTable' /\ KnowsTable(known)'
    BY <1>1, <1>3, <1>5, <1>6, <1>8, <1>10, KnownWrite DEF BulkInv
  <1>17. OneRowEach'
    BY <1>6, WriteKeepsOne DEF BulkInv
  <1>18. KnowsTable(after.known)'
    BY <1>12, <1>16
  <1> QED BY <1>1, <1>12, <1>13, <1>15, <1>16, <1>17, <1>18, SolePlanner

LEMMA LinkBulkRowKeeps ==
    ASSUME BulkInv, OnePlanner, NEW p \in Planners, LinkBulkRow(p)
    PROVE  BulkInv'
  <1>1. PICK call \in BulkCall : /\ call = planners[p] /\ call.op = "BULK_LINK" /\ call.todo # {}
                                 /\ CallSound(call) /\ KnowsTable(call.known) /\ Busy(p)
    BY BusyCall DEF LinkBulkRow
  <1>2. PICK x \in call.todo : x = NextStaff(p) /\ x = Min(call.todo)
    BY <1>1, BulkCallFields, NextIsLeft DEF NextStaff
  <1>3. /\ x \in Staff /\ x \in DOMAIN call.request /\ call.request[x] \in PlanEntry
        /\ call.known \in [Staff -> Known \cup {NoRow}]
        /\ call.known[x] # NoRow /\ call.request[x].replaces # NoRow
    BY <1>1, <1>2, BulkCallFields DEF CallSound
  <1>4. PICK s \in Staff : s = call.request[x].replaces
    BY <1>3 DEF PlanEntry
  <1>5. PICK row : row = [call.known[x].row EXCEPT !.replaces = call.known[s].id]
    OBVIOUS
  <1>6. /\ LinkAllowed(call.known, x, s)
        /\ IndexAllows(call.known[x].id, row) /\ Write(call.known[x].id, row)
        /\ planners' = [planners EXCEPT ![p].todo = @ \ {x}, ![p].known[x].row = row]
    BY <1>1, <1>2, <1>4, <1>5 DEF LinkBulkRow
  <1>7. /\ call.known[s] \in Known /\ call.known[x] \in Known
        /\ \A y \in Staff : y # x /\ call.known[y] # NoRow => call.known[y].row.replaces # call.known[s].id
    BY <1>3, <1>6 DEF LinkAllowed
  <1>8. PICK i \in AssignmentIds : i = call.known[x].id
    BY <1>7 DEF Known
  <1>9. call.known[x].row \in PlanRow /\ call.known[x].row.staff = x /\ call.known[x].row.active
    <2>1. assignments[i] = call.known[x].row /\ call.known[x].row.staff = x
      BY <1>1, <1>3, <1>8 DEF KnowsTable
    <2>2. call.known[x].row \in PlanRow
      BY <1>7 DEF Known
    <2> QED BY <2>1, <2>2, PlanningConstants DEF BulkInv, PlanTable
  <1>10. /\ row \in PlanRow /\ row.staff = x /\ row.active /\ row.replaces = call.known[s].id
    <2>1. call.known[s].id \in AssignmentIds
      BY <1>7 DEF Known
    <2> QED BY <1>5, <1>9, <2>1 DEF PlanRow
  <1>11. PICK new : new = [call.known[x] EXCEPT !.row = row]
    OBVIOUS
  <1>12. new \in Known /\ new.id = i /\ new.row = row /\ new # NoRow
    BY <1>7, <1>8, <1>10, <1>11, PlanningConstants DEF Known
  <1>13. PICK known : known = [call.known EXCEPT ![x] = new]
    OBVIOUS
  <1>14. /\ known \in [Staff -> Known \cup {NoRow}] /\ known[x] = new
         /\ \A y \in Staff : y # x => known[y] = call.known[y]
    BY <1>3, <1>12, <1>13
  <1>15. PICK after : after = [call EXCEPT !.todo = @ \ {x}, !.known = known]
    OBVIOUS
  <1>16. /\ after \in BulkCall /\ after.op = "BULK_LINK" /\ after.todo = call.todo \ {x}
         /\ after.request = call.request /\ after.known = known
    BY <1>1, <1>14, <1>15 DEF BulkCall
  <1>17. planners' = [planners EXCEPT ![p] = after]
    BY <1>1, <1>6, <1>11, <1>13, <1>15 DEF BulkInv, BulkCall
  <1>18. DOMAIN call.request \in SUBSET Staff
    BY BulkCallFields
  <1>19. CallSound(after)
    BY <1>1, <1>12, <1>14, <1>16, <1>18 DEF CallSound
  <1>20. PlanTable' /\ KnowsTable(known)'
    <2>1. \A y \in Staff : y # x /\ call.known[y] # NoRow => call.known[y].row.replaces # row.replaces
      BY <1>7, <1>10
    <2>2. PlanTable /\ KnowsTable(call.known) /\ call.known \in [Staff -> Known \cup {NoRow}] /\ x \in Staff
      BY <1>1, <1>3 DEF BulkInv
    <2>3. /\ Write(i, row)
          /\ IF call.known[x] = NoRow THEN assignments[i] = NoRow ELSE i = call.known[x].id
      BY <1>3, <1>6, <1>8
    <2>4. /\ known[x] # NoRow /\ known[x].id = i /\ known[x].row = row
          /\ \A y \in Staff : y # x => known[y] = call.known[y]
      BY <1>12, <1>14
    <2> QED BY ONLY i \in AssignmentIds, <1>10, <2>1, <2>2, <2>3, <2>4, KnownWrite
  <1>21. OneRowEach'
    BY <1>6, WriteKeepsOne DEF BulkInv
  <1>22. KnowsTable(after.known)'
    BY <1>16, <1>20
  <1> QED BY <1>1, <1>16, <1>17, <1>19, <1>20, <1>21, <1>22, SolePlanner

\* ReplacedOnce: bulk plans that follow one another never give a collaborator
\* two replacements, whatever rows a request holds, also when a plan is broken
\* off half-way and when a journey is closed meanwhile.
THEOREM ReplacementsUnique ==
    PlanningSpec /\ []OnePlanner /\ [][~SingleSteps(Planners, PlanRow)]_planningVars => []ReplacedOnce
  <1>1. PlanningInit => BulkInv
    <2> SUFFICES ASSUME PlanningInit PROVE BulkInv
      OBVIOUS
    <2>1. OneRowEach /\ PlanTable
      BY DEF PlanningInit, OneRowEach, CurrentRow, RowsOf, PlanTable, ReplacedOnce
    <2> QED BY <2>1 DEF PlanningInit, BulkInv, Busy
  <1>2. ASSUME BulkInv, UNCHANGED <<assignments, planners>> PROVE BulkInv'
    <2>1. OneRowEach' /\ PlanTable'
      BY <1>2, UnchangedKeepsOne DEF BulkInv, PlanTable, ReplacedOnce
    <2> QED BY <1>2, <2>1 DEF BulkInv, Busy, CallSound, KnowsTable
  <1>3. BulkInv /\ OnePlanner /\ [PlanningNext]_planningVars /\ [~SingleSteps(Planners, PlanRow)]_planningVars => BulkInv'
    <2> SUFFICES ASSUME BulkInv, OnePlanner, PlanningNext, ~SingleSteps(Planners, PlanRow) PROVE BulkInv'
      BY <1>2 DEF planningVars
    <2>1. CASE \E x \in Staff : CloseStaffJourney(x)
      BY <1>2, <2>1 DEF CloseStaffJourney
    <2>2. CASE BulkSteps(Planners)
      BY <2>2, SaveBulkRowKeeps, StartLinkingKeeps, LinkBulkRowKeeps, EndBulkPlanKeeps DEF BulkSteps
    <2> QED BY <2>1, <2>2, BulkPlanKeeps DEF PlanningNext
  <1>4. BulkInv => ReplacedOnce
    BY DEF BulkInv, PlanTable
  <1> QED BY <1>1, <1>3, <1>4, PTL DEF PlanningSpec
=============================================================================
