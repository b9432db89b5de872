------------------------------- MODULE Prices -------------------------------
(***************************************************************************)
(* Price-list items and gold prices.  Both tables keep every revision of a *)
(* price as a row; the active row of a code (or of a date) is the price in *)
(* force.  A row is only ever appended, or switched on and off, so a row   *)
(* is named by its place in the order of creation.                         *)
(*                                                                         *)
(* A save is one transaction, but the service has looked for an active row *)
(* in an earlier statement: an edit in flight in between.  What a price is *)
(* worth and its other columns are left out.                               *)
(***************************************************************************)
EXTENDS Integers, Sequences, FiniteSets

CONSTANTS Codes,       \* keys of price-list items: item type and code
          Dates,       \* keys of gold prices
          MaxRows,     \* bound on the rows of a table
          Editors,     \* edits that may be in flight at once
          NoEdit

VARIABLES items,       \* expense_price_list_items
          goldPrices,  \* gold_prices
          schema,      \* the uniqueness each table's schema enforces
          edits        \* the edits in flight

priceVars == <<items, goldPrices, schema, edits>>

\* A date may be stored with a time of day by programs of before the rebuild.
GoldKeys == Dates \X {"DATE", "TIMESTAMP"}
Day(d)   == <<d, "DATE">>

ItemRow == [key : Codes, active : BOOLEAN, replaces : 0..MaxRows]
GoldRow == [key : GoldKeys, active : BOOLEAN]

\* Of every row's key, of active rows' keys, or nothing at all.
Schemas == {"UNIQUE_KEY", "ONE_ACTIVE", "FREE"}

EditOps == {"CREATE_ITEM", "UPDATE_ITEM", "CREATE_GOLD_PRICE", "REPLACE_GOLD_PRICE"}
Edit    == [op : EditOps, key : Codes \cup GoldKeys, row : 0..MaxRows]

\* NoEdit is not an edit; tables are bounded.
ASSUME PriceConstants == MaxRows \in Nat /\ NoEdit \notin Edit

PricesTypeOK ==
    /\ items \in Seq(ItemRow) /\ Len(items) <= MaxRows
    /\ goldPrices \in Seq(GoldRow) /\ Len(goldPrices) <= MaxRows
    /\ schema \in [{"items", "goldPrices"} -> Schemas]
    /\ edits \in [Editors -> Edit \cup {NoEdit}]

-----------------------------------------------------------------------------
(***************************************************************************)
(* Operators on a table.                                                   *)
(***************************************************************************)
ActiveRows(table, key) == {i \in DOMAIN table : table[i].active /\ table[i].key = key}

OneActiveEach(table) == \A i, j \in DOMAIN table :
    table[i].active /\ table[j].active /\ table[i].key = table[j].key => i = j

SwitchOff(table, rows) ==
    [i \in DOMAIN table |-> IF i \in rows THEN [table[i] EXCEPT !.active = FALSE] ELSE table[i]]

\* Two mutants of the next definition: the index is missing, or the rows
\* switched off stay off although the new row was refused.
SaveUnindexed(table, rows, row) == Append(SwitchOff(table, rows), row)
SaveUnwrapped(table, rows, row) ==
    LET after == Append(SwitchOff(table, rows), row)
    IN  IF OneActiveEach(after) THEN after ELSE SwitchOff(table, rows)

\* Rows are switched off and a new one appended.  The index on active rows may
\* refuse the new one, and the transaction is then rolled back as a whole.
Save(table, rows, row) ==
    LET after == Append(SwitchOff(table, rows), row)
    IN  IF OneActiveEach(after) THEN after ELSE table

\* The repair before the index is created: of the active rows of a key all but
\* the newest are switched off.
NewestOnly(table) ==
    SwitchOff(table, {i \in DOMAIN table :
        \E j \in DOMAIN table : j > i /\ table[j].active /\ table[j].key = table[i].key})

-----------------------------------------------------------------------------
(***************************************************************************)
(* Startup: a table with the old uniqueness of the key is rebuilt without  *)
(* it, losing what the rows replaced and the time of day of dates; then    *)
(* the index on active rows is installed.                                  *)
(***************************************************************************)
RebuildItems  == [i \in DOMAIN items |-> [items[i] EXCEPT !.replaces = 0]]
RebuildPrices == [i \in DOMAIN goldPrices |-> [goldPrices[i] EXCEPT !.key = Day(@[1])]]

InstallPriceListItemRevisionHistory ==
    /\ schema["items"] # "ONE_ACTIVE"
    /\ items' = NewestOnly(IF schema["items"] = "UNIQUE_KEY" THEN RebuildItems ELSE items)
    /\ schema' = [schema EXCEPT !["items"] = "ONE_ACTIVE"]
    /\ UNCHANGED <<goldPrices, edits>>

InstallGoldPriceActiveDate ==
    /\ schema["goldPrices"] # "ONE_ACTIVE"
    /\ goldPrices' = NewestOnly(IF schema["goldPrices"] = "UNIQUE_KEY" THEN RebuildPrices ELSE goldPrices)
    /\ schema' = [schema EXCEPT !["goldPrices"] = "ONE_ACTIVE"]
    /\ UNCHANGED <<items, edits>>

\* The server takes requests once it has started.
Started == \A table \in DOMAIN schema : schema[table] = "ONE_ACTIVE"

BeginEdit(e, op, key, row) ==
    /\ Started /\ edits[e] = NoEdit
    /\ edits' = [edits EXCEPT ![e] = [op |-> op, key |-> key, row |-> row]]
    /\ UNCHANGED <<items, goldPrices, schema>>

Editing(e, op) == edits[e] # NoEdit /\ edits[e].op = op

EndEdit(e) ==
    /\ edits' = [edits EXCEPT ![e] = NoEdit]
    /\ UNCHANGED schema

-----------------------------------------------------------------------------
(***************************************************************************)
(* Price-list items.                                                       *)
(***************************************************************************)
\* ensureNoActiveItemCodeConflict
NoActiveItemCodeConflict(key, allowed) == ActiveRows(items, key) \subseteq allowed

CreateItem(e, key) ==
    /\ Len(items) < MaxRows
    /\ NoActiveItemCodeConflict(key, {})
    /\ BeginEdit(e, "CREATE_ITEM", key, 0)

InsertItem(e) ==
    /\ Editing(e, "CREATE_ITEM") /\ Len(items) < MaxRows
    /\ items' = Save(items, {}, [key |-> edits[e].key, active |-> TRUE, replaces |-> 0])
    /\ EndEdit(e) /\ UNCHANGED goldPrices

\* An edit may give the item another code.
UpdateItem(e, i, key) ==
    /\ Len(items) < MaxRows
    /\ i \in DOMAIN items /\ items[i].active
    /\ NoActiveItemCodeConflict(key, {i})
    /\ BeginEdit(e, "UPDATE_ITEM", key, i)

ReplaceItemWithRevision(e) ==
    /\ Editing(e, "UPDATE_ITEM") /\ Len(items) < MaxRows
    /\ LET i   == edits[e].row
           key == edits[e].key
           old == IF items[i].key = key THEN ActiveRows(items, key) ELSE {i}
       IN  items' = Save(items, old, [key |-> key, active |-> TRUE, replaces |-> i])
    /\ EndEdit(e) /\ UNCHANGED goldPrices

\* DeactivateItem and ReactivateItem.  Reactivation switches off the row of the
\* same code that is in force.
SetItemActive(i, active) ==
    /\ Started /\ i \in DOMAIN items
    /\ LET others == IF active THEN ActiveRows(items, items[i].key) \ {i} ELSE {}
       IN  items' = [SwitchOff(items, others) EXCEPT ![i].active = active]
    /\ UNCHANGED <<goldPrices, schema, edits>>

ListItems(includeInactive) == {i \in DOMAIN items : includeInactive \/ items[i].active}

-----------------------------------------------------------------------------
(***************************************************************************)
(* Gold prices.                                                            *)
(***************************************************************************)
CreateGoldPrice(e, date) ==
    /\ Len(goldPrices) < MaxRows
    /\ BeginEdit(e, IF ActiveRows(goldPrices, Day(date)) = {} THEN "CREATE_GOLD_PRICE"
                ELSE "REPLACE_GOLD_PRICE", Day(date), 0)

InsertGoldPrice(e) ==
    /\ Editing(e, "CREATE_GOLD_PRICE") /\ Len(goldPrices) < MaxRows
    /\ goldPrices' = Save(goldPrices, {}, [key |-> edits[e].key, active |-> TRUE])
    /\ EndEdit(e) /\ UNCHANGED items

ReplaceActiveGoldPrice(e) ==
    /\ Editing(e, "REPLACE_GOLD_PRICE") /\ Len(goldPrices) < MaxRows
    /\ goldPrices' = Save(goldPrices, ActiveRows(goldPrices, edits[e].key),
                          [key |-> edits[e].key, active |-> TRUE])
    /\ EndEdit(e) /\ UNCHANGED items

DeactivateGoldPrice(i) ==
    /\ Started /\ i \in DOMAIN goldPrices
    /\ goldPrices' = [goldPrices EXCEPT ![i].active = FALSE]
    /\ UNCHANGED <<items, schema, edits>>

ListGoldPrices(includeInactive) ==
    {i \in DOMAIN goldPrices : includeInactive \/ goldPrices[i].active}

-----------------------------------------------------------------------------
\* Tables left by earlier versions, and no request yet.
PricesInit ==
    /\ items \in Seq(ItemRow) /\ Len(items) <= MaxRows
    /\ goldPrices \in Seq(GoldRow) /\ Len(goldPrices) <= MaxRows
    /\ schema \in [{"items", "goldPrices"} -> Schemas]
    /\ \A i \in DOMAIN items : items[i].replaces < i
    /\ schema["items"] = "UNIQUE_KEY" =>
           \A i, j \in DOMAIN items : items[i].key = items[j].key => i = j
    /\ schema["goldPrices"] = "UNIQUE_KEY" =>
           \A i, j \in DOMAIN goldPrices : goldPrices[i].key = goldPrices[j].key => i = j
    /\ schema["goldPrices"] # "UNIQUE_KEY" =>
           \A i \in DOMAIN goldPrices : goldPrices[i].key[2] = "DATE"
    /\ schema["items"] = "ONE_ACTIVE" => OneActiveEach(items)
    /\ schema["goldPrices"] = "ONE_ACTIVE" => OneActiveEach(goldPrices)
    /\ edits = [e \in Editors |-> NoEdit]

ItemsNext ==
    \/ InstallPriceListItemRevisionHistory
    \/ \E e \in Editors, key \in Codes :
          CreateItem(e, key) \/ \E i \in DOMAIN items : UpdateItem(e, i, key)
    \/ \E e \in Editors : InsertItem(e) \/ ReplaceItemWithRevision(e)
    \/ \E i \in DOMAIN items, active \in BOOLEAN : SetItemActive(i, active)

GoldPricesNext ==
    \/ InstallGoldPriceActiveDate
    \/ \E e \in Editors, date \in Dates : CreateGoldPrice(e, date)
    \/ \E e \in Editors : InsertGoldPrice(e) \/ ReplaceActiveGoldPrice(e)
    \/ \E i \in DOMAIN goldPrices : DeactivateGoldPrice(i)

PricesNext == ItemsNext \/ GoldPricesNext

PricesSpec == PricesInit /\ [][PricesNext]_priceVars

-----------------------------------------------------------------------------
\* Once the server runs, a code has one price in force and a date has one gold
\* price, whatever the tables held before and however edits overlap.  For gold
\* the date is the calendar day, not the column's text.
OneActivePrice ==
    Started =>
        /\ OneActiveEach(items)
        /\ \A i, j \in DOMAIN goldPrices :
              /\ goldPrices[i].active /\ goldPrices[j].active
              /\ goldPrices[i].key[1] = goldPrices[j].key[1]
              => i = j

Priced(code)     == ActiveRows(items, code) # {}
GoldPriced(date) == \E i \in DOMAIN goldPrices : goldPrices[i].active /\ goldPrices[i].key[1] = date

\* An item was edited into another code: the new row takes the place of i.
MovedAway(i) == /\ Len(items') = Len(items) + 1
                /\ items'[Len(items')].replaces = i

\* Nobody loses a price by accident: a code has no price any more only because
\* its item was deactivated or given another code, a date only because its
\* price was deactivated.  An edit that fails leaves the old price in force.
PriceKept ==
    [][/\ \A code \in Codes : Priced(code) /\ ~Priced(code)' =>
             \E i \in ActiveRows(items, code) : SetItemActive(i, FALSE) \/ MovedAway(i)
       /\ \A date \in Dates : GoldPriced(date) /\ ~GoldPriced(date)' =>
             \E i \in DOMAIN goldPrices : DeactivateGoldPrice(i)]_priceVars
=============================================================================
