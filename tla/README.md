# Collaborator Accounting: a verification development

This directory models the backend (`src/backend`, Go, GORM over SQLite) in TLA+:
the accounts of collaborators' journeys and everything that posts to them, and
the registers they rest on (people, tenants, authentication, authorization,
journeys, prices, plans). TLC checks the modules on small instances and the
TLA+ proof system proves the central safety properties for every instance.
Paths below are relative to `src/backend/internal/` unless they start with
`src/`.

## 1. The system

The backend keeps, per tenant, the journeys of collaborators and an account
for each journey. The account is an append-only ledger; everything that pays,
charges or corrects posts entries to it, every debit opens a receipt that
somebody must sign or accept, and a journey may be closed only when its account
is settled. Requests are served concurrently by the HTTP server, each in a
goroutine; `db/db.go` sets `SetMaxOpenConns(1)`, so the statements and
transactions of all requests are executed one after the other, but *nothing is
held between two statements of one request*.

| Component | State | Operations | Interacts with | Correct when |
|---|---|---|---|---|
| Ledger and receipt hook (`db/models.go`, `db/ledger_receipt_hook.go`) | `ledger_entries`, `ledger_receipts` | create entries; the GORM hook `AfterCreate` opens a receipt in the same transaction | everything that posts | entries never change; every debit and final settlement has one receipt, addressed to the right party |
| Settlements (`currentaccounts/payout.go`, `zero_gold.go`, `final_settlement.go`) | `journey_settlements` | zero gold, partial payout, final payments in both directions | ledger, approval policy | a request is paid once; no balance is taken past zero |
| Closure (`close_journey.go`, `service_impl.go`) | `closed_at` and status of the journey, its `CLOSE_JOURNEY` row | preview, close | all of the above, accrual items | closed once, audited, at zero, with no blocker left |
| Corrections (`corrections.go`) | ledger | reverse, replace | expenses (which reverse too) | an entry is reversed at most once, by its mirror image |
| Receipts (`receipt_*.go`) | `ledger_receipts` | print, return, accept, backfill | expense cancellation | a completed receipt never changes; final settlements complete by acceptance only |
| Approval policy (`second_approval.go`) | a tenant setting | read, update | settlements, closure, corrections, backfill | it takes effect |
| Expenses (`expenses/`) | `expenses` | create, canteen batch, recreate, update, cancel, deactivate | ledger, receipts, journey, price lists | an active expense is charged exactly once, a finished one not at all |
| Accruals (`accruals/`) | `accrual_runs`, `accrual_items` | create, recalculate and post a run | work periods, assignments, gold production, payment terms, ledger | an assignment is paid once per period and unit, posted items stay and are in the ledger |
| Work periods, assignments, gold production (`workperiods/`, `workperiodassignments/`, `goldproduction/`) | the plan and the records accruals are computed from | inform, assign one by one or in bulk, replace, mark outcome, deactivate, record gold | accruals | one active assignment per collaborator and period, one replacement per absentee; what was posted stays, whatever is edited afterwards |
| Price lists and gold prices (`pricelists/`, `db/price_list_item_constraints.go`, `db/gold_price_constraints.go`) | price rows with their history | create, edit as a revision, switch off and on, repair at start | expenses | one price in force per code and per day; no failed edit loses a price |
| Journeys (`collaborators/`) | `collaborator_journeys` | start, extend, edit | memberships, closure | one open journey per member |
| People (`people/`, `db/global_person_foundation.go`) | global people, memberships, the tenants' own rows | create, edit, deactivate, reactivate, join a tenant, repair legacy rows | accounts, actors, grants | the three tables agree; deactivation reaches the account, its sessions and grants; reactivation gives back no more than it should |
| Tenants (`tenants/`) | tenants | create, (de)activate, assign and revoke administrators | authorization | whom the console offers can be assigned |
| Authentication (`authentication/`) | accounts, sessions, reset tokens, reactivation requests, bindings of actors | log in and out, change and reset passwords, suspend, review, create accounts, provision administrators | people, authorization | nobody holds a session of an account that may not be used; a reset works once and for an active account only |
| Authorization (`authz/`) | actors, role grants, support leases | grant, revoke, (de)activate, lease, resolve the actor of a request | every route | limits on administrators hold, the last application administrator stays, what login offers can be entered |
| Reference data, frontend, importer, commands, routes | none the other components depend on beyond a request | | | |

**What is hard here.** Every service method reads, checks in Go, and writes in a
*later* transaction; another request may commit in between. What protects the
data is a set of unique indexes (request id, single reversal, receipt per
entry, recreation, active price, active assignment), a few re-checks inside
transactions or after them (login) and database triggers. People, accounts and
actors are three packages that write each other's tables, so a sequence of
legal operations may leave them in disagreement. Bulk plans save row after row
with no transaction at all. Databases of earlier versions are repaired at start.
The question everywhere is whether these suffice for the promises the checks
make. Clients retry (request ids); processes die between statements; timestamps
are taken before transactions and ordered afterwards. `PROJECT.json` lists each
such hazard at its line.

## 2. Conventions of the models

* **One step is one statement or one transaction** (single connection, above).
  A service method is a sequence of such steps; a call in flight is a record
  whose `pc` names the repository call it makes next, with what it has read so
  far. Reads of rows that never change are folded into the neighbouring step.
* **A crash or a cancelled request** is `Abort...`: the call ends between two
  steps, its transaction not begun. A transaction that fails is rolled back and
  the call answered.
* **Amounts** are natural numbers of a smallest unit. The code works with
  decimals and treats sums within 1e-9 of zero as zero.
* **Identifiers** of new rows are arbitrary unused ones, as `ids.New()` gives.
  A settlement entry's `source_id` is the settlement's row id in the code; the
  model uses the request id, which the unique index makes equivalent.
* **Second approver.** A request carries whether it names a valid second
  approver; validation itself is not modelled.
* One journey and one tenant in the financial modules: every query filters by
  both, and no operation touches two accounts. The registers have several
  tenants, because what one tenant does to a person reaches the others.
* **Callers.** The permission a route asks for is not modelled: in the registers
  anybody may call any operation, which only adds behaviours.

## 3. Modules

| Module | Models | State |
|---|---|---|
| `Ledger` | entries, the receipt hook, reversals, balances | `ledger`, `receipts` |
| `ApprovalPolicy` | the second-person policy | `secondApproval` |
| `Settlements` | the four payments, preview, closure | `journey`, `settlements`, `pendingAccruals`, `settling` |
| `LedgerCorrections` | reverse and replace | `correcting` |
| `LedgerReceipts` | print, return, accept, backfill | `handling` |
| `CurrentAccount` | composes the five above, adds what the other packages do to the same tables; properties | |
| `Expenses` | the expenses package over the same ledger | `expenses`, `createdAt`, `journeyOpen`, `expensing` |
| `Accruals` | runs of a work period and the planning they read | `plan`, `terms`, `gold`, `period`, `runs`, `items`, `entries`, `accruing`, `planning` |
| `Planning` | the assignments of a work period: single edits and bulk plans | `openStaff`, `prior`, `assignments`, `planners` |
| `Prices` | price-list items and gold prices, with the repairs at start | `items`, `goldPrices`, `schema`, `edits` |
| `Identity` | the tables the identity packages share, and calls in flight | `tenants`, `people`, `memberships`, `projections`, `accounts`, `sessions`, `tokens`, `requests`, `actors`, `bound`, `grants`, `leases`, `journeys`, `calls` |
| `People` | people, memberships, the repair of legacy rows | of `Identity` |
| `Authorization` | actors, grants, the limits on administrators, the actor of a request | of `Identity` |
| `Tenants` | tenants and their administrators | of `Identity` |
| `Authentication` | login, sessions, passwords, suspension, account creation | of `Identity` |
| `SupportLeases` | support-access leases | of `Identity` |
| `Collaborators` | journeys of collaborators | of `Identity` |
| `IdentitySystem` | composes the six above; properties | |
| `AccountAccess` | abstract: what the identity packages promise about access | `usable`, `granted` |
| `MCCurrentAccount`, `MCBooks`, `MCExpenses`, `MCAccruals`, `MCRegisters` | instances for TLC | `workload` |
| `CurrentAccountProofs`, `LedgerProofs`, `SettlementProofs`, `ExpenseProofs`, `AccrualProofs`, `RegisterProofs`, `IdentityProofs`, `AccessProofs` | theorems | |

**`Ledger`.** `AfterCreate(entry)` is the hook, `CreateEntries(new)` a transaction
that creates entries and runs it for each. An entry keeps only what the code
tests: type (final settlement or not), source, direction, unit, amount and the
correction link. `ISSUED` and `SIGNED` are receipt statuses of the schema that
no code path writes.

**`Settlements`.** A payment runs `lookup` (the request id is known: answer with
the recorded row), `balances` (what may be paid, `PayableAmounts`), `commit`
(`CreateSettlementWithEntries`: the settlement row, then its entries); final
payments first read the journey. A duplicate request id that passed the lookup fails on
the unique index; its transaction is rolled back and the caller gets the error
(`DuplicateRequest`). A closure runs
`lookup`, then the four reads of the preview, and commits if it met no blocker;
the transaction re-checks `closed_at`, and a trigger on the journey refuses a
non-zero balance (`JourneyCloseAllowed`).

**`LedgerCorrections`.** Find the entry, `HasReversal`, then one transaction with
the reversal and, for a replacement, the new entry. `SingleReversalIndex` is
the partial unique index.

**`LedgerReceipts`.** Find and check, then a transaction that reads the receipt
again. The backfill lists entries without receipt in one statement and creates
the receipts in a later transaction.

**`CurrentAccount`.** `PostOrdinaryEntry` stands for an expense or an accrual
posting, `CancelExpense` for the cancellation of an expense that was never
updated, `RecalculateAccruals` for pending accrual items appearing and
disappearing. Updates of expenses are in `Expenses` only, corrections of an
expense's debit in `LedgerCorrections` only; their composition is planned.
The ledger is bounded by `EntryIds`: a request is accepted only while the
unused identifiers cover what the calls in flight may still post (`Room`), so no
call in flight is ever blocked by the bound.

**`Expenses`.** Creation (single, batch, recreation), update, deactivation and
cancellation, each with the reads before its transaction. `repository.Update`
writes the row the service has read, reverses the posting with the greatest
`created_at` and posts a replacement. `created_at` is the `time.Now()` the service
took before the transaction, so timestamps are state: `Now` exceeds all that
were taken before, and is taken together with the last read before the
transaction. The price calculation (price list, gold price) is the choice of
`charge`.

**`Accruals`.** A recalculation reads the assignments (`rows`), the payment terms of
their journeys (`PreloadTerms`), the keys of posted items (`keys`), then visits the assignments in any order, reading the gold
production for each (`CalculateAssignment`, `CalculateSickTransfer`), and replaces the
run's items in one transaction. A post lists the ready items, counts the pending
ones, and in one transaction enters the amounts, marks the listed items and
writes the statuses of run and period. An earning's ledger id is made of the
unit and its assignment, a transfer's of its item (`SourceOf`, `SameEntry`); `EntriesFor` is the
insert that does nothing on a conflict. The rows of a calculation share one identifier that
stands for their `ids.New()`; an identifier no row or call holds any more may be
taken again. The payment method, its rate, the split of a time off and the grams of a
sick day are fields of the journey (`terms`) that `ChangeTerms` edits at any moment; an
assignment may be given to another holder (`UpdateAssignment`). So an assignment
whose holder changes from a wage to a commission between two calculations is paid
once in each unit, and the item of a second holder is marked posted while the entry
stays with the first: the model does both, and no document says otherwise. Planners read a row and later write
the whole row back, so lost updates of the plan are in the model; a history has
as many planning calls as there are `Planners`. The module keeps its own `entries`
rather than the ledger of one journey, because a transfer touches two journeys.

**`Identity`.** A person is its CPF, a membership the pair of person and tenant,
and so is the person's actor in the tenant: these are unique indexes of the
schema, and using the keys as names makes a duplicate unrepresentable. A person
has one account (`AccountOf`). `projections` is the table `people`, each tenant's own
copy of a person, which older programs wrote without a global person or a
membership. A call in flight is one record type for all packages: what it is
about, and what it has read or made so far.

**`People`.** One action per repository transaction. `UpdatePerson` is
`repository.Update` with `findOrCreateMembershipForLegacyPerson` and, when the status
becomes INACTIVE, `deactivateOperationalPersonTx`, which writes into five tables of
other packages (`DeactivateAccount`). `ReactivateTenantMembership` restores the account
and the tenant's actor but no grant. `EnsureGlobalPersonMembershipFoundation` is the
repair at start; other packages run it inside their own operations, and since it
does nothing the second time those operations require `Repaired` instead.
An edit that changes the CPF is not modelled.

**`Authorization`, `Tenants`, `SupportLeases`.** A grant or revocation is validated in
one step and saved in a later transaction, where triggers test the limits on
administrators again (`SaveGrant`). `FindAccountActor` is the resolution of a request's
actor, `ListAccountTenantOptions` what login offers. Renaming a tenant changes
nothing that is modelled. Leases expire by an action of the environment, `Expire`.

**`Authentication`.** `Login` reads the account, `CreateSession` writes the session,
`LoginRecheck` reads the account a second time and revokes the session if it may no
longer be used (read and revocation in one step: nobody has the token yet); only then
does the client have the token (`Delivered`). A process that dies in between leaves a session
nobody knows the token of, which a call that never continues stands for. The reads
of `FindPersonAuthentication` are merged into the start of its call. Passwords and
logins are left out: a new password is the end of the account's sessions and tokens.

**`AccountAccess`.** Accounts that may be used and sessions given out. A session is
granted only for a usable account, locking an account ends its sessions in the same
step, and an account comes into use with no session. `IdentitySystem` maps `usable` to
the accounts that pass `Usable` (account row, suspension, operational state of the
person: three columns that three packages write) and `granted` to the delivered sessions.

**`Collaborators`.** `CreateJourney` reads membership, profile and open journeys,
`InsertJourney` is the insert with its triggers. `ExtendJourney` adds to what it
read. Closing is `Settlements`' business and an action of the environment here.

**`Prices`.** Rows in the order of creation, of which the active one is in force. An
edit looks for a conflict in one statement and saves in a later transaction, `Save`,
which the partial unique index refuses or accepts as a whole. `schema` says which
uniqueness a database enforces: databases of earlier versions start with others, or
none, and are rebuilt at start. Amounts are left out.

**`Planning`.** `BulkPlan` reads the current rows once; `SaveBulkRow` and `LinkBulkRow` then
save row after row, in the page's order, outside any transaction, so a refused row
leaves the earlier ones saved. Requests are what the page sends: its template
with some rows edited, read when the plan is submitted, naming collaborators (the API
also accepts `replacementForAssignmentId`, which the page never sends: left out). Sector, location and task, and the edit
that refines them, are left out.

## 4. Runs

| Run | Question | Bounds | Distinct states |
|---|---|---|---|
| `settle` | do payments, retries, duplicates and closures that race pay and close once, at zero? | 2 calls, 2 request ids, 4 entries, one unit, amounts 1 and 2 | 276084 |
| `books` | one ledger under three workloads: does a lone settlement respect the balance, in two units; can racing corrections, cancellations and final payments reverse twice or leave a replacement without reversal; can racing receipt calls complete a receipt wrongly, change a completed one, or lose one? | 1 settlement, 2 correctors, 2 clerks, 2 request ids, 5 entries, one of them without a receipt from before the hook | 270124 |
| `liveness` | does the policy take effect, once the calls started before have drained? | one call of each kind, 3 entries, policy switched at will | 178696 |
| `expenses` | does an expense keep exactly one debit in effect whatever races? | 2 calls, 3 expenses, 4 entries, 4 timestamps, batches of 2, charges 1 and 2 | 237912 |
| `accruals` | is an assignment paid once and does what was posted stay, whatever races? | 2 assignments, 3 journeys (commission, daily wage, salary), 2 runs, 2 calls, 2 calculations held at a time, 1 edit: of the plan, the terms or the gold (0 or 4) | 320549 |
| `registers` | eleven workloads over the registers, below | 3 people, 2 tenants, 2 application administrators, 2 calls, 2 sessions, tokens, leases and journeys; 2 codes and dates, 4 price rows; 3 collaborators, 3 assignments | 516679 |
| `overdraw` | violation: see 5.1 | 2 final payments, 4 entries | |
| `close_blocked` | violation: see 5.2 | 1 closure, 1 correction, 4 entries | |
| `expense_stuck` | violation: see 5.3 | 2 updates of one expense, 5 entries | |
| `accrual_twice` | violation: see 5.4 | 1 call at a time, 2 runs | |
| `generic_reactivation` | violation: see 5.5 | 1 person, 2 tenants | |
| `assigned_admin` | violation: see 5.6 | 4 possible administrators, 2 tenants | |

The registers share too much state to be explored at once, so `MCRegisters` chooses a
workload at the start, a database the operations can produce and the part of
the operations that concerns it:

| Workload | What happens in it |
|---|---|
| `people` | a person of two tenants with rows of other programs, repaired at any time, edited, joined, and given an account |
| `accounts` | two overlapping calls on one account: logins, resets, tokens, reviews, while the person is deactivated and reactivated |
| `globals` | application administrators from the empty database, by the command, at startup and by hand, with two overlapping calls that give or remove |
| `roles` | four possible administrators of two tenants, two grants at once, one of the people deactivated and reactivated |
| `operators` | an operator who joins a second tenant, is enabled, given roles and taken out again |
| `leases` | two application administrators, two leases, tenants switched off and on, administrators coming and going |
| `journeys` | two overlapping creations and extensions while the member is edited |
| `items`, `goldPrices` | two overlapping edits on every small database of earlier versions, before and after the repair |
| `plans`, `bulk` | two planners with single edits and a bulk plan; bulk plans with replacements, one after the other |

A property of the registers is checked in all workloads and interesting in those
that write what it speaks of.

*Why the bounds are enough.* Every race in this code is between two calls and
one table row: two calls in flight of every kind that can meet, two request ids
(same and different), amounts 1 and 2 (equal, smaller, larger than a balance).
Entries bound the length of a history: the longest counterexample of any mutant
or violation of the account uses at most five. In `books` nothing is posted while a
settlement of the workload `payments` is at work, because a debit between its read
and its transaction is the violation `overdraw` shows; `settle` has one unit because the
units meet only in `SettledUnits`, which that workload covers. In the registers the
limit of two administrators per tenant needs three people of one tenant, and one
tenant per administrator a person of two; a person's deactivation reaches the other
tenant, so there are two. `ApplicationAdminRemains` excepts removals that are `outdated`: the
administrators are counted when a removal is validated, not when it is saved, and the
history variable `outdated` records which removals in flight counted before the
administrators last changed. Two overlapping removals are in the workload `globals` and
do remove the last two; `docs/authorization-operating-model.md:33-38` says without
condition that this is prevented. `ReplacedOnce` is about bulk plans run one after the other. Identifiers that
a module treats alike are symmetric where the cfg says so; runs with liveness use no
symmetry.

`accruals` starts with the wager marked WORKED and linked to the original, whose
outcome is still to be marked, a sick day or a time off; the one edit then unlinks,
excludes, deactivates, remarks or hands over either of them, changes the terms of a
journey or records gold, at any moment of the calls. One edit is enough for a
property to fail: each is about what was read before it against what is there after.

`CHECK_DEADLOCK FALSE` is set for the expense runs, because a closed journey without
active expenses accepts nothing more, for the runs of
`MCAccruals`, where the calculations and the one edit are used up, and for the runs of
`MCRegisters`, where the bounds on price rows and assignments are reached.

*Fairness.* `FairSpec` assumes weak fairness of the next step of each call in
flight, nothing of requests, aborts, postings or policy updates. A handler has no loop
and waits for nothing but the database, whose busy timeout bounds each
statement. Under it `PolicyTakesEffect` says that once the policy is on for good the
calls started before drain and none without a second approver starts.

Every property has a mutant of the code (a dropped index, a missing re-check, a
wrong direction) under which its run fails; `PROJECT.json` lists them, and the
mutated operators stand next to the originals in the modules.

## 5. What the violations show

1. `overdraw`: a final payment reads the balances and posts in a later
   transaction that does not read them again. Two payments under different
   request ids, both having read, take the balance past zero, which the document
   of the operation excludes. (A partial payout has the same gap.)
2. `close_blocked`: the closure evaluates its blockers in separate reads. A debit
   posted and reversed, or an accrual item calculated, after the read leaves the
   journey closed with an outstanding receipt or a pending item. The balance
   itself is protected by the trigger: `ClosesAtZeroBalance` holds and is proved.
3. `expense_stuck`: two updates of one expense may commit in the opposite order
   of their timestamps. The greatest `created_at` then belongs to a posting already
   reversed, and every later update, deactivation or cancellation of the expense
   fails on the single-reversal index. The account stays right
   (`ExpenseMatchesLedger` holds): the expense is stuck, not double charged.
4. `accrual_twice`: no concurrency is needed. Two runs of a work period are both
   calculated, then both posted. The second post finds the earning in the ledger
   and skips it, but the replacement transfer has the id of a new item and is
   entered again: the wager is credited both halves of the commission. Keys of
   posted items are consulted while calculating, not while posting. A recalculation
   that commits after a post, and reopens the run, has the same effect.
5. `generic_reactivation`: an edit may not take a membership from INACTIVE to ACTIVE,
   but may take it to DISCONTINUED and from there to ACTIVE. The membership is then
   active although nobody reactivated the person, and the account stays closed.
   Access is not affected: `ShutOut` looks at the person, and holds.
6. `assigned_admin`: deactivating a person suspends its grants. Assigning the tenant
   administrator again sets the grant active but leaves it suspended, so the console
   lists an administrator who has no authority; the other path to the same grant,
   `GrantActorRole`, clears the suspension.

## 6. Proofs

The theorems are about `CurrentAccount!Spec`, `Expenses!ExpensesSpec`, `Accruals!AccrualsSpec`,
`Prices!PricesSpec`, `Planning!PlanningSpec` and `IdentitySystem!Spec`, for arbitrary sets of
calls, identifiers, units, people, tenants, assignments and amounts. They assume the named
`ASSUME`s of the modules, which TLC evaluates in every run: the null values are no rows, the
constants have the types their comments say, the ledger and the set of expenses are finite
(a sum, and a latest timestamp, exist), the global scope is no tenant.

* `TypeCorrect`: `Spec => []TypeOK`. `TypeOK` is not inductive: that
  `CreateCorrectionEntries` builds an entry needs its target to exist. `TypeInv` adds
  what a call in flight has established and no other call can undo: a settlement
  has its request id (`RequestsNamed`), a correction aims at a posted entry that is
  no reversal (`CorrectionTargets`), a receipt call at a receipt that exists
  (`ReceiptTargets`), a receipt belongs to an entry (`ReceiptsPosted`). The lemma
  `GrowthKeepsTargets` carries these facts over every step of another call, because
  ledger and receipts only grow.
* `ReversedOnce`, `ReplacedOnce`: the correction invariant `CorrectionInv` conjoins
  `ReversalIntegrity` and `ReplacementIntegrity` with the fact that no entry of source
  `EXPENSE` is a reversal: the cancellation of an expense reverses any unreversed
  entry of that source, and would otherwise reverse a reversal.
  The check in `CheckNotReversed` plays no part in the argument: the index alone
  carries it.
* `BalanceInEffect`: the balance is a fold over a set, so a small theory of such sums comes
  first, each fact by the smallest set that violates it (`SmallestSet`, from `WFMin` on the
  natural numbers): the recursive function of the fold exists (`TotalsExist`) and two of them
  agree (`TotalsAgree`), hence any element may be taken out of a sum (`SumWithout`) and equal
  rows have equal sums (`SumSame`). `ReversalsCancel` takes an entry and its reversal out of a
  set that holds both; what it needs of the ledger is `ReversalIntegrity`, the pair in the same
  unit included.
* `ReceiptsOwed`, `CompletedByAcceptance`, `ReceiptsSettledOnce`: every step treats an entry and
  its receipt in one of the few ways of `ReceiptMove` (lemma `StepMoves`): keep both, create both
  through the hook, give a debit its missing receipt, or move the receipt's status. `ReceiptInv`
  adds what a receipt call has found out for good, the purpose of its receipt and the direction
  of the debits it will backfill (`ReceiptCallsAim`; the status is read again), and where entries
  come from (`EntryOrigins`: an entry of source `EXPENSE` is a debit, so its cancellation
  touches no receipt of a final settlement).
* `SettledOnce`: `PostedOnce` strengthens `SettlementsMatchLedger` with
  `ClosuresPayNothing` (a closure in flight carries zero amounts), so that the
  audit row of a closure needs no entry. The lemmas then treat the two writers
  of `settlements` and show all other steps post entries of other sources.
* `ClosureAudited`, `ClosedAtZero`: the closing transaction is the only writer of
  `journey`.
* `PaidWithinBalance`: `Spec /\ [][Undisturbed]_vars => SettlementNeverCrossesZero`, where `Undisturbed`
  says that nobody else writes entries while a payment waits to commit. The run `overdraw`
  refutes the conclusion without the hypothesis; the theorem says that this window is the only
  way to overdraw, whatever is posted before the balances are read and whatever the other
  calls do. `QuotesHold` (what a waiting payment will settle is still owed) is the invariant;
  `PaymentMovesBalance` uses the theory of sums to say what the commit does to a balance. The
  workload `payments` of `books` is an instance of the hypothesis.
* `ExpensesTypeCorrect`, `ChargedOnce`, `CancellationSettles`, `RecreatedAtMostOnce`, `EndedForGood`: one
  invariant, `ExpenseInv`. It adds to the properties that the expense a call aims at is recorded
  and the source of a recreation cancelled for good (`CallsAim`), and that every debit is of a
  recorded expense, every reversal of an entry that is there, and every expense has a debit
  (`EntriesOfExpenses`). A transaction reverses the latest debit (`BoundedMaximum` says that there
  is one); if that is not the one in effect, the single-reversal index refuses it. So the
  stale check of a call plays no part, and one debit in effect is exchanged for one or none.
  That the transaction may be refused for good is what the violation `expense_stuck` shows.
* `AccrualsTyped`, `PostedForGood`, `PostedArePaid`: `AccrualInv` adds to the types that a
  call in flight is about a run and a calculation has its identifier (`CallsAimed`), that
  what may be posted is an earning or a transfer and what a call carries is not posted
  yet (`ItemsPayable`), and that a transfer is entered under its item and everything else
  is an earning (`EntriesSourced`). The last is what makes a conflict harmless: when the
  insert is skipped, the entry that is there is the one the item claims.
* `PaidOncePerUnit`: the ledger's key refuses a second earning in the same unit only if two of
  one assignment are not inserted together. `EarningInv` says why they never are: a calculation visits an
  assignment once (no earning in `found` is of an assignment still in `todo`), a run holds
  at most one earning of an assignment that is not posted (`RunsEarnOnce`, because
  `ReplaceItemsForRun` deletes the others in the transaction that inserts), and an earning is
  always a credit.
* `SplitInsteadOfDay`: `SplitInv` says that a calculation decides both items of a stand-in from
  the rows it read once (`Drawn`), whatever happens to the plan meanwhile, and that its items
  carry an identifier no other calculation in flight and no stored item has
  (`CalculationsFresh`).
* `PricesTyped`, `PricedOnce`: `PricesInv` adds to the types that a table under the unique
  index obeys it (`IndexHolds`), that a gold price saved under the new schema has a date
  and no time of day (`GoldDays`: two rows of one day would otherwise differ in their
  key), and that an edit in flight is about a row that exists (`EditsAimed`). The look for a
  conflict before a save plays no part.
* `PricesNotLost`: the steps that write a table are a save, which replaces the row it switches
  off or leaves everything as it was, an explicit deactivation or reactivation, and the
  repairs, which keep the newest row of a code.
* `AssignedOnce`: the unique index alone carries one active assignment per collaborator;
  every row a planner writes, however old what it read, passes it.
* `ReplacementsUnique`: `PlanningSpec /\ []OnePlanner /\ [][~SingleSteps(Planners, PlanRow)]_planningVars =>
  []ReplacedOnce`. The two hypotheses are what the property is about: the repository has no
  index on replacements, and two bulk plans at once, or a single edit that names a replaced
  collaborator, give two. `BulkInv` says that the rows a bulk plan in flight knows are
  exactly the table (`KnowsTable`), at every point where it may be broken off, so the look for a
  taken link among the rows it knows is a look at the table.
* `IdentityTyped`: `IdentityInv` adds to `IdentityTypeOK` that a call in flight is about a row of
  the right table (`CallsAimed`), that a journey to be extended exists (`ExtensionsAimed`) and
  that a membership has its person (`PersonsKnown`): otherwise the transactions would
  dereference rows that are not there.
* `DirectoryKept`: a membership and the tenant's own row of the person are written together
  (`RowsAgree`), whichever operation or repair writes them; that the directory and the search
  for further people are complementary then follows in every repaired state.
* `AccessShutOut`, `SuspensionKept`, `ResetsOfActive`, `TokensUnique`: one argument for the four
  (`AccessProofs`). Every step but three kinds is an `AccessEffect`: calls stay, end or
  begin (a login without a session, a reset with a live token of an active account); at most
  one account changes whether it may be used, and if it is locked its sessions are revoked;
  tokens only end, and go with the account they are of. `AccessInv` adds to the four
  properties what carries them over the rest, the two steps of a login and the issue of a
  token: the session a login holds is of its account (`LoginsAimed`), the token a reset holds
  is of its account (`ResetsAimed`), and rows refer to rows that exist (`KnownInv`: an account's
  person, a member's actor). Without `OwnersKnown` the edit that gives a legacy row its
  person could open or lock an account that was there before.
* `AccessImplemented`: `IdentitySystem!Spec` implements `AccountAccess!Spec`. An `AccessEffect` is
  `End`, `Lock` or `Unlock`; making a session is a stutter, because its login still holds it;
  the second look is `Grant` or a stutter. That an account which comes into use has no
  session left is `ShutOut`.
* `OneJourney`, `OneLease`: only `Journeying` and `Leasing` write these tables (`OthersRest`). The
  trigger on the insert, and the count inside the lease's transaction, are all that is needed.
* `OptionsOpen`, `CandidatesPass`: what is offered and what is later decided look at the same rows.
  The options after login go by the actor's having any role and the lease by its being
  application administrator: an application actor can have no other role.
* `AdministratorsLimited`: every step is an `AssignmentEffect`: bindings stay, and at most one new
  assignment is made, past the triggers. The validation in earlier statements plays no part.
  `AssignmentsLimited` adds that every assigned administrator is bound to its account: the code
  looks for assignments of the same person among bound actors only, so an unbound
  administrator would let a second tenant through.
* `AdministratorRemains`: `HistorySpec => ApplicationAdminRemains`, where `HistorySpec` is `Spec` with the
  history variable `outdated`. The check for a remaining administrator and the save are separate
  statements, so two overlapping removals can remove the last two; the theorem says that such
  an overlap is the only way. `RemovalsCovered`: what a removal that is not outdated has checked
  still holds, through all steps of logins, people, tenants, leases, journeys and other removals.

**Only model-checked**: `PolicyTakesEffect` (liveness under fairness is beyond
the prover); `SolePaymentsNeverCrossZero` (about a workload of the run; `PaidWithinBalance` is its general
form). The properties of the violation runs are not true of the code.

## 7. Not modelled, and plan

Not modelled for good: the frontend, routes and the permission they ask for, seeding, the
importer (parsing and wiring, no durable state of their own), reference data (codes no other
step tests beyond their existence), read-only listings and projections of accounts, the
catalogue of permissions, recent reauthentication and the audit log.

Requests the API accepts and the models leave out, none of which a property speaks of:
a bulk plan with `replacementForAssignmentId` (`workperiodassignments/`; the page sends names), and
the application role for an actor made by hand that carries a person's id but is bound to no
account (`authz/admin.go`; an application actor without an account stands for it). The
reactivation of a member whose actor was made by hand makes a second, canonical actor
(`people/repository_gorm.go:697`); the model has one actor for each member and tenant, so the
hand-made one, which has no roles then, is left aside.

Hazards that are listed without a property: extensions of a journey that overlap lose one
(`collaborators/service_impl.go:273`; the model does it, and no document promises otherwise);
payments on a closed journey, the open-journey check of an expense, the replacement
of a posted assignment, and corrections of an expense's debit, which need the compositions
below. `PROJECT.json` gives the reason for each.

Next, in this order:

1. Composition of `Expenses` with `LedgerCorrections` in `CurrentAccount`.
2. An abstract account (a balance per unit, payments, one closure) that
   `CurrentAccount` implements.
3. Composition of `Accruals` with the account: the postings of a run as entries of
   `Ledger`, the debit of a sick day with its receipt.
4. Proofs over these compositions: the theory of sums in `LedgerProofs` is what the abstract
   account needs.
