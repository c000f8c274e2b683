# Tezcan Envanter: formal models

TLA+ models of the inventory system in `src/` (Django on PostgreSQL), the TLC
configurations that check them and the TLAPS proofs about them.  Everything is
translated from the services' code, with the migrations' triggers and
constraints where these change an outcome.

    tlc -config Movements.cfg MCInventoryMutation
    tlapm InventoryMutationProofs.tla

`PROJECT.json` lists the components, the runs with their properties, the source
lines each definition models, the hazards, the findings and the theorems.

## 1. The system

A workshop's inventory.  Web requests run as independent processes on one
PostgreSQL database at READ COMMITTED.  Every write goes through a service
function that opens one transaction, locks rows with `SELECT ... FOR UPDATE`
(some take advisory or table locks too), validates what it read, and writes.
There are no background jobs and no messages; all interaction is by shared rows.

| component | state | operations | hard behaviours |
|---|---|---|---|
| quantity mutations (`inventory/services`) | `InventoryTransaction` and lines (the ledger, append-only), `StockBalance` | receive, issue, return, transfer, controlled correction, count reconciliation | idempotency under retries, row-lock order, values read under a lock and used later, cumulative caps over earlier lines, crash and rollback, deadlock |
| serialized assets (same files) | `SerializedAsset`, ledger lines with `asset_event_seq` | receive, issue, return, transfer of one asset | one custody at a time, event sequence, replay against the history |
| activation of masters | `active`, `can_hold_stock` of materials and locations | `set_material_active`, `set_location_active` | deactivation racing a receipt |
| physical count (`counting`) | sessions, quantity lines, serialized lines, rejections | create, start, record, mark, add unexpected, complete, approve, reject | snapshot against moving stock, two counters on one line, late entries, reopening, overlap of scopes |
| correction workflow (`corrections`) | `CorrectionRequest` | create, approve, reject | one pending request per transaction, self-decision, retried decisions |
| location and production line trees | `parent` | create, update, move | cycles from concurrent moves, lock order of rows, advisory and table locks |
| baseline cutover (`imports`, `baselines.py`) | `InventoryBaseline`, `INITIAL_BALANCE` | prepare, establish, list blockers | drift since the count, once only per bucket, locks taken after the count, verification among other commits |
| procurement | purchase requests, lines, receipt links | create, update, link material, receive | received quantity as a sum of links, retried deliveries |
| access management (`accounts`) | groups, permissions, memberships | create/rename role, set permissions, set user roles | delegation beyond one's own rights, permissions read from rows that are not locked |
| catalog masters (`catalog`) | categories, units, materials | create, update, switch | ancestors read without a lock, generated codes that collide, references to rows that are switched off meanwhile |
| inventory pages (`inventory/views.py`, `forms.py`) | hidden operation identifiers | the eight pages that post movements | double clicks, lost answers, changed contents, rows retired between a posting and its retry |
| triggers (`inventory/migrations`) | none of their own | judge every line, header, balance and asset that is written | the same rules a second time, in SQL and over single lines: what they refuse is an error of the server |
| employees (`accounts`), audit events | employees, the events of their rows | create, update, switch; issues copy the receiver | an edit that writes less than it records, a row that changes while an issue copies it |
| expiry inspections, identification, reports | rows of their own | single-row writes, listings | little: see section 7 |

How they interact: counting posts `COUNT_RECONCILIATION` and cutover posts
`INITIAL_BALANCE` through the inventory services, inside the caller's
transaction; the correction workflow posts `CONTROLLED_CORRECTION` with an
identifier derived from its request; procurement calls receive and links the
receipt to its line.  Deactivating or moving a location touches rows that all of
them lock.  Who holds which permission is checked before the transaction.  The
pages draw the operation identifiers that make a posting happen once, and the
triggers stand behind everything that posts.

What makes each correct is said in section 3.

## 2. Modules

| module | models | kind |
|---|---|---|
| `QuantityPosting` | the vocabulary of quantity postings: buckets, the ten shapes of a line, what each does to which bucket, the caps, and when a posting is admissible | operators |
| `StockLedger` | what the services promise: one atomic `Post` per operation identifier | abstract specification |
| `InventoryMutation` | the services as concurrent transactions: look up, reserve the header, lock row by row, validate, commit; crash, replay, conflict, deadlock detection; activation of masters | detailed specification, refines `StockLedger` |
| `InventoryMutationProofs` | its inductive invariants and theorems; `PostingLemmas` has the lemmas about postings and sums over a ledger | proofs |
| `InductionLemmas` | induction over numbers and finite sets, what an iterated step leads to, finite sets as lists | lemmas |
| `AssetLine` | the vocabulary of serialized assets: custody, lines, what a line requires of the custody and does to it | operators |
| `AssetCustody` | what the services promise of one serialized asset: a numbered history of lines, each admissible in the custody the earlier ones led to | abstract specification |
| `SerializedAssets` | receipt, issue, return and transfer of assets as concurrent transactions | detailed specification, refines `AssetCustody` |
| `SerializedAssetsProofs` | its inductive invariant and theorems, and what the invariant says of the history of an asset | proofs |
| `LocationTree`, `LocationTreeProofs` | creating, editing and moving locations and starting a count, lock by lock; its invariant and theorems | specification, proofs |
| `CorrectionWorkflow` | requests for corrections and the decisions on them, on top of `StockLedger` | specification |
| `CorrectionWorkflowProofs` | its inductive invariant and theorems | proofs |
| `Procurement` | request lines, edits, links and deliveries, on top of `StockLedger` | specification |
| `PhysicalCount` | count sessions with all their operations, the pages that carry tokens, and the world moving meanwhile | specification |
| `BaselineCutover` | baselines on completed counts: what is checked, locked, opened and verified, beside `PhysicalCount` | specification, extends `PhysicalCount` |
| `BaselineCutoverProofs` | the inductive invariants and theorems of both | proofs |
| `QuantityGuards` | the triggers behind quantity postings, as predicates over the lines that `InventoryMutation` commits | operators and properties |
| `AssetGuards` | the triggers behind serialized lines and assets, over what `SerializedAssets` commits | operators and properties |
| `Catalog` | categories, units and materials, with generated codes | specification |
| `AccessManagement` | roles, their permissions and members | specification |
| `OperationPages` | the pages that post, from the opening to the answer | specification |
| `Employees` | employees, their audit events, and the issues that copy them | specification |
| `MCOffice` | `Procurement`, `Catalog`, `AccessManagement`, `OperationPages` and `Employees` side by side | instance |
| `OfficeProofs` | the inductive invariants and theorems of these five, and of the composition | proofs |
| other `MC*` | workloads and symmetry sets | instances |

### InventoryMutation and the code

A service call is `Submit` (authorisation and normalisation have passed),
`Lookup` (`filter(operation_id=...)`), `Replay` or `Conflict` (an existing header
with the same fingerprint or another), `Reserve` (the header insert; its unique
index makes a second insert wait for the first transaction's end, which is the
lock of `TransactionRow`), one `Lock` per row, `Reject` at the first validation
that fails, and `Commit`.  `RowsOf`, `Stage` and `LockedBefore` are the rows and the
order of the code: original line, material(s), location(s), condition, balance,
each sorted by primary key.  Corrections read their original line with a query
that joins, and so locks, its material first; `Stage` says so.  `RowValue` is what
the service reads of a row once it is locked (a balance, the activity of a master,
the sum of earlier returns or corrections of the line); `Passes` is what it
requires of it, and `Commit` writes balances computed from what was *read*.
Uncommitted writes are invisible to others at READ COMMITTED and are therefore
part of `Commit`.  `Ledger == INSTANCE StockLedger WITH ...` maps the committed
tables to the abstract ones.  `Crash` loses the process or its connection at any moment;
`BreakDeadlock` is PostgreSQL's detector.  `SetActive` is one step because it locks
one row, and the trigger `inventory_location_positive_stock` is its guard.

Abstracted: units, tracking modes and the acting user (constant within a
request, part of its fingerprint, hence of `Posting`); a missing balance row is a
balance of 0; conditions are never switched off by any service.  An issue also
locks the employee and the production line it names; nothing writes those rows
among the postings and they are left out (`Employees` has the receiver and whoever edits
him), as is `INITIAL_BALANCE` (cutover only).

### PhysicalCount and the code

Every counting service locks its session row first and keeps it to the commit, so
calls on one session are serial; `create` and `start` take the scope advisory lock
and `start`, `add` and `record` the location table in SHARE mode.  Each call is one
step.  `form[u]` is the page a user has before him: `OpenLine` and `OpenItem` render
it with the line's `counted_at` as hidden token, and the entry actions post it back,
possibly late and more than once.  `MarkNotCounted` follows the *view*: an empty
token is replaced by the line's present one.  `Approve` includes
`reconcile_quantity_count`: fresh `operation_id`, stock equal to the snapshot, usable
location for an increase.  `MoveStock`, `MoveAsset`, `MoveLocation` and
`SetLocationActive` are the rest of the system.  `now` is an arbitrary clock reading
at every call, since nothing makes the database host's clock monotonic.

Left out: `DISPOSITIONED`, which no service assigns; rows of rejection history;
reference numbers; inactive materials and conditions; locations that cannot hold
stock; replays and refusals, which change nothing.

### SerializedAssets and the code

A service inserts its header, previews without a lock which material the asset is of
(`RowsInOrder` is computed from that preview), and then locks row after row in the
order the code gives: original line, material, locations by primary key, condition,
asset.  `refused` remembers what it disliked of a row when it locked it and `Judges`
says at which points the code raises.  Only when the asset is locked, last, are its
custody (`seen`) and its next event number (`drawn`) read; `Commit` writes from them.
A receipt inserts the asset instead: `CodeRow` is the unique index over codes, at
which a second insert of the code waits.

The database triggers and `assert_serialized_projection_for_asset` compare the
asset with its history once more at the end of every transaction.  They are not
guards of the model: `HistoryReplays` and `AssetTriggersAccept` say that they never
have anything to object.  `C == INSTANCE AssetCustody WITH ...` is the refinement
mapping: the committed tables, without locks and readings.  Left out: employees and production lines that an issue names, serial numbers (unique
per material by an index of their own, as the codes are), and openings of a cutover.

### QuantityGuards, AssetGuards and the code

The migrations install triggers that judge each inserted line
(`inventory_line_quantity_guard`), each header at the commit
(`inventory_tx_requires_line_guard`, `inventory_issue_line_cardinality_guard`), each
balance and each saved asset.  They repeat the services' rules in SQL, over the
*lines* in the tables, where the services compute over requests; a refusal is not a
validation error but a failed transaction.  `LinesOf` says which lines a posting is
stored as, `LineAccepted` and `HeaderAccepted` (`LineAccepted` and `Intact` for
assets) what the triggers require of them, and the action properties
`TriggersAccept` and `AssetTriggersAccept` that every commit of a service meets it.
Of 0002 to 0012 the functions in force at the end are modelled.  Units and tracking
modes do not vary here.

### BaselineCutover and the code

`Prepare` is one step: it locks its sessions, and a completed baseline candidate
takes no more entries.  `establish_inventory_baseline` is several.  `CheckSessions` locks the
baseline, its sessions and their lines and checks what these say; `ReadTree` reads the
location tree, which it does not lock, and keeps the subtrees in `attempt[bl].scopes`.
Until `BeginEstablish` stock and locations still move.  `BeginEstablish` stands at the
last of the row locks, for each of which the code may have waited: it locks materials,
the locations *of that reading* and conditions, compares stock and assets at these
locations with the snapshot, judges prior history, candidates whose code was registered
and self-approval, and makes the openings, which stay uncommitted in `cut.opened`.
The locks being taken at once there, more may happen before it in the model than in the
code, not less.  The verification of the projection then reads
inbound lines, outbound lines and balances in three statements, each of which sees
what others have committed by then: `ReadOutbound` and `CommitEstablish`, with
`cut.seen` as what was added up.  Meanwhile everybody else may do what the locks let
through (`LockedStandsStill`: from the start the sessions and their lines, from
`BeginEstablish` on also materials and conditions of the lines, the locations read and those
of the lines, all of the assets' table).  Materials and conditions of stock that no line
names are locked too; `LockedRows` leaves them out, which only lets others do more.
`RollBack`, possible from `CheckSessions` on, is a failed check, a mismatch, a deadlock, a
lost connection or a killed worker.  `Replay` answers the same request again by its fingerprint.
`Blocked` is `collect_baseline_readiness`, which judges on its own.

`EstablishedIsCounted` speaks of the locations that the establishment has read
(`LookedAt`), wherever they are in the tree at the commit, for the code looks at no others: see
"Found while modelling" in section 3.  A location that was in the scopes of two sessions
of one baseline when the tree was read may be opened from either's count; the property allows that.

### Catalog, AccessManagement, OperationPages, Employees and the code

In `Catalog` a service that reads rows it does not lock is two steps, its checks
(`CheckMove`, `CheckCreate`, `CheckUpdate`) and its commit, at which the deferred
foreign keys wait for rows that others hold `FOR UPDATE` (`MayShare`).  A generated
code is drawn from a sequence that no rollback takes back (`Draw`), looked up, looked
up again by `full_clean` (`CleanGenerated`) and inserted under a unique index, after
whose refusal it is drawn anew (`Collide`).

In `AccessManagement` a call is `Authorize` (no locks), the user's row where there is
one (`LockUserRow`), the roles' rows with every check behind them (`LockAndCheck`) and
`CommitCall`.  `Touchable`, `RoleMutationAllowed` and `MayGrant` are the limits of
delegation of DEC-022.  The audit event has a foreign key to its actor, so a commit
waits for whoever holds the actor's row; such waits may end in a circle (`EndWait`).

In `OperationPages` a page *is* its hidden operation identifier.  Serving a request is
cleaning the form, which reads rows without locks, and the service's transaction,
which posts, repeats its answer, or refuses.  `Forms` says for each of the eight forms
which chosen rows must still be active for the form itself to be valid, and which are
left to the service.

In `Employees` a creation or an update is its checks (`CheckCreateEmployee`,
`CheckUpdateEmployee`), which read the other rows without locks, and `SaveEmployee`,
at which the unique indexes judge number and user again.  `RowUnlocked` is the row's
`FOR UPDATE`.  `duty[c].seen` is the row as it was locked, which the audit event records
as `before`; an update writes number, name and user and leaves `active` alone.
Switching is one step.  `LockReceiver` and `CommitIssueTo` are the part of an issue that
concerns its receiver: locked, judged, copied, committed; `GiveUp` is any refusal by
another row or the loss of the process.  Left out: names, which are copied as the number is;
deleting a user, which no page does.

### LocationTree and the code

A request is a sequence of locks with their modes (`LocksOf`): rows `FOR UPDATE`,
the advisory lock of the hierarchy, the table lock that a write takes and with which
the `SHARE` lock of a starting count conflicts, and `FOR KEY SHARE` on the new parent,
which PostgreSQL takes only at commit, when it checks the deferred foreign key.  An
update that leaves the parent as it is skips the advisory lock (`Following`); the new
parent is judged once the advisory lock is held (`Validating`).  Moves, creations,
edits and starting counts may wait for each other in a cycle (a move holds its row
and waits for the hierarchy, whose holder needs that row as its parent): the detector
ends one, and `EveryRequestEnds` says that this is enough.  Codes and names are left
out; `inventory/services/production_lines.py` repeats the same code with an advisory
lock of its own and no counts; switching a location is in `InventoryMutation`.

### CorrectionWorkflow and the code

`Ask` is `create_correction_request` with the partial unique index that allows one
pending request on a transaction.  A decision locks the request's row and reads its
status (`LockRequest`); `Approve` posts and decides in one commit, `Reject` decides,
`Replay` answers the manager who approved before, and everything else the code raises,
as well as the loss of a process, is `Fail`, which writes nothing.  The posting
carries an operation identifier computed from the request's (`uuid5`), so a request
and that identifier are one value.  The posting itself is the `Post` of
`StockLedger`, one step, which is justified by the refinement that
`InventoryMutation` is proved to satisfy.  Evidence files, texts and the authorisation
before the transaction are left out.

### Procurement and the code

`Submit` is the view: it reads the line without a lock and compares the material of
the form with it.  `LockLine` is `_locked_line` with the validations behind it
(`AdmitsDelivery`, `AdmitsLink`, `AdmitsEdit`; those of `receive_quantity_for_line`,
`link_line_material` and `update_purchase_request_line`), and `row` is what was read
there; `Save` and `Receive` write from it.  `Receive` is the receipt, which checks the
unit once more under the material's lock, and `_attach_receipt`; `Replay` is its
answer to a repeated identifier.  Refusals (an inactive material, a receipt
that belongs to no line) and crashes are `Fail`.  `ChangeUnit` is `update_material`, `Elsewhere` any posting
of other services.  Left out: the header of a request, prices, suppliers, dates, the
requested quantity (deliveries may exceed it), the serialized delivery, which takes
the same lock and adds the same link.

## 3. Runs

Passing runs (what each shows is said at greater length in `PROJECT.json`):

| run | configuration | shows |
|---|---|---|
| `movements` | 2 workers, 2 materials, 2 locations, 8 requests under 6 identifiers | the concurrent receipts, issues, returns and transfers implement the ledger, use no stale value, strand no stock, answer truthfully, never wait in a cycle and never meet a refusal of a trigger, with retries, conflicting identifiers, deactivations and crashes at any point |
| `adjustments` | 2 workers, 2 materials, 7 requests under 4 identifiers, fairness | corrections and reconciliations commit only what the triggers accept; every request ends although crossing corrections deadlock |
| `cutover` | 2 users who count, decide and establish, 1 bucket, 1 asset, 1 session and baseline, 2 identifiers, clock 0..1 | approvals and ledger effects correspond one to one; nothing uncounted is completed; reconciliation is pending exactly while a discrepancy is; no count is replaced unseen; an established baseline stays what it was established on; blockers block |
| `relocated_cutover` | 1 session, 2 locations that are moved and switched, stock that moves | at the locations that an establishment has read it leaves what was counted, and an opening is the first the ledger knows of its bucket |
| `serialized_assets` | 2 workers, 2 assets, 10 requests under 7 identifiers | the numbered history of each asset leads to the recorded custody; no asset at a location out of use; no wait in a cycle; the triggers accept every line; refinement of `AssetCustody` |
| `location_tree` | 2 workers, 2 locations and 1 to be created, fairness | the tree stays a tree under crossing moves; a starting count sees one that stands still; every request ends |
| `correction_workflow` | 2 managers, 2 workers, 2 requests, 8 postings of others under 4 identifiers | a request has posted exactly if it is approved; answers are true; and, over all these postings, balances equal the ledger's sums, returns stay within their issue and corrections above their floor |
| `office` | purchase requests: 2 workers, 2 lines, 2 materials, 2 units, 9 errands under 3 identifiers; catalog: 2 editors, 2 categories, 3 materials, codes 1 to 3, 2 attempts; access: a superuser, a delegate and a worker, 2 roles, 2 calls at once; pages: 2 pages of any kind, 2 contents, 2 clients; employees: 2 of them, 2 numbers, 1 user, 3 events of each, 1 issue, 2 clerks | deliveries count once, in their line's material and unit; no two categories below each other and no code refused in vain; nobody is made a manager or given a right by one who may not; what a page answers is true, and true again when it is sent again; the audit events of an employee are his whole history, and an issue names its receiver as he is |

`office` composes five components that share no state.  A behaviour of it serves one
*desk*, chosen at the beginning, while the others stay as they begin.  Each property
speaks of one component, so it holds of the composition exactly if it holds of the
component alone; a product of the five would only repeat the same states.

Runs that end in a counterexample, each a disagreement between the code and what
its documentation or tests say (`findings`):

| run | what happens |
|---|---|
| `crossing_corrections` | two identity corrections between two materials deadlock: the joined `FOR UPDATE` of the original line locks its material out of order |
| `erased_count` | u1 opens the page of an uncounted line, u2 counts it, u1 marks it "not counted": the empty token is replaced by the line's own and u2's count is gone |
| `stale_delivery` | a line is linked to another material between the view's comparison and the service's lock: the goods are posted under a material that nobody confirmed |
| `reopened_scopes` | a completed session is reopened by a rejection over a session opened meanwhile on the same location |

`OpenScopesDisjoint` fails in a second way that needs no run of its own: with two
locations, `MoveLocation` puts one open session's scope under another's.

Found while modelling and without a run of its own:

- the verification in `establish_inventory_baseline` may report
  `PROJECTION_MISMATCH` though nothing is wrong: an issue elsewhere that commits between
  its statements is in one sum and not in the other.  The establishment is rolled back,
  so nothing is lost but the attempt;
- an establishment may leave stock in its scope that nobody counted.
  `imports/services.py:209` reads the location tree without a lock, 226 to 240 lock materials
  (for each of which it may wait) and then the locations of that reading, and nothing reads
  the tree again; neither the hierarchy's advisory lock nor a `SHARE` lock on the
  locations is taken, as `start` of a count takes them (`counting/services.py:1162`, `1167`).
  A location with stock that is moved below the scope in between is neither locked nor
  compared.  Of `EstablishedIsCounted` stated over the tree at the commit, in place of
  `LookedAt`, TLC finds that counterexample in 12 states: prepare, check, read the tree, move the
  location, begin, verify, commit.  It is against "her count session tam bir `Location`
  subtree'sini kapsar" (`docs/01-BUSINESS-RULES.md:248`, CNT-011) and "baseline incomplete
  state'leri lock altında tekrar doğrulanır" (`docs/05-ARCHITECTURE.md:353`);
- three categories that are moved at once under each other in a ring end as a circle
  (`catalog/models.py:121` walks the ancestors without locks): each foreign key waits
  for one row only, and the third is free by then.  Two cannot (`NoMutualParents`);
- a serialized receipt that is sent again is refused by its own form, which finds the
  code in use (`inventory/forms.py:411`), before the service could answer that it was
  saved already (`docs/05-ARCHITECTURE.md`, idempotency).

Bounds.  Quantities of 1 and 2 distinguish partial from full and an excess from
either; two materials and two locations are the least with which lock orders
differ, and two workers suffice for a cycle, a lost update or a stale read.
Every request of a workload may be submitted any number of times, so retries and
replays are unbounded.  In the counting and cutover runs quantities are 0 and 1 (drift,
surplus and shortage all occur), the clock has two readings (equal, earlier and
later ones all occur), and `MaxTime` also bounds how often one line is re-counted.

In `serialized_assets` the workload holds the cases that differ: an asset issued
twice while a return of the first issue is under way, a code claimed under two
materials, two assets that pass each other.  In `location_tree` two existing
locations are the least that can be moved under each other and a third that is
created under either makes a chain; its safety properties also hold with three
existing locations (596 000 states).  In `correction_workflow` two requests on one posting
and two managers give simultaneous, repeated and opposite decisions.  In
`office` a delivery's identifier is shared by two lines, by two materials and with a
receipt that belongs to no line.

In `cutover` one session is enough for everything that happens to a line, since every
service locks its session; the theorems of section 5 are about any number.  In
`relocated_cutover` one session with two locations makes its scope grow and shrink
between snapshot, check of the sessions, reading of the tree, locks and commit.  In
`office` two categories make the circle that
the foreign keys prevent, codes 1 to 3 with two attempts let both attempts be used up,
two calls at once let one change the roles that the other has read, and three events
of an employee let him be edited and switched after his creation.

The type invariants of the five components of `office` are checked together
(`OfficeTypeOK`).  Those of the other components are part of what is proved (section 5) and no
run repeats them, but for the locks of `SerializedAssets`: its `TypeOK` was checked once with
its configuration, and what is proved (`Typed`) leaves room for a return against the line
of another asset, whose material nobody knows.

Symmetry is used over workers, and over users, identifiers and locations where no
configuration tells them apart, in runs without liveness properties.

`CHECK_DEADLOCK FALSE` is set where a finite workload or a bounded clock leaves
nothing to do; waiting for ever is what `NoWaitCycle` and `EveryRequestEnds` are about.

## 4. Fairness

`EveryRequestEnds` assumes, for each worker, strong fairness of its own step and weak
fairness of the deadlock detector.  PostgreSQL queues lock waiters, so a transaction
whose lock is free again and again gets it: strong fairness.  The detector runs
after `deadlock_timeout` whenever a waiter still waits: weak fairness.  Clients need
not submit anything and processes may crash, but neither is required to happen.
`location_tree` assumes the same (`FairSpec`).  The other runs check safety only.

## 5. Proofs

Every invariant, action property and refinement that a passing run checks is also a
theorem, for all values of the constants; each rests on an inductive invariant that its
module defines.

**Induction.**  The library's induction theorems take an operator as a parameter, which
the provers cannot instantiate.  `InductionLemmas` states induction over numbers and over
the subsets of a finite set for a *set* G of what has been shown, from the fact that a
well-founded relation has minimal elements.  From these follow that finitely many
transactions contain a last one, that a growing step on the subsets of a finite set comes
to rest after as many rounds as it has elements, and `BelowIsSmallest`: a subtree that is
collected level by level is the smallest set that contains its root and the children of
its members.

**Sums.**  `PostingLemmas` has what the proofs need of `Total`, the sum over a finite set
of pairs: it does not depend on an order, adds over disjoint sets, and changes with one
entry by the difference.  `Sound` is the condition a ledger keeps when an admissible
posting is appended: every balance is the sum of the effects on it (`Balanced`), no issue
is returned beyond its quantity (`Capped`), no posting is corrected below zero
(`Floored`), and what a return or a correction names has been posted (`Grounded`).

`InventoryMutationProofs`, for every set of workers and any workload, finitely many
identifiers, and finite or infinite sets of materials, locations and quantities:

  - `TypeCorrect`, in particular no negative balance;
  - `ReadsStayCurrent`: what was read under a lock holds until the end;
  - `AnswersAreKept`: an answered request is in the ledger;
  - `StockStaysUsable`: stock only at usable locations;
  - `Implementation`: `Spec => ImplementsLedger`, the refinement of `StockLedger`;
  - `ProjectionStaysLedger`, `ConcurrentReturnsCapped`, `ConcurrentCorrectionsFloored`:
    what `StockLedger` promises holds of the concurrent system;
  - `TriggersNeverRefuse`: no commit of the services meets a refusal of the triggers;
  - `OnlyDownwardCorrectionsDeadlock`: with finitely many workers there is no cycle of
    waiting transactions, unless a correction takes a record to a material with a smaller
    key (`CorrectionsUpward` says that none does).

The inductive invariant `IInv` adds to the types that a row is locked by at most one
transaction (`LocksExclusive`), that every transaction past its reservation holds or
still wants exactly the rows of its request (`LocksCover`), and that what it has read
is current.  Without the first two, `ReadsCurrent` is not inductive: another
transaction's commit could change a row that is merely believed to be locked.  Each
action has its lemma; `CommitFacts` shows that a commit touches only rows it holds,
so it disturbs no other transaction's readings.  `Implementation` follows: by
`ReadsCurrent` the values validated are those of the ledger at the commit, so the
step is a `Post`; every other step stutters.

The triggers know lines, the services postings.  Lines of different postings differ in
their header, so the triggers' sums over lines are the services' sums over postings
(`TotalRenamed`, `ReturnedIs`, `CorrectedAwayIs`); and since every posting of the ledger
is well formed (`AllWellFormed`), the line a return or a correction refers to is the one
line the triggers look up.  The balance trigger's rule about locations is
`StockStaysUsable` in the state after the commit.

For deadlocks, `LocksInOrder` says that what a transaction holds comes before all that it
still wants, in the order of tables and then of keys (`RowBefore`); in a cycle the
transaction that waits for the last row would hold a later one.  The run
`crossing_corrections` shows that the hypothesis on corrections cannot be dropped.

`CorrectionWorkflowProofs`: `DecisionsAlwaysMatchLedger`, `ApprovalsStayTrue` and, with
`Sound`, `BalanceStaysLedger`, `ReturnsStayWithinIssue` and `CorrectionsKeepFloor`.
The invariant adds that a request is locked by one worker, that the status he read is
the present one (`StatusIsCurrent`), and that no approved request was decided by its
requester, which the answer to a repeated approval relies on.

`SerializedAssetsProofs`, for any workers, assets, locations and requests:

  - `CustodyImplemented`: `Spec => ImplementsCustody`, the refinement of `AssetCustody`;
  - `AssetsStayUsable`: an asset in stock is at a usable location;
  - `TriggersNeverObject`: no commit meets a refusal of the triggers;
  - `HistoryInvariance`: an issued asset has exactly one issue that was not returned, of
    its condition, and an asset in stock has none;
  - `HistoriesReplay`: the numbered history of an asset leads to its recorded custody;
  - `AssetsNeverDeadlock`: finitely many workers never wait in a cycle, without
    any hypothesis on the workload.

`Typed`, `LocksExclusive`, `Covers` and `Current` are its `IInv`.  Rows are locked in a list here,
not in stages: `Covers` says that every row a request needs is held or still listed and
that the asset is the last, and `Current` that what was judged or read of a held row
is still so.  What the triggers look up in the history (the open issue that a return
names) is not in the asset's row; `HistoryInv` carries it.  For `HistoriesReplay` the replay
is a function on 0 .. n that agrees with the shorter one where both are defined
(`ReplayedBy`), so a commit extends it by one step; that this step is possible follows from
`HistoryInv`.

`LocationTreeProofs`, for every finite set of locations and any workers:
`LocationsStayATree` and `ScopesStandStill`.  `LocationInv` adds that conflicting locks are
never held together, that two requests never create one location, and `Sound`: the locks of
a request are those it needs, what was validated under the hierarchy lock is still true,
and a count has the rows of its scope.  That parents form a tree is stated without
iteration (`IsTree`): parents exist, and every set of locations that is not empty has a
member whose parent is outside it.  A move below a location outside the subtree keeps this, because
the subtree is closed under children (`BelowIsSmallest`).

`BaselineCutoverProofs`, for any users, sessions, lines, assets and identifiers, finitely
many locations, with the clock going anywhere:

  - of counting: `ApprovalsMatchEffects`, `CompletedStaysCounted`,
    `ReconciliationFollowsLines`, `NoCountIsLost`;
  - of cutovers: `BaselinesRestOnEvidence`, `BlockersAlwaysBlock`, `OpeningsAreFirst`,
    `EstablishmentsAreCounts`;
  - `CutoverTyping`, whose point is that an opening never meets stock.

`CountInv` adds to the three counting invariants that the state of a session says what its
lines can be (`NothingBeforeStart`, `PendingIsCounted`) and that no page shows a token later than its
line's (`PagesAreEarlier`), without which a late entry could undo a count.  `CutoverInv` adds
that a session belongs to one baseline and stays a completed candidate in it
(`BaselinesHold`), that an attempt belongs to a prepared baseline none of whose
sessions has a line still to be counted (`AttemptsHold`), and that once it holds its other
locks the rows keep what it read of them (`CutHolds`): in particular a bucket that is to
be opened has no stock and no history.

`EstablishmentsAreCounts` takes a second invariant, `CountedInv`: a line that is neither pending
nor skipped was counted (`LinesTell`), stock has a ledger line (`StockIsPosted`), the subtrees
an attempt has read are sets of locations (`AttemptsTyped`, of which `ScopesAreLocations` is the
lemma that needs `BelowIsSmallest`), and what the establishment checked stays true until it
commits (`ChecksHold`): in the subtrees as it has read them its sessions have not drifted,
and every line of theirs is settled, that is opened, counted as expected, or counted as
nothing where there is nothing.  The heart is that the list of locations that is compared is
the list that is locked, so no stock moves there until the commit; where these locations are
in the tree by then, and which others have come below the scopes, plays no part, and the
theorem says nothing of the others.

`OfficeProofs`, of the five components of the office, each for any number of its clients,
and of their composition:

  - purchase requests (`PurchaseInv`): `LinksAlwaysMatchLedger`, every link is a receipt of
    the line's material and unit, for its whole quantity, and linked once, and
    `DeliveriesAreCounted`.  `LinksMatchLedger` is not inductive: `Save` could overwrite the
    material of a fulfilled line.  The invariant adds that a line is locked by one worker
    and that what he read and required of it under the lock still holds
    (`LockedIsCurrent`): in particular that a save of a fulfilled line saves it as it is;
  - access (`AccessInv`): `OnlySuperusersMakeManagers`, `DelegatesOnlyGiveWhatTheyHold`.
    Roles and users are locked by one call at a time, so what a checked call is about to
    hand on (`Gift`) stays within what its caller held at the check, though her own
    permissions may be gone by then;
  - pages (`PagesInv`): `AcknowledgementsAreTrue` and `RetriesStayAcknowledged`; a posted page
    stays posted with the contents it was posted with;
  - employees (`EmployeesInv`): `TrailsAlwaysReplay` and `IssuesNameTrueReceivers`.  A locked
    row is as its call has read it (`DutiesCurrent`), so the event appended starts where
    the trail ended; `TrailsTell` says what a replay is without recursion;
  - catalog: `ParentsNeverMutual` (`TreeInv`: the foreign key's lock keeps a new parent from
    being moved below the row that is being moved, `MovesStand`) and `RefusalsAreEarned`
    (`CodesInv`: each attempt used up has met a given number of its own, and a number drawn
    belongs to one call, `CodesAccounted`);
  - `OfficeStaysTyped`: a behaviour of the office is, for each component, one of that
    component, whose steps are few if another desk is served (`OfficeIsEveryDesk`).

The assumptions are those the modules state: sentinels are not values, references are
among the rows, clients' requests are well formed, the permissions that these services
handle are not those they do not, and nobody draws the identifier derived from a
correction request (`PostingConstants`, `WorkloadOfPostings`, `ProcurementConstants`,
`CorrectionConstants`, `AssetConstants`, `CountConstants`, `CutoverConstants`, `TreeConstants`,
`AccessConstants`, `PageConstants`, `EmployeeConstants`, `NoRowIsNobody`, `CatalogConstants`,
`DraftConstants`); and there are finitely many identifiers, categories and locations
(`FiniteOperations`, `FiniteCategories`, `FiniteLocations`), as in any database.

Only model-checked: `EveryRequestEnds`, in `adjustments` and in `location_tree`, which needs
fairness and ENABLED.

## 6. Plan

Models, in the order of their worth:

1. expiry inspections with the pages that record them: `inventory/services/expiry.py`
   has no operation identifier, so a page sent twice records two;
2. statement-level detail of `start` in `PhysicalCount`, which takes the locks of
   `LocationTree`, and the serialized delivery in `Procurement`.

Theorems, in the order of their worth:

1. `LocationTree`: which requests a cycle of waiting requests can consist of (a move
   waits for a count, an edit or another move; edits alone never do), the safe part of
   `EveryRequestEnds`;
2. of the two properties that the code violates and that counting relies on,
   `NoErasedCount` and `OpenScopesDisjoint`, how far they do hold: which steps alone break
   them;
3. the theorems of the models that are still to come.

## 7. Not modelled

- Expiry inspections: rows that are only appended, on which nothing else depends.
- The audit events of other services than those for employees: appended in the same
  way, in the transaction of the change, and read by a list only.
- Identification, reports, listings, searches, templates, static files, settings: they
  keep no state of the inventory.
- Authorisation: checked before a transaction starts, on rights that only
  `AccessManagement` changes.
- Storage of evidence files: written outside the transaction; the code accepts orphans.
- PostgreSQL itself: row locks, unique indexes, deferred constraints and the deadlock
  detector are modelled as the code relies on them.
