# UniOps: specification, model checking and proofs

UniOps is a set of FastAPI services (procurement, expenses, visits, finance,
budget, inventory, room booking ...) around one shared idea: a document is filled
in by a requester, walks a configurable list of approval steps, and has an effect
when the last step is done.  Every document type is approved by the same program,
`src/approval-api/app/crud/engine.py`; the services own the document and what
follows from its approval: a visitor is let in, a purchase order is signed, money
is paid.

This directory specifies that engine and five of the components around it, checks
them with TLC and proves their central invariants with TLAPS.  The rest is
inventoried below; the plan says what would follow.

## 1. Inventory

### The approval engine (approval-api, `app/crud/engine.py`)

*State.*  Per document: `status`, `approval_step_idx`, for purchase requests
`ob_mode_applied` (the over-budget mode the submission froze), its open tasks in
`user_tasks`, its `approval_events`.  Read, and changed by others: the chain in
`workflow_defs`, users and roles, department managers, `approval_dept_routing`
(GM or OPM, Director, Supervisor switch), the post for cross-department payments,
`approval_delegations`, Budget Config's over-budget mode.

*Operations.*  `execute_action`: submit, approve, return, reject, recall, cancel,
each under the document's row lock.  `resync_inflight_approvals`: after a
configuration change, move each in-flight document to its true step and reissue
drifted tasks; takes no lock.

*Interactions.*  epms-api, expense-api and vms-api forward user actions to it over
HTTP and edit the document in between; `PUT /routing`, role changes in
identity-api and Budget Config change what it reads; `_POST_APPROVE` opens the
next service's task.

*Hard.*  The list a document walks is computed on each call from stored and live
state: over-budget steps are put in front of it, steps are skipped for four
different reasons, and an index, an event log and a task's role each say where
the document is.  Returns resume in the middle.  A re-sync runs beside decisions.

*Correct when* no step is jumped, skips are warranted, tasks are those of the
pending step, the list in flight is frozen, the effect runs exactly once, decided
documents stay decided, and a re-sync finds what drifted.

### PO sign-off (epms-api, `po_signoff.py`)

*State.*  A table of signatures (`step_idx` to signer, name, image), the engine's
columns on the purchase order, the signature image in a user's profile.
*Operations.*  submit, sign, return; each reads the order, calls the engine over
HTTP, then writes its own rows.  NC's synchronisation may withdraw the order.
*Hard.*  The step to sign is read before the engine moves, the signature is written
after it moved; the engine commits before it answers and an answer may be lost; a
return resumes in the middle while the signatures start afresh.
*Correct when* a box still to be signed is blank, nobody's signature stands without
an approval of theirs, and an approved order has every box signed.

### Visits (vms-api)

*State.*  One row with two statuses: the visit's own, written by vms-api, and
`approval_status`, written by the engine and by vms-api; inbox tasks; the zones with
their managers; an audit row that remembers what an automatic no-show closed.
*Operations.*  create, submit, edit, reschedule, cancel, act, print a badge, check
out; the scheduler's no-show tick and its undoing.
*Hard.*  vms-api commits, then calls; a call may be refused, lost, or executed
after the caller gave up; rows are read without a lock and committed column by
column; the scheduler and the engine write the same row.
*Correct when* the two statuses agree, nobody is let in uncleared, a waiting visit is
in somebody's inbox, and no visit waits for ever.

### Payment execution (finance-api)

*State.*  Payment applications (PA) and claims, payment records, vendor credits,
batches and their lines, posting events.  *Operations.*  execute one document, whole
or by invoice and net of credits; create, execute and cancel a batch, a savepoint per
line; void a credit; and, from epms-api and expense-api, Data Maintenance edits of the
amount, the invoices and the status of documents and of the totals of invoices.
*Hard.*  Concurrent executions under row locks taken line by line; a document in two
drafts; part payments; a line failing in the middle; deadlocks; amounts edited between
the draft and the payment, or behind a payment; edits that read without a lock.
*Correct when* no invoice is paid twice, no document above its amount unless an operator
or an edit behind the payment made it so, credits are conserved, each payment reaches the
ledger, the batch tells what it paid, and each execution ends.

### Room booking (booking-api)

*State.*  One row per occurrence with its room, time, `ical_sequence` and label; the
log of notices; and, outside, the attendees' calendars.  *Operations.*  create, edit
and cancel a booking or a series, retry a failed notice (scheduler), send it again by
hand.  *Hard.*  The look-up of conflicts before the insert; mails that fail, arrive
although reported failed, or are retried after later changes; SEQUENCE, RRULE and
EXDATE computed from rows that changed; a crash between a mail and its commit.
*Correct when* no room is double booked, the calendar shows what is booked once all is
sent, and no failure is silent.

### Receiving and matching (epms-api)

*State.*  An order with the quantity received on its line and a receipt status; its
goods receipts; the supplier's invoices, each matched to the order or not and linked to
receipts; payment applications; and the prompts in people's inboxes: `create_pa` for
the payment, `confirm_receipt` for missing goods.  *Operations.*  place the order,
record, acknowledge, collect, confirm, close and delete a receipt, upload, match,
review, accept, unmatch and delete an invoice, raise, withdraw and delete a payment
application, open the inbox, the nightly sweep of services.  *Hard.*  Six files write
the prompts, each with its own rule for when one is due; goods and invoice come in any
order; quantities are added by actions and recounted by deletions.  *Correct when*
whoever should pay is prompted, once; nobody is asked for what is there; a quantity
above the order has its reason; and the order tells what was received.

### The other components

| component | state and operations | what is hard | what makes it correct |
|---|---|---|---|
| routing configuration (approval-api `routing.py`, `workflow.py`) | department routing, role holders, chains; save, then best-effort re-sync | saves commit before the re-sync | documents in flight follow or are left intact |
| delegations (approval-api) | delegator, delegate, window, revoked; create, revoke | windows overlap, change mid-approval | at most one delegate per person and day |
| purchase requests (epms-api `pr.py`) | lines, `is_over_budget`; edit while draft or returned | an edit moves the document over the budget line between two runs | the engine's list follows (checked here) |
| expense claims (expense-api) | claims, lines, advances; submit, approve, settle | claimant who is an approver; advances settled once | approval and payment are checked here; an advance is settled at most once |
| budget ledger (budget-api) | append-only events; post, balance | check-then-insert under retry | one row per event key; balance is the sum |
| authentication (identity-api) | OTP challenges, refresh tokens | Redis keys with expiry | not in the plan |
| task inbox (epms-api `task.py`) | `user_tasks`; list, sweep, remind | sweep against concurrent creation | the prompts of an order are checked with its receipts; only dead tasks are swept |
| master data, NC sync, inventory, MRP | imported tables, planning runs | external data, bulk arithmetic | not in the plan |
| data maintenance (epms-api) | administrators rewrite documents | beside the services that own them | edits of a PA are checked beside its payment |
| files, frontends, deployment | bytes, screens, scripts | | not in the plan |

`PROJECT.json` lists them with their sources and status, and under `hazards` each
place where this code is hard to test, at its line, with the property that
watches it or the reason none does.

## 2. Modules

| module | what it is |
|---|---|
| `WorkflowRules` | the engine's reading helpers: which status accepts which action, who holds a step, who may act, when a step is skipped, which tasks a step gets, which step a task names |
| `ApprovalEngine` | one document: state, one action per engine operation, the form's edits, configuration changes, the re-sync in one step; the properties |
| `ApprovalRace` | the same with the re-sync split into its read and its write, decisions in between |
| `ApprovalLifecycle` | the abstract promise: a run walks a fixed list from its first unsettled step and grants at its end only |
| `PoSignoff` | extends `ApprovalEngine`: the sign-off requests composed with the engine |
| `VisitLifecycle` | one visit: the sessions of vms-api, the scheduler, the engine and the calls between them |
| `PaymentExecution` | the transactions of finance-api over documents, credits and batches, beside Data Maintenance |
| `PaymentLedger` | the abstract promise of paying: a list of payments per document and what is left of each credit, changed by one settlement at a time |
| `RoomBooking` | one meeting or series: requests, the tick, the mails and the calendar |
| `GoodsReceipts` | one order with its receipts, invoices, payment applications and prompts |
| `MCApproval`, `MCDocuments`, `MCRace`, `MCSignoff`, `MCVisit`, `MCPayment`, `MCBooking`, `MCReceipts` | the instances TLC checks; `MCDocuments` instantiates the engine once per kind of document |
| `ApprovalEngine_proofs`, `ApprovalRefinement_proofs`, `PoSignoff_proofs`, `VisitLifecycle_proofs`, `PaymentExecution_proofs`, `RoomBooking_proofs`, `GoodsReceipts_proofs` | the theorems about each component, with their lemmas; the first also covers `WorkflowRules` and `ApprovalRace` |
| `SumLemmas` | induction over naturals and finite sets with sets in place of predicates, and what the library's folds and sums then satisfy |

### The approval engine: state

`status`, `step`, `applied` are the columns `status`, `approval_step_idx` and
`ob_mode_applied` ("unset" is NULL).  `form` is what the requester's edits decide:
`is_over_budget`, whether a payment covers several departments, the visit's snapshot
of zone managers.  `tasks` are the document's open `user_tasks`; a task without a
user is broadcast to the holders of its role.  `lastReturn` is the `step_idx` of the
latest `return` event, which is all `resume_step` reads.  `trail` is the part of
`approval_events` that stands: the steps of the current run, each as the node it was
and with how it was cleared (signed, held by the same approver, conditional, only
the claimant left).  A new run keeps the front it resumes from and drops the rest;
this is history the code never reads, kept to state properties.  `released` counts
runs of `_POST_APPROVE`.

`org`, `standIn` and `chain` are the configuration.  The `Orgs` constant lists the
organisations administrators move between; an action moves to another one that
differs only in the fields it saves.  The chain stays as it is while a document
walks it (see "Not modelled").

### The approval engine: actions

`Submit`, `Approve`, `Return`, `Reject`, `Recall` and `Cancel` are the branches of
`execute_action` with everything they call: the skip walks of `first_actionable_step`
and of the approve loop, the refusal of a list with nobody but the claimant left,
the routability check, task closing and creation, the events, the post-approval
effect.  They are single steps because the action holds `SELECT ... FOR UPDATE` on
the document until it commits.  The skip walks are not written as recursion: the
step `n` at which a walk stops is characterised by "all before it are skipped, it is
not", which has one solution.

`Resync` is `_resync_document`: `ResyncFinished` closes tasks of a finished document,
`ResyncSkip` is its case A, `ResyncRealign` its cases B and C.  All three work on
`seen`, what was read.  `ApprovalEngine` passes them the present state; `ApprovalRace`
reads in one step and writes in another.  `Written` is the session's unit of work: a
column is written back only when the new value differs from the one that was loaded.

A configuration save is its own action, because it has committed before the re-sync
that follows it, and that re-sync is best effort: between the two, and for ever when
it fails, the document is used under the new configuration with the old tasks.

### The approval engine: the abstract lifecycle

`ApprovalEngine` instantiates `ApprovalLifecycle` with `phase`, `list` and `done`
computed from its state: the steps below `approval_step_idx` are settled while the
document is in flight, those below the returning step while it is back with its
requester, all of them once it is granted.  `ImplementsLifecycle` says that each
engine step is a lifecycle step or leaves these three alone.  It is a strong claim
about resumption: a resubmission may count an earlier approval only if the step it
counts is the same node at the same place of the list now walked.  The composition
with the sign-off's requests implements it too; with a re-sync in two steps
(`ApprovalRace`) the engine does not, because a stale write may leave tasks that name an
earlier step and the next re-sync moves the index back to it.

### PO sign-off

`boxes` is the signature table, `approvals` the engine's approve events, `pictured`
who has a signature image in the profile.  A request is a record in `jobs`: what it
read (`SubmitRead`, `SignRead`), that it called the engine (`SubmitAsk`, `SignAsk` are
the engine's own `Submit` and `Approve`), what it still has to write (`SubmitRecord`,
`SignRecord`).  `Refused` is any refusal or an unreachable engine; `LoseAnswer` is the
timeout of the call after the engine committed, or a restart of epms-api.  Recall,
reject and cancel exist in the engine, but no page offers them for a sign-off, so
`SignNext` leaves them out, and so is the re-sync, whose batch picks only tasks of
types that start with "approve".

### Visits

`visit` is the committed row.  A session of vms-api loads it, decides, and holds in
`jobs` the columns it will write (`Changes`): SQLAlchemy updates those that differ
from what was loaded, over whatever others committed meanwhile.  The first operation
is always `get_visit`, which mirrors the engine's last word (`Synced`).  `Call` puts an
engine call on its way; `EngineSubmit`, `EngineCancel` and `EngineDecide` are the
engine's transactions as vms-api sees them, the chain abstracted to the step numbers
its skips may land on (the engine module has the detail).  `TimeOut` is the ten seconds of
httpx: the session goes on, the call may still be executed ("nobody" waits for it) or
lost (`DropCall`).  The scheduler is one session, `Tick`, as an advisory lock keeps it
single.  `late` says the planned day is over.

### Payments

`db` holds committed rows, `mine[t]` the rows transaction `t` has locked with their
values so far, `job[t]` the document it is at and what is left of its batch.
`LockDoc` is `SELECT ... FOR UPDATE`; `PayLine` is the rest of `execute()` after the
lock: the refusals, the scope of the payment, the credits, the record, the writeback
to invoices, the event.  `RefuseLine` rolls a batch line back to its savepoint (the
locks taken since are released with it) or ends a payment of its own.  `Scope` is
`pa_payment_scope` in full; `Take` is the first-in-first-out netting.  Credits that
the operator chose are waited for; those taken oldest first skip locked rows.
`Crash` and `DeadlockVictim` lose the transaction.

The amount of a payment is `AmountPaid`: what is due by the scope, unless the request
names another (`amount_paid`, here `asked`).  For a payment by invoice one that differs
is refused (`AsExpected`); for a whole PA and for a claim it is paid, whatever it is, and
closes the document (`PaidRow`).  Batches name none; their lines carry the drafted amount
as `expected_amount`, which is compared for payments by invoice only.

Data Maintenance edits beside all this, each edit by `MaxEdits`.  `EditRead`, `EditWrite`
and `EditReplay` are the three moments of an edit of `invoice_ids`; `Reprice` is an edit
of lines, tax rate or charges of a PA, from which `payment_amount` is computed anew, or of
the total of a claim; `EditTotal` one of an invoice's total; `Reapprove` and `CloseByHand`
edits of the status.  `due` and `total` are columns of rows and not constants: an amount
may change at any status, before and after payments.  Two histories, which the code does
not keep, are for stating properties: `altered` holds the documents edited after a first
payment or closed by hand, `stale[b]` what was edited since batch `b` was drafted.

### Payments: the abstract ledger

`PaymentLedger` knows nothing of transactions, locks, savepoints, drafts or failures.  A
settlement happens at once and is one payment or all the payments of one batch: it adds
one payment at most to each document, takes exactly what these payments take off the
credits, and never a credit that was voided.  No invoice is paid twice, nothing follows a
payment of the whole.  The whole is paid at what is due at that moment or at what the
operator gave, and parts stay within what is due, unless the document was altered behind
a payment.  `PaymentExecution` instantiates it with the committed rows: the payments and
amounts in `db`, what is left of the credits, which are void, and `altered`.
`ImplementsLedger` says that a commit of whatever a transaction did is one settlement,
that `VoidCredit` and the edits of documents are the other two actions (an edit of the
amount of a paid document alters it), and that nothing else, crashes and refused lines included, shows in the ledger.

### Room booking

`rows` are the bookings by day; a slot is a room with a time of day.  A request is a
job: what it read and the columns it will write; `Commit` writes them, mails and
commits, `Refused` is the exclusion constraint, `Crash` a process that mailed and did
not commit.  `TickRead` and `TickSend` are one retry of one notice: the row is the one
the tick loaded, the EXDATEs are read afresh.  `Invitation` is `build_event_ics` as far
as calendars tell it apart, `Received` the calendar's side of iTIP (external).  An
outcome may be delivered and yet reported as failed.

### Receiving and matching

A handler is one step: it runs in one transaction, and this module does not interleave
two of them (see "Not modelled").  `po` is the order's row with the received quantity of
its one line; `receipts`, `invoices` and `payments` are numbered as they were recorded,
and a deleted row stays as "gone" because links to it may remain.  `prompts` counts the
open and the completed `create_pa` tasks, `nudged` is the open `confirm_receipt` task,
`gate` the switch "Collection Confirmation Required".  The questions handlers share are
operators over rows (`Evidence`, `ThreeWay`, `Ready`, `Billed`), because a handler asks
them after it has written: `GoodsHere` is `_on_three_way_reached`, `InvoiceHere`
`_on_invoice_matched`, `Withdraw` `_withdraw_orphaned_po_tasks`, `Uncovered`
`reopen_create_pa_tasks_if_unpaid`; `OpenInbox` is what `GET /tasks` does before it
answers.  Variances and tolerances are a choice of the status `Match` ends in, and the
line or header match a choice of the receipts it finds or is given.

## 3. Runs

| run | instance | what it shows |
|---|---|---|
| `pr_core` | purchase requests, chain dept_manager, director, gm_or_opm, four over-budget modes, Director assigned to one of two people or to nobody, GM or OPM, a manager who delegates | types; no step jumped; tasks at the pending step; frozen list; skips warranted; a re-sync sees what drifted and leaves it in line; the lifecycle is implemented |
| `documents` | one document of four kinds, picked at the start: an expense claim whose claimant may come to hold posts; a payment of one department or several; a visit to zones with no, one or two managers; a purchase order raced by a re-sync | nothing is granted unsigned; the effect runs exactly once; a cross-department payment is approved at GM/OPM level; each zone manager is asked; a decided document stays decided |
| `visit_desk` | two zones, one whose only manager may leave and one free of approval; a chain of two steps; one user request, the tick and abandoned calls overlap; one reschedule | the two statuses agree; only cleared visitors are let in; a waiting visit is in an inbox; every pending visit ends |
| `payment` | a PA of two invoices, one of a single invoice, one credit, one batch, two transactions, one Data Maintenance edit of any kind, a request that names its amount | no invoice paid twice; nothing paid above its amount but by the operator's word or after an edit; an event per payment; credits conserved; the batch tells its payments; unpaid invoices stay open; the ledger is implemented |
| `payment_deadlock` | two batches of both PAs, single payments, a claim, the operator's choice of the credit or not | each execution ends, also through deadlocks |
| `signoff` | the paper form's two signatures, three people, two requests, an answer lost, a profile edit, posts and delegates that change | boxes to be signed are blank; each signature was granted; the lifecycle is implemented |
| `room_booking` | a meeting or a series of two dates, two slots, one retry, three notices, one upset (crash or Resend), one foreign booking | no double booking; nothing missing in the calendar; cancelled occurrences gone; nothing given up in silence; failed labels true |
| `receiving` | an order of two pieces, goods or service, with a requisition, from NC or neither; up to three receipts and invoices of one piece each, one payment application, the gate of physical orders switched on and off | types; a nudge is true; an order ready for payment is prompted; over-receipts are explained; the status tells the quantity |

Violations: each states what a comment, docstring or requirement promises and shows
the code doing otherwise.  `PROJECT.json` quotes the lines.

| run | what happens |
|---|---|
| `claim_unsigned` | a manager's own claim: first step skipped for the claimant at submission, Director unassigned, re-sync grants it with no signature |
| `resync_double_release` | the final approval commits between a re-sync's read and write; the re-sync grants again and the effect runs twice |
| `signoff_blank` | signed, returned by the second signer, resubmitted: the signatures are cleared, the engine resumes at the second step, the order is approved with a blank box |
| `prompt_twice` | an order is prompted and paid, a second invoice prompts it again, and the payment application is deleted: both prompts are open, and the next match of the order fails |

### Other divergences seen, without a run of their own

*Engine.*  An agreement whose whole list is skipped at submission is "approved" and
never "active" (`engine.py:1828-1832` against the docstring at `1261-1265`).  The
same-approver skip resolves gm_or_opm by department where authorization resolves it by
the cross-department setting (`1884-1887`, `1839-1844`, comment `1881-1883`).  A
department moved between GM and OPM keeps the old post's broadcast task through a
re-sync (`2301-2316`, docstring `routing.py:183-189`), as `BeyondResync` says of the
drifted documents that no re-sync sees.  A claimant who shares a post may approve their own claim
(`1839`, comment `1474-1475`).  With a *plain* gm step in front of a gm_or_opm step a
re-sync reads the GM's task as the later step's and jumps the first (why
`UnambiguousChains` below is assumed).  In the race a re-sync may reissue tasks for a
document that was sent back in between.  The served engine rules say a delegate's or
administrator's approval does not cascade, and that drafts are cancelled by their
owner; the code cascades when that person holds the next step, and accepts a
cancellation from whoever may act on step 0 (`engine_rules.py:93`, `148-153`).
A delegate may act for any document type (`655-664`), sign-offs included, where
`137-142`, `crud/po_signoff.py:40-42` and `delegation.yaml` exclude them.

*Sign-off.*  Other ways to a blank box: the same-approver skip; an answer lost after
the engine committed (`httpx.ReadTimeout` is not caught); two people signing at once,
as `expected_step` is not passed.  A withdrawal racing a submission leaves a withdrawn
order's sign-off in flight (against `writer.py:246-250`).

*Visits.*  `get_visit` mails the approval's result before the guards, and a refusal
then rolls back that it did, so it mails again.  A lost answer to a resubmission leaves
the Revise task open until the next approval.  The tick may overwrite a badge printed
since it read (`scheduled_jobs.py:100`).  A visit confirmed for one zone can end in
another through an edit that raced its submission, contrary to `visits.py:441-442`.
With two user requests at once `StatusesAgree` fails after eleven steps and
`AwaitedIsAsked` after thirteen, as each request commits columns it decided on a row it
read without a lock; the run has one request, beside the tick and the abandoned calls.

*Payments.*  `amount_paid` of a whole PA or of a claim is compared with nothing and
closes the document all the same (`payment_execute.py:582`, `712`); hence `Overridden` in
`NeverOverpaid`.  The posting event of a claim is for the claim's own total and not for
the amount paid (`724-735`).  Data Maintenance recomputes `payment_amount` at any status
(`admin/service.py:483-505`), while `execute()` compares the drafted amount for payments
by invoice only (`payment_execute.py:560-567`): a batch pays a whole PA at the edited
amount under a line that shows the old one.  `BatchTellsPayments` lets those payments off
and no others.  A document whose amount, invoices or invoice totals are edited after a
payment may come to be paid above its amount or stay closed at another one, and one
closed by hand has no payment: `altered` exempts them from `NeverOverpaid` and
`UnpaidInvoicesOpen`, while `EventPerPayment`, `NoInvoicePaidTwice` and `CreditsConserved`
hold for them too.  An edit of an unpaid PA's invoices reads its status without a lock
(`admin/service.py:443-480`); if a payment commits before the edit writes, nothing
replays the writeback and the newly linked invoice stays open, contrary to the comment
at `476-479`.

*Booking.*  An invitation that failed is retried after the booking was cancelled
(`scheduler.py:61-69`, `107`), with the same SEQUENCE: the cancelled meeting is back in
the calendar, contrary to BOOKING.md 7.10.  With two requests at once `NothingMissing` and `CancelledOccurrenceGone`
fail: an edit of the title that read before another's move mails the old time under
the same SEQUENCE.  A mail leaves before the commit, so a crash leaves a phantom
invitation, contrary to `bookings.py:563`.  Cancellations of single meetings and of
series do not raise SEQUENCE, contrary to BK-CAL-04.  A series updated from a later
occurrence keeps its original COUNT and gains dates at its end.  A Resend that fails
after the last retry is given up without an alert, and one racing the tick leaves a
wrong label: the two label properties exempt meetings sent again by hand.

*Receiving.*  A receipt that is cancelled after an invoice was linked to it, or a dead
one picked by hand, stays in `gr_id`, so a payment passes the receipt gate with nothing
received (`po_facts.py:35-37` against the comment of `receipt_evidence.py`).  The inbox
raises `create_pa` before goods are collected although the gate is on
(`task.py:470-566`, EPMS.md PA-013).  Confirming a collected receipt adds its quantity
a second time (`gr.py:438-457`), and so do two unlocked requests that collect it at
once.  `_on_three_way_reached` and the inbox count cancelled payment applications, so
after a cancelled prepayment the arrival of goods prompts nobody (`gr.py:954-957`,
against `pa_links.py:25-28`).  Data Maintenance unlinks a receipt only from the invoices
it is the first of, and its recount wipes quantities migrated from PMS.  A receipt
cancelled after its invoice was matched leaves neither prompt nor nudge.

### Bounds, and why they suffice

*Engine.*  One document: the engine reads and writes nothing of another one.  Three
or four steps per chain, plus up to two over-budget steps: enough for a return into
the middle, a skipped front, middle and end, and for indexes that shift by one and by
two.  Six people: a requester, one for each kind of holder, one without a post who is
an administrator by token; two holders of one post where sharing matters.
Organisations differ in the fields the properties depend on; each save may move
between any two that differ only in what it saves.  There is no step bound and no
counter bound: `step` is bounded by the list, `released` grows only when a document is
granted.  No symmetry: people are told apart by their posts.

*Sign-off.*  Two requests, so that one may overtake the other; `MaxLost` and
`MaxEdits` are 1.  *Visits.*  `MaxMoves` is 1: the reschedule that undoes a no-show;
two steps, so that a task may change while the visit waits; zone tables with and
without managers, active or gone.  *Payments.*  Two transactions: what a third could
do, the committed rows show the two; a PA with two invoices is the smallest that is
paid in part; `MaxEdits` is 1, an edit of any kind at any moment; amounts 1, 2 and 3 tell
a remainder, a whole and a share apart, and the credit of 2 covers some of each.
`Prices` is 2: it lowers the PA of two invoices or raises the smaller of its invoices, and
either way they no longer add up to it; a request may name 4, more than any document is
for.  Sessions are interchangeable, hence the symmetry.  A claim takes part in
`payment_deadlock` only, where nothing is edited; the theorems cover claims throughout.
*Booking.*  Two dates, so that one is cancelled and the other kept; `Retries` is 1
where the code has 5 (the counter is only compared with its limit); `MaxNotices` 3 is
enough for create, change and cancel; `MaxUpsets` and `MaxTaken` are 1.  Slots are
interchangeable, hence the symmetry.
*Receiving.*  `MaxRecords` is 3, shared by receipts and invoices: two receipts with an
invoice, two invoices with a receipt, or three receipts, of which the last is past the
order; the supplier's invoice may be there from the start, as imports are.  Receipts
bring one piece of an order of two, so that part, whole and excess are told apart;
`MaxPayments` is 1, as the prompts depend on there being one.  Task counts above two
count as two: handlers only tell none, one and several apart.  `CHECK_DEADLOCK FALSE` where a bound or a
finished day ends every behaviour: in the payment, visit and booking runs.

### Fairness

The engine's and the sign-off's steps wait for people, and nothing in the code retries
them: no fairness is assumed there and no liveness claimed.  What can be said is said
as safety: `ResyncSeesDrift` states that a re-sync has something to do on each document
out of line but those of `BeyondResync`, `ResyncAligns` that when it acts it brings the
document in line.

`visit_desk`: days pass, and the scheduler ticks and finishes its tick (weak fairness
of `DayEnds`, `MarkNoShow` and of the tick's own commit), as `scheduler.py` loops for
as long as the service runs.  Nobody is bound to decide, print, read, retry, or finish a
request; `PendingEnds` holds all the same.

`payment_deadlock`: a transaction runs on, and one of a cycle of waiters is aborted
(weak fairness of the steps that, once possible, stay possible); a row that becomes
free again and again is got in the end, since PostgreSQL queues its waiters (strong
fairness of `LockDoc` and of `PayLine`, which waits for credits).  `Crash` and new
executions are bound by nothing.

## 4. Proofs

`tlapm` checks these for every value of the constants, under the named assumptions of
the modules.  Those of the engine are `RulesHold` and `EngineHolds` (constants have
their types; chains are not empty and hold no over-budget node; only a visit has a
zone, as only vms-api takes the snapshot).  The others say that amounts and quantities
are positive, that rows of different tables differ and PAs and invoices are finitely
many, that bounds are numbers, and that there is a zone.

| module | theorem | statement | needs, beyond the module's assumptions |
|---|---|---|---|
| engine | `TypeCorrect` | `Spec => []TypeOK` | |
| | `NoStepJumped` | `Spec => []EveryStepCleared` | `UnambiguousChains` |
| | `TasksFollowTheStep` | `Spec => []TaskAtPendingStep` | `UnambiguousChains` |
| | `ListStaysFrozen` | `Spec => ListFrozenInFlight` | `UnambiguousChains` |
| | `EffectRunsOnce` | `Spec => []ReleasedOnce` | `EndsUnskipped` |
| | `SkipsHaveReasons` | `Spec => SkipsWarranted` | |
| | `NothingUnsigned` | `Spec => []GrantedWasSigned` | `EndsUnskipped` |
| | `ApprovedAbove` | `Spec => []CrossDeptApprovedAbove` | `UnambiguousChains`, `GmOrOpmListed` |
| | `WholeZoneAsked` | `Spec => []EveryZoneManagerAsked` | `UnambiguousChains`, a visit |
| | `ResyncRepairs` | `Spec => ResyncAligns` | `UnambiguousChains` |
| | `ResyncFindsDrift` | `Spec => []ResyncSeesDrift` | `UnambiguousChains` |
| | `DecidedForGood` | `Spec => DecisionsStand` | |
| race | `RacedDecisionsStand` | `RaceSpec => DecisionsStand` | `NothingSkipped` |
| | `RacedEffectOnce` | `RaceSpec => []ReleasedOnce` | `NothingSkipped` |
| refinement | `EngineImplementsLifecycle` | `Spec => ImplementsLifecycle` | `UnambiguousChains` |
| sign-off | `SignaturesTyped` | `SignSpec => []SignTypeOK` | |
| | `BlankUntilSigned` | `SignSpec => []PendingBoxesBlank` | |
| | `SignaturesGranted` | `SignSpec => []SignaturesWereGranted` | |
| | `SignoffImplementsLifecycle` | `SignSpec => ImplementsLifecycle` | |
| visits | `VisitTypes` | `Spec => []TypeOK` | |
| | `OnlyClearedLetIn` | `Spec => []LetInOnlyCleared` | |
| | `BothStatusesAgree` | `Spec => []StatusesAgree` | `OneRequest` |
| | `AwaitedVisitsAsked` | `Spec => []AwaitedIsAsked` | `OneRequest` |
| payments | `PaymentTypes` | `Spec => []TypeOK` | |
| | `NeverPaidTwice` | `Spec => []NoInvoicePaidTwice` | |
| | `PaidWithinDue` | `Spec => []NeverOverpaid` | |
| | `EventsMatchPayments` | `Spec => []EventPerPayment` | |
| | `UnpaidStayOpen` | `Spec => []UnpaidInvoicesOpen` | |
| | `CreditsAreConserved` | `Spec => []CreditsConserved` | |
| | `PaidLinesTell` | `Spec => []BatchTellsPayments` | |
| | `PaymentsImplementLedger` | `Spec => ImplementsLedger` | |
| booking | `BookingTypes` | `Spec => []BookingTypeOK` | |
| | `NeverDoubleBooked` | `Spec => []NoDoubleBooking` | |
| | `GivenUpNeverSilent` | `Spec => []GivenUpIsAlerted` | |
| | `FailuresAreBehindLabels` | `Spec => []FailedLabelsTrue` | |
| | `NothingGoesMissing` | `Spec => []NothingMissing` | `OneRequest` |
| | `CancelledStaysGone` | `Spec => []CancelledOccurrenceGone` | `OneRequest` |
| receiving | `ReceiptTypes` | `Spec => []ReceiptTypeOK` | |
| | `NudgesAreTrue` | `Spec => []NudgeTruthful` | |
| | `StatusFollows` | `Spec => []StatusTellsReceived` | |
| | `OverReceiptsExplained` | `Spec => []OverReceiptExplained` | |
| | `ReadyOrdersPrompted` | `Spec => []ReadyIsPrompted` | |

The conditions in the last column are needed, not convenient; each names what the code
relies on without checking it.

- `UnambiguousChains`: a chain with a plain gm or opm step has no gm_or_opm step and is
  not a purchase request's.  The re-sync reads any gm or opm task as a gm_or_opm step's,
  so without this `NoStepJumped` is false ("Other divergences").
- `EndsUnskipped`: no chain ends at a step that is skipped for being unassigned (or, for
  payments, at the department's manager).  Without it a submission may skip the whole
  list, and the run `claim_unsigned` grants a claim unsigned.
- `GmOrOpmListed`: a payment's chain has a gm_or_opm, gm or opm step.
- `NothingSkipped`: not a purchase request, payment or claim, and no Director, Supervisor
  or zone step in the chain, as orders, sign-offs and agreements are by default.  Without
  it the run `resync_double_release` runs the effect twice.
- `OneRequest`: at most one user request at a time, beside the scheduler, the engine and
  abandoned calls.  Two overlapping ones break these four properties ("Other
  divergences"); all other theorems hold for any number of them.

The default chains of the code satisfy the first three (`engine.py:386-460`).

### The engine

`EveryStepCleared` is not inductive: a resubmission starts at the
returning step, so one must know that the steps below it stand although the document
is not in flight (`ReturnCleared`), and in which list (`ModeFrozen`: the mode is
recorded from the first submission on, so that list is `WorkflowUnder(applied)`).  A
re-sync moves the index to the step its tasks name, so one must know that they name
the index (`TaskAtPendingStep`, and the lemma `TasksNameTheIndex`, the only place
`UnambiguousChains` is used).  The inductive invariant `StepsInv` is the conjunction
of these with `TypeOK`; TLC checked it on the passing instances first.

`Submit` is the step with substance (`SubmitKeeps`): if it resumes, the over-budget
front is the one the returned run walked (`SubmissionFront`), so the nodes below the
returning step are the same and their entries still stand; otherwise it starts at 0
and there is nothing to show.  `Approve` and `Resync` extend the trail over the steps
they pass (`ApproveKeeps`, `ResyncKeeps`), `Return` turns the cleared front of a
document in flight into that of a returned one (`ReturnKeeps`), and every other
action leaves the run alone (`DocStands`) or puts the document aside (`PutAside`).

*The refinement* needs nothing beyond `StepsInv`.  `Image` computes the lifecycle's
variables from each status; `Begins`, `Settles` and `Stutters` show the three kinds
of step with content, the first again from `SubmissionFront`.

*The effect and the signature.*  `ReleasedOnce` and `GrantedWasSigned` are inductive by
themselves except for a submission or a re-sync that walks past the end of the list.
Both may only when the last step is skipped for a vacancy, which `EndsUnskipped`
excludes (`LastStepWaits`, `SubmitWaits`, `SignedStep`); every other way to the end is an
approval, which signs.

*Skips.*  `NewEvents` says what a step of the engine may write: a signature of the
pending step, or events of steps it walked past, and `WalkedSays` what such an event
tells.  A step of the list that is an over-budget one is one of the two injected
(`OverBudgetSteps`), so a mode that waives it is looser than the step (`SkipReasons`).
The same two lemmas show that a payment's GM/OPM step is passed by a signature or a
signer only (`GmOrOpmStep`); with `EveryStepCleared`, a granted payment has passed it.

*Re-syncs.*  As the tasks name the index, a re-sync in one step never moves it without
a reason: `ResyncRealign` reissues the tasks whenever it acts at all, hence
`ResyncRepairs`, and the zone's managers keep their tasks (`AskedStep`).

`ResyncSeesDrift` is not inductive: a task tells a re-sync its role and person, not when
it was created, and a step with the wrong persons looks right if some of its tasks came
from one routing and some from another.  `OneRouting` says that they never do: the open
tasks are those the pending step had under *one* of the organisations, whichever was in
force when it was last routed (`RoutedLanded`).  Then, if they are not those of today's
organisation, either the step is one to skip and the walk from it ends at a step that can
be routed, or the roles or persons differ and `Drifted` sees it (`ResyncFindsDrift`),
except in the four cases of `BeyondResync`.  In the race
what was read is stale; but `seen.wf` is still the chain, so the step named is one of it,
and where nothing is skipped the late write changes only the index and the tasks
(`LateWrite`).

### Sign-off

`PendingBoxesBlank` is not inductive: a request that has read its
step, or that waits to record a signature, carries a number into a later round, and a
returned order resumes in the middle.  `BoxInv` says that whatever is signed, or about
to be, is below the step the order waits at, or below the returning step while it is
back with its officer; a submission goes on at or after that one (`SubmitAskKeeps`), an
approval leaves the step it signs behind (`SignAskKeeps`).  `GrantInv` adds the
approvals: each signature, and each one a request is about to record, belongs to an
accepted approval of the same person at that step or a later one; and boxes are steps
of the list (`BoxesListed`).

*The lifecycle.*  `SignoffImplementsLifecycle` reuses the engine's lemmas of each step.
It needs no condition on the chain where the engine alone does, because no re-sync moves
a sign-off's index: what is cleared, and that a returned order resumes where it stopped,
is an invariant without reading roles back from tasks.  A withdrawal by NC is shown to
leave a granted sign-off granted.

### Visits

A session commits columns it decided long ago over the row of the moment, so even types
need to know what each session may still write: `TypeInv` types every job by its
operation and its place in it, and ties each call that is awaited to a waiting session
(`CallsAwaited`).  `LetInOnlyCleared` follows from `HeldUntilCleared`: until the engine
approved the visit or exempted it, neither the row, nor the audit row a no-show would be
undone from, nor the columns any session holds could let anybody in; this holds for any
number of requests, because a session decides to print only on a row that says so, and
rows never did.

For `StatusesAgree` and `AwaitedIsAsked` the columns matter together: `AgreementInv` says
of each session that whatever it leaves of the row's two statuses when it commits over
them agrees (`CommitFits`), with a case for the undoing of a no-show, which takes both from the
audit row (`UndoFits`), and one for the tick, whose row may have moved on (`NoShowFits`).
With a second request the row another has read changes twice, and it is false.

### Payments

`PaidInv` says of each row, committed, held by a transaction or kept at a
savepoint, what its payments may be: no invoice in two of them, a payment of the whole
the only one, an event for each payment of an amount, and, unless the document was altered
behind a payment (`Past` carries that and the totals of the invoices), `Settled`: paid whole
at what is due unless the operator gave the amount, or in parts that come to the totals of
the invoices they pay and, once closed, to what is due.  The step with substance is
`PaidRowGood`: by `Scope`, invoices chosen are among those not in any payment, and a
payment of the whole is made only where none was.  Locks matter through `CommitKeeps`: a
transaction writes back rows nobody else holds (`LocksApart`); and `HeldAlike` says that
the amount and the invoices of a document it holds are still the committed ones, as edits
wait for the row.  An edit of an amount either meets a document without payments, of
which `Settled` says nothing yet, or alters it.

*Credits.*  `CreditsKept` states the balance of each credit (`left` plus what payments
took is its face) for the committed rows and for what a transaction's rows would leave of
them (`Kept`), also after a return to its savepoint.  A payment takes from credits and adds itself to the
document in one step, and the fold of what it takes equals the sum over its takes.

*Batches.*  `BatchesTell` states, line by line and for the rows a batch holds, at its
savepoint too, that a line is marked paid exactly when there is one payment of that batch
on its document, and that lines still to be done have none (`RowsTell`, `LinesTold`).  The
payment is of the amount the draft showed, or whole with `stale[b]` naming the document or
an invoice of the line: in a draft, a line for a whole document that nobody edited since is
for what it is due, and one for invoices is for their totals while nothing is paid
(`TrueDraft`); later a payment by invoice is compared with the line.

*The ledger.*  A settlement is the commit, but what it settles was decided line by line
before, partly on rows read long ago.  `CommitSettles` collects what is known of the rows
a transaction holds: they add one payment of this transaction's batch to each document
(`CommitAdds`), under the rules of the document as committed (`GrownMayPay`), and the
credits lose the sum of what those payments take (`CommitTakes`, by splitting the
conserved balances into what was committed and what is new).  The earlier invariants do
not say enough for this; `Held` adds that a credit a transaction has locked is not void
and cannot become so, that claims take nothing off credits, and that a payment outside a
batch holds rows of one document only, at its savepoint too.  That a batch settles only once follows from
`BatchesTell`: lines still to be done have no payment of the batch.

### Booking

`NoDoubleBooking` is inductive by itself: each commit goes through `Fits`, labels and
retries write neither slot nor status (`LabelsOnly`), and others book only where the
meeting is not (`StaysBeside`); it needs nothing of the check made earlier.

`LabelInv` says that each failed label has behind it a failed notice about that row that
waits for a retry or was given up, of the rows and of what requests have read.

`CalendarInv` is about generations: the SEQUENCE of the last edit and the slot it put the
meeting in.  `Current` says that the rows, the notices not yet sent, the retry under way,
the request and the calendar all belong to the generation or are older, and that what the
calendar lacks of it is promised by a notice still to be sent (`Promised`, `RemovalDue`
for the EXDATEs).  When all notices are sent, nothing is promised any more and the
calendar shows the rows.

### Receiving

`NudgeTruthful` needs to know that a line has a quantity only while some
receipt counts for it (`QuantityIsCounted`): the sweep for services looks at receipts
alone, and a deletion recounts the quantity from them.  `OverReceiptExplained` needs the
exact version, `LineInv`: the quantity is the sum over the receipts that count, so a
receipt is recorded past what was ordered only with a reason.  `ReadyIsPrompted` is
inductive with the types (`PromptInv`): each handler that may complete the pair of goods
and invoice asks for the prompt, and each that closes prompts leaves the order unready or
with a live payment.

### Sums and induction

The library's induction theorems take a predicate, which the provers cannot
instantiate.  `SumLemmas` states induction with a set in place of it (`NaturalsIn`,
`SubsetsIn`), from the well-foundedness of the naturals, and from that what the community
modules' folds compute: a fold exists and is unique (`FoldExists`, `FoldUnique`), a sum
splits off an element, changes by one term, and is the same over equal terms.  The
modules use those folds, so what TLC evaluates is what the lemmas are about.

### What proving changed in the models

Trying to prove `BatchTellsPayments` failed for a draft line of amount zero: the model
compared the amounts only of lines above zero where the code tests `expected is not
None` (`payment_execute.py`), so `Expected` is now a set with the amount or empty.
`RowAssumption` now says that the marker for "no document" is not one and that PAs are
finitely many; `PoSignoff` and `VisitLifecycle` state that their bounds are numbers and
that there is a zone.  `GrantedWasSigned` was about claims only; its proof asks nothing
of the type, so it is now stated of every document.

Once `MCDocuments` checked that general statement, a mutant of the re-sync that approves
a claim nobody signed went unnoticed.  TLC evaluates a definition without parameters
once, for the root module's `DocType`, also where an `INSTANCE` gives another one, so
claims were walked by the rules of the root's type.  The rules that depend on the type
(`IsClaim`, `Cancellable`, `GrantedStatus`, `RejectedStatus`, `HasPostEffect`) now take it
as a parameter, as the code looks them up by it, and every kind of document in the run
obeys its own.

That a re-sync can repair what drifted was first said by `ENABLED`, which no prover here
handles.  `SkipsTo` and `Realigns` are now the guards of the two re-sync actions, factored
out of them, and `ResyncSeesDrift` says that one of them holds.  `TrueStep` and `Drifted`
were a `CASE` with arms that overlap, of which TLC takes the first and logic does not say
which; they follow the code's `if`/`elif` now.  The cases of `BeyondResync` are those the
proof, or TLC before it, would not go through without, and each is a document the code
leaves as it is.

### Only model-checked

Both liveness properties, `PendingEnds` and `ExecutionsEnd`, are out of the prover's
reach; every other property of the passing runs is stated by a theorem above.  What the
engine does in the race when steps are
skipped is left to the run that shows it going wrong; that a re-sync in the race keeps
tasks and index together is false ("Other divergences") and claimed nowhere.

## 5. Not modelled

*Engine*: texts, amounts, event rows beyond `trail`, the read-only preflight and
endpoints; the `expected_step` guard against a stale tab; an administrator editing a
chain while documents walk it; the re-sync's batch loop with its savepoints, and the
time between its last flush and its commit (its write is one step here, so the race's
outcomes are some of those possible, not all); backups in the routing table; the
calendar arithmetic of delegations, abstracted to "the delegate live today".  Chains'
node ids are abstracted to role and whether the node is an over-budget one.

*Sign-off*: the thread and its notes, the PDF, the completion mail.

*Visits*: visitors, health declarations (whose first-time check and insert are two
steps, `health_decl.py:72-92`), reminders, escalation, PPE, check-out tasks, who may
manage a visit.  The engine's chain is abstracted to step numbers.

*Payments*: reversals, bank, period, self-payment and
permission checks, ledger lines, exchange rates; several vendors (credits belong to one);
prepayments and OA Direct PAs, which never split; a PA put by hand into a status other
than approved or processed; a claim's net and tax amounts edited apart from its total; the HTTP call that books a claim's
budget before the commit.  The operator's chosen credits are locked together, where the
code locks them in one statement that may hold some while it waits for others.

*Booking*: validation of times, opening hours and the advance window, room states,
permissions, suggestions, the day grid; back-off times; the log-only SMTP mode and
notices without recipients; administrators' own calendars; the transient label
"compensating".  The tick is modelled notice by notice, where the code commits once for
all of them; Resend is one step.

*Receiving*: two handlers at once on one order (the actions on a receipt, unmatching and
the review take no lock on it); several lines or orders per receipt, invoice or payment;
fee-only matches, agreements, edits of a matched invoice; damage reports; Mark Done;
settlements and balances after a prepayment; paid invoices and payments; closing or
cancelling the order; a status of the order or of a receipt and a received quantity edited
by hand in Data Maintenance (`admin/service.py:506-521`); quantities migrated without
receipts.  Receipts picked for an
invoice are taken oldest first.

*Not modelled at all*: the budget ledger (its hazards are listed: the guard that skips a
booked document compares a type no row has, and posting is check-then-insert),
authentication, master data and NC
synchronisation, inventory and MRP, files, frontends, deployment.

## 6. Plan

1. `BudgetLedger`: posting under retry with and without the unique constraint;
   implements an append-once log; proof of the refinement.
2. `GoodsReceipts` with overlapping handlers (what each reads before it writes), several
   orders per invoice, and settlements.
3. `WorkflowEdits`: the chain saved while documents are returned or in flight, and
   `expected_step` with an index that comes back.
4. What of `StatusesAgree` and of the calendar survives two overlapping requests, as
   invariants of their own with theorems.
5. An abstract promise of the calendar (it converges to the rows), with a refinement
   proof like those of the engine and of payments.
6. Reversals in `PaymentExecution`.
7. A finer `ApprovalRace` (read, flush, commit) and the task sweep; which properties of
   the engine it keeps under skips.
