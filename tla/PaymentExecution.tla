-------------------------- MODULE PaymentExecution --------------------------
(***************************************************************************)
(* How money leaves in finance-api.  execute() pays one approved document: *)
(* a payment application (PA), whole or invoice by invoice and net of      *)
(* vendor credits, or an expense claim.  It runs in a database transaction *)
(* of its own, or as one line of a batch, under a savepoint.               *)
(*                                                                         *)
(* Transactions run side by side.  `db` holds the committed rows; the rows *)
(* a transaction has locked are the domain of mine[t], with the values it  *)
(* will commit, so a transaction that is gone has simply lost its `mine`.  *)
(* Readers that take no lock see `db`.  Data Maintenance edits documents   *)
(* and invoices beside all this, from other services: whatever the status  *)
(* or the payments of a document, its amount, its invoices and its status. *)
(***************************************************************************)
EXTENDS Integers, Sequences, FiniteSets, Functions

CONSTANTS
  Pas, Claims,       \* payable documents
  Invoices,
  Credits,           \* the credits of the vendor of the PAs, oldest first
  Batches,
  Txs,               \* database sessions
  Amount,            \* what each invoice is for, as entered
  Due,               \* what each document is for, as submitted
  Prices,            \* the amounts an edit may give an invoice or a document
  Links,             \* the invoices each PA is submitted with
  Relinks,           \* the invoice lists an edit may give a PA
  Face,              \* what each credit is worth
  Oldest,            \* credit_ids None: use the credits first in, first out
  CreditChoices,     \* what credit_ids may be: Oldest or sets of credits
  Requests,          \* per document, what is asked to be paid: invoices or Whole
  AsDue,             \* amount_paid None: pay what is due
  Orders,            \* per document, the invoices, amount and credits of a request
  MaxEdits           \* bound: Data Maintenance edits

NoBatch == "no batch"
NoDoc == "no document"

ASSUME RowAssumption ==      \* rows of different tables, finitely many of some
  /\ IsFiniteSet(Pas) /\ IsFiniteSet(Invoices)
  /\ Pas \cap Claims = {}
  /\ (Pas \cup Claims) \cap (Batches \cup Range(Credits)) = {}
  /\ Batches \cap Range(Credits) = {}
  /\ NoBatch \notin Batches /\ NoDoc \notin Pas \cup Claims
ASSUME ChoiceAssumption ==
  \A choice \in CreditChoices : choice = Oldest \/ choice \subseteq Range(Credits)
ASSUME OrderAssumption ==
  /\ AsDue \notin Int
  /\ \A d \in Pas \cup Claims : Orders[d] \subseteq
       [request : SUBSET Invoices, asked : Int \cup {AsDue}, credits : CreditChoices]
ASSUME AmountAssumption ==
  /\ Amount \in [Invoices -> Nat] /\ Due \in [Pas \cup Claims -> Int]
  /\ Prices \subseteq Int
  /\ Links \in [Pas -> SUBSET Invoices] /\ Relinks \subseteq SUBSET Invoices
ASSUME CreditAssumption ==
  /\ Credits \in Seq(Range(Credits)) /\ IsInjective(Credits)
  /\ Face \in [Range(Credits) -> Nat \ {0}]
ASSUME EditAssumption == MaxEdits \in Nat

VARIABLES
  db,       \* the committed rows
  total,    \* per invoice, its total amount
  mine,     \* per transaction, its locked rows and their values so far
  job,      \* per transaction, what it has been asked to pay
  edit,     \* the Data Maintenance edit in progress
  edits,    \* how many there were
  altered,  \* history: documents edited after a first payment, or closed by hand
  stale     \* history: per batch, whose amounts were edited since its draft

maintained == <<total, edit, edits, altered, stale>>
vars == <<db, mine, job, maintained>>

Docs == Pas \cup Claims
CreditSet == Range(Credits)
Rows == Docs \cup CreditSet \cup Batches
Whole == {}          \* payment_records.invoice_ids NULL, request invoice_ids None
Idle == [op |-> "idle"]
NoEdit == [pc |-> "none"]

PaidStatus(d) == IF d \in Pas THEN "processed" ELSE "paid"

Payment == [invoices : SUBSET Invoices, gross : Int, takes : [CreditSet -> Nat],
            asked : BOOLEAN,           \* an operator gave the amount
            booked : Int,              \* what its posting event is about
            batch : Batches \cup {NoBatch}]
DocRow == [status : {"approved", "processed", "paid"}, due : Int, links : SUBSET Invoices,
           payments : Seq(Payment),    \* its completed payment_records
           closed : SUBSET Invoices,   \* invoices written back as paid
           wholeEvent : BOOLEAN,       \* a posting event keyed on the document
           splitEvents : Nat]          \* events keyed on a payment record
CreditRow == [status : {"available", "exhausted", "void"}, left : Nat]
BatchLine == [invoices : SUBSET Invoices, amount : Int, status : {"pending", "paid", "failed"}]
BatchStatus == {"none", "draft", "executed", "cancelled"}

GrossOf(payments, some) ==
  SumFunctionOnSet([k \in DOMAIN payments |-> payments[k].gross], some)
Gross(payments) == GrossOf(payments, DOMAIN payments)
PaidInvoices(payments) == UNION {payments[k].invoices : k \in DOMAIN payments}
SplitPayments(payments) == {k \in DOMAIN payments : payments[k].invoices # Whole}

-----------------------------------------------------------------------------
(* Mutant: closing a PA pays its full amount again. *)
FullAmount(row) == row.due

(* What paying a PA would cover.  It splits by invoice when its invoices   *)
(* add up to it; asked for nothing in particular, what is unpaid is paid.  *)

Splits(d, row) ==
  d \in Pas /\ Cardinality(row.links) > 1 /\ SumFunctionOnSet(total, row.links) = row.due

Remainder(row) == row.due - GrossOf(row.payments, SplitPayments(row.payments))

Scope(d, row, request) ==
  LET open == row.links \ PaidInvoices(row.payments)
      unsplit == \A k \in DOMAIN row.payments : row.payments[k].invoices = Whole
      chosen == IF request = Whole THEN open ELSE request
      closes == chosen = open
  IN IF request = Whole /\ unsplit
     THEN [ok |-> TRUE, gross |-> row.due, invoices |-> Whole, closes |-> TRUE]
     ELSE [ok |-> Splits(d, row) /\ chosen # {} /\ chosen \subseteq open,
           gross |-> IF closes THEN Remainder(row)
                     ELSE SumFunctionOnSet(total, chosen),
           invoices |-> IF closes /\ unsplit THEN Whole ELSE chosen,
           closes |-> closes]

(* Mutants: a status edited back is enough to pay again; an amount named   *)
(* in advance is not compared with what is payable now.                    *)
StatusDecides(row) == TRUE
AtAnyAmount(scope, expected) == TRUE

NeverPaidWhole(row) == \A k \in DOMAIN row.payments : row.payments[k].invoices # Whole
AsExpected(scope, expected) ==
  scope.invoices # Whole => expected \subseteq {scope.gross}

(* The refusals of execute().  `expected` holds the amount of a batch line   *)
(* or the one an operator gives: compared for invoices, never for the whole. *)
Payable(d, row, request, expected) ==
  LET scope == Scope(d, row, request)
  IN /\ row.status = "approved" /\ NeverPaidWhole(row)
     /\ scope.ok /\ AsExpected(scope, expected)

-----------------------------------------------------------------------------
(* Row locks.                                                              *)

(* Mutant: credits are read without FOR UPDATE. *)
FreeCredits(t, r) == r \in CreditSet \/ \A u \in Txs \ {t} : r \notin DOMAIN mine[u]

Row(r, value) == [x \in {r} |-> value]
Over(rows, others) ==
  [x \in DOMAIN rows \cup DOMAIN others |-> IF x \in DOMAIN rows THEN rows[x] ELSE others[x]]

Free(t, r) == \A u \in Txs \ {t} : r \notin DOMAIN mine[u]
Unlocked(r) == \A u \in Txs : r \notin DOMAIN mine[u]
View(t, r) == IF r \in DOMAIN mine[t] THEN mine[t][r] ELSE db[r]

Remaining(t, c) == View(t, c).left

(* Credits of a payment of `base`, oldest first: every usable one that     *)
(* nobody else holds, or exactly those the operator chose.                 *)
Usable(t, c) == View(t, c).status = "available" /\ View(t, c).left > 0
Picked(t, d, base) ==
  IF d \in Claims \/ base <= 0 THEN {}
  ELSE IF job[t].credits = Oldest THEN {c \in CreditSet : Usable(t, c) /\ Free(t, c)}
  ELSE job[t].credits
OlderPicked(t, d, base, c) ==
  {x \in Picked(t, d, base) :
     \E j, k \in DOMAIN Credits : j < k /\ Credits[j] = x /\ Credits[k] = c}
Take(t, d, base) ==
  LET Before(c) == SumFunctionOnSet([x \in CreditSet |-> Remaining(t, x)],
                                    OlderPicked(t, d, base, c))
      Min2(x, y) == IF x < y THEN x ELSE y
  IN [c \in CreditSet |-> IF c \notin Picked(t, d, base) \/ base <= Before(c) THEN 0
                          ELSE Min2(Remaining(t, c), base - Before(c))]

(* A chosen credit that is gone fails the payment; so do credits chosen    *)
(* for a claim.  One that another transaction holds is waited for.         *)
CreditsRefused(t, d, base) ==
  /\ job[t].credits \notin {Oldest, {}}
  /\ d \in Claims \/ (base > 0 /\ \E c \in job[t].credits : ~Usable(t, c))
CreditsAwaited(t, d, base) ==
  {c \in Picked(t, d, base) : job[t].credits # Oldest /\ Usable(t, c) /\ ~Free(t, c)}
Spent(row, take) ==
  [status |-> IF row.left = take THEN "exhausted" ELSE row.status, left |-> row.left - take]

-----------------------------------------------------------------------------
(* One document.  The event is keyed on the document when it is paid whole *)
(* and on the payment record otherwise; a second event with a key, or one  *)
(* without an amount, is dropped.                                          *)

(* Mutants: every event is keyed on the document; a part payment closes    *)
(* every invoice of the PA.                                                *)
AlwaysKeyedOnDoc(scope) == TRUE
ClosesAll(row, scope) == row.links

KeyedOnDoc(scope) == scope.invoices = Whole
Closes(row, scope) == IF scope.closes THEN row.links ELSE scope.invoices

(* The amount paid is what is due unless the operator gives another, and   *)
(* closes the document all the same.  A claim's event has its own total.   *)
PaidRow(d, row, scope, base, takes, from) ==
  LET booked == IF d \in Claims THEN scope.gross ELSE base IN
  [status |-> IF scope.closes THEN PaidStatus(d) ELSE row.status,
   due |-> row.due, links |-> row.links,
   payments |-> Append(row.payments,
     [invoices |-> scope.invoices, gross |-> base, takes |-> takes, booked |-> booked,
      asked |-> from.asked # AsDue, batch |-> from.batch]),
   closed |-> row.closed \cup Closes(row, scope),
   wholeEvent |-> row.wholeEvent \/ (KeyedOnDoc(scope) /\ booked # 0),
   splitEvents |-> row.splitEvents + (IF KeyedOnDoc(scope) \/ booked = 0 THEN 0 ELSE 1)]

AmountPaid(t, scope) == IF job[t].asked = AsDue THEN scope.gross ELSE job[t].asked
Expected(t) ==
  IF job[t].batch = NoBatch THEN {job[t].asked} \ {AsDue}
  ELSE {mine[t][job[t].batch].lines[job[t].at].amount}
Request(t) ==
  IF job[t].batch = NoBatch THEN job[t].request
  ELSE mine[t][job[t].batch].lines[job[t].at].invoices
Refused(t) ==
  LET d == job[t].at IN
  \/ ~Payable(d, mine[t][d], Request(t), Expected(t))
  \/ CreditsRefused(t, d, AmountPaid(t, Scope(d, mine[t][d], Request(t))))

(* Mutant: a failed line is tried again in the same run. *)
LinesLeftToPay(t) == IF Refused(t) THEN job[t].todo ELSE job[t].todo \ {job[t].at}

LinesLeft(t) == job[t].todo \ {job[t].at}

(* Lines come in any order: they are selected without ORDER BY. *)
NextLine(t) ==
  \E d \in IF LinesLeft(t) = {} THEN {NoDoc} ELSE LinesLeft(t) :
    job' = [job EXCEPT ![t].todo = LinesLeft(t), ![t].at = d, ![t].savepoint = mine'[t]]
WithLine(rows, t, status) ==
  IF job[t].batch = NoBatch THEN rows
  ELSE [rows EXCEPT ![job[t].batch].lines[job[t].at].status = status]

PayLine(t) ==
  LET d == job[t].at
      scope == Scope(d, mine[t][d], Request(t))
      base == AmountPaid(t, scope)
      takes == Take(t, d, base)
      paid == PaidRow(d, mine[t][d], scope, base, takes, job[t])
  IN /\ job[t] # Idle /\ d # NoDoc /\ d \in DOMAIN mine[t]
     /\ ~Refused(t) /\ CreditsAwaited(t, d, base) = {}
     /\ mine' = [mine EXCEPT ![t] = WithLine(
          Over(Row(d, paid),
               Over([c \in Picked(t, d, base) |-> Spent(View(t, c), takes[c])], @)),
          t, "paid")]
     /\ NextLine(t)
     /\ UNCHANGED db /\ UNCHANGED maintained

(* A refused line of a batch is rolled back to its savepoint and recorded  *)
(* as failed; a refused payment of its own ends the transaction.           *)
RefuseLine(t) ==
  LET d == job[t].at IN
  /\ job[t] # Idle /\ d # NoDoc /\ d \in DOMAIN mine[t] /\ Refused(t)
  /\ ~(d \in Pas /\ Payable(d, mine[t][d], Request(t), Expected(t))
       /\ CreditsAwaited(t, d, AmountPaid(t, Scope(d, mine[t][d], Request(t)))) # {})
  /\ IF job[t].batch = NoBatch
     THEN /\ mine' = [mine EXCEPT ![t] = <<>>]
          /\ job' = [job EXCEPT ![t] = Idle]
     ELSE /\ mine' = [mine EXCEPT ![t] = WithLine(job[t].savepoint, t, "failed")]
          /\ NextLine(t)
  /\ UNCHANGED db /\ UNCHANGED maintained

-----------------------------------------------------------------------------
(* Transactions.                                                           *)

ExecutePayment(t, d, order) ==
  /\ job[t] = Idle
  /\ job' = [job EXCEPT ![t] =
       [op |-> "pay", batch |-> NoBatch, todo |-> {d}, at |-> d, request |-> order.request,
        asked |-> order.asked, credits |-> order.credits, savepoint |-> <<>>]]
  /\ UNCHANGED <<db, mine>> /\ UNCHANGED maintained

(* The row of the batch is locked first; a batch is executed once. *)
ExecuteBatch(t, b, credits) ==
  /\ job[t] = Idle /\ Unlocked(b) /\ db[b].status = "draft"
  /\ mine' = [mine EXCEPT ![t] = Row(b, db[b])]
  /\ \E d \in DOMAIN db[b].lines :
       job' = [job EXCEPT ![t] =
         [op |-> "pay", batch |-> b, todo |-> DOMAIN db[b].lines, at |-> d,
          request |-> Whole, asked |-> AsDue, credits |-> credits, savepoint |-> Row(b, db[b])]]
  /\ UNCHANGED db /\ UNCHANGED maintained

LockDoc(t) ==
  /\ job[t] # Idle /\ job[t].at # NoDoc /\ job[t].at \notin DOMAIN mine[t]
  /\ Free(t, job[t].at)
  /\ mine' = [mine EXCEPT ![t] = Over(Row(job[t].at, db[job[t].at]), @)]
  /\ UNCHANGED <<db, job>> /\ UNCHANGED maintained

Commit(t) ==
  /\ job[t] # Idle /\ job[t].at = NoDoc
  /\ db' = IF job[t].batch = NoBatch THEN Over(mine[t], db)
           ELSE Over([mine[t] EXCEPT ![job[t].batch].status = "executed"], db)
  /\ mine' = [mine EXCEPT ![t] = <<>>]
  /\ job' = [job EXCEPT ![t] = Idle]
  /\ UNCHANGED maintained

Lost(t) ==
  /\ mine' = [mine EXCEPT ![t] = <<>>]
  /\ job' = [job EXCEPT ![t] = Idle]
  /\ UNCHANGED db /\ UNCHANGED maintained

(* The service or its connection dies: the transaction never was. *)
Crash(t) == job[t] # Idle /\ Lost(t)

(* PostgreSQL aborts one transaction of a cycle of waiters. *)
Wanted(t) ==
  IF job[t] = Idle \/ job[t].at = NoDoc THEN {}
  ELSE IF job[t].at \notin DOMAIN mine[t] THEN {job[t].at}
  ELSE LET d == job[t].at
       IN CreditsAwaited(t, d, AmountPaid(t, Scope(d, mine[t][d], Request(t))))
Blockers(t) == {u \in Txs \ {t} : Wanted(t) \cap DOMAIN mine[u] # {}}
DeadlockVictim(t) ==
  /\ \E cycle \in SUBSET Txs : t \in cycle /\ \A u \in cycle : Blockers(u) \cap cycle # {}
  /\ Lost(t)

-----------------------------------------------------------------------------
(* Drafts and credits.                                                     *)

(* A draft takes down, without a lock, what each document is payable for   *)
(* now; it reserves nothing.                                               *)
CreateBatch(b, requests) ==
  /\ db[b].status = "none" /\ DOMAIN requests # {}
  /\ \A d \in DOMAIN requests :
       db[d].status = "approved" /\ Scope(d, db[d], requests[d]).ok
  /\ db' = [db EXCEPT ![b] =
       [status |-> "draft",
        lines |-> [d \in DOMAIN requests |->
          [invoices |-> Scope(d, db[d], requests[d]).invoices,
           amount |-> Scope(d, db[d], requests[d]).gross, status |-> "pending"]]]]
  /\ UNCHANGED <<mine, job>> /\ UNCHANGED maintained

CancelBatch(b) ==
  /\ Unlocked(b) /\ db[b].status = "draft"
  /\ db' = [db EXCEPT ![b].status = "cancelled"]
  /\ UNCHANGED <<mine, job>> /\ UNCHANGED maintained

(* Mutant: a credit is voided without asking who has it locked. *)
VoidInUse(c) ==
  /\ db[c] = [status |-> "available", left |-> Face[c]]
  /\ db' = [db EXCEPT ![c].status = "void"]
  /\ UNCHANGED <<mine, job>> /\ UNCHANGED maintained

VoidCredit(c) ==
  /\ Unlocked(c) /\ db[c] = [status |-> "available", left |-> Face[c]]
  /\ db' = [db EXCEPT ![c].status = "void"]
  /\ UNCHANGED <<mine, job>> /\ UNCHANGED maintained

-----------------------------------------------------------------------------
(* Data Maintenance.  An edit waits for the rows others have locked.       *)

Edited(docs) == altered \cup {d \in docs : db[d].payments # <<>>}
Drifted(item) ==
  [b \in Batches |-> IF db[b].status = "none" THEN stale[b] ELSE stale[b] \cup {item}]
Editing == edits < MaxEdits /\ edits' = edits + 1

(* The invoices of a PA: read it, write the list later, and, when the PA   *)
(* read was paid, have finance-api replay the writeback afterwards.        *)
EditRead(p, links) ==
  /\ edit = NoEdit /\ Editing
  /\ \A q \in Pas \ {p} : db[q].links \cap links = {}
  /\ edit' = [pc |-> "write", pa |-> p, links |-> links, replay |-> db[p].status = "processed"]
  /\ UNCHANGED <<db, total, mine, job, altered, stale>>

EditWrite ==
  /\ edit.pc = "write" /\ Unlocked(edit.pa)
  /\ db' = [db EXCEPT ![edit.pa].links = edit.links]
  /\ altered' = Edited({edit.pa})
  /\ edit' = IF edit.replay THEN [edit EXCEPT !.pc = "replay"] ELSE NoEdit
  /\ UNCHANGED <<total, mine, job, edits, stale>>

EditReplay ==
  /\ edit.pc = "replay" /\ Unlocked(edit.pa)
  /\ db' = [db EXCEPT ![edit.pa].closed =
               IF db[edit.pa].status = "processed" THEN @ \cup db[edit.pa].links ELSE @]
  /\ edit' = NoEdit
  /\ UNCHANGED <<total, mine, job, edits, altered, stale>>

(* The amount of a document: the total of a claim, the lines, the tax rate *)
(* or the charges of a PA, from which its amount is computed anew.         *)
Reprice(d, n) ==
  /\ Editing /\ Unlocked(d) /\ n # db[d].due
  /\ db' = [db EXCEPT ![d].due = n]
  /\ altered' = Edited({d}) /\ stale' = Drifted(d)
  /\ UNCHANGED <<total, mine, job, edit>>

(* The total of an invoice, which decides what a PA splits into.  A payment *)
(* about to mark the invoice as paid has its row.                          *)
Paying(p) ==
  \/ db[p].payments # <<>>
  \/ \E t \in Txs : p \in DOMAIN mine[t] /\ mine[t][p].payments # <<>>
EditTotal(i, n) ==
  /\ Editing /\ n # total[i]
  /\ \A t \in Txs, p \in Pas : p \in DOMAIN mine[t] => i \notin mine[t][p].closed \ db[p].closed
  /\ total' = [total EXCEPT ![i] = n]
  /\ altered' = altered \cup {p \in Pas : i \in db[p].links /\ Paying(p)}
  /\ stale' = Drifted(i)
  /\ UNCHANGED <<db, mine, job, edit>>

(* The status: edited back to approved, or closed without a payment. *)
Reapprove(d) ==
  /\ Editing /\ Unlocked(d) /\ db[d].status = PaidStatus(d)
  /\ db' = [db EXCEPT ![d].status = "approved"]
  /\ UNCHANGED <<total, mine, job, edit, altered, stale>>

CloseByHand(d) ==
  /\ Editing /\ Unlocked(d) /\ db[d].status = "approved"
  /\ db' = [db EXCEPT ![d].status = PaidStatus(d)]
  /\ altered' = altered \cup {d}
  /\ UNCHANGED <<total, mine, job, edit, stale>>

-----------------------------------------------------------------------------
Init ==
  /\ db = [r \in Rows |->
       IF r \in Docs
       THEN [status |-> "approved", due |-> Due[r], links |-> IF r \in Pas THEN Links[r] ELSE {},
             payments |-> <<>>, closed |-> {}, wholeEvent |-> FALSE, splitEvents |-> 0]
       ELSE IF r \in Batches THEN [status |-> "none", lines |-> <<>>]
       ELSE [status |-> "available", left |-> Face[r]]]
  /\ total = Amount
  /\ mine = [t \in Txs |-> <<>>]
  /\ job = [t \in Txs |-> Idle]
  /\ edit = NoEdit /\ edits = 0 /\ altered = {} /\ stale = [b \in Batches |-> {}]

Selections ==
  {f \in UNION {[D -> UNION {Requests[d] : d \in D}] : D \in SUBSET Docs} :
     \A d \in DOMAIN f : f[d] \in Requests[d]}

Drafts == \E b \in Batches :
  \/ \E selection \in Selections : CreateBatch(b, selection)
  \/ CancelBatch(b)
Maintenance ==
  \/ \E p \in Pas, links \in Relinks : EditRead(p, links)
  \/ EditWrite \/ EditReplay
  \/ \E d \in Docs : Reapprove(d) \/ CloseByHand(d) \/ \E n \in Prices : Reprice(d, n)
  \/ \E i \in Invoices, n \in Prices \cap Nat : EditTotal(i, n)
Start(t) ==
  \/ \E d \in Docs : \E order \in Orders[d] : ExecutePayment(t, d, order)
  \/ \E b \in Batches, credits \in CreditChoices : ExecuteBatch(t, b, credits)
Proceed(t) ==
  \/ LockDoc(t) \/ PayLine(t) \/ RefuseLine(t) \/ Commit(t)
  \/ Crash(t) \/ DeadlockVictim(t)
Next ==
  \/ Drafts \/ Maintenance
  \/ \E c \in CreditSet : VoidCredit(c)
  \/ \E t \in Txs : Start(t) \/ Proceed(t)

(* A transaction runs on; the waiters of a row are queued by the database, *)
(* which also breaks deadlocks.                                            *)
Fairness == \A t \in Txs :
  /\ WF_vars(RefuseLine(t) \/ Commit(t) \/ DeadlockVictim(t))
  /\ SF_vars(LockDoc(t)) /\ SF_vars(PayLine(t))

Spec == Init /\ [][Next]_vars /\ Fairness

-----------------------------------------------------------------------------
(* The committed rows are of their types, no credit is below zero, and     *)
(* transactions hold rows that exist.                                      *)
TypeOK ==
  /\ \A d \in Docs : db[d] \in DocRow
  /\ \A c \in CreditSet : db[c] \in CreditRow
  /\ \A b \in Batches : /\ db[b].status \in BatchStatus
                        /\ \A d \in DOMAIN db[b].lines : db[b].lines[d] \in BatchLine
  /\ \A t \in Txs : DOMAIN mine[t] \subseteq Rows
  /\ total \in [Invoices -> Nat] /\ altered \subseteq Docs
  /\ stale \in [Batches -> SUBSET (Docs \cup Invoices)]

PaidOnce(row) ==
  \A j, k \in DOMAIN row.payments : j # k =>
    /\ row.payments[j].invoices # Whole
    /\ row.payments[j].invoices \cap row.payments[k].invoices = {}

(* No invoice is in two payments of a PA, and a payment of the whole is    *)
(* the only one, whatever status the PA is edited to: committed rows and   *)
(* rows about to be.                                                       *)
NoInvoicePaidTwice ==
  \A d \in Docs : PaidOnce(db[d]) /\ \A t \in Txs : d \in DOMAIN mine[t] => PaidOnce(mine[t][d])

(* The operator may pay the whole of a document at any amount; an amount   *)
(* given with a payment by invoice has to be the one that is due.          *)
Overridden(payments) == \E k \in DOMAIN payments : payments[k].asked /\ payments[k].invoices = Whole

(* A document is never paid more than its amount, and exactly that when it *)
(* is closed.  Left out: a document whose amount, invoices or invoice      *)
(* totals were edited after a first payment or that was closed by hand,    *)
(* and one paid whole at an amount the operator gave.  Edits before the    *)
(* first payment, while it is drafted or waited for, are not left out.     *)
NeverOverpaid ==
  \A d \in Docs \ altered : LET paid == db[d].payments IN
    paid # <<>> /\ ~Overridden(paid) =>
      /\ Gross(paid) <= db[d].due
      /\ db[d].status = PaidStatus(d) => Gross(paid) = db[d].due

(* Every payment has its own posting event, whatever was edited: an event  *)
(* is idempotent on its key, so payments that share a key would be lost to *)
(* the ledger.  Only payments of no amount have none.                      *)
EventPerPayment ==
  \A d \in Docs : LET paid == db[d].payments IN
    db[d].splitEvents + (IF db[d].wholeEvent THEN 1 ELSE 0)
      = Cardinality({k \in DOMAIN paid : paid[k].booked # 0})

TakenBy(payments, c) == SumFunction([k \in DOMAIN payments |-> payments[k].takes[c]])
Taken(c) == SumFunctionOnSet([d \in Docs |-> TakenBy(db[d].payments, c)], Pas)

(* What payments took off a credit is what it has lost: no credit is used  *)
(* twice by concurrent payments, or used and voided.                       *)
CreditsConserved ==
  \A c \in CreditSet :
    /\ db[c].left + Taken(c) = Face[c]
    /\ db[c].status = "exhausted" <=> db[c].left = 0
    /\ db[c].status = "void" => Taken(c) = 0

(* The lines of an executed batch tell what it paid: a paid line is one    *)
(* payment, others left no payment.  The payment is of the amount the      *)
(* draft showed, unless it pays a whole document whose amount was edited   *)
(* since the draft: that one is not compared with the draft.               *)
BatchTellsPayments ==
  \A b \in Batches, d \in Docs :
    LET made == {k \in DOMAIN db[d].payments : db[d].payments[k].batch = b}
        line == db[b].lines[d]
    IN IF db[b].status = "executed" /\ d \in DOMAIN db[b].lines /\ line.status = "paid"
       THEN /\ Cardinality(made) = 1
            /\ \A k \in made : LET payment == db[d].payments[k] IN
                 \/ payment.gross = line.amount
                 \/ payment.invoices = Whole /\ ({d} \cup line.invoices) \cap stale[b] # {}
       ELSE made = {}

(* A PA paid in part leaves the rest of its invoices open. *)
UnpaidInvoicesOpen ==
  \A p \in Pas \ altered :
    NeverPaidWhole(db[p]) => db[p].closed = PaidInvoices(db[p].payments)

-----------------------------------------------------------------------------
(* Committed, payments are those of a ledger that settles at once: what    *)
(* ran side by side, under savepoints, over crashes and aborted deadlocks, *)
(* from drafts that reserve nothing, is one settlement after another.      *)
Ledger == INSTANCE PaymentLedger
  WITH Credits <- CreditSet, paid <- [d \in Docs |-> db[d].payments],
       due <- [d \in Docs |-> db[d].due], left <- [c \in CreditSet |-> db[c].left],
       void <- {c \in CreditSet : db[c].status = "void"}

ImplementsLedger == Ledger!Spec

(* Every execution ends, deadlocks between batches included. *)
ExecutionsEnd == \A t \in Txs : job[t] # Idle ~> job[t] = Idle

=============================================================================
