---------------------------- MODULE GoodsReceipts ----------------------------
(***************************************************************************)
(* One purchase order of epms-api with its goods receipts, the invoices    *)
(* matched to it, its payment applications and the two prompts that lead   *)
(* from one to the next: create_pa ("raise a payment application") and     *)
(* confirm_receipt ("the invoice is here, where are the goods?").          *)
(*                                                                         *)
(* Every handler writes the prompts as a side effect, each with a rule of  *)
(* its own for when one is due: crud/gr.py when goods arrive,              *)
(* api/v1/invoices.py when an invoice is matched or unmatched, crud/pa.py  *)
(* when a payment comes or goes, crud/task.py whenever an inbox is opened, *)
(* admin/registry.py when records are deleted, and a nightly sweep.  A     *)
(* handler is one step here.                                               *)
(*                                                                         *)
(* The order has one line.  Its receipts, payments and the supplier's      *)
(* invoices are numbered in the order they were recorded; a deleted record *)
(* stays as "gone".  An invoice bills this order or nothing.               *)
(***************************************************************************)
EXTENDS Integers, Sequences, FiniteSetsExt

CONSTANTS
  Ordered,      \* quantity ordered
  Quantities,   \* quantities a receipt may record
  MaxRecords,   \* bound: receipts and invoices recorded, together
  MaxPayments   \* bound: payment applications raised

ASSUME QuantityAssumption == Ordered \in Nat \ {0} /\ Quantities \subseteq Nat \ {0}

VARIABLES
  po,        \* the order: goods or a service, where it comes from, its
             \* status and po_line_items.received_qty
  receipts,  \* goods_receipts
  invoices,  \* what each invoice is matched to, and its linked receipts
  payments,  \* payment_applications
  prompts,   \* create_pa tasks of the order: open and completed
  nudged,    \* a confirm_receipt task is open
  gate       \* Collection Confirmation Required: off, on, and off again

records == <<receipts, invoices, payments>>
tasks == <<prompts, nudged>>
vars == <<po, records, tasks, gate>>

Tracking == {"issued", "partially_received", "fully_received"}
Pending == {"pending_ack", "collection_pending"}
Counting == {"collected", "confirmed", "discrepancy"}
Dead == {"cancelled", "rejected"}

Orders == [physical : BOOLEAN, source : {"pr", "nc", "other"},
           status : Tracking \cup {"approved"}, received : Nat]
Receipts == [status : Pending \cup Counting \cup Dead \cup {"gone"},
             qty : Quantities, reason : BOOLEAN]
(* `on`: not on the order, on its header only, or allocated to it.         *)
InvoiceRows == [status : {"unmatched", "match_review", "exception", "matched", "gone"},
                on : {"none", "header", "allocated"}, grs : SUBSET Nat]
Payments == [kind : {"regular", "prepayment"}, status : {"live", "released", "gone"},
             invoices : SUBSET Nat]

Unmatched == [status |-> "unmatched", on |-> "none", grs |-> {}]
(* An invoice imported from PMS or NC: on the header, no allocations.      *)
Imported == [status |-> "matched", on |-> "header", grs |-> {}]

Init ==
  /\ po \in [physical : BOOLEAN, source : {"pr", "nc", "other"},
             status : {"approved", "issued"}, received : {0}]
  /\ receipts = << >>
  /\ invoices \in {<< >>, <<Imported>>}
  /\ payments = << >>
  /\ prompts = [open |-> 0, done |-> 0]
  /\ nudged = FALSE
  /\ gate \in IF po.physical THEN {"off", "on"} ELSE {"off"}

-----------------------------------------------------------------------------
(* What the handlers ask of the records.  They are written over a state of *)
(* the order p, the receipts rs and the invoices vs, because a handler     *)
(* asks them after it has written.                                         *)

Recorded(rs) == {g \in DOMAIN rs : rs[g].status # "gone"}
Alive(rs) == {g \in Recorded(rs) : rs[g].status \notin Dead}
Counted(rs) == {g \in DOMAIN rs : rs[g].status \in Counting}
Awaited(rs) == {g \in DOMAIN rs : rs[g].status \in Pending}

Quantity(rs, some) == IF some = {} THEN 0 ELSE MapThenSumSet(LAMBDA g : rs[g].qty, some)

Evidence(p, rs) == Alive(rs) # {} \/ p.received > 0

Matched(vs) == {v \in DOMAIN vs : vs[v].status = "matched" /\ vs[v].on # "none"}

(* three_way_matched: the linked receipt of an invoice counts by itself.   *)
ThreeWay(p, rs, vs) == \E v \in Matched(vs) : vs[v].grs # {} \/ Evidence(p, rs)

Cleared(p, rs) == p.physical /\ gate = "on" => Counted(rs) # {} \/ p.received > 0

Ready(p, rs, vs) == ThreeWay(p, rs, vs) /\ Cleared(p, rs)

(* _po_has_matched_invoice: an allocation counts whatever its invoice's    *)
(* status.                                                                 *)
Billed(vs) ==
  \E v \in DOMAIN vs : \/ vs[v].on = "header" /\ vs[v].status # "unmatched"
                       \/ vs[v].on = "allocated"

Existing == {i \in DOMAIN payments : payments[i].status # "gone"}
Live(ps) == {i \in DOMAIN ps : ps[i].status = "live"}
Claimed(v) == \E i \in Live(payments) : v \in payments[i].invoices

-----------------------------------------------------------------------------
(* What the handlers do to the prompts.  Counts above 2 are all "many".    *)

Many(n) == IF n > 2 THEN 2 ELSE n

Raised == [prompts EXCEPT !.open = Many(prompts.open + 1)]
Completed == [open |-> 0, done |-> Many(prompts.open + prompts.done)]
Reopened == [open |-> Many(prompts.open + prompts.done), done |-> 0]

(* Mutant: the nudge outlives the arrival of the goods.                    *)
OnlyPrompts(p, rs, vs) ==
  /\ nudged' = nudged
  /\ prompts' = IF Ready(p, rs, vs) /\ Existing = {} /\ prompts.open = 0
                THEN Raised ELSE prompts

(* _on_three_way_reached, after a receipt is recorded or posted.           *)
GoodsHere(p, rs, vs) ==
  /\ nudged' = FALSE
  /\ prompts' = IF Ready(p, rs, vs) /\ Existing = {} /\ prompts.open = 0
                THEN Raised ELSE prompts

(* _on_invoice_matched, after an invoice became matched.  An order with    *)
(* neither a PR nor an NC number gets no prompt.  Two open prompts fail    *)
(* the request: scalar_one_or_none raises.                                 *)
InvoiceHere(vs) ==
  CASE Ready(po, receipts, vs) /\ po.source = "other" ->
         nudged' = FALSE /\ UNCHANGED prompts
    [] Ready(po, receipts, vs) /\ po.source # "other" ->
         /\ prompts.open < 2
         /\ nudged' = FALSE
         /\ prompts' = IF prompts.open = 0 THEN Raised ELSE prompts
    [] ThreeWay(po, receipts, vs) /\ ~ Cleared(po, receipts) ->
         UNCHANGED tasks
    [] ~ ThreeWay(po, receipts, vs) ->
         nudged' = ~ Evidence(po, receipts) /\ UNCHANGED prompts

(* Mutant: an unmatch takes the prompt away whatever else is matched.      *)
WithdrawAll(vs) == prompts' = Completed /\ nudged' = (nudged /\ Billed(vs))

(* _withdraw_orphaned_po_tasks, after an unmatch.                          *)
Withdraw(vs) ==
  /\ prompts' = IF ThreeWay(po, receipts, vs) THEN prompts ELSE Completed
  /\ nudged' = (nudged /\ Billed(vs))

-----------------------------------------------------------------------------
(* The order. *)

ReceiptStatus(received) ==
  CASE received >= Ordered -> "fully_received"
    [] received > 0 /\ received < Ordered -> "partially_received"
    [] received <= 0 -> "issued"

(* sync_po_receipt_status: only the receipt statuses are its to move.      *)
Synced(p) ==
  IF p.status \in Tracking THEN [p EXCEPT !.status = ReceiptStatus(p.received)] ELSE p

(* Mutant: the order takes its receipt status at the next receipt only.    *)
PlacedUnsynced == [po EXCEPT !.status = "issued"]

Placed == Synced([po EXCEPT !.status = "issued"])

PlaceOrder ==
  /\ po.status = "approved"
  /\ po' = Placed
  /\ UNCHANGED <<records, tasks, gate>>

(* The gate says nothing of services, so only a physical order sees it     *)
(* switched.                                                               *)
SwitchGate ==
  /\ po.physical
  /\ gate' = CASE gate = "off" -> "on" [] gate = "on" -> "lifted" [] OTHER -> gate
  /\ gate # "lifted"
  /\ UNCHANGED <<po, records, tasks>>

-----------------------------------------------------------------------------
(* Receipts. *)

Roomy == Len(receipts) + Len(invoices) < MaxRecords

Receivable ==
  IF po.physical THEN {"issued", "partially_received"}
  ELSE {"approved", "issued", "partially_received"}

Open == Ordered - po.received - Quantity(receipts, Awaited(receipts))

(* _autofill_gr_to_matched_invoices: a new receipt joins the invoices that *)
(* bill its line, or the whole order.                                      *)
Autofilled(g) ==
  [v \in DOMAIN invoices |->
     IF invoices[v].on # "none" /\ invoices[v].status \in {"matched", "match_review", "exception"}
     THEN [invoices[v] EXCEPT !.grs = @ \cup {g}]
     ELSE invoices[v]]

Posted(qty) == Synced([po EXCEPT !.received = @ + qty])

Final == IF po.physical THEN "collected" ELSE "confirmed"

(* create.  Without a requisition there is nobody to acknowledge: the      *)
(* receipt is posted at once.                                              *)
CreateReceipt(qty) ==
  LET g == Len(receipts) + 1
      status == IF po.source = "pr" THEN "pending_ack" ELSE Final
  IN /\ Roomy
     /\ po.status \in Receivable
     /\ receipts' = Append(receipts, [status |-> status, qty |-> qty, reason |-> qty > Open])
     /\ po' = IF po.source = "pr" THEN po ELSE Posted(qty)
     /\ invoices' = Autofilled(g)
     /\ GoodsHere(po', receipts', invoices')
     /\ UNCHANGED <<payments, gate>>

Acknowledge(g) ==
  /\ receipts[g].status = "pending_ack"
  /\ receipts' = [receipts EXCEPT ![g].status = "collection_pending"]
  /\ UNCHANGED <<po, invoices, payments, tasks, gate>>

(* Mutant: no reason is asked for when the quantity is posted.             *)
ReasonAtCreation(g) == receipts[g].reason

(* The reason stored by the time a receipt is posted: one is demanded when *)
(* it takes the line past the quantity ordered.                            *)
ReasonWhenPosted(g) == receipts[g].reason \/ po.received + receipts[g].qty > Ordered

(* collect and confirm: the quantity is added to the line, also when a     *)
(* collected receipt is confirmed.                                         *)
Post(g, status) ==
  /\ receipts' = [receipts EXCEPT ![g].status = status, ![g].reason = ReasonWhenPosted(g)]
  /\ po' = Posted(receipts[g].qty)
  /\ GoodsHere(po', receipts', invoices)
  /\ UNCHANGED <<invoices, payments, gate>>

Collect(g) ==
  /\ po.physical /\ receipts[g].status = "collection_pending"
  /\ Post(g, "collected")

Confirm(g) ==
  /\ \/ receipts[g].status \in {"collected", "collection_pending"}
     \/ ~ po.physical /\ receipts[g].status = "pending_ack"
  /\ Post(g, "confirmed")

(* reject, discrepancy and cancel: no quantity, link or prompt follows.    *)
CloseReceipt(g) ==
  /\ \E status \in {"rejected", "discrepancy", "cancelled"} :
       /\ CASE status = "rejected" -> ~ po.physical /\ receipts[g].status = "collection_pending"
            [] status = "discrepancy" -> receipts[g].status = "collected"
            [] status = "cancelled" -> receipts[g].status \in Pending
       /\ receipts' = [receipts EXCEPT ![g].status = status]
  /\ UNCHANGED <<po, invoices, payments, tasks, gate>>

(* The invoices a receipt is the first of (invoice.gr_id).                 *)
Leads(g, v) == invoices[v].grs # {} /\ Min(invoices[v].grs) = g

(* Mutant: the quantity of the deleted receipt is taken off, posted or not. *)
TakenOff(rs) == po.received - Quantity(receipts, Recorded(receipts) \ Recorded(rs))

(* resync_po_received_qty: the sum of the receipts that still count.       *)
Recount(rs) == Quantity(rs, Counted(rs))

(* _gr_delete (Data Maintenance).                                          *)
DeleteReceipt(g) ==
  /\ receipts[g].status # "gone"
  /\ \A v \in DOMAIN invoices : Leads(g, v) => ~ Claimed(v)
  /\ receipts' = [receipts EXCEPT ![g].status = "gone"]
  /\ invoices' = [v \in DOMAIN invoices |->
                    IF Leads(g, v) THEN [invoices[v] EXCEPT !.grs = {}] ELSE invoices[v]]
  /\ po' = Synced([po EXCEPT !.received = Recount(receipts')])
  /\ UNCHANGED <<payments, tasks, gate>>

(* The sweep for services whose completion date has passed.                *)
ServiceDue ==
  /\ ~ po.physical /\ po.source = "pr"
  /\ po.status \in {"approved", "issued", "partially_received"}
  /\ Alive(receipts) = {}
  /\ nudged' = TRUE
  /\ UNCHANGED <<po, records, prompts, gate>>

-----------------------------------------------------------------------------
(* Invoices. *)

Upload ==
  /\ Roomy
  /\ invoices' = Append(invoices, Unmatched)
  /\ UNCHANGED <<po, receipts, payments, tasks, gate>>

Settled(v, row) ==
  /\ invoices' = [invoices EXCEPT ![v] = row]
  /\ UNCHANGED <<po, receipts, payments, gate>>

(* What follows when a handler leaves an invoice in this status.           *)
Downstream(status) == IF status = "matched" THEN InvoiceHere(invoices') ELSE UNCHANGED tasks

(* match: the receipts found by their lines, or those the caller picked,   *)
(* live or not; the variance decides the status.                           *)
Match(v) ==
  /\ invoices[v].status \in {"unmatched", "exception"}
  /\ \E status \in {"matched", "match_review", "exception"}, grs \in SUBSET Recorded(receipts) :
       /\ Settled(v, [status |-> status, on |-> "allocated", grs |-> grs])
       /\ Downstream(status)

(* review_match: an approval looks for receipts that came meanwhile; a     *)
(* rejection leaves the links for reference.                               *)
Review(v) ==
  /\ invoices[v].status = "match_review"
  /\ \/ \E status \in {"matched", "exception"} :
          /\ Settled(v, [invoices[v] EXCEPT !.status = status,
                                            !.grs = IF @ = {} THEN Alive(receipts) ELSE @])
          /\ Downstream(status)
     \/ /\ Settled(v, [invoices[v] EXCEPT !.status = "unmatched"])
        /\ UNCHANGED tasks

AcceptException(v) ==
  /\ invoices[v].status = "exception"
  /\ Settled(v, [invoices[v] EXCEPT !.status = "matched"])
  /\ Downstream("matched")

UnmatchPo(v) ==
  /\ invoices[v].on # "none" /\ ~ Claimed(v)
  /\ Settled(v, Unmatched)
  /\ Withdraw(invoices')

UnmatchGr(v) ==
  /\ invoices[v].grs # {} /\ ~ Claimed(v)
  /\ Settled(v, [invoices[v] EXCEPT !.grs = {}])
  /\ Withdraw(invoices')

(* _complete_orphan_create_pa_tasks. *)
Orphaned(vs) == Matched(vs) = {} /\ Live(payments) = {}

DeleteInvoice(v) ==
  /\ invoices[v].status \in {"unmatched", "exception"} /\ ~ Claimed(v)
  /\ Settled(v, [status |-> "gone", on |-> "none", grs |-> {}])
  /\ prompts' = IF invoices[v].on # "none" /\ Orphaned(invoices') THEN Completed ELSE prompts
  /\ UNCHANGED nudged

-----------------------------------------------------------------------------
(* Payment applications. *)

(* create_pa.  A regular one passes the receipt gate or is overridden; an  *)
(* open prepayment blocks it.  Whatever is raised completes the prompts.   *)
CreatePayment ==
  /\ Len(payments) < MaxPayments
  /\ \E kind \in {"regular", "prepayment"}, override \in BOOLEAN,
        claims \in SUBSET {v \in DOMAIN invoices : invoices[v].on # "none" /\ ~ Claimed(v)} :
       /\ kind = "regular" =>
            /\ \A i \in Live(payments) : payments[i].kind # "prepayment"
            /\ override \/ Ready(po, receipts, invoices)
       /\ kind = "prepayment" => ~ override /\ claims = {}
       /\ payments' = Append(payments, [kind |-> kind, status |-> "live", invoices |-> claims])
  /\ prompts' = Completed
  /\ UNCHANGED <<po, receipts, invoices, nudged, gate>>

(* reopen_create_pa_tasks_if_unpaid: every prompt ever completed.          *)
Uncovered(ps) == IF Live(ps) = {} THEN Reopened ELSE prompts

(* A payment is rejected, cancelled, or deleted in Data Maintenance.       *)
DropPayment(i) ==
  /\ \E status \in {"released", "gone"} :
       /\ payments[i].status \in (IF status = "released" THEN {"live"} ELSE {"live", "released"})
       /\ payments' = [payments EXCEPT ![i].status = status]
  /\ prompts' = Uncovered(payments')
  /\ UNCHANGED <<po, receipts, invoices, nudged, gate>>

-----------------------------------------------------------------------------
(* GET /tasks: prompts that are covered or lost their invoice are closed,  *)
(* a missing one is raised.                                                *)

Promptable ==
  /\ \/ po.status \in Tracking
     \/ po.status = "approved" /\ Recorded(receipts) # {}
  /\ \E v \in Matched(invoices) :
       invoices[v].grs # {} \/ (invoices[v].on = "allocated" /\ Recorded(receipts) # {})
  /\ Existing = {}

OpenInbox ==
  /\ prompts' = CASE Live(payments) # {} \/ Matched(invoices) = {} -> Completed
                  [] Live(payments) = {} /\ Promptable /\ prompts.open = 0 -> Raised
                  [] OTHER -> prompts
  /\ UNCHANGED <<po, records, nudged, gate>>

-----------------------------------------------------------------------------
Next ==
  \/ PlaceOrder \/ SwitchGate \/ ServiceDue \/ Upload \/ CreatePayment \/ OpenInbox
  \/ \E qty \in Quantities : CreateReceipt(qty)
  \/ \E g \in DOMAIN receipts :
       Acknowledge(g) \/ Collect(g) \/ Confirm(g) \/ CloseReceipt(g) \/ DeleteReceipt(g)
  \/ \E v \in DOMAIN invoices :
       \/ Match(v) \/ Review(v) \/ AcceptException(v)
       \/ UnmatchPo(v) \/ UnmatchGr(v) \/ DeleteInvoice(v)
  \/ \E i \in DOMAIN payments : DropPayment(i)

Spec == Init /\ [][Next]_vars

-----------------------------------------------------------------------------
ReceiptTypeOK ==
  /\ po \in Orders
  /\ receipts \in Seq(Receipts)
  /\ invoices \in Seq(InvoiceRows)
  /\ payments \in Seq(Payments)
  /\ prompts \in [open : 0 .. 2, done : 0 .. 2]
  /\ nudged \in BOOLEAN /\ gate \in {"off", "on", "lifted"}

(* Nobody is asked to receive what is already there: while a               *)
(* confirm_receipt task is open no receipt of the order is alive and no    *)
(* quantity is on its line.  Two handlers and a sweep raise the task, and  *)
(* receipts are recorded, cancelled and deleted in between.                *)
NudgeTruthful == nudged => ~ Evidence(po, receipts)

(* An order that may be paid and was never on a payment application has an *)
(* open create_pa prompt, whichever of the goods and the invoice came      *)
(* last and whatever was cancelled, unmatched or deleted before, as long   *)
(* as the collection gate was not lifted (only an inbox notices that) and  *)
(* the order has a requisition or an NC number.                            *)
ReadyIsPrompted ==
  Ready(po, receipts, invoices) /\ payments = << >> /\ po.source # "other" /\ gate # "lifted"
    => prompts.open > 0

(* More than was ordered is received only with a reason on record: the     *)
(* receipts that carry none fit the line together, in whatever order they  *)
(* were recorded, collected, confirmed twice and deleted.                  *)
OverReceiptExplained ==
  po.received > Ordered => \E g \in Counted(receipts) : receipts[g].reason

(* The receipt status of an order that is out with the supplier is the one *)
(* its quantities imply, also for a service received before it was placed. *)
StatusTellsReceived == po.status \in Tracking => po.status = ReceiptStatus(po.received)

(* At most one create_pa prompt is open (the deduplication rule of the     *)
(* requirements).                                                          *)
OnePromptOpen == prompts.open <= 1

=============================================================================
