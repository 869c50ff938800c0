------------------------ MODULE GoodsReceipts_proofs ------------------------
(***************************************************************************)
(* What holds of an order, its receipts, invoices and prompts, for every   *)
(* quantity ordered or received and any number of records.                 *)
(*                                                                         *)
(* Nobody is asked to receive what is already there.  The rule that tells  *)
(* the nudge's handlers "nothing is here" looks at the receipts and at the *)
(* quantity on the line; the sweep for services looks at the receipts      *)
(* only.  What makes the two agree is that a line has a quantity only      *)
(* while a receipt counts for it.                                          *)
(*                                                                         *)
(* The receipt status follows the quantity; the rows keep their types;     *)
(* more than was ordered is received only with a reason; an order that may *)
(* be paid has its prompt.                                                 *)
(***************************************************************************)
EXTENDS GoodsReceipts, SequenceTheorems, SumLemmas

Keys == {"physical", "source", "status", "received"}

OrderRow(p) == p = [k \in Keys |-> p[k]]

(* A quantity is on the line only while some receipt counts.               *)
QuantityIsCounted == Counted(receipts) = {} => ~ (po.received > 0)

Inv ==
  /\ OrderRow(po)
  /\ receipts \in Seq(Receipts)
  /\ QuantityIsCounted
  /\ NudgeTruthful

-----------------------------------------------------------------------------
(* Moving the receipt status of an order leaves its quantity alone.        *)
LEMMA SyncedKeeps ==
  ASSUME NEW p, OrderRow(p)
  PROVE  OrderRow(Synced(p)) /\ Synced(p).received = p.received
BY DEF OrderRow, Keys, Synced

(* An order stays a row when one of its columns is written.                *)
LEMMA WrittenRow ==
  ASSUME NEW p, OrderRow(p), NEW x
  PROVE  /\ OrderRow([p EXCEPT !.status = x])
         /\ [p EXCEPT !.status = x].received = p.received
         /\ OrderRow([p EXCEPT !.received = x])
         /\ [p EXCEPT !.received = x].received = x
BY DEF OrderRow, Keys

(* A receipt that counts is alive.                                         *)
LEMMA CountedAlive ==
  ASSUME NEW rs PROVE Counted(rs) \subseteq Alive(rs)
BY DEF Counted, Alive, Recorded, Counting, Dead

(* Writing the status of one receipt.                                      *)
LEMMA StatusWritten ==
  ASSUME receipts \in Seq(Receipts), NEW g \in DOMAIN receipts,
         NEW s \in Pending \cup Counting \cup Dead \cup {"gone"}
  PROVE  LET rs == [receipts EXCEPT ![g].status = s]
         IN /\ rs \in Seq(Receipts)
            /\ DOMAIN rs = DOMAIN receipts
            /\ rs[g].status = s
            /\ \A h \in DOMAIN rs : h # g => rs[h] = receipts[h]
<1> DEFINE row == [receipts[g] EXCEPT !.status = s]
           rs == [receipts EXCEPT ![g] = row]
<1>1. receipts[g] \in Receipts
  BY ElementOfSeq, LenProperties
<1>2. row \in Receipts /\ row.status = s
  BY <1>1 DEF Receipts
<1> HIDE DEF row
<1>3. rs \in Seq(Receipts)
  BY <1>2, ExceptSeq, LenProperties
<1>4. DOMAIN rs = DOMAIN receipts /\ rs[g] = row /\ \A h \in DOMAIN rs : h # g => rs[h] = receipts[h]
  OBVIOUS
<1> QED BY <1>2, <1>3, <1>4 DEF row

(* Posting one receipt.                                                    *)
LEMMA PostWritten ==
  ASSUME receipts \in Seq(Receipts), NEW g \in DOMAIN receipts,
         NEW s \in Counting, NEW b \in BOOLEAN
  PROVE  LET rs == [receipts EXCEPT ![g].status = s, ![g].reason = b]
         IN rs \in Seq(Receipts) /\ g \in Counted(rs)
<1> DEFINE row == [receipts[g] EXCEPT !.status = s, !.reason = b]
           rs == [receipts EXCEPT ![g] = row]
<1>1. receipts[g] \in Receipts
  BY ElementOfSeq, LenProperties
<1>2. row \in Receipts /\ row.status = s
  BY <1>1 DEF Receipts
<1>3. [receipts EXCEPT ![g].status = s, ![g].reason = b] = rs
  OBVIOUS
<1> HIDE DEF row
<1>4. rs \in Seq(Receipts)
  BY <1>2, ExceptSeq, LenProperties
<1>5. DOMAIN rs = DOMAIN receipts /\ rs[g] = row
  OBVIOUS
<1> QED BY <1>2, <1>3, <1>4, <1>5 DEF Counted

-----------------------------------------------------------------------------
LEMMA InitInv == Init => Inv
BY DEF Init, Inv, OrderRow, Keys, QuantityIsCounted, NudgeTruthful, Receipts

(* Steps that touch neither the order nor the receipts, and raise no nudge. *)
LEMMA NoNudge ==
  ASSUME Inv, UNCHANGED <<po, receipts>>, nudged' => nudged
  PROVE  Inv'
BY DEF Inv, OrderRow, QuantityIsCounted, NudgeTruthful, Evidence, Alive, Recorded, Counted

(* Whatever an invoice leaves behind when it became matched.               *)
LEMMA InvoiceKeeps ==
  ASSUME Inv, UNCHANGED <<po, receipts>>, NEW vs, InvoiceHere(vs)
  PROVE  Inv'
<1>1. (nudged' => nudged) \/ nudged' = ~ Evidence(po, receipts)
  BY DEF InvoiceHere, Ready, tasks
<1>2. CASE nudged' => nudged
  BY <1>2, NoNudge
<1>3. CASE nudged' = ~ Evidence(po, receipts)
  BY <1>3 DEF Inv, OrderRow, QuantityIsCounted, NudgeTruthful, Evidence, Alive, Recorded, Counted
<1> QED BY <1>1, <1>2, <1>3

LEMMA StatusKeeps ==
  ASSUME Inv, UNCHANGED <<po, receipts>>, NEW s, Downstream(s)
  PROVE  Inv'
BY InvoiceKeeps, NoNudge DEF Downstream, tasks

(* A receipt recorded or posted takes the nudge away.                      *)
LEMMA GoodsKeep ==
  ASSUME GoodsHere(po', receipts', invoices'), OrderRow(po'), receipts' \in Seq(Receipts),
         QuantityIsCounted'
  PROVE  Inv'
BY DEF GoodsHere, Inv, NudgeTruthful

(* A receipt under way may change its status: it was there before, so      *)
(* nobody was asked for it.                                                *)
LEMMA UnderWayKeeps ==
  ASSUME Inv, UNCHANGED <<po, nudged>>, NEW g \in DOMAIN receipts, NEW s,
         s \in Pending \cup Counting \cup Dead,
         receipts[g].status \in Pending \cup {"collected"},
         receipts[g].status \in Counting => s \in Counting,
         receipts' = [receipts EXCEPT ![g].status = s]
  PROVE  Inv'
<1>1. /\ receipts' \in Seq(Receipts)
      /\ DOMAIN receipts' = DOMAIN receipts
      /\ receipts'[g].status = s
      /\ \A h \in DOMAIN receipts' : h # g => receipts'[h] = receipts[h]
  BY StatusWritten DEF Inv
<1>2. g \in Alive(receipts)
  BY DEF Alive, Recorded, Pending, Dead
<1>3. ~ nudged'
  BY <1>2 DEF Inv, NudgeTruthful, Evidence
<1>4. Counted(receipts) \subseteq Counted(receipts')
  BY <1>1 DEF Counted
<1> QED
  BY <1>1, <1>3, <1>4 DEF Inv, OrderRow, QuantityIsCounted, NudgeTruthful

LEMMA PlaceOrderKeeps ==
  ASSUME Inv, PlaceOrder PROVE Inv'
<1> DEFINE issued == [po EXCEPT !.status = "issued"]
<1>0. OrderRow(issued) /\ issued.received = po.received /\ po' = Synced(issued)
  BY WrittenRow DEF Inv, PlaceOrder, Placed
<1> HIDE DEF issued
<1>1. OrderRow(po') /\ po'.received = po.received
  BY <1>0, SyncedKeeps
<1> QED
  BY <1>1 DEF Inv, PlaceOrder, records, tasks, QuantityIsCounted, NudgeTruthful, Evidence,
              Alive, Recorded, Counted

LEMMA CreateReceiptKeeps ==
  ASSUME Inv, NEW qty \in Quantities, CreateReceipt(qty) PROVE Inv'
<1> DEFINE status == IF po.source = "pr" THEN "pending_ack" ELSE Final
           row == [status |-> status, qty |-> qty, reason |-> qty > Open]
<1>1. receipts' = Append(receipts, row) /\ GoodsHere(po', receipts', invoices')
  BY DEF CreateReceipt
<1>2. row \in Receipts
  BY DEF Receipts, Final, Pending, Counting
<1> HIDE DEF row
<1>3. /\ receipts' \in Seq(Receipts)
      /\ \A h \in DOMAIN receipts : h \in DOMAIN receipts' /\ receipts'[h] = receipts[h]
      /\ Len(receipts) + 1 \in DOMAIN receipts' /\ receipts'[Len(receipts) + 1] = row
  BY <1>1, <1>2, AppendProperties, LenProperties DEF Inv
<1>4. CASE po.source = "pr"
  <2>1. po' = po
    BY <1>4 DEF CreateReceipt
  <2>2. Counted(receipts) \subseteq Counted(receipts')
    BY <1>3 DEF Counted
  <2> QED
    BY <2>1, <2>2, <1>1, <1>3, GoodsKeep DEF Inv, OrderRow, QuantityIsCounted
<1>5. CASE po.source # "pr"
  <2>1. OrderRow(po')
    BY <1>5, SyncedKeeps, WrittenRow DEF CreateReceipt, Posted, Inv
  <2>2. row.status \in Counting
    BY <1>5 DEF row, Final, Counting
  <2>3. QuantityIsCounted'
    BY <1>3, <2>2 DEF QuantityIsCounted, Counted
  <2> QED
    BY <2>1, <2>3, <1>1, <1>3, GoodsKeep
<1> QED BY <1>4, <1>5

LEMMA PostKeeps ==
  ASSUME Inv, NEW g \in DOMAIN receipts, NEW s \in Counting, Post(g, s)
  PROVE  Inv'
<1>1. OrderRow(po')
  BY SyncedKeeps, WrittenRow DEF Post, Posted, Inv
<1>2. receipts[g] \in Receipts
  BY ElementOfSeq, LenProperties DEF Inv
<1>3. ReasonWhenPosted(g) \in BOOLEAN
  BY <1>2 DEF ReasonWhenPosted, Receipts
<1>4. receipts' \in Seq(Receipts) /\ g \in Counted(receipts')
  BY <1>3, PostWritten DEF Post, Inv
<1>5. QuantityIsCounted'
  BY <1>4 DEF QuantityIsCounted, Counted
<1> QED
  BY <1>1, <1>4, <1>5, GoodsKeep DEF Post

LEMMA DeleteReceiptKeeps ==
  ASSUME Inv, NEW g \in DOMAIN receipts, DeleteReceipt(g) PROVE Inv'
<1>1. /\ receipts' \in Seq(Receipts)
      /\ DOMAIN receipts' = DOMAIN receipts
      /\ receipts'[g].status = "gone"
      /\ \A h \in DOMAIN receipts' : h # g => receipts'[h] = receipts[h]
  BY StatusWritten DEF Inv, DeleteReceipt
<1> DEFINE n == Recount(receipts')
           recounted == [po EXCEPT !.received = n]
<1>0. po' = Synced(recounted)
  BY DEF DeleteReceipt
<1> HIDE DEF n
<1>a. OrderRow(recounted) /\ recounted.received = n
  BY WrittenRow DEF Inv
<1> HIDE DEF recounted
<1>2. OrderRow(po') /\ po'.received = Recount(receipts')
  BY <1>0, <1>a, SyncedKeeps DEF n
<1>3. Counted(receipts') = {} => ~ (po'.received > 0)
  BY <1>2 DEF Recount, Quantity
<1>4. Alive(receipts') \subseteq Alive(receipts)
  BY <1>1 DEF Alive, Recorded
<1>5. nudged' => ~ Evidence(po', receipts')
  BY <1>3, <1>4, CountedAlive DEF Inv, NudgeTruthful, Evidence, DeleteReceipt, tasks
<1> QED
  BY <1>1, <1>2, <1>3, <1>5 DEF Inv, QuantityIsCounted, NudgeTruthful, Counted, OrderRow, Evidence,
                                Alive, Recorded

LEMMA ServiceDueKeeps ==
  ASSUME Inv, ServiceDue PROVE Inv'
<1>1. Alive(receipts) = {} /\ UNCHANGED <<po, receipts>>
  BY DEF ServiceDue, records
<1>2. ~ Evidence(po, receipts)
  BY <1>1, CountedAlive DEF Evidence, Inv, QuantityIsCounted
<1> QED
  BY <1>1, <1>2 DEF Inv, OrderRow, QuantityIsCounted, NudgeTruthful, Evidence, Alive, Recorded, Counted

-----------------------------------------------------------------------------
LEMMA StepKeeps ==
  Inv /\ [Next]_vars => Inv'
<1> SUFFICES ASSUME Inv, [Next]_vars PROVE Inv'
  OBVIOUS
<1>1. CASE PlaceOrder
  BY <1>1, PlaceOrderKeeps
<1>2. CASE SwitchGate
  BY <1>2, NoNudge DEF SwitchGate, records, tasks
<1>3. CASE ServiceDue
  BY <1>3, ServiceDueKeeps
<1>4. CASE Upload
  BY <1>4, NoNudge DEF Upload, tasks
<1>5. CASE CreatePayment
  BY <1>5, NoNudge DEF CreatePayment
<1>6. CASE OpenInbox
  BY <1>6, NoNudge DEF OpenInbox, records
<1>7. ASSUME NEW qty \in Quantities, CreateReceipt(qty) PROVE Inv'
  BY <1>7, CreateReceiptKeeps
<1>8. ASSUME NEW g \in DOMAIN receipts, Acknowledge(g) PROVE Inv'
  BY <1>8, UnderWayKeeps DEF Acknowledge, tasks, Pending, Counting
<1>9. ASSUME NEW g \in DOMAIN receipts, Collect(g) PROVE Inv'
  BY <1>9, PostKeeps DEF Collect, Counting
<1>10. ASSUME NEW g \in DOMAIN receipts, Confirm(g) PROVE Inv'
  BY <1>10, PostKeeps DEF Confirm, Counting
<1>11. ASSUME NEW g \in DOMAIN receipts, CloseReceipt(g) PROVE Inv'
  BY <1>11, UnderWayKeeps DEF CloseReceipt, tasks, Pending, Counting, Dead
<1>12. ASSUME NEW g \in DOMAIN receipts, DeleteReceipt(g) PROVE Inv'
  BY <1>12, DeleteReceiptKeeps
<1>13. ASSUME NEW v \in DOMAIN invoices, Match(v) PROVE Inv'
  BY <1>13, StatusKeeps DEF Match, Settled
<1>14. ASSUME NEW v \in DOMAIN invoices, Review(v) PROVE Inv'
  BY <1>14, StatusKeeps, NoNudge DEF Review, Settled, tasks
<1>15. ASSUME NEW v \in DOMAIN invoices, AcceptException(v) PROVE Inv'
  BY <1>15, StatusKeeps DEF AcceptException, Settled
<1>16. ASSUME NEW v \in DOMAIN invoices, UnmatchPo(v) PROVE Inv'
  BY <1>16, NoNudge DEF UnmatchPo, Settled, Withdraw
<1>17. ASSUME NEW v \in DOMAIN invoices, UnmatchGr(v) PROVE Inv'
  BY <1>17, NoNudge DEF UnmatchGr, Settled, Withdraw
<1>18. ASSUME NEW v \in DOMAIN invoices, DeleteInvoice(v) PROVE Inv'
  BY <1>18, NoNudge DEF DeleteInvoice, Settled
<1>19. ASSUME NEW i \in DOMAIN payments, DropPayment(i) PROVE Inv'
  BY <1>19, NoNudge DEF DropPayment
<1>20. CASE UNCHANGED vars
  BY <1>20, NoNudge DEF vars, records, tasks
<1> QED
  BY <1>1, <1>2, <1>3, <1>4, <1>5, <1>6, <1>7, <1>8, <1>9, <1>10, <1>11, <1>12, <1>13,
     <1>14, <1>15, <1>16, <1>17, <1>18, <1>19, <1>20 DEF Next

(* While a confirm_receipt task is open nothing of the order is here: no   *)
(* receipt is alive and no quantity is on its line.                        *)
THEOREM NudgesAreTrue == Spec => []NudgeTruthful
<1>1. Inv => NudgeTruthful
  BY DEF Inv
<1> QED
  BY <1>1, InitInv, StepKeeps, PTL DEF Spec

-----------------------------------------------------------------------------
(* The receipt status follows the quantity.                                *)

StatusInv == OrderRow(po) /\ StatusTellsReceived

LEMMA SyncedTells ==
  ASSUME NEW p, OrderRow(p), po' = Synced(p)
  PROVE  StatusInv'
<1>1. OrderRow(po') /\ po'.received = p.received
  BY SyncedKeeps
<1>2. po'.status = IF p.status \in Tracking THEN ReceiptStatus(p.received) ELSE p.status
  BY DEF Synced, OrderRow, Keys
<1>3. (po'.status = ReceiptStatus(po'.received)) = (po.status = ReceiptStatus(po.received))'
  BY DEF ReceiptStatus
<1> QED
  BY <1>1, <1>2, <1>3 DEF StatusInv, StatusTellsReceived, OrderRow

LEMMA StatusInit == Init => StatusInv
<1> SUFFICES ASSUME Init PROVE StatusInv
  OBVIOUS
<1>1. OrderRow(po) /\ po.status \in {"approved", "issued"} /\ po.received = 0
  BY DEF Init, OrderRow, Keys
<1>2. ReceiptStatus(0) = "issued"
  BY QuantityAssumption DEF ReceiptStatus
<1> QED
  BY <1>1, <1>2 DEF StatusInv, StatusTellsReceived, Tracking

LEMMA PostedTells ==
  ASSUME StatusInv, NEW qty, po' = Posted(qty)
  PROVE  StatusInv'
<1> DEFINE q == po.received + qty
           posted == [po EXCEPT !.received = q]
<1>1. po' = Synced(posted)
  BY DEF Posted
<1> HIDE DEF q
<1>2. OrderRow(posted)
  BY WrittenRow DEF StatusInv
<1> HIDE DEF posted
<1> QED BY <1>1, <1>2, SyncedTells

LEMMA RecountedTells ==
  ASSUME StatusInv, NEW n, po' = Synced([po EXCEPT !.received = n])
  PROVE  StatusInv'
<1> DEFINE recounted == [po EXCEPT !.received = n]
<1>1. OrderRow(recounted)
  BY WrittenRow DEF StatusInv
<1> HIDE DEF recounted
<1> QED BY <1>1, SyncedTells DEF recounted

LEMMA PlacedTells ==
  ASSUME StatusInv, po' = Placed
  PROVE  StatusInv'
<1> DEFINE issued == [po EXCEPT !.status = "issued"]
<1>1. OrderRow(issued) /\ po' = Synced(issued)
  BY WrittenRow DEF StatusInv, Placed
<1> HIDE DEF issued
<1> QED BY <1>1, SyncedTells

LEMMA SameOrderTells ==
  ASSUME StatusInv, po' = po PROVE StatusInv'
BY DEF StatusInv, OrderRow, StatusTellsReceived, ReceiptStatus

LEMMA StatusStep ==
  StatusInv /\ [Next]_vars => StatusInv'
<1> SUFFICES ASSUME StatusInv, [Next]_vars PROVE StatusInv'
  OBVIOUS
<1>1. CASE PlaceOrder
  BY <1>1, PlacedTells DEF PlaceOrder
<1>2. ASSUME NEW qty \in Quantities, CreateReceipt(qty) PROVE StatusInv'
  BY <1>2, PostedTells, SameOrderTells DEF CreateReceipt
<1>3. ASSUME NEW g \in DOMAIN receipts, Collect(g) \/ Confirm(g) PROVE StatusInv'
  BY <1>3, PostedTells DEF Collect, Confirm, Post
<1>4. ASSUME NEW g \in DOMAIN receipts, DeleteReceipt(g) PROVE StatusInv'
  BY <1>4, RecountedTells DEF DeleteReceipt
<1>5. CASE po' = po
  BY <1>5, SameOrderTells
<1> QED
  BY <1>1, <1>2, <1>3, <1>4, <1>5
  DEF Next, vars, records, SwitchGate, ServiceDue, Upload, CreatePayment, OpenInbox, Acknowledge,
      CloseReceipt, Match, Review, AcceptException, UnmatchPo, UnmatchGr, DeleteInvoice, Settled,
      DropPayment

(* An order that is out with the supplier has the receipt status its       *)
(* quantities imply.                                                       *)
THEOREM StatusFollows == Spec => []StatusTellsReceived
<1>1. StatusInv => StatusTellsReceived
  BY DEF StatusInv
<1> QED
  BY <1>1, StatusInit, StatusStep, PTL DEF Spec

-----------------------------------------------------------------------------
(* The type invariant.  A recount of the receipts is a sum.                *)

Prompts == [open : 0 .. 2, done : 0 .. 2]
QtyOf(rs) == [g \in DOMAIN rs |-> rs[g].qty]

(* The quantities of a finite set of receipts are added up.                *)
LEMMA QuantityFolds ==
  ASSUME NEW rs, NEW some, IsFiniteSet(some), NEW w,
         \A g \in some : w[g] = rs[g].qty /\ w[g] \in Int
  PROVE  Quantity(rs, some) = SumOf(w, some)
<1> DEFINE Iterates(f) == f = [s \in SUBSET some |->
             IF s = {} THEN 0 ELSE rs[Some(s)].qty + f[s \ {Some(s)}]]
           iter == CHOOSE f : Iterates(f)
<1>1. PICK f \in [SUBSET some -> Int] : Unfolds(f, w, some)
  BY FoldExists
<1>2. \A s \in SUBSET some : s # {} => Some(s) \in some
  BY DEF Some
<1>3. Iterates(f)
  BY <1>1, <1>2 DEF Unfolds
<1>4. Iterates(iter)
  BY <1>3, Zenon
<1>5. Unfolds(iter, w, some)
  <2> HIDE DEF iter
  <2>1. ASSUME NEW s \in SUBSET some, s # {}
        PROVE  iter[s] = w[Some(s)] + iter[s \ {Some(s)}]
    <3>1. iter[s] = rs[Some(s)].qty + iter[s \ {Some(s)}]
      BY <1>4, <2>1
    <3>2. w[Some(s)] = rs[Some(s)].qty
      BY <1>2, <2>1
    <3> QED BY <3>1, <3>2
  <2>2. iter[{}] = 0
    BY <1>4
  <2> QED BY <2>1, <2>2 DEF Unfolds
<1>6. iter[some] = SumOf(w, some)
  <2> HIDE DEF iter
  <2> QED BY <1>5, SumIsFold
<1>7. MapThenSumSet(LAMBDA g : rs[g].qty, some) = iter[some]
  BY Zenon DEF MapThenSumSet, MapThenFoldSet, Some
<1>8. some = {} => SumOf(w, some) = 0
  BY SumEmpty
<1> QED
  BY <1>6, <1>7, <1>8 DEF Quantity

LEMMA QuantityIsSum ==
  ASSUME NEW rs \in Seq(Receipts), NEW some \in SUBSET DOMAIN rs
  PROVE  /\ Quantity(rs, some) = SumOf(QtyOf(rs), some)
         /\ IsFiniteSet(some)
         /\ \A g \in DOMAIN rs : QtyOf(rs)[g] = rs[g].qty /\ rs[g].qty \in Nat \ {0}
<1>1. DOMAIN rs = 1 .. Len(rs) /\ Len(rs) \in Nat
  BY LenProperties
<1>2. IsFiniteSet(1 .. Len(rs))
  BY <1>1, FS_Interval
<1>3. IsFiniteSet(some)
  BY <1>1, <1>2, FS_Subset
<1>4. ASSUME NEW g \in DOMAIN rs
      PROVE  QtyOf(rs)[g] = rs[g].qty /\ rs[g].qty \in Nat \ {0}
  <2>1. rs[g] \in Receipts
    BY <1>1, ElementOfSeq
  <2> QED
    BY <2>1, QuantityAssumption DEF QtyOf, Receipts
<1>5. Quantity(rs, some) = SumOf(QtyOf(rs), some)
  <2> DEFINE w == QtyOf(rs)
  <2>1. \A g \in some : w[g] = rs[g].qty /\ w[g] \in Int
    BY <1>4
  <2> HIDE DEF w
  <2> QED BY <1>3, <2>1, QuantityFolds, Zenon DEF w
<1> QED
  BY <1>3, <1>4, <1>5

LEMMA QuantityNat ==
  ASSUME NEW rs \in Seq(Receipts), NEW some \in SUBSET DOMAIN rs
  PROVE  Quantity(rs, some) \in Nat
BY QuantityIsSum, SumNat

(* Writing the columns of an order leaves an order.                        *)
LEMMA OrderWritten ==
  ASSUME NEW p \in Orders, NEW n \in Nat
  PROVE  /\ [p EXCEPT !.status = "issued"] \in Orders
         /\ [p EXCEPT !.received = n] \in Orders
BY DEF Orders, Tracking

LEMMA StatusType ==
  ASSUME NEW n \in Nat PROVE ReceiptStatus(n) \in Tracking
BY QuantityAssumption DEF ReceiptStatus, Tracking

LEMMA SyncedType ==
  ASSUME NEW p \in Orders PROVE Synced(p) \in Orders
<1> DEFINE s == ReceiptStatus(p.received)
<1>1. s \in Tracking
  BY StatusType DEF Orders
<1> HIDE DEF s
<1>2. [p EXCEPT !.status = s] \in Orders
  BY <1>1 DEF Orders
<1> QED
  BY <1>2 DEF Synced, s

LEMMA PromptsType ==
  ASSUME prompts \in Prompts
  PROVE  Raised \in Prompts /\ Completed \in Prompts /\ Reopened \in Prompts
         /\ Raised.open > 0
BY DEF Prompts, Raised, Completed, Reopened, Many

TasksOK == prompts \in Prompts /\ nudged \in BOOLEAN

LEMMA GoodsHereType ==
  ASSUME TasksOK, NEW p, NEW rs, NEW vs, GoodsHere(p, rs, vs)
  PROVE  TasksOK'
BY PromptsType DEF TasksOK, GoodsHere

LEMMA InvoiceHereType ==
  ASSUME TasksOK, NEW vs, InvoiceHere(vs)
  PROVE  TasksOK'
BY PromptsType DEF TasksOK, InvoiceHere, tasks, Ready, Evidence

LEMMA WithdrawType ==
  ASSUME TasksOK, NEW vs, Withdraw(vs)
  PROVE  TasksOK'
BY PromptsType DEF TasksOK, Withdraw, Billed

(* An invoice row written in place.                                        *)
LEMMA InvoiceWritten ==
  ASSUME invoices \in Seq(InvoiceRows), NEW v \in DOMAIN invoices, NEW row \in InvoiceRows,
         Settled(v, row)
  PROVE  /\ invoices' \in Seq(InvoiceRows)
         /\ DOMAIN invoices' = DOMAIN invoices
         /\ invoices'[v] = row
         /\ \A u \in DOMAIN invoices : u # v => invoices'[u] = invoices[u]
<1>1. invoices' = [invoices EXCEPT ![v] = row]
  BY DEF Settled
<1>2. invoices' \in Seq(InvoiceRows)
  BY <1>1, ExceptSeq, LenProperties
<1> QED
  BY <1>1, <1>2
(* Rewriting every row of a sequence leaves a sequence.                    *)
LEMMA RowsRewritten ==
  ASSUME NEW S, NEW seq \in Seq(S), NEW f \in [DOMAIN seq -> S]
  PROVE  f \in Seq(S)
<1>1. DOMAIN seq = 1 .. Len(seq) /\ Len(seq) \in Nat
  BY LenProperties
<1> QED
  BY <1>1, SeqDef

LEMMA TypeInit == Init => ReceiptTypeOK
<1> SUFFICES ASSUME Init PROVE ReceiptTypeOK
  OBVIOUS
<1>1. po \in Orders
  BY DEF Init, Orders, Tracking
<1>2. Imported \in InvoiceRows
  BY DEF Imported, InvoiceRows
<1>0. /\ receipts = << >> /\ payments = << >> /\ invoices \in {<< >>, <<Imported>>}
      /\ prompts = [open |-> 0, done |-> 0] /\ nudged = FALSE
  BY Zenon DEF Init
<1>3. receipts \in Seq(Receipts) /\ payments \in Seq(Payments) /\ invoices \in Seq(InvoiceRows)
  <2>1. << >> \in Seq(Receipts) /\ << >> \in Seq(Payments) /\ << >> \in Seq(InvoiceRows)
    OBVIOUS
  <2>2. <<Imported>> \in Seq(InvoiceRows)
    BY <1>2
  <2> QED
    BY <1>0, <2>1, <2>2, Zenon
<1>4. prompts \in [open : 0 .. 2, done : 0 .. 2] /\ nudged \in BOOLEAN
  <2>1. [open |-> 0, done |-> 0] \in [open : 0 .. 2, done : 0 .. 2] /\ FALSE \in BOOLEAN
    OBVIOUS
  <2> QED
    BY <1>0, <2>1, Zenon
<1>5. gate \in {"off", "on", "lifted"}
  BY DEF Init
<1> QED
  BY <1>1, <1>3, <1>4, <1>5 DEF ReceiptTypeOK

(* A new receipt, and the invoices it joins.                               *)
LEMMA CreateReceiptType ==
  ASSUME ReceiptTypeOK, NEW qty \in Quantities, CreateReceipt(qty)
  PROVE  ReceiptTypeOK'
<1> DEFINE status == IF po.source = "pr" THEN "pending_ack" ELSE Final
           row == [status |-> status, qty |-> qty, reason |-> qty > Open]
           g == Len(receipts) + 1
<1>1. receipts' = Append(receipts, row)
  BY DEF CreateReceipt
<1>2. row \in Receipts
  BY DEF Receipts, Final, Pending, Counting
<1> HIDE DEF row
<1>3. receipts' \in Seq(Receipts)
  BY <1>1, <1>2, AppendProperties DEF ReceiptTypeOK
<1>4. po' \in Orders
  <2>1. po.received + qty \in Nat
    BY QuantityAssumption DEF ReceiptTypeOK, Orders
  <2>2. Posted(qty) \in Orders
    BY <2>1, OrderWritten, SyncedType DEF Posted, ReceiptTypeOK
  <2> QED
    BY <2>2 DEF CreateReceipt, ReceiptTypeOK
<1>5. invoices' \in Seq(InvoiceRows)
  <2>1. g \in Nat
    BY LenProperties DEF ReceiptTypeOK
  <2> HIDE DEF g
  <2>2. ASSUME NEW v \in DOMAIN invoices PROVE Autofilled(g)[v] \in InvoiceRows
    <3>1. invoices[v] \in InvoiceRows
      BY ElementOfSeq, LenProperties DEF ReceiptTypeOK
    <3>2. [invoices[v] EXCEPT !.grs = @ \cup {g}] \in InvoiceRows
      BY <2>1, <3>1 DEF InvoiceRows
    <3> QED
      BY <3>1, <3>2 DEF Autofilled
  <2>3. Autofilled(g) \in [DOMAIN invoices -> InvoiceRows]
    BY <2>2 DEF Autofilled
  <2> QED
    BY <2>3, RowsRewritten DEF ReceiptTypeOK, CreateReceipt, g
<1>6. TasksOK'
  BY GoodsHereType DEF CreateReceipt, ReceiptTypeOK, TasksOK, Prompts
<1> QED
  BY <1>3, <1>4, <1>5, <1>6 DEF ReceiptTypeOK, TasksOK, Prompts, CreateReceipt

LEMMA StatusWrittenType ==
  ASSUME ReceiptTypeOK, NEW g \in DOMAIN receipts,
         NEW s \in Pending \cup Counting \cup Dead \cup {"gone"},
         receipts' = [receipts EXCEPT ![g].status = s]
  PROVE  receipts' \in Seq(Receipts)
BY StatusWritten DEF ReceiptTypeOK

LEMMA PostType ==
  ASSUME ReceiptTypeOK, NEW g \in DOMAIN receipts, NEW s \in Counting, Post(g, s)
  PROVE  ReceiptTypeOK'
<1>1. receipts[g] \in Receipts
  BY ElementOfSeq, LenProperties DEF ReceiptTypeOK
<1>2. ReasonWhenPosted(g) \in BOOLEAN
  BY <1>1 DEF ReasonWhenPosted, Receipts
<1>3. receipts' \in Seq(Receipts)
  BY <1>2, PostWritten DEF Post, ReceiptTypeOK
<1>4. po.received + receipts[g].qty \in Nat
  <2>1. receipts[g].qty \in Nat
    BY <1>1, QuantityAssumption DEF Receipts
  <2>2. po.received \in Nat
    BY DEF ReceiptTypeOK, Orders
  <2> QED
    BY <2>1, <2>2
<1>5. po' \in Orders
  BY <1>4, OrderWritten, SyncedType DEF Post, Posted, ReceiptTypeOK
<1>6. TasksOK'
  BY GoodsHereType DEF Post, ReceiptTypeOK, TasksOK, Prompts
<1> QED
  BY <1>3, <1>5, <1>6 DEF ReceiptTypeOK, TasksOK, Prompts, Post

LEMMA DeleteReceiptType ==
  ASSUME ReceiptTypeOK, NEW g \in DOMAIN receipts, DeleteReceipt(g)
  PROVE  ReceiptTypeOK'
<1>1. receipts' \in Seq(Receipts)
  BY StatusWrittenType DEF DeleteReceipt
<1>2. Recount(receipts') \in Nat
  BY <1>1, QuantityNat DEF Recount, Counted
<1>3. po' \in Orders
  BY <1>2, OrderWritten, SyncedType DEF DeleteReceipt, ReceiptTypeOK
<1>4. invoices' \in Seq(InvoiceRows)
  <2>1. ASSUME NEW v \in DOMAIN invoices
        PROVE  invoices[v] \in InvoiceRows /\ [invoices[v] EXCEPT !.grs = {}] \in InvoiceRows
    <3>1. invoices[v] \in InvoiceRows
      BY ElementOfSeq, LenProperties DEF ReceiptTypeOK
    <3> QED
      BY <3>1 DEF InvoiceRows
  <2>2. invoices' \in [DOMAIN invoices -> InvoiceRows]
    BY <2>1 DEF DeleteReceipt
  <2> QED
    BY <2>2, RowsRewritten DEF ReceiptTypeOK
<1> QED
  BY <1>1, <1>3, <1>4 DEF ReceiptTypeOK, DeleteReceipt, tasks

(* An invoice row is written and its prompts follow.                       *)
LEMMA SettledType ==
  ASSUME ReceiptTypeOK, NEW v \in DOMAIN invoices, NEW row \in InvoiceRows, Settled(v, row),
         \/ UNCHANGED tasks
         \/ \E s : Downstream(s)
         \/ Withdraw(invoices')
         \/ UNCHANGED nudged /\ prompts' \in {prompts, Completed}
  PROVE  ReceiptTypeOK'
<1>1. invoices' \in Seq(InvoiceRows)
  BY InvoiceWritten DEF ReceiptTypeOK
<1>2. TasksOK
  BY DEF ReceiptTypeOK, TasksOK, Prompts
<1>3. TasksOK'
  BY <1>2, InvoiceHereType, WithdrawType, PromptsType DEF Downstream, tasks, TasksOK
<1> QED
  BY <1>1, <1>3 DEF ReceiptTypeOK, TasksOK, Prompts, Settled

LEMMA CreatePaymentType ==
  ASSUME ReceiptTypeOK, CreatePayment PROVE ReceiptTypeOK'
<1>1. PICK kind \in {"regular", "prepayment"},
           claims \in SUBSET {v \in DOMAIN invoices : invoices[v].on # "none" /\ ~ Claimed(v)} :
        payments' = Append(payments, [kind |-> kind, status |-> "live", invoices |-> claims])
  BY DEF CreatePayment
<1>2. DOMAIN invoices \subseteq Nat
  BY LenProperties DEF ReceiptTypeOK
<1>3. [kind |-> kind, status |-> "live", invoices |-> claims] \in Payments
  BY <1>2 DEF Payments
<1>4. payments' \in Seq(Payments)
  BY <1>1, <1>3, AppendProperties DEF ReceiptTypeOK
<1>5. prompts' \in Prompts
  BY PromptsType DEF ReceiptTypeOK, Prompts, CreatePayment
<1> QED
  BY <1>4, <1>5 DEF ReceiptTypeOK, CreatePayment, Prompts

LEMMA DropPaymentType ==
  ASSUME ReceiptTypeOK, NEW i \in DOMAIN payments, DropPayment(i) PROVE ReceiptTypeOK'
<1>1. PICK s \in {"released", "gone"} : payments' = [payments EXCEPT ![i].status = s]
  BY DEF DropPayment
<1> DEFINE row == [payments[i] EXCEPT !.status = s]
<1>2. payments[i] \in Payments
  BY ElementOfSeq, LenProperties DEF ReceiptTypeOK
<1>3. row \in Payments
  BY <1>2 DEF Payments
<1>4. payments' = [payments EXCEPT ![i] = row]
  BY <1>1
<1> HIDE DEF row
<1>5. payments' \in Seq(Payments)
  BY <1>3, <1>4, ExceptSeq, LenProperties DEF ReceiptTypeOK
<1>6. prompts' \in Prompts
  BY PromptsType DEF ReceiptTypeOK, Prompts, DropPayment, Uncovered
<1> QED
  BY <1>5, <1>6 DEF ReceiptTypeOK, DropPayment, Prompts

LEMMA TypeStep ==
  ReceiptTypeOK /\ [Next]_vars => ReceiptTypeOK'
<1> SUFFICES ASSUME ReceiptTypeOK, [Next]_vars PROVE ReceiptTypeOK'
  OBVIOUS
<1>a. ASSUME NEW v \in DOMAIN invoices
      PROVE  /\ invoices[v] \in InvoiceRows
             /\ \A s \in {"unmatched", "match_review", "exception", "matched"},
                   grs \in SUBSET DOMAIN receipts :
                  /\ [status |-> s, on |-> "allocated", grs |-> grs] \in InvoiceRows
                  /\ [invoices[v] EXCEPT !.status = s] \in InvoiceRows
                  /\ [invoices[v] EXCEPT !.grs = {}] \in InvoiceRows
                  /\ [invoices[v] EXCEPT !.status = s,
                         !.grs = IF @ = {} THEN Alive(receipts) ELSE @] \in InvoiceRows
  <2>1. invoices[v] \in InvoiceRows
    BY ElementOfSeq, LenProperties DEF ReceiptTypeOK
  <2>2. DOMAIN receipts \subseteq Nat /\ Alive(receipts) \subseteq DOMAIN receipts
    BY LenProperties DEF ReceiptTypeOK, Alive, Recorded
  <2> QED
    BY <2>1, <2>2 DEF InvoiceRows
<1>b. Unmatched \in InvoiceRows /\ [status |-> "gone", on |-> "none", grs |-> {}] \in InvoiceRows
  BY DEF Unmatched, InvoiceRows
<1>1. CASE PlaceOrder
  BY <1>1, OrderWritten, SyncedType DEF PlaceOrder, Placed, ReceiptTypeOK, records, tasks, Orders
<1>2. CASE SwitchGate
  BY <1>2 DEF SwitchGate, ReceiptTypeOK, records, tasks
<1>3. CASE ServiceDue
  BY <1>3 DEF ServiceDue, ReceiptTypeOK, records
<1>4. CASE Upload
  BY <1>4, <1>b, AppendProperties DEF Upload, ReceiptTypeOK, tasks
<1>5. CASE CreatePayment
  BY <1>5, CreatePaymentType
<1>6. CASE OpenInbox
  BY <1>6, PromptsType DEF OpenInbox, ReceiptTypeOK, records, Prompts
<1>7. ASSUME NEW qty \in Quantities, CreateReceipt(qty) PROVE ReceiptTypeOK'
  BY <1>7, CreateReceiptType
<1>8. ASSUME NEW g \in DOMAIN receipts, Acknowledge(g) PROVE ReceiptTypeOK'
  BY <1>8, StatusWrittenType DEF Acknowledge, ReceiptTypeOK, tasks, Pending
<1>9. ASSUME NEW g \in DOMAIN receipts, Collect(g) \/ Confirm(g) PROVE ReceiptTypeOK'
  BY <1>9, PostType DEF Collect, Confirm, Counting
<1>11. ASSUME NEW g \in DOMAIN receipts, CloseReceipt(g) PROVE ReceiptTypeOK'
  BY <1>11, StatusWrittenType DEF CloseReceipt, ReceiptTypeOK, tasks, Counting, Dead
<1>12. ASSUME NEW g \in DOMAIN receipts, DeleteReceipt(g) PROVE ReceiptTypeOK'
  BY <1>12, DeleteReceiptType
<1>13. ASSUME NEW v \in DOMAIN invoices, Match(v) PROVE ReceiptTypeOK'
  BY <1>13, <1>a, SettledType DEF Match, Recorded
<1>14. ASSUME NEW v \in DOMAIN invoices, Review(v) PROVE ReceiptTypeOK'
  BY <1>14, <1>a, SettledType DEF Review
<1>15. ASSUME NEW v \in DOMAIN invoices, AcceptException(v) PROVE ReceiptTypeOK'
  BY <1>15, <1>a, SettledType DEF AcceptException
<1>16. ASSUME NEW v \in DOMAIN invoices, UnmatchPo(v) \/ UnmatchGr(v) PROVE ReceiptTypeOK'
  BY <1>16, <1>a, <1>b, SettledType DEF UnmatchPo, UnmatchGr
<1>18. ASSUME NEW v \in DOMAIN invoices, DeleteInvoice(v) PROVE ReceiptTypeOK'
  BY <1>18, <1>b, SettledType DEF DeleteInvoice
<1>19. ASSUME NEW i \in DOMAIN payments, DropPayment(i) PROVE ReceiptTypeOK'
  BY <1>19, DropPaymentType
<1>20. CASE UNCHANGED vars
  BY <1>20 DEF vars, records, tasks, ReceiptTypeOK
<1> QED
  BY <1>1, <1>2, <1>3, <1>4, <1>5, <1>6, <1>7, <1>8, <1>9, <1>11, <1>12, <1>13,
     <1>14, <1>15, <1>16, <1>18, <1>19, <1>20 DEF Next

(* Every row stays of its type; no quantity on the line drops below zero.  *)
THEOREM ReceiptTypes == Spec => []ReceiptTypeOK
BY TypeInit, TypeStep, PTL DEF Spec


-----------------------------------------------------------------------------
(* More than was ordered, only with a reason.  The quantity on the line    *)
(* covers the receipts that count (a receipt confirmed after it was        *)
(* collected is on it twice), and the receipts that count without a reason *)
(* fit the order together.  The second part is what a recount falls back   *)
(* on when the receipt that carried the reason is deleted.                 *)

Unexplained(rs) == {g \in Counted(rs) : ~ rs[g].reason}

LineHoldsReceipts ==
  /\ Quantity(receipts, Counted(receipts)) <= po.received
  /\ Quantity(receipts, Unexplained(receipts)) <= Ordered

LineInv == ReceiptTypeOK /\ LineHoldsReceipts /\ OverReceiptExplained

(* A smaller set of receipts amounts to no more.                           *)
LEMMA QuantityGrows ==
  ASSUME NEW rs \in Seq(Receipts), NEW few \in SUBSET DOMAIN rs, NEW some \in SUBSET DOMAIN rs,
         some \subseteq few
  PROVE  Quantity(rs, some) <= Quantity(rs, few)
<1> DEFINE w == QtyOf(rs)
<1>1. IsFiniteSet(few) /\ \A g \in few : w[g] \in Nat
  BY QuantityIsSum
<1> HIDE DEF w
<1>2. SumOf(w, some) <= SumOf(w, few)
  BY <1>1, SumNat
<1> QED
  BY <1>2, QuantityIsSum DEF w

(* Receipts that kept their quantities amount to the same.                 *)
LEMMA QuantitySame ==
  ASSUME NEW rs \in Seq(Receipts), NEW old \in Seq(Receipts),
         NEW some \in SUBSET (DOMAIN rs \cap DOMAIN old), \A g \in some : rs[g].qty = old[g].qty
  PROVE  Quantity(rs, some) = Quantity(old, some)
<1> DEFINE v == QtyOf(rs)
           w == QtyOf(old)
<1>0. some \in SUBSET DOMAIN rs /\ some \in SUBSET DOMAIN old
  OBVIOUS
<1>1. IsFiniteSet(some) /\ \A g \in some : v[g] = w[g] /\ w[g] \in Int
  <2>1. IsFiniteSet(some) /\ \A g \in some : v[g] = rs[g].qty
    BY <1>0, QuantityIsSum
  <2>2. \A g \in some : w[g] = old[g].qty /\ old[g].qty \in Int
    <3>1. \A g \in DOMAIN old : w[g] = old[g].qty /\ old[g].qty \in Nat \ {0}
      BY <1>0, QuantityIsSum
    <3> HIDE DEF w
    <3> QED
      BY <1>0, <3>1
  <2> QED
    BY <2>1, <2>2
<1> HIDE DEF v, w
<1>2. SumOf(v, some) = SumOf(w, some)
  BY <1>1, SumSame
<1> QED
  BY <1>0, <1>2, QuantityIsSum DEF v, w

(* One more receipt adds its quantity.                                     *)
LEMMA QuantityOneMore ==
  ASSUME NEW rs \in Seq(Receipts), NEW some \in SUBSET DOMAIN rs, NEW g \in DOMAIN rs, g \notin some
  PROVE  Quantity(rs, some \cup {g}) = Quantity(rs, some) + rs[g].qty
<1> DEFINE w == QtyOf(rs)
           more == some \cup {g}
<1>1. IsFiniteSet(more) /\ (\A h \in more : w[h] \in Int) /\ w[g] = rs[g].qty
  <2>1. more \in SUBSET DOMAIN rs /\ g \in more
    OBVIOUS
  <2> HIDE DEF more
  <2>2. /\ IsFiniteSet(more)
        /\ \A h \in more : w[h] = rs[h].qty /\ rs[h].qty \in Nat \ {0}
    BY <2>1, QuantityIsSum
  <2> HIDE DEF w
  <2> QED
    BY <2>1, <2>2
<1>2. more \ {g} = some /\ g \in more
  OBVIOUS
<1> HIDE DEF w, more
<1>3. SumOf(w, more) = w[g] + SumOf(w, more \ {g})
  BY <1>1, <1>2, SumStep
<1>4. SumOf(w, more) = w[g] + SumOf(w, some)
  BY <1>2, <1>3, Zenon
<1>5. Quantity(rs, more) = SumOf(w, more) /\ Quantity(rs, some) = SumOf(w, some)
  BY QuantityIsSum DEF w, more
<1>6. Quantity(rs, some) \in Nat /\ rs[g].qty \in Nat
  BY QuantityNat, QuantityIsSum
<1> QED
  BY <1>1, <1>4, <1>5, <1>6 DEF more

LEMMA LineInit == Init => LineInv
<1> SUFFICES ASSUME Init PROVE LineInv
  OBVIOUS
<1>1. receipts = << >> /\ po.received = 0
  BY DEF Init
<1>2. Counted(receipts) = {} /\ Unexplained(receipts) = {}
  BY <1>1 DEF Counted, Unexplained
<1>3. LineHoldsReceipts /\ OverReceiptExplained
  BY <1>1, <1>2, QuantityAssumption DEF LineHoldsReceipts, Quantity, OverReceiptExplained
<1> QED
  BY <1>3, TypeInit DEF LineInv

(* Receipts that count as before, on a line that holds the same.           *)
LEMMA LineSame ==
  ASSUME LineInv, ReceiptTypeOK', po'.received = po.received,
         Counted(receipts') = Counted(receipts),
         \A g \in Counted(receipts) :
            receipts'[g].qty = receipts[g].qty /\ receipts'[g].reason = receipts[g].reason
  PROVE  LineInv'
<1>1. Unexplained(receipts') = Unexplained(receipts)
  BY DEF Unexplained
<1>2. /\ Counted(receipts) \subseteq DOMAIN receipts \cap DOMAIN receipts'
      /\ Unexplained(receipts) \subseteq Counted(receipts)
  BY DEF Counted, Unexplained
<1>3. /\ Quantity(receipts', Counted(receipts)) = Quantity(receipts, Counted(receipts))
      /\ Quantity(receipts', Unexplained(receipts)) = Quantity(receipts, Unexplained(receipts))
  BY <1>2, QuantitySame DEF LineInv, ReceiptTypeOK
<1>4. LineHoldsReceipts'
  BY <1>1, <1>3 DEF LineInv, LineHoldsReceipts
<1>5. OverReceiptExplained'
  BY DEF LineInv, OverReceiptExplained
<1> QED
  BY <1>4, <1>5 DEF LineInv

(* A receipt is posted: its quantity goes on the line, with a reason when  *)
(* the line holds more than was ordered then.                              *)
LEMMA LinePosted ==
  ASSUME LineInv, ReceiptTypeOK', NEW g \in DOMAIN receipts',
         po'.received = po.received + receipts'[g].qty,
         Counted(receipts') = Counted(receipts) \cup {g},
         \A h \in Counted(receipts) \ {g} : receipts'[h] = receipts[h],
         g \in Counted(receipts) => receipts'[g].qty = receipts[g].qty,
         ~ receipts'[g].reason => po'.received <= Ordered
  PROVE  LineInv'
<1> DEFINE was == Counted(receipts)
           now == Counted(receipts')
           lacking == Unexplained(receipts')
<1>1. /\ was \in SUBSET DOMAIN receipts /\ was \in SUBSET DOMAIN receipts'
      /\ now \in SUBSET DOMAIN receipts' /\ lacking \in SUBSET DOMAIN receipts'
      /\ Unexplained(receipts) \in SUBSET DOMAIN receipts /\ lacking \subseteq now
  BY DEF Counted, Unexplained
<1>2. receipts \in Seq(Receipts) /\ receipts' \in Seq(Receipts)
  BY DEF LineInv, ReceiptTypeOK
<1>3. Quantity(receipts', was) = Quantity(receipts, was)
  BY <1>1, <1>2, QuantitySame
<1>4. /\ po.received \in Nat /\ po'.received \in Nat /\ receipts'[g].qty \in Nat
      /\ Quantity(receipts, was) \in Nat /\ Quantity(receipts', now) \in Nat
      /\ Quantity(receipts', lacking) \in Nat /\ Ordered \in Nat
      /\ Quantity(receipts, Unexplained(receipts)) \in Nat
  <2>1. po.received \in Nat /\ po'.received \in Nat
    BY DEF LineInv, ReceiptTypeOK, Orders
  <2>2. receipts'[g].qty \in Nat
    BY <1>2, QuantityIsSum
  <2>3. Quantity(receipts, was) \in Nat /\ Quantity(receipts, Unexplained(receipts)) \in Nat
    BY <1>1, <1>2, QuantityNat
  <2>4. Quantity(receipts', now) \in Nat /\ Quantity(receipts', lacking) \in Nat
    BY <1>1, <1>2, QuantityNat
  <2> QED
    BY <2>1, <2>2, <2>3, <2>4, QuantityAssumption
<1>5. Quantity(receipts, was) <= po.received /\ Quantity(receipts, Unexplained(receipts)) <= Ordered
  BY DEF LineInv, LineHoldsReceipts
<1>6. Quantity(receipts', now) <= po'.received
  <2>1. CASE g \in was
    <3>1. now = was
      BY <2>1
    <3>2. Quantity(receipts', now) = Quantity(receipts, was)
      BY <1>3, <3>1, Zenon
    <3> HIDE DEF now, was
    <3> QED
      BY <3>2, <1>4, <1>5
  <2>2. CASE g \notin was
    <3>1. Quantity(receipts', was \cup {g}) = Quantity(receipts', was) + receipts'[g].qty
      BY <1>1, <1>2, <2>2, QuantityOneMore
    <3>2. Quantity(receipts', now) = Quantity(receipts, was) + receipts'[g].qty
      BY <1>3, <3>1, Zenon
    <3> HIDE DEF now, was
    <3> QED
      BY <3>2, <1>4, <1>5
  <2> QED
    BY <2>1, <2>2
<1>7. CASE receipts'[g].reason
  <2>1. lacking \subseteq Unexplained(receipts)
    BY <1>7 DEF Unexplained
  <2>2. lacking \in SUBSET DOMAIN receipts /\ \A h \in lacking : receipts'[h] = receipts[h]
    BY <1>1, <1>7, <2>1 DEF Unexplained
  <2>3. Quantity(receipts', lacking) = Quantity(receipts, lacking)
    BY <1>1, <1>2, <2>2, QuantitySame
  <2>4. Quantity(receipts, lacking) <= Quantity(receipts, Unexplained(receipts))
    BY <1>1, <1>2, <2>1, <2>2, QuantityGrows
  <2>5. Quantity(receipts', lacking) <= Ordered
    <3> HIDE DEF lacking
    <3> QED BY <1>4, <1>5, <2>3, <2>4
  <2>6. g \in now
    OBVIOUS
  <2> QED
    BY <1>6, <1>7, <2>5, <2>6 DEF LineInv, LineHoldsReceipts, OverReceiptExplained
<1>8. CASE ~ receipts'[g].reason
  <2>1. Quantity(receipts', lacking) <= Quantity(receipts', now)
    BY <1>1, <1>2, QuantityGrows
  <2>2. Quantity(receipts', lacking) <= Ordered
    <3> HIDE DEF lacking, now
    <3> QED BY <1>4, <1>6, <1>8, <2>1
  <2> QED
    BY <1>4, <1>6, <1>8, <2>2 DEF LineInv, LineHoldsReceipts, OverReceiptExplained
<1> QED
  BY <1>7, <1>8

LEMMA CreateReceiptLine ==
  ASSUME LineInv, ReceiptTypeOK', NEW qty \in Quantities, CreateReceipt(qty)
  PROVE  LineInv'
<1> DEFINE status == IF po.source = "pr" THEN "pending_ack" ELSE Final
           row == [status |-> status, qty |-> qty, reason |-> qty > Open]
           g == Len(receipts) + 1
<1>1. /\ receipts' = Append(receipts, row)
      /\ row.status = status /\ row.qty = qty /\ (~ row.reason => ~ (qty > Open))
  BY DEF CreateReceipt
<1> HIDE DEF row
<1>2. receipts \in Seq(Receipts) /\ po \in Orders
  BY DEF LineInv, ReceiptTypeOK
<1>3. /\ DOMAIN receipts' = DOMAIN receipts \cup {g} /\ g \notin DOMAIN receipts
      /\ receipts'[g] = row /\ \A h \in DOMAIN receipts : receipts'[h] = receipts[h]
  <2>1. DOMAIN receipts = 1 .. Len(receipts) /\ Len(receipts) \in Nat
    BY <1>2, LenProperties
  <2>2. Len(receipts') = Len(receipts) + 1 /\ receipts' \in Seq(Receipts)
    BY <1>1, <1>2 DEF ReceiptTypeOK
  <2>3. DOMAIN receipts' = 1 .. (Len(receipts) + 1)
    BY <2>2, LenProperties
  <2> QED
    BY <1>1, <2>1, <2>3
<1> HIDE DEF g
<1>4. CASE po.source = "pr"
  <2>1. po' = po
    BY <1>4 DEF CreateReceipt
  <2>2. Counted(receipts') = Counted(receipts)
    BY <1>1, <1>3, <1>4 DEF Counted, Counting
  <2> QED
    BY <2>1, <2>2, <1>3, LineSame DEF Counted
<1>5. CASE po.source # "pr"
  <2>1. Counted(receipts') = Counted(receipts) \cup {g}
    BY <1>1, <1>3, <1>5 DEF Counted, Counting, Final
  <2>2. po'.received = po.received + qty
    <3> DEFINE q == po.received + qty
               posted == [po EXCEPT !.received = q]
    <3>1. po' = Synced(posted)
      BY <1>5 DEF CreateReceipt, Posted
    <3> HIDE DEF q
    <3>2. OrderRow(posted) /\ posted.received = q
      BY <1>2 DEF Orders, OrderRow, Keys
    <3> HIDE DEF posted
    <3> QED
      BY <3>1, <3>2, SyncedKeeps DEF q
  <2>3. ~ row.reason => po.received + qty <= Ordered
    <3>1. Quantity(receipts, Awaited(receipts)) \in Nat
      BY <1>2, QuantityNat DEF Awaited
    <3>2. po.received \in Nat /\ qty \in Nat /\ Ordered \in Nat
      BY <1>2, QuantityAssumption DEF Orders
    <3> QED
      BY <1>1, <3>1, <3>2, SMTT(30) DEF Open
  <2> QED
    BY <2>1, <2>2, <2>3, <1>1, <1>3, LinePosted DEF Counted
<1> QED BY <1>4, <1>5

(* Posting a receipt of the order.                                         *)
LEMMA PostLine ==
  ASSUME LineInv, ReceiptTypeOK', NEW g \in DOMAIN receipts, NEW s \in Counting, Post(g, s)
  PROVE  LineInv'
<1> DEFINE b == ReasonWhenPosted(g)
           row == [receipts[g] EXCEPT !.status = s, !.reason = b]
<1>1. receipts[g] \in Receipts /\ po \in Orders
  BY ElementOfSeq, LenProperties DEF LineInv, ReceiptTypeOK
<1>2. row.status = s /\ row.qty = receipts[g].qty /\ row.reason = b
  BY <1>1 DEF Receipts
<1>3. receipts' = [receipts EXCEPT ![g] = row]
  BY DEF Post
<1>4. ~ b => po.received + receipts[g].qty <= Ordered
  <2>1. receipts[g].qty \in Nat
    BY <1>1, QuantityAssumption DEF Receipts
  <2>2. po.received \in Nat /\ Ordered \in Nat
    BY <1>1, QuantityAssumption DEF Orders
  <2> QED
    BY <2>1, <2>2 DEF ReasonWhenPosted
<1> HIDE DEF row, b
<1>5. /\ DOMAIN receipts' = DOMAIN receipts /\ receipts'[g] = row
      /\ \A h \in DOMAIN receipts : h # g => receipts'[h] = receipts[h]
  BY <1>3
<1>6. Counted(receipts') = Counted(receipts) \cup {g}
  BY <1>2, <1>5 DEF Counted
<1>7. po'.received = po.received + receipts[g].qty
  <2> DEFINE q == po.received + receipts[g].qty
             posted == [po EXCEPT !.received = q]
  <2>1. po' = Synced(posted)
    BY DEF Post, Posted
  <2> HIDE DEF q
  <2>2. OrderRow(posted) /\ posted.received = q
    BY <1>1 DEF Orders, OrderRow, Keys
  <2> HIDE DEF posted
  <2> QED
    BY <2>1, <2>2, SyncedKeeps DEF q
<1>8. /\ g \in DOMAIN receipts'
      /\ po'.received = po.received + receipts'[g].qty
      /\ \A h \in Counted(receipts) \ {g} : receipts'[h] = receipts[h]
      /\ receipts'[g].qty = receipts[g].qty
      /\ ~ receipts'[g].reason => po'.received <= Ordered
  BY <1>2, <1>4, <1>5, <1>7 DEF Counted
<1> QED
  BY <1>6, <1>8, LinePosted

(* Deleting a receipt recounts the line: when nothing that is left carries *)
(* a reason, what is left fits the order.                                  *)
LEMMA DeleteReceiptLine ==
  ASSUME LineInv, ReceiptTypeOK', NEW g \in DOMAIN receipts, DeleteReceipt(g)
  PROVE  LineInv'
<1> DEFINE now == Counted(receipts')
           lacking == Unexplained(receipts')
<1>1. receipts \in Seq(Receipts) /\ receipts' \in Seq(Receipts) /\ po \in Orders
  BY DEF LineInv, ReceiptTypeOK
<1>2. /\ DOMAIN receipts' = DOMAIN receipts
      /\ receipts'[g].status = "gone"
      /\ \A h \in DOMAIN receipts' : h # g => receipts'[h] = receipts[h]
  BY StatusWritten, <1>1 DEF DeleteReceipt
<1>3. now = Counted(receipts) \ {g}
  BY <1>2 DEF Counted, Counting
<1>4. po'.received = Quantity(receipts', now)
  <2> DEFINE n == Recount(receipts')
             recounted == [po EXCEPT !.received = n]
  <2>1. po' = Synced(recounted)
    BY DEF DeleteReceipt
  <2> HIDE DEF n
  <2>2. OrderRow(recounted) /\ recounted.received = n
    BY <1>1 DEF Orders, OrderRow, Keys
  <2> HIDE DEF recounted
  <2> QED
    BY <2>1, <2>2, SyncedKeeps DEF n, Recount
<1>5. /\ lacking \subseteq Unexplained(receipts)
      /\ \A h \in lacking : receipts'[h] = receipts[h]
  <2>1. ASSUME NEW h \in lacking
        PROVE  h \in Counted(receipts) /\ ~ receipts'[h].reason /\ receipts'[h] = receipts[h]
    <3>1. h \in now /\ ~ receipts'[h].reason
      BY DEF Unexplained
    <3>2. h \in Counted(receipts) /\ h # g /\ h \in DOMAIN receipts'
      BY <3>1, <1>2, <1>3 DEF Counted
    <3> QED
      BY <3>1, <3>2, <1>2
  <2> QED
    BY <2>1 DEF Unexplained
<1>6. /\ lacking \in SUBSET DOMAIN receipts /\ lacking \in SUBSET DOMAIN receipts'
      /\ Unexplained(receipts) \in SUBSET DOMAIN receipts /\ now \in SUBSET DOMAIN receipts'
  BY <1>2 DEF Unexplained, Counted
<1>7. Quantity(receipts', lacking) = Quantity(receipts, lacking)
  BY <1>1, <1>5, <1>6, QuantitySame
<1>8. Quantity(receipts, lacking) <= Quantity(receipts, Unexplained(receipts))
  BY <1>1, <1>5, <1>6, QuantityGrows
<1>9. Quantity(receipts, Unexplained(receipts)) <= Ordered
  BY DEF LineInv, LineHoldsReceipts
<1>10. /\ Quantity(receipts, lacking) \in Nat /\ Quantity(receipts', now) \in Nat
       /\ Quantity(receipts, Unexplained(receipts)) \in Nat /\ Ordered \in Nat
  <2>1. Quantity(receipts, lacking) \in Nat /\ Quantity(receipts, Unexplained(receipts)) \in Nat
    BY <1>1, <1>6, QuantityNat
  <2>2. Quantity(receipts', now) \in Nat
    BY <1>1, <1>6, QuantityNat
  <2> QED
    BY <2>1, <2>2, QuantityAssumption
<1>11. Quantity(receipts', lacking) <= Ordered
  <2> HIDE DEF lacking
  <2> QED BY <1>7, <1>8, <1>9, <1>10
<1>12. ASSUME \A h \in now : ~ receipts'[h].reason PROVE po'.received <= Ordered
  <2>1. lacking = now
    BY <1>12 DEF Unexplained
  <2> QED
    BY <2>1, <1>4, <1>11, Zenon
<1>13. OverReceiptExplained'
  <2> SUFFICES ASSUME ~ \E h \in now : receipts'[h].reason PROVE ~ (po'.received > Ordered)
    BY DEF OverReceiptExplained
  <2>1. po'.received <= Ordered
    BY <1>12
  <2> QED
    BY <2>1, <1>4, <1>10
<1>14. LineHoldsReceipts'
  BY <1>4, <1>10, <1>11 DEF LineHoldsReceipts
<1> QED
  BY <1>13, <1>14 DEF LineInv

(* A receipt that does not count, or goes on counting, changes its status. *)
LEMMA OtherStatusLine ==
  ASSUME LineInv, ReceiptTypeOK', po' = po, NEW g \in DOMAIN receipts,
         NEW s \in Pending \cup Counting \cup Dead,
         receipts' = [receipts EXCEPT ![g].status = s],
         s \in Counting <=> receipts[g].status \in Counting
  PROVE  LineInv'
<1> DEFINE row == [receipts[g] EXCEPT !.status = s]
<1>1. receipts[g] \in Receipts
  BY ElementOfSeq, LenProperties DEF LineInv, ReceiptTypeOK
<1>2. row.status = s /\ row.qty = receipts[g].qty /\ row.reason = receipts[g].reason
  BY <1>1 DEF Receipts
<1>3. receipts' = [receipts EXCEPT ![g] = row]
  OBVIOUS
<1> HIDE DEF row
<1>4. /\ DOMAIN receipts' = DOMAIN receipts /\ receipts'[g] = row
      /\ \A h \in DOMAIN receipts : h # g => receipts'[h] = receipts[h]
  BY <1>3
<1>5. Counted(receipts') = Counted(receipts)
  BY <1>2, <1>4 DEF Counted
<1> QED
  BY <1>2, <1>4, <1>5, LineSame DEF Counted

LEMMA LineStep ==
  LineInv /\ [Next]_vars => LineInv'
<1> SUFFICES ASSUME LineInv, [Next]_vars PROVE LineInv'
  OBVIOUS
<1>0. ReceiptTypeOK'
  BY TypeStep DEF LineInv
<1>1. ASSUME NEW qty \in Quantities, CreateReceipt(qty) PROVE LineInv'
  BY <1>0, <1>1, CreateReceiptLine
<1>2. ASSUME NEW g \in DOMAIN receipts, Collect(g) \/ Confirm(g) PROVE LineInv'
  BY <1>0, <1>2, PostLine DEF Collect, Confirm, Counting
<1>3. ASSUME NEW g \in DOMAIN receipts, Acknowledge(g) PROVE LineInv'
  BY <1>0, <1>3, OtherStatusLine DEF Acknowledge, Pending, Counting
<1>4. ASSUME NEW g \in DOMAIN receipts, CloseReceipt(g) PROVE LineInv'
  BY <1>0, <1>4, OtherStatusLine DEF CloseReceipt, Pending, Counting, Dead
<1>5. ASSUME NEW g \in DOMAIN receipts, DeleteReceipt(g) PROVE LineInv'
  BY <1>0, <1>5, DeleteReceiptLine
<1>6. CASE PlaceOrder
  <2> DEFINE issued == [po EXCEPT !.status = "issued"]
  <2>1. OrderRow(issued) /\ issued.received = po.received /\ po' = Synced(issued)
    BY <1>6 DEF PlaceOrder, Placed, LineInv, ReceiptTypeOK, Orders, OrderRow, Keys
  <2> HIDE DEF issued
  <2>2. po'.received = po.received /\ receipts' = receipts
    BY <1>6, <2>1, SyncedKeeps DEF PlaceOrder, records
  <2> QED
    BY <1>0, <2>2, LineSame
<1>7. CASE po' = po /\ receipts' = receipts
  BY <1>0, <1>7, LineSame
<1> QED
  BY <1>1, <1>2, <1>3, <1>4, <1>5, <1>6, <1>7
  DEF Next, vars, records, SwitchGate, ServiceDue, Upload, CreatePayment, OpenInbox,
      Match, Review, AcceptException, UnmatchPo, UnmatchGr, DeleteInvoice, Settled, DropPayment

(* More than was ordered is on the line only when a receipt that counts    *)
(* carries a reason, in whatever order receipts were recorded, posted,     *)
(* confirmed twice and deleted.                                            *)
THEOREM OverReceiptsExplained == Spec => []OverReceiptExplained
<1>1. LineInv => OverReceiptExplained
  BY DEF LineInv
<1> QED
  BY <1>1, LineInit, LineStep, PTL DEF Spec

-----------------------------------------------------------------------------
(* An order that may be paid has its prompt.  The invariant is inductive   *)
(* beside the types: a step that makes the order ready raises the prompt   *)
(* itself, and a step that completes prompts leaves the order not ready,   *)
(* or on a payment.                                                        *)

PromptInv == ReceiptTypeOK /\ ReadyIsPrompted

(* Nothing became ready, and the prompts stay.                             *)
LEMMA NoMoreReady ==
  ASSUME PromptInv, ReceiptTypeOK', payments' = << >> => payments = << >>,
         prompts' = prompts, po'.source = po.source, gate' # "lifted" => gate # "lifted",
         Ready(po, receipts, invoices)' => Ready(po, receipts, invoices)
  PROVE  PromptInv'
BY DEF PromptInv, ReadyIsPrompted

(* Goods that arrive raise it.                                             *)
LEMMA GoodsPrompt ==
  ASSUME PromptInv, ReceiptTypeOK', UNCHANGED <<payments, gate>>,
         GoodsHere(po', receipts', invoices')
  PROVE  PromptInv'
<1> SUFFICES ASSUME Ready(po, receipts, invoices)', payments = << >> PROVE prompts'.open > 0
  BY DEF PromptInv, ReadyIsPrompted
<1>1. Ready(po', receipts', invoices')
  BY DEF Ready, Cleared
<1>2. Existing = {}
  BY DEF Existing
<1>3. prompts \in Prompts
  BY DEF PromptInv, ReceiptTypeOK, Prompts
<1>4. prompts' = IF prompts.open = 0 THEN Raised ELSE prompts
  BY <1>1, <1>2 DEF GoodsHere
<1>5. Raised.open > 0
  BY <1>3, PromptsType
<1> QED
  BY <1>3, <1>4, <1>5 DEF Prompts

(* An invoice that became matched raises it.                               *)
LEMMA InvoicePrompt ==
  ASSUME PromptInv, ReceiptTypeOK', UNCHANGED <<po, receipts, payments, gate>>,
         InvoiceHere(invoices')
  PROVE  PromptInv'
<1> SUFFICES ASSUME Ready(po, receipts, invoices)', po.source # "other" PROVE prompts'.open > 0
  BY DEF PromptInv, ReadyIsPrompted
<1>1. Ready(po, receipts, invoices')
  BY DEF Ready, Cleared
<1>3. prompts \in Prompts
  BY DEF PromptInv, ReceiptTypeOK, Prompts
<1>4. prompts' = IF prompts.open = 0 THEN Raised ELSE prompts
  BY <1>1 DEF InvoiceHere, Ready
<1>5. Raised.open > 0
  BY <1>3, PromptsType
<1> QED
  BY <1>3, <1>4, <1>5 DEF Prompts

(* Matched invoices that were matched before, with no more receipts.       *)
LEMMA FewerMatched ==
  ASSUME UNCHANGED <<po, receipts, gate>>, NEW vs,
         \A v \in Matched(vs) : v \in Matched(invoices) /\ vs[v].grs \subseteq invoices[v].grs,
         Ready(po, receipts, vs)
  PROVE  Ready(po, receipts, invoices)
BY DEF Ready, ThreeWay


LEMMA PromptInit == Init => PromptInv
<1> SUFFICES ASSUME Init PROVE PromptInv
  OBVIOUS
<1>1. receipts = << >> /\ po.received = 0 /\ invoices \in {<< >>, <<Imported>>}
  BY DEF Init
<1>2. ~ Evidence(po, receipts)
  BY <1>1 DEF Evidence, Alive, Recorded
<1>3. \A v \in DOMAIN invoices : invoices[v].grs = {}
  BY <1>1 DEF Imported
<1>4. ~ Ready(po, receipts, invoices)
  BY <1>2, <1>3 DEF Ready, ThreeWay, Matched
<1> QED
  BY <1>4, TypeInit DEF PromptInv, ReadyIsPrompted

(* Moving the status of an order makes it no readier.                      *)
LEMMA PlaceOrderPrompt ==
  ASSUME PromptInv, ReceiptTypeOK', PlaceOrder PROVE PromptInv'
<1> DEFINE issued == [po EXCEPT !.status = "issued"]
<1>1. /\ issued \in Orders /\ po' = Synced(issued)
      /\ issued.received = po.received /\ issued.physical = po.physical /\ issued.source = po.source
  BY DEF PlaceOrder, Placed, PromptInv, ReceiptTypeOK, Orders, Tracking
<1> HIDE DEF issued
<1>2. po'.received = po.received /\ po'.physical = po.physical /\ po'.source = po.source
  BY <1>1 DEF Synced, Orders
<1>3. UNCHANGED <<receipts, invoices, payments, prompts, gate>>
  BY DEF PlaceOrder, records, tasks
<1>4. Ready(po, receipts, invoices)' => Ready(po, receipts, invoices)
  BY <1>2, <1>3 DEF Ready, ThreeWay, Cleared, Evidence
<1> QED
  BY <1>2, <1>3, <1>4, NoMoreReady

(* Receipts that are no more than they were.                               *)
LEMMA FewerReceipts ==
  ASSUME po'.physical = po.physical, UNCHANGED gate,
         Alive(receipts') \subseteq Alive(receipts),
         Counted(receipts') \subseteq Counted(receipts),
         po'.received > 0 => po.received > 0 \/ Counted(receipts) # {},
         \A v \in Matched(invoices') :
            v \in Matched(invoices) /\ invoices'[v].grs \subseteq invoices[v].grs,
         Ready(po, receipts, invoices)'
  PROVE  Ready(po, receipts, invoices)
<1>1. Evidence(po', receipts') => Evidence(po, receipts)
  BY CountedAlive DEF Evidence
<1>2. ThreeWay(po', receipts', invoices') => ThreeWay(po, receipts, invoices)
  BY <1>1 DEF ThreeWay
<1>3. Cleared(po, receipts)
  BY DEF Ready, Cleared
<1> QED
  BY <1>2, <1>3 DEF Ready

LEMMA StatusPrompt ==
  ASSUME PromptInv, ReceiptTypeOK', UNCHANGED <<po, invoices, payments, prompts, gate>>,
         NEW g \in DOMAIN receipts, NEW s \in Pending \cup Counting \cup Dead,
         receipts' = [receipts EXCEPT ![g].status = s],
         receipts[g].status \in Pending \cup Counting,
         s \in Counting => receipts[g].status \in Counting
  PROVE  PromptInv'
<1>1. /\ DOMAIN receipts' = DOMAIN receipts
      /\ receipts'[g].status = s
      /\ \A h \in DOMAIN receipts' : h # g => receipts'[h] = receipts[h]
  BY StatusWritten DEF PromptInv, ReceiptTypeOK
<1>2. Alive(receipts') \subseteq Alive(receipts)
  BY <1>1 DEF Alive, Recorded, Pending, Counting, Dead
<1>3. Counted(receipts') \subseteq Counted(receipts)
  BY <1>1 DEF Counted
<1>4. Ready(po, receipts, invoices)' => Ready(po, receipts, invoices)
  BY <1>2, <1>3, FewerReceipts
<1> QED
  BY <1>4, NoMoreReady

LEMMA DeleteReceiptPrompt ==
  ASSUME PromptInv, ReceiptTypeOK', NEW g \in DOMAIN receipts, DeleteReceipt(g)
  PROVE  PromptInv'
<1>0. po \in Orders
  BY DEF PromptInv, ReceiptTypeOK
<1>1. /\ DOMAIN receipts' = DOMAIN receipts
      /\ receipts'[g].status = "gone"
      /\ \A h \in DOMAIN receipts' : h # g => receipts'[h] = receipts[h]
  BY StatusWritten DEF DeleteReceipt, PromptInv, ReceiptTypeOK
<1>2. Alive(receipts') \subseteq Alive(receipts)
  BY <1>1 DEF Alive, Recorded
<1>3. Counted(receipts') \subseteq Counted(receipts)
  BY <1>1 DEF Counted, Counting
<1>4. po'.physical = po.physical /\ po'.source = po.source /\ po'.received = Recount(receipts')
  <2> DEFINE n == Recount(receipts')
             recounted == [po EXCEPT !.received = n]
  <2>1. po' = Synced(recounted)
    BY DEF DeleteReceipt
  <2> HIDE DEF n
  <2>2. /\ OrderRow(recounted) /\ recounted.received = n
        /\ recounted.physical = po.physical /\ recounted.source = po.source
    BY <1>0 DEF Orders, OrderRow, Keys
  <2> HIDE DEF recounted
  <2> QED
    BY <2>1, <2>2 DEF n, Synced, OrderRow, Keys
<1>5. po'.received > 0 => Counted(receipts) # {}
  BY <1>3, <1>4 DEF Recount, Quantity
<1>6. \A v \in Matched(invoices') :
         v \in Matched(invoices) /\ invoices'[v].grs \subseteq invoices[v].grs
  <2> SUFFICES ASSUME NEW v \in Matched(invoices')
               PROVE  v \in Matched(invoices) /\ invoices'[v].grs \subseteq invoices[v].grs
    OBVIOUS
  <2>1. v \in DOMAIN invoices
    BY DEF Matched, DeleteReceipt
  <2>2. invoices[v] \in InvoiceRows
    BY <2>1, ElementOfSeq, LenProperties DEF PromptInv, ReceiptTypeOK
  <2> DEFINE bare == [invoices[v] EXCEPT !.grs = {}]
  <2>3. bare.status = invoices[v].status /\ bare.on = invoices[v].on /\ bare.grs = {}
    BY <2>2 DEF InvoiceRows
  <2>4. invoices'[v] \in {bare, invoices[v]}
    BY <2>1 DEF DeleteReceipt
  <2> HIDE DEF bare
  <2> QED
    BY <2>1, <2>3, <2>4 DEF Matched
<1>7. UNCHANGED <<payments, prompts, gate>>
  BY DEF DeleteReceipt, tasks
<1>8. Ready(po, receipts, invoices)' => Ready(po, receipts, invoices)
  BY <1>2, <1>3, <1>4, <1>5, <1>6, <1>7, FewerReceipts
<1> QED
  BY <1>4, <1>7, <1>8, NoMoreReady

(* An invoice that is written and did not become matched.                  *)
LEMMA LessMatchedPrompt ==
  ASSUME PromptInv, ReceiptTypeOK', NEW v \in DOMAIN invoices, NEW row \in InvoiceRows,
         Settled(v, row),
         row.status = "matched" /\ row.on # "none" =>
            /\ invoices[v].status = "matched" /\ invoices[v].on # "none"
            /\ row.grs \subseteq invoices[v].grs,
         prompts' = prompts \/ ~ ThreeWay(po, receipts, invoices')
  PROVE  PromptInv'
<1>0. UNCHANGED <<po, receipts, payments, gate>>
  BY DEF Settled
<1>1. /\ DOMAIN invoices' = DOMAIN invoices
      /\ invoices'[v] = row
      /\ \A u \in DOMAIN invoices : u # v => invoices'[u] = invoices[u]
  BY InvoiceWritten DEF PromptInv, ReceiptTypeOK
<1>2. \A u \in Matched(invoices') :
         u \in Matched(invoices) /\ invoices'[u].grs \subseteq invoices[u].grs
  BY <1>1 DEF Matched
<1>3. Ready(po, receipts, invoices)' => Ready(po, receipts, invoices')
  BY <1>0 DEF Ready, Cleared
<1>4. Ready(po, receipts, invoices') => Ready(po, receipts, invoices)
  BY <1>0, <1>2, FewerMatched
<1>5. CASE prompts' = prompts
  BY <1>0, <1>3, <1>4, <1>5, NoMoreReady
<1>6. CASE ~ ThreeWay(po, receipts, invoices')
  BY <1>3, <1>6 DEF Ready, PromptInv, ReadyIsPrompted
<1> QED
  BY <1>5, <1>6

LEMMA CreatePaymentPrompt ==
  ASSUME PromptInv, ReceiptTypeOK', CreatePayment PROVE PromptInv'
<1>1. PICK row : payments' = Append(payments, row)
  BY DEF CreatePayment
<1>2. payments \in Seq(Payments) /\ payments' \in Seq(Payments)
  BY DEF PromptInv, ReceiptTypeOK
<1>3. Len(payments') = Len(payments) + 1 /\ Len(payments) \in Nat
  BY <1>1, <1>2
<1>4. payments' # << >>
  BY <1>3
<1> QED
  BY <1>4 DEF PromptInv, ReadyIsPrompted

LEMMA DropPaymentPrompt ==
  ASSUME PromptInv, ReceiptTypeOK', NEW i \in DOMAIN payments, DropPayment(i) PROVE PromptInv'
<1>1. DOMAIN payments' = DOMAIN payments
  BY DEF DropPayment
<1>2. payments' # << >>
  BY <1>1
<1> QED
  BY <1>2 DEF PromptInv, ReadyIsPrompted

LEMMA OpenInboxPrompt ==
  ASSUME PromptInv, ReceiptTypeOK', OpenInbox PROVE PromptInv'
<1>0. UNCHANGED <<po, receipts, invoices, payments, gate>>
  BY DEF OpenInbox, records
<1> SUFFICES ASSUME Ready(po, receipts, invoices)', payments = << >>, prompts.open > 0
             PROVE  prompts'.open > 0
  BY <1>0 DEF PromptInv, ReadyIsPrompted, Ready, Cleared
<1>1. Ready(po, receipts, invoices)
  BY <1>0 DEF Ready, Cleared
<1>2. Matched(invoices) # {} /\ Live(payments) = {}
  BY <1>1 DEF Ready, ThreeWay, Live
<1>3. prompts' \in {Raised, prompts}
  BY <1>2 DEF OpenInbox
<1>4. Raised.open > 0
  BY PromptsType DEF PromptInv, ReceiptTypeOK, Prompts
<1> QED
  BY <1>3, <1>4

LEMMA PromptStep ==
  PromptInv /\ [Next]_vars => PromptInv'
<1> SUFFICES ASSUME PromptInv, [Next]_vars PROVE PromptInv'
  OBVIOUS
<1>0. ReceiptTypeOK'
  BY TypeStep DEF PromptInv
<1>a. ASSUME NEW v \in DOMAIN invoices
      PROVE  /\ invoices[v] \in InvoiceRows
             /\ [invoices[v] EXCEPT !.grs = {}] \in InvoiceRows
             /\ [invoices[v] EXCEPT !.grs = {}].grs = {}
             /\ [invoices[v] EXCEPT !.grs = {}].status = invoices[v].status
             /\ [invoices[v] EXCEPT !.grs = {}].on = invoices[v].on
             /\ [invoices[v] EXCEPT !.status = "unmatched"] \in InvoiceRows
             /\ [invoices[v] EXCEPT !.status = "unmatched"].status = "unmatched"
  <2>1. invoices[v] \in InvoiceRows
    BY ElementOfSeq, LenProperties DEF PromptInv, ReceiptTypeOK
  <2> QED
    BY <2>1 DEF InvoiceRows
<1>b. ASSUME NEW v \in DOMAIN invoices, NEW status \in {"matched", "match_review", "exception"},
             NEW row \in InvoiceRows, row.status = status,
             Settled(v, row), Downstream(status)
      PROVE  PromptInv'
  <2>1. CASE status = "matched"
    BY <1>0, <1>b, <2>1, InvoicePrompt DEF Settled, Downstream
  <2>2. CASE status # "matched"
    BY <1>0, <1>b, <2>2, LessMatchedPrompt DEF Downstream, tasks
  <2> QED
    BY <2>1, <2>2
<1>1. CASE PlaceOrder
  BY <1>0, <1>1, PlaceOrderPrompt
<1>2. CASE SwitchGate
  <2>1. UNCHANGED <<po, receipts, invoices, payments, prompts>>
    BY <1>2 DEF SwitchGate, records, tasks
  <2>2. gate' # "lifted" => gate' = "on" /\ gate # "lifted"
    BY <1>2 DEF SwitchGate, PromptInv, ReceiptTypeOK
  <2>3. gate' # "lifted" => (Ready(po, receipts, invoices)' => Ready(po, receipts, invoices))
    BY <2>1, <2>2 DEF Ready, ThreeWay, Cleared
  <2> QED
    BY <1>0, <2>1, <2>2, <2>3 DEF PromptInv, ReadyIsPrompted
<1>3. CASE ServiceDue
  BY <1>0, <1>3, NoMoreReady DEF ServiceDue, records, Ready, Cleared
<1>4. CASE Upload
  <2>1. UNCHANGED <<po, receipts, payments, prompts, gate>>
    BY <1>4 DEF Upload, tasks
  <2>2. invoices \in Seq(InvoiceRows) /\ invoices' = Append(invoices, Unmatched)
    BY <1>4 DEF Upload, PromptInv, ReceiptTypeOK
  <2>3. /\ \A v \in DOMAIN invoices' : v \in DOMAIN invoices \/ invoices'[v] = Unmatched
        /\ \A v \in DOMAIN invoices : invoices'[v] = invoices[v]
    BY <2>2, AppendProperties, LenProperties
  <2>4. \A v \in Matched(invoices') :
           v \in Matched(invoices) /\ invoices'[v].grs \subseteq invoices[v].grs
    BY <2>3 DEF Matched, Unmatched
  <2>5. Ready(po, receipts, invoices') => Ready(po, receipts, invoices)
    BY <2>1, <2>4, FewerMatched
  <2> QED
    BY <1>0, <2>1, <2>5, NoMoreReady DEF Ready, Cleared
<1>5. CASE CreatePayment
  BY <1>0, <1>5, CreatePaymentPrompt
<1>6. CASE OpenInbox
  BY <1>0, <1>6, OpenInboxPrompt
<1>7. ASSUME NEW qty \in Quantities, CreateReceipt(qty) PROVE PromptInv'
  BY <1>0, <1>7, GoodsPrompt DEF CreateReceipt
<1>8. ASSUME NEW g \in DOMAIN receipts, Acknowledge(g) PROVE PromptInv'
  BY <1>0, <1>8, StatusPrompt DEF Acknowledge, tasks, Pending, Counting
<1>9. ASSUME NEW g \in DOMAIN receipts, Collect(g) \/ Confirm(g) PROVE PromptInv'
  <2>1. PICK s : Post(g, s)
    BY <1>9 DEF Collect, Confirm
  <2>2. UNCHANGED <<invoices, payments, gate>> /\ GoodsHere(po', receipts', invoices)
    BY <2>1 DEF Post
  <2> QED
    BY <1>0, <2>2, GoodsPrompt
<1>11. ASSUME NEW g \in DOMAIN receipts, CloseReceipt(g) PROVE PromptInv'
  BY <1>0, <1>11, StatusPrompt DEF CloseReceipt, tasks, Pending, Counting, Dead
<1>12. ASSUME NEW g \in DOMAIN receipts, DeleteReceipt(g) PROVE PromptInv'
  BY <1>0, <1>12, DeleteReceiptPrompt
<1>13. ASSUME NEW v \in DOMAIN invoices, Match(v) PROVE PromptInv'
  <2>1. PICK status \in {"matched", "match_review", "exception"}, grs \in SUBSET Recorded(receipts) :
           /\ Settled(v, [status |-> status, on |-> "allocated", grs |-> grs])
           /\ Downstream(status)
    BY <1>13 DEF Match
  <2>2. DOMAIN receipts \subseteq Nat
    BY LenProperties DEF PromptInv, ReceiptTypeOK
  <2> DEFINE row == [status |-> status, on |-> "allocated", grs |-> grs]
  <2>3. row \in InvoiceRows /\ row.status = status
    BY <2>2 DEF InvoiceRows, Recorded
  <2> HIDE DEF row
  <2>4. Settled(v, row)
    BY <2>1 DEF row
  <2> QED
    BY <1>b, <2>1, <2>3, <2>4
<1>14. ASSUME NEW v \in DOMAIN invoices, Review(v) PROVE PromptInv'
  <2>1. CASE Settled(v, [invoices[v] EXCEPT !.status = "unmatched"]) /\ UNCHANGED tasks
    BY <1>0, <1>a, <2>1, LessMatchedPrompt DEF tasks
  <2>2. ASSUME NEW status \in {"matched", "exception"},
               Settled(v, [invoices[v] EXCEPT !.status = status,
                             !.grs = IF @ = {} THEN Alive(receipts) ELSE @]),
               Downstream(status)
        PROVE  PromptInv'
    <3>1. DOMAIN receipts \subseteq Nat /\ Alive(receipts) \subseteq DOMAIN receipts
      BY LenProperties DEF PromptInv, ReceiptTypeOK, Alive, Recorded
    <3> DEFINE row == [invoices[v] EXCEPT !.status = status,
                         !.grs = IF @ = {} THEN Alive(receipts) ELSE @]
    <3>2. row \in InvoiceRows /\ row.status = status
      BY <1>a, <3>1 DEF InvoiceRows
    <3> HIDE DEF row
    <3>3. Settled(v, row)
      BY <2>2 DEF row
    <3> QED
      BY <1>b, <2>2, <3>2, <3>3
  <2> QED
    BY <1>14, <2>1, <2>2 DEF Review
<1>15. ASSUME NEW v \in DOMAIN invoices, AcceptException(v) PROVE PromptInv'
  BY <1>0, <1>15, InvoicePrompt DEF AcceptException, Settled, Downstream
<1>16. ASSUME NEW v \in DOMAIN invoices, UnmatchPo(v) PROVE PromptInv'
  <2>1. Unmatched \in InvoiceRows /\ Unmatched.status = "unmatched"
    BY DEF Unmatched, InvoiceRows
  <2> QED
    BY <1>0, <1>16, <2>1, LessMatchedPrompt DEF UnmatchPo, Withdraw
<1>17. ASSUME NEW v \in DOMAIN invoices, UnmatchGr(v) PROVE PromptInv'
  <2> DEFINE bare == [invoices[v] EXCEPT !.grs = {}]
  <2>1. /\ bare \in InvoiceRows /\ bare.grs = {}
        /\ bare.status = invoices[v].status /\ bare.on = invoices[v].on
    BY <1>a
  <2>2. Settled(v, bare) /\ (prompts' = prompts \/ ~ ThreeWay(po, receipts, invoices'))
    BY <1>17 DEF UnmatchGr, Withdraw
  <2> HIDE DEF bare
  <2> QED
    BY <1>0, <2>1, <2>2, LessMatchedPrompt
<1>18. ASSUME NEW v \in DOMAIN invoices, DeleteInvoice(v) PROVE PromptInv'
  <2> DEFINE row == [status |-> "gone", on |-> "none", grs |-> {}]
  <2>1. row \in InvoiceRows /\ row.status # "matched"
    BY DEF InvoiceRows
  <2>2. Settled(v, row)
    BY <1>18 DEF DeleteInvoice
  <2>3. prompts' = prompts \/ ~ ThreeWay(po, receipts, invoices')
    BY <1>18 DEF DeleteInvoice, Orphaned, ThreeWay
  <2> HIDE DEF row
  <2> QED
    BY <1>0, <2>1, <2>2, <2>3, LessMatchedPrompt
<1>19. ASSUME NEW i \in DOMAIN payments, DropPayment(i) PROVE PromptInv'
  BY <1>0, <1>19, DropPaymentPrompt
<1>20. CASE UNCHANGED vars
  BY <1>0, <1>20, NoMoreReady DEF vars, records, tasks, Ready, Cleared
<1> QED
  BY <1>1, <1>2, <1>3, <1>4, <1>5, <1>6, <1>7, <1>8, <1>9, <1>11, <1>12, <1>13,
     <1>14, <1>15, <1>16, <1>17, <1>18, <1>19, <1>20 DEF Next

(* An order that may be paid and never was on a payment application has an *)
(* open prompt, whichever of the goods and the invoice came last.          *)
THEOREM ReadyOrdersPrompted == Spec => []ReadyIsPrompted
<1>1. PromptInv => ReadyIsPrompted
  BY DEF PromptInv
<1> QED
  BY <1>1, PromptInit, PromptStep, PTL DEF Spec

=============================================================================
