------------------------------ MODULE MCPayment ------------------------------
(***************************************************************************)
(* One PA of two invoices and one of a single invoice, and a credit.       *)
(***************************************************************************)
EXTENDS PaymentExecution, TLC

CONSTANTS p1, p2, e1, i1, i2, i3, i4, c1, c2, t1, t2

Sessions == Permutations(Txs)

InvoiceAmounts == (i1 :> 2) @@ (i2 :> 1) @@ (i3 :> 2) @@ (i4 :> 2)
DocAmounts == [d \in Docs |-> IF d = p1 THEN 3 ELSE IF d = p2 THEN 2 ELSE 1]
PaLinks == [p \in Pas |-> IF p = p1 THEN {i1, i2} ELSE {i3}]
OneCredit == <<c1>>
CreditAmounts == [c \in {c1} |-> 2]
Choices == {Oldest, {c1}}
Alternatives == {{i2, i4}}
Asked == [d \in Docs |-> IF d = p1 THEN {Whole, {i1}} ELSE {Whole}]
Order(request, asked, credits) == [request |-> request, asked |-> asked, credits |-> credits]
Ordered == [d \in Docs |->
  {Order(Whole, AsDue, credits) : credits \in CreditChoices}
    \cup IF d = p1 THEN {Order({i1}, AsDue, Oldest), Order(Whole, 4, Oldest)} ELSE {}]

(* Batches of both PAs and payments of the second one, with and without a  *)
(* choice of credits: each waits for rows the other has locked.            *)
BatchNext ==
  \/ \E b \in Batches : CreateBatch(b, [d \in Pas |-> Whole])
  \/ \E t \in Txs, credits \in CreditChoices :
       \/ \E b \in Batches : ExecuteBatch(t, b, credits)
       \/ \E d \in {p2} \cup Claims : ExecutePayment(t, d, Order(Whole, AsDue, credits))
  \/ \E t \in Txs : Proceed(t)
BatchSpec == Init /\ [][BatchNext]_vars /\ Fairness

=============================================================================
