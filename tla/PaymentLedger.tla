---------------------------- MODULE PaymentLedger ----------------------------
(***************************************************************************)
(* What paying promises, without transactions, locks, drafts or failures:  *)
(* a list of payments per document and what is left of each credit.        *)
(*                                                                         *)
(* A settlement is one payment, or all the payments of one batch, and      *)
(* happens at once: each document gets one payment at most, every credit   *)
(* loses what these payments take off it, and a batch settles only once.   *)
(* No invoice is paid twice and nothing is paid after the whole was.  A    *)
(* payment of the whole is of the amount due at that moment unless the     *)
(* operator gives another, part payments stay within it, for documents     *)
(* that were not altered behind a payment.  What is due may be edited at   *)
(* any time; a document with payments is altered by that.  A void credit   *)
(* was never used and never is.                                            *)
(***************************************************************************)
EXTENDS Integers, Sequences, Functions

CONSTANTS
  Pas, Claims,       \* payable documents; credits are used for PAs
  Credits,
  Batches, NoBatch,  \* NoBatch: a payment of its own
  Due,               \* what each document is for at first
  Face               \* what each credit is worth

VARIABLES
  paid,        \* per document, its payments
  due,         \* per document, what it is for
  left,        \* per credit, what is left of it
  void,        \* the credits voided
  altered      \* the documents edited after a payment or closed by hand

vars == <<paid, due, left, void, altered>>

Docs == Pas \cup Claims
Whole == {}    \* the invoices of a payment of the whole document

Init ==
  /\ paid = [d \in Docs |-> <<>>] /\ due = Due
  /\ left = Face /\ void = {} /\ altered = {}

Gross(payments) ==
  SumFunctionOnSet([k \in DOMAIN payments |-> payments[k].gross], DOMAIN payments)
Latest(payments) == payments[Len(payments)]

MayPay(d, payment) ==
  /\ \A k \in DOMAIN paid[d] :
       /\ paid[d][k].invoices # Whole /\ payment.invoices # Whole
       /\ paid[d][k].invoices \cap payment.invoices = {}
  /\ \/ d \in altered
     \/ payment.invoices = Whole /\ (payment.asked \/ payment.gross = due[d])
     \/ payment.invoices # Whole /\ Gross(paid[d]) + payment.gross <= due[d]
  /\ d \in Claims => \A c \in Credits : payment.takes[c] = 0

OfOneBatch(docs, b) ==
  IF b = NoBatch THEN \E d \in docs : docs = {d}
  ELSE \A d \in Docs : \A k \in DOMAIN paid[d] : paid[d][k].batch # b

Settle(docs, b) ==
  /\ docs = {d \in Docs : paid'[d] # paid[d]} /\ OfOneBatch(docs, b)
  /\ \A d \in docs :
       /\ paid'[d] = Append(paid[d], Latest(paid'[d]))
       /\ Latest(paid'[d]).batch = b /\ MayPay(d, Latest(paid'[d]))
  /\ \A c \in Credits :
       /\ left'[c] = left[c] - SumFunctionOnSet([d \in docs |-> Latest(paid'[d]).takes[c]],
                                                docs \cap Pas)
       /\ left'[c] >= 0 /\ (c \in void => left'[c] = left[c])
  /\ DOMAIN paid' = Docs /\ DOMAIN left' = Credits
  /\ UNCHANGED <<due, void, altered>>

Void(c) ==
  /\ left[c] = Face[c] /\ void' = void \cup {c}
  /\ UNCHANGED <<paid, due, left, altered>>

Edit ==
  /\ altered \subseteq altered' /\ altered' \subseteq Docs /\ DOMAIN due' = Docs
  /\ \A d \in Docs : due'[d] # due[d] /\ paid[d] # <<>> => d \in altered'
  /\ UNCHANGED <<paid, left, void>>

Next ==
  \/ \E docs \in (SUBSET Docs) \ {{}}, b \in Batches \cup {NoBatch} : Settle(docs, b)
  \/ \E c \in Credits : Void(c)
  \/ Edit

Spec == Init /\ [][Next]_vars

=============================================================================
