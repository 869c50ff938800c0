----------------------- MODULE PaymentExecution_proofs -----------------------
(***************************************************************************)
(* What holds of payments whatever payments, batches, crashes, aborted     *)
(* deadlocks and edits of Data Maintenance run side by side, for any       *)
(* number of documents, invoices, credits, batches and sessions.           *)
(*                                                                         *)
(* The argument: an invariant over rows (PaidInv) that says of each row    *)
(* what it says of the committed one, for the rows a transaction is about  *)
(* to commit and for those a failed line of a batch goes back to.  A       *)
(* document's row carries what its payments settle (Settled): paid once as *)
(* a whole, or in parts that are invoices of its own and come to their     *)
(* amounts, the last part taking what is left; only a document edited      *)
(* behind a payment is let off (Past).  The row a transaction has locked   *)
(* has the amount and the invoices of the committed one (HeldAlike).       *)
(*                                                                         *)
(* Rows are locked by one transaction at a time (LocksApart).  A credit is *)
(* balanced against payments committed and held together (Kept), and what  *)
(* a batch tells of its lines is true of its rows against the committed    *)
(* ones until it is committed (RowsTell), and of those from then on.       *)
(* What is held (Held) then makes a commit one settlement of PaymentLedger,*)
(* edits and voided credits are steps of it too, and it sees no other.     *)
(***************************************************************************)
EXTENDS PaymentExecution, SequenceTheorems, SumLemmas

USE DEF maintained

-----------------------------------------------------------------------------
(* A library fold that adds up integers is their sum.                      *)
LEMMA FoldIsSum ==
  ASSUME NEW S, IsFiniteSet(S), NEW f, \A x \in S : f[x] \in Int
  PROVE  SumFunctionOnSet(f, S) = SumOf(f, S)
<1> DEFINE Iterates(g) == g = [s \in SUBSET S |->
             IF s = {} THEN 0 ELSE f[Some(s)] + g[s \ {Some(s)}]]
           iter == CHOOSE g : Iterates(g)
<1>1. PICK g \in [SUBSET S -> Int] : Unfolds(g, f, S)
  BY FoldExists
<1>2. Iterates(g)
  BY <1>1 DEF Unfolds
<1>3. Iterates(iter)
  BY <1>2, Zenon
<1>4. Unfolds(iter, f, S)
  <2> HIDE DEF iter
  <2> QED BY <1>3 DEF Unfolds
<1>5. iter[S] = SumOf(f, S)
  <2> HIDE DEF iter
  <2> QED BY <1>4, SumIsFold
<1>6. SumFunctionOnSet(f, S) = iter[S]
  BY Zenon DEF SumFunctionOnSet, FoldFunctionOnSet, MapThenFoldSet, Some
<1> QED
  BY <1>5, <1>6

-----------------------------------------------------------------------------
(* Amounts. *)

(* Invoices that add up, disjoint sets of them apart.                      *)
LEMMA AmountsAdd ==
  ASSUME NEW prices \in [Invoices -> Nat],
         NEW S \in SUBSET Invoices, NEW T \in SUBSET Invoices, S \cap T = {}
  PROVE  /\ SumFunctionOnSet(prices, S) \in Nat
         /\ SumFunctionOnSet(prices, S \cup T)
              = SumFunctionOnSet(prices, S) + SumFunctionOnSet(prices, T)
<1>1. /\ \A s \in SUBSET Invoices : IsFiniteSet(s)
      /\ \A x \in Invoices : prices[x] \in Nat
  BY RowAssumption, FS_Subset
<1>2. \A s \in SUBSET Invoices :
        /\ SumFunctionOnSet(prices, s) = SumOf(prices, s)
        /\ SumOf(prices, s) \in Nat
  BY <1>1, FoldIsSum, SumNat
<1>3. SumOf(prices, S \cup T) = SumOf(prices, S) + SumOf(prices, T)
  <2>1. SumOf(prices, S \cup T) = SumOf(prices, S) + SumOf(prices, (S \cup T) \ S)
    BY <1>1, SumUnion
  <2>2. (S \cup T) \ S = T
    OBVIOUS
  <2> QED
    BY <2>1, <2>2, Zenon
<1>4. S \cup T \in SUBSET Invoices
  OBVIOUS
<1> QED
  BY <1>2, <1>3, <1>4

(* What payments amount to, one by one.                                    *)
LEMMA GrossSums ==
  ASSUME NEW payments \in Seq(Payment)
  PROVE  /\ \A some \in SUBSET DOMAIN payments :
              /\ GrossOf(payments, some) \in Int
              /\ GrossOf(payments, some)
                   = SumOf([k \in DOMAIN payments |-> payments[k].gross], some)
         /\ GrossOf(payments, {}) = 0
<1> DEFINE w == [k \in DOMAIN payments |-> payments[k].gross]
<1>1. IsFiniteSet(DOMAIN payments) /\ \A k \in DOMAIN payments : w[k] \in Int
  <2>1. DOMAIN payments = 1 .. Len(payments) /\ Len(payments) \in Nat
    BY LenProperties
  <2>2. \A k \in DOMAIN payments : payments[k] \in Payment
    BY <2>1, ElementOfSeq
  <2> QED
    BY <2>1, <2>2, FS_Interval DEF Payment
<1> HIDE DEF w
<1>2. \A some \in SUBSET DOMAIN payments :
        /\ SumFunctionOnSet(w, some) = SumOf(w, some) /\ SumOf(w, some) \in Int
  BY <1>1, FS_Subset, FoldIsSum, SumInt
<1>3. SumOf(w, {}) = 0
  BY SumEmpty
<1> QED
  BY <1>2, <1>3 DEF GrossOf, w

LEMMA GrossAppend ==
  ASSUME NEW payments \in Seq(Payment), NEW x \in Payment
  PROVE  /\ Gross(payments) \in Int
         /\ Gross(Append(payments, x)) = Gross(payments) + x.gross
<1> DEFINE all == Append(payments, x)
           n == Len(payments)
           v == [k \in DOMAIN all |-> all[k].gross]
           w == [k \in DOMAIN payments |-> payments[k].gross]
<1>1. /\ all \in Seq(Payment) /\ n \in Nat /\ DOMAIN payments = 1 .. n
      /\ DOMAIN all = 1 .. n + 1 /\ all[n + 1] = x
      /\ \A k \in 1 .. n : all[k] = payments[k]
  BY AppendProperties, LenProperties
<1>2. Gross(all) = SumOf(v, 1 .. n + 1) /\ Gross(payments) = SumOf(w, 1 .. n)
  BY <1>1, GrossSums DEF Gross
<1>3. /\ IsFiniteSet(1 .. n + 1) /\ IsFiniteSet(1 .. n)
      /\ (1 .. n + 1) \ {n + 1} = 1 .. n
  <2>1. n \in Nat /\ n + 1 \in Nat
    BY <1>1
  <2>2. (1 .. n + 1) \ {n + 1} = 1 .. n
    BY <2>1
  <2> QED
    BY <2>1, <2>2, FS_Interval
<1>4. /\ \A k \in 1 .. n + 1 : v[k] \in Int
      /\ \A k \in 1 .. n : w[k] \in Int /\ v[k] = w[k]
      /\ v[n + 1] = x.gross /\ x.gross \in Int
  <2>1. \A k \in 1 .. n + 1 : all[k] \in Payment
    BY <1>1, ElementOfSeq
  <2> QED
    BY <1>1, <2>1 DEF Payment
<1> HIDE DEF v, w
<1>5. SumOf(v, 1 .. n + 1) = v[n + 1] + SumOf(v, (1 .. n + 1) \ {n + 1})
  <2>1. n + 1 \in 1 .. n + 1
    BY <1>1
  <2> QED BY <1>3, <1>4, <2>1, SumStep
<1>6. SumOf(v, 1 .. n) = SumOf(w, 1 .. n) /\ SumOf(w, 1 .. n) \in Int
  BY <1>3, <1>4, SumSame, SumInt
<1>7. SumOf(v, (1 .. n + 1) \ {n + 1}) = SumOf(v, 1 .. n)
  BY <1>3, Zenon
<1> QED
  BY <1>2, <1>4, <1>5, <1>6, <1>7

-----------------------------------------------------------------------------
(* What the payments of a document settle.                                 *)

(* A PA paid in parts: its payments are of its own invoices and come to    *)
(* their amounts; all of them when it is closed.                           *)
PaidInParts(d, row, prices) ==
  /\ d \in Pas /\ SumFunctionOnSet(prices, row.links) = row.due
  /\ PaidInvoices(row.payments) \subseteq row.links
  /\ Gross(row.payments) = SumFunctionOnSet(prices, PaidInvoices(row.payments))
  /\ row.status = PaidStatus(d) => PaidInvoices(row.payments) = row.links
  /\ row.closed = PaidInvoices(row.payments)

(* A document nobody edited behind a payment: its payments are in parts or *)
(* of the whole amount, unless the operator gave another.                  *)
Settled(d, row, prices) ==
  /\ row.payments = << >> => row.status = "approved" /\ row.closed = {}
  /\ row.payments # << >> /\ NeverPaidWhole(row) => PaidInParts(d, row, prices)
  /\ ~ NeverPaidWhole(row) => Gross(row.payments) = row.due \/ Overridden(row.payments)

(* The payments that have something to post, and their events.             *)
Booked(payments) == {k \in DOMAIN payments : payments[k].booked # 0}
EventsTell(row) ==
  row.splitEvents + (IF row.wholeEvent THEN 1 ELSE 0) = Cardinality(Booked(row.payments))

(* A document's row.  `past` holds the documents edited behind a payment   *)
(* and the totals of the invoices.                                         *)
DocOk(d, row, past) ==
  /\ row \in DocRow
  /\ PaidOnce(row)
  /\ EventsTell(row)
  /\ d \notin past.altered => Settled(d, row, past.total)
Past == [altered |-> altered, total |-> total]

-----------------------------------------------------------------------------
(* Appending a payment whose invoices are in none of the payments before,  *)
(* or the first payment, leaves every invoice in at most one of them.      *)
LEMMA AppendPaidOnce ==
  ASSUME NEW row, row.payments \in Seq(Payment), PaidOnce(row), NEW payment \in Payment, NEW rest,
         rest.payments = Append(row.payments, payment),
         \/ row.payments = << >>
         \/ /\ NeverPaidWhole(row)
            /\ payment.invoices # Whole
            /\ payment.invoices \cap PaidInvoices(row.payments) = {}
  PROVE  PaidOnce(rest)
<1> DEFINE s == row.payments
           n == Len(s)
<1>1. /\ n \in Nat
      /\ DOMAIN Append(s, payment) = 1 .. n + 1
      /\ \A k \in 1 .. n : Append(s, payment)[k] = s[k]
      /\ Append(s, payment)[n + 1] = payment
      /\ DOMAIN s = 1 .. n
  BY AppendProperties, LenProperties
<1> SUFFICES ASSUME NEW j \in DOMAIN rest.payments, NEW k \in DOMAIN rest.payments, j # k
             PROVE  /\ rest.payments[j].invoices # Whole
                    /\ rest.payments[j].invoices \cap rest.payments[k].invoices = {}
  BY DEF PaidOnce
<1>2. CASE s = << >>
  BY <1>1, <1>2
<1>3. CASE s # << >>
  <2>1. /\ NeverPaidWhole(row)
        /\ payment.invoices # Whole
        /\ payment.invoices \cap PaidInvoices(s) = {}
    BY <1>3
  <2>2. \A i \in 1 .. n : s[i].invoices \cap payment.invoices = {} /\ s[i].invoices # Whole
    <3>1. \A i \in 1 .. n : s[i].invoices # Whole
      BY <2>1, <1>1 DEF NeverPaidWhole
    <3>2. \A i \in 1 .. n : s[i].invoices \subseteq PaidInvoices(s)
      BY <1>1 DEF PaidInvoices
    <3> HIDE DEF s, n
    <3> QED
      BY <2>1, <3>1, <3>2
  <2>3. CASE j = n + 1 \/ k = n + 1
    BY <2>1, <2>2, <2>3, <1>1
  <2>4. CASE j \in 1 .. n /\ k \in 1 .. n
    BY <2>4, <1>1 DEF PaidOnce
  <2> QED
    BY <2>3, <2>4, <1>1
<1> QED
  BY <1>2, <1>3

(* The last payment is the one appended.                                   *)
LEMMA AppendedPayment ==
  ASSUME NEW payments \in Seq(Payment), NEW x \in Payment
  PROVE  /\ Append(payments, x) \in Seq(Payment)
         /\ Append(payments, x) # << >>
         /\ Len(Append(payments, x)) = Len(payments) + 1
         /\ Len(payments) \in Nat
         /\ PaidInvoices(Append(payments, x)) = PaidInvoices(payments) \cup x.invoices
         /\ (\A k \in DOMAIN Append(payments, x) : Append(payments, x)[k].invoices # Whole)
              <=> (\A k \in DOMAIN payments : payments[k].invoices # Whole)
                  /\ x.invoices # Whole
<1> DEFINE all == Append(payments, x)
           n == Len(payments)
<1>1. /\ all \in Seq(Payment) /\ n \in Nat /\ DOMAIN payments = 1 .. n
      /\ DOMAIN all = 1 .. n + 1 /\ all[n + 1] = x /\ Len(all) = n + 1
      /\ \A k \in 1 .. n : all[k] = payments[k]
  BY AppendProperties, LenProperties
<1>2. 1 .. n + 1 = (1 .. n) \cup {n + 1}
  BY <1>1
<1> HIDE DEF all, n
<1>3. \A k \in DOMAIN all : (k \in DOMAIN payments /\ all[k] = payments[k]) \/ k = n + 1
  BY <1>1, <1>2
<1>4. /\ DOMAIN payments \subseteq DOMAIN all /\ n + 1 \in DOMAIN all
      /\ \A k \in DOMAIN payments : all[k] = payments[k]
  BY <1>1, <1>2
<1>5. PaidInvoices(all) = PaidInvoices(payments) \cup x.invoices
  BY <1>1, <1>3, <1>4 DEF PaidInvoices
<1>6. all # << >>
  BY <1>4
<1> QED
  BY <1>1, <1>3, <1>4, <1>5, <1>6 DEF all, n

(* A payment more has an event more, if it has something to post.          *)
LEMMA BookedAppend ==
  ASSUME NEW payments \in Seq(Payment), NEW x \in Payment
  PROVE  /\ Cardinality(Booked(payments)) \in Nat
         /\ Cardinality(Booked(Append(payments, x)))
              = Cardinality(Booked(payments)) + (IF x.booked # 0 THEN 1 ELSE 0)
<1> DEFINE all == Append(payments, x)
           n == Len(payments)
<1>1. /\ n \in Nat /\ DOMAIN payments = 1 .. n
      /\ DOMAIN all = 1 .. n + 1 /\ all[n + 1] = x
      /\ \A k \in 1 .. n : all[k] = payments[k]
  BY AppendProperties, LenProperties
<1>2. 1 .. n + 1 = (1 .. n) \cup {n + 1} /\ n + 1 \notin 1 .. n
  BY <1>1
<1>3. IsFiniteSet(Booked(payments))
  <2>1. IsFiniteSet(DOMAIN payments)
    BY <1>1, FS_Interval
  <2> QED
    BY <2>1, FS_Subset DEF Booked
<1> HIDE DEF n, all
<1>4. Booked(all) = Booked(payments) \cup (IF x.booked # 0 THEN {n + 1} ELSE {})
  BY <1>1, <1>2 DEF Booked
<1>5. n + 1 \notin Booked(payments)
  BY <1>1, <1>2 DEF Booked
<1>6. Cardinality(Booked(payments)) \in Nat
      /\ Cardinality(Booked(payments) \cup {n + 1}) = Cardinality(Booked(payments)) + 1
  BY <1>3, <1>5, FS_AddElement, FS_CardinalityType
<1>7. Cardinality(Booked(all)) = Cardinality(Booked(payments)) + (IF x.booked # 0 THEN 1 ELSE 0)
  <2>1. CASE x.booked # 0
    BY <2>1, <1>4, <1>6
  <2>2. CASE x.booked = 0
    BY <2>2, <1>4, <1>6
  <2> QED
    BY <2>1, <2>2
<1> QED
  BY <1>6, <1>7 DEF all

(* No payment, nothing paid. *)
LEMMA NothingPaid ==
  /\ PaidInvoices(<< >>) = {} /\ Gross(<< >>) = 0 /\ << >> \in Seq(Payment)
  /\ \A s \in Seq(Payment) : (s = << >>) <=> (DOMAIN s = {})
  /\ \A prices : SumFunctionOnSet(prices, {}) = 0
  /\ Cardinality(Booked(<< >>)) = 0
<1>1. << >> \in Seq(Payment) /\ DOMAIN << >> = {}
  BY EmptySeq
<1>2. Gross(<< >>) = 0
  BY <1>1, GrossSums DEF Gross
<1>3. \A s \in Seq(Payment) : (s = << >>) <=> (DOMAIN s = {})
  BY EmptySeq, LenProperties
<1>4. \A prices : SumFunctionOnSet(prices, {}) = SumOf(prices, {})
  BY FS_EmptySet, FoldIsSum
<1>5. Cardinality(Booked(<< >>)) = 0
  BY <1>1, FS_EmptySet DEF Booked
<1> QED
  BY <1>1, <1>2, <1>3, <1>4, <1>5, SumEmpty DEF PaidInvoices

-----------------------------------------------------------------------------
(* What a payment covers. *)

(* An answer of Scope other than to a plain request for the whole.         *)
LEMMA ScopeFields ==
  ASSUME NEW d, NEW row, NEW request,
         ~ (request = Whole /\ \A k \in DOMAIN row.payments : row.payments[k].invoices = Whole),
         Scope(d, row, request).ok
  PROVE  LET open == row.links \ PaidInvoices(row.payments)
             chosen == IF request = Whole THEN open ELSE request
             unsplit == \A k \in DOMAIN row.payments : row.payments[k].invoices = Whole
         IN /\ Splits(d, row) /\ chosen # {} /\ chosen \subseteq open
            /\ Scope(d, row, request).gross =
                 IF chosen = open THEN Remainder(row)
                 ELSE SumFunctionOnSet(total, chosen)
            /\ Scope(d, row, request).invoices =
                 IF chosen = open /\ unsplit THEN Whole ELSE chosen
            /\ Scope(d, row, request).closes = (chosen = open)
<1> DEFINE open == row.links \ PaidInvoices(row.payments)
           unsplit == \A k \in DOMAIN row.payments : row.payments[k].invoices = Whole
           chosen == IF request = Whole THEN open ELSE request
           okay == Splits(d, row) /\ chosen # {} /\ chosen \subseteq open
           gross == IF chosen = open THEN Remainder(row)
                    ELSE SumFunctionOnSet(total, chosen)
           invoices == IF chosen = open /\ unsplit THEN Whole ELSE chosen
           closes == chosen = open
<1>1. Scope(d, row, request) =
          [ok |-> okay, gross |-> gross, invoices |-> invoices, closes |-> closes]
  BY Zenon DEF Scope
<1>2. okay \in BOOLEAN /\ closes \in BOOLEAN
  OBVIOUS
<1>3. /\ Scope(d, row, request).ok = okay
      /\ Scope(d, row, request).gross = gross
      /\ Scope(d, row, request).invoices = invoices
      /\ Scope(d, row, request).closes = closes
  <2> HIDE DEF okay, gross, invoices, closes
  <2> QED BY <1>1, <1>2
<1> QED
  BY <1>3, Zenon

(* The whole of a document is paid when nothing of it was paid by invoice. *)
LEMMA ScopeWhole ==
  ASSUME NEW d \in Docs, NEW row \in DocRow, NEW request,
         Scope(d, row, request).ok, Scope(d, row, request).invoices = Whole
  PROVE  /\ \A k \in DOMAIN row.payments : row.payments[k].invoices = Whole
         /\ Scope(d, row, request).gross = row.due
         /\ Scope(d, row, request).closes = TRUE
         /\ request # Whole => Splits(d, row) /\ request = row.links
<1> DEFINE open == row.links \ PaidInvoices(row.payments)
           unsplit == \A k \in DOMAIN row.payments : row.payments[k].invoices = Whole
           chosen == IF request = Whole THEN open ELSE request
<1>1. CASE request = Whole /\ unsplit
  BY <1>1 DEF Scope
<1>2. CASE ~ (request = Whole /\ unsplit)
  <2>1. /\ Splits(d, row) /\ chosen # {} /\ chosen \subseteq open
        /\ Scope(d, row, request).gross =
             IF chosen = open THEN Remainder(row)
             ELSE SumFunctionOnSet(total, chosen)
        /\ Scope(d, row, request).invoices =
             IF chosen = open /\ unsplit THEN Whole ELSE chosen
        /\ Scope(d, row, request).closes = (chosen = open)
    BY <1>2, ScopeFields, Zenon
  <2>2. chosen = open /\ unsplit
    BY <2>1 DEF Whole
  <2>3. SplitPayments(row.payments) = {} /\ PaidInvoices(row.payments) = {}
    BY <2>2 DEF SplitPayments, PaidInvoices, Whole
  <2>4. Remainder(row) = row.due
    <3>1. row.payments \in Seq(Payment)
      BY DEF DocRow
    <3>2. GrossOf(row.payments, {}) = 0
      BY <3>1, GrossSums
    <3>3. row.due \in Int
      BY DEF DocRow
    <3> QED
      BY <2>3, <3>2, <3>3 DEF Remainder
  <2>5. open = row.links
    BY <2>3
  <2> QED
    BY <2>1, <2>2, <2>4, <2>5
<1> QED
  BY <1>1, <1>2

(* Otherwise some of its open invoices are; for their amounts, or, when    *)
(* they are all that is open, for what is left.                            *)
LEMMA ScopeSplit ==
  ASSUME NEW d, NEW row, NEW request,
         Scope(d, row, request).ok, Scope(d, row, request).invoices # Whole
  PROVE  /\ Splits(d, row)
         /\ Scope(d, row, request).invoices \subseteq row.links \ PaidInvoices(row.payments)
         /\ Scope(d, row, request).closes \in BOOLEAN
         /\ Scope(d, row, request).closes =>
              /\ Scope(d, row, request).invoices = row.links \ PaidInvoices(row.payments)
              /\ Scope(d, row, request).gross = Remainder(row)
              /\ \E k \in DOMAIN row.payments : row.payments[k].invoices # Whole
         /\ ~ Scope(d, row, request).closes =>
              Scope(d, row, request).gross =
                SumFunctionOnSet(total, Scope(d, row, request).invoices)
         /\ request # Whole => Scope(d, row, request).invoices = request
<1> DEFINE open == row.links \ PaidInvoices(row.payments)
           unsplit == \A k \in DOMAIN row.payments : row.payments[k].invoices = Whole
           chosen == IF request = Whole THEN open ELSE request
           scope == Scope(d, row, request)
<1>1. ~ (request = Whole /\ unsplit)
  BY DEF Scope
<1>2. /\ Splits(d, row) /\ chosen # {} /\ chosen \subseteq open
      /\ scope.gross = IF chosen = open THEN Remainder(row)
                       ELSE SumFunctionOnSet(total, chosen)
      /\ scope.invoices = IF chosen = open /\ unsplit THEN Whole ELSE chosen
      /\ scope.closes = (chosen = open)
  BY <1>1, ScopeFields, Zenon
<1>3. scope.invoices = chosen /\ (chosen = open => ~ unsplit)
  BY <1>2
<1>4. CASE chosen = open
  BY <1>2, <1>3, <1>4
<1>5. CASE chosen # open
  BY <1>2, <1>3, <1>5
<1> QED
  BY <1>4, <1>5

(* What is refused aside, a payment is of invoices that exist, for a sum.  *)
LEMMA ScopeType ==
  ASSUME NEW d \in Docs, NEW row \in DocRow, NEW request, Scope(d, row, request).ok,
         total \in [Invoices -> Nat]
  PROVE  /\ Scope(d, row, request).invoices \in SUBSET Invoices
         /\ Scope(d, row, request).gross \in Int
         /\ Scope(d, row, request).closes \in BOOLEAN
<1> DEFINE scope == Scope(d, row, request)
<1>0. row.due \in Int
  BY DEF DocRow
<1>1. CASE scope.invoices = Whole
  <2>1. scope.gross = row.due /\ scope.closes = TRUE
    BY <1>1, ScopeWhole, ZenonT(40)
  <2> HIDE DEF scope
  <2>2. scope.invoices \in SUBSET Invoices
    BY <1>1 DEF Whole
  <2>3. scope.gross \in Int
    BY <1>0, <2>1
  <2>4. scope.closes \in BOOLEAN
    BY <2>1, Zenon
  <2> QED
    BY <2>2, <2>3, <2>4 DEF scope
<1>2. CASE scope.invoices # Whole
  <2>1. /\ scope.invoices \subseteq row.links
        /\ scope.closes \in BOOLEAN
        /\ \/ scope.gross = Remainder(row)
           \/ scope.gross = SumFunctionOnSet(total, scope.invoices)
    BY <1>2, ScopeSplit
  <2>2. row.links \in SUBSET Invoices /\ row.payments \in Seq(Payment)
    BY DEF DocRow
  <2>3. Remainder(row) \in Int
    <3>1. SplitPayments(row.payments) \in SUBSET DOMAIN row.payments
      BY DEF SplitPayments
    <3>2. GrossOf(row.payments, SplitPayments(row.payments)) \in Int
      BY <2>2, <3>1, GrossSums
    <3> QED
      BY <1>0, <3>2 DEF Remainder
  <2>5. SumFunctionOnSet(total, scope.invoices) \in Nat
    <3>1. scope.invoices \in SUBSET Invoices /\ scope.invoices \cap {} = {}
      BY <2>1, <2>2
    <3> HIDE DEF scope
    <3> QED BY <3>1, AmountsAdd
  <2> QED
    BY <2>1, <2>2, <2>3, <2>5
<1> QED
  BY <1>1, <1>2

-----------------------------------------------------------------------------
(* The payment of a row that is written for it, and the row.               *)
PaymentOf(d, scope, base, takes, from) ==
  [invoices |-> scope.invoices, gross |-> base, takes |-> takes,
   booked |-> IF d \in Claims THEN scope.gross ELSE base,
   asked |-> from.asked # AsDue, batch |-> from.batch]

PaidColumns(d, row, scope, payment, rest) ==
  /\ payment \in Payment
  /\ rest \in DocRow
  /\ rest.payments = Append(row.payments, payment)
  /\ rest.status = (IF scope.closes THEN PaidStatus(d) ELSE row.status)
  /\ rest.links = row.links /\ rest.due = row.due
  /\ rest.closed = row.closed \cup (IF scope.closes THEN row.links ELSE scope.invoices)

EventMore(row, payment, rest) ==
  /\ payment.booked = 0 => /\ rest.wholeEvent = row.wholeEvent
                           /\ rest.splitEvents = row.splitEvents
  /\ payment.booked # 0 /\ payment.invoices = Whole =>
       rest.wholeEvent = TRUE /\ rest.splitEvents = row.splitEvents
  /\ payment.booked # 0 /\ payment.invoices # Whole =>
       rest.wholeEvent = row.wholeEvent /\ rest.splitEvents = row.splitEvents + 1

LEMMA PaidRowColumns ==
  ASSUME NEW d \in Docs, NEW row \in DocRow, NEW request,
         Scope(d, row, request).ok, total \in [Invoices -> Nat],
         NEW takes \in [CreditSet -> Nat], NEW base \in Int,
         NEW from, from.batch \in Batches \cup {NoBatch},
         NEW scope, scope = Scope(d, row, request),
         NEW rest, rest = PaidRow(d, row, scope, base, takes, from),
         NEW payment, payment = PaymentOf(d, scope, base, takes, from)
  PROVE  PaidColumns(d, row, scope, payment, rest) /\ EventMore(row, payment, rest)
<1> DEFINE booked == IF d \in Claims THEN scope.gross ELSE base
           whole == row.wholeEvent \/ (scope.invoices = Whole /\ booked # 0)
           split == row.splitEvents
                      + (IF scope.invoices = Whole \/ booked = 0 THEN 0 ELSE 1)
           status == IF scope.closes THEN PaidStatus(d) ELSE row.status
           closed == row.closed \cup (IF scope.closes THEN row.links ELSE scope.invoices)
<1>1. /\ scope.invoices \in SUBSET Invoices
      /\ scope.gross \in Int /\ scope.closes \in BOOLEAN
  BY ScopeType
<1>2. payment \in Payment /\ payment.booked = booked /\ payment.invoices = scope.invoices
  <2>1. booked \in Int
    BY <1>1
  <2> QED
    BY <1>1, <2>1 DEF Payment, PaymentOf
<1>3. /\ row.payments \in Seq(Payment) /\ row.links \in SUBSET Invoices /\ row.due \in Int
      /\ row.closed \in SUBSET Invoices /\ row.status \in {"approved", "processed", "paid"}
      /\ row.wholeEvent \in BOOLEAN /\ row.splitEvents \in Nat
  BY DEF DocRow
<1>4. /\ whole \in BOOLEAN /\ split \in Nat
      /\ status \in {"approved", "processed", "paid"} /\ closed \in SUBSET Invoices
  <2>1. whole \in BOOLEAN /\ split \in Nat
    BY <1>3
  <2>2. status \in {"approved", "processed", "paid"}
    BY <1>3 DEF PaidStatus
  <2>3. closed \in SUBSET Invoices
    BY <1>1, <1>3
  <2> QED
    BY <2>1, <2>2, <2>3
<1>5. Append(row.payments, payment) \in Seq(Payment)
  BY <1>2, <1>3, AppendedPayment
<1>6. rest = [status |-> status, due |-> row.due, links |-> row.links,
              payments |-> Append(row.payments, payment), closed |-> closed,
              wholeEvent |-> whole, splitEvents |-> split]
  BY Zenon DEF PaidRow, KeyedOnDoc, Closes, PaymentOf
<1>7. /\ booked = 0 => whole = row.wholeEvent /\ split = row.splitEvents
      /\ booked # 0 /\ scope.invoices = Whole => whole = TRUE /\ split = row.splitEvents
      /\ booked # 0 /\ scope.invoices # Whole =>
           whole = row.wholeEvent /\ split = row.splitEvents + 1
  <2> HIDE DEF booked
  <2>1. /\ booked = 0 => whole = row.wholeEvent
        /\ booked # 0 /\ scope.invoices = Whole => whole = TRUE
        /\ booked # 0 /\ scope.invoices # Whole => whole = row.wholeEvent
    BY <1>3
  <2>2. /\ booked = 0 => split = row.splitEvents
        /\ booked # 0 /\ scope.invoices = Whole => split = row.splitEvents
        /\ booked # 0 /\ scope.invoices # Whole => split = row.splitEvents + 1
    BY <1>3
  <2> QED
    BY <2>1, <2>2
<1> HIDE DEF status, closed, whole, split, booked
<1>8. rest \in DocRow
  BY <1>3, <1>4, <1>5, <1>6 DEF DocRow
<1>9. /\ rest.payments = Append(row.payments, payment) /\ rest.due = row.due
      /\ rest.status = status /\ rest.links = row.links /\ rest.closed = closed
      /\ rest.wholeEvent = whole /\ rest.splitEvents = split
  BY <1>4, <1>6
<1> QED
  <2>1. PaidColumns(d, row, scope, payment, rest)
    BY <1>2, <1>8, <1>9, Zenon DEF status, closed, PaidColumns
  <2>2. EventMore(row, payment, rest)
    BY <1>2, <1>7, <1>9, Zenon DEF EventMore
  <2> QED
    BY <2>1, <2>2

(* An event more, unless there is nothing to post: a payment of the whole  *)
(* is the first one, so its key was not used before.                       *)
LEMMA EventsGrow ==
  ASSUME NEW row \in DocRow, EventsTell(row), NEW payment \in Payment,
         NEW rest \in DocRow, rest.payments = Append(row.payments, payment),
         payment.invoices = Whole => row.payments = << >>, EventMore(row, payment, rest)
  PROVE  EventsTell(rest)
<1> DEFINE n == Cardinality(Booked(row.payments))
<1>1. /\ n \in Nat
      /\ Cardinality(Booked(rest.payments)) = n + (IF payment.booked # 0 THEN 1 ELSE 0)
  BY BookedAppend DEF DocRow
<1>2. /\ row.splitEvents \in Nat /\ row.wholeEvent \in BOOLEAN
      /\ row.splitEvents + (IF row.wholeEvent THEN 1 ELSE 0) = n
  BY DEF DocRow, EventsTell
<1>3. payment.invoices = Whole => n = 0
  BY NothingPaid
<1> HIDE DEF n
<1>4. CASE payment.booked = 0
  BY <1>1, <1>2, <1>4 DEF EventsTell, EventMore
<1>5. CASE payment.booked # 0 /\ payment.invoices = Whole
  BY <1>1, <1>2, <1>3, <1>5 DEF EventsTell, EventMore
<1>6. CASE payment.booked # 0 /\ payment.invoices # Whole
  BY <1>1, <1>2, <1>6 DEF EventsTell, EventMore
<1> QED
  BY <1>4, <1>5, <1>6

(* A payment of the whole is the first one, and settles its document       *)
(* unless the operator gave the amount.                                    *)
LEMMA WholeIsFirst ==
  ASSUME NEW d \in Docs, NEW row \in DocRow, NEW request, NeverPaidWhole(row),
         Scope(d, row, request).ok, Scope(d, row, request).invoices = Whole
  PROVE  row.payments = << >>
<1>1. DOMAIN row.payments = {}
  BY ScopeWhole DEF NeverPaidWhole
<1> QED
  BY <1>1, NothingPaid DEF DocRow

LEMMA WholeSettles ==
  ASSUME NEW d \in Docs, NEW row \in DocRow, NEW request, NEW prices,
         NeverPaidWhole(row), NEW scope, scope = Scope(d, row, request),
         scope.ok, scope.invoices = Whole, NEW payment \in Payment,
         payment.invoices = scope.invoices, payment.gross = scope.gross \/ payment.asked,
         NEW rest \in DocRow, rest.payments = Append(row.payments, payment),
         rest.due = row.due
  PROVE  Settled(d, rest, prices)
<1>1. row.payments = << >> /\ scope.gross = row.due
  <2>1. Scope(d, row, request).ok /\ Scope(d, row, request).invoices = Whole
    OBVIOUS
  <2>2. row.payments = << >> /\ Scope(d, row, request).gross = row.due
    BY <2>1, ScopeWhole, WholeIsFirst
  <2> QED
    BY <2>2
<1>2. row.payments \in Seq(Payment) /\ Len(row.payments) = 0
  BY <1>1, EmptySeq DEF DocRow
<1>3. rest.payments # << >> /\ ~ NeverPaidWhole(rest)
  BY <1>2, AppendedPayment DEF NeverPaidWhole
<1>4. DOMAIN rest.payments = 1 .. 1 /\ rest.payments[1] = payment
  BY <1>2, AppendProperties
<1>5. CASE payment.asked
  BY <1>3, <1>4, <1>5 DEF Settled, Overridden
<1>6. CASE payment.gross = scope.gross
  <2>1. row.payments \in Seq(Payment) /\ Gross(row.payments) = 0
    BY <1>1, NothingPaid
  <2>2. Gross(rest.payments) = Gross(row.payments) + payment.gross
    BY <2>1, GrossAppend
  <2>3. row.due \in Int
    BY DEF DocRow
  <2> QED
    BY <1>1, <1>3, <1>6, <2>1, <2>2, <2>3 DEF Settled
<1> QED
  BY <1>5, <1>6

(* So does, step by step, a payment of open invoices.                      *)
LEMMA SplitSettles ==
  ASSUME NEW d \in Docs, NEW row \in DocRow, NEW request, total \in [Invoices -> Nat],
         Settled(d, row, total), NeverPaidWhole(row), row.status = "approved",
         NEW scope, scope = Scope(d, row, request),
         scope.ok, scope.invoices # Whole, NEW payment \in Payment,
         payment.invoices = scope.invoices, payment.gross = scope.gross,
         NEW rest \in DocRow, rest.payments = Append(row.payments, payment),
         rest.status = (IF scope.closes THEN PaidStatus(d) ELSE row.status),
         rest.links = row.links, rest.due = row.due,
         rest.closed = row.closed \cup (IF scope.closes THEN row.links ELSE scope.invoices)
  PROVE  Settled(d, rest, total)
<1> DEFINE paid == PaidInvoices(row.payments)
           sum(S) == SumFunctionOnSet(total, S)
           chosen == scope.invoices
<1>1. row.payments \in Seq(Payment) /\ row.links \in SUBSET Invoices /\ row.due \in Int
  BY DEF DocRow
<1>2. /\ Splits(d, row) /\ chosen \subseteq row.links \ paid
      /\ scope.closes \in BOOLEAN
      /\ scope.closes => /\ chosen = row.links \ paid
                         /\ scope.gross = Remainder(row)
      /\ ~ scope.closes => scope.gross = sum(chosen)
  BY ScopeSplit
<1>3. paid \subseteq row.links /\ Gross(row.payments) = sum(paid) /\ row.closed = paid
  <2>1. CASE row.payments = << >>
    BY <2>1, NothingPaid DEF Settled
  <2>2. CASE row.payments # << >>
    BY <2>2 DEF Settled, PaidInParts
  <2> QED
    BY <2>1, <2>2
<1>4. /\ sum(row.links) = row.due
      /\ sum(chosen) \in Nat /\ sum(paid) \in Nat
      /\ sum(paid \cup chosen) = sum(paid) + sum(chosen)
      /\ scope.closes => paid \cup chosen = row.links
  <2>1. paid \in SUBSET Invoices /\ chosen \in SUBSET Invoices /\ paid \cap chosen = {}
    BY <1>1, <1>2, <1>3
  <2>2. /\ sum(paid) \in Nat /\ sum(paid \cup chosen) = sum(paid) + sum(chosen)
    BY <2>1, AmountsAdd
  <2>3. sum(chosen) \in Nat
    <3>1. chosen \cap paid = {}
      BY <2>1
    <3> QED
      BY <2>1, <3>1, AmountsAdd
  <2>4. sum(row.links) = row.due
    BY <1>2 DEF Splits
  <2>5. scope.closes => paid \cup chosen = row.links
    BY <1>2, <1>3
  <2> QED
    BY <2>2, <2>3, <2>4, <2>5
<1>5. scope.gross = sum(chosen)
  <2>1. CASE ~ scope.closes
    BY <1>2, <2>1
  <2>2. CASE scope.closes
    <3>1. SplitPayments(row.payments) = DOMAIN row.payments
      BY DEF SplitPayments, NeverPaidWhole
    <3>2. scope.gross = row.due - Gross(row.payments)
      BY <1>2, <2>2, <3>1 DEF Remainder, Gross
    <3>3. sum(paid \cup chosen) = sum(row.links)
      BY <1>4, <2>2
    <3> QED
      BY <1>3, <1>4, <3>2, <3>3
  <2> QED
    BY <2>1, <2>2
<1>6. /\ rest.payments # << >>
      /\ PaidInvoices(rest.payments) = paid \cup chosen
      /\ NeverPaidWhole(rest)
  BY <1>1, AppendedPayment DEF NeverPaidWhole
<1>7. Gross(rest.payments) = sum(paid \cup chosen)
  <2>1. Gross(rest.payments) = Gross(row.payments) + scope.gross
    BY <1>1, GrossAppend
  <2> QED
    BY <1>3, <1>4, <1>5, <2>1
<1>8. d \in Pas /\ sum(rest.links) = rest.due
  BY <1>2, <1>4 DEF Splits
<1>9. PaidInvoices(rest.payments) \subseteq rest.links
  BY <1>2, <1>3, <1>6
<1>10. rest.status = PaidStatus(d) => PaidInvoices(rest.payments) = rest.links
  <2>1. row.status # PaidStatus(d)
    BY DEF PaidStatus
  <2>2. rest.status = PaidStatus(d) => scope.closes
    BY <2>1
  <2> QED
    BY <2>2, <1>4, <1>6
<1>11. rest.closed = PaidInvoices(rest.payments)
  <2>1. CASE scope.closes
    BY <2>1, <1>3, <1>4, <1>6
  <2>2. CASE ~ scope.closes
    BY <2>2, <1>3, <1>6
  <2> QED
    BY <2>1, <2>2
<1>12. Gross(rest.payments) = SumFunctionOnSet(total, PaidInvoices(rest.payments))
  BY <1>6, <1>7, Zenon
<1> HIDE DEF paid, chosen
<1>13. PaidInParts(d, rest, total)
  BY <1>8, <1>9, <1>10, <1>11, <1>12 DEF PaidInParts
<1> QED
  BY <1>6, <1>13 DEF Settled

-----------------------------------------------------------------------------
(* The invariant, row by row: rows committed, rows a transaction is about  *)
(* to commit and rows it may go back to.                                   *)

(* A credit is exhausted when nothing is left, void when nothing was used. *)
CreditOk(c, row) ==
  /\ row \in CreditRow
  /\ row.status = "exhausted" <=> row.left = 0
  /\ row.status = "void" => row.left = Face[c]

(* A batch has lines for documents that exist. *)
BatchOk(row) ==
  /\ row \in [status : BatchStatus, lines : {row.lines}]
  /\ DOMAIN row.lines \subseteq Docs
  /\ \A d \in DOMAIN row.lines : row.lines[d] \in BatchLine

(* What a row of its table must be. *)
GoodRow(r, row, past) ==
  /\ r \in Docs => DocOk(r, row, past)
  /\ r \in CreditSet => CreditOk(r, row)
  /\ r \in Batches => BatchOk(row)

GoodRows(rows, past) ==
  /\ DOMAIN rows \subseteq Rows
  /\ \A r \in DOMAIN rows : GoodRow(r, rows[r], past)

(* An execution under way, and the rows a failed line goes back to. *)
JobShape(j, past) ==
  /\ j \in [op : {"pay"}, batch : Batches \cup {NoBatch},
            todo : SUBSET Docs, at : Docs \cup {NoDoc},
            request : {j.request}, asked : Int \cup {AsDue}, credits : CreditChoices,
            savepoint : {j.savepoint}]
  /\ j.batch # NoBatch => j.asked = AsDue
  /\ GoodRows(j.savepoint, past)

(* What Data Maintenance alone changes. *)
MaintainedOk ==
  /\ total \in [Invoices -> Nat] /\ altered \in SUBSET Docs
  /\ stale \in [Batches -> SUBSET (Docs \cup Invoices)]

(* The invariant of the payments. *)
PaidInv ==
  /\ MaintainedOk
  /\ DOMAIN db = Rows /\ GoodRows(db, Past)
  /\ DOMAIN mine = Txs /\ \A t \in Txs : GoodRows(mine[t], Past)
  /\ DOMAIN job = Txs /\ \A t \in Txs : job[t] = Idle \/ JobShape(job[t], Past)

(* Data Maintenance edits a PA. *)
EditedPa ==
  \/ edit = NoEdit
  \/ edit \in [pc : {"write", "replay"}, pa : Pas, links : SUBSET Invoices, replay : BOOLEAN]

-----------------------------------------------------------------------------
(* The rows of two tables are different ones. *)
LEMMA Tables ==
  /\ Docs \cap Batches = {} /\ Docs \cap CreditSet = {} /\ Batches \cap CreditSet = {}
  /\ Docs \subseteq Rows /\ Batches \subseteq Rows /\ CreditSet \subseteq Rows
  /\ Pas \subseteq Docs
BY RowAssumption DEF Docs, CreditSet, Rows

(* More documents edited asks less of the rows.                            *)
LEMMA MoreAltered ==
  ASSUME NEW rows, NEW more, NEW past, past.altered \subseteq more.altered,
         more.total = past.total, GoodRows(rows, past)
  PROVE  GoodRows(rows, more)
<1>1. \A d, row : DocOk(d, row, past) => DocOk(d, row, more)
  BY DEF DocOk
<1> QED
  BY <1>1 DEF GoodRows, GoodRow

(* The row of a payment that is not refused is a good one.                 *)
LEMMA PaidRowGood ==
  ASSUME NEW d \in Docs, NEW row, NEW past, past.total = total, DocOk(d, row, past),
         total \in [Invoices -> Nat], NEW request, NEW expected,
         Payable(d, row, request, expected), NEW takes \in [CreditSet -> Nat],
         NEW from, from.batch \in Batches \cup {NoBatch},
         NEW base \in Int,
         \/ base = Scope(d, row, request).gross
         \/ from.asked # AsDue /\ expected = {base}
  PROVE  DocOk(d, PaidRow(d, row, Scope(d, row, request), base, takes, from), past)
<1> SUFFICES ASSUME NEW scope, scope = Scope(d, row, request),
                    NEW rest, rest = PaidRow(d, row, scope, base, takes, from),
                    NEW payment, payment = PaymentOf(d, scope, base, takes, from)
             PROVE  DocOk(d, rest, past)
  OBVIOUS
<1>1. row \in DocRow /\ PaidOnce(row) /\ EventsTell(row)
  BY DEF DocOk
<1>2. /\ row.status = "approved" /\ NeverPaidWhole(row) /\ scope.ok
      /\ scope.invoices # Whole => expected \subseteq {scope.gross}
  BY DEF Payable, AsExpected
<1>3. /\ PaidColumns(d, row, scope, payment, rest) /\ EventMore(row, payment, rest)
      /\ payment \in Payment /\ rest \in DocRow
      /\ rest.payments = Append(row.payments, payment)
  <2>1. Scope(d, row, request).ok
    BY <1>2
  <2>2. PaidColumns(d, row, scope, payment, rest) /\ EventMore(row, payment, rest)
    BY <1>1, <2>1, PaidRowColumns
  <2> QED
    BY <2>2 DEF PaidColumns
<1>4. /\ payment.invoices = scope.invoices /\ payment.gross = base
      /\ \/ base = scope.gross
         \/ payment.asked = TRUE /\ expected = {base}
  <2>1. payment.invoices = scope.invoices /\ payment.gross = base
    BY DEF PaymentOf
  <2>2. payment.asked = (from.asked # AsDue)
    BY DEF PaymentOf
  <2> QED
    BY <2>1, <2>2
<1>5. row.payments \in Seq(Payment)
  BY <1>1 DEF DocRow
<1>6. CASE scope.invoices = Whole
  <2>1. row.payments = << >>
    BY <1>1, <1>2, <1>6, WholeIsFirst
  <2>2. PaidOnce(rest)
    BY <2>1, <1>1, <1>3, <1>5, AppendPaidOnce
  <2>3. Settled(d, rest, past.total)
    <3>1. payment.gross = scope.gross \/ payment.asked
      BY <1>4
    <3> QED
      BY <1>1, <1>2, <1>3, <1>4, <1>6, <3>1, WholeSettles DEF PaidColumns
  <2>4. EventsTell(rest)
    BY <2>1, <1>1, <1>3, <1>4, <1>6, EventsGrow
  <2> QED
    BY <1>3, <2>2, <2>3, <2>4 DEF DocOk
<1>7. CASE scope.invoices # Whole
  <2>1. scope.invoices \cap PaidInvoices(row.payments) = {}
    BY <1>2, <1>7, ScopeSplit
  <2>2. payment.invoices # Whole /\ payment.invoices \cap PaidInvoices(row.payments) = {}
    BY <2>1, <1>4, <1>7, Zenon
  <2>3. PaidOnce(rest)
    BY <2>2, <1>1, <1>2, <1>3, <1>5, AppendPaidOnce, SMTT(20)
  <2>4. payment.gross = scope.gross
    BY <1>2, <1>4, <1>7
  <2>5. Settled(d, row, total) => Settled(d, rest, total)
    <3>1. /\ rest.status = (IF scope.closes THEN PaidStatus(d) ELSE row.status)
          /\ rest.links = row.links /\ rest.due = row.due
          /\ rest.closed = row.closed \cup (IF scope.closes THEN row.links ELSE scope.invoices)
      BY <1>3 DEF PaidColumns
    <3>2. payment.invoices = scope.invoices
      BY <1>4
    <3> QED
      BY <1>1, <1>2, <1>3, <1>7, <2>4, <3>1, <3>2, SplitSettles
  <2>6. EventsTell(rest)
    BY <1>1, <1>3, <1>4, <1>7, EventsGrow
  <2> QED
    BY <1>3, <2>3, <2>5, <2>6 DEF DocOk
<1> QED
  BY <1>6, <1>7

-----------------------------------------------------------------------------
(* Credits. *)

(* There are finitely many credits: they are listed by age. *)
LEMMA CreditSetFinite == IsFiniteSet(CreditSet)
<1>1. Credits \in Seq(CreditSet) /\ DOMAIN Credits = 1 .. Len(Credits)
  BY CreditAssumption, LenProperties DEF CreditSet
<1>2. \A c \in CreditSet : \E k \in 1 .. Len(Credits) : Credits[k] = c
  BY <1>1 DEF CreditSet, Range
<1> QED
  BY <1>1, <1>2 DEF IsFiniteSet

(* Where Data Maintenance is not at work.                                  *)
LEMMA SamePast ==
  ASSUME UNCHANGED maintained
  PROVE  Past' = Past /\ (MaintainedOk => MaintainedOk')
BY DEF Past, MaintainedOk

(* What is paid: what is due, or what the operator gave.                   *)
LEMMA AmountGiven ==
  ASSUME NEW t, NEW past, JobShape(job[t], past), NEW scope, scope.gross \in Int
  PROVE  /\ AmountPaid(t, scope) \in Int
         /\ \/ AmountPaid(t, scope) = scope.gross
            \/ job[t].asked # AsDue /\ Expected(t) = {AmountPaid(t, scope)}
         /\ job[t].batch # NoBatch => AmountPaid(t, scope) = scope.gross
<1>1. /\ job[t].asked \in Int \cup {AsDue}
      /\ job[t].batch # NoBatch => job[t].asked = AsDue
  BY DEF JobShape
<1> QED
  BY <1>1 DEF AmountPaid, Expected

LEMMA ViewGood ==
  ASSUME PaidInv, NEW t \in Txs
  PROVE  /\ \A r \in Rows : GoodRow(r, View(t, r), Past)
         /\ \A c \in CreditSet : /\ CreditOk(c, View(t, c))
                                 /\ View(t, c).left \in Nat
<1>1. \A r \in Rows : GoodRow(r, View(t, r), Past)
  BY DEF PaidInv, GoodRows, View
<1>2. \A c \in CreditSet : CreditOk(c, View(t, c))
  BY <1>1, Tables DEF GoodRow
<1> QED
  BY <1>1, <1>2 DEF CreditOk, CreditRow

LEMMA PickedAre ==
  ASSUME PaidInv, NEW t \in Txs, job[t] # Idle, NEW d, NEW base \in Int
  PROVE  /\ Picked(t, d, base) \subseteq CreditSet
         /\ Picked(t, d, base) # {} => d \notin Claims /\ base > 0
<1>1. job[t].credits \in CreditChoices
  BY DEF PaidInv, JobShape
<1>2. job[t].credits # Oldest => job[t].credits \subseteq CreditSet
  BY <1>1, ChoiceAssumption DEF CreditSet
<1> QED
  BY <1>2 DEF Picked

(* No credit gives more than it has, and only those picked give.           *)
LEMMA TakeBounds ==
  ASSUME PaidInv, NEW t \in Txs, job[t] # Idle, NEW d, NEW base \in Int
  PROVE  /\ Take(t, d, base) \in [CreditSet -> Nat]
         /\ \A c \in CreditSet : Take(t, d, base)[c] <= View(t, c).left
         /\ \A c \in CreditSet \ Picked(t, d, base) : Take(t, d, base)[c] = 0
<1> DEFINE left == [x \in CreditSet |-> Remaining(t, x)]
           Before(c) == SumFunctionOnSet(left, OlderPicked(t, d, base, c))
           Min2(x, y) == IF x < y THEN x ELSE y
           Give(c) == IF c \notin Picked(t, d, base) \/ base <= Before(c) THEN 0
                      ELSE Min2(Remaining(t, c), base - Before(c))
<1>1. Take(t, d, base) = [c \in CreditSet |-> Give(c)]
  BY Zenon DEF Take
<1>2. \A c \in CreditSet : left[c] \in Nat /\ Remaining(t, c) = View(t, c).left
                           /\ Remaining(t, c) \in Nat
  BY ViewGood DEF Remaining
<1> HIDE DEF left
<1>3. \A c \in CreditSet : Before(c) \in Nat
  <2> SUFFICES ASSUME NEW c \in CreditSet PROVE Before(c) \in Nat
    OBVIOUS
  <2> DEFINE S == OlderPicked(t, d, base, c)
  <2>1. S \subseteq CreditSet
    BY PickedAre DEF OlderPicked
  <2>2. IsFiniteSet(S) /\ \A x \in S : left[x] \in Nat
    BY <1>2, <2>1, CreditSetFinite, FS_Subset
  <2> HIDE DEF S
  <2>3. SumFunctionOnSet(left, S) = SumOf(left, S) /\ SumOf(left, S) \in Nat
    BY <2>2, FoldIsSum, SumNat
  <2> QED
    BY <2>3 DEF S
<1>4. ASSUME NEW c \in CreditSet
      PROVE  /\ Give(c) \in Nat /\ Give(c) <= View(t, c).left
             /\ c \notin Picked(t, d, base) => Give(c) = 0
  <2>1. View(t, c).left \in Nat /\ Before(c) \in Nat /\ Remaining(t, c) = View(t, c).left
    BY <1>2, <1>3
  <2> DEFINE before == Before(c)
             mine_left == View(t, c).left
             picked == c \in Picked(t, d, base)
  <2>2. Give(c) = IF ~ picked \/ base <= before THEN 0
                  ELSE IF mine_left < base - before THEN mine_left ELSE base - before
    BY <2>1
  <2> HIDE DEF before, mine_left, picked, Give
  <2> QED
    BY <2>1, <2>2 DEF before, mine_left, picked
<1> HIDE DEF Give
<1> QED
  BY <1>1, <1>4

-----------------------------------------------------------------------------
(* Rows joined behind others, a row of its own: still good.                *)
LEMMA JoinGood ==
  ASSUME NEW f, NEW g, NEW past, GoodRows(f, past), GoodRows(g, past)
  PROVE  GoodRows(Over(f, g), past)
BY DEF GoodRows, Over

LEMMA OneRowGood ==
  ASSUME NEW r \in Rows, NEW row, NEW past, GoodRow(r, row, past)
  PROVE  GoodRows(Row(r, row), past)
BY DEF GoodRows, Row

(* A transaction that holds no row holds good ones. *)
LEMMA NoRowGood ==
  ASSUME NEW past PROVE GoodRows(<< >>, past)
BY DEF GoodRows

(* A line's outcome is written in the row of its batch only.               *)
LEMMA WithLineGood ==
  ASSUME NEW t \in Txs, NEW past, JobShape(job[t], past),
         NEW rows, GoodRows(rows, past), NEW outcome \in {"paid", "failed"}
  PROVE  GoodRows(WithLine(rows, t, outcome), past)
<1>1. CASE job[t].batch = NoBatch
  BY <1>1 DEF WithLine
<1>2. CASE job[t].batch # NoBatch
  <2> SUFFICES ASSUME NEW b, b = job[t].batch, NEW new, new = WithLine(rows, t, outcome)
               PROVE  GoodRows(new, past)
    OBVIOUS
  <2> DEFINE at == job[t].at
             lines == rows[b].lines
             line == [lines[at] EXCEPT !.status = outcome]
  <2>1. b \in Batches
    BY <1>2 DEF JobShape
  <2>2. /\ DOMAIN new = DOMAIN rows
        /\ \A r \in DOMAIN rows \ {b} : new[r] = rows[r]
        /\ b \in DOMAIN rows =>
             new[b] = [rows[b] EXCEPT !.lines = [lines EXCEPT ![at] = line]]
    <3>1. DOMAIN new = DOMAIN rows /\ \A r \in DOMAIN rows \ {b} : new[r] = rows[r]
      BY <1>2 DEF WithLine
    <3>2. b \in DOMAIN rows =>
             new[b] = [rows[b] EXCEPT !.lines = [lines EXCEPT ![at] = line]]
      BY <1>2 DEF WithLine
    <3> QED
      BY <3>1, <3>2
  <2>3. ASSUME b \in DOMAIN rows PROVE BatchOk(new[b])
    <3>1. /\ rows[b] \in [status : BatchStatus, lines : {rows[b].lines}]
          /\ DOMAIN lines \subseteq Docs
          /\ \A d \in DOMAIN lines : lines[d] \in BatchLine
      BY <2>1, <2>3 DEF GoodRows, GoodRow, BatchOk
    <3>2. at \in DOMAIN lines => line \in BatchLine
      <4> SUFFICES ASSUME at \in DOMAIN lines PROVE line \in BatchLine
        OBVIOUS
      <4>1. lines[at] \in BatchLine
        BY <3>1
      <4> QED
        BY <4>1 DEF BatchLine
    <3> DEFINE written == [lines EXCEPT ![at] = line]
    <3>3. /\ DOMAIN written \subseteq Docs
          /\ \A d \in DOMAIN written : written[d] \in BatchLine
      <4> HIDE DEF line
      <4> QED BY <3>1, <3>2
    <3> HIDE DEF written
    <3>4. new[b] = [rows[b] EXCEPT !.lines = written]
      BY <2>2, <2>3 DEF written
    <3>5. new[b] = [status |-> rows[b].status, lines |-> written]
      BY <3>1, <3>4
    <3> QED
      BY <3>1, <3>3, <3>5 DEF BatchOk
  <2>4. ASSUME NEW r \in DOMAIN new PROVE GoodRow(r, new[r], past)
    <3>1. CASE r = b
      BY <2>1, <2>2, <2>3, <3>1, Tables DEF GoodRow
    <3>2. CASE r # b
      BY <2>2, <3>2 DEF GoodRows
    <3> QED
      BY <3>1, <3>2
  <2> QED
    BY <2>2, <2>4 DEF GoodRows
<1> QED
  BY <1>1, <1>2

(* Going on to the next line keeps the job in shape. *)
LEMMA NextLineShape ==
  ASSUME NEW t \in Txs, DOMAIN job = Txs, NEW past, JobShape(job[t], past),
         GoodRows(mine'[t], past), NextLine(t)
  PROVE  /\ DOMAIN job' = Txs
         /\ JobShape(job'[t], past)
         /\ \A u \in Txs \ {t} : job'[u] = job[u]
<1>1. PICK d \in IF LinesLeft(t) = {} THEN {NoDoc} ELSE LinesLeft(t) :
         job' = [job EXCEPT ![t].todo = LinesLeft(t), ![t].at = d, ![t].savepoint = mine'[t]]
  BY DEF NextLine
<1>2. /\ DOMAIN job' = Txs
      /\ job'[t] = [job[t] EXCEPT !.todo = LinesLeft(t), !.at = d, !.savepoint = mine'[t]]
      /\ \A u \in Txs \ {t} : job'[u] = job[u]
  BY <1>1
<1>3. LinesLeft(t) \subseteq Docs /\ d \in Docs \cup {NoDoc}
  BY <1>1 DEF JobShape, LinesLeft
<1> QED
  BY <1>2, <1>3 DEF JobShape

(* A used credit.                                                          *)
LEMMA SpentOk ==
  ASSUME NEW c \in CreditSet, NEW row, CreditOk(c, row), row.status = "available",
         NEW take \in Nat, take <= row.left
  PROVE  CreditOk(c, Spent(row, take))
<1>1. /\ row.left \in Nat /\ row.left # 0
  BY DEF CreditOk, CreditRow
<1> QED
  BY <1>1 DEF CreditOk, CreditRow, Spent

(* The credits of a payment that goes through are usable ones.             *)
LEMMA PickedUsable ==
  ASSUME PaidInv, NEW t \in Txs, job[t] # Idle, NEW d, NEW base \in Int,
         ~ CreditsRefused(t, d, base), NEW c \in Picked(t, d, base)
  PROVE  Usable(t, c)
<1>1. CASE job[t].credits = Oldest
  BY <1>1 DEF Picked
<1>2. CASE job[t].credits # Oldest
  <2>1. c \in job[t].credits /\ base > 0
    BY <1>2, PickedAre DEF Picked
  <2>2. job[t].credits \notin {Oldest, {}}
    BY <1>2, <2>1
  <2> QED
    BY <2>1, <2>2 DEF CreditsRefused
<1> QED
  BY <1>1, <1>2

-----------------------------------------------------------------------------
(* The steps of a transaction. *)

(* A paid line: the document's row is the locked one with one more         *)
(* payment, the other rows written are of credits and of the batch.        *)
LEMMA PayLineKeeps ==
  ASSUME PaidInv, NEW t \in Txs, PayLine(t)
  PROVE  PaidInv'
<1> DEFINE d == job[t].at
           scope == Scope(d, mine[t][d], Request(t))
           base == AmountPaid(t, scope)
           takes == Take(t, d, base)
           paid == PaidRow(d, mine[t][d], scope, base, takes, job[t])
           spent == [c \in Picked(t, d, base) |-> Spent(View(t, c), takes[c])]
           rows == Over(Row(d, paid), Over(spent, mine[t]))
<1>1. /\ job[t] # Idle /\ d \in DOMAIN mine[t] /\ ~ Refused(t) /\ NextLine(t)
      /\ mine' = [mine EXCEPT ![t] = WithLine(rows, t, "paid")]
      /\ db' = db /\ Past' = Past /\ MaintainedOk'
  BY SamePast DEF PayLine, PaidInv
<1>2. JobShape(job[t], Past) /\ GoodRows(mine[t], Past)
  BY <1>1 DEF PaidInv
<1>3. /\ Payable(d, mine[t][d], Request(t), Expected(t))
      /\ ~ CreditsRefused(t, d, base)
  BY <1>1, Zenon DEF Refused
<1>4. d \in Docs /\ DocOk(d, mine[t][d], Past)
  <2>1. d \in Docs
    BY <1>2 DEF JobShape, PayLine
  <2> QED
    BY <1>1, <1>2, <2>1 DEF GoodRows, GoodRow
<1>5. /\ base \in Int
      /\ \/ base = scope.gross
         \/ job[t].asked # AsDue /\ Expected(t) = {base}
  <2>1. scope.ok /\ mine[t][d] \in DocRow /\ total \in [Invoices -> Nat]
    BY <1>3, <1>4 DEF Payable, DocOk, PaidInv, MaintainedOk
  <2>2. scope.gross \in Int
    BY <1>4, <2>1, ScopeType
  <2> QED
    BY <1>2, <2>2, AmountGiven
<1>6. /\ takes \in [CreditSet -> Nat]
      /\ \A c \in CreditSet : takes[c] <= View(t, c).left
      /\ Picked(t, d, base) \subseteq CreditSet
  <2> HIDE DEF d, scope, base
  <2> QED BY <1>1, <1>5, TakeBounds, PickedAre
<1>7. GoodRow(d, paid, Past) /\ d \in Rows
  <2>1. job[t].batch \in Batches \cup {NoBatch}
    BY <1>2 DEF JobShape
  <2>2. DocOk(d, paid, Past)
    <3>1. Past.total = total /\ total \in [Invoices -> Nat]
      BY DEF Past, PaidInv, MaintainedOk
    <3> HIDE DEF takes, base
    <3> QED BY <1>3, <1>4, <1>5, <1>6, <2>1, <3>1, PaidRowGood
  <2> HIDE DEF paid
  <2> QED
    BY <1>4, <2>2, Tables DEF GoodRow
<1>8. GoodRows(spent, Past)
  <2> SUFFICES ASSUME NEW c \in Picked(t, d, base)
               PROVE  c \in CreditSet /\ CreditOk(c, Spent(View(t, c), takes[c]))
    BY <1>6, Tables DEF GoodRows, GoodRow
  <2> HIDE DEF base, takes, scope
  <2>1. Usable(t, c)
    <3> HIDE DEF d
    <3> QED BY <1>1, <1>3, <1>5, PickedUsable
  <2>2. c \in CreditSet
    BY <1>6
  <2>3. CreditOk(c, View(t, c)) /\ View(t, c).status = "available"
    BY <2>1, <2>2, ViewGood DEF Usable
  <2>4. takes[c] \in Nat /\ takes[c] <= View(t, c).left
    BY <1>6, <2>2
  <2> QED
    BY <2>2, <2>3, <2>4, SpentOk
<1> HIDE DEF spent, paid
<1>9. GoodRows(rows, Past)
  BY <1>2, <1>7, <1>8, JoinGood, OneRowGood
<1> HIDE DEF rows
<1>10. GoodRows(WithLine(rows, t, "paid"), Past)
  BY <1>2, <1>9, WithLineGood
<1>11. /\ GoodRows(mine'[t], Past) /\ DOMAIN mine' = Txs
       /\ \A u \in Txs : GoodRows(mine'[u], Past)
  BY <1>1, <1>10 DEF PaidInv
<1>12. /\ DOMAIN job' = Txs
       /\ \A u \in Txs : job'[u] = Idle \/ JobShape(job'[u], Past)
  BY <1>1, <1>2, <1>11, NextLineShape DEF PaidInv
<1> QED
  BY <1>1, <1>11, <1>12 DEF PaidInv

-----------------------------------------------------------------------------
(* A failed line goes back to the rows of its savepoint. *)
LEMMA RefuseLineKeeps ==
  ASSUME PaidInv, NEW t \in Txs, RefuseLine(t)
  PROVE  PaidInv'
<1>1. JobShape(job[t], Past) /\ db' = db /\ Past' = Past /\ MaintainedOk'
  BY SamePast DEF PaidInv, RefuseLine
<1>2. CASE job[t].batch = NoBatch
  <2>1. mine' = [mine EXCEPT ![t] = << >>] /\ job' = [job EXCEPT ![t] = Idle]
    BY <1>2 DEF RefuseLine
  <2>2. DOMAIN mine' = Txs /\ \A u \in Txs : GoodRows(mine'[u], Past)
    BY <2>1, NoRowGood DEF PaidInv
  <2>3. DOMAIN job' = Txs /\ \A u \in Txs : job'[u] = Idle \/ JobShape(job'[u], Past)
    BY <2>1 DEF PaidInv
  <2> QED
    BY <1>1, <2>2, <2>3 DEF PaidInv
<1>3. CASE job[t].batch # NoBatch
  <2>1. /\ mine' = [mine EXCEPT ![t] = WithLine(job[t].savepoint, t, "failed")]
        /\ NextLine(t)
    BY <1>3 DEF RefuseLine
  <2>2. GoodRows(job[t].savepoint, Past)
    BY <1>1 DEF JobShape
  <2>3. GoodRows(WithLine(job[t].savepoint, t, "failed"), Past)
    BY <1>1, <2>2, WithLineGood
  <2>4. /\ GoodRows(mine'[t], Past) /\ DOMAIN mine' = Txs
        /\ \A u \in Txs : GoodRows(mine'[u], Past)
    BY <2>1, <2>3 DEF PaidInv
  <2>5. /\ DOMAIN job' = Txs
        /\ \A u \in Txs : job'[u] = Idle \/ JobShape(job'[u], Past)
    BY <1>1, <2>1, <2>4, NextLineShape DEF PaidInv
  <2> QED
    BY <1>1, <2>4, <2>5 DEF PaidInv
<1> QED
  BY <1>2, <1>3

(* A crash, an aborted deadlock: only uncommitted rows are gone. *)
LEMMA LostKeeps ==
  ASSUME PaidInv, NEW t \in Txs, Lost(t)
  PROVE  PaidInv'
<1>1. /\ db' = db /\ Past' = Past /\ MaintainedOk'
      /\ mine' = [mine EXCEPT ![t] = << >>] /\ job' = [job EXCEPT ![t] = Idle]
  BY SamePast DEF Lost, PaidInv
<1>2. DOMAIN mine' = Txs /\ \A u \in Txs : GoodRows(mine'[u], Past)
  BY <1>1, NoRowGood DEF PaidInv
<1>3. DOMAIN job' = Txs /\ \A u \in Txs : job'[u] = Idle \/ JobShape(job'[u], Past)
  BY <1>1 DEF PaidInv
<1> QED
  BY <1>1, <1>2, <1>3 DEF PaidInv

(* The status of a batch is a column of its row.                           *)
LEMMA BatchStatusGood ==
  ASSUME NEW rows, NEW past, GoodRows(rows, past), NEW b \in Batches,
         NEW status \in BatchStatus
  PROVE  GoodRows([rows EXCEPT ![b].status = status], past)
<1> SUFFICES ASSUME NEW new, new = [rows EXCEPT ![b].status = status]
             PROVE  GoodRows(new, past)
  OBVIOUS
<1>1. DOMAIN new = DOMAIN rows /\ \A r \in DOMAIN rows \ {b} : new[r] = rows[r]
  OBVIOUS
<1>2. ASSUME b \in DOMAIN rows PROVE GoodRow(b, new[b], past)
  <2>1. BatchOk(rows[b])
    BY <1>2 DEF GoodRows, GoodRow
  <2>2. new[b] = [rows[b] EXCEPT !.status = status]
    BY <1>2
  <2>3. BatchOk(new[b])
    BY <2>1, <2>2 DEF BatchOk
  <2> QED
    BY <2>3, Tables DEF GoodRow
<1> QED
  BY <1>1, <1>2 DEF GoodRows

(* A committed transaction's rows replace those of the database. *)
LEMMA CommitKeeps ==
  ASSUME PaidInv, NEW t \in Txs, Commit(t)
  PROVE  PaidInv'
<1>1. /\ job[t] # Idle /\ mine' = [mine EXCEPT ![t] = << >>]
      /\ job' = [job EXCEPT ![t] = Idle] /\ Past' = Past /\ MaintainedOk'
  BY SamePast DEF Commit, PaidInv
<1>2. JobShape(job[t], Past) /\ GoodRows(mine[t], Past) /\ GoodRows(db, Past)
      /\ DOMAIN db = Rows
  BY <1>1 DEF PaidInv
<1>3. PICK rows : GoodRows(rows, Past) /\ db' = Over(rows, db)
  <2>1. CASE job[t].batch = NoBatch
    BY <1>2, <2>1 DEF Commit
  <2>2. CASE job[t].batch # NoBatch
    <3>1. job[t].batch \in Batches
      BY <1>2, <2>2 DEF JobShape
    <3>2. db' = Over([mine[t] EXCEPT ![job[t].batch].status = "executed"], db)
      BY <2>2 DEF Commit
    <3>3. GoodRows([mine[t] EXCEPT ![job[t].batch].status = "executed"], Past)
      BY <1>2, <3>1, BatchStatusGood DEF BatchStatus
    <3> QED
      BY <3>2, <3>3
  <2> QED
    BY <2>1, <2>2
<1>4. GoodRows(db', Past) /\ DOMAIN db' = Rows
  <2>1. GoodRows(db', Past)
    BY <1>2, <1>3, JoinGood
  <2>2. DOMAIN db' = DOMAIN rows \cup DOMAIN db
    BY <1>3 DEF Over
  <2> QED
    BY <1>2, <1>3, <2>1, <2>2 DEF GoodRows
<1>5. DOMAIN mine' = Txs /\ \A u \in Txs : GoodRows(mine'[u], Past)
  BY <1>1, NoRowGood DEF PaidInv
<1>6. DOMAIN job' = Txs /\ \A u \in Txs : job'[u] = Idle \/ JobShape(job'[u], Past)
  BY <1>1 DEF PaidInv
<1> QED
  BY <1>1, <1>4, <1>5, <1>6 DEF PaidInv

(* A locked row is a committed one. *)
LEMMA LockDocKeeps ==
  ASSUME PaidInv, NEW t \in Txs, LockDoc(t)
  PROVE  PaidInv'
<1> DEFINE d == job[t].at
<1>1. /\ mine' = [mine EXCEPT ![t] = Over(Row(d, db[d]), mine[t])]
      /\ db' = db /\ job' = job /\ Past' = Past /\ MaintainedOk'
      /\ job[t] # Idle /\ d # NoDoc
  BY SamePast DEF LockDoc, PaidInv
<1>2. d \in Rows
  BY <1>1, Tables DEF PaidInv, JobShape
<1>3. GoodRows(Row(d, db[d]), Past)
  BY <1>2, OneRowGood DEF PaidInv, GoodRows
<1> HIDE DEF d
<1>4. GoodRows(Over(Row(d, db[d]), mine[t]), Past)
  BY <1>3, JoinGood DEF PaidInv
<1>5. DOMAIN mine' = Txs /\ \A u \in Txs : GoodRows(mine'[u], Past)
  BY <1>1, <1>4 DEF PaidInv
<1> QED
  BY <1>1, <1>5 DEF PaidInv

(* A request of its own holds no lock yet. *)
LEMMA ExecutePaymentKeeps ==
  ASSUME PaidInv, NEW t \in Txs, NEW d \in Docs, NEW order \in Orders[d],
         ExecutePayment(t, d, order)
  PROVE  PaidInv'
<1> DEFINE started == [op |-> "pay", batch |-> NoBatch, todo |-> {d}, at |-> d,
                       request |-> order.request, asked |-> order.asked,
                       credits |-> order.credits, savepoint |-> << >>]
<1>1. /\ job' = [job EXCEPT ![t] = started] /\ db' = db /\ mine' = mine
      /\ Past' = Past /\ MaintainedOk'
  BY SamePast DEF ExecutePayment, PaidInv
<1>2. JobShape(started, Past)
  <2>1. order.asked \in Int \cup {AsDue} /\ order.credits \in CreditChoices
    BY OrderAssumption DEF Docs
  <2> QED
    BY <2>1, NoRowGood DEF JobShape
<1>3. DOMAIN job' = Txs /\ \A u \in Txs : job'[u] = Idle \/ JobShape(job'[u], Past)
  BY <1>1, <1>2 DEF PaidInv
<1> QED
  BY <1>1, <1>3 DEF PaidInv

(* A batch's execution holds the row of the batch. *)
LEMMA ExecuteBatchKeeps ==
  ASSUME PaidInv, NEW t \in Txs, NEW b \in Batches, NEW credits \in CreditChoices,
         ExecuteBatch(t, b, credits)
  PROVE  PaidInv'
<1>1. PICK d \in DOMAIN db[b].lines : job' = [job EXCEPT ![t] =
         [op |-> "pay", batch |-> b, todo |-> DOMAIN db[b].lines, at |-> d,
          request |-> Whole, asked |-> AsDue, credits |-> credits,
          savepoint |-> Row(b, db[b])]]
  BY DEF ExecuteBatch
<1>2. GoodRow(b, db[b], Past) /\ b \in Rows
  BY Tables DEF PaidInv, GoodRows
<1>3. GoodRows(Row(b, db[b]), Past)
  BY <1>2, OneRowGood
<1>4. DOMAIN db[b].lines \subseteq Docs
  BY <1>2 DEF GoodRow, BatchOk
<1>5. JobShape([op |-> "pay", batch |-> b, todo |-> DOMAIN db[b].lines, at |-> d,
                request |-> Whole, asked |-> AsDue, credits |-> credits,
                savepoint |-> Row(b, db[b])], Past)
  BY <1>1, <1>3, <1>4 DEF JobShape
<1>6. DOMAIN job' = Txs /\ \A u \in Txs : job'[u] = Idle \/ JobShape(job'[u], Past)
  BY <1>1, <1>5 DEF PaidInv
<1>7. /\ db' = db /\ Past' = Past /\ MaintainedOk'
      /\ mine' = [mine EXCEPT ![t] = Row(b, db[b])]
  BY SamePast DEF ExecuteBatch, PaidInv
<1>8. DOMAIN mine' = Txs /\ \A u \in Txs : GoodRows(mine'[u], Past)
  BY <1>3, <1>7 DEF PaidInv
<1> QED
  BY <1>6, <1>7, <1>8 DEF PaidInv

-----------------------------------------------------------------------------
(* The steps beside the transactions. *)

(* One committed row is written; more documents may have been edited       *)
(* behind a payment.                                                       *)
LEMMA OneRowWritten ==
  ASSUME PaidInv, MaintainedOk', UNCHANGED <<mine, job>>,
         total' = total, altered \subseteq altered',
         NEW r \in Rows, NEW row, db' = [db EXCEPT ![r] = row], GoodRow(r, row, Past')
  PROVE  PaidInv'
<1>0. Past.altered \subseteq Past'.altered /\ Past'.total = Past.total
  BY DEF Past
<1>1. GoodRows(db, Past') /\ \A u \in Txs : GoodRows(mine[u], Past')
  BY <1>0, MoreAltered DEF PaidInv
<1>2. \A u \in Txs : job[u] = Idle \/ JobShape(job[u], Past')
  BY <1>0, MoreAltered DEF PaidInv, JobShape
<1>3. GoodRows(db', Past') /\ DOMAIN db' = Rows
  BY <1>1 DEF PaidInv, GoodRows
<1> QED
  BY <1>1, <1>2, <1>3 DEF PaidInv

LEMMA QuietWritten ==
  ASSUME PaidInv, UNCHANGED <<mine, job, maintained>>,
         NEW r \in Rows, NEW row, db' = [db EXCEPT ![r] = row], GoodRow(r, row, Past)
  PROVE  PaidInv'
<1>1. Past' = Past /\ MaintainedOk' /\ total' = total /\ altered' = altered
  BY SamePast DEF PaidInv
<1> QED
  BY <1>1, OneRowWritten

(* Drafts are drawn up and cancelled, unused credits are voided. *)
LEMMA DraftsKeep ==
  ASSUME PaidInv, Drafts \/ \E c \in CreditSet : VoidCredit(c)
  PROVE  PaidInv'
<1>1. ASSUME NEW b \in Batches, NEW selection \in Selections, CreateBatch(b, selection)
      PROVE  PaidInv'
  <2> DEFINE line == [d \in DOMAIN selection |->
                        [invoices |-> Scope(d, db[d], selection[d]).invoices,
                         amount |-> Scope(d, db[d], selection[d]).gross, status |-> "pending"]]
             row == [status |-> "draft", lines |-> line]
  <2>1. DOMAIN selection \subseteq Docs
    BY DEF Selections
  <2>2. ASSUME NEW d \in DOMAIN selection PROVE line[d] \in BatchLine
    <3>1. Scope(d, db[d], selection[d]).ok
      BY <1>1 DEF CreateBatch
    <3>2. d \in Docs /\ db[d] \in DocRow
      BY <2>1, Tables DEF PaidInv, GoodRows, GoodRow, DocOk
    <3>3. /\ Scope(d, db[d], selection[d]).invoices \in SUBSET Invoices
          /\ Scope(d, db[d], selection[d]).gross \in Int
      BY <3>1, <3>2, ScopeType DEF PaidInv, MaintainedOk
    <3> QED
      BY <3>3 DEF BatchLine
  <2>3. DOMAIN line = DOMAIN selection
    OBVIOUS
  <2>4. db' = [db EXCEPT ![b] = row] /\ UNCHANGED <<mine, job, maintained>>
    BY <1>1 DEF CreateBatch
  <2> HIDE DEF line
  <2>5. BatchOk(row)
    BY <2>1, <2>2, <2>3 DEF BatchOk, BatchStatus
  <2>6. GoodRow(b, row, Past) /\ b \in Rows
    BY <2>5, Tables DEF GoodRow
  <2> HIDE DEF row
  <2> QED
    BY <2>4, <2>6, QuietWritten
<1>2. ASSUME NEW b \in Batches, CancelBatch(b)
      PROVE  PaidInv'
  <2>1. BatchOk(db[b]) /\ b \in Rows
    BY Tables DEF PaidInv, GoodRows, GoodRow
  <2>2. /\ db' = [db EXCEPT ![b] = [db[b] EXCEPT !.status = "cancelled"]]
        /\ UNCHANGED <<mine, job, maintained>>
    BY <1>2 DEF CancelBatch
  <2>3. BatchOk([db[b] EXCEPT !.status = "cancelled"])
    BY <2>1 DEF BatchOk, BatchStatus
  <2>4. GoodRow(b, [db[b] EXCEPT !.status = "cancelled"], Past)
    BY <2>3, Tables DEF GoodRow
  <2> QED
    BY <2>1, <2>2, <2>4, QuietWritten
<1>3. ASSUME NEW c \in CreditSet, VoidCredit(c)
      PROVE  PaidInv'
  <2>1. /\ db' = [db EXCEPT ![c] = [db[c] EXCEPT !.status = "void"]]
        /\ db[c] = [status |-> "available", left |-> Face[c]] /\ c \in Rows
        /\ UNCHANGED <<mine, job, maintained>>
    BY <1>3, Tables DEF VoidCredit
  <2>2. CreditOk(c, [db[c] EXCEPT !.status = "void"])
    <3>1. Face[c] \in Nat /\ Face[c] # 0
      BY CreditAssumption DEF CreditSet
    <3> QED
      BY <2>1, <3>1 DEF CreditOk, CreditRow
  <2>3. GoodRow(c, [db[c] EXCEPT !.status = "void"], Past)
    BY <2>2, Tables DEF GoodRow
  <2> QED
    BY <2>1, <2>3, QuietWritten
<1> QED
  BY <1>1, <1>2, <1>3 DEF Drafts

-----------------------------------------------------------------------------
(* Row locks: a row is locked by one transaction at a time; a savepoint    *)
(* holds rows that are still locked, and those of a batch its own.         *)
LocksApart ==
  /\ \A t, u \in Txs : t # u => DOMAIN mine[t] \cap DOMAIN mine[u] = {}
  /\ \A t \in Txs : job[t] = Idle => mine[t] = << >>
  /\ \A t \in Txs : job[t] # Idle =>
       /\ DOMAIN job[t].savepoint \subseteq DOMAIN mine[t]
       /\ job[t].batch # NoBatch => job[t].batch \in DOMAIN job[t].savepoint

(* A line's outcome is written in the row of the batch and nowhere else.   *)
LEMMA OtherRowsSame ==
  ASSUME NEW t \in Txs, NEW rows, NEW outcome
  PROVE  /\ DOMAIN WithLine(rows, t, outcome) = DOMAIN rows
         /\ \A r \in DOMAIN rows : r # job[t].batch => WithLine(rows, t, outcome)[r] = rows[r]
BY DEF WithLine

(* What a paid line writes: the document's row has one payment more, the   *)
(* credits picked have less left, the batch tells of it.                   *)
Pays(t, d, scope, takes, picked, payment) ==
  /\ job[t] # Idle /\ d \in Docs /\ d \in DOMAIN mine[t] /\ NextLine(t)
  /\ mine[t][d] \in DocRow
  /\ Payable(d, mine[t][d], Request(t), Expected(t))
  /\ takes \in [CreditSet -> Nat]
  /\ \A c \in CreditSet \ picked : takes[c] = 0
  /\ \A c \in picked : c \in CreditSet /\ Free(t, c) /\ takes[c] <= View(t, c).left
  /\ d \in Claims => picked = {}
  /\ db' = db /\ DOMAIN mine' = Txs /\ \A u \in Txs \ {t} : mine'[u] = mine[u]
  /\ DOMAIN mine'[t] = DOMAIN mine[t] \cup picked
  /\ payment = PaymentOf(d, scope, AmountPaid(t, scope), takes, job[t])
  /\ PaidColumns(d, mine[t][d], scope, payment, mine'[t][d])
  /\ \A c \in picked : mine'[t][c].left = View(t, c).left - takes[c]
  /\ \A c \in picked : View(t, c).status = "available" /\ mine'[t][c].status # "void"
  /\ \A r \in DOMAIN mine[t] \ ({d} \cup picked) :
       r \notin Batches \/ r # job[t].batch => mine'[t][r] = mine[t][r]
  /\ job[t].batch \in Batches /\ job[t].batch \in DOMAIN mine[t] =>
       mine'[t][job[t].batch] =
         [mine[t][job[t].batch] EXCEPT !.lines[d].status = "paid"]

LEMMA LinePaid ==
  ASSUME PaidInv, NEW t \in Txs, PayLine(t),
         NEW d, d = job[t].at,
         NEW scope, scope = Scope(d, mine[t][d], Request(t)),
         NEW takes, takes = Take(t, d, AmountPaid(t, scope)),
         NEW picked, picked = Picked(t, d, AmountPaid(t, scope)),
         NEW payment, payment = PaymentOf(d, scope, AmountPaid(t, scope), takes, job[t])
  PROVE  Pays(t, d, scope, takes, picked, payment)
<1> DEFINE base == AmountPaid(t, scope)
           paid == PaidRow(d, mine[t][d], scope, base, takes, job[t])
           spent == [c \in picked |-> Spent(View(t, c), takes[c])]
           rows == Over(Row(d, paid), Over(spent, mine[t]))
<1>1. /\ job[t] # Idle /\ d \in DOMAIN mine[t] /\ ~ Refused(t) /\ NextLine(t)
      /\ mine' = [mine EXCEPT ![t] = WithLine(rows, t, "paid")]
      /\ db' = db /\ d # NoDoc /\ CreditsAwaited(t, d, base) = {}
  BY DEF PayLine
<1>2. JobShape(job[t], Past) /\ GoodRows(mine[t], Past) /\ DOMAIN mine = Txs
  BY <1>1 DEF PaidInv
<1>3. /\ Payable(d, mine[t][d], Request(t), Expected(t))
      /\ ~ CreditsRefused(t, d, base)
  BY <1>1, Zenon DEF Refused
<1>4. d \in Docs /\ DocOk(d, mine[t][d], Past)
  <2>1. d \in Docs
    BY <1>1, <1>2 DEF JobShape
  <2> QED
    BY <1>1, <1>2, <2>1 DEF GoodRows, GoodRow
<1>5. /\ mine[t][d] \in DocRow /\ base \in Int
      /\ Scope(d, mine[t][d], Request(t)).ok /\ total \in [Invoices -> Nat]
  <2>1. /\ mine[t][d] \in DocRow /\ Scope(d, mine[t][d], Request(t)).ok
        /\ total \in [Invoices -> Nat]
    BY <1>3, <1>4 DEF Payable, DocOk, PaidInv, MaintainedOk
  <2>2. scope.gross \in Int
    BY <1>4, <2>1, ScopeType
  <2> QED
    BY <1>2, <2>1, <2>2, AmountGiven
<1>6. /\ takes \in [CreditSet -> Nat]
      /\ \A c \in CreditSet : takes[c] <= View(t, c).left
      /\ \A c \in CreditSet \ picked : takes[c] = 0
      /\ picked \subseteq CreditSet
      /\ picked # {} => d \notin Claims
  BY <1>1, <1>5, TakeBounds, PickedAre
<1>7. \A c \in picked : Free(t, c)
  <2>1. CASE job[t].credits = Oldest
    BY <2>1 DEF Picked
  <2>2. CASE job[t].credits # Oldest
    <3>1. \A c \in picked : Usable(t, c)
      BY <1>1, <1>3, <1>5, PickedUsable
    <3> QED
      BY <1>1, <2>2, <3>1 DEF CreditsAwaited
  <2> QED
    BY <2>1, <2>2
<1>8. job[t].batch \in Batches \cup {NoBatch} /\ Docs \cap CreditSet = {} /\ Docs \cap Batches = {}
      /\ Batches \cap CreditSet = {} /\ NoBatch \notin Batches
  BY <1>2, Tables, RowAssumption DEF JobShape
<1>9. PaidColumns(d, mine[t][d], scope, payment, paid)
  <2>1. job[t].batch \in Batches \cup {NoBatch}
    BY <1>8
  <2>2. /\ payment = PaymentOf(d, scope, base, takes, job[t])
        /\ paid = PaidRow(d, mine[t][d], scope, base, takes, job[t])
    OBVIOUS
  <2>3. mine[t][d] \in DocRow /\ base \in Int /\ scope = Scope(d, mine[t][d], Request(t))
    BY <1>5
  <2> HIDE DEF base, paid
  <2>4. ASSUME NEW row, row = mine[t][d], NEW from, from = job[t],
               NEW rest, rest = PaidRow(d, row, scope, base, takes, from),
               NEW request, request = Request(t)
        PROVE  PaidColumns(d, row, scope, payment, rest)
    <3>1. /\ d \in Docs /\ row \in DocRow /\ Scope(d, row, request).ok /\ base \in Int
          /\ total \in [Invoices -> Nat] /\ takes \in [CreditSet -> Nat]
          /\ from.batch \in Batches \cup {NoBatch} /\ scope = Scope(d, row, request)
          /\ payment = PaymentOf(d, scope, base, takes, from)
      BY <1>4, <1>5, <1>6, <2>1, <2>2, <2>3, <2>4
    <3> QED
      BY <2>4, <3>1, PaidRowColumns, ZenonT(60)
  <2> QED
    BY <2>2, <2>4, Zenon
<1>10. \A c \in picked : /\ spent[c].left = View(t, c).left - takes[c]
                         /\ View(t, c).status = "available" /\ spent[c].status # "void"
  <2>1. \A c \in picked : View(t, c).status = "available"
    BY <1>1, <1>3, <1>5, PickedUsable DEF Usable
  <2> QED
    BY <2>1 DEF Spent
<1> HIDE DEF paid, spent
<1>11. /\ DOMAIN rows = DOMAIN mine[t] \cup picked
       /\ rows[d] = paid
       /\ \A c \in picked : rows[c] = spent[c]
       /\ \A r \in DOMAIN mine[t] : r # d /\ r \notin picked => rows[r] = mine[t][r]
  <2>1. /\ d \in DOMAIN mine[t] /\ d \notin picked /\ DOMAIN spent = picked
    BY <1>1, <1>4, <1>6, <1>8 DEF spent
  <2> QED
    BY <2>1 DEF Row, Over
<1> HIDE DEF rows
<1>12. mine'[t] = WithLine(rows, t, "paid") /\ DOMAIN mine' = Txs
       /\ \A u \in Txs \ {t} : mine'[u] = mine[u]
  BY <1>1, <1>2
<1>13. /\ DOMAIN mine'[t] = DOMAIN rows
       /\ \A r \in DOMAIN rows : r \notin Batches => mine'[t][r] = rows[r]
       /\ \A r \in DOMAIN rows : r # job[t].batch => mine'[t][r] = rows[r]
  <2>1. CASE job[t].batch = NoBatch
    BY <1>12, <2>1 DEF WithLine
  <2>2. CASE job[t].batch \in Batches
    BY <1>12, <2>2, OtherRowsSame
  <2> QED
    BY <1>8, <2>1, <2>2
<1>14. mine'[t][d] = paid /\ \A c \in picked : mine'[t][c] = spent[c]
  BY <1>1, <1>4, <1>6, <1>8, <1>11, <1>13
<1>15. job[t].batch \in Batches /\ job[t].batch \in DOMAIN mine[t] =>
         mine'[t][job[t].batch] = [mine[t][job[t].batch] EXCEPT !.lines[d].status = "paid"]
  <2> SUFFICES ASSUME job[t].batch \in Batches, job[t].batch \in DOMAIN mine[t]
               PROVE  mine'[t][job[t].batch] =
                        [mine[t][job[t].batch] EXCEPT !.lines[d].status = "paid"]
    OBVIOUS
  <2>1. rows[job[t].batch] = mine[t][job[t].batch] /\ job[t].batch \in DOMAIN rows
    BY <1>4, <1>6, <1>8, <1>11
  <2> QED
    BY <1>8, <1>12, <2>1 DEF WithLine
<1>16. PaidColumns(d, mine[t][d], scope, payment, mine'[t][d])
  BY <1>9, <1>14, Zenon
<1>17. \A c \in picked : mine'[t][c].left = View(t, c).left - takes[c]
  BY <1>10, <1>14, ZenonT(40)
<1>21. \A c \in picked : View(t, c).status = "available" /\ mine'[t][c].status # "void"
  BY <1>10, <1>14, ZenonT(40)
<1>18. \A r \in DOMAIN mine[t] \ ({d} \cup picked) :
         r \notin Batches \/ r # job[t].batch => mine'[t][r] = mine[t][r]
  BY <1>11, <1>13
<1>19. \A c \in picked : c \in CreditSet /\ Free(t, c) /\ takes[c] <= View(t, c).left
  BY <1>6, <1>7
<1>20. DOMAIN mine'[t] = DOMAIN mine[t] \cup picked
  BY <1>11, <1>13
<1> QED
  BY <1>1, <1>3, <1>4, <1>5, <1>6, <1>9, <1>12, <1>15, <1>16, <1>17, <1>18, <1>19, <1>20,
     <1>21, Zenon DEF Pays

-----------------------------------------------------------------------------
(* Going on to the next line: what is kept, what is left.                  *)
LEMMA NextLineIs ==
  ASSUME PaidInv, NEW t \in Txs, job[t] # Idle, NextLine(t)
  PROVE  /\ DOMAIN job' = Txs /\ \A u \in Txs \ {t} : job'[u] = job[u]
         /\ job'[t] # Idle
         /\ job'[t].savepoint = mine'[t] /\ job'[t].batch = job[t].batch
         /\ job'[t].todo = job[t].todo \ {job[t].at}
         /\ job'[t].at \in job'[t].todo \cup {NoDoc}
         /\ job'[t].at = NoDoc => job'[t].todo = {}
         /\ job'[t].request = job[t].request /\ job'[t].asked = job[t].asked
<1>1. PICK d \in IF LinesLeft(t) = {} THEN {NoDoc} ELSE LinesLeft(t) :
         job' = [job EXCEPT ![t].todo = LinesLeft(t), ![t].at = d, ![t].savepoint = mine'[t]]
  BY DEF NextLine
<1>2. DOMAIN job = Txs /\ JobShape(job[t], Past)
  BY DEF PaidInv
<1>3. /\ DOMAIN job' = Txs /\ \A u \in Txs \ {t} : job'[u] = job[u]
      /\ job'[t] = [job[t] EXCEPT !.todo = LinesLeft(t), !.at = d, !.savepoint = mine'[t]]
  BY <1>1, <1>2
<1>4. /\ job'[t].op = "pay" /\ job'[t].savepoint = mine'[t] /\ job'[t].batch = job[t].batch
      /\ job'[t].todo = LinesLeft(t) /\ job'[t].at = d /\ job'[t].request = job[t].request
      /\ job'[t].asked = job[t].asked
  BY <1>2, <1>3 DEF JobShape
<1>5. job'[t] # Idle
  BY <1>4 DEF Idle
<1>6. NoDoc \notin LinesLeft(t)
  BY <1>2, RowAssumption DEF JobShape, LinesLeft, Docs
<1> QED
  BY <1>1, <1>3, <1>4, <1>5, <1>6 DEF LinesLeft

(* A job just begun. *)
LEMMA StartIs ==
  ASSUME PaidInv, NEW t \in Txs, NEW b, NEW todo, NEW d, NEW request, NEW asked, NEW credits,
         NEW savepoint,
         job' = [job EXCEPT ![t] = [op |-> "pay", batch |-> b, todo |-> todo, at |-> d,
                   request |-> request, asked |-> asked, credits |-> credits,
                   savepoint |-> savepoint]]
  PROVE  /\ DOMAIN job' = Txs /\ \A u \in Txs \ {t} : job'[u] = job[u]
         /\ job'[t] # Idle
         /\ job'[t].savepoint = savepoint /\ job'[t].batch = b
         /\ job'[t].todo = todo /\ job'[t].at = d /\ job'[t].request = request
         /\ job'[t].asked = asked
<1>1. DOMAIN job = Txs
  BY DEF PaidInv
<1>2. job'[t].op = "pay"
  BY <1>1
<1> QED
  BY <1>1, <1>2 DEF Idle

(* The rows of no transaction. *)
LEMMA NoRows == DOMAIN << >> = {}
BY EmptySeq

(* A step of one transaction locks free rows only. *)
LEMMA OneLocks ==
  ASSUME LocksApart, DOMAIN mine = Txs, DOMAIN job = Txs, NEW t \in Txs,
         \A u \in Txs \ {t} : mine'[u] = mine[u] /\ job'[u] = job[u],
         \A r \in DOMAIN mine'[t] : r \in DOMAIN mine[t] \/ Free(t, r),
         job'[t] = Idle => mine'[t] = << >>,
         job'[t] # Idle =>
           /\ DOMAIN job'[t].savepoint \subseteq DOMAIN mine'[t]
           /\ job'[t].batch # NoBatch => job'[t].batch \in DOMAIN job'[t].savepoint
  PROVE  LocksApart'
BY DEF LocksApart, Free

LEMMA LocksKept ==
  ASSUME PaidInv, LocksApart, [Next]_vars
  PROVE  LocksApart'
<1>0. DOMAIN mine = Txs /\ DOMAIN job = Txs
  BY DEF PaidInv
<1>1. CASE UNCHANGED <<mine, job>>
  BY <1>1 DEF LocksApart
<1>2. ASSUME NEW t \in Txs, Lost(t) \/ Commit(t)
      PROVE  LocksApart'
  <2>1. mine' = [mine EXCEPT ![t] = << >>] /\ job' = [job EXCEPT ![t] = Idle]
    BY <1>2 DEF Lost, Commit
  <2>2. DOMAIN mine'[t] = {} /\ mine'[t] = << >> /\ job'[t] = Idle
    BY <1>0, <2>1, NoRows
  <2> QED
    BY <1>0, <2>1, <2>2, OneLocks
<1>3. ASSUME NEW t \in Txs, LockDoc(t)
      PROVE  LocksApart'
  <2>1. /\ mine' = [mine EXCEPT ![t] = Over(Row(job[t].at, db[job[t].at]), mine[t])]
        /\ job' = job /\ job[t] # Idle /\ Free(t, job[t].at)
    BY <1>3 DEF LockDoc
  <2>2. DOMAIN mine'[t] = {job[t].at} \cup DOMAIN mine[t]
    BY <1>0, <2>1 DEF Over, Row
  <2>3. /\ DOMAIN job[t].savepoint \subseteq DOMAIN mine[t]
        /\ job[t].batch # NoBatch => job[t].batch \in DOMAIN job[t].savepoint
    BY <2>1 DEF LocksApart
  <2> QED
    BY <1>0, <2>1, <2>2, <2>3, OneLocks
<1>4. ASSUME NEW t \in Txs, PayLine(t)
      PROVE  LocksApart'
  <2> SUFFICES ASSUME NEW d, d = job[t].at,
                      NEW scope, scope = Scope(d, mine[t][d], Request(t)),
                      NEW takes, takes = Take(t, d, AmountPaid(t, scope)),
                      NEW picked, picked = Picked(t, d, AmountPaid(t, scope)),
                      NEW payment,
                      payment = PaymentOf(d, scope, AmountPaid(t, scope), takes, job[t])
               PROVE  LocksApart'
    OBVIOUS
  <2>1. /\ job[t] # Idle /\ NextLine(t) /\ \A u \in Txs \ {t} : mine'[u] = mine[u]
        /\ DOMAIN mine'[t] = DOMAIN mine[t] \cup picked
        /\ \A c \in picked : Free(t, c)
    <3>1. Pays(t, d, scope, takes, picked, payment)
      BY <1>4, LinePaid
    <3> QED
      BY <3>1 DEF Pays
  <2>2. /\ \A u \in Txs \ {t} : job'[u] = job[u]
        /\ job'[t] # Idle /\ job'[t].savepoint = mine'[t] /\ job'[t].batch = job[t].batch
    BY <2>1, NextLineIs
  <2>3. job[t].batch # NoBatch => job[t].batch \in DOMAIN mine[t]
    BY <2>1 DEF LocksApart
  <2> QED
    BY <1>0, <2>1, <2>2, <2>3, OneLocks
<1>5. ASSUME NEW t \in Txs, RefuseLine(t)
      PROVE  LocksApart'
  <2>1. CASE job[t].batch = NoBatch
    <3>1. mine' = [mine EXCEPT ![t] = << >>] /\ job' = [job EXCEPT ![t] = Idle]
      BY <1>5, <2>1 DEF RefuseLine
    <3>2. DOMAIN mine'[t] = {} /\ mine'[t] = << >> /\ job'[t] = Idle
      BY <1>0, <3>1, NoRows
    <3> QED
      BY <1>0, <3>1, <3>2, OneLocks
  <2>2. CASE job[t].batch # NoBatch
    <3>1. /\ mine' = [mine EXCEPT ![t] = WithLine(job[t].savepoint, t, "failed")]
          /\ NextLine(t) /\ job[t] # Idle
      BY <1>5, <2>2 DEF RefuseLine
    <3>2. DOMAIN mine'[t] = DOMAIN job[t].savepoint
      BY <1>0, <3>1, OtherRowsSame
    <3>3. /\ \A u \in Txs \ {t} : job'[u] = job[u]
          /\ job'[t] # Idle /\ job'[t].savepoint = mine'[t] /\ job'[t].batch = job[t].batch
      BY <3>1, NextLineIs
    <3>4. /\ DOMAIN job[t].savepoint \subseteq DOMAIN mine[t]
          /\ job[t].batch \in DOMAIN job[t].savepoint
      BY <2>2, <3>1 DEF LocksApart
    <3> QED
      BY <1>0, <3>1, <3>2, <3>3, <3>4, OneLocks
  <2> QED
    BY <2>1, <2>2
<1>6. ASSUME NEW t \in Txs, NEW d, NEW order, ExecutePayment(t, d, order)
      PROVE  LocksApart'
  <2>1. /\ mine' = mine /\ job[t] = Idle
        /\ job' = [job EXCEPT ![t] = [op |-> "pay", batch |-> NoBatch, todo |-> {d}, at |-> d,
              request |-> order.request, asked |-> order.asked, credits |-> order.credits,
              savepoint |-> << >>]]
    BY <1>6 DEF ExecutePayment
  <2>2. /\ \A u \in Txs \ {t} : job'[u] = job[u]
        /\ job'[t] # Idle /\ job'[t].savepoint = << >> /\ job'[t].batch = NoBatch
    BY <2>1, StartIs
  <2> QED
    BY <1>0, <2>1, <2>2, NoRows, OneLocks
<1>7. ASSUME NEW t \in Txs, NEW b \in Batches, NEW credits, ExecuteBatch(t, b, credits)
      PROVE  LocksApart'
  <2>1. PICK d \in DOMAIN db[b].lines : job' = [job EXCEPT ![t] =
           [op |-> "pay", batch |-> b, todo |-> DOMAIN db[b].lines, at |-> d,
            request |-> Whole, asked |-> AsDue, credits |-> credits,
            savepoint |-> Row(b, db[b])]]
    BY <1>7 DEF ExecuteBatch
  <2>2. mine' = [mine EXCEPT ![t] = Row(b, db[b])] /\ Unlocked(b)
    BY <1>7 DEF ExecuteBatch
  <2>3. /\ \A u \in Txs \ {t} : job'[u] = job[u]
        /\ job'[t] # Idle /\ job'[t].savepoint = Row(b, db[b]) /\ job'[t].batch = b
    BY <2>1, StartIs
  <2>4. DOMAIN Row(b, db[b]) = {b} /\ Free(t, b)
    BY <2>2 DEF Row, Free, Unlocked
  <2> QED
    BY <1>0, <2>2, <2>3, <2>4, OneLocks
<1>8. CASE Drafts \/ Maintenance \/ \E c \in CreditSet : VoidCredit(c)
  <2>1. UNCHANGED <<mine, job>>
    BY <1>8 DEF Drafts, Maintenance, CreateBatch, CancelBatch, VoidCredit, EditRead, EditWrite,
                EditReplay, Reprice, EditTotal, Reapprove, CloseByHand
  <2> QED
    BY <1>1, <2>1
<1>9. CASE \E t \in Txs : Start(t) \/ Proceed(t)
  BY <1>2, <1>3, <1>4, <1>5, <1>6, <1>7, <1>9 DEF Start, Proceed, Crash, DeadlockVictim
<1> QED
  BY <1>1, <1>8, <1>9 DEF Next, vars

(* What a transaction holds has the amount and the invoices of the         *)
(* committed rows, which Data Maintenance edits only unlocked, and between *)
(* two lines only new rows were locked behind the savepoint.               *)
AsCommitted(rows, table) ==
  \A d \in Docs \cap DOMAIN rows : rows[d].due = table[d].due /\ rows[d].links = table[d].links

HeldAlike ==
  \A t \in Txs :
    /\ AsCommitted(mine[t], db)
    /\ job[t] # Idle => \A r \in DOMAIN job[t].savepoint : job[t].savepoint[r] = mine[t][r]

(* A step of one transaction that leaves the committed rows alone.         *)
LEMMA OneAlike ==
  ASSUME HeldAlike, NEW t \in Txs, db' = db,
         \A u \in Txs \ {t} : mine'[u] = mine[u] /\ job'[u] = job[u],
         AsCommitted(mine'[t], db),
         job'[t] # Idle =>
           \A r \in DOMAIN job'[t].savepoint : job'[t].savepoint[r] = mine'[t][r]
  PROVE  HeldAlike'
BY DEF HeldAlike, AsCommitted

(* A step beside the transactions, that writes a row nobody holds or none  *)
(* of these columns.                                                       *)
LEMMA QuietAlike ==
  ASSUME HeldAlike, UNCHANGED <<mine, job>>,
         \A d \in Docs : \/ Unlocked(d)
                         \/ db'[d].due = db[d].due /\ db'[d].links = db[d].links
  PROVE  HeldAlike'
BY DEF HeldAlike, AsCommitted, Unlocked

LEMMA AlikeKept ==
  ASSUME PaidInv, LocksApart, HeldAlike, [Next]_vars
  PROVE  HeldAlike'
<1>0. DOMAIN mine = Txs /\ DOMAIN job = Txs /\ DOMAIN db = Rows
  BY DEF PaidInv
<1>1. CASE UNCHANGED <<db, mine, job>>
  BY <1>1, QuietAlike
<1>2. ASSUME NEW t \in Txs, Lost(t)
      PROVE  HeldAlike'
  <2>1. /\ mine' = [mine EXCEPT ![t] = << >>] /\ job' = [job EXCEPT ![t] = Idle] /\ db' = db
    BY <1>2 DEF Lost
  <2>2. DOMAIN mine'[t] = {} /\ job'[t] = Idle
    BY <1>0, <2>1, NoRows
  <2>3. AsCommitted(mine'[t], db)
    BY <2>2 DEF AsCommitted
  <2> QED
    BY <1>0, <2>1, <2>2, <2>3, OneAlike
<1>3. ASSUME NEW t \in Txs, Commit(t)
      PROVE  HeldAlike'
  <2>1. /\ mine' = [mine EXCEPT ![t] = << >>] /\ job' = [job EXCEPT ![t] = Idle]
        /\ job[t] # Idle
    BY <1>3 DEF Commit
  <2>2. DOMAIN mine'[t] = {} /\ job'[t] = Idle
    BY <1>0, <2>1, NoRows
  <2>3. ASSUME NEW d \in Docs, d \notin DOMAIN mine[t]
        PROVE  db'[d] = db[d]
    <3>1. d \in Rows
      BY Tables
    <3>2. CASE job[t].batch = NoBatch
      <4>1. db' = Over(mine[t], db)
        BY <1>3, <3>2 DEF Commit
      <4> QED
        BY <1>0, <2>3, <3>1, <4>1 DEF Over
    <3>3. CASE job[t].batch # NoBatch
      <4> DEFINE rows == [mine[t] EXCEPT ![job[t].batch].status = "executed"]
      <4>1. db' = Over(rows, db) /\ DOMAIN rows = DOMAIN mine[t]
        BY <1>3, <3>3 DEF Commit
      <4> HIDE DEF rows
      <4> QED
        BY <1>0, <2>3, <3>1, <4>1 DEF Over
    <3> QED
      BY <3>2, <3>3
  <2>4. ASSUME NEW u \in Txs \ {t}
        PROVE  AsCommitted(mine[u], db')
    <3>1. AsCommitted(mine[u], db) /\ DOMAIN mine[t] \cap DOMAIN mine[u] = {}
      BY DEF HeldAlike, LocksApart
    <3> QED
      BY <2>3, <3>1 DEF AsCommitted
  <2>5. \A u \in Txs \ {t} : mine'[u] = mine[u] /\ job'[u] = job[u]
    BY <1>0, <2>1
  <2>6. AsCommitted(mine'[t], db')
    BY <2>2 DEF AsCommitted
  <2>7. \A u \in Txs : AsCommitted(mine'[u], db')
    BY <2>4, <2>5, <2>6
  <2> QED
    BY <2>2, <2>5, <2>7 DEF HeldAlike, AsCommitted
<1>4. ASSUME NEW t \in Txs, LockDoc(t)
      PROVE  HeldAlike'
  <2>1. /\ mine' = [mine EXCEPT ![t] = Over(Row(job[t].at, db[job[t].at]), mine[t])]
        /\ job' = job /\ db' = db /\ job[t] # Idle /\ job[t].at \notin DOMAIN mine[t]
    BY <1>4 DEF LockDoc
  <2>2. /\ \A r \in DOMAIN mine[t] : mine'[t][r] = mine[t][r]
        /\ mine'[t][job[t].at] = db[job[t].at]
        /\ DOMAIN mine'[t] = {job[t].at} \cup DOMAIN mine[t]
    BY <1>0, <2>1 DEF Over, Row
  <2>3. AsCommitted(mine'[t], db)
    BY <2>2 DEF HeldAlike, AsCommitted
  <2>4. \A r \in DOMAIN job[t].savepoint :
          r \in DOMAIN mine[t] /\ job[t].savepoint[r] = mine[t][r]
    BY <2>1 DEF HeldAlike, LocksApart
  <2>5. \A r \in DOMAIN job'[t].savepoint : job'[t].savepoint[r] = mine'[t][r]
    BY <2>1, <2>2, <2>4
  <2> QED
    BY <1>0, <2>1, <2>3, <2>5, OneAlike
<1>5. ASSUME NEW t \in Txs, PayLine(t)
      PROVE  HeldAlike'
  <2> SUFFICES ASSUME NEW d, d = job[t].at,
                      NEW scope, scope = Scope(d, mine[t][d], Request(t)),
                      NEW takes, takes = Take(t, d, AmountPaid(t, scope)),
                      NEW picked, picked = Picked(t, d, AmountPaid(t, scope)),
                      NEW payment,
                      payment = PaymentOf(d, scope, AmountPaid(t, scope), takes, job[t])
               PROVE  HeldAlike'
    OBVIOUS
  <2>1. /\ job[t] # Idle /\ NextLine(t) /\ \A u \in Txs \ {t} : mine'[u] = mine[u]
        /\ DOMAIN mine'[t] = DOMAIN mine[t] \cup picked /\ d \in DOMAIN mine[t]
        /\ db' = db /\ picked \subseteq CreditSet
        /\ mine'[t][d].due = mine[t][d].due /\ mine'[t][d].links = mine[t][d].links
        /\ \A r \in DOMAIN mine[t] \ ({d} \cup picked) :
             r \notin Batches => mine'[t][r] = mine[t][r]
    <3>1. Pays(t, d, scope, takes, picked, payment)
      BY <1>5, LinePaid
    <3>2. PaidColumns(d, mine[t][d], scope, payment, mine'[t][d])
      BY <3>1 DEF Pays
    <3>3. mine'[t][d].due = mine[t][d].due /\ mine'[t][d].links = mine[t][d].links
      BY <3>2 DEF PaidColumns
    <3> QED
      BY <3>1, <3>3 DEF Pays
  <2>2. /\ \A u \in Txs \ {t} : job'[u] = job[u]
        /\ job'[t] # Idle /\ job'[t].savepoint = mine'[t]
    BY <2>1, NextLineIs
  <2>3. AsCommitted(mine'[t], db)
    <3>1. AsCommitted(mine[t], db)
      BY DEF HeldAlike
    <3> QED
      BY <2>1, <3>1, Tables DEF AsCommitted
  <2> QED
    BY <2>1, <2>2, <2>3, OneAlike
<1>6. ASSUME NEW t \in Txs, RefuseLine(t)
      PROVE  HeldAlike'
  <2>0. db' = db
    BY <1>6 DEF RefuseLine
  <2>1. CASE job[t].batch = NoBatch
    <3>1. mine' = [mine EXCEPT ![t] = << >>] /\ job' = [job EXCEPT ![t] = Idle]
      BY <1>6, <2>1 DEF RefuseLine
    <3>2. DOMAIN mine'[t] = {} /\ job'[t] = Idle
      BY <1>0, <3>1, NoRows
    <3>3. AsCommitted(mine'[t], db)
      BY <3>2 DEF AsCommitted
    <3> QED
      BY <1>0, <2>0, <3>1, <3>2, <3>3, OneAlike
  <2>2. CASE job[t].batch # NoBatch
    <3>1. /\ mine' = [mine EXCEPT ![t] = WithLine(job[t].savepoint, t, "failed")]
          /\ NextLine(t) /\ job[t] # Idle
      BY <1>6, <2>2 DEF RefuseLine
    <3>2. job[t].batch \in Batches
      BY <2>2, <3>1 DEF PaidInv, JobShape
    <3>3. /\ DOMAIN mine'[t] = DOMAIN job[t].savepoint
          /\ \A r \in DOMAIN mine'[t] : r # job[t].batch => mine'[t][r] = job[t].savepoint[r]
      BY <1>0, <3>1, OtherRowsSame
    <3>4. /\ \A u \in Txs \ {t} : job'[u] = job[u]
          /\ job'[t] # Idle /\ job'[t].savepoint = mine'[t]
      BY <3>1, NextLineIs
    <3>5. \A r \in DOMAIN job[t].savepoint :
            r \in DOMAIN mine[t] /\ job[t].savepoint[r] = mine[t][r]
      BY <3>1 DEF HeldAlike, LocksApart
    <3>6. AsCommitted(mine'[t], db)
      <4>1. AsCommitted(mine[t], db)
        BY DEF HeldAlike
      <4>2. \A d \in Docs \cap DOMAIN mine'[t] : d \in DOMAIN mine[t] /\ mine'[t][d] = mine[t][d]
        BY <3>2, <3>3, <3>5, Tables
      <4> QED
        BY <4>1, <4>2 DEF AsCommitted
    <3> QED
      BY <1>0, <2>0, <3>1, <3>4, <3>6, OneAlike
  <2> QED
    BY <2>1, <2>2
<1>7. ASSUME NEW t \in Txs, NEW d, NEW order, ExecutePayment(t, d, order)
      PROVE  HeldAlike'
  <2>1. /\ mine' = mine /\ job[t] = Idle /\ db' = db
        /\ job' = [job EXCEPT ![t] = [op |-> "pay", batch |-> NoBatch, todo |-> {d}, at |-> d,
              request |-> order.request, asked |-> order.asked, credits |-> order.credits,
              savepoint |-> << >>]]
    BY <1>7 DEF ExecutePayment
  <2>2. /\ \A u \in Txs \ {t} : job'[u] = job[u]
        /\ job'[t] # Idle /\ job'[t].savepoint = << >>
    BY <2>1, StartIs
  <2>3. AsCommitted(mine'[t], db)
    BY <2>1 DEF HeldAlike
  <2> QED
    BY <2>1, <2>2, <2>3, NoRows, OneAlike
<1>8. ASSUME NEW t \in Txs, NEW b \in Batches, NEW credits, ExecuteBatch(t, b, credits)
      PROVE  HeldAlike'
  <2>1. PICK d \in DOMAIN db[b].lines : job' = [job EXCEPT ![t] =
           [op |-> "pay", batch |-> b, todo |-> DOMAIN db[b].lines, at |-> d,
            request |-> Whole, asked |-> AsDue, credits |-> credits,
            savepoint |-> Row(b, db[b])]]
    BY <1>8 DEF ExecuteBatch
  <2>2. mine' = [mine EXCEPT ![t] = Row(b, db[b])] /\ db' = db
    BY <1>8 DEF ExecuteBatch
  <2>3. /\ \A u \in Txs \ {t} : job'[u] = job[u]
        /\ job'[t] # Idle /\ job'[t].savepoint = Row(b, db[b])
    BY <2>1, StartIs
  <2>4. mine'[t] = Row(b, db[b]) /\ DOMAIN Row(b, db[b]) = {b} /\ b \notin Docs
    BY <1>0, <2>2, Tables DEF Row
  <2>5. AsCommitted(mine'[t], db)
    BY <2>4 DEF AsCommitted
  <2> QED
    BY <1>0, <2>2, <2>3, <2>4, <2>5, OneAlike
<1>9. ASSUME NEW b \in Batches, UNCHANGED <<mine, job>>, NEW row, db' = [db EXCEPT ![b] = row]
      PROVE  HeldAlike'
  <2>1. \A d \in Docs : db'[d] = db[d]
    BY <1>9, Tables
  <2> QED
    BY <1>9, <2>1, QuietAlike
<1>13. ASSUME NEW b \in Batches,
              CancelBatch(b) \/ \E requests \in Selections : CreateBatch(b, requests)
       PROVE  HeldAlike'
  <2>1. CASE CancelBatch(b)
    BY <1>9, <2>1 DEF CancelBatch
  <2>2. ASSUME NEW requests \in Selections, CreateBatch(b, requests)
        PROVE  HeldAlike'
    BY <1>9, <2>2 DEF CreateBatch
  <2> QED
    BY <1>13, <2>1, <2>2
<1>10. ASSUME NEW c \in CreditSet, VoidCredit(c)
       PROVE  HeldAlike'
  <2>1. UNCHANGED <<mine, job>> /\ \A d \in Docs : db'[d] = db[d]
    BY <1>10, Tables DEF VoidCredit
  <2> QED
    BY <2>1, QuietAlike
<1>11. ASSUME NEW p, UNCHANGED <<mine, job>>, Unlocked(p), NEW row, db' = [db EXCEPT ![p] = row]
       PROVE  HeldAlike'
  <2>1. \A d \in Docs : d = p \/ db'[d] = db[d]
    BY <1>11
  <2> QED
    BY <1>11, <2>1, QuietAlike
<1>12. CASE Maintenance
  <2>1. ASSUME NEW d, NEW n, Reprice(d, n)
        PROVE  HeldAlike'
    BY <1>11, <2>1 DEF Reprice
  <2>5. ASSUME NEW d, Reapprove(d)
        PROVE  HeldAlike'
    BY <1>11, <2>5 DEF Reapprove
  <2>6. ASSUME NEW d, CloseByHand(d)
        PROVE  HeldAlike'
    BY <1>11, <2>6 DEF CloseByHand
  <2>2. CASE EditWrite
    BY <1>11, <2>2 DEF EditWrite
  <2>7. CASE EditReplay
    BY <1>11, <2>7 DEF EditReplay
  <2>3. ASSUME NEW p, NEW links, EditRead(p, links)
        PROVE  HeldAlike'
    BY <1>1, <2>3 DEF EditRead
  <2>4. ASSUME NEW i, NEW n, EditTotal(i, n)
        PROVE  HeldAlike'
    BY <1>1, <2>4 DEF EditTotal
  <2> QED
    BY <1>12, <2>1, <2>2, <2>3, <2>4, <2>5, <2>6, <2>7 DEF Maintenance
<1> QED
  BY <1>1, <1>2, <1>3, <1>4, <1>5, <1>6, <1>7, <1>8, <1>10, <1>12, <1>13
     DEF Next, vars, Drafts, Start, Proceed, Crash, DeadlockVictim

-----------------------------------------------------------------------------
(* What Data Maintenance edits.                                            *)

(* Totals that agree on some invoices have the same sum over them.         *)
LEMMA SameSums ==
  ASSUME NEW prices \in [Invoices -> Nat], NEW more \in [Invoices -> Nat],
         NEW S \in SUBSET Invoices, \A x \in S : more[x] = prices[x]
  PROVE  SumFunctionOnSet(more, S) = SumFunctionOnSet(prices, S)
<1>1. /\ IsFiniteSet(S) /\ \A x \in S : prices[x] \in Int /\ more[x] \in Int
  BY RowAssumption, FS_Subset
<1>2. /\ SumFunctionOnSet(more, S) = SumOf(more, S)
      /\ SumFunctionOnSet(prices, S) = SumOf(prices, S)
  BY <1>1, FoldIsSum
<1>3. SumOf(more, S) = SumOf(prices, S)
  BY <1>1, SumSame
<1> QED
  BY <1>2, <1>3

(* The total of an invoice matters to a PA that has it and is paid.        *)
LEMMA SettledStill ==
  ASSUME NEW prices \in [Invoices -> Nat], NEW i \in Invoices, NEW n \in Nat,
         NEW d, NEW row \in DocRow, Settled(d, row, prices),
         d \notin Pas \/ i \notin row.links \/ row.payments = << >>
  PROVE  Settled(d, row, [prices EXCEPT ![i] = n])
<1> DEFINE more == [prices EXCEPT ![i] = n]
<1>1. CASE d \notin Pas \/ row.payments = << >>
  BY <1>1 DEF Settled, PaidInParts
<1>2. CASE d \in Pas /\ i \notin row.links
  <2>1. PaidInParts(d, row, prices) => PaidInParts(d, row, more)
    <3> SUFFICES ASSUME PaidInParts(d, row, prices) PROVE PaidInParts(d, row, more)
      OBVIOUS
    <3>1. /\ row.links \in SUBSET Invoices /\ PaidInvoices(row.payments) \in SUBSET Invoices
          /\ i \notin PaidInvoices(row.payments)
      BY <1>2 DEF DocRow, PaidInParts
    <3>2. /\ SumFunctionOnSet(more, row.links) = SumFunctionOnSet(prices, row.links)
          /\ SumFunctionOnSet(more, PaidInvoices(row.payments))
               = SumFunctionOnSet(prices, PaidInvoices(row.payments))
      <4>1. more \in [Invoices -> Nat] /\ \A x \in Invoices : x # i => more[x] = prices[x]
        OBVIOUS
      <4> HIDE DEF more
      <4> QED
        BY <1>2, <3>1, <4>1, SameSums
    <3> HIDE DEF more
    <3> QED
      BY <3>2 DEF PaidInParts
  <2> HIDE DEF more
  <2>2. Settled(d, row, more)
    BY <2>1 DEF Settled
  <2> QED
    BY <2>2 DEF more
<1> QED
  BY <1>1, <1>2

LEMMA RowsStill ==
  ASSUME NEW i \in Invoices, NEW n \in Nat, NEW rows, NEW past, NEW more,
         past.total \in [Invoices -> Nat], GoodRows(rows, past),
         more.total = [past.total EXCEPT ![i] = n], past.altered \subseteq more.altered,
         \A d \in Docs \cap DOMAIN rows :
           \/ d \in more.altered
           \/ d \notin Pas \/ i \notin rows[d].links \/ rows[d].payments = << >>
  PROVE  GoodRows(rows, more)
<1> SUFFICES ASSUME NEW d \in Docs \cap DOMAIN rows
             PROVE  DocOk(d, rows[d], more)
  BY DEF GoodRows, GoodRow
<1>1. DocOk(d, rows[d], past)
  BY DEF GoodRows, GoodRow
<1> SUFFICES ASSUME d \notin more.altered
             PROVE  Settled(d, rows[d], more.total)
  BY <1>1 DEF DocOk
<1>2. Settled(d, rows[d], past.total) /\ rows[d] \in DocRow
  BY <1>1 DEF DocOk
<1> QED
  BY <1>2, SettledStill

(* A document's row, edited: its payments and their events stay.           *)
LEMMA RowEdited ==
  ASSUME PaidInv, MaintainedOk', UNCHANGED <<mine, job, total>>, altered \subseteq altered',
         NEW d \in Docs, NEW row \in DocRow, db' = [db EXCEPT ![d] = row],
         row.payments = db[d].payments, row.splitEvents = db[d].splitEvents,
         row.wholeEvent = db[d].wholeEvent,
         d \notin altered' /\ Settled(d, db[d], total) => Settled(d, row, total)
  PROVE  PaidInv'
<1>1. DocOk(d, db[d], Past) /\ d \in Rows
  BY Tables DEF PaidInv, GoodRows, GoodRow
<1>2. PaidOnce(row) /\ EventsTell(row)
  BY <1>1 DEF DocOk, PaidOnce, EventsTell
<1>3. d \notin Past'.altered => Settled(d, row, Past'.total)
  BY <1>1 DEF DocOk, Past
<1>4. GoodRow(d, row, Past')
  BY <1>2, <1>3, Tables DEF GoodRow, DocOk
<1> QED
  BY <1>1, <1>4, OneRowWritten

LEMMA TotalEdited ==
  ASSUME PaidInv, LocksApart, HeldAlike, NEW i \in Invoices, NEW n \in Prices \cap Nat,
         EditTotal(i, n)
  PROVE  PaidInv'
<1>1. /\ total' = [total EXCEPT ![i] = n] /\ UNCHANGED <<db, mine, job>>
      /\ altered' = altered \cup {p \in Pas : i \in db[p].links /\ Paying(p)}
      /\ stale' = Drifted(i)
  BY DEF EditTotal
<1>2. MaintainedOk /\ MaintainedOk'
  BY <1>1, Tables DEF PaidInv, MaintainedOk, Drifted
<1>3. ASSUME NEW rows, GoodRows(rows, Past),
             \A p \in Pas \cap DOMAIN rows :
               /\ rows[p].links = db[p].links
               /\ rows[p].payments # << >> => Paying(p)
      PROVE  GoodRows(rows, Past')
  <2>1. /\ Past.total \in [Invoices -> Nat] /\ Past'.total = [Past.total EXCEPT ![i] = n]
        /\ Past.altered \subseteq Past'.altered
    BY <1>1, <1>2 DEF Past, MaintainedOk
  <2>2. \A d \in Docs \cap DOMAIN rows :
          \/ d \in Past'.altered
          \/ d \notin Pas \/ i \notin rows[d].links \/ rows[d].payments = << >>
    BY <1>1, <1>3 DEF Past
  <2> QED
    BY <1>3, <2>1, <2>2, RowsStill
<1>4. GoodRows(db, Past')
  BY <1>3 DEF PaidInv, Paying
<1>5. ASSUME NEW t \in Txs
      PROVE  GoodRows(mine[t], Past')
  <2>1. \A p \in Pas \cap DOMAIN mine[t] :
          /\ mine[t][p].links = db[p].links
          /\ mine[t][p].payments # << >> => Paying(p)
    BY Tables DEF HeldAlike, AsCommitted, Paying
  <2> QED
    BY <1>3, <2>1 DEF PaidInv
<1>6. ASSUME NEW t \in Txs, job[t] # Idle
      PROVE  GoodRows(job[t].savepoint, Past')
  <2>1. \A r \in DOMAIN job[t].savepoint :
          r \in DOMAIN mine[t] /\ job[t].savepoint[r] = mine[t][r]
    BY <1>6 DEF HeldAlike, LocksApart
  <2>2. \A p \in Pas \cap DOMAIN job[t].savepoint :
          /\ job[t].savepoint[p].links = db[p].links
          /\ job[t].savepoint[p].payments # << >> => Paying(p)
    BY <2>1, Tables DEF HeldAlike, AsCommitted, Paying
  <2> QED
    BY <1>3, <1>6, <2>2 DEF PaidInv, JobShape
<1>7. \A t \in Txs : job[t] = Idle \/ JobShape(job[t], Past')
  BY <1>6 DEF PaidInv, JobShape
<1> QED
  BY <1>1, <1>2, <1>4, <1>5, <1>7 DEF PaidInv

LEMMA MaintenanceKeeps ==
  ASSUME PaidInv, LocksApart, HeldAlike, EditedPa, Maintenance
  PROVE  PaidInv'
<1>0. /\ \A p \in Pas : p \in Docs
      /\ \A d \in Docs : db[d] \in DocRow
      /\ MaintainedOk
  BY Tables DEF PaidInv, GoodRows, GoodRow, DocOk
<1>1. ASSUME NEW d \in Docs, Reapprove(d)
      PROVE  PaidInv'
  <2> SUFFICES ASSUME NEW row, row = [db[d] EXCEPT !.status = "approved"]
               PROVE  PaidInv'
    OBVIOUS
  <2>1. /\ db' = [db EXCEPT ![d] = row] /\ UNCHANGED <<mine, job, total, altered, stale>>
        /\ db[d].status = PaidStatus(d)
    BY <1>1 DEF Reapprove
  <2>2. /\ row \in DocRow /\ row.payments = db[d].payments /\ row.closed = db[d].closed
        /\ row.links = db[d].links /\ row.due = db[d].due /\ row.status = "approved"
        /\ row.splitEvents = db[d].splitEvents /\ row.wholeEvent = db[d].wholeEvent
    BY <1>0 DEF DocRow
  <2>3. Settled(d, db[d], total) => Settled(d, row, total)
    <3>1. PaidInParts(d, db[d], total) => PaidInParts(d, row, total)
      BY <2>2 DEF PaidInParts, PaidStatus
    <3> QED
      BY <2>2, <3>1 DEF Settled, NeverPaidWhole
  <2>4. MaintainedOk'
    BY <1>0, <2>1 DEF MaintainedOk
  <2> QED
    BY <2>1, <2>2, <2>3, <2>4, RowEdited
<1>2. ASSUME NEW d \in Docs, CloseByHand(d)
      PROVE  PaidInv'
  <2> SUFFICES ASSUME NEW row, row = [db[d] EXCEPT !.status = PaidStatus(d)]
               PROVE  PaidInv'
    OBVIOUS
  <2>1. /\ db' = [db EXCEPT ![d] = row] /\ UNCHANGED <<mine, job, total, stale>>
        /\ altered' = altered \cup {d}
    BY <1>2 DEF CloseByHand
  <2>2. /\ row \in DocRow /\ row.payments = db[d].payments
        /\ row.splitEvents = db[d].splitEvents /\ row.wholeEvent = db[d].wholeEvent
    BY <1>0 DEF DocRow, PaidStatus
  <2>3. MaintainedOk'
    BY <1>0, <2>1 DEF MaintainedOk
  <2> QED
    BY <2>1, <2>2, <2>3, RowEdited
<1>3. ASSUME NEW d \in Docs, NEW n \in Prices, Reprice(d, n)
      PROVE  PaidInv'
  <2> SUFFICES ASSUME NEW row, row = [db[d] EXCEPT !.due = n]
               PROVE  PaidInv'
    OBVIOUS
  <2>1. /\ db' = [db EXCEPT ![d] = row] /\ UNCHANGED <<mine, job, total>>
        /\ altered' = Edited({d}) /\ stale' = Drifted(d)
    BY <1>3 DEF Reprice
  <2>2. /\ row \in DocRow /\ row.payments = db[d].payments /\ row.closed = db[d].closed
        /\ row.status = db[d].status
        /\ row.splitEvents = db[d].splitEvents /\ row.wholeEvent = db[d].wholeEvent
    <3>1. n \in Int
      BY AmountAssumption
    <3> QED
      BY <1>0, <3>1 DEF DocRow
  <2>3. MaintainedOk'
    BY <1>0, <2>1 DEF MaintainedOk, Edited, Drifted
  <2>4. d \notin altered' => db[d].payments = << >>
    BY <2>1 DEF Edited
  <2>5. db[d].payments = << >> /\ Settled(d, db[d], total) => Settled(d, row, total)
    BY <2>2, NothingPaid DEF Settled, NeverPaidWhole
  <2>6. altered \subseteq altered'
    BY <2>1 DEF Edited
  <2> QED
    BY <2>1, <2>2, <2>3, <2>4, <2>5, <2>6, RowEdited
<1>4. ASSUME NEW p \in Pas, NEW links, EditRead(p, links)
      PROVE  PaidInv'
  BY <1>4 DEF EditRead, PaidInv, JobShape, Past, MaintainedOk
<1>5. CASE EditWrite
  <2> SUFFICES ASSUME NEW p, p = edit.pa, NEW row, row = [db[p] EXCEPT !.links = edit.links]
               PROVE  PaidInv'
    OBVIOUS
  <2>1. p \in Docs /\ edit.links \in SUBSET Invoices
    BY <1>0, <1>5 DEF EditWrite, EditedPa, NoEdit
  <2>2. /\ db' = [db EXCEPT ![p] = row] /\ UNCHANGED <<mine, job, total, stale>>
        /\ altered' = Edited({p})
    BY <1>5 DEF EditWrite
  <2>3. /\ row \in DocRow /\ row.payments = db[p].payments /\ row.closed = db[p].closed
        /\ row.status = db[p].status
        /\ row.splitEvents = db[p].splitEvents /\ row.wholeEvent = db[p].wholeEvent
    BY <1>0, <2>1 DEF DocRow
  <2>4. MaintainedOk'
    BY <1>0, <2>1, <2>2 DEF MaintainedOk, Edited
  <2>5. p \notin altered' => db[p].payments = << >>
    BY <2>2 DEF Edited
  <2>6. db[p].payments = << >> /\ Settled(p, db[p], total) => Settled(p, row, total)
    BY <2>3, NothingPaid DEF Settled, NeverPaidWhole
  <2>7. altered \subseteq altered'
    BY <2>2 DEF Edited
  <2> QED
    BY <2>1, <2>2, <2>3, <2>4, <2>5, <2>6, <2>7, RowEdited
<1>6. CASE EditReplay
  <2> SUFFICES ASSUME NEW p, p = edit.pa,
                      NEW closed, closed = (IF db[p].status = "processed"
                                            THEN db[p].closed \cup db[p].links
                                            ELSE db[p].closed),
                      NEW row, row = [db[p] EXCEPT !.closed = closed]
               PROVE  PaidInv'
    OBVIOUS
  <2>1. p \in Pas /\ p \in Docs
    BY <1>0, <1>6 DEF EditReplay, EditedPa, NoEdit
  <2>2. db' = [db EXCEPT ![p] = row] /\ UNCHANGED <<mine, job, total, altered, stale>>
    BY <1>6 DEF EditReplay
  <2>3. closed \in SUBSET Invoices
    BY <1>0, <2>1 DEF DocRow
  <2>4. /\ row \in DocRow /\ row.payments = db[p].payments /\ row.closed = closed
        /\ row.status = db[p].status /\ row.links = db[p].links /\ row.due = db[p].due
        /\ row.splitEvents = db[p].splitEvents /\ row.wholeEvent = db[p].wholeEvent
    BY <1>0, <2>1, <2>3 DEF DocRow
  <2>5. PaidStatus(p) = "processed"
    BY <2>1 DEF PaidStatus
  <2>6. Settled(p, db[p], total) => Settled(p, row, total)
    <3>1. PaidInParts(p, db[p], total) => PaidInParts(p, row, total)
      BY <2>4, <2>5 DEF PaidInParts
    <3>2. db[p].payments = << >> /\ Settled(p, db[p], total) => closed = {}
      BY DEF Settled
    <3> QED
      BY <2>4, <3>1, <3>2 DEF Settled, NeverPaidWhole
  <2>7. MaintainedOk'
    BY <1>0, <2>2 DEF MaintainedOk
  <2> QED
    BY <2>1, <2>2, <2>4, <2>6, <2>7, RowEdited
<1> QED
  BY <1>1, <1>2, <1>3, <1>4, <1>5, <1>6, TotalEdited DEF Maintenance

-----------------------------------------------------------------------------
(* The first rows are good ones. *)
LEMMA InitPaid == Init => PaidInv /\ EditedPa
<1> SUFFICES ASSUME Init PROVE PaidInv /\ EditedPa
  OBVIOUS
<1>1. EditedPa
  BY DEF Init, EditedPa, NoEdit
<1>2. /\ DOMAIN db = Rows
      /\ \A d \in Docs : db[d] = [status |-> "approved", due |-> Due[d],
                                  links |-> IF d \in Pas THEN Links[d] ELSE {},
                                  payments |-> << >>, closed |-> {},
                                  wholeEvent |-> FALSE, splitEvents |-> 0]
      /\ \A b \in Batches : db[b] = [status |-> "none", lines |-> << >>]
      /\ \A c \in CreditSet : db[c] = [status |-> "available", left |-> Face[c]]
  BY Tables DEF Init
<1>3. ASSUME NEW d \in Docs
      PROVE  DocOk(d, db[d], Past)
  <2> DEFINE links == IF d \in Pas THEN Links[d] ELSE {}
  <2>1. links \in SUBSET Invoices
    BY AmountAssumption
  <2> HIDE DEF links
  <2>0. Due[d] \in Int
    BY AmountAssumption DEF Docs
  <2>2. db[d] = [status |-> "approved", due |-> Due[d], links |-> links, payments |-> << >>,
                 closed |-> {}, wholeEvent |-> FALSE, splitEvents |-> 0]
    BY <1>2 DEF links
  <2>3. << >> \in Seq(Payment) /\ Len(<< >>) = 0 /\ DOMAIN << >> = {}
    BY EmptySeq
  <2>4. db[d] \in DocRow
    BY <2>0, <2>1, <2>2, <2>3 DEF DocRow
  <2>5. PaidOnce(db[d]) /\ NeverPaidWhole(db[d])
    BY <2>2, <2>3 DEF PaidOnce, NeverPaidWhole
  <2>6. Settled(d, db[d], Past.total)
    BY <2>2, <2>3, <2>5 DEF Settled
  <2>7. EventsTell(db[d])
    BY <2>2, NothingPaid DEF EventsTell
  <2> QED
    BY <2>4, <2>5, <2>6, <2>7 DEF DocOk
<1>4. ASSUME NEW b \in Batches PROVE BatchOk(db[b])
  BY <1>2 DEF BatchOk, BatchStatus
<1>5. ASSUME NEW c \in CreditSet PROVE CreditOk(c, db[c])
  <2>1. Face[c] \in Nat /\ Face[c] > 0
    BY CreditAssumption DEF CreditSet
  <2>2. db[c] = [status |-> "available", left |-> Face[c]]
    BY <1>2, Zenon
  <2>3. db[c].status = "available" /\ db[c].left = Face[c]
    BY <2>2
  <2>4. db[c] \in CreditRow
    BY <2>1, <2>2 DEF CreditRow
  <2> QED
    BY <2>1, <2>3, <2>4 DEF CreditOk
<1>6. GoodRows(db, Past)
  BY <1>2, <1>3, <1>4, <1>5 DEF GoodRows, GoodRow
<1>7. /\ DOMAIN mine = Txs /\ \A t \in Txs : mine[t] = << >>
      /\ DOMAIN job = Txs /\ \A t \in Txs : job[t] = Idle
  BY DEF Init
<1>8. MaintainedOk
  BY AmountAssumption, Tables DEF Init, MaintainedOk
<1> QED
  BY <1>1, <1>2, <1>6, <1>7, <1>8, NoRowGood DEF PaidInv

(* An edit is under way on a PA that exists, or none is. *)
LEMMA EditedPaKept ==
  ASSUME PaidInv, EditedPa, [Next]_vars
  PROVE  EditedPa'
<1>1. CASE UNCHANGED edit
  BY <1>1 DEF EditedPa
<1>2. CASE Maintenance
  <2>1. ASSUME NEW d, Reapprove(d) \/ CloseByHand(d) \/ \E n : Reprice(d, n) \/ EditTotal(d, n)
        PROVE  EditedPa'
    BY <1>1, <2>1 DEF Reapprove, CloseByHand, Reprice, EditTotal
  <2>2. ASSUME NEW p \in Pas, NEW links \in Relinks, EditRead(p, links)
        PROVE  EditedPa'
    BY <2>2, AmountAssumption DEF EditRead, EditedPa
  <2>3. CASE EditWrite
    BY <2>3 DEF EditWrite, EditedPa, NoEdit
  <2>4. CASE EditReplay
    BY <2>4 DEF EditReplay, EditedPa
  <2> QED
    BY <1>2, <2>1, <2>2, <2>3, <2>4 DEF Maintenance
<1>3. CASE Drafts \/ \E c \in CreditSet : VoidCredit(c)
  BY <1>1, <1>3 DEF Drafts, CreateBatch, CancelBatch, VoidCredit
<1>4. ASSUME NEW t \in Txs, Start(t) \/ Proceed(t)
      PROVE  EditedPa'
  BY <1>1, <1>4 DEF Start, Proceed, ExecutePayment, ExecuteBatch, LockDoc, PayLine,
                    RefuseLine, Commit, Crash, DeadlockVictim, Lost
<1> QED
  BY <1>1, <1>2, <1>3, <1>4 DEF Next, vars

(* Every step keeps the invariant. *)
LEMMA StepPaid ==
  ASSUME PaidInv, LocksApart, HeldAlike, EditedPa, [Next]_vars
  PROVE  PaidInv'
<1>1. CASE UNCHANGED vars
  BY <1>1 DEF vars, PaidInv, JobShape, MaintainedOk, Past
<1>2. ASSUME NEW t \in Txs, Start(t)
      PROVE  PaidInv'
  BY <1>2, ExecutePaymentKeeps, ExecuteBatchKeeps DEF Start
<1>3. ASSUME NEW t \in Txs, Proceed(t)
      PROVE  PaidInv'
  BY <1>3, LockDocKeeps, PayLineKeeps, RefuseLineKeeps, CommitKeeps, LostKeeps
     DEF Proceed, Crash, DeadlockVictim
<1> QED
  BY <1>1, <1>2, <1>3, DraftsKeep, MaintenanceKeeps DEF Next

LEMMA InitLocks == Init => LocksApart /\ HeldAlike
<1> SUFFICES ASSUME Init PROVE LocksApart /\ HeldAlike
  OBVIOUS
<1>1. \A t \in Txs : mine[t] = << >> /\ DOMAIN mine[t] = {} /\ job[t] = Idle
  BY EmptySeq DEF Init
<1> QED
  BY <1>1 DEF LocksApart, HeldAlike, AsCommitted

LEMMA PaidAlways == Spec => [](PaidInv /\ EditedPa /\ LocksApart /\ HeldAlike)
<1>1. PaidInv /\ EditedPa /\ LocksApart /\ HeldAlike /\ [Next]_vars
        => (PaidInv /\ EditedPa /\ LocksApart /\ HeldAlike)'
  BY StepPaid, EditedPaKept, LocksKept, AlikeKept
<1> QED
  BY InitPaid, InitLocks, <1>1, PTL DEF Spec

(* What the invariant says of a document's row, wherever it is read. *)
LEMMA RowsOk ==
  ASSUME PaidInv, NEW d \in Docs
  PROVE  /\ DocOk(d, db[d], Past)
         /\ \A t \in Txs : d \in DOMAIN mine[t] => DocOk(d, mine[t][d], Past)
BY Tables DEF PaidInv, GoodRows, GoodRow

(* The committed rows are of their types and transactions hold rows that   *)
(* exist: no amount of payments takes a credit below zero, for the payment *)
(* code never writes more off a credit than it read under the lock.        *)
THEOREM PaymentTypes == Spec => []TypeOK
<1>1. PaidInv => TypeOK
  <2> SUFFICES ASSUME PaidInv PROVE TypeOK
    OBVIOUS
  <2>1. \A d \in Docs : db[d] \in DocRow
    BY RowsOk DEF DocOk
  <2>2. \A r \in Rows : GoodRow(r, db[r], Past)
    BY DEF PaidInv, GoodRows
  <2>3. \A c \in CreditSet : db[c] \in CreditRow
    BY <2>2, Tables DEF GoodRow, CreditOk
  <2>4. \A b \in Batches : /\ db[b].status \in BatchStatus
                           /\ \A d \in DOMAIN db[b].lines : db[b].lines[d] \in BatchLine
    BY <2>2, Tables DEF GoodRow, BatchOk
  <2>5. \A t \in Txs : DOMAIN mine[t] \subseteq Rows
    BY DEF PaidInv, GoodRows
  <2>6. /\ total \in [Invoices -> Nat] /\ altered \subseteq Docs
        /\ stale \in [Batches -> SUBSET (Docs \cup Invoices)]
    BY DEF PaidInv, MaintainedOk
  <2> QED
    BY <2>1, <2>3, <2>4, <2>5, <2>6 DEF TypeOK
<1> QED
  BY PaidAlways, <1>1, PTL

(* No invoice is in two payments of a PA, and a payment of the whole is    *)
(* the only one: the scope of every payment is computed from the payments  *)
(* of the locked row, whatever else runs beside it.                        *)
THEOREM NeverPaidTwice == Spec => []NoInvoicePaidTwice
<1>1. PaidInv => NoInvoicePaidTwice
  BY RowsOk DEF DocOk, NoInvoicePaidTwice
<1> QED
  BY PaidAlways, <1>1, PTL

(* What a settled document's payments come to.                             *)
LEMMA SettledPays ==
  ASSUME NEW d \in Docs, NEW row \in DocRow, NEW prices \in [Invoices -> Nat],
         Settled(d, row, prices), row.payments # << >>
  PROVE  /\ NeverPaidWhole(row) => row.closed = PaidInvoices(row.payments)
         /\ ~ Overridden(row.payments) =>
              /\ Gross(row.payments) <= row.due
              /\ row.status = PaidStatus(d) => Gross(row.payments) = row.due
<1>0. row.due \in Int
  BY DEF DocRow
<1>1. CASE ~ NeverPaidWhole(row)
  BY <1>0, <1>1 DEF Settled
<1>2. CASE NeverPaidWhole(row)
  <2>1. PaidInParts(d, row, prices)
    BY <1>2 DEF Settled
  <2> DEFINE paid == PaidInvoices(row.payments)
             rem == row.links \ paid
  <2>2. /\ paid \subseteq row.links /\ row.links \in SUBSET Invoices
        /\ SumFunctionOnSet(prices, row.links) = row.due
        /\ Gross(row.payments) = SumFunctionOnSet(prices, paid)
    BY <2>1 DEF PaidInParts, DocRow
  <2>3. /\ paid \in SUBSET Invoices /\ rem \in SUBSET Invoices
        /\ paid \cap rem = {} /\ rem \cap paid = {} /\ paid \cup rem = row.links
    BY <2>2
  <2> HIDE DEF paid, rem
  <2>4. /\ SumFunctionOnSet(prices, paid) \in Nat /\ SumFunctionOnSet(prices, rem) \in Nat
        /\ SumFunctionOnSet(prices, paid \cup rem)
             = SumFunctionOnSet(prices, paid) + SumFunctionOnSet(prices, rem)
    BY <2>3, AmountsAdd
  <2>5. SumFunctionOnSet(prices, paid \cup rem) = row.due
    BY <2>2, <2>3, Zenon
  <2>6. Gross(row.payments) <= row.due
    BY <2>2, <2>4, <2>5
  <2>7. row.status = PaidStatus(d) => Gross(row.payments) = row.due
    <3>1. row.status = PaidStatus(d) => paid = row.links
      BY <2>1 DEF PaidInParts, paid
    <3> QED
      BY <2>2, <3>1
  <2> QED
    BY <2>1, <2>6, <2>7 DEF PaidInParts
<1> QED
  BY <1>1, <1>2

(* A document is never paid more than its amount, and exactly that when it *)
(* is closed: a part payment is of what its invoices are for, the one that *)
(* closes takes what is left.  Amounts may have been edited until the      *)
(* first payment; the invariant follows the amount of the row, not the one *)
(* the document was submitted with.                                        *)
THEOREM PaidWithinDue == Spec => []NeverOverpaid
<1>1. PaidInv => NeverOverpaid
  <2> SUFFICES ASSUME PaidInv, NEW d \in Docs, d \notin altered, db[d].payments # << >>,
                      ~ Overridden(db[d].payments)
               PROVE  /\ Gross(db[d].payments) <= db[d].due
                      /\ db[d].status = PaidStatus(d) => Gross(db[d].payments) = db[d].due
    BY DEF NeverOverpaid
  <2>1. db[d] \in DocRow /\ Settled(d, db[d], total) /\ total \in [Invoices -> Nat]
    BY RowsOk DEF DocOk, Past, PaidInv, MaintainedOk
  <2> QED
    BY <2>1, SettledPays
<1> QED
  BY PaidAlways, <1>1, PTL

(* Every payment has its own posting event: one keyed on the document for  *)
(* a payment of the whole, one keyed on the payment for each part.         *)
THEOREM EventsMatchPayments == Spec => []EventPerPayment
<1>1. PaidInv => EventPerPayment
  BY RowsOk DEF DocOk, EventsTell, Booked, EventPerPayment
<1> QED
  BY PaidAlways, <1>1, PTL

(* A PA paid in part closes the invoices it paid and no other.             *)
THEOREM UnpaidStayOpen == Spec => []UnpaidInvoicesOpen
<1>1. PaidInv => UnpaidInvoicesOpen
  <2> SUFFICES ASSUME PaidInv, NEW p \in Pas, p \notin altered, NeverPaidWhole(db[p])
               PROVE  db[p].closed = PaidInvoices(db[p].payments)
    BY DEF UnpaidInvoicesOpen
  <2>1. p \in Docs
    BY Tables
  <2>2. db[p] \in DocRow /\ Settled(p, db[p], total) /\ total \in [Invoices -> Nat]
    BY <2>1, RowsOk DEF DocOk, Past, PaidInv, MaintainedOk
  <2>3. CASE db[p].payments = << >>
    BY <2>2, <2>3, NothingPaid DEF Settled
  <2>4. CASE db[p].payments # << >>
    BY <2>1, <2>2, <2>4, SettledPays
  <2> QED
    BY <2>3, <2>4
<1> QED
  BY PaidAlways, <1>1, PTL

-----------------------------------------------------------------------------
(* Credits: what payments took off them is what they have lost.  Said of   *)
(* the committed rows it is not inductive: a transaction commits its rows  *)
(* over those that others committed since it started.  So it is said of    *)
(* its rows put over the committed ones, for the credits it has locked;    *)
(* of the others it has taken nothing.                                     *)

TakenIn(table, c) == SumOf([d \in Docs |-> TakenBy(table[d].payments, c)], Pas)

Balanced(table, c) == table[c].left + TakenIn(table, c) = Face[c]

Kept(rows, table) ==
  /\ \A c \in CreditSet \cap DOMAIN rows : Balanced(Over(rows, table), c)
  /\ \A c \in CreditSet \ DOMAIN rows, d \in Pas \cap DOMAIN rows :
        TakenBy(rows[d].payments, c) = TakenBy(table[d].payments, c)

CreditsKept ==
  /\ \A c \in CreditSet : Balanced(db, c)
  /\ \A t \in Txs : Kept(mine[t], db)
  /\ \A t \in Txs : job[t] # Idle => Kept(job[t].savepoint, db)

(* What payments took, one by one. *)
LEMMA TakenType ==
  ASSUME NEW payments \in Seq(Payment), NEW c \in CreditSet
  PROVE  /\ TakenBy(payments, c) \in Int
         /\ TakenBy(payments, c)
              = SumOf([k \in DOMAIN payments |-> payments[k].takes[c]], DOMAIN payments)
<1> DEFINE w == [k \in DOMAIN payments |-> payments[k].takes[c]]
<1>1. IsFiniteSet(DOMAIN payments) /\ \A k \in DOMAIN payments : w[k] \in Int
  <2>1. DOMAIN payments = 1 .. Len(payments) /\ Len(payments) \in Nat
    BY LenProperties
  <2>2. \A k \in DOMAIN payments : payments[k] \in Payment
    BY <2>1, ElementOfSeq
  <2> QED
    BY <2>1, <2>2, FS_Interval DEF Payment
<1>2. DOMAIN w = DOMAIN payments
  OBVIOUS
<1> HIDE DEF w
<1>3. SumFunctionOnSet(w, DOMAIN payments) = SumOf(w, DOMAIN payments)
      /\ SumOf(w, DOMAIN payments) \in Int
  BY <1>1, FoldIsSum, SumInt
<1>4. SumFunction(w) = SumFunctionOnSet(w, DOMAIN w)
  BY DEF SumFunction, SumFunctionOnSet, FoldFunction
<1> QED
  BY <1>2, <1>3, <1>4 DEF TakenBy, w

LEMMA TakenAppend ==
  ASSUME NEW payments \in Seq(Payment), NEW x \in Payment, NEW c \in CreditSet
  PROVE  TakenBy(Append(payments, x), c) = TakenBy(payments, c) + x.takes[c]
<1> DEFINE all == Append(payments, x)
           n == Len(payments)
           v == [k \in DOMAIN all |-> all[k].takes[c]]
           w == [k \in DOMAIN payments |-> payments[k].takes[c]]
<1>1. /\ all \in Seq(Payment) /\ n \in Nat /\ DOMAIN payments = 1 .. n
      /\ DOMAIN all = 1 .. n + 1 /\ all[n + 1] = x
      /\ \A k \in 1 .. n : all[k] = payments[k]
  BY AppendProperties, LenProperties
<1>2. TakenBy(all, c) = SumOf(v, 1 .. n + 1) /\ TakenBy(payments, c) = SumOf(w, 1 .. n)
  <2> HIDE DEF all
  <2> QED BY <1>1, TakenType DEF all
<1>3. /\ IsFiniteSet(1 .. n + 1) /\ IsFiniteSet(1 .. n)
      /\ (1 .. n + 1) \ {n + 1} = 1 .. n /\ n + 1 \in 1 .. n + 1
  <2>1. n \in Nat /\ n + 1 \in Nat
    BY <1>1
  <2>2. (1 .. n + 1) \ {n + 1} = 1 .. n /\ n + 1 \in 1 .. n + 1
    BY <2>1
  <2> QED
    BY <2>1, <2>2, FS_Interval
<1>4. /\ \A k \in 1 .. n + 1 : v[k] \in Int
      /\ \A k \in 1 .. n : w[k] \in Int /\ v[k] = w[k]
      /\ v[n + 1] = x.takes[c] /\ x.takes[c] \in Int
  <2>1. \A k \in 1 .. n + 1 : all[k] \in Payment
    BY <1>1, ElementOfSeq
  <2> QED
    BY <1>1, <2>1 DEF Payment
<1> HIDE DEF v, w, all
<1>5. SumOf(v, 1 .. n + 1) = v[n + 1] + SumOf(v, (1 .. n + 1) \ {n + 1})
  BY <1>3, <1>4, SumStep
<1>6. SumOf(v, 1 .. n) = SumOf(w, 1 .. n) /\ SumOf(w, 1 .. n) \in Int
  BY <1>3, <1>4, SumSame, SumInt
<1>7. SumOf(v, (1 .. n + 1) \ {n + 1}) = SumOf(v, 1 .. n)
  BY <1>3, Zenon
<1> QED
  BY <1>2, <1>4, <1>5, <1>6, <1>7 DEF all

(* Tables whose documents took the same off a credit; one that took more.  *)
PaysIn(table) == \A d \in Pas : table[d].payments \in Seq(Payment)

LEMMA TakenSame ==
  ASSUME NEW c \in CreditSet, NEW f, NEW g, PaysIn(f), PaysIn(g),
         \A d \in Pas : TakenBy(f[d].payments, c) = TakenBy(g[d].payments, c)
  PROVE  TakenIn(f, c) = TakenIn(g, c) /\ TakenIn(g, c) \in Int
<1> DEFINE v == [d \in Docs |-> TakenBy(f[d].payments, c)]
           w == [d \in Docs |-> TakenBy(g[d].payments, c)]
<1>1. \A d \in Pas : w[d] \in Int /\ v[d] = w[d]
  BY TakenType, Tables DEF PaysIn
<1> HIDE DEF v, w
<1>2. SumOf(v, Pas) = SumOf(w, Pas) /\ SumOf(w, Pas) \in Int
  BY <1>1, RowAssumption, SumSame, SumInt
<1> QED
  BY <1>2 DEF v, w, TakenIn

LEMMA TakenMore ==
  ASSUME NEW c \in CreditSet, NEW f, NEW g, PaysIn(f), PaysIn(g), NEW p \in Pas, NEW x \in Int,
         TakenBy(f[p].payments, c) = TakenBy(g[p].payments, c) + x,
         \A d \in Pas \ {p} : TakenBy(f[d].payments, c) = TakenBy(g[d].payments, c)
  PROVE  TakenIn(f, c) = TakenIn(g, c) + x /\ TakenIn(g, c) \in Int
<1> DEFINE v == [d \in Docs |-> TakenBy(f[d].payments, c)]
           w == [d \in Docs |-> TakenBy(g[d].payments, c)]
<1>1. /\ \A d \in Pas : w[d] \in Int /\ v[d] \in Int
      /\ \A d \in Pas \ {p} : v[d] = w[d]
      /\ v[p] = w[p] + x
  BY TakenType, Tables DEF PaysIn
<1> HIDE DEF v, w
<1>2. SumOf(v, Pas) = SumOf(w, Pas) + v[p] - w[p] /\ SumOf(w, Pas) \in Int
  BY <1>1, RowAssumption, SumMoved, SumInt
<1>3. SumOf(v, Pas) = SumOf(w, Pas) + x
  BY <1>1, <1>2
<1> QED
  BY <1>2, <1>3 DEF v, w, TakenIn

LEMMA GoodPays ==
  ASSUME NEW rows, NEW past, GoodRows(rows, past)
  PROVE  /\ \A d \in Pas \cap DOMAIN rows : rows[d].payments \in Seq(Payment)
         /\ \A c \in CreditSet \cap DOMAIN rows : rows[c].left \in Nat
<1>1. \A d \in Pas \cap DOMAIN rows : rows[d] \in DocRow
  BY Tables DEF GoodRows, GoodRow, DocOk
<1>2. \A c \in CreditSet \cap DOMAIN rows : rows[c] \in CreditRow
  BY Tables DEF GoodRows, GoodRow, CreditOk
<1> QED
  BY <1>1, <1>2 DEF DocRow, CreditRow

(* A table of every row. *)
Table(f, past) == GoodRows(f, past) /\ DOMAIN f = Rows

LEMMA TablePays ==
  ASSUME NEW f, NEW past, Table(f, past)
  PROVE  PaysIn(f) /\ \A c \in CreditSet : f[c].left \in Nat
BY GoodPays, Tables DEF Table, PaysIn

LEMMA TableOver ==
  ASSUME NEW f, NEW rows, NEW past, Table(f, past), GoodRows(rows, past)
  PROVE  Table(Over(rows, f), past)
<1>1. DOMAIN Over(rows, f) = Rows
  BY DEF Over, Table, GoodRows
<1> QED
  BY <1>1, JoinGood DEF Table

-----------------------------------------------------------------------------
(* Rows put over others. *)
LEMMA OverIs ==
  ASSUME NEW rows, NEW f
  PROVE  /\ \A r \in DOMAIN rows : Over(rows, f)[r] = rows[r]
         /\ \A r \in DOMAIN f : r \notin DOMAIN rows => Over(rows, f)[r] = f[r]
BY DEF Over

(* What another transaction committed leaves the rows of this one kept.    *)
LEMMA KeptOthers ==
  ASSUME NEW past, NEW f, Table(f, past), \A c \in CreditSet : Balanced(f, c),
         NEW done, GoodRows(done, past), Kept(done, f),
         NEW rows, GoodRows(rows, past), Kept(rows, f),
         DOMAIN rows \cap DOMAIN done = {},
         NEW g, g = Over(done, f)
  PROVE  Kept(rows, g) /\ \A c \in CreditSet : Balanced(g, c)
<1>1. /\ Table(g, past) /\ Table(Over(rows, f), past) /\ Table(Over(rows, g), past)
  BY TableOver
<1>2. PaysIn(f) /\ PaysIn(g) /\ PaysIn(Over(rows, f)) /\ PaysIn(Over(rows, g))
  BY <1>1, TablePays
<1>3. DOMAIN f = Rows /\ DOMAIN g = Rows
  BY <1>1 DEF Table
<1>4. \A c \in CreditSet \ DOMAIN done, d \in Pas :
        TakenBy(g[d].payments, c) = TakenBy(f[d].payments, c)
  <2> SUFFICES ASSUME NEW c \in CreditSet \ DOMAIN done, NEW d \in Pas
               PROVE  TakenBy(g[d].payments, c) = TakenBy(f[d].payments, c)
    OBVIOUS
  <2>1. CASE d \in DOMAIN done
    BY <2>1, OverIs DEF Kept
  <2>2. CASE d \notin DOMAIN done
    BY <2>2, <1>3, Tables, OverIs
  <2> QED
    BY <2>1, <2>2
<1>5. ASSUME NEW c \in CreditSet
      PROVE  Balanced(g, c)
  <2>1. CASE c \in DOMAIN done
    BY <2>1 DEF Kept
  <2>2. CASE c \notin DOMAIN done
    <3>1. g[c] = f[c]
      BY <2>2, <1>3, Tables, OverIs
    <3>2. TakenIn(g, c) = TakenIn(f, c)
      BY <2>2, <1>2, <1>4, TakenSame
    <3> QED
      BY <3>1, <3>2 DEF Balanced
  <2> QED
    BY <2>1, <2>2
<1>6. ASSUME NEW c \in CreditSet \cap DOMAIN rows
      PROVE  Balanced(Over(rows, g), c)
  <2>1. Over(rows, g)[c] = rows[c] /\ Over(rows, f)[c] = rows[c] /\ c \notin DOMAIN done
    BY OverIs
  <2>2. \A d \in Pas : TakenBy(Over(rows, g)[d].payments, c) = TakenBy(Over(rows, f)[d].payments, c)
    <3> SUFFICES ASSUME NEW d \in Pas
                 PROVE  TakenBy(Over(rows, g)[d].payments, c)
                          = TakenBy(Over(rows, f)[d].payments, c)
      OBVIOUS
    <3>1. CASE d \in DOMAIN rows
      BY <3>1, OverIs
    <3>2. CASE d \notin DOMAIN rows
      <4>1. Over(rows, g)[d] = g[d] /\ Over(rows, f)[d] = f[d]
        BY <3>2, <1>3, Tables, OverIs
      <4> QED
        BY <4>1, <2>1, <1>4
    <3> QED
      BY <3>1, <3>2
  <2>3. TakenIn(Over(rows, g), c) = TakenIn(Over(rows, f), c)
    BY <1>2, <2>2, TakenSame
  <2>4. Balanced(Over(rows, f), c)
    BY DEF Kept
  <2> QED
    BY <2>1, <2>3, <2>4 DEF Balanced
<1>7. ASSUME NEW c \in CreditSet \ DOMAIN rows, NEW d \in Pas \cap DOMAIN rows
      PROVE  TakenBy(rows[d].payments, c) = TakenBy(g[d].payments, c)
  <2>1. g[d] = f[d]
    BY <1>3, Tables, OverIs
  <2> QED
    BY <2>1 DEF Kept
<1> QED
  BY <1>5, <1>6, <1>7 DEF Kept

(* Tables with the same payments and credits keep the same.                *)
LEMMA KeptQuiet ==
  ASSUME NEW f, PaysIn(f), NEW g, PaysIn(g), DOMAIN f = Rows, DOMAIN g = Rows,
         \A d \in Pas : g[d].payments = f[d].payments,
         \A c \in CreditSet : g[c].left = f[c].left
  PROVE  /\ \A c \in CreditSet : Balanced(f, c) => Balanced(g, c)
         /\ \A rows : /\ \A d \in Pas \cap DOMAIN rows : rows[d].payments \in Seq(Payment)
                      /\ Kept(rows, f)
                      => Kept(rows, g)
<1>1. ASSUME NEW c \in CreditSet, Balanced(f, c)
      PROVE  Balanced(g, c)
  <2>1. TakenIn(g, c) = TakenIn(f, c)
    BY TakenSame
  <2> QED
    BY <1>1, <2>1 DEF Balanced
<1>2. ASSUME NEW rows, \A d \in Pas \cap DOMAIN rows : rows[d].payments \in Seq(Payment),
             Kept(rows, f)
      PROVE  Kept(rows, g)
  <2>1. ASSUME NEW d \in Pas
        PROVE  /\ Over(rows, g)[d].payments = Over(rows, f)[d].payments
               /\ Over(rows, f)[d].payments \in Seq(Payment)
    <3>1. CASE d \in DOMAIN rows
      BY <3>1, <1>2, OverIs
    <3>2. CASE d \notin DOMAIN rows
      <4>1. Over(rows, g)[d] = g[d] /\ Over(rows, f)[d] = f[d]
        BY <3>2, Tables, OverIs
      <4> QED
        BY <4>1 DEF PaysIn
    <3> QED
      BY <3>1, <3>2
  <2>2. PaysIn(Over(rows, f)) /\ PaysIn(Over(rows, g))
    BY <2>1 DEF PaysIn
  <2>3. ASSUME NEW c \in CreditSet \cap DOMAIN rows
        PROVE  Balanced(Over(rows, g), c)
    <3>1. TakenIn(Over(rows, g), c) = TakenIn(Over(rows, f), c)
      BY <2>1, <2>2, TakenSame
    <3>2. Over(rows, g)[c] = Over(rows, f)[c]
      BY OverIs
    <3>3. Balanced(Over(rows, f), c)
      BY <1>2 DEF Kept
    <3> QED
      BY <3>1, <3>2, <3>3 DEF Balanced
  <2>4. \A c \in CreditSet \ DOMAIN rows, d \in Pas \cap DOMAIN rows :
          TakenBy(rows[d].payments, c) = TakenBy(g[d].payments, c)
    BY <1>2 DEF Kept
  <2> QED
    BY <2>3, <2>4 DEF Kept
<1> QED
  BY <1>1, <1>2

(* Rows that differ in batches only are kept alike.                        *)
LEMMA KeptAlike ==
  ASSUME NEW past, NEW f, Table(f, past),
         NEW rows, GoodRows(rows, past), Kept(rows, f),
         NEW other, GoodRows(other, past), DOMAIN other = DOMAIN rows,
         \A r \in DOMAIN rows : r \notin Batches => other[r] = rows[r]
  PROVE  Kept(other, f)
<1>0. /\ \A r \in Pas \cup CreditSet : r \notin Batches /\ r \in Rows
      /\ DOMAIN f = Rows
  BY Tables DEF Table
<1>1. \A r \in Pas \cup CreditSet : Over(other, f)[r] = Over(rows, f)[r]
  BY <1>0 DEF Over
<1>2. PaysIn(Over(other, f)) /\ PaysIn(Over(rows, f))
  BY TableOver, TablePays
<1>3. ASSUME NEW c \in CreditSet \cap DOMAIN other
      PROVE  Balanced(Over(other, f), c)
  <2>1. TakenIn(Over(other, f), c) = TakenIn(Over(rows, f), c)
    BY <1>1, <1>2, TakenSame
  <2>2. Balanced(Over(rows, f), c)
    BY DEF Kept
  <2> QED
    BY <1>1, <2>1, <2>2 DEF Balanced
<1>4. ASSUME NEW c \in CreditSet \ DOMAIN other, NEW d \in Pas \cap DOMAIN other
      PROVE  TakenBy(other[d].payments, c) = TakenBy(f[d].payments, c)
  BY <1>0 DEF Kept
<1> QED
  BY <1>3, <1>4 DEF Kept

(* So are rows with one more row, as it was committed.                     *)
LEMMA KeptLocked ==
  ASSUME NEW past, NEW f, Table(f, past),
         NEW rows, GoodRows(rows, past), Kept(rows, f),
         NEW d \in Docs, d \notin DOMAIN rows
  PROVE  Kept(Over(Row(d, f[d]), rows), f)
<1> SUFFICES ASSUME NEW more, more = Over(Row(d, f[d]), rows)
             PROVE  Kept(more, f)
  OBVIOUS
<1>0. DOMAIN f = Rows /\ d \in Rows /\ d \notin CreditSet
  BY Tables DEF Table
<1>1. DOMAIN more = {d} \cup DOMAIN rows /\ more[d] = f[d]
      /\ \A r \in DOMAIN rows : more[r] = rows[r]
  BY DEF Over, Row
<1>2. \A r \in Rows : Over(more, f)[r] = Over(rows, f)[r]
  BY <1>0, <1>1 DEF Over
<1>3. PaysIn(Over(rows, f))
  BY TableOver, TablePays
<1>4. PaysIn(Over(more, f))
  BY <1>2, <1>3, Tables DEF PaysIn
<1>5. ASSUME NEW c \in CreditSet \cap DOMAIN more
      PROVE  Balanced(Over(more, f), c)
  <2>1. TakenIn(Over(more, f), c) = TakenIn(Over(rows, f), c)
    BY <1>2, <1>3, <1>4, Tables, TakenSame
  <2>2. Balanced(Over(rows, f), c)
    BY <1>0, <1>1 DEF Kept
  <2> QED
    BY <1>2, <2>1, <2>2, Tables DEF Balanced
<1>6. ASSUME NEW c \in CreditSet \ DOMAIN more, NEW p \in Pas \cap DOMAIN more
      PROVE  TakenBy(more[p].payments, c) = TakenBy(f[p].payments, c)
  BY <1>1 DEF Kept
<1> QED
  BY <1>5, <1>6 DEF Kept

(* Without a row of a document or a credit there is nothing to keep.       *)
LEMMA KeptNothing ==
  ASSUME NEW rows, NEW f, DOMAIN rows \subseteq Batches
  PROVE  Kept(rows, f)
BY Tables DEF Kept

-----------------------------------------------------------------------------
(* A payment takes off the credits it picks what it adds to what was taken *)
(* off them; a credit it picks is one no other transaction has locked.     *)
LEMMA KeptPays ==
  ASSUME PaidInv, PaidInv', Past' = Past, CreditsKept, NEW t \in Txs,
         NEW d, NEW scope, NEW takes, NEW picked, NEW payment,
         Pays(t, d, scope, takes, picked, payment)
  PROVE  Kept(mine'[t], db)
<1> SUFFICES ASSUME NEW rows, rows = mine[t], NEW more, more = mine'[t],
                    NEW x, x = payment,
                    NEW f, f = Over(rows, db), NEW g, g = Over(more, db)
             PROVE  Kept(more, db)
  OBVIOUS
<1>1. /\ d \in Docs /\ d \in DOMAIN rows
      /\ takes \in [CreditSet -> Nat]
      /\ \A c \in CreditSet \ picked : takes[c] = 0
      /\ picked \subseteq CreditSet
      /\ d \in Claims => picked = {}
      /\ DOMAIN more = DOMAIN rows \cup picked
  BY DEF Pays
<1>2. x \in Payment /\ x.takes = takes /\ more[d].payments = Append(rows[d].payments, x)
  <2>1. PaidColumns(d, mine[t][d], scope, payment, mine'[t][d])
    BY DEF Pays
  <2>2. payment = PaymentOf(d, scope, AmountPaid(t, scope), takes, job[t])
    BY DEF Pays
  <2>3. payment.takes = takes
    BY <2>2 DEF PaymentOf
  <2> QED
    BY <2>1, <2>3 DEF PaidColumns
<1>3. \A c \in picked : more[c].left = View(t, c).left - takes[c]
  BY DEF Pays
<1>4. \A r \in DOMAIN rows \ ({d} \cup picked) : r \notin Batches => more[r] = rows[r]
  BY DEF Pays
<1>5. Table(db, Past) /\ GoodRows(rows, Past) /\ GoodRows(more, Past)
  BY DEF PaidInv, Table
<1>6. PaysIn(db) /\ PaysIn(f) /\ PaysIn(g) /\ DOMAIN db = Rows
      /\ \A c \in CreditSet : db[c].left \in Nat /\ f[c].left \in Nat /\ g[c].left \in Nat
  BY <1>5, TableOver, TablePays DEF Table
<1>7. \A c \in CreditSet : View(t, c) = f[c]
  BY <1>6, Tables, OverIs DEF View
<1>8. /\ \A r \in DOMAIN rows : f[r] = rows[r]
      /\ \A r \in DOMAIN more : g[r] = more[r]
      /\ \A r \in Rows \ DOMAIN rows : f[r] = db[r]
      /\ \A r \in Rows \ DOMAIN more : g[r] = db[r]
  BY <1>6, OverIs
<1>9. rows[d].payments \in Seq(Payment)
  <2>1. rows[d] \in DocRow
    BY DEF Pays
  <2> QED
    BY <2>1 DEF DocRow
<1>10. ASSUME NEW c \in CreditSet
       PROVE  TakenIn(g, c) = TakenIn(f, c) + takes[c]
  <2>1. \A e \in Pas \ {d} : g[e] = f[e]
    <3> SUFFICES ASSUME NEW e \in Pas \ {d} PROVE g[e] = f[e]
      OBVIOUS
    <3>1. e \notin picked /\ e \notin Batches /\ e \in Rows
      BY <1>1, Tables
    <3>2. CASE e \in DOMAIN rows
      BY <1>1, <1>4, <1>8, <3>1, <3>2
    <3>3. CASE e \notin DOMAIN rows
      BY <1>1, <1>8, <3>1, <3>3
    <3> QED
      BY <3>2, <3>3
  <2>2. CASE d \in Pas
    <3>1. g[d].payments = Append(f[d].payments, x) /\ f[d].payments \in Seq(Payment)
      BY <1>1, <1>2, <1>8, <1>9
    <3>2. TakenBy(g[d].payments, c) = TakenBy(f[d].payments, c) + takes[c]
      BY <1>2, <3>1, TakenAppend
    <3>3. takes[c] \in Int
      BY <1>1
    <3>4. \A e \in Pas \ {d} : TakenBy(g[e].payments, c) = TakenBy(f[e].payments, c)
      BY <2>1
    <3> QED
      BY <1>6, <2>2, <3>2, <3>3, <3>4, TakenMore
  <2>3. CASE d \notin Pas
    <3>1. takes[c] = 0
      BY <1>1, <2>3 DEF Docs
    <3>2. \A e \in Pas : TakenBy(g[e].payments, c) = TakenBy(f[e].payments, c)
      BY <2>1, <2>3
    <3>3. TakenIn(g, c) = TakenIn(f, c) /\ TakenIn(f, c) \in Int
      BY <1>6, <3>2, TakenSame
    <3> QED
      BY <3>1, <3>3
  <2> QED
    BY <2>2, <2>3
<1>11. ASSUME NEW c \in CreditSet
       PROVE  Balanced(f, c)
  <2>1. CASE c \in DOMAIN rows
    BY <2>1 DEF CreditsKept, Kept
  <2>2. CASE c \notin DOMAIN rows
    <3>1. \A e \in Pas : TakenBy(f[e].payments, c) = TakenBy(db[e].payments, c)
      <4> SUFFICES ASSUME NEW e \in Pas
                   PROVE  TakenBy(f[e].payments, c) = TakenBy(db[e].payments, c)
        OBVIOUS
      <4>1. CASE e \in DOMAIN rows
        BY <1>8, <2>2, <4>1 DEF CreditsKept, Kept
      <4>2. CASE e \notin DOMAIN rows
        BY <1>8, <4>2, Tables
      <4> QED
        BY <4>1, <4>2
    <3>2. TakenIn(f, c) = TakenIn(db, c)
      BY <1>6, <3>1, TakenSame
    <3>3. f[c] = db[c]
      BY <1>8, <2>2, Tables
    <3>4. Balanced(db, c)
      BY DEF CreditsKept
    <3> QED
      BY <3>2, <3>3, <3>4 DEF Balanced
  <2> QED
    BY <2>1, <2>2
<1>12. ASSUME NEW c \in CreditSet \cap DOMAIN more
       PROVE  Balanced(g, c)
  <2>1. g[c].left = f[c].left - takes[c]
    <3>1. CASE c \in picked
      BY <1>3, <1>7, <1>8, <3>1
    <3>2. CASE c \notin picked
      <4>1. c \in DOMAIN rows /\ c # d /\ c \notin Batches
        BY <1>1, <3>2, Tables
      <4>2. g[c] = f[c] /\ takes[c] = 0
        BY <1>1, <1>4, <1>8, <3>2, <4>1
      <4>3. f[c].left \in Nat
        BY <1>6
      <4> QED
        BY <4>2, <4>3
    <3> QED
      BY <3>1, <3>2
  <2>2. TakenIn(g, c) = TakenIn(f, c) + takes[c]
    BY <1>10
  <2>3. f[c].left + TakenIn(f, c) = Face[c]
    BY <1>11 DEF Balanced
  <2>4. f[c].left \in Int /\ TakenIn(f, c) \in Int /\ takes[c] \in Int
    BY <1>1, <1>6, TakenSame
  <2> QED
    BY <2>1, <2>2, <2>3, <2>4 DEF Balanced
<1>13. ASSUME NEW c \in CreditSet \ DOMAIN more, NEW p \in Pas \cap DOMAIN more
       PROVE  TakenBy(more[p].payments, c) = TakenBy(db[p].payments, c)
  <2>1. c \notin DOMAIN rows /\ c \notin picked /\ p \in DOMAIN rows /\ p \notin picked
        /\ p \notin Batches
    BY <1>1, Tables
  <2>2. TakenBy(rows[p].payments, c) = TakenBy(db[p].payments, c)
    BY <2>1 DEF CreditsKept, Kept
  <2>3. CASE p = d
    <3>1. takes[c] = 0 /\ TakenBy(rows[p].payments, c) \in Int
      BY <1>1, <1>9, <2>1, <2>3, TakenType
    <3>2. TakenBy(more[p].payments, c) = TakenBy(rows[p].payments, c) + takes[c]
      BY <1>2, <1>9, <2>3, TakenAppend, ZenonT(40)
    <3> QED
      BY <2>2, <3>1, <3>2
  <2>4. CASE p # d
    BY <1>4, <2>1, <2>2, <2>4
  <2> QED
    BY <2>3, <2>4
<1> QED
  BY <1>12, <1>13 DEF Kept

-----------------------------------------------------------------------------
(* Drafts, edits and voided credits leave payments and remainders alone.   *)
LEMMA QuietRows ==
  ASSUME PaidInv, EditedPa, Drafts \/ Maintenance \/ \E c \in CreditSet : VoidCredit(c)
  PROVE  /\ \A d \in Docs : db'[d].payments = db[d].payments
         /\ \A c \in CreditSet : db'[c].left = db[c].left
         /\ \A t \in Txs : mine'[t] = mine[t] /\ job'[t] = job[t]
<1>0. DOMAIN db = Rows /\ mine' = mine /\ job' = job
  BY DEF PaidInv, Drafts, Maintenance, CreateBatch, CancelBatch, VoidCredit, EditRead, EditWrite,
         EditReplay, Reprice, EditTotal, Reapprove, CloseByHand
<1>d. \A d \in Docs : db[d] \in DocRow
  BY RowsOk DEF DocOk
<1>1. ASSUME NEW b \in Batches, NEW new, db' = [db EXCEPT ![b] = new]
      PROVE  /\ \A d \in Docs : db'[d] = db[d]
             /\ \A c \in CreditSet : db'[c] = db[c]
  BY <1>1, <1>0, Tables
<1>2. ASSUME NEW p \in Docs, NEW new, db' = [db EXCEPT ![p] = new], new.payments = db[p].payments
      PROVE  /\ \A d \in Docs : db'[d].payments = db[d].payments
             /\ \A c \in CreditSet : db'[c] = db[c]
  BY <1>2, <1>0, Tables
<1>3. CASE Drafts
  <2>1. PICK b \in Batches : \E new : db' = [db EXCEPT ![b] = new]
    BY <1>3 DEF Drafts, CreateBatch, CancelBatch
  <2>2. PICK new : db' = [db EXCEPT ![b] = new]
    BY <2>1
  <2> QED
    BY <1>0, <1>1, <2>2
<1>4. ASSUME NEW c \in CreditSet, VoidCredit(c)
      PROVE  /\ \A d \in Docs : db'[d].payments = db[d].payments
             /\ \A x \in CreditSet : db'[x].left = db[x].left
  <2>1. db' = [db EXCEPT ![c] = [db[c] EXCEPT !.status = "void"]]
        /\ db[c] = [status |-> "available", left |-> Face[c]]
    BY <1>4 DEF VoidCredit
  <2>2. db'[c].left = db[c].left
    BY <2>1, <1>0, Tables
  <2> QED
    BY <2>1, <2>2, <1>0, Tables
<1>5. CASE Maintenance
  <2>1. ASSUME NEW p \in Docs, Reapprove(p)
        PROVE  /\ \A d \in Docs : db'[d].payments = db[d].payments
               /\ \A c \in CreditSet : db'[c] = db[c]
    <3>1. db' = [db EXCEPT ![p] = [db[p] EXCEPT !.status = "approved"]]
      BY <2>1 DEF Reapprove
    <3>2. [db[p] EXCEPT !.status = "approved"].payments = db[p].payments
      BY <1>d DEF DocRow
    <3> QED
      BY <3>1, <3>2, <1>0, <1>2
  <2>6. ASSUME NEW p \in Docs, CloseByHand(p)
        PROVE  /\ \A d \in Docs : db'[d].payments = db[d].payments
               /\ \A c \in CreditSet : db'[c] = db[c]
    <3>1. db' = [db EXCEPT ![p] = [db[p] EXCEPT !.status = PaidStatus(p)]]
      BY <2>6 DEF CloseByHand
    <3>2. [db[p] EXCEPT !.status = PaidStatus(p)].payments = db[p].payments
      BY <1>d DEF DocRow
    <3> QED
      BY <3>1, <3>2, <1>0, <1>2
  <2>7. ASSUME NEW p \in Docs, NEW n, Reprice(p, n)
        PROVE  /\ \A d \in Docs : db'[d].payments = db[d].payments
               /\ \A c \in CreditSet : db'[c] = db[c]
    <3>1. db' = [db EXCEPT ![p] = [db[p] EXCEPT !.due = n]]
      BY <2>7 DEF Reprice
    <3>2. [db[p] EXCEPT !.due = n].payments = db[p].payments
      BY <1>d DEF DocRow
    <3> QED
      BY <3>1, <3>2, <1>0, <1>2
  <2>2. CASE db' = db
    BY <1>0, <2>2
  <2>3. ASSUME edit.pc = "write" \/ edit.pc = "replay"
        PROVE  edit.pa \in Docs
    BY <2>3, Tables DEF EditedPa, NoEdit
  <2>4. CASE EditWrite
    <3>1. db' = [db EXCEPT ![edit.pa] = [db[edit.pa] EXCEPT !.links = edit.links]]
          /\ edit.pa \in Docs
      BY <2>3, <2>4 DEF EditWrite
    <3>2. [db[edit.pa] EXCEPT !.links = edit.links].payments = db[edit.pa].payments
      BY <1>d, <3>1 DEF DocRow
    <3> QED
      BY <3>1, <3>2, <1>0, <1>2
  <2>5. CASE EditReplay
    <3> DEFINE closed == IF db[edit.pa].status = "processed"
                         THEN db[edit.pa].closed \cup db[edit.pa].links ELSE db[edit.pa].closed
    <3>1. db' = [db EXCEPT ![edit.pa] = [db[edit.pa] EXCEPT !.closed = closed]]
          /\ edit.pa \in Docs
      BY <2>3, <2>5 DEF EditReplay
    <3> HIDE DEF closed
    <3>2. [db[edit.pa] EXCEPT !.closed = closed].payments = db[edit.pa].payments
      BY <1>d, <3>1 DEF DocRow
    <3> QED
      BY <3>1, <3>2, <1>0, <1>2
  <2> QED
    BY <1>0, <1>5, <2>1, <2>2, <2>4, <2>5, <2>6, <2>7 DEF Maintenance, EditRead, EditTotal
<1> QED
  BY <1>0, <1>3, <1>4, <1>5

(* One transaction writes: the others keep what they kept.                 *)
LEMMA OneKeeps ==
  ASSUME CreditsKept, NEW t \in Txs, db' = db,
         \A u \in Txs \ {t} : mine'[u] = mine[u] /\ job'[u] = job[u],
         Kept(mine'[t], db), job'[t] # Idle => Kept(job'[t].savepoint, db)
  PROVE  CreditsKept'
BY DEF CreditsKept

LEMMA CreditsStayKept ==
  ASSUME PaidInv, EditedPa, LocksApart, PaidInv', CreditsKept, [Next]_vars
  PROVE  CreditsKept'
<1>0. /\ DOMAIN mine = Txs /\ DOMAIN job = Txs
      /\ Table(db, Past) /\ Table(db', Past')
      /\ \A t \in Txs : GoodRows(mine[t], Past) /\ GoodRows(mine'[t], Past')
      /\ \A t \in Txs : job[t] # Idle => GoodRows(job[t].savepoint, Past)
  BY DEF PaidInv, JobShape, Table
<1>a. \A f : Kept(<< >>, f)
  BY NoRows, KeptNothing
<1>1. CASE UNCHANGED vars
  BY <1>1 DEF CreditsKept, vars
<1>2. CASE Drafts \/ Maintenance \/ \E c \in CreditSet : VoidCredit(c)
  <2>1. /\ \A d \in Docs : db'[d].payments = db[d].payments
        /\ \A c \in CreditSet : db'[c].left = db[c].left
        /\ \A t \in Txs : mine'[t] = mine[t] /\ job'[t] = job[t]
    BY <1>2, QuietRows
  <2>2. PaysIn(db) /\ PaysIn(db') /\ DOMAIN db = Rows /\ DOMAIN db' = Rows
    BY <1>0, TablePays DEF Table
  <2>3. /\ \A c \in CreditSet : Balanced(db, c) => Balanced(db', c)
        /\ \A rows : /\ \A d \in Pas \cap DOMAIN rows : rows[d].payments \in Seq(Payment)
                     /\ Kept(rows, db)
                     => Kept(rows, db')
    BY <2>1, <2>2, Tables, KeptQuiet
  <2>4. \A t \in Txs : \A d \in Pas \cap DOMAIN mine[t] : mine[t][d].payments \in Seq(Payment)
    BY <1>0, GoodPays
  <2>5. \A t \in Txs : job[t] # Idle => \A d \in Pas \cap DOMAIN job[t].savepoint :
          job[t].savepoint[d].payments \in Seq(Payment)
    BY <1>0, GoodPays
  <2> QED
    BY <2>1, <2>3, <2>4, <2>5 DEF CreditsKept
<1>3. ASSUME NEW t \in Txs, Lost(t)
      PROVE  CreditsKept'
  <2>1. mine' = [mine EXCEPT ![t] = << >>] /\ job' = [job EXCEPT ![t] = Idle] /\ db' = db
    BY <1>3 DEF Lost
  <2>2. mine'[t] = << >> /\ job'[t] = Idle
        /\ \A u \in Txs \ {t} : mine'[u] = mine[u] /\ job'[u] = job[u]
    BY <1>0, <2>1
  <2> QED
    BY <1>a, <2>1, <2>2, OneKeeps
<1>4. ASSUME NEW t \in Txs, Commit(t)
      PROVE  CreditsKept'
  <2>1. /\ mine' = [mine EXCEPT ![t] = << >>] /\ job' = [job EXCEPT ![t] = Idle]
        /\ job[t] # Idle /\ Past' = Past
    BY <1>4, SamePast DEF Commit
  <2>2. mine'[t] = << >> /\ job'[t] = Idle
        /\ \A u \in Txs \ {t} : mine'[u] = mine[u] /\ job'[u] = job[u]
    BY <1>0, <2>1
  <2>3. PICK done : /\ db' = Over(done, db) /\ GoodRows(done, Past) /\ Kept(done, db)
                    /\ DOMAIN done = DOMAIN mine[t]
    <3>1. CASE job[t].batch = NoBatch
      <4>1. db' = Over(mine[t], db)
        BY <1>4, <3>1 DEF Commit
      <4>2. Kept(mine[t], db)
        BY DEF CreditsKept
      <4> QED
        BY <1>0, <4>1, <4>2
    <3>2. CASE job[t].batch # NoBatch
      <4> DEFINE new == [mine[t] EXCEPT ![job[t].batch].status = "executed"]
      <4>1. db' = Over(new, db)
        BY <1>4, <3>2 DEF Commit
      <4>2. job[t].batch \in Batches
        BY <2>1, <3>2 DEF PaidInv, JobShape
      <4>3. GoodRows(new, Past)
        BY <1>0, <4>2, BatchStatusGood DEF BatchStatus
      <4>4. DOMAIN new = DOMAIN mine[t]
            /\ \A r \in DOMAIN mine[t] : r \notin Batches => new[r] = mine[t][r]
        BY <4>2
      <4> HIDE DEF new
      <4>5. Kept(mine[t], db)
        BY DEF CreditsKept
      <4>6. Kept(new, db)
        BY <1>0, <4>3, <4>4, <4>5, KeptAlike
      <4> QED
        BY <4>1, <4>3, <4>4, <4>6
    <3> QED
      BY <3>1, <3>2
  <2>4. \A c \in CreditSet : Balanced(db, c)
    BY DEF CreditsKept
  <2>5. ASSUME NEW rows, GoodRows(rows, Past), Kept(rows, db),
               DOMAIN rows \cap DOMAIN mine[t] = {}
        PROVE  Kept(rows, db') /\ \A c \in CreditSet : Balanced(db', c)
    BY <1>0, <2>3, <2>4, <2>5, KeptOthers
  <2>6. \A c \in CreditSet : Balanced(db', c)
    <3>1. GoodRows(<< >>, Past) /\ DOMAIN << >> \cap DOMAIN mine[t] = {}
      BY NoRows, NoRowGood
    <3> QED
      BY <1>a, <2>5, <3>1
  <2>7. ASSUME NEW u \in Txs \ {t}
        PROVE  Kept(mine'[u], db') /\ (job'[u] # Idle => Kept(job'[u].savepoint, db'))
    <3>1. mine'[u] = mine[u] /\ job'[u] = job[u]
      BY <2>2
    <3>2. DOMAIN mine[u] \cap DOMAIN mine[t] = {}
      BY DEF LocksApart
    <3>3. Kept(mine[u], db')
      BY <1>0, <2>5, <3>2 DEF CreditsKept
    <3>4. ASSUME job[u] # Idle PROVE Kept(job[u].savepoint, db')
      <4>1. DOMAIN job[u].savepoint \cap DOMAIN mine[t] = {}
        BY <3>2, <3>4 DEF LocksApart
      <4>2. GoodRows(job[u].savepoint, Past) /\ Kept(job[u].savepoint, db)
        BY <1>0, <3>4 DEF CreditsKept
      <4> QED
        BY <2>5, <4>1, <4>2
    <3> QED
      BY <3>1, <3>3, <3>4
  <2>8. Kept(mine'[t], db') /\ job'[t] = Idle
    BY <1>a, <2>2
  <2>9. /\ \A u \in Txs : Kept(mine'[u], db')
        /\ \A u \in Txs : job'[u] # Idle => Kept(job'[u].savepoint, db')
    BY <2>7, <2>8
  <2> QED
    BY <2>6, <2>9 DEF CreditsKept
<1>5. ASSUME NEW t \in Txs, LockDoc(t)
      PROVE  CreditsKept'
  <2>1. /\ mine' = [mine EXCEPT ![t] = Over(Row(job[t].at, db[job[t].at]), mine[t])]
        /\ job' = job /\ db' = db /\ job[t] # Idle /\ job[t].at # NoDoc
        /\ job[t].at \notin DOMAIN mine[t]
    BY <1>5 DEF LockDoc
  <2>2. job[t].at \in Docs
    BY <2>1 DEF PaidInv, JobShape
  <2>3. Kept(mine[t], db)
    BY DEF CreditsKept
  <2>4. Kept(Over(Row(job[t].at, db[job[t].at]), mine[t]), db)
    BY <1>0, <2>1, <2>2, <2>3, KeptLocked
  <2>5. Kept(mine'[t], db)
        /\ \A u \in Txs \ {t} : mine'[u] = mine[u] /\ job'[u] = job[u]
    BY <1>0, <2>1, <2>4
  <2>6. job'[t] # Idle => Kept(job'[t].savepoint, db)
    BY <2>1 DEF CreditsKept
  <2> QED
    BY <2>1, <2>5, <2>6, OneKeeps
<1>6. ASSUME NEW t \in Txs, PayLine(t)
      PROVE  CreditsKept'
  <2> SUFFICES ASSUME NEW d, d = job[t].at,
                      NEW scope, scope = Scope(d, mine[t][d], Request(t)),
                      NEW takes, takes = Take(t, d, AmountPaid(t, scope)),
                      NEW picked, picked = Picked(t, d, AmountPaid(t, scope)),
                      NEW payment,
                      payment = PaymentOf(d, scope, AmountPaid(t, scope), takes, job[t])
               PROVE  CreditsKept'
    OBVIOUS
  <2>1. Pays(t, d, scope, takes, picked, payment)
    BY <1>6, LinePaid
  <2>2. job[t] # Idle /\ NextLine(t) /\ db' = db /\ \A u \in Txs \ {t} : mine'[u] = mine[u]
    BY <2>1 DEF Pays
  <2>3. Past' = Past
    BY <1>6, SamePast DEF PayLine
  <2>4. Kept(mine'[t], db)
    BY <2>1, <2>3, KeptPays
  <2>5. (\A u \in Txs \ {t} : job'[u] = job[u]) /\ job'[t].savepoint = mine'[t]
    BY <2>2, NextLineIs
  <2> QED
    BY <2>2, <2>4, <2>5, OneKeeps
<1>7. ASSUME NEW t \in Txs, RefuseLine(t)
      PROVE  CreditsKept'
  <2>0. db' = db /\ Past' = Past
    BY <1>7, SamePast DEF RefuseLine
  <2>1. CASE job[t].batch = NoBatch
    <3>1. mine' = [mine EXCEPT ![t] = << >>] /\ job' = [job EXCEPT ![t] = Idle]
      BY <1>7, <2>1 DEF RefuseLine
    <3>2. mine'[t] = << >> /\ job'[t] = Idle
          /\ \A u \in Txs \ {t} : mine'[u] = mine[u] /\ job'[u] = job[u]
      BY <1>0, <3>1
    <3> QED
      BY <1>a, <2>0, <3>2, OneKeeps
  <2>2. CASE job[t].batch # NoBatch
    <3>1. /\ mine' = [mine EXCEPT ![t] = WithLine(job[t].savepoint, t, "failed")]
          /\ NextLine(t) /\ job[t] # Idle
      BY <1>7, <2>2 DEF RefuseLine
    <3>2. /\ mine'[t] = WithLine(job[t].savepoint, t, "failed")
          /\ \A u \in Txs \ {t} : mine'[u] = mine[u]
      BY <1>0, <3>1
    <3>3. job[t].batch \in Batches
      BY <2>2, <3>1 DEF PaidInv, JobShape
    <3>4. /\ DOMAIN mine'[t] = DOMAIN job[t].savepoint
          /\ \A r \in DOMAIN job[t].savepoint : r \notin Batches =>
               mine'[t][r] = job[t].savepoint[r]
      BY <3>2, <3>3, OtherRowsSame
    <3>5. GoodRows(mine'[t], Past) /\ GoodRows(job[t].savepoint, Past)
          /\ Kept(job[t].savepoint, db)
      BY <1>0, <2>0, <3>1 DEF CreditsKept
    <3>6. Kept(mine'[t], db)
      BY <1>0, <3>4, <3>5, KeptAlike
    <3>7. (\A u \in Txs \ {t} : job'[u] = job[u]) /\ job'[t].savepoint = mine'[t]
      BY <3>1, NextLineIs
    <3> QED
      BY <2>0, <3>2, <3>6, <3>7, OneKeeps
  <2> QED
    BY <2>1, <2>2
<1>8. ASSUME NEW t \in Txs, NEW d, NEW order, ExecutePayment(t, d, order)
      PROVE  CreditsKept'
  <2>1. /\ mine' = mine /\ db' = db
        /\ job' = [job EXCEPT ![t] = [op |-> "pay", batch |-> NoBatch, todo |-> {d}, at |-> d,
              request |-> order.request, asked |-> order.asked, credits |-> order.credits,
              savepoint |-> << >>]]
    BY <1>8 DEF ExecutePayment
  <2>2. (\A u \in Txs \ {t} : job'[u] = job[u]) /\ job'[t].savepoint = << >>
    BY <2>1, StartIs
  <2>3. Kept(mine'[t], db)
    BY <2>1 DEF CreditsKept
  <2> QED
    BY <1>a, <2>1, <2>2, <2>3, OneKeeps
<1>9. ASSUME NEW t \in Txs, NEW b \in Batches, NEW credits, ExecuteBatch(t, b, credits)
      PROVE  CreditsKept'
  <2>1. PICK d \in DOMAIN db[b].lines : job' = [job EXCEPT ![t] =
           [op |-> "pay", batch |-> b, todo |-> DOMAIN db[b].lines, at |-> d,
            request |-> Whole, asked |-> AsDue, credits |-> credits,
            savepoint |-> Row(b, db[b])]]
    BY <1>9 DEF ExecuteBatch
  <2>2. mine' = [mine EXCEPT ![t] = Row(b, db[b])] /\ db' = db
    BY <1>9 DEF ExecuteBatch
  <2>3. (\A u \in Txs \ {t} : job'[u] = job[u]) /\ job'[t].savepoint = Row(b, db[b])
    BY <2>1, StartIs
  <2>4. Kept(Row(b, db[b]), db)
    <3>1. DOMAIN Row(b, db[b]) \subseteq Batches
      BY DEF Row
    <3> QED
      BY <3>1, KeptNothing
  <2>5. mine'[t] = Row(b, db[b]) /\ \A u \in Txs \ {t} : mine'[u] = mine[u]
    BY <1>0, <2>2
  <2> QED
    BY <2>2, <2>3, <2>4, <2>5, OneKeeps
<1> QED
  BY <1>1, <1>2, <1>3, <1>4, <1>5, <1>6, <1>7, <1>8, <1>9
     DEF Next, Start, Proceed, Crash, DeadlockVictim

-----------------------------------------------------------------------------
LEMMA InitKept == Init => CreditsKept
<1> SUFFICES ASSUME Init PROVE CreditsKept
  OBVIOUS
<1>1. /\ \A t \in Txs : mine[t] = << >> /\ job[t] = Idle
  BY DEF Init
<1>3. \A t \in Txs : Kept(mine[t], db) /\ (job[t] # Idle => Kept(job[t].savepoint, db))
  BY <1>1, NoRows, KeptNothing
<1>4. ASSUME NEW c \in CreditSet PROVE Balanced(db, c)
  <2>1. \A d \in Pas : db[d].payments = << >> /\ db[d].payments \in Seq(Payment)
    BY Tables, NothingPaid DEF Init
  <2>2. db[c] = [status |-> "available", left |-> Face[c]]
    BY Tables DEF Init
  <2> DEFINE w == [d \in Docs |-> TakenBy(db[d].payments, c)]
  <2>3. \A d \in Pas : w[d] = 0
    <3>1. TakenBy(<< >>, c) = 0
      <4>1. << >> \in Seq(Payment) /\ DOMAIN << >> = {}
        BY NothingPaid, NoRows
      <4> QED
        BY <4>1, TakenType, SumEmpty
    <3> QED
      BY <2>1, <3>1, Tables
  <2> HIDE DEF w
  <2>4. SumOf(w, Pas) = 0
    BY <2>3, RowAssumption, SumZero
  <2>5. Face[c] \in Nat
    BY CreditAssumption DEF CreditSet
  <2> QED
    BY <2>2, <2>4, <2>5 DEF Balanced, TakenIn, w
<1> QED
  BY <1>3, <1>4 DEF CreditsKept

(* What the invariant says of the committed credits.                       *)
LEMMA CreditsOk ==
  ASSUME PaidInv, CreditsKept
  PROVE  CreditsConserved
<1> SUFFICES ASSUME NEW c \in CreditSet
             PROVE  /\ db[c].left + Taken(c) = Face[c]
                    /\ db[c].status = "exhausted" <=> db[c].left = 0
                    /\ db[c].status = "void" => Taken(c) = 0
  BY DEF CreditsConserved
<1>1. CreditOk(c, db[c]) /\ c \in Rows /\ Table(db, Past)
  BY Tables DEF PaidInv, GoodRows, GoodRow, Table
<1>2. \A d \in Pas : db[d].payments \in Seq(Payment)
  BY <1>1, TablePays DEF PaysIn
<1> DEFINE w == [d \in Docs |-> TakenBy(db[d].payments, c)]
<1>3. \A d \in Pas : w[d] \in Int
  BY <1>2, TakenType, Tables
<1>4. Taken(c) = SumFunctionOnSet(w, Pas) /\ TakenIn(db, c) = SumOf(w, Pas)
  BY DEF Taken, TakenIn
<1> HIDE DEF w
<1>5. SumFunctionOnSet(w, Pas) = SumOf(w, Pas) /\ SumOf(w, Pas) \in Int
  BY <1>3, RowAssumption, FoldIsSum, SumInt
<1>6. Taken(c) = TakenIn(db, c) /\ Taken(c) \in Int
  BY <1>4, <1>5
<1>7. db[c].left + Taken(c) = Face[c]
  BY <1>6 DEF CreditsKept, Balanced
<1>8. /\ db[c].left \in Nat
      /\ db[c].status = "exhausted" <=> db[c].left = 0
      /\ db[c].status = "void" => db[c].left = Face[c]
  BY <1>1 DEF CreditOk, CreditRow
<1> QED
  BY <1>6, <1>7, <1>8

LEMMA CreditsAlways == Spec => [](PaidInv /\ CreditsKept)
<1>1. PaidInv /\ EditedPa /\ LocksApart /\ PaidInv' /\ CreditsKept /\ [Next]_vars
        => CreditsKept'
  BY CreditsStayKept
<1> QED
  BY PaidAlways, InitKept, <1>1, PTL DEF Spec

(* What payments took off a credit is what it has lost, and a credit that  *)
(* was used is not voided: payments write a credit they have locked, so    *)
(* concurrent ones never both spend what one of them read.                 *)
THEOREM CreditsAreConserved == Spec => []CreditsConserved
BY CreditsAlways, CreditsOk, PTL

-----------------------------------------------------------------------------
(* The lines of a batch.  What they tell is true of the committed rows     *)
(* when the batch is executed; until then it is true of the rows of the    *)
(* transaction that executes it, and of those of its savepoint, against    *)
(* the committed payments.                                                 *)

Made(payments, b) == {k \in DOMAIN payments : payments[k].batch = b}

Told(row, d) == d \in DOMAIN row.lines /\ row.lines[d].status = "paid"

(* A payment is of the amount its line shows, unless it pays the whole of  *)
(* a document edited since the draft: `drift` holds what was edited.       *)
AsShown(payment, d, line, drift) ==
  \/ payment.gross = line.amount
  \/ payment.invoices = Whole /\ ({d} \cup line.invoices) \cap drift # {}

Tells(payments, row, b, d, drift) ==
  IF row.status = "executed" /\ Told(row, d)
  THEN \E k \in DOMAIN payments :
         Made(payments, b) = {k} /\ AsShown(payments[k], d, row.lines[d], drift)
  ELSE Made(payments, b) = {}

(* A line drafted for the whole document is for what it is due; one for    *)
(* some of its invoices is for their amounts, if nothing was paid before.  *)
DraftLine(line, row, d, prices, drift) ==
  /\ line.status = "pending"
  /\ line.invoices = Whole /\ d \notin drift => line.amount = row.due
  /\ line.invoices # Whole /\ row.payments = << >> /\ line.invoices \cap drift = {} =>
       line.amount = SumFunctionOnSet(prices, line.invoices)

TrueDraft(table, b, prices, drift) ==
  table[b].status = "draft" =>
    \A d \in DOMAIN table[b].lines : DraftLine(table[b].lines[d], table[d], d, prices, drift)

(* A transaction adds one payment at most to those of a document. *)
Grown(new, old, b) ==
  new = old \/ \E x \in Payment : x.batch = b /\ new = Append(old, x)

PaidAs(new, old, b, d, line, drift) ==
  \E x \in Payment : new = Append(old, x) /\ x.batch = b /\ AsShown(x, d, line, drift)

RowsGrown(j, rows, table) ==
  /\ DOMAIN rows \cap Batches \subseteq {j.batch}
  /\ \A d \in Docs \cap DOMAIN rows : Grown(rows[d].payments, table[d].payments, j.batch)
  /\ \A d \in j.todo \cap DOMAIN rows : rows[d].payments = table[d].payments

LinesTold(b, todo, rows, table, drift) ==
  /\ b \in DOMAIN rows /\ table[b].status = "draft"
  /\ DOMAIN rows[b].lines = DOMAIN table[b].lines /\ todo \subseteq DOMAIN table[b].lines
  /\ \A d \in DOMAIN table[b].lines :
       /\ rows[b].lines[d].invoices = table[b].lines[d].invoices
       /\ rows[b].lines[d].amount = table[b].lines[d].amount
  /\ \A d \in todo : rows[b].lines[d].status = "pending"
  /\ \A d \in Docs : Told(rows[b], d) =>
       d \in DOMAIN rows
         /\ PaidAs(rows[d].payments, table[d].payments, b, d, rows[b].lines[d], drift)
  /\ \A d \in Docs \cap DOMAIN rows : ~ Told(rows[b], d) => rows[d].payments = table[d].payments

RowsTell(j, rows, table, drifts) ==
  /\ RowsGrown(j, rows, table)
  /\ j.batch # NoBatch => LinesTold(j.batch, j.todo, rows, table, drifts[j.batch])

BatchesTell ==
  /\ \A b \in Batches, d \in Docs : Tells(db[d].payments, db[b], b, d, stale[b])
  /\ \A b \in Batches : TrueDraft(db, b, total, stale[b])
  /\ \A t \in Txs : job[t] # Idle =>
       /\ job[t].at \in job[t].todo \cup {NoDoc}
       /\ RowsTell(job[t], mine[t], db, stale)
       /\ RowsTell(job[t], job[t].savepoint, db, stale)

(* A payment more: those made by its batch are one more. *)
OneMore(new, old, x, b) ==
  /\ Made(new, b) = Made(old, b) \cup (IF x.batch = b THEN {Len(old) + 1} ELSE {})
  /\ \A k \in Made(old, b) : new[k] = old[k]
  /\ DOMAIN old \subseteq DOMAIN new
  /\ Len(old) + 1 \in DOMAIN new
  /\ new[Len(old) + 1] = x

LEMMA MadeAppend ==
  ASSUME NEW old \in Seq(Payment), NEW x \in Payment, NEW b, NEW new, new = Append(old, x)
  PROVE  OneMore(new, old, x, b)
<1> DEFINE n == Len(old)
<1>1. /\ n \in Nat /\ DOMAIN old = 1 .. n
      /\ DOMAIN new = 1 .. n + 1 /\ new[n + 1] = x
      /\ \A k \in 1 .. n : new[k] = old[k]
  BY AppendProperties, LenProperties
<1>2. 1 .. n + 1 = (1 .. n) \cup {n + 1} /\ n + 1 \notin 1 .. n
  BY <1>1
<1> HIDE DEF n
<1>3. Made(new, b) = Made(old, b) \cup (IF x.batch = b THEN {n + 1} ELSE {})
  BY <1>1, <1>2 DEF Made
<1> QED
  BY <1>1, <1>2, <1>3 DEF n, Made, OneMore

(* What a batch tells is not changed by the payments of others.            *)
LEMMA TellsGrown ==
  ASSUME NEW old \in Seq(Payment), NEW new, NEW by, Grown(new, old, by),
         NEW b, b # by, NEW row, NEW d, NEW drift, Tells(old, row, b, d, drift)
  PROVE  Tells(new, row, b, d, drift)
<1>1. CASE new = old
  BY <1>1
<1>2. ASSUME NEW x \in Payment, x.batch = by, new = Append(old, x)
      PROVE  Tells(new, row, b, d, drift)
  <2>1. /\ Made(new, b) = Made(old, b)
        /\ \A k \in Made(old, b) : new[k] = old[k]
        /\ DOMAIN old \subseteq DOMAIN new
    <3>1. OneMore(new, old, x, b)
      BY <1>2, MadeAppend
    <3>2. x.batch # b
      BY <1>2
    <3> QED
      BY <3>1, <3>2 DEF OneMore
  <2>2. CASE row.status = "executed" /\ Told(row, d)
    <3>1. PICK k \in DOMAIN old :
            Made(old, b) = {k} /\ AsShown(old[k], d, row.lines[d], drift)
      BY <2>2 DEF Tells
    <3>2. k \in DOMAIN new /\ Made(new, b) = {k} /\ AsShown(new[k], d, row.lines[d], drift)
      BY <2>1, <3>1
    <3> QED
      BY <2>2, <3>2 DEF Tells
  <2>3. CASE ~ (row.status = "executed" /\ Told(row, d))
    BY <2>1, <2>3 DEF Tells
  <2> QED
    BY <2>2, <2>3
<1> QED
  BY <1>1, <1>2 DEF Grown

(* Its own payment is what its paid line tells. *)
LEMMA TellsPaid ==
  ASSUME NEW old \in Seq(Payment), NEW new, NEW b, NEW row, NEW d, NEW drift,
         Made(old, b) = {}, PaidAs(new, old, b, d, row.lines[d], drift),
         row.status = "executed", Told(row, d)
  PROVE  Tells(new, row, b, d, drift)
<1>1. PICK x \in Payment :
        new = Append(old, x) /\ x.batch = b /\ AsShown(x, d, row.lines[d], drift)
  BY DEF PaidAs
<1>2. /\ Made(new, b) = {Len(old) + 1} /\ Len(old) + 1 \in DOMAIN new
      /\ new[Len(old) + 1] = x
  <2>1. OneMore(new, old, x, b)
    BY <1>1, MadeAppend
  <2> QED
    BY <1>1, <2>1 DEF OneMore
<1> QED
  BY <1>1, <1>2 DEF Tells

(* More may have been edited; the line's outcome is not compared.          *)
LEMMA PaidAsStill ==
  ASSUME NEW drift, NEW more, drift \subseteq more, NEW new, NEW old, NEW b, NEW d,
         NEW line, NEW same, same.amount = line.amount, same.invoices = line.invoices,
         PaidAs(new, old, b, d, line, drift)
  PROVE  PaidAs(new, old, b, d, same, more)
<1>1. \A x : AsShown(x, d, line, drift) => AsShown(x, d, same, more)
  BY DEF AsShown
<1> QED
  BY <1>1 DEF PaidAs

LEMMA TellsStill ==
  ASSUME NEW drift, NEW more, drift \subseteq more, NEW payments, NEW row, NEW b, NEW d,
         Tells(payments, row, b, d, drift)
  PROVE  Tells(payments, row, b, d, more)
<1>1. \A x, line : AsShown(x, d, line, drift) => AsShown(x, d, line, more)
  BY DEF AsShown
<1> QED
  BY <1>1 DEF Tells

(* The rows of a transaction are compared with committed ones it has       *)
(* locked.                                                                 *)
LEMMA TellsElsewhere ==
  ASSUME NEW j, NEW rows, NEW f, NEW g, NEW drifts, NEW more, RowsTell(j, rows, f, drifts),
         \A d \in Docs \cap DOMAIN rows : g[d].payments = f[d].payments,
         \A b \in Batches \cap DOMAIN rows : g[b] = f[b],
         \A b \in Batches : drifts[b] \subseteq more[b],
         j.batch \in Batches \cup {NoBatch}, j.todo \subseteq Docs
  PROVE  RowsTell(j, rows, g, more)
<1>1. RowsGrown(j, rows, g)
  BY DEF RowsTell, RowsGrown
<1>2. ASSUME j.batch # NoBatch
      PROVE  LinesTold(j.batch, j.todo, rows, g, more[j.batch])
  <2>1. LinesTold(j.batch, j.todo, rows, f, drifts[j.batch]) /\ j.batch \in Batches
    BY <1>2 DEF RowsTell
  <2>2. j.batch \in DOMAIN rows /\ g[j.batch] = f[j.batch]
    BY <2>1 DEF LinesTold
  <2>3. drifts[j.batch] \subseteq more[j.batch]
    BY <2>1
  <2> QED
    BY <2>1, <2>2, <2>3, PaidAsStill DEF LinesTold
<1> QED
  BY <1>1, <1>2 DEF RowsTell

(* What a part of a document costs: its invoices, unless it is the last.   *)
SplitAmount(row, scope) ==
  \/ \E k \in DOMAIN row.payments : row.payments[k].invoices # Whole
  \/ scope.gross = SumFunctionOnSet(total, scope.invoices)

LEMMA ScopeSplitAmount ==
  ASSUME NEW d, NEW row, NEW request,
         Scope(d, row, request).ok, Scope(d, row, request).invoices # Whole
  PROVE  SplitAmount(row, Scope(d, row, request))
BY ScopeSplit DEF SplitAmount

(* A line drafted now is a true one. *)
LEMMA DraftedLine ==
  ASSUME NEW d \in Docs, NEW row \in DocRow, NEW request, Scope(d, row, request).ok,
         NEW line, line.invoices = Scope(d, row, request).invoices,
         line.amount = Scope(d, row, request).gross, line.status = "pending", NEW drift
  PROVE  DraftLine(line, row, d, total, drift)
<1>1. ASSUME line.invoices = Whole PROVE line.amount = row.due
  BY <1>1, ScopeWhole, ZenonT(40)
<1>2. ASSUME line.invoices # Whole, row.payments = << >>
      PROVE  line.amount = SumFunctionOnSet(total, line.invoices)
  <2>1. DOMAIN row.payments = {}
    BY <1>2, NoRows
  <2>2. Scope(d, row, request).invoices # Whole
    BY <1>2
  <2>3. SplitAmount(row, Scope(d, row, request))
    BY <2>2, ScopeSplitAmount, Zenon
  <2> QED
    BY <1>2, <2>1, <2>3 DEF SplitAmount
<1> QED
  BY <1>1, <1>2 DEF DraftLine

(* A line that is paid is paid as it was drafted, or else it is a whole    *)
(* document edited since.                                                  *)
LEMMA PaidAsDrafted ==
  ASSUME NEW d \in Docs, NEW row \in DocRow, NEW line, NEW drift,
         DraftLine(line, row, d, total, drift),
         Payable(d, row, line.invoices, {line.amount}),
         NEW scope, scope = Scope(d, row, line.invoices),
         NEW payment, payment.gross = scope.gross, payment.invoices = scope.invoices
  PROVE  AsShown(payment, d, line, drift)
<1> SUFFICES ASSUME NEW request, request = line.invoices, scope = Scope(d, row, request)
             PROVE  AsShown(payment, d, line, drift)
  OBVIOUS
<1>1. NeverPaidWhole(row) /\ scope.ok /\ AsExpected(scope, {line.amount})
  BY DEF Payable
<1>2. CASE scope.invoices # Whole
  BY <1>1, <1>2 DEF AsExpected, AsShown
<1>3. CASE scope.invoices = Whole
  <2>1. /\ \A k \in DOMAIN row.payments : row.payments[k].invoices = Whole
        /\ scope.gross = row.due
        /\ request # Whole => Splits(d, row) /\ request = row.links
    <3>1. Scope(d, row, request).ok /\ Scope(d, row, request).invoices = Whole
      BY <1>1, <1>3
    <3>2. /\ \A k \in DOMAIN row.payments : row.payments[k].invoices = Whole
          /\ Scope(d, row, request).gross = row.due
          /\ request # Whole => Splits(d, row) /\ request = row.links
      BY <3>1, ScopeWhole, ZenonT(40)
    <3>3. scope.gross = Scope(d, row, request).gross
      OBVIOUS
    <3>4. scope.gross = row.due
      BY <3>2, <3>3
    <3> QED
      BY <3>2, <3>4, Zenon
  <2>2. CASE request = Whole
    BY <1>3, <2>1, <2>2 DEF DraftLine, AsShown
  <2>3. CASE request # Whole
    <3>1. DOMAIN row.payments = {}
      BY <1>1, <2>1 DEF NeverPaidWhole
    <3>2. row.payments = << >>
      BY <3>1, NothingPaid DEF DocRow
    <3>3. SumFunctionOnSet(total, row.links) = row.due /\ request = row.links
      BY <2>1, <2>3 DEF Splits
    <3> QED
      BY <1>3, <2>1, <2>3, <3>2, <3>3 DEF DraftLine, AsShown
  <2> QED
    BY <2>2, <2>3
<1> QED
  BY <1>2, <1>3

-----------------------------------------------------------------------------
(* The outcome of a line is all that is written in a batch.                *)
LineWritten(new, row, d, outcome) ==
  /\ DOMAIN new.lines = DOMAIN row.lines /\ new.status = row.status
  /\ \A e \in DOMAIN row.lines :
       /\ new.lines[e].invoices = row.lines[e].invoices
       /\ new.lines[e].amount = row.lines[e].amount
       /\ e # d => new.lines[e].status = row.lines[e].status
  /\ new.lines[d].status = outcome

LEMMA OutcomeWritten ==
  ASSUME NEW row, BatchOk(row), NEW d \in DOMAIN row.lines, NEW outcome,
         NEW new, new = [row EXCEPT !.lines[d].status = outcome]
  PROVE  LineWritten(new, row, d, outcome)
<1>1. row \in [status : BatchStatus, lines : {row.lines}] /\ row.lines[d] \in BatchLine
  BY DEF BatchOk
<1>2. new.lines = [row.lines EXCEPT ![d] = [row.lines[d] EXCEPT !.status = outcome]]
      /\ new.status = row.status
  BY <1>1
<1>3. /\ [row.lines[d] EXCEPT !.status = outcome].invoices = row.lines[d].invoices
      /\ [row.lines[d] EXCEPT !.status = outcome].amount = row.lines[d].amount
      /\ [row.lines[d] EXCEPT !.status = outcome].status = outcome
  BY <1>1 DEF BatchLine
<1> QED
  BY <1>2, <1>3 DEF LineWritten

(* What the batch's row tells of the other lines is what it told.          *)
LEMMA TellNextLine ==
  ASSUME NEW table, NEW b, NEW todo, NEW rows, NEW drift,
         LinesTold(b, todo, rows, table, drift),
         NEW d \in todo, d \in Docs, NEW others, NEW outcome,
         b \in DOMAIN others, LineWritten(others[b], rows[b], d, outcome),
         \A e \in Docs \ {d} : e \in DOMAIN others <=> e \in DOMAIN rows,
         \A e \in (Docs \ {d}) \cap DOMAIN rows : others[e].payments = rows[e].payments,
         IF outcome = "paid"
         THEN /\ d \in DOMAIN others
              /\ PaidAs(others[d].payments, table[d].payments, b, d, rows[b].lines[d], drift)
         ELSE d \in DOMAIN others => others[d].payments = table[d].payments
  PROVE  LinesTold(b, todo \ {d}, others, table, drift)
<1>1. /\ b \in DOMAIN rows /\ table[b].status = "draft"
      /\ DOMAIN rows[b].lines = DOMAIN table[b].lines /\ todo \subseteq DOMAIN table[b].lines
      /\ \A e \in DOMAIN table[b].lines :
           /\ rows[b].lines[e].invoices = table[b].lines[e].invoices
           /\ rows[b].lines[e].amount = table[b].lines[e].amount
      /\ \A e \in todo : rows[b].lines[e].status = "pending"
      /\ \A e \in Docs : Told(rows[b], e) =>
           e \in DOMAIN rows
             /\ PaidAs(rows[e].payments, table[e].payments, b, e, rows[b].lines[e], drift)
      /\ \A e \in Docs \cap DOMAIN rows : ~ Told(rows[b], e) => rows[e].payments = table[e].payments
  BY DEF LinesTold
<1>2. /\ DOMAIN others[b].lines = DOMAIN rows[b].lines
      /\ \A e \in DOMAIN rows[b].lines :
           /\ others[b].lines[e].invoices = rows[b].lines[e].invoices
           /\ others[b].lines[e].amount = rows[b].lines[e].amount
           /\ e # d => others[b].lines[e].status = rows[b].lines[e].status
      /\ others[b].lines[d].status = outcome /\ d \in DOMAIN rows[b].lines
  BY <1>1 DEF LineWritten
<1>3. \A e \in Docs \ {d} : Told(others[b], e) <=> Told(rows[b], e)
  BY <1>2 DEF Told
<1>4. Told(others[b], d) <=> outcome = "paid"
  BY <1>2 DEF Told
<1>5. ASSUME NEW e \in Docs, Told(others[b], e)
      PROVE  e \in DOMAIN others
             /\ PaidAs(others[e].payments, table[e].payments, b, e, others[b].lines[e], drift)
  <2>1. CASE e = d
    <3>1. /\ others[b].lines[d].amount = rows[b].lines[d].amount
          /\ others[b].lines[d].invoices = rows[b].lines[d].invoices
      BY <1>2
    <3>2. d \in DOMAIN others
          /\ PaidAs(others[d].payments, table[d].payments, b, d, rows[b].lines[d], drift)
      BY <1>4, <1>5, <2>1
    <3> QED
      BY <2>1, <3>1, <3>2, PaidAsStill
  <2>2. CASE e # d
    <3>1. /\ e \in DOMAIN rows /\ e \in DOMAIN others
          /\ PaidAs(rows[e].payments, table[e].payments, b, e, rows[b].lines[e], drift)
          /\ others[e].payments = rows[e].payments
      BY <1>1, <1>3, <1>5, <2>2
    <3>2. /\ others[b].lines[e].amount = rows[b].lines[e].amount
          /\ others[b].lines[e].invoices = rows[b].lines[e].invoices
      BY <1>2, <1>5 DEF Told
    <3> QED
      BY <3>1, <3>2, PaidAsStill
  <2> QED
    BY <2>1, <2>2
<1>6. \A e \in Docs \cap DOMAIN others :
        ~ Told(others[b], e) => others[e].payments = table[e].payments
  BY <1>1, <1>3, <1>4
<1> QED
  BY <1>1, <1>2, <1>5, <1>6 DEF LinesTold

(* A document's row locked as it was committed tells nothing new.          *)
LEMMA LockedTells ==
  ASSUME NEW j, NEW rows, NEW table, NEW drifts,
         RowsTell(j, rows, table, drifts),
         NEW d \in Docs, d \notin DOMAIN rows, j.batch \in Batches \cup {NoBatch},
         NEW more, more = Over(Row(d, table[d]), rows)
  PROVE  RowsTell(j, more, table, drifts)
<1>1. /\ DOMAIN more = {d} \cup DOMAIN rows /\ more[d] = table[d] /\ d \notin Batches
      /\ \A r \in DOMAIN rows : more[r] = rows[r]
  BY Tables DEF Over, Row
<1>2. RowsGrown(j, more, table)
  BY <1>1 DEF RowsTell, RowsGrown, Grown
<1>3. ASSUME j.batch # NoBatch
      PROVE  LinesTold(j.batch, j.todo, more, table, drifts[j.batch])
  <2>1. LinesTold(j.batch, j.todo, rows, table, drifts[j.batch]) /\ j.batch \in DOMAIN rows
    BY <1>3 DEF RowsTell, LinesTold
  <2>2. more[j.batch] = rows[j.batch] /\ j.batch \in DOMAIN more
    BY <1>1, <2>1
  <2>3. \A e \in Docs : Told(more[j.batch], e) =>
           e \in DOMAIN more
             /\ PaidAs(more[e].payments, table[e].payments, j.batch, e,
                       more[j.batch].lines[e], drifts[j.batch])
    BY <1>1, <2>1, <2>2 DEF LinesTold
  <2>4. \A e \in Docs \cap DOMAIN more :
          ~ Told(more[j.batch], e) => more[e].payments = table[e].payments
    BY <1>1, <2>1, <2>2 DEF LinesTold
  <2> QED
    BY <2>1, <2>2, <2>3, <2>4 DEF LinesTold
<1> QED
  BY <1>2, <1>3 DEF RowsTell

(* One transaction writes: the others' rows tell what they told.           *)
LEMMA OneTells ==
  ASSUME BatchesTell, NEW t \in Txs, db' = db, UNCHANGED maintained,
         \A u \in Txs \ {t} : mine'[u] = mine[u] /\ job'[u] = job[u],
         job'[t] # Idle =>
           /\ job'[t].at \in job'[t].todo \cup {NoDoc}
           /\ RowsTell(job'[t], mine'[t], db, stale)
           /\ RowsTell(job'[t], job'[t].savepoint, db, stale)
  PROVE  BatchesTell'
BY DEF BatchesTell, maintained

(* Rows written outside the transactions: no payments, amounts that are    *)
(* recorded as edited since the drafts, and batches that nobody is         *)
(* executing and that made none.                                           *)
LEMMA DraftStill ==
  ASSUME PaidInv, NEW b \in Batches, TrueDraft(db, b, total, stale[b]),
         db'[b] = db[b], stale[b] \subseteq stale'[b],
         \A d \in Docs : db'[d].payments = db[d].payments,
         \A d \in Docs : db'[d].due # db[d].due /\ db[b].status = "draft" => d \in stale'[b],
         total' \in [Invoices -> Nat],
         \A i \in Invoices : total'[i] # total[i] /\ db[b].status = "draft" => i \in stale'[b]
  PROVE  TrueDraft(db', b, total', stale'[b])
<1> SUFFICES ASSUME db[b].status = "draft", NEW d \in DOMAIN db[b].lines,
                    NEW line, line = db[b].lines[d]
             PROVE  DraftLine(line, db'[d], d, total', stale'[b])
  BY DEF TrueDraft
<1>1. DraftLine(line, db[d], d, total, stale[b])
  BY DEF TrueDraft
<1>2. d \in Docs /\ line \in BatchLine /\ total \in [Invoices -> Nat]
  BY Tables DEF PaidInv, MaintainedOk, GoodRows, GoodRow, BatchOk
<1>3. line.invoices \cap stale'[b] = {} =>
        SumFunctionOnSet(total', line.invoices) = SumFunctionOnSet(total, line.invoices)
  <2> SUFFICES ASSUME line.invoices \cap stale'[b] = {}
               PROVE  SumFunctionOnSet(total', line.invoices)
                        = SumFunctionOnSet(total, line.invoices)
    OBVIOUS
  <2>1. line.invoices \in SUBSET Invoices
    BY <1>2 DEF BatchLine
  <2>2. \A i \in line.invoices : total'[i] = total[i]
    BY <2>1
  <2> QED
    BY <1>2, <2>1, <2>2, SameSums
<1> QED
  BY <1>1, <1>2, <1>3 DEF DraftLine

LEMMA QuietTells ==
  ASSUME PaidInv, LocksApart, BatchesTell,
         \A d \in Docs : db'[d].payments = db[d].payments,
         \A t \in Txs : mine'[t] = mine[t] /\ job'[t] = job[t],
         \A b \in Batches : stale[b] \subseteq stale'[b],
         \A b \in Batches :
           \/ db'[b] = db[b] /\ TrueDraft(db', b, total', stale'[b])
           \/ /\ Unlocked(b) /\ TrueDraft(db', b, total', stale'[b])
              /\ db[b].status # "executed" /\ db'[b].status # "executed"
  PROVE  BatchesTell'
<1>1. ASSUME NEW b \in Batches, NEW d \in Docs
      PROVE  Tells(db'[d].payments, db'[b], b, d, stale'[b])
  <2>1. Tells(db[d].payments, db[b], b, d, stale[b]) /\ stale[b] \subseteq stale'[b]
    BY DEF BatchesTell
  <2>2. Tells(db[d].payments, db[b], b, d, stale'[b])
    BY <2>1, TellsStill
  <2> QED
    BY <2>2 DEF Tells
<1>2. \A b \in Batches : TrueDraft(db', b, total', stale'[b])
  OBVIOUS
<1>3. ASSUME NEW t \in Txs, job[t] # Idle, NEW rows, DOMAIN rows \subseteq DOMAIN mine[t],
             RowsTell(job[t], rows, db, stale)
      PROVE  RowsTell(job[t], rows, db', stale')
  <2>1. \A b \in Batches \cap DOMAIN rows : db'[b] = db[b]
    BY <1>3 DEF Unlocked
  <2>2. job[t].batch \in Batches \cup {NoBatch} /\ job[t].todo \subseteq Docs
    BY <1>3 DEF PaidInv, JobShape
  <2> QED
    BY <1>3, <2>1, <2>2, TellsElsewhere
<1>4. \A t \in Txs : job[t] # Idle =>
        /\ job[t].at \in job[t].todo \cup {NoDoc}
        /\ RowsTell(job[t], mine[t], db', stale')
        /\ RowsTell(job[t], job[t].savepoint, db', stale')
  BY <1>3 DEF BatchesTell, LocksApart
<1> QED
  BY <1>1, <1>2, <1>4 DEF BatchesTell

-----------------------------------------------------------------------------
(* A batch somebody has locked is a draft. *)
LEMMA LockedIsDraft ==
  ASSUME LocksApart, BatchesTell, NEW b \in Batches, ~ Unlocked(b)
  PROVE  db[b].status = "draft"
<1>1. PICK t \in Txs : b \in DOMAIN mine[t]
  BY DEF Unlocked
<1>2. job[t] # Idle
  BY <1>1, NoRows DEF LocksApart
<1>3. b = job[t].batch /\ RowsTell(job[t], mine[t], db, stale)
  BY <1>1, <1>2 DEF BatchesTell, RowsTell, RowsGrown
<1> QED
  BY <1>3, RowAssumption DEF RowsTell, LinesTold

LEMMA DraftsTell ==
  ASSUME PaidInv, EditedPa, LocksApart, BatchesTell, Drafts
  PROVE  BatchesTell'
<1>0. /\ \A d \in Docs : db'[d].payments = db[d].payments
      /\ \A t \in Txs : mine'[t] = mine[t] /\ job'[t] = job[t]
      /\ total' = total /\ stale' = stale
  BY QuietRows DEF Drafts, CreateBatch, CancelBatch, maintained
<1>b. ASSUME NEW b \in Batches, \A r \in Rows \ {b} : db'[r] = db[r],
             Unlocked(b), TrueDraft(db', b, total, stale[b]),
             db[b].status # "executed", db'[b].status # "executed"
      PROVE  BatchesTell'
  <2>1. ASSUME NEW a \in Batches \ {b}
        PROVE  db'[a] = db[a] /\ TrueDraft(db', a, total', stale'[a])
    <3>1. db'[a] = db[a] /\ \A d \in Docs : db'[d] = db[d]
      BY <1>b, Tables
    <3>2. TrueDraft(db, a, total, stale[a]) /\ total \in [Invoices -> Nat]
      BY DEF BatchesTell, PaidInv, MaintainedOk
    <3> QED
      BY <1>0, <3>1, <3>2, DraftStill
  <2>2. TrueDraft(db', b, total', stale'[b])
    BY <1>0, <1>b
  <2>3. \A a \in Batches : stale[a] \subseteq stale'[a]
    BY <1>0
  <2> QED
    BY <1>0, <1>b, <2>1, <2>2, <2>3, QuietTells
<1>d. DOMAIN db = Rows /\ \A d \in Docs : db[d] \in DocRow
  BY RowsOk DEF DocOk, PaidInv
<1>1. ASSUME NEW b \in Batches, NEW requests \in Selections, CreateBatch(b, requests)
      PROVE  BatchesTell'
  <2>0. b \in Rows /\ b \notin Docs
    BY Tables
  <2>1. db' = [db EXCEPT ![b] = [status |-> "draft",
          lines |-> [d \in DOMAIN requests |->
            [invoices |-> Scope(d, db[d], requests[d]).invoices,
             amount |-> Scope(d, db[d], requests[d]).gross, status |-> "pending"]]]]
        /\ db[b].status = "none"
        /\ \A d \in DOMAIN requests : Scope(d, db[d], requests[d]).ok
    BY <1>1 DEF CreateBatch
  <2>2. db'[b] = [status |-> "draft",
          lines |-> [d \in DOMAIN requests |->
            [invoices |-> Scope(d, db[d], requests[d]).invoices,
             amount |-> Scope(d, db[d], requests[d]).gross, status |-> "pending"]]]
        /\ \A x \in Rows \ {b} : db'[x] = db[x]
    BY <1>d, <2>0, <2>1
  <2>3. DOMAIN requests \subseteq Docs
    BY DEF Selections
  <2>4. TrueDraft(db', b, total, stale[b])
    <3>1. DOMAIN db'[b].lines = DOMAIN requests
      BY <2>2
    <3>2. ASSUME NEW d \in DOMAIN requests
          PROVE  DraftLine(db'[b].lines[d], db'[d], d, total, stale[b])
      <4>1. /\ db'[b].lines[d].invoices = Scope(d, db[d], requests[d]).invoices
            /\ db'[b].lines[d].amount = Scope(d, db[d], requests[d]).gross
            /\ db'[b].lines[d].status = "pending"
        BY <2>2
      <4>2. d \in Docs /\ db[d] \in DocRow /\ Scope(d, db[d], requests[d]).ok
        BY <1>d, <2>1, <2>3
      <4>3. DraftLine(db'[b].lines[d], db[d], d, total, stale[b])
        BY <4>1, <4>2, DraftedLine
      <4>4. db'[d] = db[d]
        BY <2>2, <4>2, Tables
      <4> QED
        BY <4>3, <4>4
    <3> QED
      BY <3>1, <3>2 DEF TrueDraft
  <2>5. Unlocked(b)
    BY <2>1, LockedIsDraft
  <2>6. db'[b].status = "draft"
    BY <2>2
  <2> QED
    BY <1>b, <2>1, <2>2, <2>4, <2>5, <2>6
<1>2. ASSUME NEW b \in Batches, CancelBatch(b)
      PROVE  BatchesTell'
  <2>0. b \in Rows /\ db[b] \in [status : BatchStatus, lines : {db[b].lines}]
    BY Tables DEF PaidInv, GoodRows, GoodRow, BatchOk
  <2>1. db' = [db EXCEPT ![b] = [db[b] EXCEPT !.status = "cancelled"]]
        /\ db[b].status = "draft" /\ Unlocked(b)
    BY <1>2 DEF CancelBatch
  <2>2. db'[b].status = "cancelled" /\ \A x \in Rows \ {b} : db'[x] = db[x]
    BY <1>d, <2>0, <2>1
  <2>3. TrueDraft(db', b, total, stale[b])
    BY <2>2 DEF TrueDraft
  <2> QED
    BY <1>b, <2>1, <2>2, <2>3
<1> QED
  BY <1>1, <1>2 DEF Drafts

LEMMA MaintenanceTells ==
  ASSUME PaidInv, PaidInv', EditedPa, LocksApart, BatchesTell,
         Maintenance \/ \E c \in CreditSet : VoidCredit(c)
  PROVE  BatchesTell'
<1>0. /\ \A d \in Docs : db'[d].payments = db[d].payments
      /\ \A t \in Txs : mine'[t] = mine[t] /\ job'[t] = job[t]
      /\ DOMAIN db = Rows /\ \A d \in Docs : db[d] \in DocRow
      /\ total \in [Invoices -> Nat] /\ total' \in [Invoices -> Nat]
  BY QuietRows, RowsOk DEF DocOk, PaidInv, MaintainedOk
<1>1. ASSUME \A b \in Batches : db'[b] = db[b] /\ stale[b] \subseteq stale'[b],
             \A d \in Docs, b \in Batches :
               db'[d].due # db[d].due /\ db[b].status = "draft" => d \in stale'[b],
             \A i \in Invoices, b \in Batches :
               total'[i] # total[i] /\ db[b].status = "draft" => i \in stale'[b]
      PROVE  BatchesTell'
  <2>1. ASSUME NEW b \in Batches
        PROVE  TrueDraft(db', b, total', stale'[b])
    <3>1. TrueDraft(db, b, total, stale[b])
      BY DEF BatchesTell
    <3> QED
      BY <1>0, <1>1, <3>1, DraftStill
  <2> QED
    BY <1>0, <1>1, <2>1, QuietTells
<1>2. ASSUME NEW r \in Docs \cup CreditSet, NEW new, db' = [db EXCEPT ![r] = new]
      PROVE  /\ \A b \in Batches : db'[b] = db[b]
             /\ \A d \in Docs \ {r} : db'[d] = db[d]
             /\ db'[r] = new
  BY <1>0, <1>2, Tables
<1>3. ASSUME NEW r \in Docs \cup CreditSet, NEW new, db' = [db EXCEPT ![r] = new],
             r \in Docs => new.due = db[r].due, UNCHANGED <<total, stale>>
      PROVE  BatchesTell'
  <2>1. \A d \in Docs : db'[d].due = db[d].due
    BY <1>2, <1>3
  <2> QED
    BY <1>1, <1>2, <1>3, <2>1
<1>4. edit.pc = "write" \/ edit.pc = "replay" => edit.pa \in Docs
  BY Tables DEF EditedPa, NoEdit
<1>5. ASSUME NEW c \in CreditSet, VoidCredit(c)
      PROVE  BatchesTell'
  BY <1>3, <1>5, Tables DEF VoidCredit, maintained
<1>6. ASSUME NEW d \in Docs, Reapprove(d)
      PROVE  BatchesTell'
  <2>1. [db[d] EXCEPT !.status = "approved"].due = db[d].due
    BY <1>0 DEF DocRow
  <2> QED
    BY <1>3, <1>6, <2>1 DEF Reapprove
<1>7. ASSUME NEW d \in Docs, CloseByHand(d)
      PROVE  BatchesTell'
  <2>1. [db[d] EXCEPT !.status = PaidStatus(d)].due = db[d].due
    BY <1>0 DEF DocRow
  <2> QED
    BY <1>3, <1>7, <2>1 DEF CloseByHand
<1>8. CASE EditWrite
  <2>1. edit.pa \in Docs /\ [db[edit.pa] EXCEPT !.links = edit.links].due = db[edit.pa].due
    BY <1>0, <1>4, <1>8 DEF EditWrite, DocRow
  <2> QED
    BY <1>3, <1>8, <2>1 DEF EditWrite
<1>9. CASE EditReplay
  <2> DEFINE closed == IF db[edit.pa].status = "processed"
                       THEN db[edit.pa].closed \cup db[edit.pa].links ELSE db[edit.pa].closed
  <2>1. edit.pa \in Docs /\ [db[edit.pa] EXCEPT !.closed = closed].due = db[edit.pa].due
    BY <1>0, <1>4, <1>9 DEF EditReplay, DocRow
  <2>2. db' = [db EXCEPT ![edit.pa] = [db[edit.pa] EXCEPT !.closed = closed]]
        /\ UNCHANGED <<total, stale>>
    BY <1>9 DEF EditReplay
  <2> HIDE DEF closed
  <2> QED
    BY <1>3, <2>1, <2>2
<1>d. ASSUME NEW item, stale' = Drifted(item)
      PROVE  \A b \in Batches : /\ stale[b] \subseteq stale'[b]
                                /\ db[b].status = "draft" => item \in stale'[b]
  BY <1>d DEF Drifted
<1>10. ASSUME NEW d \in Docs, NEW n, Reprice(d, n)
       PROVE  BatchesTell'
  <2>1. db' = [db EXCEPT ![d] = [db[d] EXCEPT !.due = n]] /\ stale' = Drifted(d)
        /\ total' = total
    BY <1>10 DEF Reprice
  <2>2. \A e \in Docs : e # d => db'[e].due = db[e].due
    BY <1>2, <2>1
  <2> QED
    BY <1>1, <1>2, <1>d, <2>1, <2>2
<1>11. ASSUME NEW i \in Invoices, NEW n, EditTotal(i, n)
       PROVE  BatchesTell'
  <2>1. total' = [total EXCEPT ![i] = n] /\ stale' = Drifted(i) /\ db' = db
    BY <1>11 DEF EditTotal
  <2>2. \A x \in Invoices : x # i => total'[x] = total[x]
    BY <1>0, <2>1
  <2> QED
    BY <1>1, <1>d, <2>1, <2>2
<1>12. ASSUME NEW p, NEW links, EditRead(p, links)
       PROVE  BatchesTell'
  BY <1>1, <1>12 DEF EditRead
<1> QED
  BY <1>5, <1>6, <1>7, <1>8, <1>9, <1>10, <1>11, <1>12 DEF Maintenance

LEMMA PayLineTells ==
  ASSUME PaidInv, LocksApart, HeldAlike, BatchesTell, NEW t \in Txs, PayLine(t)
  PROVE  BatchesTell'
<1> SUFFICES ASSUME NEW d, d = job[t].at,
                    NEW scope, scope = Scope(d, mine[t][d], Request(t)),
                    NEW takes, takes = Take(t, d, AmountPaid(t, scope)),
                    NEW picked, picked = Picked(t, d, AmountPaid(t, scope)),
                    NEW payment,
                    payment = PaymentOf(d, scope, AmountPaid(t, scope), takes, job[t]),
                    NEW b, b = job[t].batch
             PROVE  BatchesTell'
  OBVIOUS
<1>1. Pays(t, d, scope, takes, picked, payment)
  BY LinePaid
<1>2. /\ job[t] # Idle /\ d \in Docs /\ d \in DOMAIN mine[t] /\ NextLine(t)
      /\ mine[t][d] \in DocRow /\ Payable(d, mine[t][d], Request(t), Expected(t))
      /\ picked \subseteq CreditSet
      /\ db' = db /\ \A u \in Txs \ {t} : mine'[u] = mine[u]
      /\ DOMAIN mine'[t] = DOMAIN mine[t] \cup picked
      /\ payment \in Payment /\ mine'[t][d].payments = Append(mine[t][d].payments, payment)
      /\ \A e \in DOMAIN mine[t] \ ({d} \cup picked) : e \notin Batches => mine'[t][e] = mine[t][e]
      /\ b \in Batches /\ b \in DOMAIN mine[t] =>
           mine'[t][b] = [mine[t][b] EXCEPT !.lines[d].status = "paid"]
  BY <1>1 DEF Pays, PaidColumns
<1>3. payment.batch = b /\ payment.gross = AmountPaid(t, scope)
      /\ payment.invoices = scope.invoices /\ UNCHANGED maintained
  BY DEF PaymentOf, PayLine
<1>4. /\ \A u \in Txs \ {t} : job'[u] = job[u]
      /\ job'[t].savepoint = mine'[t] /\ job'[t].batch = b
      /\ job'[t].todo = job[t].todo \ {d}
      /\ job'[t].at \in job'[t].todo \cup {NoDoc}
  BY <1>2, NextLineIs
<1>5. b \in Batches \cup {NoBatch} /\ job[t].todo \subseteq Docs
  BY <1>2 DEF PaidInv, JobShape
<1>6. d \in job[t].todo /\ RowsTell(job[t], mine[t], db, stale) /\ RowsGrown(job[t], mine[t], db)
  BY <1>2, RowAssumption DEF BatchesTell, RowsTell, Docs
<1>7. mine[t][d].payments = db[d].payments
  BY <1>2, <1>6 DEF RowsGrown
<1>8. \A e \in Docs \ {d} : e \in DOMAIN mine'[t] <=> e \in DOMAIN mine[t]
  BY <1>2, Tables
<1>9. \A e \in (Docs \ {d}) \cap DOMAIN mine[t] : mine'[t][e].payments = mine[t][e].payments
  BY <1>2, Tables
<1>10. RowsGrown(job'[t], mine'[t], db)
  <2>1. DOMAIN mine'[t] \cap Batches \subseteq {b}
    BY <1>2, <1>6, Tables DEF RowsGrown
  <2>2. ASSUME NEW e \in Docs \cap DOMAIN mine'[t]
        PROVE  Grown(mine'[t][e].payments, db[e].payments, b)
    <3>1. CASE e = d
      BY <1>2, <1>3, <1>7, <3>1 DEF Grown
    <3>2. CASE e # d
      BY <1>6, <1>8, <1>9, <3>2 DEF RowsGrown
    <3> QED
      BY <3>1, <3>2
  <2>3. \A e \in job'[t].todo \cap DOMAIN mine'[t] : mine'[t][e].payments = db[e].payments
    BY <1>4, <1>5, <1>6, <1>8, <1>9 DEF RowsGrown
  <2> QED
    BY <1>4, <2>1, <2>2, <2>3 DEF RowsGrown
<1>11. ASSUME b # NoBatch
       PROVE  LinesTold(b, job[t].todo \ {d}, mine'[t], db, stale[b])
  <2>1. LinesTold(b, job[t].todo, mine[t], db, stale[b]) /\ b \in Batches
    BY <1>5, <1>6, <1>11 DEF RowsTell
  <2>2. /\ b \in DOMAIN mine[t] /\ d \in DOMAIN mine[t][b].lines /\ d \in DOMAIN db[b].lines
        /\ db[b].status = "draft"
        /\ mine[t][b].lines[d].invoices = db[b].lines[d].invoices
        /\ mine[t][b].lines[d].amount = db[b].lines[d].amount
    BY <1>6, <2>1 DEF LinesTold
  <2>3. b \in DOMAIN mine'[t] /\ LineWritten(mine'[t][b], mine[t][b], d, "paid")
    <3>1. BatchOk(mine[t][b])
      BY <2>1, <2>2, Tables DEF PaidInv, GoodRows, GoodRow
    <3> QED
      BY <1>2, <2>1, <2>2, <3>1, OutcomeWritten
  <2>4. AsShown(payment, d, mine[t][b].lines[d], stale[b])
    <3> SUFFICES ASSUME NEW line, line = mine[t][b].lines[d], NEW row, row = mine[t][d],
                        NEW drift, drift = stale[b]
                 PROVE  AsShown(payment, d, line, drift)
      OBVIOUS
    <3>1. Request(t) = line.invoices /\ Expected(t) = {line.amount}
      BY <1>11 DEF Request, Expected
    <3>2. DraftLine(db[b].lines[d], db[d], d, total, drift)
      BY <2>1, <2>2 DEF BatchesTell, TrueDraft
    <3>3. DraftLine(line, row, d, total, drift)
      <4>1. row.payments = db[d].payments /\ row.due = db[d].due
        BY <1>2, <1>7 DEF HeldAlike, AsCommitted
      <4>2. line.amount = db[b].lines[d].amount /\ line.invoices = db[b].lines[d].invoices
            /\ line.status = "pending"
        BY <1>6, <2>1, <2>2 DEF LinesTold
      <4> QED
        BY <3>2, <4>1, <4>2 DEF DraftLine
    <3>4. Payable(d, row, line.invoices, {line.amount}) /\ row \in DocRow /\ d \in Docs
      BY <1>2, <3>1
    <3>5. scope = Scope(d, row, line.invoices)
      BY <3>1
    <3>6. scope.gross \in Int /\ JobShape(job[t], Past)
      <4>1. Scope(d, row, line.invoices).ok /\ total \in [Invoices -> Nat]
        BY <3>4 DEF Payable, PaidInv, MaintainedOk
      <4>2. JobShape(job[t], Past)
        BY <1>2 DEF PaidInv
      <4> QED
        BY <3>4, <3>5, <4>1, <4>2, ScopeType
    <3>7. payment.gross = scope.gross
      <4>1. job[t].batch # NoBatch => AmountPaid(t, scope) = scope.gross
        BY <3>6, AmountGiven, Zenon
      <4> QED
        BY <1>3, <1>11, <4>1
    <3> QED
      BY <1>3, <3>3, <3>4, <3>5, <3>7, PaidAsDrafted, ZenonT(40)
  <2>5. PaidAs(mine'[t][d].payments, db[d].payments, b, d, mine[t][b].lines[d], stale[b])
    BY <1>2, <1>3, <1>7, <2>4 DEF PaidAs
  <2>6. d \in DOMAIN mine'[t]
    BY <1>2
  <2> QED
    BY <1>2, <1>6, <1>8, <1>9, <2>1, <2>3, <2>5, <2>6, TellNextLine
<1>12. RowsTell(job'[t], mine'[t], db, stale)
  BY <1>4, <1>10, <1>11 DEF RowsTell
<1> QED
  BY <1>2, <1>3, <1>4, <1>12, OneTells

-----------------------------------------------------------------------------
LEMMA LostTells ==
  ASSUME PaidInv, BatchesTell, NEW t \in Txs, Lost(t)
  PROVE  BatchesTell'
<1>1. /\ db' = db /\ job'[t] = Idle /\ UNCHANGED maintained
      /\ \A u \in Txs \ {t} : mine'[u] = mine[u] /\ job'[u] = job[u]
  BY DEF Lost, PaidInv
<1> QED
  BY <1>1, OneTells

LEMMA LockDocTells ==
  ASSUME PaidInv, LocksApart, BatchesTell, NEW t \in Txs, LockDoc(t)
  PROVE  BatchesTell'
<1>1. /\ mine' = [mine EXCEPT ![t] = Over(Row(job[t].at, db[job[t].at]), mine[t])]
      /\ job' = job /\ db' = db /\ job[t] # Idle /\ job[t].at # NoDoc
      /\ job[t].at \notin DOMAIN mine[t] /\ UNCHANGED maintained
  BY DEF LockDoc
<1>2. job[t].at \in Docs /\ job[t].batch \in Batches \cup {NoBatch}
  BY <1>1 DEF PaidInv, JobShape
<1>3. /\ mine'[t] = Over(Row(job[t].at, db[job[t].at]), mine[t])
      /\ \A u \in Txs \ {t} : mine'[u] = mine[u] /\ job'[u] = job[u]
  BY <1>1 DEF PaidInv
<1>4. /\ job[t].at \in job[t].todo \cup {NoDoc}
      /\ RowsTell(job[t], mine[t], db, stale)
      /\ RowsTell(job[t], job[t].savepoint, db, stale)
  BY <1>1 DEF BatchesTell
<1>5. RowsTell(job[t], mine'[t], db, stale)
  BY <1>1, <1>2, <1>3, <1>4, LockedTells
<1> QED
  BY <1>1, <1>3, <1>4, <1>5, OneTells

LEMMA RefuseLineTells ==
  ASSUME PaidInv, LocksApart, BatchesTell, NEW t \in Txs, RefuseLine(t)
  PROVE  BatchesTell'
<1>0. DOMAIN mine = Txs /\ DOMAIN job = Txs /\ db' = db /\ UNCHANGED maintained
  BY DEF PaidInv, RefuseLine
<1>1. CASE job[t].batch = NoBatch
  <2>1. mine' = [mine EXCEPT ![t] = << >>] /\ job' = [job EXCEPT ![t] = Idle]
    BY <1>1 DEF RefuseLine
  <2>2. job'[t] = Idle /\ \A u \in Txs \ {t} : mine'[u] = mine[u] /\ job'[u] = job[u]
    BY <1>0, <2>1
  <2> QED
    BY <1>0, <2>2, OneTells
<1>2. CASE job[t].batch # NoBatch
  <2> SUFFICES ASSUME NEW d, d = job[t].at, NEW b, b = job[t].batch,
                      NEW rows, rows = job[t].savepoint
               PROVE  BatchesTell'
    OBVIOUS
  <2>1. /\ mine' = [mine EXCEPT ![t] = WithLine(rows, t, "failed")]
        /\ NextLine(t) /\ job[t] # Idle /\ d # NoDoc
    BY <1>2 DEF RefuseLine
  <2>2. /\ mine'[t] = WithLine(rows, t, "failed")
        /\ \A u \in Txs \ {t} : mine'[u] = mine[u]
    BY <1>0, <2>1
  <2>3. b \in Batches /\ job[t].todo \subseteq Docs /\ GoodRows(rows, Past)
    BY <1>2, <2>1 DEF PaidInv, JobShape
  <2>4. d \in job[t].todo /\ d \in Docs /\ RowsTell(job[t], rows, db, stale)
    BY <2>1, <2>3 DEF BatchesTell
  <2>5. /\ LinesTold(b, job[t].todo, rows, db, stale[b]) /\ RowsGrown(job[t], rows, db)
        /\ b \in DOMAIN rows /\ d \in DOMAIN rows[b].lines
    BY <1>2, <2>4 DEF RowsTell, LinesTold
  <2>6. /\ DOMAIN mine'[t] = DOMAIN rows
        /\ \A r \in DOMAIN rows : r # b => mine'[t][r] = rows[r]
    BY <2>2, OtherRowsSame
  <2>7. mine'[t][b] = [rows[b] EXCEPT !.lines[d].status = "failed"]
    BY <1>2, <2>2, <2>5 DEF WithLine
  <2>8. LineWritten(mine'[t][b], rows[b], d, "failed")
    <3>1. BatchOk(rows[b])
      BY <2>3, <2>5, Tables DEF GoodRows, GoodRow
    <3> QED
      BY <2>5, <2>7, <3>1, OutcomeWritten
  <2>9. \A e \in Docs \cap DOMAIN rows : mine'[t][e] = rows[e]
    BY <2>3, <2>6, Tables
  <2>10. d \in DOMAIN rows => mine'[t][d].payments = db[d].payments
    BY <2>4, <2>5, <2>9 DEF RowsGrown
  <2>11. LinesTold(b, job[t].todo \ {d}, mine'[t], db, stale[b])
    <3> SUFFICES ASSUME NEW others, others = mine'[t], NEW drift, drift = stale[b],
                        NEW todo, todo = job[t].todo
                 PROVE  LinesTold(b, todo \ {d}, others, db, drift)
      OBVIOUS
    <3>1. /\ LinesTold(b, todo, rows, db, drift) /\ d \in todo /\ d \in Docs
          /\ b \in DOMAIN others /\ LineWritten(others[b], rows[b], d, "failed")
          /\ \A e \in Docs \ {d} : e \in DOMAIN others <=> e \in DOMAIN rows
          /\ \A e \in (Docs \ {d}) \cap DOMAIN rows : others[e].payments = rows[e].payments
          /\ d \in DOMAIN others => others[d].payments = db[d].payments
      BY <2>4, <2>5, <2>6, <2>8, <2>9, <2>10
    <3> QED
      BY <3>1, TellNextLine
  <2>12. /\ \A u \in Txs \ {t} : job'[u] = job[u]
         /\ job'[t].savepoint = mine'[t] /\ job'[t].batch = b
         /\ job'[t].todo = job[t].todo \ {d}
         /\ job'[t].at \in job'[t].todo \cup {NoDoc}
    BY <2>1, NextLineIs
  <2>13. RowsGrown(job'[t], mine'[t], db)
    <3>1. /\ DOMAIN rows \cap Batches \subseteq {b}
          /\ \A e \in Docs \cap DOMAIN rows : Grown(rows[e].payments, db[e].payments, b)
          /\ \A e \in job[t].todo \cap DOMAIN rows : rows[e].payments = db[e].payments
      BY <2>5 DEF RowsGrown
    <3>2. /\ DOMAIN mine'[t] \cap Batches \subseteq {b}
          /\ \A e \in Docs \cap DOMAIN mine'[t] :
               Grown(mine'[t][e].payments, db[e].payments, b)
      BY <2>6, <2>9, <3>1
    <3>3. \A e \in job'[t].todo \cap DOMAIN mine'[t] : mine'[t][e].payments = db[e].payments
      BY <2>3, <2>6, <2>9, <2>12, <3>1
    <3> QED
      BY <2>12, <3>2, <3>3 DEF RowsGrown
  <2>14. RowsTell(job'[t], mine'[t], db, stale)
    BY <2>11, <2>12, <2>13 DEF RowsTell
  <2> QED
    BY <1>0, <2>2, <2>12, <2>14, OneTells
<1> QED
  BY <1>1, <1>2

LEMMA StartTells ==
  ASSUME PaidInv, LocksApart, BatchesTell, NEW t \in Txs, Start(t)
  PROVE  BatchesTell'
<1>0. DOMAIN mine = Txs /\ DOMAIN job = Txs /\ UNCHANGED maintained
  BY DEF PaidInv, Start, ExecutePayment, ExecuteBatch
<1>1. ASSUME NEW d \in Docs, NEW order \in Orders[d], ExecutePayment(t, d, order)
      PROVE  BatchesTell'
  <2>1. /\ mine' = mine /\ db' = db /\ job[t] = Idle
        /\ job' = [job EXCEPT ![t] = [op |-> "pay", batch |-> NoBatch, todo |-> {d}, at |-> d,
              request |-> order.request, asked |-> order.asked, credits |-> order.credits,
              savepoint |-> << >>]]
    BY <1>1 DEF ExecutePayment
  <2>2. /\ \A u \in Txs \ {t} : job'[u] = job[u]
        /\ job'[t].savepoint = << >> /\ job'[t].batch = NoBatch
        /\ job'[t].todo = {d} /\ job'[t].at = d
    BY <2>1, StartIs
  <2>3. mine'[t] = << >>
    BY <2>1 DEF LocksApart
  <2>4. RowsTell(job'[t], << >>, db, stale)
    BY <2>2, NoRows DEF RowsTell, RowsGrown
  <2> QED
    BY <1>0, <2>1, <2>2, <2>3, <2>4, OneTells
<1>2. ASSUME NEW b \in Batches, NEW credits, ExecuteBatch(t, b, credits)
      PROVE  BatchesTell'
  <2> SUFFICES ASSUME NEW rows, rows = Row(b, db[b])
               PROVE  BatchesTell'
    OBVIOUS
  <2>1. PICK d \in DOMAIN db[b].lines : job' = [job EXCEPT ![t] =
           [op |-> "pay", batch |-> b, todo |-> DOMAIN db[b].lines, at |-> d,
            request |-> Whole, asked |-> AsDue, credits |-> credits,
            savepoint |-> rows]]
    BY <1>2 DEF ExecuteBatch
  <2>2. mine' = [mine EXCEPT ![t] = rows] /\ db' = db /\ db[b].status = "draft"
    BY <1>2 DEF ExecuteBatch
  <2>3. /\ \A u \in Txs \ {t} : job'[u] = job[u]
        /\ job'[t].savepoint = rows /\ job'[t].batch = b
        /\ job'[t].todo = DOMAIN db[b].lines /\ job'[t].at = d
    BY <2>1, StartIs, ZenonT(40)
  <2>4. mine'[t] = rows /\ \A u \in Txs \ {t} : mine'[u] = mine[u]
    BY <1>0, <2>2
  <2>5. DOMAIN rows = {b} /\ rows[b] = db[b] /\ b \notin Docs
    BY Tables DEF Row
  <2>6. \A e \in DOMAIN db[b].lines : db[b].lines[e].status = "pending"
    BY <2>2 DEF BatchesTell, TrueDraft, DraftLine
  <2>7. \A e : ~ Told(rows[b], e)
    BY <2>5, <2>6 DEF Told
  <2>8. LinesTold(b, DOMAIN db[b].lines, rows, db, stale[b])
    BY <2>2, <2>5, <2>6, <2>7 DEF LinesTold
  <2>9. RowsGrown(job'[t], rows, db)
    <3>1. DOMAIN db[b].lines \subseteq Docs
      BY Tables DEF PaidInv, GoodRows, GoodRow, BatchOk
    <3> QED
      BY <2>3, <2>5, <3>1 DEF RowsGrown
  <2>10. RowsTell(job'[t], rows, db, stale)
    BY <2>3, <2>8, <2>9 DEF RowsTell
  <2> QED
    BY <1>0, <2>2, <2>3, <2>4, <2>10, OneTells
<1> QED
  BY <1>1, <1>2 DEF Start

-----------------------------------------------------------------------------
(* What is committed: the rows held, the batch of them marked executed.    *)
Committing(done, t) ==
  /\ DOMAIN done = DOMAIN mine[t]
  /\ \A r \in DOMAIN mine[t] : r \notin Batches => done[r] = mine[t][r]
  /\ job[t].batch # NoBatch => /\ done[job[t].batch].status = "executed"
                               /\ done[job[t].batch].lines = mine[t][job[t].batch].lines

(* A batch that is committed tells what it paid; the payments of others    *)
(* leave what a batch tells, and what a draft shows, as it was.            *)
LEMMA CommittedTells ==
  ASSUME PaidInv, LocksApart, HeldAlike, BatchesTell, NEW t \in Txs, job[t] # Idle,
         NEW done, Committing(done, t), NEW b, b = job[t].batch,
         NEW table, table = Over(done, db)
  PROVE  /\ \A a \in Batches, d \in Docs : Tells(table[d].payments, table[a], a, d, stale[a])
         /\ \A a \in Batches : TrueDraft(table, a, total, stale[a])
<1>0. /\ DOMAIN done = DOMAIN mine[t]
      /\ \A r \in DOMAIN mine[t] : r \notin Batches => done[r] = mine[t][r]
      /\ b # NoBatch => done[b].status = "executed" /\ done[b].lines = mine[t][b].lines
  BY DEF Committing
<1>1. /\ RowsTell(job[t], mine[t], db, stale) /\ RowsGrown(job[t], mine[t], db)
      /\ b \in Batches \cup {NoBatch} /\ DOMAIN db = Rows /\ DOMAIN mine[t] \subseteq Rows
  BY DEF BatchesTell, RowsTell, PaidInv, JobShape, GoodRows
<1>2. \A d \in Docs : db[d].payments \in Seq(Payment)
  BY RowsOk DEF DocOk, DocRow
<1>3. /\ \A r \in DOMAIN mine[t] : table[r] = done[r]
      /\ \A r \in Rows : r \notin DOMAIN mine[t] => table[r] = db[r]
  BY <1>0, <1>1, OverIs
<1>4. ASSUME NEW d \in Docs
      PROVE  /\ d \in DOMAIN mine[t] => table[d] = mine[t][d]
             /\ d \notin DOMAIN mine[t] => table[d] = db[d]
             /\ Grown(table[d].payments, db[d].payments, b)
             /\ table[d].due = db[d].due
  <2>1. d \notin Batches /\ d \in Rows
    BY Tables
  <2> QED
    BY <1>0, <1>1, <1>3, <2>1 DEF RowsGrown, Grown, HeldAlike, AsCommitted
<1>5. \A a \in Batches : a # b => table[a] = db[a]
  BY <1>1, <1>3, Tables DEF RowsGrown
<1>6. ASSUME NEW a \in Batches, NEW d \in Docs
      PROVE  Tells(table[d].payments, table[a], a, d, stale[a])
  <2>0. Tells(db[d].payments, db[a], a, d, stale[a])
    BY DEF BatchesTell
  <2>1. CASE a # b
    BY <1>2, <1>4, <1>5, <2>0, <2>1, TellsGrown
  <2>2. CASE a = b
    <3>1. b # NoBatch
      BY <2>2, RowAssumption
    <3>2. /\ b \in DOMAIN mine[t] /\ db[b].status = "draft"
          /\ Told(mine[t][b], d) =>
               /\ d \in DOMAIN mine[t]
               /\ PaidAs(mine[t][d].payments, db[d].payments, b, d, mine[t][b].lines[d], stale[b])
          /\ d \in DOMAIN mine[t] /\ ~ Told(mine[t][b], d) =>
               mine[t][d].payments = db[d].payments
      BY <1>1, <3>1 DEF RowsTell, LinesTold
    <3>3. Made(db[d].payments, b) = {}
      BY <2>0, <2>2, <3>2 DEF Tells
    <3>4. /\ table[b].status = "executed" /\ table[b].lines = mine[t][b].lines
          /\ Told(table[b], d) <=> Told(mine[t][b], d)
      BY <1>0, <1>3, <3>1, <3>2 DEF Told
    <3>5. CASE Told(mine[t][b], d)
      <4>1. PaidAs(table[d].payments, db[d].payments, b, d, table[b].lines[d], stale[b])
        BY <1>4, <3>2, <3>4, <3>5
      <4> QED
        BY <1>2, <2>2, <3>3, <3>4, <3>5, <4>1, TellsPaid
    <3>6. CASE ~ Told(mine[t][b], d)
      <4>1. table[d].payments = db[d].payments
        BY <1>4, <3>2, <3>6
      <4> QED
        BY <2>2, <3>3, <3>4, <3>6, <4>1 DEF Tells
    <3> QED
      BY <3>5, <3>6
  <2> QED
    BY <2>1, <2>2
<1>7. ASSUME NEW a \in Batches
      PROVE  TrueDraft(table, a, total, stale[a])
  <2>1. CASE a = b
    <3>1. b # NoBatch
      BY <2>1, RowAssumption
    <3>2. b \in DOMAIN mine[t]
      BY <1>1, <3>1 DEF RowsTell, LinesTold
    <3>3. table[b].status = "executed"
      BY <1>0, <1>3, <3>1, <3>2
    <3> QED
      BY <2>1, <3>3 DEF TrueDraft
  <2>2. CASE a # b
    <3>1. TrueDraft(db, a, total, stale[a]) /\ table[a] = db[a]
      BY <1>5, <2>2 DEF BatchesTell
    <3>2. DOMAIN db[a].lines \subseteq Docs
      BY Tables DEF PaidInv, GoodRows, GoodRow, BatchOk
    <3>3. \A d \in Docs : table[d].payments = << >> => db[d].payments = << >>
      <4> SUFFICES ASSUME NEW d \in Docs, NEW x \in Payment,
                          table[d].payments = Append(db[d].payments, x)
                   PROVE  table[d].payments # << >>
        BY <1>4 DEF Grown
      <4>1. Append(db[d].payments, x) # << >>
        BY <1>2, AppendProperties
      <4> QED
        BY <4>1
    <3>4. \A d \in Docs : table[d].due = db[d].due
      BY <1>4
    <3> QED
      BY <3>1, <3>2, <3>3, <3>4 DEF TrueDraft, DraftLine
  <2> QED
    BY <2>1, <2>2
<1> QED
  BY <1>6, <1>7

LEMMA CommitTells ==
  ASSUME PaidInv, LocksApart, HeldAlike, BatchesTell, NEW t \in Txs, Commit(t)
  PROVE  BatchesTell'
<1>1. /\ job[t] # Idle /\ mine' = [mine EXCEPT ![t] = << >>] /\ job' = [job EXCEPT ![t] = Idle]
      /\ total' = total /\ stale' = stale
  BY DEF Commit, maintained
<1>2. job'[t] = Idle /\ \A u \in Txs \ {t} : mine'[u] = mine[u] /\ job'[u] = job[u]
  BY <1>1 DEF PaidInv
<1>3. PICK done : db' = Over(done, db) /\ Committing(done, t)
  <2>1. CASE job[t].batch = NoBatch
    <3>1. db' = Over(mine[t], db)
      BY <2>1 DEF Commit
    <3>2. Committing(mine[t], t)
      BY <2>1 DEF Committing
    <3> QED
      BY <3>1, <3>2
  <2>2. CASE job[t].batch # NoBatch
    <3> SUFFICES ASSUME NEW b, b = job[t].batch, NEW row, row = mine[t][b],
                        NEW new, new = [mine[t] EXCEPT ![b] = [row EXCEPT !.status = "executed"]]
                 PROVE  db' = Over(new, db) /\ Committing(new, t)
      BY <2>2
    <3>1. db' = Over(new, db)
      BY <2>2 DEF Commit
    <3>2. b \in Batches /\ RowsTell(job[t], mine[t], db, stale)
      BY <1>1, <2>2 DEF PaidInv, JobShape, BatchesTell
    <3>3. b \in DOMAIN mine[t]
      BY <2>2, <3>2 DEF RowsTell, LinesTold
    <3>4. row \in [status : BatchStatus, lines : {row.lines}]
      BY <3>2, <3>3, Tables DEF PaidInv, GoodRows, GoodRow, BatchOk
    <3>5. new[b].status = "executed" /\ new[b].lines = row.lines
          /\ DOMAIN new = DOMAIN mine[t] /\ \A r \in DOMAIN mine[t] \ {b} : new[r] = mine[t][r]
      BY <3>3, <3>4
    <3>6. Committing(new, t)
      BY <3>2, <3>5 DEF Committing
    <3> QED
      BY <3>1, <3>6
  <2> QED
    BY <2>1, <2>2
<1>4. /\ \A b \in Batches, d \in Docs : Tells(db'[d].payments, db'[b], b, d, stale[b])
      /\ \A b \in Batches : TrueDraft(db', b, total, stale[b])
  <2> SUFFICES ASSUME NEW b, b = job[t].batch, NEW table, table = db'
               PROVE  /\ \A a \in Batches, d \in Docs :
                           Tells(table[d].payments, table[a], a, d, stale[a])
                      /\ \A a \in Batches : TrueDraft(table, a, total, stale[a])
    OBVIOUS
  <2> QED
    BY <1>1, <1>3, CommittedTells
<1>5. ASSUME NEW u \in Txs \ {t}, job[u] # Idle,
             NEW rows, DOMAIN rows \subseteq DOMAIN mine[u], RowsTell(job[u], rows, db, stale)
      PROVE  RowsTell(job[u], rows, db', stale)
  <2>1. \A r \in Rows \cap DOMAIN rows : db'[r] = db[r]
    <3>1. DOMAIN db = Rows
      BY DEF PaidInv
    <3>2. \A r \in DOMAIN rows : r \notin DOMAIN done
      BY <1>3, <1>5 DEF Committing, LocksApart
    <3> QED
      BY <1>3, <3>1, <3>2, OverIs
  <2>2. job[u].batch \in Batches \cup {NoBatch} /\ job[u].todo \subseteq Docs
    BY <1>5 DEF PaidInv, JobShape
  <2>3. /\ \A d \in Docs \cap DOMAIN rows : db'[d].payments = db[d].payments
        /\ \A b \in Batches \cap DOMAIN rows : db'[b] = db[b]
    BY <2>1, Tables
  <2> QED
    BY <1>5, <2>2, <2>3, TellsElsewhere
<1>6. \A u \in Txs \ {t} : job[u] # Idle =>
        /\ job[u].at \in job[u].todo \cup {NoDoc}
        /\ RowsTell(job[u], mine[u], db', stale)
        /\ RowsTell(job[u], job[u].savepoint, db', stale)
  BY <1>5 DEF BatchesTell, LocksApart
<1>7. \A u \in Txs : job'[u] # Idle =>
        /\ job'[u].at \in job'[u].todo \cup {NoDoc}
        /\ RowsTell(job'[u], mine'[u], db', stale)
        /\ RowsTell(job'[u], job'[u].savepoint, db', stale)
  BY <1>2, <1>6
<1> QED
  BY <1>1, <1>4, <1>7 DEF BatchesTell

LEMMA BatchesStillTell ==
  ASSUME PaidInv, PaidInv', EditedPa, LocksApart, HeldAlike, BatchesTell, [Next]_vars
  PROVE  BatchesTell'
<1>1. CASE UNCHANGED vars
  BY <1>1 DEF BatchesTell, vars, maintained
<1>2. ASSUME NEW t \in Txs, Proceed(t)
      PROVE  BatchesTell'
  BY <1>2, LockDocTells, PayLineTells, RefuseLineTells, CommitTells, LostTells
     DEF Proceed, Crash, DeadlockVictim
<1> QED
  BY <1>1, <1>2, StartTells, DraftsTell, MaintenanceTells DEF Next

LEMMA InitTells == Init => BatchesTell
<1> SUFFICES ASSUME Init PROVE BatchesTell
  OBVIOUS
<1>1. \A t \in Txs : job[t] = Idle
  BY DEF Init
<1>2. ASSUME NEW b \in Batches
      PROVE  /\ TrueDraft(db, b, total, stale[b])
             /\ \A d \in Docs : Tells(db[d].payments, db[b], b, d, stale[b])
  <2>1. b \notin Docs /\ b \in Rows
    BY Tables
  <2>2. db[b] = [status |-> "none", lines |-> << >>]
    BY <2>1 DEF Init
  <2>3. \A d \in Docs : db[d].payments = << >>
    BY Tables DEF Init
  <2>4. Made(<< >>, b) = {}
    BY NoRows DEF Made
  <2> QED
    BY <2>2, <2>3, <2>4 DEF TrueDraft, Tells
<1> QED
  BY <1>1, <1>2 DEF BatchesTell

LEMMA TellAlways == Spec => [](PaidInv /\ BatchesTell)
<1>1. PaidInv /\ PaidInv' /\ EditedPa /\ LocksApart /\ HeldAlike /\ BatchesTell /\ [Next]_vars
        => BatchesTell'
  BY BatchesStillTell
<1> QED
  BY PaidAlways, InitTells, <1>1, PTL DEF Spec

(* The lines of an executed batch tell what it paid, whatever ran beside   *)
(* it and however often it crashed: a paid line is one payment, a line     *)
(* that is not left none.  The amount is the one the draft showed, except  *)
(* for a document paid as a whole after an edit of its amount: execute()   *)
(* compares the amounts of payments by invoice only.                       *)
THEOREM PaidLinesTell == Spec => []BatchTellsPayments
<1>1. BatchesTell => BatchTellsPayments
  <2> SUFFICES ASSUME BatchesTell, NEW b \in Batches, NEW d \in Docs
               PROVE  IF db[b].status = "executed" /\ d \in DOMAIN db[b].lines
                         /\ db[b].lines[d].status = "paid"
                      THEN Cardinality(Made(db[d].payments, b)) = 1
                           /\ \A k \in Made(db[d].payments, b) :
                                AsShown(db[d].payments[k], d, db[b].lines[d], stale[b])
                      ELSE Made(db[d].payments, b) = {}
    BY DEF BatchTellsPayments, Made, AsShown
  <2>1. Tells(db[d].payments, db[b], b, d, stale[b])
    BY DEF BatchesTell
  <2>2. \A k : Cardinality({k}) = 1
    BY FS_Singleton
  <2> QED
    BY <2>1, <2>2 DEF Tells, Told
<1> QED
  BY TellAlways, <1>1, PTL

-----------------------------------------------------------------------------
(* What a transaction holds, beyond its balance: a credit it has locked is *)
(* not void and cannot become so, a claim takes nothing off credits, and a *)
(* payment of its own holds one document.                                  *)

NothingTaken(payments) ==
  \A k \in DOMAIN payments : \A c \in CreditSet : payments[k].takes[c] = 0

HeldRows(j, rows, table) ==
  /\ \A c \in CreditSet \cap DOMAIN rows : rows[c].status # "void" /\ table[c].status # "void"
  /\ \A d \in Claims \cap DOMAIN rows : NothingTaken(rows[d].payments)
  /\ j.batch = NoBatch =>
       \E d \in Docs : j.todo \subseteq {d} /\ Docs \cap DOMAIN rows \subseteq {d}

Held ==
  /\ \A d \in Claims : NothingTaken(db[d].payments)
  /\ \A t \in Txs : job[t] # Idle =>
       HeldRows(job[t], mine[t], db) /\ HeldRows(job[t], job[t].savepoint, db)

LEMMA TakesAppended ==
  ASSUME NEW payments \in Seq(Payment), NEW x \in Payment, NothingTaken(payments),
         \A c \in CreditSet : x.takes[c] = 0
  PROVE  NothingTaken(Append(payments, x))
<1>1. /\ Len(payments) \in Nat /\ DOMAIN payments = 1 .. Len(payments)
      /\ DOMAIN Append(payments, x) = 1 .. Len(payments) + 1
      /\ Append(payments, x)[Len(payments) + 1] = x
      /\ \A k \in 1 .. Len(payments) : Append(payments, x)[k] = payments[k]
  BY AppendProperties, LenProperties
<1>2. \A k \in 1 .. Len(payments) + 1 : k \in 1 .. Len(payments) \/ k = Len(payments) + 1
  BY <1>1
<1> QED
  BY <1>1, <1>2 DEF NothingTaken

(* One transaction writes: the others hold what they held. *)
LEMMA OneHolds ==
  ASSUME Held, NEW t \in Txs, db' = db,
         \A u \in Txs \ {t} : mine'[u] = mine[u] /\ job'[u] = job[u],
         job'[t] # Idle => /\ HeldRows(job'[t], mine'[t], db)
                           /\ HeldRows(job'[t], job'[t].savepoint, db)
  PROVE  Held'
BY DEF Held

(* Rows committed by others, or written outside the transactions.          *)
LEMMA HeldElsewhere ==
  ASSUME NEW j, NEW rows, NEW f, NEW g, HeldRows(j, rows, f),
         \A c \in CreditSet \cap DOMAIN rows : g[c] = f[c]
  PROVE  HeldRows(j, rows, g)
BY DEF HeldRows

(* Drafts and edits write no credit; only one that nobody holds is voided. *)
LEMMA EditedCredits ==
  ASSUME PaidInv, EditedPa, Drafts \/ Maintenance
  PROVE  \A c \in CreditSet : db'[c] = db[c]
<1>0. DOMAIN db = Rows
  BY DEF PaidInv
<1>1. ASSUME NEW r, r \notin CreditSet, NEW new, db' = [db EXCEPT ![r] = new]
      PROVE  \A c \in CreditSet : db'[c] = db[c]
  BY <1>0, <1>1, Tables
<1>2. CASE Drafts
  <2>1. PICK b \in Batches : \E new : db' = [db EXCEPT ![b] = new]
    BY <1>2 DEF Drafts, CreateBatch, CancelBatch
  <2> QED
    BY <1>1, <2>1, Tables
<1>3. CASE Maintenance
  <2>1. db' = db \/ \E p \in Docs : \E new : db' = [db EXCEPT ![p] = new]
    <3>1. edit.pc = "write" \/ edit.pc = "replay" => edit.pa \in Docs
      BY Tables DEF EditedPa, NoEdit
    <3>2. CASE EditWrite
      BY <3>1, <3>2 DEF EditWrite
    <3>3. CASE EditReplay
      BY <3>1, <3>3 DEF EditReplay
    <3> QED
      BY <1>3, <3>2, <3>3 DEF Maintenance, EditRead, Reapprove, CloseByHand, Reprice, EditTotal
  <2> QED
    BY <1>1, <2>1, Tables
<1> QED
  BY <1>2, <1>3

LEMMA QuietCredits ==
  ASSUME PaidInv, EditedPa, Drafts \/ Maintenance \/ \E c \in CreditSet : VoidCredit(c)
  PROVE  \A c \in CreditSet : db'[c] = db[c] \/ Unlocked(c)
<1>1. ASSUME NEW c \in CreditSet, VoidCredit(c)
      PROVE  \A x \in CreditSet : db'[x] = db[x] \/ Unlocked(x)
  <2>1. Unlocked(c) /\ db' = [db EXCEPT ![c] = [db[c] EXCEPT !.status = "void"]]
    BY <1>1 DEF VoidCredit
  <2> QED
    BY <2>1, Tables DEF PaidInv
<1> QED
  BY <1>1, EditedCredits

LEMMA QuietHolds ==
  ASSUME PaidInv, EditedPa, LocksApart, Held,
         Drafts \/ Maintenance \/ \E c \in CreditSet : VoidCredit(c)
  PROVE  Held'
<1>1. /\ \A d \in Docs : db'[d].payments = db[d].payments
      /\ \A t \in Txs : mine'[t] = mine[t] /\ job'[t] = job[t]
  BY QuietRows
<1>2. \A t \in Txs : \A c \in CreditSet \cap DOMAIN mine[t] : db'[c] = db[c]
  BY QuietCredits DEF Unlocked
<1>3. \A t \in Txs : job[t] # Idle => DOMAIN job[t].savepoint \subseteq DOMAIN mine[t]
  BY DEF LocksApart
<1>4. \A t \in Txs : job[t] # Idle =>
        HeldRows(job[t], mine[t], db') /\ HeldRows(job[t], job[t].savepoint, db')
  BY <1>2, <1>3, HeldElsewhere DEF Held
<1>5. \A d \in Claims : db'[d].payments = db[d].payments
  BY <1>1 DEF Docs
<1> QED
  BY <1>1, <1>4, <1>5 DEF Held

LEMMA LostHolds ==
  ASSUME PaidInv, Held, NEW t \in Txs, Lost(t)
  PROVE  Held'
<1>1. /\ db' = db /\ job'[t] = Idle
      /\ \A u \in Txs \ {t} : mine'[u] = mine[u] /\ job'[u] = job[u]
  BY DEF Lost, PaidInv
<1> QED
  BY <1>1, OneHolds

LEMMA LockDocHolds ==
  ASSUME PaidInv, BatchesTell, Held, NEW t \in Txs, LockDoc(t)
  PROVE  Held'
<1> SUFFICES ASSUME NEW d, d = job[t].at, NEW more, more = mine'[t]
             PROVE  Held'
  OBVIOUS
<1>1. /\ more = Over(Row(d, db[d]), mine[t]) /\ db' = db /\ job' = job
      /\ job[t] # Idle /\ d # NoDoc
      /\ \A u \in Txs \ {t} : mine'[u] = mine[u] /\ job'[u] = job[u]
  BY DEF LockDoc, PaidInv
<1>2. d \in job[t].todo /\ d \in Docs
  BY <1>1 DEF BatchesTell, PaidInv, JobShape
<1>3. /\ DOMAIN more = {d} \cup DOMAIN mine[t] /\ more[d] = db[d] /\ d \notin CreditSet
      /\ \A r \in DOMAIN mine[t] : r # d => more[r] = mine[t][r]
  BY <1>1, <1>2, Tables DEF Over, Row
<1>4. HeldRows(job[t], mine[t], db) /\ HeldRows(job[t], job[t].savepoint, db)
  BY <1>1 DEF Held
<1>5. HeldRows(job[t], more, db)
  <2>1. \A c \in CreditSet \cap DOMAIN more : more[c].status # "void" /\ db[c].status # "void"
    BY <1>3, <1>4 DEF HeldRows
  <2>2. \A e \in Claims \cap DOMAIN more : NothingTaken(more[e].payments)
    BY <1>3, <1>4 DEF HeldRows, Held
  <2>3. job[t].batch = NoBatch =>
          \E e \in Docs : job[t].todo \subseteq {e} /\ Docs \cap DOMAIN more \subseteq {e}
    BY <1>2, <1>3, <1>4 DEF HeldRows
  <2> QED
    BY <2>1, <2>2, <2>3 DEF HeldRows
<1> QED
  BY <1>1, <1>4, <1>5, OneHolds

(* What the payment of a line, however it came about, leaves held.         *)
LEMMA PaysHolds ==
  ASSUME PaidInv, Held, NEW t \in Txs, NEW d, d = job[t].at,
         NEW scope, NEW takes, NEW picked, NEW payment,
         Pays(t, d, scope, takes, picked, payment)
  PROVE  Held'
<1>1. /\ job[t] # Idle /\ d \in Docs /\ d \in DOMAIN mine[t] /\ NextLine(t)
      /\ mine[t][d] \in DocRow
      /\ \A c \in CreditSet \ picked : takes[c] = 0
      /\ picked \subseteq CreditSet
      /\ \A c \in picked : View(t, c).status = "available" /\ mine'[t][c].status # "void"
      /\ d \in Claims => picked = {}
      /\ db' = db /\ \A u \in Txs \ {t} : mine'[u] = mine[u]
      /\ DOMAIN mine'[t] = DOMAIN mine[t] \cup picked
      /\ payment \in Payment /\ payment.takes = takes
      /\ mine'[t][d].payments = Append(mine[t][d].payments, payment)
      /\ \A e \in DOMAIN mine[t] \ ({d} \cup picked) : e \notin Batches => mine'[t][e] = mine[t][e]
  <2>1. /\ PaidColumns(d, mine[t][d], scope, payment, mine'[t][d])
        /\ payment = PaymentOf(d, scope, AmountPaid(t, scope), takes, job[t])
    BY Zenon DEF Pays
  <2>2. /\ payment \in Payment
        /\ mine'[t][d].payments = Append(mine[t][d].payments, payment)
    BY <2>1, Zenon DEF PaidColumns
  <2>3. payment.takes = takes
    BY <2>1 DEF PaymentOf
  <2>4. \A e \in DOMAIN mine[t] \ ({d} \cup picked) :
          e \notin Batches => mine'[t][e] = mine[t][e]
    BY Zenon DEF Pays
  <2>5. picked \subseteq CreditSet
    BY Zenon DEF Pays
  <2> QED
    BY <2>2, <2>3, <2>4, <2>5, ZenonT(60) DEF Pays
<1>2. /\ \A u \in Txs \ {t} : job'[u] = job[u]
      /\ job'[t].savepoint = mine'[t] /\ job'[t].batch = job[t].batch
      /\ job'[t].todo = job[t].todo \ {d}
  BY <1>1, NextLineIs
<1>3. HeldRows(job[t], mine[t], db)
  BY <1>1 DEF Held
<1>4. \A c \in CreditSet \cap DOMAIN mine'[t] : mine'[t][c].status # "void" /\ db[c].status # "void"
  <2> SUFFICES ASSUME NEW c \in CreditSet \cap DOMAIN mine'[t]
               PROVE  mine'[t][c].status # "void" /\ db[c].status # "void"
    OBVIOUS
  <2>1. c \notin Batches /\ c # d
    BY <1>1, Tables
  <2>2. CASE c \in picked
    BY <1>1, <1>3, <2>2 DEF HeldRows, View
  <2>3. CASE c \notin picked
    BY <1>1, <1>3, <2>1, <2>3 DEF HeldRows
  <2> QED
    BY <2>2, <2>3
<1>5. \A e \in Claims \cap DOMAIN mine'[t] : NothingTaken(mine'[t][e].payments)
  <2> SUFFICES ASSUME NEW e \in Claims \cap DOMAIN mine'[t]
               PROVE  NothingTaken(mine'[t][e].payments)
    OBVIOUS
  <2>1. e \in Docs /\ e \notin Batches /\ e \notin CreditSet
    BY Tables DEF Docs
  <2>2. e \in DOMAIN mine[t] /\ NothingTaken(mine[t][e].payments)
    BY <1>1, <1>3, <2>1 DEF HeldRows
  <2>3. CASE e = d
    <3>1. \A c \in CreditSet : payment.takes[c] = 0
      <4>1. picked = {}
        BY <1>1, <2>3
      <4> QED
        BY <1>1, <4>1
    <3>2. mine[t][d].payments \in Seq(Payment)
      BY <1>1 DEF DocRow
    <3> QED
      BY <1>1, <2>2, <2>3, <3>1, <3>2, TakesAppended
  <2>4. CASE e # d
    BY <1>1, <2>1, <2>2, <2>4
  <2> QED
    BY <2>3, <2>4
<1>6. job'[t].batch = NoBatch =>
        \E e \in Docs : job'[t].todo \subseteq {e} /\ Docs \cap DOMAIN mine'[t] \subseteq {e}
  BY <1>1, <1>2, <1>3, Tables DEF HeldRows
<1>7. HeldRows(job'[t], mine'[t], db)
  BY <1>4, <1>5, <1>6 DEF HeldRows
<1> QED
  BY <1>1, <1>2, <1>7, OneHolds

LEMMA PayLineHolds ==
  ASSUME PaidInv, Held, NEW t \in Txs, PayLine(t)
  PROVE  Held'
<1>1. \E scope, takes, picked, payment : Pays(t, job[t].at, scope, takes, picked, payment)
  BY LinePaid
<1> QED
  BY <1>1, PaysHolds

LEMMA RefuseLineHolds ==
  ASSUME PaidInv, LocksApart, Held, NEW t \in Txs, RefuseLine(t)
  PROVE  Held'
<1>0. DOMAIN mine = Txs /\ DOMAIN job = Txs /\ db' = db
  BY DEF PaidInv, RefuseLine
<1>1. CASE job[t].batch = NoBatch
  <2>1. mine' = [mine EXCEPT ![t] = << >>] /\ job' = [job EXCEPT ![t] = Idle]
    BY <1>1 DEF RefuseLine
  <2>2. job'[t] = Idle /\ \A u \in Txs \ {t} : mine'[u] = mine[u] /\ job'[u] = job[u]
    BY <1>0, <2>1
  <2> QED
    BY <1>0, <2>2, OneHolds
<1>2. CASE job[t].batch # NoBatch
  <2> SUFFICES ASSUME NEW b, b = job[t].batch, NEW rows, rows = job[t].savepoint
               PROVE  Held'
    OBVIOUS
  <2>1. /\ mine' = [mine EXCEPT ![t] = WithLine(rows, t, "failed")]
        /\ NextLine(t) /\ job[t] # Idle
    BY <1>2 DEF RefuseLine
  <2>2. /\ mine'[t] = WithLine(rows, t, "failed")
        /\ \A u \in Txs \ {t} : mine'[u] = mine[u]
    BY <1>0, <2>1
  <2>3. /\ DOMAIN mine'[t] = DOMAIN rows
        /\ \A r \in DOMAIN rows : r # b => mine'[t][r] = rows[r]
    BY <2>2, OtherRowsSame
  <2>4. b \in Batches /\ HeldRows(job[t], rows, db)
    BY <1>2, <2>1 DEF PaidInv, JobShape, Held
  <2>5. /\ \A u \in Txs \ {t} : job'[u] = job[u]
        /\ job'[t].savepoint = mine'[t] /\ job'[t].batch = b
    BY <2>1, NextLineIs
  <2>6. /\ \A c \in CreditSet \cap DOMAIN rows : mine'[t][c] = rows[c]
        /\ \A d \in Claims \cap DOMAIN rows : mine'[t][d] = rows[d]
    BY <2>3, <2>4, Tables DEF Docs
  <2>7. HeldRows(job'[t], mine'[t], db)
    BY <1>2, <2>3, <2>4, <2>5, <2>6 DEF HeldRows
  <2> QED
    BY <1>0, <2>2, <2>5, <2>7, OneHolds
<1> QED
  BY <1>1, <1>2

LEMMA StartHolds ==
  ASSUME PaidInv, LocksApart, Held, NEW t \in Txs, Start(t)
  PROVE  Held'
<1>0. DOMAIN mine = Txs /\ DOMAIN job = Txs
  BY DEF PaidInv
<1>1. ASSUME NEW d \in Docs, NEW order \in Orders[d], ExecutePayment(t, d, order)
      PROVE  Held'
  <2>1. /\ mine' = mine /\ db' = db /\ job[t] = Idle
        /\ job' = [job EXCEPT ![t] = [op |-> "pay", batch |-> NoBatch, todo |-> {d}, at |-> d,
              request |-> order.request, asked |-> order.asked, credits |-> order.credits,
              savepoint |-> << >>]]
    BY <1>1 DEF ExecutePayment
  <2>2. /\ \A u \in Txs \ {t} : job'[u] = job[u]
        /\ job'[t].savepoint = << >> /\ job'[t].batch = NoBatch /\ job'[t].todo = {d}
    BY <2>1, StartIs
  <2>3. mine'[t] = << >>
    BY <2>1 DEF LocksApart
  <2>4. HeldRows(job'[t], << >>, db)
    BY <2>2, NoRows DEF HeldRows
  <2> QED
    BY <2>1, <2>2, <2>3, <2>4, OneHolds
<1>2. ASSUME NEW b \in Batches, NEW credits, ExecuteBatch(t, b, credits)
      PROVE  Held'
  <2> SUFFICES ASSUME NEW rows, rows = Row(b, db[b])
               PROVE  Held'
    OBVIOUS
  <2>1. PICK d \in DOMAIN db[b].lines : job' = [job EXCEPT ![t] =
           [op |-> "pay", batch |-> b, todo |-> DOMAIN db[b].lines, at |-> d,
            request |-> Whole, asked |-> AsDue, credits |-> credits,
            savepoint |-> rows]]
    BY <1>2 DEF ExecuteBatch
  <2>2. mine' = [mine EXCEPT ![t] = rows] /\ db' = db
    BY <1>2 DEF ExecuteBatch
  <2>3. /\ \A u \in Txs \ {t} : job'[u] = job[u]
        /\ job'[t].savepoint = rows /\ job'[t].batch = b
    BY <2>1, StartIs, ZenonT(40)
  <2>4. mine'[t] = rows /\ \A u \in Txs \ {t} : mine'[u] = mine[u]
    BY <1>0, <2>2
  <2>5. DOMAIN rows = {b} /\ b \notin Docs /\ b \notin CreditSet /\ b # NoBatch
    BY Tables, RowAssumption DEF Row
  <2>6. HeldRows(job'[t], rows, db)
    BY <2>3, <2>5 DEF HeldRows, Docs
  <2> QED
    BY <2>2, <2>3, <2>4, <2>6, OneHolds
<1> QED
  BY <1>1, <1>2 DEF Start

-----------------------------------------------------------------------------
(* What a commit does to the committed rows.                               *)
LEMMA CommitIs ==
  ASSUME PaidInv, LocksApart, BatchesTell, NEW t \in Txs, Commit(t)
  PROVE  /\ job[t] # Idle /\ job'[t] = Idle
         /\ \A u \in Txs \ {t} : mine'[u] = mine[u] /\ job'[u] = job[u]
         /\ \A r \in Rows \ Batches :
              db'[r] = IF r \in DOMAIN mine[t] THEN mine[t][r] ELSE db[r]
         /\ Past' = Past /\ UNCHANGED maintained
<1>1. /\ job[t] # Idle /\ mine' = [mine EXCEPT ![t] = << >>] /\ job' = [job EXCEPT ![t] = Idle]
      /\ Past' = Past /\ UNCHANGED maintained
  BY SamePast DEF Commit
<1>2. job'[t] = Idle /\ \A u \in Txs \ {t} : mine'[u] = mine[u] /\ job'[u] = job[u]
  BY <1>1 DEF PaidInv
<1>3. DOMAIN db = Rows
  BY DEF PaidInv
<1>4. CASE job[t].batch = NoBatch
  <2>1. db' = Over(mine[t], db)
    BY <1>4 DEF Commit
  <2> QED
    BY <1>1, <1>2, <1>3, <2>1, OverIs
<1>5. CASE job[t].batch # NoBatch
  <2>1. PICK new : db' = Over([mine[t] EXCEPT ![job[t].batch] = new], db)
    BY <1>5 DEF Commit
  <2>2. job[t].batch \in Batches
    BY <1>1, <1>5 DEF PaidInv, JobShape
  <2> QED
    BY <1>1, <1>2, <1>3, <2>1, <2>2, OverIs
<1> QED
  BY <1>4, <1>5

LEMMA CommitHolds ==
  ASSUME PaidInv, LocksApart, BatchesTell, Held, NEW t \in Txs, Commit(t)
  PROVE  Held'
<1>1. /\ job[t] # Idle /\ job'[t] = Idle
      /\ \A u \in Txs \ {t} : mine'[u] = mine[u] /\ job'[u] = job[u]
      /\ \A r \in Rows \ Batches :
           db'[r] = IF r \in DOMAIN mine[t] THEN mine[t][r] ELSE db[r]
  BY CommitIs
<1>2. \A d \in Claims : NothingTaken(db'[d].payments)
  <2>1. \A d \in Claims : d \in Rows \ Batches
    BY Tables DEF Docs
  <2> QED
    BY <1>1, <2>1 DEF Held, HeldRows
<1>3. ASSUME NEW u \in Txs \ {t}, job[u] # Idle,
             NEW rows, DOMAIN rows \subseteq DOMAIN mine[u], HeldRows(job[u], rows, db)
      PROVE  HeldRows(job[u], rows, db')
  <2>1. \A c \in CreditSet \cap DOMAIN rows : db'[c] = db[c]
    BY <1>1, <1>3, Tables DEF LocksApart
  <2> QED
    BY <1>3, <2>1, HeldElsewhere
<1>4. \A u \in Txs \ {t} : job[u] # Idle =>
        HeldRows(job[u], mine[u], db') /\ HeldRows(job[u], job[u].savepoint, db')
  BY <1>3 DEF Held, LocksApart
<1>5. \A u \in Txs : job'[u] # Idle =>
        HeldRows(job'[u], mine'[u], db') /\ HeldRows(job'[u], job'[u].savepoint, db')
  BY <1>1, <1>4
<1> QED
  BY <1>2, <1>5 DEF Held

LEMMA StillHeld ==
  ASSUME PaidInv, EditedPa, LocksApart, BatchesTell, Held, [Next]_vars
  PROVE  Held'
<1>1. CASE UNCHANGED vars
  BY <1>1 DEF Held, vars
<1>2. ASSUME NEW t \in Txs, Proceed(t)
      PROVE  Held'
  BY <1>2, LockDocHolds, PayLineHolds, RefuseLineHolds, CommitHolds, LostHolds
     DEF Proceed, Crash, DeadlockVictim
<1> QED
  BY <1>1, <1>2, StartHolds, QuietHolds DEF Next

LEMMA InitHeld == Init => Held
<1> SUFFICES ASSUME Init PROVE Held
  OBVIOUS
<1>1. \A d \in Claims : db[d].payments = << >>
  BY Tables DEF Init, Docs
<1> QED
  BY <1>1, NoRows DEF Held, NothingTaken, Init

-----------------------------------------------------------------------------
(* The ledger.                                                             *)

(* The ledger's sums are those of the payments. *)
LEMMA LedgerSums ==
  ASSUME NEW S, IsFiniteSet(S), NEW f, \A x \in S : f[x] \in Int
  PROVE  Ledger!SumFunctionOnSet(f, S) = SumOf(f, S)
<1> DEFINE Iterates(g) == g = [s \in SUBSET S |->
             IF s = {} THEN 0 ELSE f[Some(s)] + g[s \ {Some(s)}]]
           iter == CHOOSE g : Iterates(g)
<1>1. PICK g \in [SUBSET S -> Int] : Unfolds(g, f, S)
  BY FoldExists
<1>2. Iterates(g)
  BY <1>1 DEF Unfolds
<1>3. Iterates(iter)
  BY <1>2, Zenon
<1>4. Unfolds(iter, f, S)
  <2> HIDE DEF iter
  <2> QED BY <1>3 DEF Unfolds
<1>5. iter[S] = SumOf(f, S)
  <2> HIDE DEF iter
  <2> QED BY <1>4, SumIsFold
<1>6. Ledger!SumFunctionOnSet(f, S) = iter[S]
  BY Zenon DEF Ledger!SumFunctionOnSet, Ledger!FoldFunctionOnSet, Ledger!MapThenFoldSet, Some
<1> QED
  BY <1>5, <1>6

LEMMA LedgerGross ==
  ASSUME NEW payments \in Seq(Payment)
  PROVE  Ledger!Gross(payments) = Gross(payments)
<1> DEFINE w == [k \in DOMAIN payments |-> payments[k].gross]
<1>1. IsFiniteSet(DOMAIN payments) /\ \A k \in DOMAIN payments : w[k] \in Int
  <2>1. DOMAIN payments = 1 .. Len(payments) /\ Len(payments) \in Nat
    BY LenProperties
  <2>2. \A k \in DOMAIN payments : payments[k] \in Payment
    BY <2>1, ElementOfSeq
  <2> QED
    BY <2>1, <2>2, FS_Interval DEF Payment
<1>2. Gross(payments) = SumOf(w, DOMAIN payments)
  BY GrossSums DEF Gross
<1>3. Ledger!Gross(payments) = Ledger!SumFunctionOnSet(w, DOMAIN payments)
  BY DEF Ledger!Gross
<1> HIDE DEF w
<1> QED
  BY <1>1, <1>2, <1>3, LedgerSums

(* What the ledger asks of a payment after those before it.                *)
Follows(d, old, x, row, past) ==
  /\ \A k \in DOMAIN old : /\ old[k].invoices # Whole /\ x.invoices # Whole
                           /\ old[k].invoices \cap x.invoices = {}
  /\ \/ d \in past.altered
     \/ x.invoices = Whole /\ (x.asked \/ x.gross = row.due)
     \/ x.invoices # Whole /\ Gross(old) + x.gross <= row.due

(* The payment a document got last may be paid after those before it.      *)
LEMMA GrownMayPay ==
  ASSUME NEW d \in Docs, NEW old \in Seq(Payment), NEW x \in Payment, NEW row,
         row.payments = Append(old, x), NEW past, past.total \in [Invoices -> Nat],
         DocOk(d, row, past)
  PROVE  Follows(d, old, x, row, past)
<1>1. /\ Len(old) \in Nat /\ DOMAIN old = 1 .. Len(old)
      /\ DOMAIN row.payments = 1 .. Len(old) + 1
      /\ row.payments[Len(old) + 1] = x
      /\ \A k \in 1 .. Len(old) : row.payments[k] = old[k]
  BY AppendProperties, LenProperties
<1>2. PaidOnce(row) /\ row \in DocRow /\ (d \notin past.altered => Settled(d, row, past.total))
  BY DEF DocOk
<1>3. ASSUME NEW k \in DOMAIN old
      PROVE  /\ old[k].invoices # Whole /\ x.invoices # Whole
             /\ old[k].invoices \cap x.invoices = {}
  <2>1. /\ k \in DOMAIN row.payments /\ Len(old) + 1 \in DOMAIN row.payments
        /\ k # Len(old) + 1 /\ row.payments[k] = old[k]
    BY <1>1
  <2> QED
    BY <1>1, <1>2, <2>1 DEF PaidOnce
<1>4. Gross(row.payments) = Gross(old) + x.gross /\ x.gross \in Int
  BY GrossAppend DEF Payment
<1>5. /\ row.payments # << >>
      /\ NeverPaidWhole(row) <=> ((\A k \in DOMAIN old : old[k].invoices # Whole)
                                   /\ x.invoices # Whole)
  BY AppendedPayment DEF NeverPaidWhole
<1>6. ASSUME d \notin past.altered, x.invoices = Whole
      PROVE  x.asked \/ x.gross = row.due
  <2>1. DOMAIN old = {}
    BY <1>3, <1>6
  <2>2. old = << >>
    BY <2>1, NothingPaid
  <2>3. Gross(row.payments) = x.gross
    BY <1>4, <2>2, NothingPaid
  <2>4. Gross(row.payments) = row.due \/ Overridden(row.payments)
    BY <1>2, <1>5, <1>6 DEF Settled
  <2>5. Overridden(row.payments) => x.asked
    <3>1. \A k \in DOMAIN row.payments : row.payments[k] = x
      BY <1>1, <2>1
    <3> QED
      BY <3>1 DEF Overridden
  <2> QED
    BY <2>3, <2>4, <2>5
<1>7. ASSUME d \notin past.altered, x.invoices # Whole
      PROVE  Gross(old) + x.gross <= row.due
  <2>1. NeverPaidWhole(row)
    BY <1>3, <1>5, <1>7
  <2>2. ~ Overridden(row.payments)
    BY <2>1 DEF NeverPaidWhole, Overridden
  <2> QED
    BY <1>2, <1>4, <1>5, <1>7, <2>2, SettledPays
<1> QED
  BY <1>3, <1>6, <1>7 DEF Follows

(* Tables that differ in what some documents took off a credit.            *)
DifferBy(f, g, c, docs, takes) ==
  /\ PaysIn(f) /\ PaysIn(g)
  /\ \A d \in docs \cap Pas :
       takes[d] \in Int /\ TakenBy(f[d].payments, c) = TakenBy(g[d].payments, c) + takes[d]
  /\ \A d \in Pas \ docs : f[d].payments = g[d].payments

LEMMA TakenBySome ==
  ASSUME NEW c \in CreditSet, NEW f, NEW g, NEW docs, NEW takes, DifferBy(f, g, c, docs, takes)
  PROVE  /\ TakenIn(f, c) = TakenIn(g, c) + SumOf(takes, docs \cap Pas)
         /\ TakenIn(g, c) \in Int /\ SumOf(takes, docs \cap Pas) \in Int
<1> DEFINE v == [d \in Docs |-> TakenBy(f[d].payments, c)]
           w == [d \in Docs |-> TakenBy(g[d].payments, c)]
<1>0. /\ PaysIn(f) /\ PaysIn(g) /\ \A d \in docs \cap Pas : takes[d] \in Int
      /\ \A d \in docs \cap Pas : TakenBy(f[d].payments, c) = TakenBy(g[d].payments, c) + takes[d]
      /\ \A d \in Pas \ docs : f[d].payments = g[d].payments
  BY DEF DifferBy
<1>1. \A d \in Pas : w[d] \in Int /\ v[d] \in Int
  BY <1>0, TakenType, Tables DEF PaysIn
<1>2. /\ \A d \in docs \cap Pas : takes[d] \in Int /\ v[d] = w[d] + takes[d]
      /\ \A d \in Pas \ docs : v[d] = w[d]
  BY <1>0, Tables
<1>3. TakenIn(f, c) = SumOf(v, Pas) /\ TakenIn(g, c) = SumOf(w, Pas)
  BY DEF TakenIn
<1> HIDE DEF v, w
<1> DEFINE S == docs \cap Pas
           T == Pas \ S
<1>4. IsFiniteSet(Pas) /\ S \in SUBSET Pas /\ IsFiniteSet(S) /\ IsFiniteSet(T)
  BY RowAssumption, FS_Subset
<1>5. /\ \A d \in S : w[d] \in Int /\ takes[d] \in Int /\ v[d] = w[d] + takes[d]
      /\ \A d \in T : w[d] \in Int /\ v[d] = w[d]
  BY <1>1, <1>2
<1>6. SumOf(v, Pas) = SumOf(v, S) + SumOf(v, T) /\ SumOf(w, Pas) = SumOf(w, S) + SumOf(w, T)
  BY <1>1, <1>4, SumUnion
<1> HIDE DEF S, T
<1>7. SumOf(v, S) = SumOf(w, S) + SumOf(takes, S)
  BY <1>4, <1>5, SumPlus
<1>8. SumOf(v, T) = SumOf(w, T)
  BY <1>4, <1>5, SumSame
<1>9. /\ SumOf(w, S) \in Int /\ SumOf(w, T) \in Int /\ SumOf(takes, S) \in Int
  BY <1>4, <1>5, SumInt
<1>10. /\ SumOf(v, Pas) = SumOf(w, Pas) + SumOf(takes, S) /\ SumOf(w, Pas) \in Int
  BY <1>6, <1>7, <1>8, <1>9
<1> QED
  BY <1>3, <1>9, <1>10 DEF S

(* The payments a commit adds are of its batch, or are one of their own,   *)
(* and each may be paid.                                                   *)
Last(payments) == payments[Len(payments)]
Added == {d \in Docs : db'[d].payments # db[d].payments}

LEMMA CommitAdds ==
  ASSUME PaidInv, LocksApart, HeldAlike, BatchesTell, Held, PaidInv', Held',
         NEW t \in Txs, Commit(t)
  PROVE  /\ \A d \in Added : /\ Last(db'[d].payments) \in Payment
                             /\ db'[d].payments = Append(db[d].payments, Last(db'[d].payments))
                             /\ Last(db'[d].payments).batch = job[t].batch
                             /\ Ledger!MayPay(d, Last(db'[d].payments))
         /\ Added # {} => Ledger!OfOneBatch(Added, job[t].batch)
<1> SUFFICES ASSUME NEW b, b = job[t].batch
             PROVE  /\ \A d \in Added :
                         /\ Last(db'[d].payments) \in Payment
                         /\ db'[d].payments = Append(db[d].payments, Last(db'[d].payments))
                         /\ Last(db'[d].payments).batch = b
                         /\ Ledger!MayPay(d, Last(db'[d].payments))
                    /\ Added # {} => Ledger!OfOneBatch(Added, b)
  OBVIOUS
<1>1. /\ job[t] # Idle /\ Past' = Past
      /\ \A r \in Rows \ Batches :
           db'[r] = IF r \in DOMAIN mine[t] THEN mine[t][r] ELSE db[r]
  BY CommitIs
<1>2. RowsTell(job[t], mine[t], db, stale) /\ HeldRows(job[t], mine[t], db)
      /\ b \in Batches \cup {NoBatch}
  BY <1>1 DEF BatchesTell, Held, PaidInv, JobShape
<1>3. ASSUME NEW d \in Docs
      PROVE  /\ db[d].payments \in Seq(Payment)
             /\ DocOk(d, db'[d], Past) /\ db'[d].due = db[d].due
             /\ db'[d] = IF d \in DOMAIN mine[t] THEN mine[t][d] ELSE db[d]
  <2>1. db[d].payments \in Seq(Payment)
    BY RowsOk DEF DocOk, DocRow
  <2>2. d \in Rows \ Batches
    BY Tables
  <2>3. GoodRows(db', Past') /\ DOMAIN db' = Rows
    BY DEF PaidInv
  <2> QED
    BY <1>1, <2>1, <2>2, <2>3 DEF GoodRows, GoodRow, HeldAlike, AsCommitted
<1>4. ASSUME NEW d \in Added
      PROVE  /\ d \in Docs /\ d \in DOMAIN mine[t]
             /\ Last(db'[d].payments) \in Payment
             /\ db'[d].payments = Append(db[d].payments, Last(db'[d].payments))
             /\ Last(db'[d].payments).batch = b
  <2>1. d \in Docs /\ d \in DOMAIN mine[t] /\ db'[d].payments # db[d].payments
    BY <1>3 DEF Added
  <2>2. PICK x \in Payment : x.batch = b /\ db'[d].payments = Append(db[d].payments, x)
    BY <1>2, <1>3, <2>1 DEF RowsTell, RowsGrown, Grown
  <2>3. Last(db'[d].payments) = x
    BY <1>3, <2>1, <2>2, AppendProperties DEF Last
  <2> QED
    BY <2>1, <2>2, <2>3
<1>5. ASSUME NEW d \in Added
      PROVE  Ledger!MayPay(d, Last(db'[d].payments))
  <2> SUFFICES ASSUME NEW x, x = Last(db'[d].payments), NEW old, old = db[d].payments
               PROVE  Ledger!MayPay(d, x)
    OBVIOUS
  <2>1. /\ d \in Docs /\ x \in Payment /\ old \in Seq(Payment)
        /\ db'[d].payments = Append(old, x) /\ DocOk(d, db'[d], Past)
        /\ db'[d].due = db[d].due
    BY <1>3, <1>4
  <2>2. /\ \A k \in DOMAIN old : /\ old[k].invoices # Whole /\ x.invoices # Whole
                                 /\ old[k].invoices \cap x.invoices = {}
        /\ \/ d \in altered
           \/ x.invoices = Whole /\ (x.asked \/ x.gross = db[d].due)
           \/ x.invoices # Whole /\ Ledger!Gross(old) + x.gross <= db[d].due
    <3> SUFFICES ASSUME NEW row, row = db'[d], NEW past, past = Past
                 PROVE  /\ \A k \in DOMAIN old : /\ old[k].invoices # Whole /\ x.invoices # Whole
                                                 /\ old[k].invoices \cap x.invoices = {}
                        /\ \/ d \in altered
                           \/ x.invoices = Whole /\ (x.asked \/ x.gross = db[d].due)
                           \/ x.invoices # Whole /\ Ledger!Gross(old) + x.gross <= db[d].due
      OBVIOUS
    <3>1. Follows(d, old, x, row, past)
      <4>1. past.total \in [Invoices -> Nat]
        BY DEF Past, PaidInv, MaintainedOk
      <4>2. /\ d \in Docs /\ old \in Seq(Payment) /\ x \in Payment
            /\ row.payments = Append(old, x) /\ DocOk(d, row, past)
        BY <2>1
      <4> QED
        BY <4>1, <4>2, GrownMayPay, ZenonT(60)
    <3>2. Ledger!Gross(old) = Gross(old)
      BY <2>1, LedgerGross
    <3>3. past.altered = altered /\ row.due = db[d].due
      BY <2>1 DEF Past
    <3> QED
      BY <3>1, <3>2, <3>3 DEF Follows
  <2>3. d \in Claims => \A c \in CreditSet : x.takes[c] = 0
    <3> SUFFICES ASSUME d \in Claims, NEW c \in CreditSet PROVE x.takes[c] = 0
      OBVIOUS
    <3>1. NothingTaken(db'[d].payments)
      BY DEF Held
    <3>2. Len(old) + 1 \in DOMAIN db'[d].payments /\ db'[d].payments[Len(old) + 1] = x
      BY <2>1, AppendProperties, LenProperties
    <3> QED
      BY <3>1, <3>2 DEF NothingTaken
  <2>4. [e \in Docs |-> db[e].payments][d] = old /\ [e \in Docs |-> db[e].due][d] = db[d].due
    BY <2>1
  <2> QED
    BY <2>2, <2>3, <2>4 DEF Ledger!MayPay, Ledger!Whole, Whole
<1>6. ASSUME NEW d \in Added
      PROVE  Ledger!OfOneBatch(Added, b)
  <2>1. CASE b = NoBatch
    <3>1. PICK e \in Docs : Docs \cap DOMAIN mine[t] \subseteq {e}
      BY <1>2, <2>1 DEF HeldRows
    <3>2. Added = {e}
      BY <1>4, <1>6, <3>1
    <3> QED
      BY <2>1, <3>2 DEF Ledger!OfOneBatch
  <2>2. CASE b # NoBatch
    <3>1. b \in Batches /\ db[b].status = "draft"
      BY <1>2, <2>2 DEF RowsTell, LinesTold
    <3>2. \A e \in Docs : Made(db[e].payments, b) = {}
      BY <3>1 DEF BatchesTell, Tells
    <3>3. \A e \in Docs : \A k \in DOMAIN db[e].payments : db[e].payments[k].batch # b
      BY <3>2 DEF Made
    <3> QED
      BY <2>2, <3>3 DEF Ledger!OfOneBatch, Ledger!Docs, Docs
  <2> QED
    BY <2>1, <2>2
<1> QED
  BY <1>4, <1>5, <1>6

(* They take off the credits what these lose; void ones lose nothing.      *)
LEMMA CommitTakes ==
  ASSUME PaidInv, LocksApart, HeldAlike, BatchesTell, CreditsKept, Held,
         PaidInv', CreditsKept', Held',
         NEW t \in Txs, Commit(t), NEW c \in CreditSet,
         NEW takes, \A d \in Added : takes[d] = Last(db'[d].payments).takes[c]
  PROVE  /\ db'[c].left = db[c].left - Ledger!SumFunctionOnSet(takes, Added \cap Pas)
         /\ db[c].left \in Nat /\ db'[c].left \in Nat
         /\ db'[c].status = "void" <=> db[c].status = "void"
         /\ db[c].status = "void" => db'[c].left = db[c].left
<1>1. /\ job[t] # Idle
      /\ \A r \in Rows \ Batches :
           db'[r] = IF r \in DOMAIN mine[t] THEN mine[t][r] ELSE db[r]
  BY CommitIs
<1>2. HeldRows(job[t], mine[t], db) /\ c \in Rows \ Batches
  BY <1>1, Tables DEF Held
<1>3. /\ db'[c].status = "void" <=> db[c].status = "void"
      /\ db[c].status = "void" => db'[c].left = db[c].left
  BY <1>1, <1>2 DEF HeldRows
<1>4. Table(db, Past) /\ Table(db', Past')
  BY DEF PaidInv, Table
<1>5. PaysIn(db) /\ PaysIn(db') /\ db[c].left \in Nat /\ db'[c].left \in Nat
  BY <1>4, TablePays
<1>6. ASSUME NEW d \in Added \cap Pas
      PROVE  /\ takes[d] \in Int
             /\ TakenBy(db'[d].payments, c) = TakenBy(db[d].payments, c) + takes[d]
  <2>1. /\ Last(db'[d].payments) \in Payment
        /\ db'[d].payments = Append(db[d].payments, Last(db'[d].payments))
    BY CommitAdds
  <2>2. db[d].payments \in Seq(Payment) /\ takes[d] = Last(db'[d].payments).takes[c]
    BY <1>5 DEF PaysIn
  <2>3. takes[d] \in Int
    BY <2>1, <2>2 DEF Payment
  <2> QED
    BY <2>1, <2>2, <2>3, TakenAppend
<1>7. \A d \in Pas \ Added : db'[d].payments = db[d].payments
  BY Tables DEF Added
<1>8. /\ TakenIn(db', c) = TakenIn(db, c) + SumOf(takes, Added \cap Pas)
      /\ TakenIn(db, c) \in Int /\ SumOf(takes, Added \cap Pas) \in Int
  <2> SUFFICES ASSUME NEW f, f = db', NEW g, g = db, NEW docs, docs = Added
               PROVE  /\ TakenIn(f, c) = TakenIn(g, c) + SumOf(takes, docs \cap Pas)
                      /\ TakenIn(g, c) \in Int /\ SumOf(takes, docs \cap Pas) \in Int
    OBVIOUS
  <2>1. DifferBy(f, g, c, docs, takes)
    BY <1>5, <1>6, <1>7 DEF DifferBy
  <2> QED
    BY <2>1, TakenBySome
<1>9. db[c].left + TakenIn(db, c) = Face[c] /\ db'[c].left + TakenIn(db', c) = Face[c]
  BY DEF CreditsKept, Balanced
<1>10. Ledger!SumFunctionOnSet(takes, Added \cap Pas) = SumOf(takes, Added \cap Pas)
  <2>1. IsFiniteSet(Added \cap Pas)
    BY RowAssumption, FS_Subset
  <2> QED
    BY <1>6, <2>1, LedgerSums
<1>11. Face[c] \in Int
  BY CreditAssumption DEF CreditSet
<1> QED
  BY <1>3, <1>5, <1>8, <1>9, <1>10, <1>11

LEMMA CommitSettles ==
  ASSUME PaidInv, LocksApart, HeldAlike, BatchesTell, CreditsKept, Held,
         PaidInv', CreditsKept', Held',
         NEW t \in Txs, Commit(t)
  PROVE  [Ledger!Next]_(Ledger!vars)
<1> DEFINE b == job[t].batch
<1>1. altered' = altered /\ job[t] # Idle
  BY CommitIs DEF maintained
<1>d. [d \in Docs |-> db'[d].due] = [d \in Docs |-> db[d].due]
  <2>1. \A d \in Docs : db'[d].due = db[d].due
    BY CommitIs, Tables DEF HeldAlike, AsCommitted
  <2> QED
    BY <2>1
<1>2. b \in Batches \cup {NoBatch}
  BY <1>1 DEF PaidInv, JobShape
<1>3. {c \in CreditSet : db'[c].status = "void"} = {c \in CreditSet : db[c].status = "void"}
  <2> SUFFICES ASSUME NEW c \in CreditSet
               PROVE  db'[c].status = "void" <=> db[c].status = "void"
    OBVIOUS
  <2> DEFINE takes == [d \in Added |-> Last(db'[d].payments).takes[c]]
  <2>1. \A d \in Added : takes[d] = Last(db'[d].payments).takes[c]
    OBVIOUS
  <2> HIDE DEF takes
  <2> QED
    BY <2>1, CommitTakes
<1>4. CASE Added = {}
  <2>1. \A d \in Docs : db'[d].payments = db[d].payments
    BY <1>4 DEF Added
  <2>2. \A c \in CreditSet : db'[c].left = db[c].left
    <3> SUFFICES ASSUME NEW c \in CreditSet PROVE db'[c].left = db[c].left
      OBVIOUS
    <3>1. /\ db'[c].left = db[c].left - Ledger!SumFunctionOnSet(<< >>, Added \cap Pas)
          /\ db[c].left \in Nat
      BY <1>4, CommitTakes
    <3>2. Added \cap Pas = {}
      BY <1>4
    <3>3. Ledger!SumFunctionOnSet(<< >>, {}) = 0
      BY FS_EmptySet, LedgerSums, SumEmpty
    <3>4. Ledger!SumFunctionOnSet(<< >>, Added \cap Pas) = 0
      BY <3>2, <3>3
    <3> QED
      BY <3>1, <3>4
  <2>3. /\ [d \in Docs |-> db'[d].payments] = [d \in Docs |-> db[d].payments]
        /\ [c \in CreditSet |-> db'[c].left] = [c \in CreditSet |-> db[c].left]
    BY <2>1, <2>2
  <2> QED
    BY <1>1, <1>d, <1>3, <2>3 DEF Ledger!vars
<1>5. CASE Added # {}
  <2>1. /\ \A d \in Added : /\ d \in Docs
                            /\ db'[d].payments = Append(db[d].payments, Last(db'[d].payments))
                            /\ Last(db'[d].payments).batch = b
                            /\ Ledger!MayPay(d, Last(db'[d].payments))
        /\ Ledger!OfOneBatch(Added, b)
    BY <1>5, CommitAdds DEF Added
  <2>2. ASSUME NEW c \in CreditSet
        PROVE  LET takes == [d \in Added |-> Last(db'[d].payments).takes[c]]
               IN /\ db'[c].left = db[c].left - Ledger!SumFunctionOnSet(takes, Added \cap Pas)
                  /\ db'[c].left >= 0
                  /\ db[c].status = "void" => db'[c].left = db[c].left
    <3> DEFINE takes == [d \in Added |-> Last(db'[d].payments).takes[c]]
    <3>1. \A d \in Added : takes[d] = Last(db'[d].payments).takes[c]
      OBVIOUS
    <3> HIDE DEF takes
    <3>2. /\ db'[c].left = db[c].left - Ledger!SumFunctionOnSet(takes, Added \cap Pas)
          /\ db'[c].left \in Nat
          /\ db[c].status = "void" => db'[c].left = db[c].left
      BY <3>1, CommitTakes
    <3> QED
      BY <3>2 DEF takes
  <2>3. ASSUME NEW docs, docs = Added, NEW a, a = b
        PROVE  Ledger!Settle(docs, a)
    <3> DEFINE paid == [d \in Docs |-> db[d].payments]
               next == [d \in Docs |-> db'[d].payments]
    <3>0. /\ docs \subseteq Docs /\ Ledger!OfOneBatch(docs, a)
          /\ \A d \in docs : /\ db'[d].payments = Append(db[d].payments, Last(db'[d].payments))
                             /\ Last(db'[d].payments).batch = a
                             /\ Ledger!MayPay(d, Last(db'[d].payments))
      BY <2>1, <2>3
    <3>1. \A d \in Docs : paid[d] = db[d].payments /\ next[d] = db'[d].payments
      OBVIOUS
    <3>2. docs = {d \in Docs : next[d] # paid[d]}
      BY <2>3, <3>1 DEF Added
    <3>3. \A d \in docs : Ledger!Latest(next[d]) = Last(db'[d].payments)
      BY <3>0, <3>1 DEF Ledger!Latest, Last
    <3>4. \A d \in docs : /\ next[d] = Append(paid[d], Ledger!Latest(next[d]))
                           /\ Ledger!Latest(next[d]).batch = a
                           /\ Ledger!MayPay(d, Ledger!Latest(next[d]))
      BY <3>0, <3>1, <3>3
    <3>5. \A c \in CreditSet :
            [d \in docs |-> Ledger!Latest(next[d]).takes[c]]
              = [d \in docs |-> Last(db'[d].payments).takes[c]]
      BY <3>3
    <3> HIDE DEF paid, next
    <3>6. \A c \in CreditSet :
            /\ db'[c].left = db[c].left
                 - Ledger!SumFunctionOnSet([d \in docs |-> Ledger!Latest(next[d]).takes[c]],
                                           docs \cap Pas)
            /\ db'[c].left >= 0
            /\ db[c].status = "void" => db'[c].left = db[c].left
      BY <2>2, <2>3, <3>5
    <3>7. Ledger!Docs = Docs /\ DOMAIN next = Docs
      BY DEF Ledger!Docs, Docs, next
    <3> QED
      BY <1>1, <1>d, <1>3, <3>0, <3>2, <3>4, <3>6, <3>7 DEF Ledger!Settle, paid, next
  <2>4. PICK docs, a : docs = Added /\ a = b
    OBVIOUS
  <2>5. docs \in (SUBSET Ledger!Docs) \ {{}} /\ a \in Batches \cup {NoBatch}
    BY <1>2, <1>5, <2>4 DEF Added, Ledger!Docs, Docs
  <2> QED
    BY <2>3, <2>4, <2>5 DEF Ledger!Next
<1> QED
  BY <1>4, <1>5

(* Whatever leaves payments, amounts, remainders, voids and what was       *)
(* altered alone is no step of the ledger.                                 *)
LEMMA LedgerStutters ==
  ASSUME \A d \in Docs : db'[d].payments = db[d].payments /\ db'[d].due = db[d].due,
         \A c \in CreditSet : db'[c].left = db[c].left,
         \A c \in CreditSet : db'[c].status = "void" <=> db[c].status = "void",
         altered' = altered
  PROVE  UNCHANGED Ledger!vars
<1>1. /\ [d \in Docs |-> db'[d].payments] = [d \in Docs |-> db[d].payments]
      /\ [d \in Docs |-> db'[d].due] = [d \in Docs |-> db[d].due]
      /\ [c \in CreditSet |-> db'[c].left] = [c \in CreditSet |-> db[c].left]
      /\ {c \in CreditSet : db'[c].status = "void"} = {c \in CreditSet : db[c].status = "void"}
  OBVIOUS
<1> QED
  BY <1>1 DEF Ledger!vars

(* A credit is voided, or a document edited, in the ledger too.            *)
LEMMA VoidIsLedgers ==
  ASSUME PaidInv, EditedPa, NEW c \in CreditSet, VoidCredit(c)
  PROVE  Ledger!Void(c)
<1>1. /\ db' = [db EXCEPT ![c] = [db[c] EXCEPT !.status = "void"]]
      /\ db[c] = [status |-> "available", left |-> Face[c]] /\ altered' = altered
  BY DEF VoidCredit, maintained
<1>2. DOMAIN db = Rows /\ c \in Rows
  BY Tables DEF PaidInv
<1>3. /\ \A d \in Docs : db'[d] = db[d]
      /\ \A x \in CreditSet : db'[x].left = db[x].left
  BY <1>1, <1>2, QuietRows, Tables
<1>4. db'[c].status = "void" /\ \A x \in CreditSet \ {c} : db'[x] = db[x]
  BY <1>1, <1>2
<1>5. /\ [d \in Docs |-> db'[d].payments] = [d \in Docs |-> db[d].payments]
      /\ [d \in Docs |-> db'[d].due] = [d \in Docs |-> db[d].due]
      /\ [x \in CreditSet |-> db'[x].left] = [x \in CreditSet |-> db[x].left]
  BY <1>3
<1>6. {x \in CreditSet : db'[x].status = "void"}
        = {x \in CreditSet : db[x].status = "void"} \cup {c}
  BY <1>4
<1>7. [x \in CreditSet |-> db[x].left][c] = Face[c]
  BY <1>1
<1> QED
  BY <1>1, <1>5, <1>6, <1>7 DEF Ledger!Void

(* What an edit of Data Maintenance adds to what was altered.              *)
LEMMA EditsAlter ==
  ASSUME PaidInv, EditedPa, Maintenance
  PROVE  /\ altered \subseteq altered'
         /\ \A d \in Docs : db'[d].due # db[d].due /\ db[d].payments # << >> => d \in altered'
<1>0. DOMAIN db = Rows /\ \A d \in Docs : db[d] \in DocRow
  BY RowsOk DEF DocOk, PaidInv
<1>1. ASSUME NEW p \in Docs, NEW new, db' = [db EXCEPT ![p] = new], altered \subseteq altered',
             new.due = db[p].due \/ altered' = Edited({p})
      PROVE  /\ altered \subseteq altered'
             /\ \A d \in Docs : db'[d].due # db[d].due /\ db[d].payments # << >> => d \in altered'
  <2>1. p \in Rows /\ db'[p] = new /\ \A d \in Docs : d # p => db'[d] = db[d]
    BY <1>0, <1>1, Tables
  <2>2. altered' = Edited({p}) /\ db[p].payments # << >> => p \in altered'
    BY DEF Edited
  <2> QED
    BY <1>1, <2>1, <2>2
<1>2. edit.pc = "write" \/ edit.pc = "replay" => edit.pa \in Docs
  BY Tables DEF EditedPa, NoEdit
<1>3. ASSUME NEW d \in Docs, Reapprove(d)
      PROVE  altered' = altered /\ \A e \in Docs : db'[e].due = db[e].due
  <2>1. [db[d] EXCEPT !.status = "approved"].due = db[d].due
    BY <1>0 DEF DocRow
  <2> QED
    BY <1>0, <1>3, <2>1, Tables DEF Reapprove
<1>4. ASSUME NEW d \in Docs, CloseByHand(d)
      PROVE  altered \subseteq altered' /\ \A e \in Docs : db'[e].due = db[e].due
  <2>1. [db[d] EXCEPT !.status = PaidStatus(d)].due = db[d].due
    BY <1>0 DEF DocRow
  <2> QED
    BY <1>0, <1>4, <2>1, Tables DEF CloseByHand
<1>5. ASSUME NEW d \in Docs, NEW n, Reprice(d, n)
      PROVE  /\ altered \subseteq altered'
             /\ \A e \in Docs : db'[e].due # db[e].due /\ db[e].payments # << >> => e \in altered'
  <2>1. /\ db' = [db EXCEPT ![d] = [db[d] EXCEPT !.due = n]] /\ altered' = Edited({d})
        /\ altered \subseteq altered'
    BY <1>5 DEF Reprice, Edited
  <2> QED
    BY <1>1, <2>1
<1>6. CASE EditWrite
  <2>1. /\ db' = [db EXCEPT ![edit.pa] = [db[edit.pa] EXCEPT !.links = edit.links]]
        /\ altered' = Edited({edit.pa}) /\ edit.pa \in Docs /\ altered \subseteq altered'
    BY <1>2, <1>6 DEF EditWrite, Edited
  <2> QED
    BY <1>1, <2>1
<1>7. CASE EditReplay
  <2> DEFINE closed == IF db[edit.pa].status = "processed"
                       THEN db[edit.pa].closed \cup db[edit.pa].links ELSE db[edit.pa].closed
  <2>1. edit.pa \in Docs /\ [db[edit.pa] EXCEPT !.closed = closed].due = db[edit.pa].due
    BY <1>0, <1>2, <1>7 DEF EditReplay, DocRow
  <2>2. db' = [db EXCEPT ![edit.pa] = [db[edit.pa] EXCEPT !.closed = closed]]
        /\ altered' = altered
    BY <1>7 DEF EditReplay
  <2> HIDE DEF closed
  <2> QED
    BY <1>1, <2>1, <2>2
<1>8. ASSUME \/ \E p \in Pas, links \in Relinks : EditRead(p, links)
             \/ \E i \in Invoices, n \in Prices \cap Nat : EditTotal(i, n)
      PROVE  altered \subseteq altered' /\ db' = db
  BY <1>8 DEF EditRead, EditTotal
<1> QED
  BY <1>3, <1>4, <1>5, <1>6, <1>7, <1>8 DEF Maintenance

LEMMA EditsAreLedgers ==
  ASSUME PaidInv, PaidInv', EditedPa, Drafts \/ Maintenance
  PROVE  [Ledger!Next]_(Ledger!vars)
<1>1. /\ \A d \in Docs : db'[d].payments = db[d].payments
      /\ \A c \in CreditSet : db'[c].left = db[c].left
  BY QuietRows
<1>2. \A c \in CreditSet : db'[c] = db[c]
  BY EditedCredits
<1>3. CASE Drafts
  <2>1. PICK b \in Batches : \E new : db' = [db EXCEPT ![b] = new]
    BY <1>3 DEF Drafts, CreateBatch, CancelBatch
  <2>2. \A d \in Docs : db'[d] = db[d]
    BY <2>1, Tables
  <2>3. altered' = altered
    BY <1>3 DEF Drafts, CreateBatch, CancelBatch, maintained
  <2> QED
    BY <1>2, <2>2, <2>3, LedgerStutters
<1>4. CASE Maintenance
  <2>1. /\ [d \in Docs |-> db'[d].payments] = [d \in Docs |-> db[d].payments]
        /\ [c \in CreditSet |-> db'[c].left] = [c \in CreditSet |-> db[c].left]
        /\ {c \in CreditSet : db'[c].status = "void"} = {c \in CreditSet : db[c].status = "void"}
    BY <1>1, <1>2
  <2>2. altered' \subseteq Docs
    BY DEF PaidInv, MaintainedOk
  <2>3. /\ altered \subseteq altered'
        /\ \A d \in Docs : db'[d].due # db[d].due /\ db[d].payments # << >> => d \in altered'
    BY <1>4, EditsAlter
  <2>4. Ledger!Docs = Docs
    BY DEF Ledger!Docs, Docs
  <2>5. Ledger!Edit
    BY <2>1, <2>2, <2>3, <2>4 DEF Ledger!Edit
  <2> QED
    BY <2>5 DEF Ledger!Next
<1> QED
  BY <1>3, <1>4

LEMMA LedgerStep ==
  ASSUME PaidInv, EditedPa, LocksApart, HeldAlike, BatchesTell, CreditsKept, Held,
         PaidInv', CreditsKept', Held', [Next]_vars
  PROVE  [Ledger!Next]_(Ledger!vars)
<1>1. CASE db' = db /\ altered' = altered
  BY <1>1, LedgerStutters
<1>2. ASSUME NEW t \in Txs, Commit(t)
      PROVE  [Ledger!Next]_(Ledger!vars)
  BY <1>2, CommitSettles
<1>3. ASSUME NEW c \in CreditSet, VoidCredit(c)
      PROVE  [Ledger!Next]_(Ledger!vars)
  BY <1>3, VoidIsLedgers DEF Ledger!Next
<1>4. CASE Drafts \/ Maintenance
  BY <1>4, EditsAreLedgers
<1>5. CASE UNCHANGED vars
  BY <1>1, <1>5 DEF vars, maintained
<1>6. ASSUME NEW t \in Txs, Start(t) \/ Proceed(t), ~ Commit(t)
      PROVE  db' = db /\ altered' = altered
  BY <1>6 DEF Start, ExecutePayment, ExecuteBatch, Proceed, LockDoc, PayLine, RefuseLine, Crash,
              DeadlockVictim, Lost, maintained
<1>7. CASE \E t \in Txs : Start(t) \/ Proceed(t)
  BY <1>1, <1>2, <1>6, <1>7
<1> QED
  BY <1>3, <1>4, <1>5, <1>7 DEF Next

LEMMA InitLedger == Init => Ledger!Init
<1> SUFFICES ASSUME Init PROVE Ledger!Init
  OBVIOUS
<1>1. \A d \in Docs : db[d].payments = << >> /\ db[d].due = Due[d]
  BY Tables DEF Init
<1>2. \A c \in CreditSet : db[c].left = Face[c] /\ db[c].status = "available"
  BY Tables DEF Init
<1>3. [c \in CreditSet |-> db[c].left] = Face
  BY <1>2, CreditAssumption DEF CreditSet
<1>4. [d \in Docs |-> db[d].payments] = [d \in Ledger!Docs |-> << >>]
  BY <1>1 DEF Docs, Ledger!Docs
<1>5. {c \in CreditSet : db[c].status = "void"} = {} /\ altered = {}
      /\ [d \in Docs |-> db[d].due] = Due
  BY <1>1, <1>2, AmountAssumption DEF Init, Docs
<1> QED
  BY <1>3, <1>4, <1>5 DEF Ledger!Init

(* Payments implement the ledger: whatever runs side by side, crashes or   *)
(* is aborted, what is committed is one settlement after another, each of  *)
(* a whole batch or of one payment, and takes off the credits what their   *)
(* rows lose.                                                              *)
THEOREM PaymentsImplementLedger == Spec => ImplementsLedger
<1>1. PaidInv /\ EditedPa /\ LocksApart /\ HeldAlike /\ BatchesTell /\ Held /\ [Next]_vars
        => Held'
  BY StillHeld
<1>2. PaidInv /\ PaidInv' /\ EditedPa /\ LocksApart /\ HeldAlike /\ BatchesTell /\ CreditsKept
        /\ CreditsKept' /\ Held /\ Held' /\ [Next]_vars
        => [Ledger!Next]_(Ledger!vars)
  BY LedgerStep
<1> QED
  BY PaidAlways, CreditsAlways, TellAlways, InitHeld, InitLedger, <1>1, <1>2, PTL
     DEF Spec, ImplementsLedger, Ledger!Spec

=============================================================================
