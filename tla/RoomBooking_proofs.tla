-------------------------- MODULE RoomBooking_proofs --------------------------
(***************************************************************************)
(* For every number of requests, occurrences, slots and retries: no double *)
(* booking, no failure without its notice, none given up in silence.  As   *)
(* long as requests do not overlap, the calendar shows what is booked,     *)
(* whatever mails are lost, repeated, late or resent.                      *)
(***************************************************************************)
EXTENDS RoomBooking, SumLemmas

-----------------------------------------------------------------------------
(* No double booking.  The mails, their labels and the retries leave a     *)
(* booking's status and slot alone (LabelsOnly); a request writes only     *)
(* what the constraint accepts, and another meeting is booked only beside  *)
(* this one's.                                                             *)

(* NoDoubleBooking of any table. *)
Beside(table, others) ==
  \A d \in DOMAIN table : table[d].status = "confirmed" => <<d, table[d].slot>> \notin others

LEMMA Restated == NoDoubleBooking <=> Beside(rows, taken)
BY DEF NoDoubleBooking, Beside, Live

LEMMA LabelsOnly ==
  ASSUME NEW table, NEW type, NEW day, NEW ok, NEW others, Beside(table, others)
  PROVE  Beside(Labelled(table, type, day, ok), others)
<1> DEFINE new == Labelled(table, type, day, ok)
<1>1. DOMAIN new = DOMAIN table
  BY DEF Labelled
<1>2. ASSUME NEW d \in DOMAIN table, new[d].status = "confirmed"
      PROVE  <<d, new[d].slot>> \notin others
  <2>1. new[d].status = table[d].status /\ new[d].slot = table[d].slot
    BY DEF Labelled
  <2> QED
    BY <1>2, <2>1 DEF Beside
<1> QED
  BY <1>1, <1>2 DEF Beside

(* An occurrence is booked only into a slot nobody has, and stays there.   *)
LEMMA StaysBeside ==
  ASSUME NoDoubleBooking, [Next]_vars
  PROVE  NoDoubleBooking'
<1> SUFFICES Beside(rows, taken)'
  BY Restated, PTL
<1>0. Beside(rows, taken)
  BY Restated
<1>1. CASE UNCHANGED <<rows, taken>>
  BY <1>0, <1>1
<1>2. ASSUME NEW r \in Requests, Commit(r)
      PROVE  Beside(rows, taken)'
  <2>1. Beside(Written(jobs[r]), taken)
    BY <1>2 DEF Commit, Fits, Beside
  <2>2. PICK ok : rows' = Labelled(Written(jobs[r]), jobs[r].op, jobs[r].day, ok)
    BY <1>2 DEF Commit
  <2>3. taken' = taken
    BY <1>2 DEF Commit, world
  <2> QED
    BY <2>1, <2>2, <2>3, LabelsOnly
<1>3. CASE TickSend
  <2> DEFINE n == notices[retry.notice]
  <2>1. PICK ok, alert :
          LET done == Labelled(rows, n.type, n.day, ok)
          IN rows' = done \/ rows' = Labelled(done, "sync_alert", n.day, alert = "sent")
    BY <1>3 DEF TickSend
  <2>2. Beside(Labelled(rows, n.type, n.day, ok), taken)
    BY <1>0, LabelsOnly
  <2>3. taken' = taken
    BY <1>3 DEF TickSend, world
  <2> QED
    BY <2>1, <2>2, <2>3, LabelsOnly
<1>4. ASSUME NEW i \in DOMAIN notices, Resend(i)
      PROVE  Beside(rows, taken)'
  <2>1. PICK ok : rows' = Labelled(rows, notices[i].type, notices[i].day, ok)
    BY <1>4 DEF Resend
  <2>2. taken' = taken
    BY <1>4 DEF Resend, world
  <2> QED
    BY <1>0, <2>1, <2>2, LabelsOnly
<1>5. ASSUME NEW d, NEW slot, OtherBooks(d, slot)
      PROVE  Beside(rows, taken)'
  BY <1>0, <1>5 DEF OtherBooks, Beside, Live, bookings
<1>6. ASSUME NEW r \in Requests,
             \/ \E slot \in Slots : ReadCreate(r, slot) \/ ReadEdit(r, slot)
             \/ \E d \in Days : ReadCancelOne(r, d)
             \/ ReadCancelAll(r) \/ Refused(r) \/ Crash(r)
      PROVE  UNCHANGED <<rows, taken>>
  BY <1>6 DEF ReadCreate, ReadEdit, ReadCancelOne, ReadCancelAll, Begin, Refused, Crash,
              bookings, world
<1>7. TickRead \/ TickCrash \/ DayPasses => UNCHANGED <<rows, taken>>
  BY DEF TickRead, TickCrash, DayPasses, bookings, world
<1>8. UNCHANGED vars => UNCHANGED <<rows, taken>>
  BY DEF vars, bookings, world
<1> QED
  BY <1>1, <1>2, <1>3, <1>4, <1>5, <1>6, <1>7, <1>8 DEF Next

(* Two confirmed bookings never share a room at a time: between the check  *)
(* for conflicts and the write, the constraint decides.                    *)
THEOREM NeverDoubleBooked == Spec => []NoDoubleBooking
<1>1. Init => NoDoubleBooking
  BY DEF Init, NoDoubleBooking, Live
<1> QED
  BY <1>1, StaysBeside, PTL DEF Spec

-----------------------------------------------------------------------------
(* Types. *)

(* What each request holds.  A request that creates the meeting is alone:  *)
(* there are no rows yet.                                                  *)
JobTyped(job) ==
  \/ job = Idle
  \/ /\ job.op = "created" /\ DOMAIN rows = {}
     /\ job.days = Days /\ job.day = 1 /\ job.slot \in Slots /\ job.seq = 0
  \/ /\ job.op \in {"updated", "cancelled", "cancelled_occ"} /\ DOMAIN rows # {}
     /\ job.day \in Days /\ job.slot \in Slots /\ job.seq \in Nat

JobsTyped ==
  /\ jobs = [r \in Requests |-> jobs[r]]
  /\ \A r \in Requests : JobTyped(jobs[r])
  /\ \A r \in Requests : jobs[r].op = "created" => \A q \in Requests \ {r} : jobs[q] = Idle

RowsTyped(table) == \A d \in DOMAIN table : table[d] \in Rows

NoticesTyped ==
  /\ notices \in Seq(Notices)
  /\ \A i \in DOMAIN notices : notices[i].day \in DOMAIN rows
  /\ alerted \subseteq DOMAIN notices

(* The notice being retried has a retry left: only the tick counts them.   *)
RetryTyped ==
  \/ retry = NoRetry
  \/ /\ retry.notice \in DOMAIN notices /\ retry.seq \in Nat
     /\ notices[retry.notice].retries < Retries

CalendarTyped == \E n \in Nat : \E s : calendar = [seq |-> n, shown |-> s]

WorldTyped == recurring \in BOOLEAN /\ today \in 0 .. Occurrences /\ resent \in Nat

TypeInv ==
  /\ WorldTyped
  /\ DOMAIN rows \in {{}, Days} /\ RowsTyped(rows)
  /\ NoticesTyped /\ CalendarTyped /\ JobsTyped /\ RetryTyped

LEMMA TypesFollow == TypeInv => BookingTypeOK
<1> SUFFICES ASSUME TypeInv PROVE BookingTypeOK
  OBVIOUS
<1>1. \A i \in DOMAIN notices : notices[i] \in Notices /\ notices[i].day \in DOMAIN rows
  BY DEF TypeInv, NoticesTyped
<1>2. calendar.seq \in Nat
  BY DEF TypeInv, CalendarTyped
<1>3. retry.notice \in DOMAIN notices \cup {0}
  BY DEF TypeInv, RetryTyped, NoRetry
<1>4. DOMAIN jobs = Requests
  BY DEF TypeInv, JobsTyped
<1> QED
  BY <1>1, <1>2, <1>3, <1>4 DEF BookingTypeOK, TypeInv, WorldTyped, RowsTyped, NoticesTyped

-----------------------------------------------------------------------------
(* The least of a set of numbers.                                          *)
LEMMA LeastFirst ==
  ASSUME NEW S, S \subseteq Nat, S # {}
  PROVE  Min(S) \in S /\ \A d \in S : Min(S) <= d
<1>1. PICK m \in S : \A k \in S : m <= k
  BY LeastNatural
<1> QED
  BY <1>1 DEF Min

(* The highest of finitely many numbers.                                   *)
LEMMA HighestOf ==
  ASSUME NEW n \in Nat \ {0}, NEW f, \A d \in 1 .. n : f[d] \in Nat
  PROVE  \E m \in 1 .. n : \A d \in 1 .. n : f[d] <= f[m]
<1> DEFINE G == {k \in Nat : k \in 1 .. n => \E m \in 1 .. k : \A d \in 1 .. k : f[d] <= f[m]}
<1>1. 0 \in G
  OBVIOUS
<1>2. ASSUME NEW k \in Nat, k \in G PROVE k + 1 \in G
  <2> SUFFICES ASSUME k + 1 \in 1 .. n
               PROVE  \E m \in 1 .. k + 1 : \A d \in 1 .. k + 1 : f[d] <= f[m]
    OBVIOUS
  <2>1. CASE k = 0
    <3>1. \A d \in 1 .. k + 1 : d = 1
      BY <2>1
    <3> QED
      BY <2>1, <3>1
  <2>2. CASE k # 0
    <3>1. PICK m \in 1 .. k : \A d \in 1 .. k : f[d] <= f[m]
      BY <1>2, <2>2
    <3>2. \A d \in 1 .. k + 1 : d \in 1 .. k \/ d = k + 1
      OBVIOUS
    <3>3. f[m] \in Nat /\ f[k + 1] \in Nat /\ \A d \in 1 .. k : f[d] \in Nat
      OBVIOUS
    <3>4. CASE f[k + 1] <= f[m]
      BY <3>1, <3>2, <3>4
    <3>5. CASE ~ (f[k + 1] <= f[m])
      BY <3>1, <3>2, <3>3, <3>5
    <3> QED
      BY <3>4, <3>5
  <2> QED
    BY <2>1, <2>2
<1>3. Nat \subseteq G
  <2> HIDE DEF G
  <2> QED
    BY <1>1, <1>2, NaturalsIn
<1> QED
  BY <1>3

(* The days of a meeting are 1..n for some n.                              *)
LEMMA DaysAre ==
  ASSUME TypeInv
  PROVE  Days \subseteq Nat /\ 1 \in Days /\ \E n \in Nat \ {0} : Days = 1 .. n
<1>1. CASE recurring
  BY <1>1, OccurrenceAssumption DEF Days
<1>2. CASE ~ recurring
  <2>1. Days = 1 .. 1
    BY <1>2 DEF Days
  <2> QED
    BY <2>1
<1> QED
  BY <1>1, <1>2

(* An edit's SEQUENCE is a number above those of all rows.                 *)
LEMMA SequenceHigher ==
  ASSUME TypeInv, DOMAIN rows # {}
  PROVE  NextSequence \in Nat /\ \A d \in DOMAIN rows : rows[d].seq < NextSequence
<1>1. PICK n \in Nat \ {0} : DOMAIN rows = 1 .. n
  BY DaysAre DEF TypeInv
<1> DEFINE S == {rows[e].seq : e \in DOMAIN rows}
           f == [e \in 1 .. n |-> rows[e].seq]
<1>2. \A e \in 1 .. n : f[e] \in Nat /\ f[e] \in S
  BY <1>1 DEF TypeInv, RowsTyped, Rows
<1>3. PICK m \in 1 .. n : \A e \in 1 .. n : f[e] <= f[m]
  <2> HIDE DEF f
  <2> QED
    BY <1>1, <1>2, HighestOf
<1>4. \A q \in S : q \in Nat /\ \E e \in 1 .. n : q = f[e]
  BY <1>1, <1>2
<1>5. f[m] \in S /\ \A q \in S : f[m] >= q
  BY <1>2, <1>3, <1>4
<1>6. Max(S) \in S /\ \A q \in S : Max(S) >= q
  <2> HIDE DEF S, f
  <2> QED
    BY <1>5 DEF Max
<1>7. Max(S) \in Nat /\ \A d \in DOMAIN rows : rows[d].seq \in Nat /\ Max(S) >= rows[d].seq
  BY <1>4, <1>6
<1>8. NextSequence = Max(S) + 1
  BY DEF NextSequence
<1> HIDE DEF S, f
<1> QED
  BY <1>7, <1>8

(* The calendar stays a calendar.                                          *)
LEMMA ReceivedTyped ==
  ASSUME CalendarTyped, NEW mail, mail.seq \in Nat, calendar' \in {calendar, Received(mail)}
  PROVE  CalendarTyped'
<1>1. PICK n \in Nat : \E s : calendar = [seq |-> n, shown |-> s]
  BY DEF CalendarTyped
<1>2. PICK s : calendar = [seq |-> n, shown |-> s]
  BY <1>1
<1>3. CASE calendar' = calendar
  BY <1>1, <1>2, <1>3 DEF CalendarTyped
<1>4. CASE calendar' = [calendar EXCEPT !.shown = @ \ mail.slots]
  <2>1. calendar' = [seq |-> n, shown |-> s \ mail.slots]
    BY <1>2, <1>4
  <2> QED
    BY <2>1 DEF CalendarTyped
<1>5. CASE calendar' = [seq |-> mail.seq, shown |-> mail.slots]
  BY <1>5 DEF CalendarTyped
<1>6. \/ calendar' = calendar
      \/ calendar' = [calendar EXCEPT !.shown = @ \ mail.slots]
      \/ calendar' = [seq |-> mail.seq, shown |-> mail.slots]
  BY DEF Received
<1> QED
  BY <1>3, <1>4, <1>5, <1>6

LEMMA PostedTyped ==
  ASSUME CalendarTyped, NEW outcome, NEW type, NEW day, NEW slot, NEW seq \in Nat, NEW table,
         Posted(outcome, Invitation(type, day, slot, seq, table))
  PROVE  CalendarTyped'
<1> DEFINE mail == Invitation(type, day, slot, seq, table)
<1>1. mail.seq \in Nat
  BY DEF Invitation
<1>2. calendar' \in {calendar, Received(mail)}
  BY DEF Posted
<1> QED
  <2> HIDE DEF mail
  <2> QED
    BY <1>1, <1>2, ReceivedTyped

(* The rows stay rows: labelled, or written by a request.                  *)
LEMMA LabelledTyped ==
  ASSUME NEW table, RowsTyped(table), NEW type, NEW day, NEW ok
  PROVE  /\ DOMAIN Labelled(table, type, day, ok) = DOMAIN table
         /\ RowsTyped(Labelled(table, type, day, ok))
<1> DEFINE new == Labelled(table, type, day, ok)
<1>1. DOMAIN new = DOMAIN table
  BY DEF Labelled
<1>2. ASSUME NEW d \in DOMAIN table PROVE new[d] \in Rows
  <2>1. table[d] \in Rows /\ Verdict(ok) \in {"sent", "failed"}
    BY DEF RowsTyped, Verdict
  <2>2. \/ new[d] = table[d]
        \/ new[d] = [status |-> table[d].status, slot |-> table[d].slot, seq |-> table[d].seq,
                     label |-> Verdict(ok)]
    BY DEF Labelled
  <2> QED
    BY <2>1, <2>2 DEF Rows
<1> QED
  BY <1>1, <1>2 DEF RowsTyped

LEMMA WrittenTyped ==
  ASSUME TypeInv, NEW job, job # Idle, JobTyped(job)
  PROVE  DOMAIN Written(job) = Days /\ RowsTyped(Written(job))
<1>1. CASE job.op = "created"
  <2>1. DOMAIN Written(job) = Days
    BY <1>1 DEF Written, JobTyped, Idle
  <2>2. ASSUME NEW d \in Days PROVE Written(job)[d] \in Rows
    BY <1>1 DEF Written, JobTyped, Idle, Rows
  <2> QED
    BY <2>1, <2>2 DEF RowsTyped
<1>2. CASE job.op # "created"
  <2>1. job.slot \in Slots /\ job.seq \in Nat /\ DOMAIN rows = Days
    BY <1>2 DEF JobTyped, TypeInv
  <2>2. DOMAIN Written(job) = Days
    BY <1>2, <2>1 DEF Written
  <2>3. ASSUME NEW d \in Days PROVE Written(job)[d] \in Rows
    <3>1. rows[d] \in Rows
      BY <2>1 DEF TypeInv, RowsTyped
    <3> DEFINE status == IF job.op = "updated" THEN rows[d].status ELSE "cancelled"
               slot == IF job.moved THEN job.slot ELSE rows[d].slot
               seq == IF job.op = "cancelled" THEN rows[d].seq ELSE job.seq
    <3>2. /\ status \in {"confirmed", "cancelled"}
          /\ slot \in Slots
          /\ seq \in Nat
      BY <2>1, <3>1 DEF Rows
    <3>3. \/ Written(job)[d] = rows[d]
          \/ Written(job)[d] = [status |-> status, slot |-> slot, seq |-> seq,
                                label |-> "pending"]
      BY <1>2, <2>1 DEF Written
    <3> QED
      <4> HIDE DEF status, slot, seq
      <4> QED
        BY <3>1, <3>2, <3>3 DEF Rows
  <2> QED
    BY <2>2, <2>3 DEF RowsTyped
<1> QED
  BY <1>1, <1>2

(* A request begins with a job that fits the meeting as it is.             *)
LEMMA BeginTyped ==
  ASSUME TypeInv, NEW r \in Requests, NEW job, Begin(r, job), JobTyped(job), job # Idle,
         job.op = "created" => \A q \in Requests : jobs[q] = Idle
  PROVE  TypeInv'
<1>1. UNCHANGED <<rows, notices, alerted, recurring, today, calendar, retry, resent>>
  BY DEF Begin, bookings, world, counts
<1>2. /\ DOMAIN jobs = Requests
      /\ jobs' = [q \in Requests |-> IF q = r THEN job ELSE jobs[q]]
  BY DEF Begin, TypeInv, JobsTyped
<1>3. \A q \in Requests : JobTyped(jobs'[q])
  BY <1>2 DEF TypeInv, JobsTyped
<1>4. \A x : JobTyped(x)' <=> JobTyped(x)
  BY <1>1 DEF JobTyped, Days
<1>5. ASSUME NEW p \in Requests, jobs'[p].op = "created", NEW q \in Requests \ {p}
      PROVE  jobs'[q] = Idle
  <2>1. CASE job.op = "created"
    <3>1. \A x \in Requests : jobs[x] = Idle
      BY <2>1
    <3>2. p = r
      BY <1>2, <1>5, <3>1 DEF Idle
    <3> QED
      BY <1>2, <1>5, <3>1, <3>2
  <2>2. CASE job.op # "created"
    <3>1. DOMAIN rows # {}
      BY <2>2 DEF JobTyped
    <3>2. jobs[p].op = "created" /\ p # r
      BY <1>2, <1>5, <2>2
    <3>3. FALSE
      BY <3>1, <3>2 DEF TypeInv, JobsTyped, JobTyped, Idle
    <3> QED
      BY <3>3
  <2> QED
    BY <2>1, <2>2
<1>6. JobsTyped'
  BY <1>2, <1>3, <1>4, <1>5 DEF JobsTyped
<1>7. /\ WorldTyped' /\ NoticesTyped' /\ CalendarTyped' /\ RetryTyped'
      /\ DOMAIN rows' \in {{}, Days'} /\ RowsTyped(rows)'
  BY <1>1 DEF TypeInv, WorldTyped, NoticesTyped, CalendarTyped, RetryTyped, RowsTyped, Days
<1> QED
  BY <1>6, <1>7 DEF TypeInv

(* A request ends; what it leaves fits whatever the others hold.           *)
LEMMA EndTyped ==
  ASSUME TypeInv, NEW r \in Requests, jobs' = [jobs EXCEPT ![r] = Idle],
         recurring' = recurring,
         DOMAIN rows' = DOMAIN rows \/ jobs[r].op = "created"
  PROVE  JobsTyped'
<1>1. /\ DOMAIN jobs = Requests
      /\ jobs' = [q \in Requests |-> IF q = r THEN Idle ELSE jobs[q]]
  BY DEF TypeInv, JobsTyped
<1>2. ASSUME NEW q \in Requests PROVE JobTyped(jobs[q])' \/ jobs'[q] = Idle
  <2>1. CASE q = r
    BY <1>1, <2>1
  <2>2. CASE q # r /\ jobs[r].op = "created"
    BY <1>1, <2>2 DEF TypeInv, JobsTyped
  <2>3. CASE q # r /\ DOMAIN rows' = DOMAIN rows
    <3>1. JobTyped(jobs[q])
      BY DEF TypeInv, JobsTyped
    <3>2. jobs'[q] = jobs[q]
      BY <1>1, <2>3
    <3> QED
      BY <2>3, <3>1, <3>2 DEF JobTyped, Days
  <2> QED
    BY <2>1, <2>2, <2>3
<1>3. \A q \in Requests : JobTyped(jobs[q])'
  BY <1>2 DEF JobTyped
<1>4. ASSUME NEW p \in Requests, jobs'[p].op = "created", NEW q \in Requests \ {p}
      PROVE  jobs'[q] = Idle
  BY <1>1, <1>4 DEF TypeInv, JobsTyped, Idle
<1> QED
  BY <1>1, <1>3, <1>4 DEF JobsTyped

(* Each of the requests' reads makes such a job.                           *)
LEMMA ReadsTyped ==
  ASSUME TypeInv, NEW r \in Requests,
         \/ \E slot \in Slots : ReadCreate(r, slot) \/ ReadEdit(r, slot)
         \/ \E d \in Days : ReadCancelOne(r, d)
         \/ ReadCancelAll(r)
  PROVE  TypeInv'
<1>0. Live \subseteq Days /\ Days \subseteq Nat
  BY DaysAre DEF Live, TypeInv
<1>1. \A d \in Live : DOMAIN rows # {} /\ rows[d] \in Rows
  BY DEF Live, TypeInv, RowsTyped
<1>2. ASSUME NEW slot \in Slots, ReadCreate(r, slot) PROVE TypeInv'
  <2> DEFINE job == [op |-> "created", days |-> Days, day |-> 1, slot |-> slot, seq |-> 0,
                     moved |-> TRUE]
  <2>1. Begin(r, job) /\ rows = << >> /\ \A q \in Requests : jobs[q] = Idle
    BY <1>2 DEF ReadCreate
  <2>2. JobTyped(job) /\ job.op # Idle.op
    BY <2>1 DEF JobTyped, Idle
  <2> QED
    <3> HIDE DEF job
    <3> QED
      BY <2>1, <2>2, BeginTyped
<1>3. ASSUME NEW slot \in Slots, ReadEdit(r, slot) PROVE TypeInv'
  <2> DEFINE live == IF recurring THEN Live \cap Future ELSE Live
             job == [op |-> "updated", days |-> Edited, day |-> Min(live), slot |-> slot,
                     seq |-> NextSequence, moved |-> slot # rows[Min(live)].slot]
  <2>1. Begin(r, job) /\ live # {}
    BY <1>3 DEF ReadEdit
  <2>2. live \subseteq Live
    OBVIOUS
  <2>3. Min(live) \in live
    <3> HIDE DEF live
    <3> QED
      BY <1>0, <2>1, <2>2, LeastFirst
  <2>4. NextSequence \in Nat
    BY <1>1, <2>2, <2>3, SequenceHigher
  <2>5. /\ job.op = "updated" /\ job.day = Min(live) /\ job.slot = slot
        /\ job.seq = NextSequence
    OBVIOUS
  <2> HIDE DEF job, live
  <2>6. JobTyped(job) /\ job.op # Idle.op
    BY <1>0, <1>1, <2>2, <2>3, <2>4, <2>5 DEF JobTyped, Idle
  <2> QED
    BY <2>1, <2>5, <2>6, BeginTyped
<1>4. ASSUME NEW d \in Days, ReadCancelOne(r, d) PROVE TypeInv'
  <2> DEFINE job == [op |-> IF recurring THEN "cancelled_occ" ELSE "cancelled", days |-> {d},
                     day |-> d, slot |-> rows[d].slot, moved |-> FALSE,
                     seq |-> IF recurring THEN rows[d].seq + 1 ELSE rows[d].seq]
  <2>1. Begin(r, job) /\ d \in Live
    BY <1>4 DEF ReadCancelOne
  <2>2. /\ job.op \in {"cancelled_occ", "cancelled"} /\ job.day = d
        /\ job.slot = rows[d].slot
        /\ job.seq \in {rows[d].seq + 1, rows[d].seq}
    OBVIOUS
  <2>3. rows[d].slot \in Slots /\ rows[d].seq \in Nat /\ DOMAIN rows # {}
    BY <1>1, <2>1 DEF Rows
  <2> HIDE DEF job
  <2>4. JobTyped(job) /\ job.op # Idle.op
    BY <2>2, <2>3 DEF JobTyped, Idle
  <2> QED
    BY <2>1, <2>2, <2>4, BeginTyped
<1>5. ASSUME ReadCancelAll(r) PROVE TypeInv'
  <2> DEFINE d == Min(Live \cap Future)
             job == [op |-> "cancelled", days |-> Live \cap Future, day |-> d,
                     slot |-> rows[d].slot, seq |-> rows[d].seq, moved |-> FALSE]
  <2>1. Begin(r, job) /\ Live \cap Future # {}
    BY <1>5 DEF ReadCancelAll
  <2>2. d \in Live
    BY <1>0, <2>1, LeastFirst
  <2>3. job.op = "cancelled" /\ job.day = d /\ job.slot = rows[d].slot /\ job.seq = rows[d].seq
    OBVIOUS
  <2> HIDE DEF job, d
  <2>4. rows[d].slot \in Slots /\ rows[d].seq \in Nat /\ DOMAIN rows # {} /\ d \in Days
    BY <1>0, <1>1, <2>2 DEF Rows
  <2>5. JobTyped(job) /\ job.op # Idle.op
    BY <2>3, <2>4 DEF JobTyped, Idle
  <2> QED
    BY <2>1, <2>3, <2>5, BeginTyped
<1> QED
  BY <1>2, <1>3, <1>4, <1>5

(* The notice being retried stays in the list.                             *)
LEMMA RetryStays ==
  ASSUME RetryTyped, retry' = retry, DOMAIN notices \subseteq DOMAIN notices',
         \A i \in DOMAIN notices : notices'[i].retries = notices[i].retries
  PROVE  RetryTyped'
BY DEF RetryTyped

(* The actions one by one.                                                 *)
LEMMA CommitTyped ==
  ASSUME TypeInv, NEW r \in Requests, Commit(r)
  PROVE  TypeInv'
<1> DEFINE job == jobs[r]
<1>1. PICK outcome \in Outcomes :
        /\ Posted(outcome, JobMail(job))
        /\ rows' = Labelled(Written(job), job.op, job.day, outcome.reported)
        /\ notices' = Append(notices, [type |-> job.op, day |-> job.day, retries |-> 0,
                                       status |-> Verdict(outcome.reported)])
  BY DEF Commit
<1>2. /\ job # Idle /\ JobTyped(job)
      /\ jobs' = [jobs EXCEPT ![r] = Idle]
      /\ UNCHANGED <<alerted, recurring, today, retry, resent>>
  BY DEF Commit, TypeInv, JobsTyped, world, counts
<1>3. job.op \in {"created", "updated", "cancelled", "cancelled_occ"} /\ job.day \in Days
      /\ job.seq \in Nat
  BY <1>2, DaysAre DEF JobTyped
<1>4. DOMAIN Written(job) = Days /\ RowsTyped(Written(job))
  <2> HIDE DEF job
  <2> QED
    BY <1>2, WrittenTyped
<1>5. DOMAIN rows' = Days /\ RowsTyped(rows')
  BY <1>1, <1>4, LabelledTyped
<1>6. RowsTyped(rows)' /\ Days' = Days /\ WorldTyped'
  BY <1>2, <1>5 DEF RowsTyped, Days, TypeInv, WorldTyped
<1>7. CalendarTyped'
  BY <1>1, <1>3, PostedTyped DEF JobMail, TypeInv
<1>8. JobsTyped'
  <2>1. DOMAIN rows' = DOMAIN rows \/ job.op = "created"
    BY <1>2, <1>5 DEF JobTyped, TypeInv
  <2> QED
    BY <1>2, <2>1, EndTyped
<1> DEFINE n == [type |-> job.op, day |-> job.day, retries |-> 0,
                 status |-> Verdict(outcome.reported)]
<1>9. n \in Notices /\ n.day = job.day
  BY <1>3, DaysAre, RetryAssumption DEF Notices, Verdict
<1>10. NoticesTyped'
  <2>0. notices' = Append(notices, n)
    BY <1>1
  <2> HIDE DEF n
  <2>1. notices' \in Seq(Notices)
    BY <1>9, <2>0 DEF TypeInv, NoticesTyped
  <2>2. /\ DOMAIN notices' = DOMAIN notices \cup {Len(notices) + 1}
        /\ \A i \in DOMAIN notices : notices'[i] = notices[i]
        /\ notices'[Len(notices) + 1] = n
    BY <2>0 DEF TypeInv, NoticesTyped
  <2>3. ASSUME NEW i \in DOMAIN notices' PROVE notices'[i].day \in Days
    <3>1. CASE i \in DOMAIN notices
      <4>1. notices'[i] = notices[i] /\ notices[i].day \in DOMAIN rows
        BY <2>2, <3>1 DEF TypeInv, NoticesTyped
      <4> QED
        BY <4>1 DEF TypeInv
    <3>2. CASE i = Len(notices) + 1
      BY <1>3, <1>9, <2>2, <3>2
    <3> QED
      BY <2>2, <3>1, <3>2
  <2> QED
    BY <1>2, <1>5, <2>1, <2>2, <2>3 DEF TypeInv, NoticesTyped
<1>11. RetryTyped'
  <2>1. notices' = Append(notices, n)
    BY <1>1
  <2> HIDE DEF n
  <2>2. DOMAIN notices \subseteq DOMAIN notices' /\ \A i \in DOMAIN notices : notices'[i] = notices[i]
    BY <2>1 DEF TypeInv, NoticesTyped
  <2> QED
    BY <1>2, <2>2, RetryStays DEF TypeInv
<1> QED
  BY <1>5, <1>6, <1>7, <1>8, <1>10, <1>11 DEF TypeInv

(* The tick and Resend answer a notice, mail its row and label rows.       *)
LEMMA AnswerTyped ==
  ASSUME TypeInv, NEW i \in DOMAIN notices,
         UNCHANGED <<recurring, today, jobs>>, resent' \in Nat,
         NEW outcome, NEW type, NEW slot, NEW seq \in Nat,
         Posted(outcome, Invitation(type, notices[i].day, slot, seq, rows)),
         NEW table, RowsTyped(table), DOMAIN table = DOMAIN rows, rows' = table,
         NEW n \in Notices, n.day = notices[i].day, notices' = [notices EXCEPT ![i] = n],
         alerted' \in {alerted, alerted \cup {i}},
         \/ retry' = NoRetry
         \/ retry' = retry /\ n.retries = notices[i].retries
  PROVE  TypeInv'
<1>1. NoticesTyped
  BY DEF TypeInv
<1>2. /\ notices' \in Seq(Notices) /\ DOMAIN notices' = DOMAIN notices
      /\ \A j \in DOMAIN notices : notices'[j] = IF j = i THEN n ELSE notices[j]
  BY <1>1 DEF NoticesTyped
<1>3. NoticesTyped'
  BY <1>1, <1>2 DEF NoticesTyped
<1>4. RetryTyped'
  <2>1. CASE retry' = NoRetry
    BY <2>1 DEF RetryTyped
  <2>2. CASE retry' = retry /\ n.retries = notices[i].retries
    BY <1>2, <2>2, RetryStays DEF TypeInv
  <2> QED
    BY <2>1, <2>2
<1>5. CalendarTyped'
  <2>1. CalendarTyped
    BY DEF TypeInv
  <2> QED
    BY <2>1, PostedTyped
<1>6. JobsTyped'
  BY DEF TypeInv, JobsTyped, JobTyped, Days
<1>7. WorldTyped' /\ RowsTyped(rows)' /\ DOMAIN rows' \in {{}, Days'}
  BY DEF TypeInv, WorldTyped, RowsTyped, Days
<1> QED
  BY <1>3, <1>4, <1>5, <1>6, <1>7 DEF TypeInv

LEMMA TickSendTyped ==
  ASSUME TypeInv, TickSend
  PROVE  TypeInv'
<1> DEFINE i == retry.notice
           n == notices[i]
<1>1. PICK outcome \in Outcomes, alert \in {"sent", "failed", "unaddressed"} :
        LET done == Labelled(rows, n.type, n.day, outcome.reported)
            gaveUp == ~ outcome.reported /\ Exhausted(n.retries + 1)
        IN /\ Posted(outcome, Invitation(n.type, n.day, retry.slot, retry.seq, rows))
           /\ notices' = [notices EXCEPT ![i].retries = n.retries + 1,
                                         ![i].status = IF outcome.reported THEN "sent" ELSE @]
           /\ alerted' = IF gaveUp THEN alerted \cup {i} ELSE alerted
           /\ rows' = IF gaveUp /\ alert # "unaddressed"
                      THEN Labelled(done, "sync_alert", n.day, alert = "sent")
                      ELSE done
  BY DEF TickSend
<1>2. /\ retry' = NoRetry
      /\ UNCHANGED <<recurring, today, jobs, resent>>
      /\ i \in DOMAIN notices /\ retry.seq \in Nat /\ n.retries < Retries
  BY DEF TickSend, TypeInv, RetryTyped, world, counts
<1>3. n \in Notices
  BY <1>2 DEF TypeInv, NoticesTyped
<1> DEFINE m == [type |-> n.type, day |-> n.day, retries |-> n.retries + 1,
                 status |-> IF outcome.reported THEN "sent" ELSE n.status]
<1>4. m \in Notices /\ m.day = n.day
  BY <1>2, <1>3, RetryAssumption DEF Notices
<1>5. notices' = [notices EXCEPT ![i] = m]
  <2>1. notices' = [notices EXCEPT ![i] = [[notices[i] EXCEPT !.retries = n.retries + 1] EXCEPT
                      !.status = IF outcome.reported THEN "sent" ELSE @]]
    BY <1>1, <1>2
  <2>2. n = [type |-> n.type, day |-> n.day, status |-> n.status, retries |-> n.retries]
    BY <1>3 DEF Notices
  <2>3. ASSUME NEW a, a = [type |-> n.type, day |-> n.day, status |-> n.status,
                           retries |-> n.retries + 1],
               NEW s
        PROVE  [a EXCEPT !.status = s] = [type |-> n.type, day |-> n.day,
                                          retries |-> n.retries + 1, status |-> s]
    BY <2>3
  <2>4. [n EXCEPT !.retries = n.retries + 1]
          = [type |-> n.type, day |-> n.day, status |-> n.status, retries |-> n.retries + 1]
    BY <2>2
  <2>5. [[n EXCEPT !.retries = n.retries + 1] EXCEPT
           !.status = IF outcome.reported THEN "sent" ELSE @] = m
    BY <2>3, <2>4
  <2> QED
    BY <2>1, <2>5
<1>6. alerted' \in {alerted, alerted \cup {i}}
  BY <1>1
<1>7. RowsTyped(rows') /\ DOMAIN rows' = DOMAIN rows
  <2> DEFINE done == Labelled(rows, n.type, n.day, outcome.reported)
  <2>1. DOMAIN done = DOMAIN rows /\ RowsTyped(done)
    BY LabelledTyped DEF TypeInv
  <2>2. \/ rows' = done
        \/ rows' = Labelled(done, "sync_alert", n.day, alert = "sent")
    BY <1>1
  <2> HIDE DEF done
  <2> QED
    BY <2>1, <2>2, LabelledTyped
<1>8. Posted(outcome, Invitation(n.type, n.day, retry.slot, retry.seq, rows))
  BY <1>1
<1>9. resent \in Nat
  BY DEF TypeInv, WorldTyped
<1> QED
  <2> SUFFICES ASSUME NEW table, table = rows' PROVE TypeInv'
    OBVIOUS
  <2> HIDE DEF m
  <2> QED
    BY <1>2, <1>4, <1>5, <1>6, <1>7, <1>8, <1>9, AnswerTyped

LEMMA ResendTyped ==
  ASSUME TypeInv, NEW i \in DOMAIN notices, Resend(i)
  PROVE  TypeInv'
<1> DEFINE n == notices[i]
           row == rows[n.day]
<1>1. PICK outcome \in Outcomes :
          /\ Posted(outcome, Invitation(n.type, n.day, row.slot, row.seq, rows))
          /\ notices' = [notices EXCEPT ![i].status = Verdict(outcome.reported)]
          /\ rows' = Labelled(rows, n.type, n.day, outcome.reported)
  BY DEF Resend
<1>2. UNCHANGED <<recurring, today, jobs, alerted, retry>> /\ resent' \in Nat
  BY DEF Resend, world, TypeInv, WorldTyped
<1>3. n \in Notices /\ row.seq \in Nat
  BY DEF TypeInv, NoticesTyped, RowsTyped, Rows
<1> DEFINE m == [type |-> n.type, day |-> n.day, retries |-> n.retries,
                 status |-> Verdict(outcome.reported)]
<1>4. m \in Notices /\ m.day = n.day /\ m.retries = n.retries
  BY <1>3 DEF Notices, Verdict
<1>5. notices' = [notices EXCEPT ![i] = m]
  <2>1. [n EXCEPT !.status = Verdict(outcome.reported)] = m
    BY <1>3 DEF Notices
  <2> QED
    BY <1>1, <2>1
<1>6. RowsTyped(rows') /\ DOMAIN rows' = DOMAIN rows
  BY <1>1, LabelledTyped DEF TypeInv
<1>7. Posted(outcome, Invitation(n.type, n.day, row.slot, row.seq, rows))
  BY <1>1
<1> QED
  <2> SUFFICES ASSUME NEW table, table = rows' PROVE TypeInv'
    OBVIOUS
  <2> HIDE DEF m
  <2> QED
    BY <1>2, <1>3, <1>4, <1>5, <1>6, <1>7, AnswerTyped

LEMMA TickReadTyped ==
  ASSUME TypeInv, TickRead
  PROVE  TypeInv'
<1>1. PICK i \in DOMAIN notices :
        /\ RetryDue(notices[i])
        /\ retry' = [notice |-> i, slot |-> rows[notices[i].day].slot,
                     seq |-> rows[notices[i].day].seq]
  BY DEF TickRead
<1>2. UNCHANGED <<rows, notices, alerted, recurring, today, calendar, jobs, resent>>
  BY DEF TickRead, bookings, world, counts
<1>3. rows[notices[i].day].seq \in Nat
  BY DEF TypeInv, NoticesTyped, RowsTyped, Rows
<1>4. RetryTyped'
  BY <1>1, <1>2, <1>3 DEF RetryTyped, RetryDue
<1> QED
  BY <1>2, <1>4 DEF TypeInv, WorldTyped, NoticesTyped, CalendarTyped, JobsTyped, JobTyped,
                    RowsTyped, Days

LEMMA TickCrashTyped ==
  ASSUME TypeInv, TickCrash
  PROVE  TypeInv'
<1> DEFINE n == notices[retry.notice]
<1>1. PICK outcome \in Outcomes :
        Posted(outcome, Invitation(n.type, n.day, retry.slot, retry.seq, rows))
  BY DEF TickCrash
<1>2. /\ UNCHANGED <<rows, notices, alerted, recurring, today, jobs, resent>>
      /\ retry' = NoRetry /\ retry # NoRetry
  BY DEF TickCrash, bookings, world
<1>3. CalendarTyped'
  <2>1. CalendarTyped /\ retry.seq \in Nat
    BY <1>2 DEF TypeInv, RetryTyped
  <2> HIDE DEF n
  <2> QED
    BY <1>1, <2>1, PostedTyped
<1>4. RetryTyped'
  BY <1>2 DEF RetryTyped
<1> QED
  BY <1>2, <1>3, <1>4 DEF TypeInv, WorldTyped, NoticesTyped, JobsTyped, JobTyped, RowsTyped, Days

LEMMA DropsTyped ==
  ASSUME TypeInv, NEW r \in Requests, Refused(r) \/ Crash(r)
  PROVE  TypeInv'
<1>1. /\ jobs' = [jobs EXCEPT ![r] = Idle] /\ jobs[r] # Idle
      /\ UNCHANGED <<rows, notices, alerted, recurring, today, retry, resent>>
  BY DEF Refused, Crash, bookings, world, counts
<1>2. JobsTyped'
  BY <1>1, EndTyped
<1>3. CalendarTyped'
  <2>1. CASE Refused(r)
    BY <2>1 DEF Refused, TypeInv, CalendarTyped
  <2>2. CASE Crash(r)
    <3>1. calendar' = Received(JobMail(jobs[r]))
      BY <2>2 DEF Crash
    <3>2. JobMail(jobs[r]).seq \in Nat
      <4>1. jobs[r].seq \in Nat
        BY <1>1 DEF TypeInv, JobsTyped, JobTyped
      <4> QED
        BY <4>1 DEF JobMail, Invitation
    <3>3. CalendarTyped
      BY DEF TypeInv
    <3> QED
      BY <3>1, <3>2, <3>3, ReceivedTyped
  <2> QED
    BY <2>1, <2>2
<1>4. RetryTyped' /\ WorldTyped' /\ NoticesTyped' /\ RowsTyped(rows)'
      /\ DOMAIN rows' \in {{}, Days'}
  BY <1>1 DEF TypeInv, WorldTyped, NoticesTyped, RowsTyped, RetryTyped, Days
<1> QED
  BY <1>2, <1>3, <1>4 DEF TypeInv

LEMMA OthersTyped ==
  ASSUME TypeInv,
         \/ \E d \in Days, slot \in Slots : OtherBooks(d, slot)
         \/ DayPasses
         \/ UNCHANGED vars
  PROVE  TypeInv'
<1>1. UNCHANGED <<rows, notices, alerted, recurring, calendar, jobs, retry, resent>>
  BY DEF OtherBooks, DayPasses, vars, bookings, world, counts
<1>2. today' \in 0 .. Occurrences
  BY OccurrenceAssumption DEF OtherBooks, DayPasses, vars, world, TypeInv, WorldTyped
<1> QED
  BY <1>1, <1>2 DEF TypeInv, WorldTyped, NoticesTyped, CalendarTyped, JobsTyped, JobTyped,
                    RetryTyped, RowsTyped, Days

LEMMA TypesKept ==
  ASSUME TypeInv, [Next]_vars
  PROVE  TypeInv'
<1>1. ASSUME NEW r \in Requests, Commit(r) PROVE TypeInv'
  BY <1>1, CommitTyped
<1>2. ASSUME NEW r \in Requests, Refused(r) \/ Crash(r) PROVE TypeInv'
  BY <1>2, DropsTyped
<1>3. ASSUME NEW r \in Requests,
             \/ \E slot \in Slots : ReadCreate(r, slot) \/ ReadEdit(r, slot)
             \/ \E d \in Days : ReadCancelOne(r, d)
             \/ ReadCancelAll(r)
      PROVE  TypeInv'
  BY <1>3, ReadsTyped
<1>4. CASE TickRead \/ TickSend \/ TickCrash
  BY <1>4, TickReadTyped, TickSendTyped, TickCrashTyped
<1>5. ASSUME NEW i \in DOMAIN notices, Resend(i) PROVE TypeInv'
  BY <1>5, ResendTyped
<1>6. CASE \/ \E d \in Days, slot \in Slots : OtherBooks(d, slot)
           \/ DayPasses
           \/ UNCHANGED vars
  BY <1>6, OthersTyped
<1> QED
  BY <1>1, <1>2, <1>3, <1>4, <1>5, <1>6 DEF Next

LEMMA TypesInitially == Init => TypeInv
<1> SUFFICES ASSUME Init PROVE TypeInv
  OBVIOUS
<1>1. DOMAIN rows = {} /\ notices \in Seq(Notices) /\ DOMAIN notices = {}
  BY DEF Init
<1>2. CalendarTyped
  BY DEF Init, CalendarTyped
<1>3. JobsTyped
  BY DEF Init, JobsTyped, JobTyped, Idle
<1>4. RetryTyped /\ WorldTyped
  BY OccurrenceAssumption DEF Init, RetryTyped, WorldTyped
<1> QED
  BY <1>1, <1>2, <1>3, <1>4 DEF Init, TypeInv, NoticesTyped, RowsTyped

LEMMA TypesAlways == Spec => []TypeInv
BY TypesInitially, TypesKept, PTL DEF Spec

(* BookingTypeOK: rows, notices, retries, jobs and calendar keep their     *)
(* types under any overlap of requests, ticks, resends and crashes.        *)
THEOREM BookingTypes == Spec => []BookingTypeOK
BY TypesAlways, TypesFollow, PTL

-----------------------------------------------------------------------------
(* Only the tick raises the count of retries, and it alerts at the last.   *)
LEMMA AlertsKept ==
  ASSUME TypeInv, GivenUpIsAlerted, [Next]_vars
  PROVE  GivenUpIsAlerted'
<1> SUFFICES ASSUME resent' = 0, NEW i \in DOMAIN notices',
                    notices'[i].status = "failed", notices'[i].retries >= Retries
             PROVE  i \in alerted'
  BY DEF GivenUpIsAlerted
<1>0. resent \in Nat /\ notices \in Seq(Notices)
  BY DEF TypeInv, WorldTyped, NoticesTyped
<1>1. ASSUME resent = 0, i \in DOMAIN notices, alerted' = alerted, notices'[i] = notices[i]
      PROVE  i \in alerted'
  BY <1>1 DEF GivenUpIsAlerted
<1>2. CASE UNCHANGED <<notices, alerted, resent>>
  BY <1>1, <1>2
<1>3. ASSUME NEW r \in Requests, Commit(r) PROVE i \in alerted'
  <2>1. PICK n : n.retries = 0 /\ notices' = Append(notices, n)
    BY <1>3 DEF Commit
  <2>2. UNCHANGED <<alerted, resent>>
    BY <1>3 DEF Commit, counts
  <2>3. \/ i \in DOMAIN notices /\ notices'[i] = notices[i]
        \/ notices'[i] = n
    BY <1>0, <2>1
  <2>4. notices'[i] # n
    BY <2>1, RetryAssumption
  <2> QED
    BY <1>1, <2>2, <2>3, <2>4
<1>4. CASE TickSend
  <2> DEFINE k == retry.notice
             n == notices[k]
  <2>1. PICK ok \in BOOLEAN :
          /\ notices' = [notices EXCEPT ![k].retries = n.retries + 1,
                                        ![k].status = IF ok THEN "sent" ELSE @]
          /\ alerted' = IF ~ ok /\ Exhausted(n.retries + 1) THEN alerted \cup {k} ELSE alerted
    BY <1>4 DEF TickSend, Outcomes
  <2>2. resent = 0 /\ k \in DOMAIN notices /\ n \in Notices
    BY <1>4, <1>0 DEF TickSend, counts, TypeInv, RetryTyped
  <2>3. i \in DOMAIN notices
    BY <2>1
  <2>4. CASE i # k
    <3>1. notices'[i] = notices[i]
      BY <1>0, <2>1, <2>3, <2>4
    <3>2. i \in alerted
      BY <2>2, <2>3, <3>1 DEF GivenUpIsAlerted
    <3> QED
      BY <2>1, <3>2
  <2>5. CASE i = k
    <3>1. notices'[k].retries = n.retries + 1 /\ (ok => notices'[k].status = "sent")
      BY <1>0, <2>1, <2>2 DEF Notices
    <3> QED
      BY <2>1, <2>5, <3>1 DEF Exhausted
  <2> QED
    BY <2>4, <2>5
<1>5. ASSUME NEW j \in DOMAIN notices, Resend(j) PROVE FALSE
  BY <1>0, <1>5 DEF Resend
<1>6. ASSUME NEW r \in Requests,
             \/ \E slot \in Slots : ReadCreate(r, slot) \/ ReadEdit(r, slot)
             \/ \E d \in Days : ReadCancelOne(r, d)
             \/ ReadCancelAll(r) \/ Refused(r) \/ Crash(r)
      PROVE  UNCHANGED <<notices, alerted, resent>>
  BY <1>6 DEF ReadCreate, ReadEdit, ReadCancelOne, ReadCancelAll, Begin, Refused, Crash,
              bookings, counts
<1>7. ASSUME \/ TickRead \/ TickCrash \/ DayPasses \/ UNCHANGED vars
             \/ \E d \in Days, slot \in Slots : OtherBooks(d, slot)
      PROVE  UNCHANGED <<notices, alerted, resent>>
  BY <1>7 DEF TickRead, TickCrash, DayPasses, OtherBooks, vars, bookings, counts
<1> QED
  BY <1>2, <1>3, <1>4, <1>5, <1>6, <1>7 DEF Next

(* GivenUpIsAlerted (BK-SYNC-04): a notice that used up its retries was    *)
(* alerted about.                                                          *)
THEOREM GivenUpNeverSilent == Spec => []GivenUpIsAlerted
<1>1. Init => GivenUpIsAlerted
  BY DEF Init, GivenUpIsAlerted
<1> QED
  BY <1>1, TypesAlways, AlertsKept, PTL DEF Spec

-----------------------------------------------------------------------------
(* A notice behind a failed label: it is about that row, covers it, or was *)
(* given up, when the alert's outcome is what the label shows.             *)
Explains(n, d, table) ==
  /\ n.status = "failed"
  /\ n.day = d \/ Covers(n.type, d, table) \/ n.retries >= Retries

LabelsExplained ==
  \A d \in DOMAIN rows : rows[d].label = "failed" =>
    \E i \in DOMAIN notices : Explains(notices[i], d, rows)

LabelInv ==
  resent = 0 =>
    /\ retry # NoRetry => notices[retry.notice].status = "failed"
    /\ LabelsExplained

LEMMA LabelsFollow == LabelInv => FailedLabelsTrue
BY DEF LabelInv, FailedLabelsTrue, LabelsExplained, Explains

(* Commit: the rows written have a new label, the others keep theirs and   *)
(* what a series' notice covers of them.                                   *)
LEMMA CommitLabels ==
  ASSUME TypeInv, LabelInv, resent = 0, NEW r \in Requests, Commit(r)
  PROVE  LabelsExplained'
<1> DEFINE job == jobs[r]
<1>1. PICK ok, n :
        /\ rows' = Labelled(Written(job), job.op, job.day, ok)
        /\ n.type = job.op /\ n.day = job.day /\ n.status = Verdict(ok)
        /\ notices' = Append(notices, n)
  BY DEF Commit
<1>2. recurring' = recurring /\ notices \in Seq(Notices) /\ job # Idle /\ JobTyped(job)
  BY DEF Commit, world, TypeInv, NoticesTyped, JobsTyped
<1>3. /\ \A i \in DOMAIN notices : i \in DOMAIN notices' /\ notices'[i] = notices[i]
      /\ Len(notices) + 1 \in DOMAIN notices' /\ notices'[Len(notices) + 1] = n
  BY <1>1, <1>2
<1>4. DOMAIN rows' = DOMAIN Written(job)
  BY <1>1 DEF Labelled
<1> SUFFICES ASSUME NEW d \in DOMAIN rows', rows'[d].label = "failed"
             PROVE  \E i \in DOMAIN notices' : Explains(notices'[i], d, rows')
  BY <1>2 DEF LabelsExplained, Explains, Covers
<1>5. rows'[d].status = Written(job)[d].status
  BY <1>1, <1>4 DEF Labelled
<1>6. CASE d = job.day \/ Covers(job.op, d, Written(job))
  <2>1. n.status = "failed"
    BY <1>1, <1>4, <1>6 DEF Labelled
  <2>2. n.day = d \/ Covers(n.type, d, rows')
    BY <1>1, <1>5, <1>6 DEF Covers
  <2> QED
    BY <1>3, <2>1, <2>2 DEF Explains
<1>7. CASE ~ (d = job.day \/ Covers(job.op, d, Written(job)))
  <2>1. rows'[d] = Written(job)[d]
    BY <1>1, <1>4, <1>7 DEF Labelled
  <2>2. job.op # "created" /\ d \notin job.days /\ d \in DOMAIN rows /\ rows'[d] = rows[d]
    BY <1>4, <2>1 DEF Written
  <2>3. PICK i \in DOMAIN notices : Explains(notices[i], d, rows)
    BY <2>2 DEF LabelInv, LabelsExplained
  <2>4. Explains(notices'[i], d, rows')
    BY <1>3, <2>2, <2>3 DEF Explains, Covers
  <2> QED
    BY <1>3, <2>4
<1> QED
  BY <1>6, <1>7

(* A retry: what it labels failed it explains, what was explained by it is *)
(* labelled with its outcome.                                              *)
LEMMA TickSendLabels ==
  ASSUME TypeInv, LabelInv, resent = 0, TickSend
  PROVE  LabelsExplained'
<1> DEFINE k == retry.notice
           n == notices[k]
<1>1. PICK ok \in BOOLEAN, alert \in {"sent", "failed", "unaddressed"} :
        LET done == Labelled(rows, n.type, n.day, ok)
            gaveUp == ~ ok /\ Exhausted(n.retries + 1)
        IN /\ notices' = [notices EXCEPT ![k].retries = n.retries + 1,
                                         ![k].status = IF ok THEN "sent" ELSE @]
           /\ rows' = IF gaveUp /\ alert # "unaddressed"
                      THEN Labelled(done, "sync_alert", n.day, alert = "sent")
                      ELSE done
  BY DEF TickSend, Outcomes
<1> DEFINE done == Labelled(rows, n.type, n.day, ok)
<1>2. /\ recurring' = recurring /\ notices \in Seq(Notices)
      /\ k \in DOMAIN notices /\ n \in Notices /\ n.status = "failed" /\ n.retries < Retries
  BY DEF TickSend, world, TypeInv, NoticesTyped, RetryTyped, LabelInv
<1>3. /\ DOMAIN notices' = DOMAIN notices
      /\ \A i \in DOMAIN notices : i # k => notices'[i] = notices[i]
      /\ notices'[k].type = n.type /\ notices'[k].day = n.day
      /\ notices'[k].retries = n.retries + 1
      /\ ~ ok => notices'[k].status = "failed"
  BY <1>1, <1>2 DEF Notices
<1>4. /\ DOMAIN done = DOMAIN rows
      /\ \A d \in DOMAIN rows : done[d].status = rows[d].status
  BY DEF Labelled
<1>5. /\ DOMAIN rows' = DOMAIN rows
      /\ \A d \in DOMAIN rows : rows'[d].status = rows[d].status
      /\ ~ (~ ok /\ Exhausted(n.retries + 1)) => rows' = done
  <2>1. \/ rows' = done
        \/ rows' = Labelled(done, "sync_alert", n.day, alert = "sent")
    BY <1>1
  <2>2. ~ (~ ok /\ Exhausted(n.retries + 1)) => rows' = done
    BY <1>1
  <2> HIDE DEF done
  <2> QED
    BY <1>4, <2>1, <2>2 DEF Labelled
<1> SUFFICES ASSUME NEW d \in DOMAIN rows, rows'[d].label = "failed"
             PROVE  \E i \in DOMAIN notices : Explains(notices'[i], d, rows')
  BY <1>2, <1>3, <1>5 DEF LabelsExplained, Explains, Covers
<1>6. \A type : Covers(type, d, rows)' <=> Covers(type, d, rows)
  BY <1>2, <1>5 DEF Covers
<1>7. CASE ~ ok /\ Exhausted(n.retries + 1)
  BY <1>2, <1>3, <1>7 DEF Explains, Exhausted
<1>8. CASE ~ (~ ok /\ Exhausted(n.retries + 1))
  <2>1. rows' = done
    BY <1>5, <1>8
  <2>2. CASE d = n.day \/ Covers(n.type, d, rows)
    <3>1. ~ ok
      BY <2>1, <2>2 DEF Labelled, Verdict
    <3> QED
      BY <1>2, <1>3, <1>6, <2>2, <3>1 DEF Explains, Covers
  <2>3. CASE ~ (d = n.day \/ Covers(n.type, d, rows))
    <3>1. rows'[d] = rows[d]
      BY <2>1, <2>3 DEF Labelled
    <3>2. PICK i \in DOMAIN notices : Explains(notices[i], d, rows)
      BY <3>1 DEF LabelInv, LabelsExplained
    <3>3. i # k
      BY <1>2, <2>3, <3>2, RetryAssumption DEF Explains, Notices
    <3> QED
      BY <1>2, <1>3, <1>5, <3>2, <3>3 DEF Explains, Covers
  <2> QED
    BY <2>2, <2>3
<1> QED
  BY <1>7, <1>8

(* LabelInv is inductive.                                                  *)
LEMMA LabelsKept ==
  ASSUME TypeInv, LabelInv, [Next]_vars
  PROVE  LabelInv'
<1> SUFFICES ASSUME resent' = 0
             PROVE  /\ (retry # NoRetry => notices[retry.notice].status = "failed")'
                    /\ LabelsExplained'
  BY DEF LabelInv
<1>0. resent \in Nat /\ notices \in Seq(Notices) /\ RetryTyped
  BY DEF TypeInv, WorldTyped, NoticesTyped
<1>1. ASSUME NEW r \in Requests, Commit(r)
      PROVE  /\ (retry # NoRetry => notices[retry.notice].status = "failed")'
             /\ LabelsExplained'
  <2>1. UNCHANGED <<resent, retry>>
    BY <1>1 DEF Commit, counts
  <2>2. \A i \in DOMAIN notices : notices'[i] = notices[i]
    <3>1. PICK n : notices' = Append(notices, n)
      BY <1>1 DEF Commit
    <3> QED
      BY <1>0, <3>1
  <2>3. LabelsExplained'
    BY <1>1, <2>1, CommitLabels
  <2> QED
    BY <1>0, <2>1, <2>2, <2>3 DEF LabelInv, RetryTyped
<1>2. CASE TickSend
  <2>1. resent' = resent /\ retry' = NoRetry
    BY <1>2 DEF TickSend, counts
  <2> QED
    BY <1>2, <2>1, TickSendLabels
<1>3. ASSUME NEW j \in DOMAIN notices, Resend(j) PROVE FALSE
  BY <1>0, <1>3 DEF Resend
<1>4. CASE TickRead
  <2>1. UNCHANGED <<rows, notices, recurring, resent>>
    BY <1>4 DEF TickRead, bookings, world, counts
  <2>2. notices[retry'.notice].status = "failed"
    BY <1>4 DEF TickRead, RetryDue
  <2> QED
    BY <2>1, <2>2 DEF LabelInv, LabelsExplained, Explains, Covers
<1>5. CASE TickCrash
  BY <1>5 DEF TickCrash, bookings, world, counts, LabelInv, LabelsExplained, Explains, Covers
<1>6. CASE UNCHANGED <<rows, notices, recurring, resent, retry>>
  BY <1>6 DEF LabelInv, LabelsExplained, Explains, Covers
<1>7. ASSUME NEW r \in Requests,
             \/ \E slot \in Slots : ReadCreate(r, slot) \/ ReadEdit(r, slot)
             \/ \E d \in Days : ReadCancelOne(r, d)
             \/ ReadCancelAll(r) \/ Refused(r) \/ Crash(r)
      PROVE  UNCHANGED <<rows, notices, recurring, resent, retry>>
  BY <1>7 DEF ReadCreate, ReadEdit, ReadCancelOne, ReadCancelAll, Begin, Refused, Crash,
              bookings, world, counts
<1>8. ASSUME \/ DayPasses \/ UNCHANGED vars
             \/ \E d \in Days, slot \in Slots : OtherBooks(d, slot)
      PROVE  UNCHANGED <<rows, notices, recurring, resent, retry>>
  BY <1>8 DEF DayPasses, OtherBooks, vars, bookings, world, counts
<1> QED
  BY <1>1, <1>2, <1>3, <1>4, <1>5, <1>6, <1>7, <1>8 DEF Next

(* FailedLabelsTrue: a booking shown as failed has a failed notice behind  *)
(* it, whatever overlapping requests and retries relabelled.               *)
THEOREM FailuresAreBehindLabels == Spec => []FailedLabelsTrue
<1>1. Init => LabelInv
  BY DEF Init, LabelInv, LabelsExplained
<1> QED
  BY <1>1, TypesAlways, LabelsKept, LabelsFollow, PTL DEF Spec

Full == {"created", "updated"}

(* The meeting goes on, and every mail was about something stored.         *)
Going == ~ unsaved /\ Live \cap Future # {}

(* g is the SEQUENCE the last edit gave its rows, s the slot.  The rows to *)
(* come have both, and no other row has such a SEQUENCE without that slot. *)
RowsCurrent(g, s) ==
  /\ \A d \in DOMAIN rows : rows[d].seq < g \/ rows[d].slot = s
  /\ \A d \in Future : rows[d].seq >= g /\ rows[d].slot = s

(* Invitations start at or before the first day to come; who was cancelled *)
(* alone stays cancelled.                                                  *)
NoticesFit ==
  \A i \in DOMAIN notices :
    /\ notices[i].type # "cancelled"
    /\ notices[i].type \in Full => \A d \in Live \cap Future : notices[i].day <= d
    /\ notices[i].type = "cancelled_occ" => rows[notices[i].day].status = "cancelled"

(* What the tick has read may be overtaken by an edit; its SEQUENCE then   *)
(* is lower.                                                               *)
RetryFits(g, s) ==
  retry # NoRetry =>
    /\ retry.seq < g \/ retry.slot = s
    /\ retry.seq <= rows[notices[retry.notice].day].seq

(* What a request is about to write fits the rows as they are.             *)
EditFits(job) ==
  /\ \A d \in DOMAIN rows : rows[d].seq < job.seq
  /\ Future \subseteq job.days /\ job.days \subseteq DOMAIN rows /\ job.day \in job.days
  /\ \A d \in Live \cap Future : job.day <= d
  /\ ~ job.moved => \A d \in job.days : rows[d].slot = job.slot

RemovalFits(job, g, s) ==
  /\ job.days = {job.day} /\ job.slot = s /\ ~ job.moved
  /\ rows[job.day].slot = s /\ rows[job.day].seq >= g
  /\ job.seq = rows[job.day].seq + 1

JobFits(job, g, s) ==
  /\ job.op = "updated" => EditFits(job)
  /\ job.op = "cancelled_occ" => RemovalFits(job, g, s)
  /\ job.op = "cancelled" => Live \cap Future \subseteq job.days

(* Notice i, still to be sent, takes day d out of the calendar.            *)
RemovalDue(i, d, s) ==
  /\ notices[i].status = "failed" /\ notices[i].type = "cancelled_occ" /\ notices[i].day = d
  /\ retry.notice = i => retry.slot = s

(* An up-to-date calendar shows nothing to come at another slot, and no    *)
(* cancelled day that no notice will take out.                             *)
Clean(g, s) ==
  calendar.seq >= g =>
    \A d \in Future, t \in Slots : <<d, t>> \in calendar.shown =>
      t = s /\ (d \in Live \/ \E i \in DOMAIN notices : RemovalDue(i, d, s))

Shows(s) == \A d \in Live \cap Future : <<d, s>> \in calendar.shown

(* Notice i, still to be sent, brings the calendar up to date.             *)
Due(i, g, s) ==
  /\ notices[i].status = "failed" /\ notices[i].type \in Full
  /\ rows[notices[i].day].seq >= g /\ rows[notices[i].day].slot = s
  /\ retry.notice = i => retry.seq >= g /\ retry.slot = s

Reached == \E d \in DOMAIN rows : calendar.seq <= rows[d].seq

(* The calendar is up to date or a notice due will make it so.             *)
Promised(g, s) ==
  /\ calendar.seq >= g /\ calendar.seq > 0 => Shows(s)
  /\ \/ calendar.seq >= g /\ Shows(s)
     \/ \E i \in DOMAIN notices : Due(i, g, s)

Current(g, s) ==
  /\ RowsCurrent(g, s) /\ NoticesFit /\ RetryFits(g, s)
  /\ \A r \in Requests : JobFits(jobs[r], g, s)
  /\ Clean(g, s) /\ Promised(g, s) /\ Reached

CalendarInv ==
  /\ DOMAIN rows = {} /\ ~ unsaved => calendar = [seq |-> 0, shown |-> {}]
  /\ Going => \E g \in Nat, s \in Slots : Current(g, s)

LEMMA NothingMissingFollows == CalendarInv => NothingMissing
<1> SUFFICES ASSUME CalendarInv, Quiet, NEW d \in Live \cap Future
             PROVE  <<d, rows[d].slot>> \in calendar.shown
  BY DEF NothingMissing
<1>1. Going
  BY DEF Going, Quiet
<1>2. PICK g \in Nat, s \in Slots : Current(g, s)
  BY <1>1 DEF CalendarInv
<1>3. Shows(s)
  BY <1>2 DEF Current, Promised, Due, Quiet
<1> QED
  BY <1>2, <1>3 DEF Shows, Current, RowsCurrent

LEMMA CancelledGoneFollows == CalendarInv => CancelledOccurrenceGone
<1> SUFFICES ASSUME CalendarInv, Quiet, Live \cap Future # {}, NEW d \in Future \ Live,
                    NEW t \in Slots, <<d, t>> \in calendar.shown
             PROVE  FALSE
  BY DEF CancelledOccurrenceGone
<1>1. Going
  BY DEF Going, Quiet
<1>2. PICK g \in Nat, s \in Slots : Current(g, s)
  BY <1>1 DEF CalendarInv
<1>3. calendar.seq >= g
  BY <1>2 DEF Current, Promised, Due, Quiet
<1>4. PICK i \in DOMAIN notices : RemovalDue(i, d, s)
  BY <1>2, <1>3 DEF Current, Clean
<1> QED
  BY <1>4 DEF RemovalDue, Quiet

-----------------------------------------------------------------------------
(* Labels aside, two tables are the same.                                  *)
Alike(table, other) ==
  /\ DOMAIN table = DOMAIN other
  /\ \A d \in DOMAIN table : /\ table[d].status = other[d].status
                             /\ table[d].slot = other[d].slot
                             /\ table[d].seq = other[d].seq

LEMMA LabelledAlike ==
  ASSUME NEW table, NEW type, NEW day, NEW ok
  PROVE  Alike(Labelled(table, type, day, ok), table)
BY DEF Alike, Labelled

LEMMA AlikeAgain ==
  ASSUME NEW a, NEW b, NEW c, Alike(a, b), Alike(b, c)
  PROVE  Alike(a, c)
BY DEF Alike

LEMMA SameDays ==
  ASSUME Alike(rows', rows), today' = today
  PROVE  Live' = Live /\ Future' = Future
BY DEF Alike, Live, Future

(* An invitation names the slot of its row on the days that are left.      *)
Coming(table) == {d \in DOMAIN table : d > today}
Confirmed(table) == {d \in DOMAIN table : table[d].status = "confirmed"}

LEMMA InvitationRight ==
  ASSUME TypeInv, NEW type \in Full, NEW day \in Days, NEW s, NEW seq, NEW table,
         DOMAIN table = Days, RowsTyped(table),
         Confirmed(table) \cap Coming(table) # {},
         \A d \in Confirmed(table) \cap Coming(table) : day <= d,
         \A d \in Coming(table) : table[d].slot = s
  PROVE  LET mail == Invitation(type, day, s, seq, table)
         IN  /\ \A d \in Confirmed(table) \cap Coming(table) : <<d, s>> \in mail.slots
             /\ \A d \in Coming(table) : \A t : <<d, t>> \in mail.slots =>
                  t = s /\ d \in Confirmed(table)
<1> DEFINE mail == Invitation(type, day, s, seq, table)
<1>1. mail.slots = {<<d, s>> : d \in Recurrence(day)} \ Exdates(table)
  BY DEF Invitation, Full
<1>2. Days \subseteq Nat /\ recurring \in BOOLEAN /\ Occurrences \in Nat /\ today \in Nat
  BY DaysAre, OccurrenceAssumption DEF TypeInv, WorldTyped
<1>3. ASSUME NEW d \in Confirmed(table) \cap Coming(table) PROVE <<d, s>> \in mail.slots
  <2>1. d \in Days /\ day <= d /\ table[d].status = "confirmed"
    BY DEF Confirmed
  <2>2. d \in Recurrence(day)
    <3>1. CASE recurring
      <4>1. d \in 1 .. Occurrences /\ day \in 1 .. Occurrences
        BY <2>1, <3>1 DEF Days
      <4> QED
        BY <1>2, <2>1, <3>1, <4>1 DEF Recurrence
    <3>2. CASE ~ recurring
      BY <2>1, <3>2 DEF Recurrence, Days
    <3> QED
      BY <3>1, <3>2
  <2>3. <<d, s>> \notin Exdates(table)
    BY <2>1 DEF Exdates
  <2> QED
    BY <1>1, <2>2, <2>3
<1>4. ASSUME NEW d \in Coming(table), NEW t, <<d, t>> \in mail.slots
      PROVE  t = s /\ d \in Confirmed(table)
  <2>1. t = s
    BY <1>1, <1>4
  <2>2. table[d].status \in {"confirmed", "cancelled"} /\ d \in Days
    BY DEF Coming, RowsTyped, Rows
  <2>3. CASE table[d].status = "cancelled"
    <3>1. CASE recurring
      <4>1. <<d, s>> \in Exdates(table)
        BY <2>2, <2>3, <3>1 DEF Exdates, Coming
      <4> QED
        BY <1>1, <1>4, <2>1, <4>1
    <3>2. CASE ~ recurring
      BY <2>2, <2>3, <3>2 DEF Days, Confirmed
    <3> QED
      BY <3>1, <3>2
  <2> QED
    BY <2>1, <2>2, <2>3 DEF Confirmed, Coming
<1> QED
  BY <1>3, <1>4

(* Small facts about types.                                                *)
LEMMA CalendarReads ==
  ASSUME TypeInv
  PROVE  calendar.seq \in Nat
BY DEF TypeInv, CalendarTyped

LEMMA ComingIsFuture == Coming(rows) = Future /\ Confirmed(rows) = Live
BY DEF Coming, Confirmed, Future, Live

(* Nothing but labels, answers and the calendar changes.                   *)
LEMMA ShapeStays ==
  ASSUME TypeInv, NEW g, NEW s, Current(g, s), Alike(rows', rows), UNCHANGED <<today, jobs>>,
         DOMAIN notices' = DOMAIN notices,
         \A j \in DOMAIN notices : /\ notices'[j].type = notices[j].type
                                   /\ notices'[j].day = notices[j].day,
         retry' \in {retry, NoRetry}
  PROVE  /\ RowsCurrent(g, s)' /\ NoticesFit' /\ RetryFits(g, s)'
         /\ \A r \in Requests : JobFits(jobs[r], g, s)'
<1>1. Live' = Live /\ Future' = Future
  BY SameDays
<1>0. /\ Live \subseteq DOMAIN rows /\ Future \subseteq DOMAIN rows /\ RetryTyped
      /\ \A j \in DOMAIN notices : notices[j].day \in DOMAIN rows
  BY DEF Live, Future, TypeInv, NoticesTyped
<1>2. RowsCurrent(g, s)'
  BY <1>0, <1>1 DEF Current, RowsCurrent, Alike
<1>3. NoticesFit'
  BY <1>0, <1>1 DEF Current, NoticesFit, Alike
<1>4. RetryFits(g, s)'
  <2>1. CASE retry' = NoRetry
    BY <2>1 DEF RetryFits
  <2>2. CASE retry' = retry /\ retry # NoRetry
    <3>1. retry.notice \in DOMAIN notices
      BY <1>0, <2>2 DEF RetryTyped
    <3> QED
      BY <1>0, <2>2, <3>1 DEF Current, RetryFits, Alike
  <2> QED
    BY <2>1, <2>2
<1>5. ASSUME NEW x, JobFits(x, g, s), x.op = "cancelled_occ" => x.day \in DOMAIN rows
      PROVE  JobFits(x, g, s)'
  <2>1. ASSUME EditFits(x) PROVE EditFits(x)'
    <3>1. \A d \in DOMAIN rows' : rows'[d].seq < x.seq
      BY <2>1 DEF EditFits, Alike
    <3>2. ~ x.moved => \A d \in x.days \cap DOMAIN rows : rows'[d].slot = x.slot
      BY <2>1 DEF EditFits, Alike
    <3> QED
      BY <1>1, <2>1, <3>1, <3>2 DEF EditFits, Alike
  <2>2. ASSUME x.op = "cancelled_occ" PROVE RemovalFits(x, g, s)'
    BY <1>5, <2>2 DEF JobFits, RemovalFits, Alike
  <2> QED
    BY <1>1, <1>5, <2>1, <2>2 DEF JobFits
<1>6. \A r \in Requests : JobFits(jobs[r], g, s)'
  <2> SUFFICES ASSUME NEW r \in Requests PROVE JobFits(jobs[r], g, s)'
    OBVIOUS
  <2> DEFINE job == jobs[r]
  <2>1. JobFits(job, g, s) /\ (job.op = "cancelled_occ" => job.day \in DOMAIN rows)
    BY DEF Current, TypeInv, JobsTyped, JobTyped, Idle
  <2>2. \A x : JobFits(x, g, s) /\ (x.op = "cancelled_occ" => x.day \in DOMAIN rows)
               => JobFits(x, g, s)'
    BY <1>5
  <2>3. jobs'[r] = job
    OBVIOUS
  <2> QED
    BY <2>1, <2>2, <2>3
<1> QED
  BY <1>2, <1>3, <1>4, <1>6

(* What a mail about notice i owes.                                        *)
AnswerFits(i, slot, seq, g, s) ==
  /\ seq < g \/ slot = s
  /\ seq <= rows[notices[i].day].seq
  /\ Due(i, g, s) => seq >= g
  /\ \A d \in Future : RemovalDue(i, d, s) => slot = s

Answered(i, arrives) ==
  /\ DOMAIN notices' = DOMAIN notices
  /\ \A j \in DOMAIN notices : /\ notices'[j].type = notices[j].type
                               /\ notices'[j].day = notices[j].day
                               /\ j # i => notices'[j].status = notices[j].status
  /\ notices[i].status = "failed" /\ ~ arrives => notices'[i].status = "failed"
  /\ retry' \in {retry, NoRetry}

(* A notice that was not answered is still due.                            *)
LEMMA DuesStay ==
  ASSUME TypeInv, Alike(rows', rows), NEW i, NEW arrives, Answered(i, arrives),
         NEW j \in DOMAIN notices, j # i \/ ~ arrives, NEW g, NEW s
  PROVE  /\ Due(j, g, s) => Due(j, g, s)'
         /\ \A d : RemovalDue(j, d, s) => RemovalDue(j, d, s)'
<1>1. notices[j].day \in DOMAIN rows /\ j # 0
  BY DEF TypeInv, NoticesTyped
<1>2. notices'[j].type = notices[j].type /\ notices'[j].day = notices[j].day
      /\ (notices[j].status = "failed" => notices'[j].status = "failed")
  BY DEF Answered
<1>3. retry'.notice = j => retry' = retry
  BY <1>1 DEF Answered, NoRetry
<1>4. rows'[notices[j].day].seq = rows[notices[j].day].seq
      /\ rows'[notices[j].day].slot = rows[notices[j].day].slot
  BY <1>1 DEF Alike
<1>5. Due(j, g, s) => Due(j, g, s)'
  BY <1>2, <1>3, <1>4 DEF Due
<1>6. \A d : RemovalDue(j, d, s) => RemovalDue(j, d, s)'
  BY <1>2, <1>3 DEF RemovalDue
<1> QED
  BY <1>5, <1>6

(* The step with substance: a mail sent again.  Either it is accepted and  *)
(* brings the calendar up to date, or it is older than the last edit,      *)
(* whose own notice is then still due, or the calendar is newer than it    *)
(* and was up to date.                                                     *)
LEMMA AnswerCurrent ==
  ASSUME TypeInv, NEW g \in Nat, NEW s \in Slots, Current(g, s), Live \cap Future # {},
         Alike(rows', rows), UNCHANGED <<today, jobs>>,
         NEW i \in DOMAIN notices, NEW slot, NEW seq \in Nat, NEW arrives \in BOOLEAN,
         calendar' = IF arrives
                     THEN Received(Invitation(notices[i].type, notices[i].day, slot, seq, rows))
                     ELSE calendar,
         Answered(i, arrives), AnswerFits(i, slot, seq, g, s)
  PROVE  Current(g, s)'
<1> DEFINE n == notices[i]
           mail == Invitation(n.type, n.day, slot, seq, rows)
<1>1. /\ RowsCurrent(g, s)' /\ NoticesFit' /\ RetryFits(g, s)'
      /\ \A r \in Requests : JobFits(jobs[r], g, s)'
  BY ShapeStays DEF Answered
<1>2. Live' = Live /\ Future' = Future
  BY SameDays
<1>3. /\ calendar.seq \in Nat /\ n \in Notices /\ n.day \in DOMAIN rows
      /\ DOMAIN rows = Days /\ RowsTyped(rows)
  BY CalendarReads DEF TypeInv, NoticesTyped
<1>4. n.type \in Full \/ n.type = "cancelled_occ"
  BY <1>3 DEF Current, NoticesFit, Notices, Full
<1>5. mail.seq = seq /\ mail.type = n.type
  BY DEF Invitation
<1>6. Reached /\ RowsCurrent(g, s) /\ NoticesFit /\ Clean(g, s) /\ Promised(g, s)
  BY DEF Current
<1>7. \A d \in DOMAIN rows : d \in DOMAIN rows' /\ rows'[d].seq = rows[d].seq
  BY DEF Alike
<1> HIDE DEF mail
<1>8. CASE ~ arrives
  <2>1. calendar' = calendar /\ Reached'
    BY <1>6, <1>7, <1>8 DEF Reached
  <2>2. Clean(g, s)'
    BY <1>2, <1>6, <1>8, <2>1, DuesStay DEF Clean, Answered
  <2>3. Promised(g, s)'
    BY <1>2, <1>6, <1>8, <2>1, DuesStay DEF Promised, Shows, Answered
  <2> QED
    BY <1>1, <2>1, <2>2, <2>3 DEF Current
<1>9. CASE arrives /\ n.type \in Full /\ ~ (seq >= calendar.seq)
  <2>1. calendar' = calendar /\ Reached'
    BY <1>5, <1>6, <1>7, <1>9 DEF Received, Reached, Full, mail
  <2>2. \A d : ~ RemovalDue(i, d, s)
    BY <1>9 DEF RemovalDue, Full
  <2>3. Clean(g, s)'
    BY <1>2, <1>6, <2>1, <2>2, DuesStay DEF Clean, Answered
  <2>4. Due(i, g, s) => calendar.seq >= g /\ calendar.seq > 0
    BY <1>3, <1>9 DEF AnswerFits
  <2>5. Promised(g, s)'
    BY <1>2, <1>6, <2>1, <2>4, DuesStay DEF Promised, Shows, Answered
  <2> QED
    BY <1>1, <2>1, <2>3, <2>5 DEF Current
<1>10. CASE arrives /\ n.type \in Full /\ seq >= calendar.seq
  <2>1. calendar' = [seq |-> seq, shown |-> mail.slots]
    BY <1>5, <1>10 DEF Received, Full, mail
  <2>2. Reached'
    BY <1>3, <1>7, <2>1 DEF Reached, AnswerFits
  <2>3. CASE seq >= g
    <3>1. slot = s
      BY <2>3 DEF AnswerFits
    <3>2. /\ \A d \in Live \cap Future : n.day <= d
          /\ \A d \in Future : rows[d].slot = s
      BY <1>6, <1>10 DEF NoticesFit, RowsCurrent
    <3>3. /\ \A d \in Live \cap Future : <<d, s>> \in mail.slots
          /\ \A d \in Future : \A t : <<d, t>> \in mail.slots => t = s /\ d \in Live
      <4>1. n.day \in Days /\ n.type \in Full
        BY <1>3, <1>10
      <4> HIDE DEF n
      <4>2. LET m == Invitation(n.type, n.day, s, seq, rows)
            IN  /\ \A d \in Confirmed(rows) \cap Coming(rows) : <<d, s>> \in m.slots
                /\ \A d \in Coming(rows) : \A t : <<d, t>> \in m.slots =>
                     t = s /\ d \in Confirmed(rows)
        BY <1>3, <3>2, <4>1, InvitationRight, ComingIsFuture
      <4> QED
        BY <3>1, <4>2, ComingIsFuture DEF mail
    <3>4. Clean(g, s)'
      BY <1>2, <2>1, <3>3 DEF Clean
    <3>5. Promised(g, s)'
      BY <1>2, <2>1, <2>3, <3>3 DEF Promised, Shows
    <3> QED
      BY <1>1, <2>2, <3>4, <3>5 DEF Current
  <2>4. CASE ~ (seq >= g)
    <3>1. ~ (calendar.seq >= g)
      BY <1>3, <1>10, <2>4
    <3>2. PICK j \in DOMAIN notices : Due(j, g, s)
      BY <1>6, <3>1 DEF Promised
    <3>3. j # i
      BY <2>4, <3>2 DEF AnswerFits
    <3>4. Due(j, g, s)' /\ j \in DOMAIN notices'
      BY <3>2, <3>3, DuesStay DEF Answered
    <3>5. Clean(g, s)' /\ Promised(g, s)'
      BY <2>1, <2>4, <3>4 DEF Clean, Promised
    <3> QED
      BY <1>1, <2>2, <3>5 DEF Current
  <2> QED
    BY <2>3, <2>4
<1>11. CASE arrives /\ n.type = "cancelled_occ"
  <2>1. calendar' = [calendar EXCEPT !.shown = @ \ {<<n.day, slot>>}]
    BY <1>5, <1>11 DEF Received, Invitation, mail
  <2>2. calendar'.seq = calendar.seq /\ calendar'.shown = calendar.shown \ {<<n.day, slot>>}
    BY <2>1 DEF TypeInv, CalendarTyped
  <2>3. Reached'
    BY <1>6, <1>7, <2>2 DEF Reached
  <2>4. n.day \notin Live
    BY <1>6, <1>11 DEF NoticesFit, Live
  <2>5. Shows(s) => Shows(s)'
    BY <1>2, <2>2, <2>4 DEF Shows
  <2>6. ~ Due(i, g, s)
    BY <1>11 DEF Due, Full
  <2>7. Promised(g, s)'
    BY <1>6, <2>2, <2>5, <2>6, DuesStay DEF Promised, Answered
  <2>8. Clean(g, s)'
    <3> SUFFICES ASSUME calendar.seq >= g, NEW d \in Future, NEW t \in Slots,
                        <<d, t>> \in calendar.shown, <<d, t>> # <<n.day, slot>>
                 PROVE  t = s /\ (d \in Live \/ \E j \in DOMAIN notices' : RemovalDue(j, d, s)')
      BY <1>2, <2>2 DEF Clean
    <3>1. t = s /\ (d \in Live \/ \E j \in DOMAIN notices : RemovalDue(j, d, s))
      BY <1>6 DEF Clean
    <3>2. CASE d \in Live
      BY <3>1, <3>2
    <3>3. CASE d \notin Live
      <4>1. PICK j \in DOMAIN notices : RemovalDue(j, d, s)
        BY <3>1, <3>3
      <4>2. j # i
        BY <3>1, <4>1 DEF RemovalDue, AnswerFits
      <4>3. RemovalDue(j, d, s)' /\ j \in DOMAIN notices'
        BY <4>1, <4>2, DuesStay DEF Answered
      <4> QED
        BY <3>1, <4>3
    <3> QED
      BY <3>2, <3>3
  <2> QED
    BY <1>1, <2>3, <2>7, <2>8 DEF Current
<1> QED
  BY <1>4, <1>8, <1>9, <1>10, <1>11

(* The tick's mail, Resend's and the one of a tick that crashes.           *)
LEMMA PostedAnswer ==
  ASSUME NEW outcome \in Outcomes, NEW mail, Posted(outcome, mail)
  PROVE  /\ outcome.arrives \in BOOLEAN /\ (outcome.reported => outcome.arrives)
         /\ calendar' = IF outcome.arrives THEN Received(mail) ELSE calendar
BY DEF Outcomes, Posted

LEMMA RetryAnswers ==
  ASSUME TypeInv, NEW g, NEW s, Current(g, s), retry # NoRetry
  PROVE  AnswerFits(retry.notice, retry.slot, retry.seq, g, s)
BY DEF Current, RetryFits, AnswerFits, Due, RemovalDue

LEMMA AnswersAlike ==
  ASSUME TickSend \/ TickCrash \/ \E i \in DOMAIN notices : Resend(i)
  PROVE  Alike(rows', rows)
<1>1. CASE TickCrash
  BY <1>1 DEF TickCrash, bookings, Alike
<1>2. CASE TickSend
  <2> DEFINE n == notices[retry.notice]
  <2>1. PICK ok, alert :
          LET done == Labelled(rows, n.type, n.day, ok)
          IN rows' = done \/ rows' = Labelled(done, "sync_alert", n.day, alert = "sent")
    BY <1>2 DEF TickSend
  <2> DEFINE done == Labelled(rows, n.type, n.day, ok)
  <2>2. Alike(done, rows)
    BY LabelledAlike
  <2>3. rows' = done \/ rows' = Labelled(done, "sync_alert", n.day, alert = "sent")
    BY <2>1
  <2> HIDE DEF done
  <2> QED
    BY <2>2, <2>3, LabelledAlike, AlikeAgain
<1>3. ASSUME NEW i \in DOMAIN notices, Resend(i) PROVE Alike(rows', rows)
  <2>1. PICK ok : rows' = Labelled(rows, notices[i].type, notices[i].day, ok)
    BY <1>3 DEF Resend
  <2> QED
    BY <2>1, LabelledAlike
<1> QED
  BY <1>1, <1>2, <1>3

LEMMA TickSendCurrent ==
  ASSUME TypeInv, NEW g \in Nat, NEW s \in Slots, Current(g, s), Live \cap Future # {}, TickSend
  PROVE  Current(g, s)'
<1> DEFINE i == retry.notice
           n == notices[i]
<1>1. PICK outcome \in Outcomes, alert \in {"sent", "failed", "unaddressed"} :
        LET done == Labelled(rows, n.type, n.day, outcome.reported)
            gaveUp == ~ outcome.reported /\ Exhausted(n.retries + 1)
        IN /\ Posted(outcome, Invitation(n.type, n.day, retry.slot, retry.seq, rows))
           /\ notices' = [notices EXCEPT ![i].retries = n.retries + 1,
                                         ![i].status = IF outcome.reported THEN "sent" ELSE @]
           /\ rows' = IF gaveUp /\ alert # "unaddressed"
                      THEN Labelled(done, "sync_alert", n.day, alert = "sent")
                      ELSE done
  BY DEF TickSend
<1>2. /\ retry # NoRetry /\ retry' = NoRetry /\ UNCHANGED <<today, jobs>>
      /\ i \in DOMAIN notices /\ retry.seq \in Nat /\ notices \in Seq(Notices)
  BY DEF TickSend, TypeInv, RetryTyped, NoticesTyped, world
<1>3. Alike(rows', rows)
  BY AnswersAlike
<1>4. /\ DOMAIN notices' = DOMAIN notices
      /\ \A j \in DOMAIN notices : j # i => notices'[j] = notices[j]
      /\ notices'[i].type = n.type /\ notices'[i].day = n.day
      /\ ~ outcome.reported => notices'[i].status = n.status
  <2>1. n \in Notices
    BY <1>2
  <2>2. /\ DOMAIN notices' = DOMAIN notices
        /\ \A j \in DOMAIN notices : j # i => notices'[j] = notices[j]
        /\ notices'[i] = [[n EXCEPT !.retries = n.retries + 1] EXCEPT
                           !.status = IF outcome.reported THEN "sent" ELSE @]
    BY <1>1, <1>2
  <2>3. n = [type |-> n.type, day |-> n.day, status |-> n.status, retries |-> n.retries]
    BY <2>1 DEF Notices
  <2> HIDE DEF n
  <2>4. [n EXCEPT !.retries = n.retries + 1]
          = [type |-> n.type, day |-> n.day, status |-> n.status, retries |-> n.retries + 1]
    BY <2>3
  <2>5. notices'[i] = [type |-> n.type, day |-> n.day, retries |-> n.retries + 1,
                       status |-> IF outcome.reported THEN "sent" ELSE n.status]
    <3>1. ASSUME NEW a, a = [type |-> n.type, day |-> n.day, status |-> n.status,
                             retries |-> n.retries + 1],
                 NEW ok
          PROVE  [a EXCEPT !.status = IF ok THEN "sent" ELSE @]
                   = [type |-> n.type, day |-> n.day, retries |-> n.retries + 1,
                      status |-> IF ok THEN "sent" ELSE n.status]
      BY <3>1
    <3> QED
      BY <2>2, <2>4, <3>1
  <2> QED
    BY <2>2, <2>5
<1>5. Answered(i, outcome.arrives)
  BY <1>1, <1>2, <1>4, PostedAnswer DEF Answered
<1>6. AnswerFits(i, retry.slot, retry.seq, g, s)
  BY <1>2, RetryAnswers
<1>7. outcome.arrives \in BOOLEAN
      /\ calendar' = IF outcome.arrives
                     THEN Received(Invitation(n.type, n.day, retry.slot, retry.seq, rows))
                     ELSE calendar
  BY <1>1, PostedAnswer
<1> QED
  BY <1>2, <1>3, <1>5, <1>6, <1>7, AnswerCurrent

LEMMA TickCrashCurrent ==
  ASSUME TypeInv, NEW g \in Nat, NEW s \in Slots, Current(g, s), Live \cap Future # {}, TickCrash
  PROVE  Current(g, s)'
<1> DEFINE i == retry.notice
           n == notices[i]
<1>1. PICK outcome \in Outcomes :
        Posted(outcome, Invitation(n.type, n.day, retry.slot, retry.seq, rows))
  BY DEF TickCrash
<1>2. /\ retry # NoRetry /\ retry' = NoRetry /\ UNCHANGED <<rows, notices, today, jobs>>
      /\ i \in DOMAIN notices /\ retry.seq \in Nat
  BY DEF TickCrash, TypeInv, RetryTyped, world, bookings
<1>3. Alike(rows', rows)
  BY AnswersAlike
<1>4. Answered(i, outcome.arrives)
  BY <1>2 DEF Answered
<1>5. AnswerFits(i, retry.slot, retry.seq, g, s)
  BY <1>2, RetryAnswers
<1>6. outcome.arrives \in BOOLEAN
      /\ calendar' = IF outcome.arrives
                     THEN Received(Invitation(n.type, n.day, retry.slot, retry.seq, rows))
                     ELSE calendar
  BY <1>1, PostedAnswer
<1> QED
  BY <1>2, <1>3, <1>4, <1>5, <1>6, AnswerCurrent

LEMMA ResendCurrent ==
  ASSUME TypeInv, NEW g \in Nat, NEW s \in Slots, Current(g, s), Live \cap Future # {},
         NEW i \in DOMAIN notices, Resend(i)
  PROVE  Current(g, s)'
<1> DEFINE n == notices[i]
           row == rows[n.day]
<1>1. PICK outcome \in Outcomes :
          /\ Posted(outcome, Invitation(n.type, n.day, row.slot, row.seq, rows))
          /\ notices' = [notices EXCEPT ![i].status = Verdict(outcome.reported)]
          /\ rows' = Labelled(rows, n.type, n.day, outcome.reported)
  BY DEF Resend
<1>2. /\ UNCHANGED <<retry, today, jobs>> /\ notices \in Seq(Notices)
      /\ n.day \in DOMAIN rows /\ row.seq \in Nat
  BY DEF Resend, world, TypeInv, NoticesTyped, RowsTyped, Rows
<1>3. Alike(rows', rows)
  BY AnswersAlike
<1>4. /\ DOMAIN notices' = DOMAIN notices
      /\ \A j \in DOMAIN notices : j # i => notices'[j] = notices[j]
      /\ notices'[i].type = n.type /\ notices'[i].day = n.day
      /\ notices'[i].status = Verdict(outcome.reported)
  <2>1. n \in Notices
    BY <1>2
  <2>2. /\ DOMAIN notices' = DOMAIN notices
        /\ \A j \in DOMAIN notices : j # i => notices'[j] = notices[j]
        /\ notices'[i] = [n EXCEPT !.status = Verdict(outcome.reported)]
    BY <1>1, <1>2
  <2>3. n = [type |-> n.type, day |-> n.day, status |-> n.status, retries |-> n.retries]
    BY <2>1 DEF Notices
  <2> HIDE DEF n
  <2> QED
    BY <2>2, <2>3
<1>5. Answered(i, outcome.arrives)
  BY <1>1, <1>2, <1>4, PostedAnswer DEF Answered, Verdict
<1>6. AnswerFits(i, row.slot, row.seq, g, s)
  <2>1. row.seq < g \/ row.slot = s
    BY <1>2 DEF Current, RowsCurrent
  <2>2. \A d \in Future : RemovalDue(i, d, s) => row.slot = s
    BY DEF Current, RowsCurrent, RemovalDue
  <2>3. row.seq <= rows[notices[i].day].seq
    BY <1>2
  <2> QED
    BY <2>1, <2>2, <2>3 DEF AnswerFits, Due
<1>7. outcome.arrives \in BOOLEAN
      /\ calendar' = IF outcome.arrives
                     THEN Received(Invitation(n.type, n.day, row.slot, row.seq, rows))
                     ELSE calendar
  BY <1>1, PostedAnswer
<1> QED
  BY <1>2, <1>3, <1>5, <1>6, <1>7, AnswerCurrent

(* The tick reads a row: what it will mail is what is due.                 *)
LEMMA TickReadCurrent ==
  ASSUME TypeInv, NEW g \in Nat, NEW s \in Slots, Current(g, s), TickRead
  PROVE  Current(g, s)'
<1>1. PICK i \in DOMAIN notices :
         retry' = [notice |-> i, slot |-> rows[notices[i].day].slot,
                     seq |-> rows[notices[i].day].seq]
  BY DEF TickRead
<1>2. UNCHANGED <<rows, notices, today, calendar, jobs>> /\ retry = NoRetry
      /\ notices[i].day \in DOMAIN rows /\ rows[notices[i].day].seq \in Nat
  BY DEF TickRead, bookings, world, TypeInv, NoticesTyped, RowsTyped, Rows
<1>3. Live' = Live /\ Future' = Future
  BY <1>2 DEF Live, Future
<1>4. RowsCurrent(g, s)' /\ NoticesFit' /\ Reached'
  BY <1>2, <1>3 DEF Current, RowsCurrent, NoticesFit, Reached
<1>5. RetryFits(g, s)'
  BY <1>1, <1>2 DEF Current, RowsCurrent, RetryFits
<1>6. \A r \in Requests : JobFits(jobs[r], g, s)'
  BY <1>2, <1>3 DEF Current, JobFits, EditFits, RemovalFits
<1>7. \A j \in DOMAIN notices : Due(j, g, s) => Due(j, g, s)'
  BY <1>1, <1>2 DEF Due
<1>8. \A j \in DOMAIN notices, d \in Future : RemovalDue(j, d, s) => RemovalDue(j, d, s)'
  BY <1>1, <1>2 DEF RemovalDue, Current, RowsCurrent
<1>9. Clean(g, s)'
  BY <1>2, <1>3, <1>8 DEF Current, Clean
<1>10. Promised(g, s)'
  BY <1>2, <1>3, <1>7 DEF Current, Promised, Shows
<1> QED
  BY <1>4, <1>5, <1>6, <1>9, <1>10 DEF Current

(* A day passes: there is less to promise.                                 *)
LEMMA DayCurrent ==
  ASSUME TypeInv, NEW g \in Nat, NEW s \in Slots, Current(g, s), DayPasses
  PROVE  Current(g, s)'
<1>1. UNCHANGED <<rows, notices, calendar, jobs, retry>> /\ today' = today + 1
      /\ today \in Nat /\ Days \subseteq Nat /\ DOMAIN rows \subseteq Days
  BY DaysAre DEF DayPasses, bookings, TypeInv, WorldTyped
<1>2. Live' = Live /\ Future' \subseteq Future
  <2>1. \A d \in Future' : d \in DOMAIN rows /\ d > today + 1
    BY <1>1 DEF Future
  <2>2. ASSUME NEW d \in Future' PROVE d > today
    <3>1. d \in Nat /\ d > today + 1
      BY <1>1, <2>1
    <3> QED
      BY <1>1, <3>1
  <2> QED
    BY <1>1, <2>1, <2>2 DEF Live, Future
<1>3. RowsCurrent(g, s)' /\ NoticesFit' /\ Reached' /\ RetryFits(g, s)'
  BY <1>1, <1>2 DEF Current, RowsCurrent, NoticesFit, Reached, RetryFits
<1>4. \A r \in Requests : JobFits(jobs[r], g, s)'
  BY <1>1, <1>2 DEF Current, JobFits, EditFits, RemovalFits
<1>5. \A j \in DOMAIN notices : Due(j, g, s)' <=> Due(j, g, s)
  BY <1>1 DEF Due
<1>6. \A j, d : RemovalDue(j, d, s)' <=> RemovalDue(j, d, s)
  BY <1>1 DEF RemovalDue
<1>7. Clean(g, s)'
  BY <1>1, <1>2, <1>6 DEF Current, Clean
<1>8. Promised(g, s)'
  BY <1>1, <1>2, <1>5 DEF Current, Promised, Shows
<1> QED
  BY <1>3, <1>4, <1>7, <1>8 DEF Current

(* A step that leaves rows, notices and calendar alone.                    *)
LEMMA SameCurrent ==
  ASSUME NEW g \in Nat, NEW s \in Slots, Current(g, s),
         UNCHANGED <<rows, notices, calendar, retry, today>>,
         \A r \in Requests : JobFits(jobs'[r], g, s)
  PROVE  Current(g, s)'
<1>1. Live' = Live /\ Future' = Future
  BY DEF Live, Future
<1>2. RowsCurrent(g, s)' /\ NoticesFit' /\ Reached' /\ RetryFits(g, s)'
  BY <1>1 DEF Current, RowsCurrent, NoticesFit, Reached, RetryFits
<1>3. \A x : JobFits(x, g, s) => JobFits(x, g, s)'
  BY <1>1 DEF JobFits, EditFits, RemovalFits
<1>4. \A j \in DOMAIN notices : Due(j, g, s)' <=> Due(j, g, s)
  BY DEF Due
<1>5. \A j, d : RemovalDue(j, d, s)' <=> RemovalDue(j, d, s)
  BY DEF RemovalDue
<1>6. Clean(g, s)'
  BY <1>1, <1>5 DEF Current, Clean
<1>7. Promised(g, s)'
  BY <1>1, <1>4 DEF Current, Promised, Shows
<1>8. \A r \in Requests : JobFits(jobs[r], g, s)'
  BY <1>3
<1> QED
  BY <1>2, <1>6, <1>7, <1>8 DEF Current

-----------------------------------------------------------------------------
(* Requests read.                                                          *)

LEMMA BeginCurrent ==
  ASSUME TypeInv, NEW g \in Nat, NEW s \in Slots, Current(g, s),
         NEW r \in Requests, NEW job, Begin(r, job), JobFits(job, g, s)
  PROVE  Current(g, s)'
<1>1. UNCHANGED <<rows, notices, calendar, retry, today>>
  BY DEF Begin, bookings, world
<1>2. \A q \in Requests : JobFits(jobs'[q], g, s)
  BY DEF Begin, Current, TypeInv, JobsTyped
<1> QED
  BY <1>1, <1>2, SameCurrent

(* What requests read fits the rows as they are.                           *)
LEMMA ReadsCurrent ==
  ASSUME TypeInv, NEW g \in Nat, NEW s \in Slots, Current(g, s), Live \cap Future # {},
         NEW r \in Requests,
         \/ \E slot \in Slots : ReadCreate(r, slot) \/ ReadEdit(r, slot)
         \/ \E d \in Days : ReadCancelOne(r, d)
         \/ ReadCancelAll(r)
  PROVE  Current(g, s)'
<1>0. /\ Live \subseteq DOMAIN rows /\ Future \subseteq DOMAIN rows /\ DOMAIN rows \subseteq Days
      /\ Days \subseteq Nat /\ RowsCurrent(g, s)
  BY DaysAre DEF Live, Future, TypeInv, Current
<1>1. ASSUME NEW slot \in Slots, ReadCreate(r, slot) PROVE FALSE
  BY <1>0, <1>1 DEF ReadCreate
<1>2. ASSUME NEW slot \in Slots, ReadEdit(r, slot) PROVE Current(g, s)'
  <2> DEFINE live == IF recurring THEN Live \cap Future ELSE Live
             job == [op |-> "updated", days |-> Edited, day |-> Min(live), slot |-> slot,
                     seq |-> NextSequence, moved |-> slot # rows[Min(live)].slot]
  <2>1. Begin(r, job) /\ live # {}
    BY <1>2 DEF ReadEdit
  <2>2. live \subseteq Edited /\ Live \cap Future \subseteq live
        /\ Edited \subseteq Future /\ Future \subseteq Edited
    <3>1. CASE recurring
      BY <3>1 DEF Edited
    <3>2. CASE ~ recurring
      <4>1. Live = {1} /\ Future = {1}
        BY <1>0, <3>2 DEF Days
      <4> QED
        BY <3>2, <4>1 DEF Edited
    <3> QED
      BY <3>1, <3>2
  <2>3. Min(live) \in live /\ \A d \in live : Min(live) <= d
    <3>1. live \subseteq Nat
      BY <1>0, <2>2
    <3> HIDE DEF live
    <3> QED
      BY <2>1, <3>1, LeastFirst
  <2>4. /\ job.op = "updated" /\ job.days = Edited /\ job.day = Min(live) /\ job.slot = slot
        /\ job.seq = NextSequence /\ (~ job.moved => slot = rows[Min(live)].slot)
    OBVIOUS
  <2> HIDE DEF job, live
  <2>5. \A d \in Future : rows[d].slot = s
    BY <1>0 DEF RowsCurrent
  <2>6. EditFits(job)
    <3>1. \A d \in DOMAIN rows : rows[d].seq < job.seq
      BY <2>4, SequenceHigher
    <3>2. /\ Future \subseteq job.days /\ job.days \subseteq DOMAIN rows
          /\ job.day \in job.days
          /\ \A d \in Live \cap Future : job.day <= d
      BY <1>0, <2>2, <2>3, <2>4
    <3>3. ~ job.moved => \A d \in job.days : rows[d].slot = job.slot
      BY <2>2, <2>3, <2>4, <2>5
    <3> QED
      BY <3>1, <3>2, <3>3 DEF EditFits
  <2>7. JobFits(job, g, s)
    BY <2>4, <2>6 DEF JobFits
  <2> QED
    BY <2>1, <2>7, BeginCurrent
<1>3. ASSUME NEW d \in Days, ReadCancelOne(r, d) PROVE Current(g, s)'
  <2> DEFINE job == [op |-> IF recurring THEN "cancelled_occ" ELSE "cancelled", days |-> {d},
                     day |-> d, slot |-> rows[d].slot, moved |-> FALSE,
                     seq |-> IF recurring THEN rows[d].seq + 1 ELSE rows[d].seq]
  <2>1. Begin(r, job) /\ d \in Live /\ (recurring => d \in Future)
    BY <1>3 DEF ReadCancelOne
  <2>2. /\ job.op = IF recurring THEN "cancelled_occ" ELSE "cancelled"
        /\ job.day = d /\ job.days = {d}
        /\ job.slot = rows[d].slot /\ ~ job.moved
        /\ recurring => job.seq = rows[d].seq + 1
    OBVIOUS
  <2> HIDE DEF job
  <2>3. JobFits(job, g, s)
    <3>1. CASE recurring
      BY <1>0, <2>1, <2>2, <3>1 DEF JobFits, RemovalFits, RowsCurrent
    <3>2. CASE ~ recurring
      <4>1. Live \cap Future \subseteq {d}
        BY <1>0, <2>1, <3>2 DEF Days
      <4> QED
        BY <2>2, <3>2, <4>1 DEF JobFits
    <3> QED
      BY <3>1, <3>2
  <2> QED
    BY <2>1, <2>3, BeginCurrent
<1>4. ASSUME ReadCancelAll(r) PROVE Current(g, s)'
  <2> DEFINE d == Min(Live \cap Future)
             job == [op |-> "cancelled", days |-> Live \cap Future, day |-> d,
                     slot |-> rows[d].slot, seq |-> rows[d].seq, moved |-> FALSE]
  <2>1. Begin(r, job)
    BY <1>4 DEF ReadCancelAll
  <2>2. job.op = "cancelled" /\ job.days = Live \cap Future
    OBVIOUS
  <2> HIDE DEF job, d
  <2>3. JobFits(job, g, s)
    BY <2>2 DEF JobFits
  <2> QED
    BY <2>1, <2>3, BeginCurrent
<1> QED
  BY <1>1, <1>2, <1>3, <1>4

-----------------------------------------------------------------------------
(* Requests commit, one at a time.                                         *)
OneRequest == \A r, q \in Requests : r = q

CommitsJob(job, arrives, status) ==
  /\ Alike(rows', Written(job))
  /\ DOMAIN notices' = DOMAIN notices \cup {Len(notices) + 1}
  /\ \A i \in DOMAIN notices : notices'[i] = notices[i]
  /\ notices'[Len(notices) + 1].type = job.op
  /\ notices'[Len(notices) + 1].day = job.day
  /\ notices'[Len(notices) + 1].status = status
  /\ calendar' = IF arrives THEN Received(JobMail(job)) ELSE calendar
  /\ UNCHANGED <<today, recurring, retry, unsaved>>

(* A commit: rows, a notice, a mail.                                       *)
LEMMA CommitDoes ==
  ASSUME TypeInv, NEW r \in Requests, Commit(r)
  PROVE  \E arrives \in BOOLEAN, status \in {"sent", "failed"} :
           /\ ~ arrives => status = "failed"
           /\ CommitsJob(jobs[r], arrives, status)
<1> DEFINE job == jobs[r]
<1>1. PICK outcome \in Outcomes :
        /\ Posted(outcome, JobMail(job))
        /\ rows' = Labelled(Written(job), job.op, job.day, outcome.reported)
        /\ notices' = Append(notices, [type |-> job.op, day |-> job.day, retries |-> 0,
                                       status |-> Verdict(outcome.reported)])
  BY DEF Commit
<1>2. UNCHANGED <<today, recurring, retry, unsaved>> /\ notices \in Seq(Notices)
  BY DEF Commit, world, counts, TypeInv, NoticesTyped
<1>3. Alike(rows', Written(job))
  BY <1>1, LabelledAlike
<1>4. /\ outcome.arrives \in BOOLEAN /\ Verdict(outcome.reported) \in {"sent", "failed"}
      /\ ~ outcome.arrives => Verdict(outcome.reported) = "failed"
      /\ calendar' = IF outcome.arrives THEN Received(JobMail(job)) ELSE calendar
  BY <1>1, PostedAnswer DEF Verdict
<1> DEFINE n == [type |-> job.op, day |-> job.day, retries |-> 0,
                 status |-> Verdict(outcome.reported)]
<1>5. n.type = job.op /\ n.day = job.day /\ n.status = Verdict(outcome.reported)
      /\ notices' = Append(notices, n)
  BY <1>1
<1> HIDE DEF n, job
<1>6. CommitsJob(job, outcome.arrives, Verdict(outcome.reported))
  BY <1>2, <1>3, <1>4, <1>5 DEF CommitsJob
<1> QED
  BY <1>4, <1>6 DEF job

(* After the commit no request has a job.                                  *)
LEMMA NoJobs ==
  ASSUME OneRequest, TypeInv, NEW r \in Requests, Commit(r), NEW g, NEW s
  PROVE  \A q \in Requests : JobFits(jobs[q], g, s)'
<1>1. \A q \in Requests : jobs'[q] = Idle
  BY DEF OneRequest, Commit, TypeInv, JobsTyped
<1> QED
  BY <1>1 DEF JobFits, Idle

(* What a request commits.                                                 *)
LEMMA CommitTypes ==
  ASSUME TypeInv, NEW r \in Requests, Commit(r)
  PROVE  /\ jobs[r].day \in Days /\ jobs[r].slot \in Slots /\ jobs[r].seq \in Nat
         /\ jobs[r].op \in {"created", "updated", "cancelled", "cancelled_occ"}
         /\ DOMAIN Written(jobs[r]) = Days /\ RowsTyped(Written(jobs[r]))
         /\ jobs[r].op = "created" <=> DOMAIN rows = {}
         /\ DOMAIN rows = {} => jobs[r].days = Days /\ jobs[r].day = 1 /\ jobs[r].seq = 0
<1> DEFINE job == jobs[r]
<1>1. job # Idle /\ JobTyped(job)
  BY DEF Commit, TypeInv, JobsTyped
<1> HIDE DEF job
<1>2. DOMAIN Written(job) = Days /\ RowsTyped(Written(job))
  BY <1>1, WrittenTyped
<1>3. /\ job.day \in Days /\ job.slot \in Slots /\ job.seq \in Nat
      /\ job.op \in {"created", "updated", "cancelled", "cancelled_occ"}
      /\ job.op = "created" <=> DOMAIN rows = {}
      /\ DOMAIN rows = {} => job.days = Days /\ job.day = 1 /\ job.seq = 0
  BY <1>1, DaysAre DEF JobTyped
<1> QED
  BY <1>2, <1>3 DEF job

(* An edit begins a new generation: its SEQUENCE is above whatever the     *)
(* calendar has seen, its notice is due until its mail arrives.            *)
LEMMA EditCurrent ==
  ASSUME OneRequest, TypeInv, NEW g \in Nat, NEW s \in Slots, Current(g, s),
         Live \cap Future # {}, NEW r \in Requests, Commit(r),
         NEW job, job = jobs[r], job.op = "updated", NEW h, h = job.seq, NEW t, t = job.slot
  PROVE  Current(h, t)'
<1>1. PICK arrives \in BOOLEAN, status \in {"sent", "failed"} :
           /\ ~ arrives => status = "failed"
           /\ CommitsJob(job, arrives, status)
  BY CommitDoes
<1>2. /\ job.day \in Days /\ t \in Slots /\ h \in Nat /\ job.op = "updated"
      /\ DOMAIN Written(job) = Days /\ RowsTyped(Written(job)) /\ DOMAIN rows = Days
      /\ Days \subseteq Nat
  BY CommitTypes, DaysAre DEF TypeInv
<1>3. EditFits(job)
  BY <1>2 DEF Current, JobFits
<1>4. /\ RowsCurrent(g, s) /\ NoticesFit /\ RetryFits(g, s) /\ Reached
      /\ calendar.seq \in Nat /\ \A d \in Days : rows[d] \in Rows
      /\ notices \in Seq(Notices) /\ \A i \in DOMAIN notices : notices[i].day \in Days
      /\ RetryTyped
  BY <1>2, CalendarReads DEF Current, TypeInv, NoticesTyped, RowsTyped
<1>5. \A d \in Days : /\ Written(job)[d].status = rows[d].status
                      /\ d \in job.days => Written(job)[d].slot = t /\ Written(job)[d].seq = h
                      /\ d \notin job.days => Written(job)[d] = rows[d]
  BY <1>2, <1>3 DEF Written, EditFits
<1>6. /\ DOMAIN rows' = Days
      /\ \A d \in Days : /\ rows'[d].status = rows[d].status
                         /\ d \in job.days => rows'[d].slot = t /\ rows'[d].seq = h
                         /\ d \notin job.days => rows'[d].slot = rows[d].slot
                                                 /\ rows'[d].seq = rows[d].seq
  BY <1>1, <1>2, <1>5 DEF CommitsJob, Alike
<1>7. /\ Live' = Live /\ Future' = Future
      /\ Confirmed(Written(job)) = Live /\ Coming(Written(job)) = Future
  <2>1. today' = today
    BY <1>1 DEF CommitsJob
  <2>2. Live' = Live
    BY <1>2, <1>6 DEF Live
  <2>3. Future' = Future
    BY <1>2, <1>6, <2>1 DEF Future
  <2>4. Confirmed(Written(job)) = Live
    BY <1>2, <1>5 DEF Live, Confirmed
  <2>5. Coming(Written(job)) = Future
    BY <1>2 DEF Future, Coming
  <2> QED
    BY <2>2, <2>3, <2>4, <2>5
<1>8. \A d \in Days : rows[d].seq < h /\ rows[d].seq \in Nat
  BY <1>2, <1>3, <1>4 DEF EditFits, Rows
<1>9. calendar.seq < h
  BY <1>2, <1>4, <1>8 DEF Reached
<1>10. RowsCurrent(h, t)'
  BY <1>2, <1>3, <1>6, <1>7, <1>8 DEF RowsCurrent, EditFits, Future
<1>11. NoticesFit'
  <2> SUFFICES ASSUME NEW i \in DOMAIN notices'
               PROVE  /\ notices'[i].type # "cancelled"
                      /\ notices'[i].type \in Full =>
                           \A d \in Live \cap Future : notices'[i].day <= d
                      /\ notices'[i].type = "cancelled_occ" =>
                           rows'[notices'[i].day].status = "cancelled"
    BY <1>7 DEF NoticesFit
  <2>1. CASE i \in DOMAIN notices
    BY <1>1, <1>4, <1>6, <2>1 DEF CommitsJob, NoticesFit
  <2>2. CASE i = Len(notices) + 1
    BY <1>1, <1>2, <1>3, <2>2 DEF CommitsJob, EditFits
  <2> QED
    BY <1>1, <2>1, <2>2 DEF CommitsJob
<1>12. RetryFits(h, t)'
  <2> SUFFICES ASSUME retry # NoRetry
               PROVE  /\ retry.seq < h
                      /\ retry.seq <= rows'[notices'[retry.notice].day].seq
    BY <1>1 DEF RetryFits, CommitsJob
  <2>1. /\ retry.notice \in DOMAIN notices /\ retry.seq \in Nat
        /\ notices'[retry.notice] = notices[retry.notice]
    BY <1>1, <1>4 DEF RetryTyped, CommitsJob
  <2> DEFINE d == notices[retry.notice].day
  <2>2. d \in Days /\ retry.seq <= rows[d].seq
    BY <1>4, <2>1 DEF RetryFits
  <2>3. rows'[d].seq = h \/ rows'[d].seq = rows[d].seq
    BY <1>6, <2>2
  <2> HIDE DEF d
  <2>4. retry.seq < h /\ retry.seq <= rows'[d].seq
    BY <1>2, <1>8, <2>1, <2>2, <2>3
  <2> QED
    BY <2>1, <2>4 DEF d
<1>13. CASE arrives
  <2>1. calendar' = [seq |-> h, shown |-> JobMail(job).slots]
    <3>1. JobMail(job).type = "updated" /\ JobMail(job).seq = h
      BY <1>2 DEF JobMail, Invitation
    <3>2. h >= calendar.seq
      BY <1>2, <1>4, <1>9
    <3>3. calendar' = Received(JobMail(job))
      BY <1>1, <1>13 DEF CommitsJob
    <3> QED
      BY <3>1, <3>2, <3>3 DEF Received
  <2>2. Reached'
    <3>1. calendar'.seq = h /\ job.day \in DOMAIN rows' /\ rows'[job.day].seq = h
      BY <1>2, <1>3, <1>6, <2>1 DEF EditFits
    <3> QED
      BY <1>2, <3>1 DEF Reached
  <2>3. /\ \A d \in Live \cap Future : <<d, t>> \in JobMail(job).slots
        /\ \A d \in Future : \A u : <<d, u>> \in JobMail(job).slots => u = t /\ d \in Live
    <3>1. /\ \A d \in Live \cap Future : job.day <= d
          /\ \A d \in Future : Written(job)[d].slot = t
      BY <1>2, <1>3, <1>5, <1>7 DEF EditFits, Coming
    <3>2. job.op \in Full
      BY <1>2 DEF Full
    <3> SUFFICES ASSUME NEW table, table = Written(job)
                 PROVE  /\ \A d \in Live \cap Future : <<d, t>> \in JobMail(job).slots
                        /\ \A d \in Future : \A u : <<d, u>> \in JobMail(job).slots =>
                             u = t /\ d \in Live
      OBVIOUS
    <3>3. /\ DOMAIN table = Days /\ RowsTyped(table)
          /\ Confirmed(table) = Live /\ Coming(table) = Future
          /\ \A d \in Coming(table) : table[d].slot = t
          /\ Confirmed(table) \cap Coming(table) # {}
          /\ \A d \in Confirmed(table) \cap Coming(table) : job.day <= d
      BY <1>2, <1>7, <3>1
    <3>4. job.day \in Days /\ job.op \in Full
      BY <1>2, <3>2
    <3>6. LET m == Invitation(job.op, job.day, t, h, table)
            IN  /\ \A d \in Confirmed(table) \cap Coming(table) : <<d, t>> \in m.slots
                /\ \A d \in Coming(table) : \A u : <<d, u>> \in m.slots =>
                     u = t /\ d \in Confirmed(table)
      BY <3>3, <3>4, InvitationRight
    <3> QED
      BY <3>3, <3>6 DEF JobMail
  <2>4. Clean(h, t)'
    BY <1>7, <2>1, <2>3 DEF Clean
  <2>5. Promised(h, t)'
    BY <1>2, <1>7, <2>1, <2>3 DEF Promised, Shows
  <2> QED
    BY <1>10, <1>11, <1>12, <2>2, <2>4, <2>5, NoJobs DEF Current
<1>14. CASE ~ arrives
  <2>1. calendar' = calendar /\ status = "failed"
    BY <1>1, <1>14 DEF CommitsJob
  <2>2. Reached'
    <3>1. PICK d \in Days : calendar.seq <= rows[d].seq
      BY <1>2, <1>4 DEF Reached
    <3>2. rows'[d].seq = h \/ rows'[d].seq = rows[d].seq
      BY <1>6
    <3>3. calendar'.seq <= rows'[d].seq
      BY <1>2, <1>4, <1>9, <2>1, <3>1, <3>2
    <3> QED
      BY <1>6, <3>3 DEF Reached
  <2>3. ~ (calendar'.seq >= h)
    BY <1>2, <1>4, <1>9, <2>1
  <2>4. \E k \in DOMAIN notices' : Due(k, h, t)'
    <3> SUFFICES ASSUME NEW k, k = Len(notices) + 1
                 PROVE  k \in DOMAIN notices' /\ Due(k, h, t)'
      OBVIOUS
    <3>1. k \notin DOMAIN notices /\ k # 0 /\ k \in Nat
      BY <1>4
    <3>2. retry'.notice # k
      BY <1>1, <1>4, <3>1 DEF CommitsJob, RetryTyped, NoRetry
    <3>3. /\ notices'[k].status = "failed" /\ notices'[k].type \in Full
          /\ notices'[k].day = job.day /\ k \in DOMAIN notices'
      BY <1>1, <1>2, <2>1 DEF CommitsJob, Full
    <3>4. rows'[job.day].seq = h /\ rows'[job.day].slot = t
      BY <1>2, <1>3, <1>6 DEF EditFits
    <3> QED
      BY <1>2, <3>2, <3>3, <3>4 DEF Due
  <2>5. Clean(h, t)' /\ Promised(h, t)'
    BY <2>3, <2>4 DEF Clean, Promised
  <2> QED
    BY <1>10, <1>11, <1>12, <2>2, <2>5, NoJobs DEF Current
<1> QED
  BY <1>13, <1>14

(* An occurrence cancelled alone: out of the calendar, or due to be.       *)
LEMMA RemovalCurrent ==
  ASSUME OneRequest, TypeInv, NEW g \in Nat, NEW s \in Slots, Current(g, s),
         Live \cap Future # {}, NEW r \in Requests, Commit(r),
         NEW job, job = jobs[r], job.op = "cancelled_occ"
  PROVE  Current(g, s)'
<1>1. PICK arrives \in BOOLEAN, status \in {"sent", "failed"} :
           /\ ~ arrives => status = "failed"
           /\ CommitsJob(job, arrives, status)
  BY CommitDoes
<1>2. /\ job.day \in Days /\ DOMAIN Written(job) = Days /\ DOMAIN rows = Days
      /\ Days \subseteq Nat
  BY CommitTypes, DaysAre DEF TypeInv
<1>3. RemovalFits(job, g, s)
  BY DEF Current, JobFits
<1>4. /\ RowsCurrent(g, s) /\ NoticesFit /\ RetryFits(g, s) /\ Reached
      /\ Clean(g, s) /\ Promised(g, s)
      /\ calendar.seq \in Nat /\ \A d \in Days : rows[d].seq \in Nat
      /\ notices \in Seq(Notices) /\ \A i \in DOMAIN notices : notices[i].day \in Days
      /\ RetryTyped
  BY <1>2, CalendarReads DEF Current, TypeInv, NoticesTyped, RowsTyped, Rows
<1>5. \A d \in Days :
        IF d = job.day
        THEN /\ Written(job)[d].status = "cancelled" /\ Written(job)[d].slot = rows[d].slot
             /\ Written(job)[d].seq = rows[d].seq + 1
        ELSE Written(job)[d] = rows[d]
  BY <1>2, <1>3 DEF Written, RemovalFits
<1>6. /\ DOMAIN rows' = Days
      /\ rows'[job.day].status = "cancelled"
      /\ \A d \in Days : /\ rows'[d].slot = rows[d].slot
                         /\ rows'[d].seq \in {rows[d].seq, rows[d].seq + 1}
                         /\ d # job.day => rows'[d].status = rows[d].status
  <2>1. /\ DOMAIN rows' = Days
        /\ \A d \in Days : /\ rows'[d].status = Written(job)[d].status
                           /\ rows'[d].slot = Written(job)[d].slot
                           /\ rows'[d].seq = Written(job)[d].seq
    BY <1>1, <1>2 DEF CommitsJob, Alike
  <2>2. \A d \in Days : /\ rows'[d].slot = rows[d].slot
                       /\ rows'[d].seq \in {rows[d].seq, rows[d].seq + 1}
                       /\ d # job.day => rows'[d].status = rows[d].status
    <3> TAKE d \in Days
    <3>1. CASE d = job.day
      BY <1>5, <2>1, <3>1
    <3>2. CASE d # job.day
      BY <1>5, <2>1, <3>2
    <3> QED
      BY <3>1, <3>2
  <2> QED
    BY <1>2, <1>5, <2>1, <2>2
<1>7. Live' = Live \ {job.day} /\ Future' = Future
  <2>1. today' = today
    BY <1>1 DEF CommitsJob
  <2>2. Live' = Live \ {job.day}
    BY <1>2, <1>6 DEF Live
  <2>3. Future' = Future
    BY <1>2, <1>6, <2>1 DEF Future
  <2> QED
    BY <2>2, <2>3
<1>8. \A d \in Days : rows'[d].seq \in Nat /\ rows'[d].seq >= rows[d].seq
  BY <1>4, <1>6
<1>9. RowsCurrent(g, s)'
  <2>1. \A d \in Days : rows'[d].seq < g \/ rows'[d].slot = s
    <3> SUFFICES ASSUME NEW d \in Days, rows[d].slot # s PROVE rows'[d].seq < g
      BY <1>6
    <3>1. d # job.day /\ rows[d].seq < g
      BY <1>2, <1>3, <1>4 DEF RemovalFits, RowsCurrent
    <3>2. rows'[d].seq = rows[d].seq
      BY <1>1, <1>2, <1>5, <3>1 DEF CommitsJob, Alike
    <3> QED
      BY <3>1, <3>2
  <2>2. \A d \in Future : rows'[d].seq >= g /\ rows'[d].slot = s
    <3> SUFFICES ASSUME NEW d \in Future PROVE rows'[d].seq >= g /\ rows'[d].slot = s
      OBVIOUS
    <3>1. d \in Days /\ rows[d].seq >= g /\ rows[d].slot = s
      BY <1>2, <1>4 DEF RowsCurrent, Future
    <3>2. rows'[d].seq \in Nat /\ rows'[d].seq >= rows[d].seq /\ rows'[d].slot = rows[d].slot
          /\ rows[d].seq \in Nat
      BY <1>4, <1>6, <1>8, <3>1
    <3> QED
      BY <3>1, <3>2
  <2> QED
    BY <1>6, <1>7, <2>1, <2>2 DEF RowsCurrent
<1>10. NoticesFit'
  <2> SUFFICES ASSUME NEW i \in DOMAIN notices'
               PROVE  /\ notices'[i].type # "cancelled"
                      /\ notices'[i].type \in Full =>
                           \A d \in Live' \cap Future : notices'[i].day <= d
                      /\ notices'[i].type = "cancelled_occ" =>
                           rows'[notices'[i].day].status = "cancelled"
    BY <1>7 DEF NoticesFit
  <2>1. CASE i \in DOMAIN notices
    <3>1. notices'[i] = notices[i] /\ notices[i].day \in Days
      BY <1>1, <1>4, <2>1 DEF CommitsJob
    <3> QED
      BY <1>4, <1>6, <1>7, <2>1, <3>1 DEF NoticesFit
  <2>2. CASE i = Len(notices) + 1
    BY <1>1, <1>2, <1>6, <2>2 DEF CommitsJob, Full
  <2> QED
    BY <1>1, <2>1, <2>2 DEF CommitsJob
<1>11. RetryFits(g, s)'
  <2> SUFFICES ASSUME retry # NoRetry
               PROVE  retry.seq <= rows'[notices'[retry.notice].day].seq
    BY <1>1, <1>4 DEF RetryFits, CommitsJob
  <2>1. /\ retry.notice \in DOMAIN notices /\ retry.seq \in Nat
        /\ notices'[retry.notice] = notices[retry.notice]
    BY <1>1, <1>4 DEF RetryTyped, CommitsJob
  <2>2. notices[retry.notice].day \in Days /\ retry.seq <= rows[notices[retry.notice].day].seq
    BY <1>4, <2>1 DEF RetryFits
  <2> QED
    BY <1>4, <1>8, <2>1, <2>2
<1>12. /\ calendar'.seq = calendar.seq /\ calendar'.shown \subseteq calendar.shown
       /\ calendar.shown \ {<<job.day, s>>} \subseteq calendar'.shown
       /\ arrives => <<job.day, s>> \notin calendar'.shown
  <2>1. JobMail(job).type = "cancelled_occ" /\ JobMail(job).slots = {<<job.day, s>>}
    BY <1>3 DEF JobMail, Invitation, RemovalFits
  <2>2. CASE arrives
    <3>1. calendar' = [calendar EXCEPT !.shown = @ \ {<<job.day, s>>}]
      BY <1>1, <2>1, <2>2 DEF CommitsJob, Received
    <3> QED
      BY <3>1 DEF TypeInv, CalendarTyped
  <2>3. CASE ~ arrives
    BY <1>1, <2>3 DEF CommitsJob
  <2> QED
    BY <2>2, <2>3
<1>13. Reached'
  <2>1. PICK d \in Days : calendar.seq <= rows[d].seq
    BY <1>2, <1>4 DEF Reached
  <2>2. calendar'.seq <= rows'[d].seq
    BY <1>4, <1>8, <1>12, <2>1
  <2> QED
    BY <1>6, <2>2 DEF Reached
<1>14. Clean(g, s)'
  <2> SUFFICES ASSUME calendar.seq >= g, NEW d \in Future, NEW t \in Slots,
                      <<d, t>> \in calendar'.shown
               PROVE  t = s /\ (d \in Live' \/ \E j \in DOMAIN notices' : RemovalDue(j, d, s)')
    BY <1>7, <1>12 DEF Clean
  <2>1. t = s /\ (d \in Live \/ \E j \in DOMAIN notices : RemovalDue(j, d, s))
    BY <1>4, <1>12 DEF Clean
  <2>2. CASE d \in Live /\ d # job.day
    BY <1>7, <2>1, <2>2
  <2>3. CASE d = job.day
    <3>1. status = "failed"
      BY <1>1, <1>12, <2>1, <2>3
    <3> SUFFICES ASSUME NEW k, k = Len(notices) + 1
                 PROVE  k \in DOMAIN notices' /\ RemovalDue(k, d, s)'
      BY <2>1
    <3>2. k \notin DOMAIN notices /\ k # 0 /\ k \in Nat
      BY <1>4
    <3>3. retry'.notice # k
      BY <1>1, <1>4, <3>2 DEF CommitsJob, RetryTyped, NoRetry
    <3> QED
      BY <1>1, <2>3, <3>1, <3>3 DEF CommitsJob, RemovalDue
  <2>4. CASE d \notin Live
    <3>1. PICK j \in DOMAIN notices : RemovalDue(j, d, s)
      BY <2>1, <2>4
    <3>2. j \in DOMAIN notices' /\ RemovalDue(j, d, s)'
      BY <1>1, <3>1 DEF CommitsJob, RemovalDue
    <3> QED
      BY <2>1, <3>2
  <2> QED
    BY <2>2, <2>3, <2>4
<1>15. Promised(g, s)'
  <2>1. Shows(s) => Shows(s)'
    BY <1>7, <1>12 DEF Shows
  <2>2. ASSUME NEW j \in DOMAIN notices, Due(j, g, s)
        PROVE  j \in DOMAIN notices' /\ Due(j, g, s)'
    <3> DEFINE d == notices[j].day
    <3>1. /\ j \in DOMAIN notices' /\ notices'[j] = notices[j] /\ retry' = retry
          /\ d \in Days
      BY <1>1, <1>4 DEF CommitsJob
    <3>2. rows'[d].seq >= g /\ rows'[d].slot = s
      <4>1. rows[d].seq >= g /\ rows[d].slot = s
        BY <2>2 DEF Due
      <4>2. rows'[d].seq \in Nat /\ rows'[d].seq >= rows[d].seq /\ rows[d].seq \in Nat
        BY <1>4, <1>8, <3>1
      <4>3. rows'[d].slot = rows[d].slot
        BY <1>6, <3>1
      <4> HIDE DEF d
      <4> QED
        BY <4>1, <4>2, <4>3
    <3> QED
      BY <2>2, <3>1, <3>2 DEF Due
  <2> QED
    BY <1>4, <1>12, <2>1, <2>2 DEF Promised
<1> QED
  BY <1>9, <1>10, <1>11, <1>13, <1>14, <1>15, NoJobs DEF Current

(* The meeting is created: the first generation.                           *)
LEMMA CreateCurrent ==
  ASSUME OneRequest, TypeInv, calendar = [seq |-> 0, shown |-> {}],
         NEW r \in Requests, Commit(r), NEW job, job = jobs[r], job.op = "created",
         NEW s, s = job.slot, Live' \cap Future' # {}
  PROVE  Current(0, s)'
<1>1. PICK arrives \in BOOLEAN, status \in {"sent", "failed"} :
           /\ ~ arrives => status = "failed"
           /\ CommitsJob(job, arrives, status)
  BY CommitDoes
<1>2. /\ job.day = 1 /\ job.days = Days /\ job.seq = 0 /\ s \in Slots
      /\ DOMAIN Written(job) = Days /\ RowsTyped(Written(job)) /\ DOMAIN rows = {}
  BY CommitTypes
<1>3. PICK n \in Nat \ {0} : Days = 1 .. n
  BY DaysAre
<1>4. \A d \in Days : /\ Written(job)[d].status = "confirmed" /\ Written(job)[d].slot = s
                      /\ Written(job)[d].seq = 0
  BY <1>2 DEF Written
<1>5. /\ DOMAIN rows' = Days
      /\ \A d \in Days : /\ rows'[d].status = "confirmed" /\ rows'[d].slot = s
                         /\ rows'[d].seq = 0
  BY <1>1, <1>2, <1>4 DEF CommitsJob, Alike
<1>6. /\ today' = today /\ Live' = Days /\ Future' = Coming(Written(job))
      /\ Confirmed(Written(job)) = Days
  <2>1. today' = today
    BY <1>1 DEF CommitsJob
  <2>2. Live' = Days /\ Confirmed(Written(job)) = Days
    BY <1>2, <1>4, <1>5 DEF Live, Confirmed
  <2>3. Future' = Coming(Written(job))
    BY <1>2, <1>5, <2>1 DEF Future, Coming
  <2> QED
    BY <2>1, <2>2, <2>3
<1>7. notices \in Seq(Notices) /\ DOMAIN notices = {} /\ retry = NoRetry
  BY <1>2 DEF TypeInv, NoticesTyped, RetryTyped
<1>8. Len(notices) + 1 \in Nat \ {0}
  BY <1>7
<1> SUFFICES ASSUME NEW k, k = Len(notices) + 1
             PROVE  Current(0, s)'
  OBVIOUS
<1>9. /\ DOMAIN notices' = {k} /\ notices'[k].type = "created" /\ notices'[k].day = 1
      /\ notices'[k].status = status /\ retry' = NoRetry
  BY <1>1, <1>2, <1>7 DEF CommitsJob
<1>10. RowsCurrent(0, s)'
  BY <1>5, <1>2 DEF RowsCurrent, Future
<1>11. NoticesFit'
  BY <1>3, <1>6, <1>9 DEF NoticesFit, Full
<1>12. RetryFits(0, s)'
  BY <1>9 DEF RetryFits
<1>13. 1 \in Days
  BY <1>3
<1>14. CASE arrives
  <2>1. calendar' = [seq |-> 0, shown |-> JobMail(job).slots]
    <3>1. JobMail(job).type = "created" /\ JobMail(job).seq = 0
      BY <1>2 DEF JobMail, Invitation
    <3>2. calendar' = Received(JobMail(job))
      BY <1>1, <1>14 DEF CommitsJob
    <3> QED
      BY <3>1, <3>2 DEF Received
  <2>2. /\ \A d \in Live' \cap Future' : <<d, s>> \in JobMail(job).slots
        /\ \A d \in Future' : \A u : <<d, u>> \in JobMail(job).slots => u = s /\ d \in Live'
    <3> SUFFICES ASSUME NEW table, table = Written(job)
                 PROVE  /\ \A d \in Live' \cap Future' : <<d, s>> \in JobMail(job).slots
                        /\ \A d \in Future' : \A u : <<d, u>> \in JobMail(job).slots =>
                             u = s /\ d \in Live'
      OBVIOUS
    <3>1. /\ DOMAIN table = Days /\ RowsTyped(table)
          /\ Confirmed(table) = Live' /\ Coming(table) = Future'
          /\ Confirmed(table) \cap Coming(table) # {}
      BY <1>2, <1>6
    <3>2. /\ \A d \in Coming(table) : table[d].slot = s
          /\ \A d \in Confirmed(table) \cap Coming(table) : job.day <= d
      BY <1>2, <1>3, <1>4, <3>1 DEF Coming
    <3>3. job.day \in Days /\ job.op \in Full
      BY <1>2, <1>13 DEF Full
    <3>4. LET m == Invitation(job.op, job.day, s, 0, table)
            IN  /\ \A d \in Confirmed(table) \cap Coming(table) : <<d, s>> \in m.slots
                /\ \A d \in Coming(table) : \A u : <<d, u>> \in m.slots =>
                     u = s /\ d \in Confirmed(table)
      BY <3>1, <3>2, <3>3, InvitationRight
    <3> QED
      BY <1>2, <3>1, <3>4 DEF JobMail
  <2>3. Clean(0, s)' /\ Promised(0, s)'
    BY <2>1, <2>2 DEF Clean, Promised, Shows
  <2>4. Reached'
    BY <1>5, <1>13, <2>1 DEF Reached
  <2> QED
    BY <1>10, <1>11, <1>12, <2>3, <2>4, NoJobs DEF Current
<1>15. CASE ~ arrives
  <2>1. calendar' = [seq |-> 0, shown |-> {}] /\ status = "failed"
    BY <1>1, <1>15 DEF CommitsJob
  <2>2. Due(k, 0, s)'
    BY <1>5, <1>8, <1>9, <1>13, <2>1 DEF Due, Full, NoRetry
  <2>3. Clean(0, s)' /\ Promised(0, s)'
    BY <1>9, <2>1, <2>2 DEF Clean, Promised
  <2>4. Reached'
    BY <1>5, <1>13, <2>1 DEF Reached
  <2> QED
    BY <1>10, <1>11, <1>12, <2>3, <2>4, NoJobs DEF Current
<1> QED
  BY <1>14, <1>15

(* A cancellation of the meeting leaves nothing to come; other commits on  *)
(* its rows leave no more to come than there was.                          *)
LEMMA CommitRemains ==
  ASSUME TypeInv, NEW r \in Requests, Commit(r), jobs[r].op # "created"
  PROVE  /\ Live' \cap Future' \subseteq Live \cap Future
         /\ jobs[r].op = "cancelled" => Live' \cap Future' \subseteq (Live \cap Future) \ jobs[r].days
<1> DEFINE job == jobs[r]
<1>1. PICK arrives \in BOOLEAN, status \in {"sent", "failed"} :
           /\ ~ arrives => status = "failed"
           /\ CommitsJob(job, arrives, status)
  BY CommitDoes
<1>2. DOMAIN Written(job) = Days /\ DOMAIN rows = Days
  BY CommitTypes DEF TypeInv
<1>3. job.op # "created" /\ today' = today
  BY <1>1 DEF CommitsJob
<1> HIDE DEF job
<1>4. \A d \in Days : /\ Written(job)[d].status = "confirmed" => rows[d].status = "confirmed"
                      /\ job.op = "cancelled" /\ d \in job.days =>
                           Written(job)[d].status = "cancelled"
  BY <1>2, <1>3 DEF Written
<1>5. DOMAIN rows' = Days /\ \A d \in Days : rows'[d].status = Written(job)[d].status
  BY <1>1, <1>2 DEF CommitsJob, Alike
<1>6. \A d \in Live' : d \in Live /\ (job.op = "cancelled" => d \notin job.days)
  BY <1>2, <1>4, <1>5 DEF Live
<1>7. Future' \subseteq Future
  BY <1>2, <1>3, <1>5 DEF Future
<1> QED
  BY <1>6, <1>7 DEF job

LEMMA CommitKeepsCalendar ==
  ASSUME OneRequest, TypeInv, CalendarInv, NEW r \in Requests, Commit(r)
  PROVE  CalendarInv'
<1> SUFFICES ASSUME NEW job, job = jobs[r] PROVE CalendarInv'
  OBVIOUS
<1>0. PICK arrives \in BOOLEAN, status \in {"sent", "failed"} : CommitsJob(job, arrives, status)
  BY CommitDoes
<1>1. /\ DOMAIN Written(job) = Days /\ 1 \in Days /\ job.slot \in Slots /\ job.seq \in Nat
      /\ job.op \in {"created", "updated", "cancelled", "cancelled_occ"}
      /\ job.op = "created" <=> DOMAIN rows = {}
  BY CommitTypes, DaysAre
<1>2. DOMAIN rows' # {} /\ unsaved' = unsaved
  BY <1>0, <1>1 DEF CommitsJob, Alike
<1>3. ASSUME Going' PROVE \E g \in Nat, s \in Slots : Current(g, s)'
  <2>1. CASE job.op = "created"
    <3>1. calendar = [seq |-> 0, shown |-> {}] /\ Live' \cap Future' # {}
      BY <1>1, <1>2, <1>3, <2>1 DEF CalendarInv, Going
    <3>2. \A s : s = job.slot => Current(0, s)'
      BY <2>1, <3>1, CreateCurrent
    <3> QED
      BY <1>1, <3>2
  <2>2. CASE job.op # "created"
    <3>1. Going /\ Live \cap Future # {}
      BY <1>2, <1>3, <2>2, CommitRemains DEF Going
    <3>2. PICK g \in Nat, s \in Slots : Current(g, s)
      BY <3>1 DEF CalendarInv
    <3>3. CASE job.op = "updated"
      <4>1. \A h, t : h = job.seq /\ t = job.slot => Current(h, t)'
        BY <3>1, <3>2, <3>3, EditCurrent
      <4> QED
        BY <1>1, <4>1
    <3>4. CASE job.op = "cancelled_occ"
      <4>1. Current(g, s)'
        BY <3>1, <3>2, <3>4, RemovalCurrent
      <4> QED
        BY <4>1
    <3>5. CASE job.op = "cancelled"
      <4>1. Live \cap Future \subseteq job.days
        BY <3>2, <3>5 DEF Current, JobFits
      <4>2. Live' \cap Future' = {}
        BY <2>2, <3>5, <4>1, CommitRemains
      <4> QED
        BY <1>3, <4>2 DEF Going
    <3> QED
      BY <1>1, <2>2, <3>3, <3>4, <3>5
  <2> QED
    BY <2>1, <2>2
<1> QED
  BY <1>2, <1>3 DEF CalendarInv

(* CalendarInv is inductive.                                               *)
LEMMA CalendarKept ==
  ASSUME OneRequest, TypeInv, CalendarInv, [Next]_vars
  PROVE  CalendarInv'
<1>1. ASSUME NEW r \in Requests, Commit(r) PROVE CalendarInv'
  BY <1>1, CommitKeepsCalendar
<1>2. ASSUME NEW r \in Requests, Crash(r) PROVE CalendarInv'
  BY <1>2 DEF Crash, CalendarInv, Going
<1>3. ASSUME TickSend \/ TickCrash \/ \E i \in DOMAIN notices : Resend(i)
      PROVE  CalendarInv'
  <2>0. Alike(rows', rows)
    BY <1>3, AnswersAlike
  <2>1. DOMAIN rows # {} /\ DOMAIN rows' = DOMAIN rows
    BY <1>3, <2>0 DEF TickSend, TickCrash, TypeInv, RetryTyped, NoticesTyped, Alike
  <2>2. ASSUME Going' PROVE \E g \in Nat, s \in Slots : Current(g, s)'
    <3>1. today' = today /\ unsaved' = unsaved
      BY <1>3 DEF TickSend, TickCrash, Resend, world, counts
    <3>2. Going /\ Live \cap Future # {}
      <4>1. Live' = Live /\ Future' = Future
        BY <2>0, <3>1, SameDays
      <4> QED
        BY <2>2, <3>1, <4>1 DEF Going
    <3>3. PICK g \in Nat, s \in Slots : Current(g, s)
      BY <3>2 DEF CalendarInv
    <3>4. Current(g, s)'
      BY <1>3, <3>2, <3>3, TickSendCurrent, TickCrashCurrent, ResendCurrent
    <3> QED
      BY <3>4
  <2> QED
    BY <2>1, <2>2 DEF CalendarInv
<1>4. ASSUME NEW r \in Requests,
             \/ \E slot \in Slots : ReadCreate(r, slot) \/ ReadEdit(r, slot)
             \/ \E d \in Days : ReadCancelOne(r, d)
             \/ ReadCancelAll(r)
      PROVE  CalendarInv'
  <2>1. UNCHANGED <<rows, calendar, today, unsaved>>
    BY <1>4 DEF ReadCreate, ReadEdit, ReadCancelOne, ReadCancelAll, Begin, bookings, world, counts
  <2>2. Going' <=> Going
    BY <2>1 DEF Going, Live, Future
  <2>3. ASSUME Going PROVE \E g \in Nat, s \in Slots : Current(g, s)'
    <3>1. PICK g \in Nat, s \in Slots : Current(g, s)
      BY <2>3 DEF CalendarInv
    <3>2. Current(g, s)'
      BY <1>4, <2>3, <3>1, ReadsCurrent DEF Going
    <3> QED
      BY <3>2
  <2> QED
    BY <2>1, <2>2, <2>3 DEF CalendarInv
<1>5. ASSUME \/ \E r \in Requests : Refused(r)
             \/ \E d \in Days, slot \in Slots : OtherBooks(d, slot)
             \/ TickRead \/ DayPasses \/ UNCHANGED vars
      PROVE  CalendarInv'
  <2>1. UNCHANGED <<rows, calendar, unsaved>> /\ today' \in {today, today + 1}
    BY <1>5 DEF Refused, OtherBooks, TickRead, DayPasses, vars, bookings, world, counts
  <2>2. Going' => Going
    <3>1. Live' = Live /\ today \in Nat /\ DOMAIN rows \subseteq Nat
      BY <2>1, DaysAre DEF Live, TypeInv, WorldTyped
    <3>2. Future' \subseteq Future
      BY <2>1, <3>1 DEF Future
    <3> QED
      BY <2>1, <3>1, <3>2 DEF Going
  <2>3. ASSUME Going PROVE \E g \in Nat, s \in Slots : Current(g, s)'
    <3>1. PICK g \in Nat, s \in Slots : Current(g, s)
      BY <2>3 DEF CalendarInv
    <3>2. CASE TickRead
      BY <3>1, <3>2, TickReadCurrent
    <3>3. CASE DayPasses
      BY <3>1, <3>3, DayCurrent
    <3>4. CASE \/ \E r \in Requests : Refused(r)
               \/ \E d \in Days, slot \in Slots : OtherBooks(d, slot)
               \/ UNCHANGED vars
      <4>1. UNCHANGED <<rows, notices, calendar, retry, today>>
        BY <3>4 DEF Refused, OtherBooks, vars, bookings, world
      <4>2. \A q \in Requests : JobFits(jobs'[q], g, s)
        <5>1. \A q \in Requests : jobs'[q] = jobs[q] \/ jobs'[q] = Idle
          BY <3>4 DEF Refused, OtherBooks, vars, TypeInv, JobsTyped
        <5> QED
          BY <3>1, <5>1 DEF Current, JobFits, Idle
      <4>3. Current(g, s)'
        BY <3>1, <4>1, <4>2, SameCurrent
      <4> QED
        BY <4>3
    <3> QED
      BY <1>5, <3>2, <3>3, <3>4
  <2> QED
    BY <2>1, <2>2, <2>3 DEF CalendarInv
<1> QED
  BY <1>1, <1>2, <1>3, <1>4, <1>5 DEF Next

LEMMA CalendarAlways ==
  ASSUME OneRequest
  PROVE  Spec => []CalendarInv
<1>1. Init => CalendarInv
  BY DEF Init, CalendarInv, Going, Live
<1>2. TypeInv /\ CalendarInv /\ [Next]_vars => CalendarInv'
  BY CalendarKept
<1> QED
  BY <1>1, <1>2, TypesAlways, PTL DEF Spec

(* NothingMissing (BK-REC-06): once every notice has been sent, each       *)
(* meeting to come is in the calendar at its time, in whatever order       *)
(* failures, retries, resends and crashed ticks put the mails.  Requests   *)
(* that overlap do break it, hence OneRequest.                             *)
THEOREM NothingGoesMissing ==
  ASSUME OneRequest
  PROVE  Spec => []NothingMissing
BY CalendarAlways, NothingMissingFollows, PTL

(* CancelledOccurrenceGone (BK-CHG-06): an occurrence cancelled alone      *)
(* stays out of the calendar, at its old time and at any later one, under  *)
(* the same.                                                               *)
THEOREM CancelledStaysGone ==
  ASSUME OneRequest
  PROVE  Spec => []CancelledOccurrenceGone
BY CalendarAlways, CancelledGoneFollows, PTL

===============================================================================
