----------------------------- MODULE RoomBooking -----------------------------
(***************************************************************************)
(* One meeting of booking-api, single or recurring: its rows (one per      *)
(* occurrence), the room they occupy, the invitations mailed for it and    *)
(* what an attendee's calendar makes of them.                              *)
(*                                                                         *)
(* A request reads rows without a lock, later writes the columns it        *)
(* changed, mails the invitation from the rows it holds in memory and only *)
(* then commits (app/db/session.py).  A mail that fails leaves a failed    *)
(* notice, which the scheduler's tick mails again from the rows as they    *)
(* are then; after Retries failures it alerts the administrators.          *)
(*                                                                         *)
(* Slots stand for a room with a time of day; occurrences are the days     *)
(* 1..Occurrences.  The calendar is external: it follows the rules of iTIP *)
(* for SEQUENCE, RECURRENCE-ID and EXDATE that the code relies on.         *)
(***************************************************************************)
EXTENDS Integers, Sequences, FiniteSetsExt

CONSTANTS
  Requests,      \* requests served at the same time
  Occurrences,   \* dates of a recurring meeting
  Slots,         \* rooms with a time of day
  Retries,       \* retries of a failed notice (5 in scheduler.py)
  MaxNotices,    \* bound: notices written
  MaxUpsets,     \* bound: notices sent again by hand, and transactions
                 \* lost after their mail went out, together
  MaxTaken       \* bound: slots other meetings take

ASSUME OccurrenceAssumption == Occurrences \in Nat \ {0}
ASSUME RetryAssumption == Retries \in Nat \ {0}

VARIABLES
  recurring,  \* the meeting is a series
  rows,       \* bookings, by day; no day before the meeting is created
  today,      \* occurrences up to this day have started
  taken,      \* <<day, slot>> of other meetings' confirmed bookings
  notices,    \* booking_notification_log of this meeting, oldest first
  alerted,    \* the notices a sync_alert was written for
  calendar,   \* an attendee's calendar: last SEQUENCE, <<day, slot>> shown
  jobs,       \* what each request has read and is about to write
  retry,      \* the notice the tick is retrying, with the row it read
  resent, crashes,
  unsaved     \* history: a mail left for a change that was never stored

bookings == <<rows, notices, alerted>>
world == <<recurring, today, taken>>
counts == <<resent, crashes, unsaved>>
vars == <<bookings, world, calendar, jobs, retry, counts>>

Days == IF recurring THEN 1 .. Occurrences ELSE {1}
Idle == [op |-> "idle"]
NoRetry == [notice |-> 0]

Rows == [status : {"confirmed", "cancelled"}, slot : Slots, seq : Nat,
         label : {"pending", "sent", "failed"}]
Notices == [type : {"created", "updated", "cancelled", "cancelled_occ"}, day : Nat,
            status : {"sent", "failed"}, retries : 0 .. Retries]

Live == {d \in DOMAIN rows : rows[d].status = "confirmed"}
Future == {d \in DOMAIN rows : d > today}

Init ==
  /\ recurring \in BOOLEAN
  /\ rows = << >> /\ today = 0 /\ taken = {}
  /\ notices = << >> /\ alerted = {}
  /\ calendar = [seq |-> 0, shown |-> {}]
  /\ jobs = [r \in Requests |-> Idle] /\ retry = NoRetry
  /\ resent = 0 /\ crashes = 0 /\ unsaved = FALSE

-----------------------------------------------------------------------------
(* Mails. *)

(* The dates of an invitation's recurrence rule: its COUNT is the one the  *)
(* series was created with, whichever occurrence the rule starts from.     *)
Recurrence(day) == IF recurring THEN day .. day + Occurrences - 1 ELSE {day}

(* EXDATE: the future occurrences cancelled one by one. *)
Exdates(table) ==
  {<<d, table[d].slot>> : d \in {c \in DOMAIN table :
     recurring /\ c > today /\ table[c].status = "cancelled"}}

(* build_event_ics for a notice of this type about this row. *)
Invitation(type, day, slot, seq, table) ==
  [type |-> type, seq |-> seq,
   slots |-> CASE type \in {"created", "updated"} ->
                    {<<d, slot>> : d \in Recurrence(day)} \ Exdates(table)
               [] type = "cancelled" -> {}
               [] type = "cancelled_occ" -> {<<day, slot>>}]

(* The calendar ignores a mail older than what it shows, by SEQUENCE; an   *)
(* instance of a series is removed on its own.                             *)
Received(mail) ==
  CASE mail.type = "cancelled_occ" -> [calendar EXCEPT !.shown = @ \ mail.slots]
    [] mail.type # "cancelled_occ" /\ mail.seq >= calendar.seq ->
         [seq |-> mail.seq, shown |-> mail.slots]
    [] OTHER -> calendar

(* A mail is delivered, lost, or delivered and reported as failed. *)
Outcomes == [arrives : BOOLEAN, reported : BOOLEAN] \ {[arrives |-> FALSE, reported |-> TRUE]}

Posted(outcome, mail) == calendar' = IF outcome.arrives THEN Received(mail) ELSE calendar
Verdict(ok) == IF ok THEN "sent" ELSE "failed"

(* _propagate_series_sync_status: the rows a mail's outcome is shown on.   *)
Covers(type, d, table) ==
  recurring /\ type # "cancelled_occ" /\ table[d].status = "confirmed"

(* Mutant: a success is shown only on the row the mail was about.          *)
LabelledFailuresOnly(table, type, day, ok) ==
  [d \in DOMAIN table |->
     IF d = day \/ (~ ok /\ Covers(type, d, table))
     THEN [table[d] EXCEPT !.label = Verdict(ok)]
     ELSE table[d]]

Labelled(table, type, day, ok) ==
  [d \in DOMAIN table |->
     IF d = day \/ Covers(type, d, table)
     THEN [status |-> table[d].status, slot |-> table[d].slot, seq |-> table[d].seq,
           label |-> Verdict(ok)]
     ELSE table[d]]

-----------------------------------------------------------------------------
(* Requests: what they read. *)

Free(days, slot) == \A d \in days : <<d, slot>> \notin taken

(* Mutant: the series' number stays what it was. *)
SameSequence == Max({rows[d].seq : d \in DOMAIN rows})

NextSequence == Max({rows[d].seq : d \in DOMAIN rows}) + 1

(* Mutant: cancelled occurrences keep their old time. *)
EditedLiveOnly == IF recurring THEN Live \cap Future ELSE Live

(* The rows an edit writes.  Cancelled future occurrences follow the       *)
(* series, so that EXDATE names the instants its rule now produces.        *)
Edited == IF recurring THEN Future ELSE Live

Begin(r, job) ==
  /\ jobs[r] = Idle
  /\ Len(notices) + Cardinality({q \in Requests : jobs[q] # Idle}) < MaxNotices
  /\ jobs' = [jobs EXCEPT ![r] = job]
  /\ UNCHANGED <<bookings, world, calendar, retry, counts>>

ReadCreate(r, slot) ==
  /\ rows = << >> /\ today = 0 /\ ~ unsaved
  /\ \A q \in Requests : jobs[q] = Idle
  /\ Free(Days, slot)
  /\ Begin(r, [op |-> "created", days |-> Days, day |-> 1, slot |-> slot, seq |-> 0,
               moved |-> TRUE])

(* update_booking and update_booking_series.  Only an administrator edits  *)
(* a single meeting that has started.                                      *)
ReadEdit(r, slot) ==
  LET live == IF recurring THEN Live \cap Future ELSE Live
  IN  /\ live # {}
      /\ Free(live, slot)
      /\ Begin(r, [op |-> "updated", days |-> Edited, day |-> Min(live), slot |-> slot,
                   seq |-> NextSequence, moved |-> slot # rows[Min(live)].slot])

(* cancel_booking, series=false. *)
ReadCancelOne(r, d) ==
  /\ d \in Live
  /\ recurring => d \in Future
  /\ Begin(r, [op |-> IF recurring THEN "cancelled_occ" ELSE "cancelled", days |-> {d},
               day |-> d, slot |-> rows[d].slot, moved |-> FALSE,
               seq |-> IF recurring THEN rows[d].seq + 1 ELSE rows[d].seq])

(* cancel_booking, series=true. *)
ReadCancelAll(r) ==
  /\ recurring /\ Live \cap Future # {}
  /\ LET day == Min(Live \cap Future)
     IN Begin(r, [op |-> "cancelled", days |-> Live \cap Future, day |-> day,
                  slot |-> rows[day].slot, seq |-> rows[day].seq, moved |-> FALSE])

-----------------------------------------------------------------------------
(* Requests: what they write, mail and commit. *)

(* The columns a job changed, written over the rows as they are now. *)
Written(job) ==
  IF job.op = "created"
  THEN [d \in job.days |-> [status |-> "confirmed", slot |-> job.slot, seq |-> 0,
                            label |-> "pending"]]
  ELSE [d \in DOMAIN rows |->
          IF d \notin job.days THEN rows[d]
          ELSE [status |-> IF job.op = "updated" THEN rows[d].status ELSE "cancelled",
                slot   |-> IF job.moved THEN job.slot ELSE rows[d].slot,
                seq    |-> IF job.op = "cancelled" THEN rows[d].seq ELSE job.seq,
                label  |-> "pending"]]

(* Mutant: the check made before the insert is all there is. *)
FitsUnchecked(table) == TRUE

(* The exclusion constraint no_double_booking. *)
Fits(table) ==
  \A d \in DOMAIN table : table[d].status = "confirmed" => <<d, table[d].slot>> \notin taken

JobMail(job) == Invitation(job.op, job.day, job.slot, job.seq, Written(job))

Commit(r) ==
  /\ jobs[r] # Idle
  /\ Fits(Written(jobs[r]))
  /\ \E outcome \in Outcomes :
       /\ Posted(outcome, JobMail(jobs[r]))
       /\ rows' = Labelled(Written(jobs[r]), jobs[r].op, jobs[r].day, outcome.reported)
       /\ notices' = Append(notices, [type |-> jobs[r].op, day |-> jobs[r].day, retries |-> 0,
                                      status |-> Verdict(outcome.reported)])
  /\ jobs' = [jobs EXCEPT ![r] = Idle]
  /\ UNCHANGED <<alerted, world, retry, counts>>

(* IntegrityError: another meeting took the slot since the check. *)
Refused(r) ==
  /\ jobs[r] # Idle
  /\ ~ Fits(Written(jobs[r]))
  /\ jobs' = [jobs EXCEPT ![r] = Idle]
  /\ UNCHANGED <<bookings, world, calendar, retry, counts>>

(* The process stops between its mail and its commit. *)
Crash(r) ==
  /\ jobs[r] # Idle /\ resent + crashes < MaxUpsets
  /\ Fits(Written(jobs[r]))
  /\ calendar' = Received(JobMail(jobs[r]))
  /\ crashes' = crashes + 1 /\ unsaved' = TRUE
  /\ jobs' = [jobs EXCEPT ![r] = Idle]
  /\ UNCHANGED <<bookings, world, retry, resent>>

-----------------------------------------------------------------------------
(* The scheduler's tick, and the administrator's Resend. *)

(* Mutant: one retry too many. *)
RetryDuePast(notice) == notice.status = "failed" /\ notice.retries <= Retries

RetryDue(notice) == notice.status = "failed" /\ notice.retries < Retries

TickRead ==
  /\ retry = NoRetry
  /\ \E i \in DOMAIN notices :
       /\ RetryDue(notices[i])
       /\ retry' = [notice |-> i, slot |-> rows[notices[i].day].slot,
                    seq |-> rows[notices[i].day].seq]
  /\ UNCHANGED <<bookings, world, calendar, jobs, counts>>

(* Mutant: the alert waits for one failure more. *)
ExhaustedPast(attempts) == attempts > Retries

Exhausted(attempts) == attempts >= Retries

(* The row the tick read is mailed, with the EXDATEs of now.  A sync_alert *)
(* is mailed at once, to administrators; its outcome replaces the label,   *)
(* unless no administrator is configured.                                  *)
TickSend ==
  LET i == retry.notice
      n == notices[i]
  IN  /\ retry # NoRetry
      /\ \E outcome \in Outcomes, alert \in {"sent", "failed", "unaddressed"} :
           LET done == Labelled(rows, n.type, n.day, outcome.reported)
               gaveUp == ~ outcome.reported /\ Exhausted(n.retries + 1)
           IN /\ Posted(outcome, Invitation(n.type, n.day, retry.slot, retry.seq, rows))
              /\ notices' = [notices EXCEPT ![i].retries = n.retries + 1,
                                            ![i].status = IF outcome.reported THEN "sent" ELSE @]
              /\ alerted' = IF gaveUp THEN alerted \cup {i} ELSE alerted
              /\ rows' = IF gaveUp /\ alert # "unaddressed"
                         THEN Labelled(done, "sync_alert", n.day, alert = "sent")
                         ELSE done
      /\ retry' = NoRetry
      /\ UNCHANGED <<world, jobs, counts>>

(* A tick that stops before its commit: the mail may have left. *)
TickCrash ==
  /\ retry # NoRetry /\ resent + crashes < MaxUpsets
  /\ \E outcome \in Outcomes :
       LET n == notices[retry.notice]
       IN Posted(outcome, Invitation(n.type, n.day, retry.slot, retry.seq, rows))
  /\ crashes' = crashes + 1
  /\ retry' = NoRetry
  /\ UNCHANGED <<bookings, world, jobs, resent, unsaved>>

Resend(i) ==
  /\ resent + crashes < MaxUpsets
  /\ LET n == notices[i]
         row == rows[n.day]
     IN \E outcome \in Outcomes :
          /\ Posted(outcome, Invitation(n.type, n.day, row.slot, row.seq, rows))
          /\ notices' = [notices EXCEPT ![i].status = Verdict(outcome.reported)]
          /\ rows' = Labelled(rows, n.type, n.day, outcome.reported)
  /\ resent' = resent + 1
  /\ UNCHANGED <<alerted, world, jobs, retry, crashes, unsaved>>

-----------------------------------------------------------------------------
(* Another meeting is booked into the room. *)
OtherBooks(d, slot) ==
  /\ Cardinality(taken) < MaxTaken
  /\ d > today
  /\ ~ (d \in Live /\ rows[d].slot = slot)
  /\ taken' = taken \cup {<<d, slot>>}
  /\ UNCHANGED <<bookings, recurring, today, calendar, jobs, retry, counts>>

DayPasses ==
  /\ today < Occurrences
  /\ today' = today + 1
  /\ UNCHANGED <<bookings, recurring, taken, calendar, jobs, retry, counts>>

Next ==
  \/ \E r \in Requests :
       \/ \E slot \in Slots : ReadCreate(r, slot) \/ ReadEdit(r, slot)
       \/ \E d \in Days : ReadCancelOne(r, d)
       \/ ReadCancelAll(r)
       \/ Commit(r) \/ Refused(r) \/ Crash(r)
  \/ TickRead \/ TickSend \/ TickCrash
  \/ \E i \in DOMAIN notices : Resend(i)
  \/ \E d \in Days, slot \in Slots : OtherBooks(d, slot)
  \/ DayPasses

Spec == Init /\ [][Next]_vars

-----------------------------------------------------------------------------
(* Properties. *)

BookingTypeOK ==
  /\ DOMAIN rows \in {{}, Days}
  /\ \A d \in DOMAIN rows : rows[d] \in Rows
  /\ today \in 0 .. Occurrences
  /\ \A i \in DOMAIN notices : notices[i] \in Notices /\ notices[i].day \in DOMAIN rows
  /\ alerted \subseteq DOMAIN notices
  /\ calendar.seq \in Nat
  /\ DOMAIN jobs = Requests
  /\ retry.notice \in DOMAIN notices \cup {0}

(* Two confirmed bookings never share a room at a time, although a request *)
(* looks for conflicts before it writes and others book in between.        *)
NoDoubleBooking == \A d \in Live : <<d, rows[d].slot>> \notin taken

(* Everything mailed has arrived, and nothing else is under way. *)
Quiet ==
  /\ \A r \in Requests : jobs[r] = Idle
  /\ retry = NoRetry
  /\ \A i \in DOMAIN notices : notices[i].status = "sent"
  /\ ~ unsaved

(* BOOKING.md, BK-REC-06: Outlook shows what the module holds.  Once every *)
(* notice has been sent, in whatever order failures and retries put them,  *)
(* each meeting still to come is in the calendar, at its time.             *)
NothingMissing == Quiet => \A d \in Live \cap Future : <<d, rows[d].slot>> \in calendar.shown

(* BK-CHG-06: an occurrence cancelled on its own stays out of the calendar *)
(* while its series goes on, at its old time and at any the series was     *)
(* moved to since, through edits of the series and late retries.           *)
CancelledOccurrenceGone ==
  Quiet /\ Live \cap Future # {}
    => \A d \in Future \ Live, slot \in Slots : <<d, slot>> \notin calendar.shown

(* BK-SYNC-04: no notice is given up in silence, short of one that an      *)
(* administrator sends again after its last retry.                         *)
GivenUpIsAlerted ==
  resent = 0 =>
    \A i \in DOMAIN notices :
      notices[i].status = "failed" /\ notices[i].retries >= Retries => i \in alerted

(* The label "failed" a user sees on a booking has a failed notice behind  *)
(* it, which is retried or was alerted about.                              *)
FailedLabelsTrue ==
  resent = 0 /\ (\E d \in DOMAIN rows : rows[d].label = "failed")
    => \E i \in DOMAIN notices : notices[i].status = "failed"

=============================================================================
