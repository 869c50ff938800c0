------------------------ MODULE VisitLifecycle_proofs ------------------------
(***************************************************************************)
(* The visit's four invariants.  Types and LetInOnlyCleared hold with any  *)
(* number of requests side by side; StatusesAgree and AwaitedIsAsked with  *)
(* one request at a time beside the scheduler, the engine and the calls    *)
(* that were given up.  With two requests the code breaks both.            *)
(***************************************************************************)
EXTENDS VisitLifecycle, TLAPS

-----------------------------------------------------------------------------
(***************************************************************************)
(* Types.  A session has nothing to do, has chosen the route of a          *)
(* submission, waits for the engine or has its answer, or is about to      *)
(* commit the columns it changed.                                          *)
(***************************************************************************)
Routing == [op: {"submit"}, pc: {"route"}, area: Zones, approval: RESUBMITTABLE_STATES]
Asking == [op: {"submit", "withdraw", "cancel"}, pc: {"wait", "replied"}, reply: BOOLEAN]
Waits(job) == job \in Asking /\ job.pc = "wait"

WritesTyped(w) ==
  /\ DOMAIN w \subseteq Columns
  /\ "status" \in DOMAIN w => w["status"] \in VisitStatus
  /\ "approval" \in DOMAIN w => w["approval"] \in ApprovalStatus
  /\ "step" \in DOMAIN w => w["step"] \in 0 .. Steps
  /\ "area" \in DOMAIN w => w["area"] \in Zones
  /\ "routed" \in DOMAIN w => w["routed"] \subseteq Managers
  /\ "arrived" \in DOMAIN w => w["arrived"] \in BOOLEAN

Committing(job) ==
  /\ job # Idle /\ job.pc = "commit" /\ job.op \in Ops
  /\ job.closing \in Tasks /\ WritesTyped(job.writes)

RequestJob(job) == Committing(job) /\ job.op # "noshow"
TickJob(job) ==
  /\ Committing(job) /\ job.op = "noshow"
  /\ job.before.status \in Editable /\ job.before.approval \in ApprovalStatus

JobFits(s, job) ==
  \/ job = Idle
  \/ s \in Requests /\ job \in Routing
  \/ s \in Requests /\ job \in Asking
  \/ s \in Requests /\ RequestJob(job)
  \/ s = Tick /\ TickJob(job)

EventTyped(ev) ==
  ev = NoEvent \/ ev \in [status: Editable, approval: ApprovalStatus, closed: Tasks]

StateTyped ==
  /\ visit \in Row /\ tasks \in Tasks /\ zones \in ZoneTables
  /\ late \in BOOLEAN /\ moves \in 0 .. MaxMoves
  /\ EventTyped(event)
  /\ routedFor \in Zones /\ cleared \subseteq Zones

JobsTyped == DOMAIN jobs = Sessions /\ \A s \in Sessions : JobFits(s, jobs[s])

(* A session that waits for a call waits for that one only. *)
CallsAwaited ==
  /\ \A c \in calls : c.by \in Requests => Waits(jobs[c.by])
  /\ \A c, d \in calls : c.by = d.by /\ c.by \in Requests => c = d

CallsTyped ==
  /\ calls \subseteq [act: {"submit", "cancel"}, by: Requests \cup {"nobody"}]
  /\ CallsAwaited

TypeInv == StateTyped /\ JobsTyped /\ CallsTyped

-----------------------------------------------------------------------------
(* Rows and writes. *)

(* A commit of typed columns over a typed row leaves a typed row. *)
LEMMA WrittenTyped ==
  ASSUME NEW w, WritesTyped(w), visit \in Row
  PROVE  Written(w) \in Row
<1> DEFINE v(c) == IF c \in DOMAIN w THEN w[c] ELSE visit[c]
<1>1. Written(w) = [status |-> v("status"), approval |-> v("approval"), step |-> v("step"),
                    area |-> v("area"), routed |-> v("routed"), arrived |-> v("arrived")]
  BY DEF Written, Columns
<1>2. /\ v("status") \in VisitStatus /\ v("approval") \in ApprovalStatus
      /\ v("step") \in 0 .. Steps /\ v("area") \in Zones
      /\ v("routed") \in SUBSET Managers /\ v("arrived") \in BOOLEAN
  BY DEF WritesTyped, Row
<1> HIDE DEF v
<1> QED
  BY <1>1, <1>2 DEF Row

(* The columns of a commit that agreement is about. *)
LEMMA WrittenIs ==
  ASSUME NEW w
  PROVE  /\ Written(w).status = IF "status" \in DOMAIN w THEN w["status"] ELSE visit.status
         /\ Written(w).approval = IF "approval" \in DOMAIN w THEN w["approval"] ELSE visit.approval
         /\ Written(w).arrived = IF "arrived" \in DOMAIN w THEN w["arrived"] ELSE visit.arrived
BY DEF Written, Columns

LEMMA ChangesAre ==
  ASSUME NEW row
  PROVE  /\ DOMAIN Changes(row) \subseteq Columns
         /\ \A c \in Columns : c \in DOMAIN Changes(row) <=> row[c] # visit[c]
         /\ \A c \in DOMAIN Changes(row) : Changes(row)[c] = row[c]
BY DEF Changes

LEMMA ChangesTyped ==
  ASSUME NEW row \in Row, visit \in Row
  PROVE  WritesTyped(Changes(row))
BY DEF Changes, WritesTyped, Row, Columns

(* Mirroring the engine, cancelling, exempting and closing keep the type. *)
LEMMA RowsMade ==
  ASSUME NEW row \in Row
  PROVE  /\ Synced(row) \in Row
         /\ Cancelled(row) \in Row
         /\ NoShow(row) \in Row
         /\ Exempted(row) \in Row
<1>1. Synced(row) \in Row
  BY DEF Synced, Row, VisitStatus
<1>2. Cancelled(row) \in Row
  BY DEF Cancelled, Row, VisitStatus, ApprovalStatus
<1>3. NoShow(row) \in Row
  <2>1. PICK r \in Row : r = Cancelled(row)
    BY <1>2
  <2>2. [r EXCEPT !.status = "no_show"] \in Row
    BY DEF Row, VisitStatus
  <2> QED
    BY <2>1, <2>2 DEF NoShow
<1>4. Exempted(row) \in Row
  BY DEF Exempted, Row, VisitStatus, ApprovalStatus
<1> QED
  BY <1>1, <1>2, <1>3, <1>4

(* What a session loads and changes is a job it may commit. *)
LEMMA LoadedFits ==
  ASSUME NEW op \in Ops \ {"noshow"}, NEW row \in Row, NEW closing \in Tasks, visit \in Row
  PROVE  RequestJob(Loaded(op, row, closing))
<1>1. PICK w : w = Changes(row)
  OBVIOUS
<1>2. WritesTyped(w)
  BY <1>1, ChangesTyped
<1>3. Loaded(op, row, closing) = [op |-> op, pc |-> "commit", writes |-> w, closing |-> closing]
  BY <1>1 DEF Loaded
<1> QED
  BY <1>2, <1>3 DEF RequestJob, Committing, Idle, Ops

LEMMA MarkingFits ==
  ASSUME NEW row \in Row, NEW closing \in Tasks, visit \in Row, visit.status \in Editable
  PROVE  TickJob(Marking(row, closing))
<1>1. PICK w : w = Changes(row)
  OBVIOUS
<1>2. WritesTyped(w)
  BY <1>1, ChangesTyped
<1>3. Marking(row, closing) =
        [op |-> "noshow", pc |-> "commit", writes |-> w, closing |-> closing,
         before |-> [status |-> visit.status, approval |-> visit.approval]]
  BY <1>1 DEF Marking
<1>4. visit.approval \in ApprovalStatus
  BY DEF Row
<1> QED
  BY <1>2, <1>3, <1>4 DEF TickJob, Committing, Idle, Ops

-----------------------------------------------------------------------------
(* Sessions and calls. *)

(* A session that is not waiting takes another job; the calls stand. *)
LEMMA SessionTurns ==
  ASSUME JobsTyped, CallsTyped,
         NEW s \in Sessions, NEW j, JobFits(s, j), ~Waits(jobs[s]),
         jobs' = [jobs EXCEPT ![s] = j], calls' = calls
  PROVE  JobsTyped' /\ CallsTyped'
<1>1. DOMAIN jobs' = Sessions /\ \A t \in Sessions : jobs'[t] = IF t = s THEN j ELSE jobs[t]
  BY DEF JobsTyped
<1>2. JobsTyped'
  BY <1>1 DEF JobsTyped
<1>3. ASSUME NEW c \in calls, c.by \in Requests
      PROVE  Waits(jobs'[c.by])
  BY <1>1, <1>3 DEF CallsTyped, CallsAwaited, Sessions
<1> QED
  BY <1>2, <1>3 DEF CallsTyped, CallsAwaited

(* It calls the engine. *)
LEMMA SessionCalls ==
  ASSUME JobsTyped, CallsTyped,
         NEW s \in Requests, NEW op \in {"submit", "withdraw", "cancel"},
         NEW act \in {"submit", "cancel"}, ~Waits(jobs[s]), Call(s, op, act)
  PROVE  JobsTyped' /\ CallsTyped'
<1>1. PICK j \in Asking : j = [op |-> op, pc |-> "wait", reply |-> FALSE]
  BY DEF Asking
<1>2. Waits(j)
  BY <1>1 DEF Waits
<1>3. /\ DOMAIN jobs' = Sessions
      /\ \A t \in Sessions : jobs'[t] = IF t = s THEN j ELSE jobs[t]
  BY <1>1 DEF JobsTyped, Call
<1>4. JobsTyped'
  BY <1>3 DEF JobsTyped, JobFits
<1>5. PICK new \in [act: {"submit", "cancel"}, by: Requests \cup {"nobody"}] :
        new = [act |-> act, by |-> s]
  OBVIOUS
<1>6. calls' = calls \cup {new} /\ new.by = s
  BY <1>5 DEF Call
<1>7. \A c \in calls : c.by # s
  BY DEF CallsTyped, CallsAwaited
<1>8. \A c \in calls' : c.by \in Requests => Waits(jobs'[c.by])
  BY <1>2, <1>3, <1>6 DEF CallsTyped, CallsAwaited, Sessions
<1>9. \A c, d \in calls' : c.by = d.by /\ c.by \in Requests => c = d
  BY <1>6, <1>7 DEF CallsTyped, CallsAwaited
<1>10. calls' \subseteq [act: {"submit", "cancel"}, by: Requests \cup {"nobody"}]
  BY <1>6 DEF CallsTyped
<1> QED
  BY <1>4, <1>8, <1>9, <1>10 DEF CallsTyped, CallsAwaited

(* The engine answers a call: who waited for it goes on. *)
LEMMA AnswerTurns ==
  ASSUME JobsTyped, CallsTyped, NEW c \in calls, NEW ok \in BOOLEAN, Answer(c, ok)
  PROVE  JobsTyped' /\ CallsTyped'
<1>1. calls' = calls \ {c}
  BY DEF Answer
<1>2. CASE c.by = "nobody"
  <2>1. jobs' = jobs
    BY <1>2 DEF Answer
  <2> QED
    BY <1>1, <2>1 DEF JobsTyped, CallsTyped, CallsAwaited
<1>3. CASE c.by # "nobody"
  <2>1. PICK r \in Requests : r = c.by
    BY <1>3 DEF CallsTyped
  <2>2. r \in Sessions /\ jobs[r] \in Asking
    BY <2>1 DEF CallsTyped, CallsAwaited, Waits, Sessions
  <2>3. jobs' = [jobs EXCEPT ![r].pc = "replied", ![r].reply = ok]
    BY <1>3, <2>1 DEF Answer
  <2>4. PICK j \in Asking : j = [op |-> jobs[r].op, pc |-> "replied", reply |-> ok]
    BY <2>2 DEF Asking
  <2>5. /\ DOMAIN jobs' = Sessions
        /\ \A t \in Sessions : jobs'[t] = IF t = r THEN j ELSE jobs[t]
    BY <2>2, <2>3, <2>4 DEF JobsTyped, Asking
  <2>6. JobsTyped'
    BY <2>5 DEF JobsTyped, JobFits
  <2>7. \A d \in calls' : d.by \in Requests => d.by # r
    BY <1>1, <2>1 DEF CallsTyped, CallsAwaited
  <2>8. \A d \in calls' : d.by \in Requests => Waits(jobs'[d.by])
    BY <1>1, <2>5, <2>7 DEF CallsTyped, CallsAwaited, Sessions
  <2> QED
    BY <1>1, <2>6, <2>8 DEF CallsTyped, CallsAwaited
<1> QED
  BY <1>2, <1>3

(* A session gives up: its call is nobody's from then on. *)
LEMMA TimeOutTurns ==
  ASSUME JobsTyped, CallsTyped, NEW s \in Sessions, TimeOut(s)
  PROVE  JobsTyped' /\ CallsTyped'
<1>1. s \in Requests /\ jobs[s] \in Asking
  BY SessionAssumption DEF TimeOut, JobsTyped, JobFits, RequestJob, TickJob, Committing, Routing
<1>2. PICK j \in Asking : j = [op |-> jobs[s].op, pc |-> "replied", reply |-> jobs[s].reply]
  BY <1>1 DEF Asking
<1>3. /\ DOMAIN jobs' = Sessions
      /\ \A t \in Sessions : jobs'[t] = IF t = s THEN j ELSE jobs[t]
  BY <1>1, <1>2 DEF JobsTyped, Asking, TimeOut
<1>4. JobsTyped'
  BY <1>1, <1>3 DEF JobsTyped, JobFits
<1> DEFINE Freed(c) == IF c.by = s THEN [c EXCEPT !.by = "nobody"] ELSE c
           CallSet == [act: {"submit", "cancel"}, by: Requests \cup {"nobody"}]
<1>5. calls' = {Freed(c) : c \in calls}
  BY DEF TimeOut
<1>6. \A c \in CallSet : /\ Freed(c) \in CallSet
                         /\ c.by = s => Freed(c).by = "nobody"
                         /\ c.by # s => Freed(c) = c
  OBVIOUS
<1>7. calls \subseteq CallSet
  BY DEF CallsTyped
<1> HIDE DEF Freed
<1>8. calls' \subseteq CallSet
  BY <1>5, <1>6, <1>7
<1>9. \A c \in calls' : c.by \in Requests => c \in calls /\ c.by # s
  BY <1>5, <1>6, <1>7, SessionAssumption
<1>10. \A c \in calls' : c.by \in Requests => Waits(jobs'[c.by])
  BY <1>3, <1>9 DEF CallsTyped, CallsAwaited, Sessions
<1> QED
  BY <1>4, <1>8, <1>9, <1>10 DEF CallsTyped, CallsAwaited

-----------------------------------------------------------------------------
(* The type invariant, step by step. *)

LEMMA TypesInitially == Init => TypeInv
<1> SUFFICES ASSUME Init PROVE TypeInv
  OBVIOUS
<1>1. (CHOOSE z \in Zones : TRUE) \in Zones
  BY ZoneAssumption
<1>2. visit \in Row /\ routedFor \in Zones
  BY <1>1, StepsAssumption DEF Init, Row, VisitStatus, ApprovalStatus
<1>3. StateTyped
  <2>1. tasks \in Tasks /\ zones \in ZoneTables /\ late \in BOOLEAN
    BY DEF Init, Tasks
  <2>2. moves \in 0 .. MaxMoves
    BY MovesAssumption DEF Init
  <2>3. EventTyped(event) /\ cleared \subseteq Zones
    BY DEF Init, EventTyped
  <2> QED
    BY <1>2, <2>1, <2>2, <2>3 DEF StateTyped
<1>4. JobsTyped /\ CallsTyped
  BY DEF Init, JobsTyped, JobFits, CallsTyped, CallsAwaited
<1> QED
  BY <1>3, <1>4 DEF TypeInv

(* A request that only loads the row and takes a job. *)
LEMMA BeginTypes ==
  ASSUME TypeInv, NEW s \in Requests, NEW j, JobFits(s, j),
         jobs[s] = Idle, jobs' = [jobs EXCEPT ![s] = j], cleared' \subseteq Zones,
         UNCHANGED <<visit, tasks, zones, clock, calls, routedFor>>
  PROVE  TypeInv'
<1>1. ~Waits(jobs[s]) /\ s \in Sessions
  BY DEF Waits, Asking, Idle, Sessions
<1>2. JobsTyped' /\ CallsTyped'
  BY <1>1, SessionTurns DEF TypeInv
<1>3. StateTyped'
  BY DEF TypeInv, StateTyped, clock
<1> QED
  BY <1>2, <1>3 DEF TypeInv

LEMMA LoadedTypes ==
  ASSUME TypeInv, NEW s \in Requests, NEW op \in Ops \ {"noshow"}, NEW row \in Row,
         NEW closing \in Tasks,
         jobs[s] = Idle, jobs' = [jobs EXCEPT ![s] = Loaded(op, row, closing)],
         cleared' \subseteq Zones,
         UNCHANGED <<visit, tasks, zones, clock, calls, routedFor>>
  PROVE  TypeInv'
<1>1. JobFits(s, Loaded(op, row, closing))
  BY LoadedFits DEF TypeInv, StateTyped, JobFits
<1> QED
  BY <1>1, BeginTypes

LEMMA CreateTypes ==
  ASSUME TypeInv, NEW s \in Requests, NEW z \in Zones, Create(s, z)
  PROVE  TypeInv'
<1>0. ~Waits(jobs[s]) /\ s \in Sessions
  BY DEF Create, Waits, Asking, Idle, Sessions
<1>1. CASE ~RequiresApproval(z)
  <2>1. visit' \in Row /\ cleared' \subseteq Zones
    BY <1>1 DEF Create, TypeInv, StateTyped, Row, VisitStatus
  <2>2. UNCHANGED <<jobs, calls, routedFor, tasks, zones, clock>>
    BY <1>1 DEF Create
  <2>3. JobsTyped' /\ CallsTyped'
    BY <2>2 DEF TypeInv, JobsTyped, CallsTyped, CallsAwaited
  <2> QED
    BY <2>1, <2>2, <2>3 DEF TypeInv, StateTyped, clock
<1>2. CASE RequiresApproval(z)
  <2>1. ActiveManagers(z) \in SUBSET Managers
    BY ZoneAssumption DEF ActiveManagers, TypeInv, StateTyped
  <2>2. visit' \in Row
    BY <1>2, <2>1 DEF Create, TypeInv, StateTyped, Row, VisitStatus, ApprovalStatus
  <2>3. /\ Submitted(s, z)
        /\ UNCHANGED <<cleared, tasks, zones, clock>>
    BY <1>2 DEF Create
  <2>4. routedFor' = z
    BY <2>3 DEF Submitted
  <2>5. JobsTyped' /\ CallsTyped'
    <3>1. CASE ActiveManagers(z) = {}
      <4>1. jobs' = [jobs EXCEPT ![s] = Idle] /\ calls' = calls
        BY <2>3, <3>1 DEF Submitted, End
      <4> QED
        BY <1>0, <4>1, SessionTurns DEF TypeInv, JobFits
    <3>2. CASE ActiveManagers(z) # {}
      BY <1>0, <2>3, <3>2, SessionCalls DEF Submitted, TypeInv
    <3> QED
      BY <3>1, <3>2
  <2> QED
    BY <2>2, <2>3, <2>4, <2>5 DEF TypeInv, StateTyped, clock
<1> QED
  BY <1>1, <1>2

LEMMA RequestTypes ==
  ASSUME TypeInv, NEW s \in Requests, Request(s)
  PROVE  TypeInv'
<1> DEFINE row == Synced(visit)
<1>0. row \in Row /\ visit \in Row /\ tasks \in Tasks /\ {} \in Tasks /\ cleared \subseteq Zones
  BY RowsMade DEF TypeInv, StateTyped, Tasks
<1> HIDE DEF row
<1>1. CASE SubmitRead(s)
  <2>1. PICK j : j = [op |-> "submit", pc |-> "route", area |-> row.area, approval |-> row.approval]
    OBVIOUS
  <2>2. JobFits(s, j)
    BY <1>0, <1>1, <2>1 DEF SubmitRead, row, JobFits, Routing, Row
  <2> QED
    BY <1>0, <1>1, <2>1, <2>2, BeginTypes DEF SubmitRead, row, history
<1>2. CASE CancelRead(s)
  <2>1. CASE row.status = "pending_approval" /\ row.approval \in IN_FLIGHT_STATES
    <3>1. ~Waits(jobs[s])
      BY <1>2 DEF CancelRead, Waits, Asking, Idle
    <3>2. JobsTyped' /\ CallsTyped'
      BY <1>2, <2>1, <3>1, SessionCalls DEF CancelRead, row, TypeInv
    <3> QED
      BY <1>2, <3>2 DEF CancelRead, TypeInv, StateTyped, clock, history
  <2>2. CASE ~(row.status = "pending_approval" /\ row.approval \in IN_FLIGHT_STATES)
    <3>1. PICK r \in Row : r = [row EXCEPT !.status = "cancelled"]
      BY <1>0 DEF Row, VisitStatus
    <3>2. jobs[s] = Idle /\ jobs' = [jobs EXCEPT ![s] = Loaded("cancel", r, tasks)]
      BY <1>2, <2>2, <3>1 DEF CancelRead, row
    <3>3. UNCHANGED <<visit, tasks, zones, clock, calls, routedFor, cleared>>
      BY <1>2, <2>2 DEF CancelRead, row, history
    <3> QED
      BY <1>0, <3>2, <3>3, LoadedTypes DEF Ops
  <2> QED
    BY <2>1, <2>2
<1>3. CASE Read(s)
  BY <1>0, <1>3, LoadedTypes DEF Read, Begin, row, history, Ops
<1>4. CASE Postpone(s)
  BY <1>0, <1>4, LoadedTypes DEF Postpone, Begin, row, history, Ops
<1>5. CASE PrintBadge(s)
  <2>1. PICK r \in Row : r = [row EXCEPT !.arrived = TRUE, !.status = "checked_in"]
    BY <1>0 DEF Row, VisitStatus
  <2> QED
    BY <1>0, <1>5, <2>1, LoadedTypes DEF PrintBadge, Begin, row, history, Ops
<1>6. CASE CheckOut(s)
  <2>1. PICK r \in Row : r = [visit EXCEPT !.status = "checked_out"]
    BY <1>0 DEF Row, VisitStatus
  <2> QED
    BY <1>0, <1>6, <2>1, LoadedTypes DEF CheckOut, Begin, history, Ops
<1>7. CASE UndoNoShow(s)
  <2>0. event.status \in VisitStatus /\ event.approval \in ApprovalStatus
    BY <1>7 DEF UndoNoShow, TypeInv, StateTyped, EventTyped, Editable, VisitStatus
  <2>1. PICK r \in Row : r = [visit EXCEPT !.status = event.status, !.approval = event.approval]
    BY <1>0, <2>0 DEF Row
  <2> QED
    BY <1>0, <1>7, <2>1, LoadedTypes DEF UndoNoShow, Begin, history, Ops
<1>8. CASE \E z \in Zones : Create(s, z)
  BY <1>8, CreateTypes
<1>9. ASSUME NEW z \in Zones, EditArea(s, z) PROVE TypeInv'
  <2>1. PICK r \in Row : r = [row EXCEPT !.area = z]
    BY <1>0 DEF Row
  <2>2. cleared' \subseteq Zones
    BY <1>0, <1>9 DEF EditArea
  <2> QED
    BY <1>0, <1>9, <2>1, <2>2, LoadedTypes DEF EditArea, row, Ops
<1> QED
  BY <1>1, <1>2, <1>3, <1>4, <1>5, <1>6, <1>7, <1>8, <1>9 DEF Request

LEMMA RouteTypes ==
  ASSUME TypeInv, NEW s \in Sessions, SubmitRoute(s)
  PROVE  TypeInv'
<1> DEFINE z == jobs[s].area
<1>1. s \in Requests /\ jobs[s] \in Routing /\ ~Waits(jobs[s])
  BY DEF SubmitRoute, TypeInv, JobsTyped, JobFits, Routing, Asking, RequestJob, TickJob,
         Committing, Idle, Waits
<1>2. z \in Zones
  BY <1>1 DEF Routing
<1> HIDE DEF z
<1>3. UNCHANGED <<tasks, zones, clock>>
  BY DEF SubmitRoute
<1>4. CASE RequiresApproval(z)
  <2>1. ActiveManagers(z) \in SUBSET Managers
    BY <1>2, ZoneAssumption DEF ActiveManagers, TypeInv, StateTyped
  <2>2. visit' \in Row
    BY <1>4, <2>1 DEF SubmitRoute, z, TypeInv, StateTyped, Row
  <2>3. Submitted(s, z) /\ UNCHANGED cleared
    BY <1>4 DEF SubmitRoute, z
  <2>4. routedFor' = z
    BY <2>3 DEF Submitted
  <2>5. JobsTyped' /\ CallsTyped'
    <3>1. CASE ActiveManagers(z) = {}
      <4>1. jobs' = [jobs EXCEPT ![s] = Idle] /\ calls' = calls
        BY <2>3, <3>1 DEF Submitted, End
      <4> QED
        BY <1>1, <4>1, SessionTurns DEF TypeInv, JobFits
    <3>2. CASE ActiveManagers(z) # {}
      BY <1>1, <2>3, <3>2, SessionCalls DEF Submitted, TypeInv
    <3> QED
      BY <3>1, <3>2
  <2> QED
    BY <1>2, <1>3, <2>2, <2>3, <2>4, <2>5 DEF TypeInv, StateTyped, clock
<1>5. CASE ~RequiresApproval(z)
  <2>1. cleared' = cleared \cup {z} /\ visit' = visit /\ routedFor' = routedFor
    BY <1>5 DEF SubmitRoute, z
  <2>2. StateTyped'
    BY <1>2, <1>3, <2>1 DEF TypeInv, StateTyped, clock
  <2>3. CASE Call(s, "withdraw", "cancel")
    BY <1>1, <2>2, <2>3, SessionCalls DEF TypeInv
  <2>4. CASE ~Call(s, "withdraw", "cancel")
    <3>1. PICK w : w = [approval |-> "none", status |-> "confirmed"]
      OBVIOUS
    <3>2. PICK j : j = [op |-> "withdraw", pc |-> "commit", writes |-> w, closing |-> tasks]
      OBVIOUS
    <3>3. jobs' = [jobs EXCEPT ![s] = j] /\ calls' = calls
      BY <1>5, <2>4, <3>1, <3>2 DEF SubmitRoute, z
    <3>4. WritesTyped(w)
      BY <3>1 DEF WritesTyped, Columns, VisitStatus, ApprovalStatus
    <3>5. JobFits(s, j)
      BY <1>1, <3>2, <3>4 DEF JobFits, RequestJob, Committing, Idle, Ops, TypeInv, StateTyped
    <3> QED
      BY <1>1, <2>2, <3>3, <3>5, SessionTurns DEF TypeInv
  <2> QED
    BY <2>3, <2>4
<1> QED
  BY <1>4, <1>5

LEMMA CommitTypes ==
  ASSUME TypeInv, NEW s \in Sessions, Commit(s)
  PROVE  TypeInv'
<1>1. Committing(jobs[s]) /\ ~Waits(jobs[s])
  BY DEF Commit, TypeInv, JobsTyped, JobFits, Routing, Asking, RequestJob, TickJob, Waits
<1>2. jobs[s].op = "noshow" => TickJob(jobs[s])
  BY DEF Commit, TypeInv, JobsTyped, JobFits, Routing, Asking, RequestJob
<1>3. visit' \in Row
  BY <1>1, WrittenTyped DEF Commit, Committing, TypeInv, StateTyped
<1>4. jobs[s].closing \in Tasks
  BY <1>1 DEF Committing
<1>5. tasks' \in Tasks
  BY <1>4 DEF Commit, TasksAfter, TypeInv, StateTyped, EventTyped, NoEvent, Tasks
<1>6. EventTyped(event')
  <2>1. CASE jobs[s].op = "noshow"
    BY <1>2, <1>4, <2>1 DEF Commit, TickJob, EventTyped
  <2>2. CASE jobs[s].op # "noshow"
    BY <2>2 DEF Commit, TypeInv, StateTyped, EventTyped
  <2> QED
    BY <2>1, <2>2
<1>7. late' \in BOOLEAN /\ moves' \in 0 .. MaxMoves
  <2>1. late \in BOOLEAN /\ moves \in 0 .. MaxMoves
    BY DEF TypeInv, StateTyped
  <2>2. \/ moves < MaxMoves /\ late' = FALSE /\ moves' = moves + 1
        \/ late' = late /\ moves' = moves
    BY DEF Commit
  <2>3. late' \in BOOLEAN
    BY <2>1, <2>2, Zenon
  <2>4. moves' \in 0 .. MaxMoves
    BY <2>1, <2>2, MovesAssumption
  <2> QED
    BY <2>3, <2>4
<1>8. jobs' = [jobs EXCEPT ![s] = Idle] /\ calls' = calls
  BY DEF Commit, End
<1>9. JobsTyped' /\ CallsTyped'
  BY <1>1, <1>8, SessionTurns DEF TypeInv, JobFits
<1> QED
  BY <1>3, <1>5, <1>6, <1>7, <1>9 DEF Commit, history, TypeInv, StateTyped

LEMMA ProceedTypes ==
  ASSUME TypeInv, NEW s \in Sessions, Proceed(s)
  PROVE  TypeInv'
<1>1. CASE SubmitRoute(s)
  BY <1>1, RouteTypes
<1>2. CASE SubmitDone(s)
  <2>1. jobs[s] \in Asking /\ ~Waits(jobs[s])
    BY <1>2 DEF SubmitDone, TypeInv, JobsTyped, JobFits, Routing, RequestJob, TickJob,
                Committing, Idle, Waits
  <2>2. jobs' = [jobs EXCEPT ![s] = Idle] /\ calls' = calls
    BY <1>2 DEF SubmitDone, End
  <2>3. JobsTyped' /\ CallsTyped'
    BY <2>1, <2>2, SessionTurns DEF TypeInv, JobFits
  <2>4. tasks' \in Tasks
    BY <1>2 DEF SubmitDone, TypeInv, StateTyped, Tasks
  <2> QED
    BY <1>2, <2>3, <2>4 DEF SubmitDone, TypeInv, StateTyped, clock, history
<1>3. CASE WithdrawRefresh(s)
  <2>1. s \in Requests /\ ~Waits(jobs[s])
    BY <1>3 DEF WithdrawRefresh, TypeInv, JobsTyped, JobFits, Routing, RequestJob, TickJob,
                Committing, Idle, Waits
  <2>2. Exempted(visit) \in Row /\ visit \in Row /\ tasks \in Tasks
    BY RowsMade DEF TypeInv, StateTyped
  <2>3. PICK j : j = Loaded("withdraw", Exempted(visit), tasks)
    OBVIOUS
  <2>4. jobs' = [jobs EXCEPT ![s] = j] /\ calls' = calls
    BY <1>3, <2>3 DEF WithdrawRefresh, Loaded
  <2>5. JobFits(s, j)
    BY <2>1, <2>2, <2>3, LoadedFits DEF JobFits, Ops
  <2>6. JobsTyped' /\ CallsTyped'
    BY <2>1, <2>4, <2>5, SessionTurns DEF TypeInv
  <2> QED
    BY <1>3, <2>6 DEF WithdrawRefresh, TypeInv, StateTyped, clock, history
<1>4. CASE CancelRefresh(s)
  <2>1. s \in Requests /\ ~Waits(jobs[s])
    BY <1>4 DEF CancelRefresh, TypeInv, JobsTyped, JobFits, Routing, RequestJob, TickJob,
                Committing, Idle, Waits
  <2>2. Cancelled(visit) \in Row /\ visit \in Row /\ tasks \in Tasks
    BY RowsMade DEF TypeInv, StateTyped
  <2>3. PICK j : j = Loaded("cancel", Cancelled(visit), tasks)
    OBVIOUS
  <2>4. jobs' = [jobs EXCEPT ![s] = j] /\ calls' = calls
    BY <1>4, <2>3 DEF CancelRefresh
  <2>5. JobFits(s, j)
    BY <2>1, <2>2, <2>3, LoadedFits DEF JobFits, Ops
  <2>6. JobsTyped' /\ CallsTyped'
    BY <2>1, <2>4, <2>5, SessionTurns DEF TypeInv
  <2> QED
    BY <1>4, <2>6 DEF CancelRefresh, TypeInv, StateTyped, clock, history
<1>5. CASE Commit(s)
  BY <1>5, CommitTypes
<1> QED
  BY <1>1, <1>2, <1>3, <1>4, <1>5 DEF Proceed

LEMMA MarkTypes ==
  ASSUME TypeInv, MarkNoShow
  PROVE  TypeInv'
<1>1. visit \in Row /\ NoShow(visit) \in Row /\ tasks \in Tasks /\ {} \in Tasks
  BY RowsMade DEF TypeInv, StateTyped, Tasks
<1>2. PICK r \in Row : r = [visit EXCEPT !.status = "no_show"]
  BY <1>1 DEF Row, VisitStatus
<1>3. visit.status \in Editable
  BY DEF MarkNoShow, Overdue
<1>4. PICK j : /\ jobs' = [jobs EXCEPT ![Tick] = j]
               /\ j = Marking(NoShow(visit), tasks) \/ j = Marking(r, {})
  BY <1>2 DEF MarkNoShow
<1>5. JobFits(Tick, j)
  BY <1>1, <1>2, <1>3, <1>4, MarkingFits DEF JobFits
<1>6. ~Waits(jobs[Tick]) /\ Tick \in Sessions
  BY DEF MarkNoShow, Waits, Asking, Idle, Sessions
<1>7. JobsTyped' /\ CallsTyped'
  BY <1>4, <1>5, <1>6, SessionTurns DEF TypeInv, MarkNoShow
<1> QED
  BY <1>7 DEF MarkNoShow, TypeInv, StateTyped, clock, history

LEMMA EngineTypes ==
  ASSUME TypeInv, Engine
  PROVE  TypeInv'
<1>1. CASE EngineDecide
  <2>0. visit \in Row
    BY DEF TypeInv, StateTyped
  <2>1. visit' \in Row
    <3>1. ASSUME NEW k \in 1 .. Steps PROVE [visit EXCEPT !.step = k] \in Row
      <4>1. k \in 0 .. Steps
        BY StepsAssumption
      <4> QED
        BY <2>0, <4>1 DEF Row
    <3>2. [visit EXCEPT !.approval = "approved", !.status = "confirmed"] \in Row
      BY <2>0 DEF Row, VisitStatus, ApprovalStatus
    <3>3. ASSUME NEW a \in {"returned", "rejected", "draft"}
          PROVE  [visit EXCEPT !.approval = a] \in Row
      BY <2>0, <3>3 DEF Row, ApprovalStatus
    <3> QED
      BY <1>1, <3>1, <3>2, <3>3 DEF EngineDecide
  <2>2. tasks' \in Tasks
    BY <1>1, StepsAssumption DEF EngineDecide, Tasks, Revise
  <2>3. cleared' \subseteq Zones
    BY <1>1 DEF EngineDecide, TypeInv, StateTyped
  <2>4. JobsTyped' /\ CallsTyped'
    BY <1>1 DEF EngineDecide, TypeInv, JobsTyped, CallsTyped, CallsAwaited
  <2> QED
    BY <1>1, <2>1, <2>2, <2>3, <2>4 DEF EngineDecide, TypeInv, StateTyped, clock
<1>2. ASSUME NEW c \in calls, EngineSubmit(c) PROVE TypeInv'
  <2>0. visit \in Row
    BY DEF TypeInv, StateTyped
  <2>1. visit' \in Row
    <3>1. ASSUME NEW k \in 1 .. Steps
          PROVE  [visit EXCEPT !.approval = "submitted", !.step = k] \in Row
      <4>1. k \in 0 .. Steps
        BY StepsAssumption
      <4> QED
        BY <2>0, <4>1 DEF Row, ApprovalStatus
    <3> QED
      BY <1>2, <2>0, <3>1 DEF EngineSubmit
  <2>2. tasks' \in Tasks
    <3>1. ASSUME NEW k \in 1 .. Steps PROVE tasks \cup {k} \in Tasks
      BY StepsAssumption DEF TypeInv, StateTyped, Tasks
    <3> QED
      BY <1>2, <3>1 DEF EngineSubmit, TypeInv, StateTyped
  <2>3. PICK ok \in BOOLEAN : Answer(c, ok)
    BY <1>2 DEF EngineSubmit
  <2>4. JobsTyped' /\ CallsTyped'
    BY <2>3, AnswerTurns DEF TypeInv
  <2> QED
    BY <1>2, <2>1, <2>2, <2>4 DEF EngineSubmit, TypeInv, StateTyped, clock, history
<1>3. ASSUME NEW c \in calls, EngineCancel(c) PROVE TypeInv'
  <2>0. visit \in Row /\ tasks \in Tasks /\ {} \in Tasks
    BY DEF TypeInv, StateTyped, Tasks
  <2>1. visit' \in Row
    <3>1. [visit EXCEPT !.approval = "cancelled"] \in Row
      BY <2>0 DEF Row, ApprovalStatus
    <3> QED
      BY <1>3, <2>0, <3>1 DEF EngineCancel
  <2>2. tasks' \in Tasks
    BY <1>3, <2>0 DEF EngineCancel
  <2>3. PICK ok \in BOOLEAN : Answer(c, ok)
    BY <1>3 DEF EngineCancel
  <2>4. JobsTyped' /\ CallsTyped'
    BY <2>3, AnswerTurns DEF TypeInv
  <2> QED
    BY <1>3, <2>1, <2>2, <2>4 DEF EngineCancel, TypeInv, StateTyped, clock, history
<1> QED
  BY <1>1, <1>2, <1>3 DEF Engine

LEMMA TypesKept == TypeInv /\ [Next]_vars => TypeInv'
<1> SUFFICES ASSUME TypeInv, [Next]_vars PROVE TypeInv'
  OBVIOUS
<1>1. CASE \E s \in Requests : Request(s)
  BY <1>1, RequestTypes
<1>2. CASE \E s \in Sessions : Proceed(s)
  BY <1>2, ProceedTypes
<1>3. ASSUME NEW s \in Sessions, TimeOut(s) PROVE TypeInv'
  BY <1>3, TimeOutTurns DEF TimeOut, TypeInv, StateTyped, clock, history
<1>4. CASE Engine
  BY <1>4, EngineTypes
<1>5. CASE MarkNoShow
  BY <1>5, MarkTypes
<1>6. CASE DropCall
  BY <1>6 DEF DropCall, TypeInv, StateTyped, JobsTyped, CallsTyped, CallsAwaited, clock, history
<1>7. CASE DayEnds
  BY <1>7 DEF DayEnds, TypeInv, StateTyped, JobsTyped, CallsTyped, CallsAwaited, history
<1>8. CASE \E t \in ZoneTables : SaveZones(t)
  BY <1>8 DEF SaveZones, TypeInv, StateTyped, JobsTyped, CallsTyped, CallsAwaited, clock, history
<1>9. CASE UNCHANGED vars
  BY <1>9 DEF vars, TypeInv, StateTyped, JobsTyped, CallsTyped, CallsAwaited, clock, history
<1> QED
  BY <1>1, <1>2, <1>3, <1>4, <1>5, <1>6, <1>7, <1>8, <1>9 DEF Next

LEMMA TypesAlways == Spec => []TypeInv
BY TypesInitially, TypesKept, PTL DEF Spec

(* TypeOK: with any number of requests side by side the row, the tasks and *)
(* what each session holds are of their types, and whatever a session      *)
(* commits over the row of the moment leaves a row of its type.            *)
THEOREM VisitTypes == Spec => []TypeOK
<1>1. ASSUME TypeInv, NEW s \in Sessions PROVE JobOK(jobs[s])
  <2>1. CASE Committing(jobs[s])
    <3>1. Written(jobs[s].writes) \in Row
      BY <1>1, <2>1, WrittenTyped DEF Committing, TypeInv, StateTyped
    <3> QED
      BY <2>1, <3>1 DEF JobOK, Committing, WritesTyped
  <2>2. CASE ~Committing(jobs[s])
    BY <1>1, <2>2 DEF JobOK, TypeInv, JobsTyped, JobFits, Routing, Asking, RequestJob, TickJob
  <2> QED
    BY <2>1, <2>2
<1>2. TypeInv => TypeOK
  BY <1>1 DEF TypeOK, TypeInv, StateTyped, EventTyped, JobsTyped, CallsTyped
<1> QED
  BY <1>2, TypesAlways, PTL

-----------------------------------------------------------------------------
(***************************************************************************)
(* Cleared.  Until somebody cleared the visit for a zone, neither the row  *)
(* nor what a session or the audit row holds lets it further than pending: *)
(* a badge, a status or an approval decided on an older row would be       *)
(* committed over a newer one.                                             *)
(***************************************************************************)
Held == {"absent", "pending_approval", "cancelled", "no_show"}

HeldRow(row) == row.status \in Held /\ row.approval # "approved" /\ ~row.arrived
HeldWrites(w) ==
  /\ "status" \in DOMAIN w => w["status"] \in Held
  /\ "approval" \in DOMAIN w => w["approval"] # "approved"
  /\ "arrived" \in DOMAIN w => ~w["arrived"]
HeldEvent(ev) == ev = NoEvent \/ (ev.status \in Held /\ ev.approval # "approved")

HeldJob(job) ==
  /\ job.op # "withdraw"
  /\ Committing(job) => HeldWrites(job.writes)
  /\ TickJob(job) => job.before.status \in Held /\ job.before.approval # "approved"

AllHeld == HeldRow(visit) /\ HeldEvent(event) /\ \A s \in Sessions : HeldJob(jobs[s])
HeldUntilCleared == cleared = {} => AllHeld

LEMMA HeldLoaded ==
  ASSUME NEW op, op \notin {"noshow", "withdraw"}, NEW row, HeldRow(row), NEW closing
  PROVE  HeldJob(Loaded(op, row, closing))
<1>1. PICK w : w = Changes(row)
  OBVIOUS
<1>2. HeldWrites(w)
  BY <1>1, ChangesAre DEF HeldRow, HeldWrites, Columns
<1>3. Loaded(op, row, closing) = [op |-> op, pc |-> "commit", writes |-> w, closing |-> closing]
  BY <1>1 DEF Loaded
<1> QED
  BY <1>2, <1>3 DEF HeldJob, TickJob

LEMMA HeldMarking ==
  ASSUME NEW row, HeldRow(row), HeldRow(visit), NEW closing
  PROVE  HeldJob(Marking(row, closing))
<1>1. PICK w : w = Changes(row)
  OBVIOUS
<1>2. HeldWrites(w)
  BY <1>1, ChangesAre DEF HeldRow, HeldWrites, Columns
<1>3. Marking(row, closing) =
        [op |-> "noshow", pc |-> "commit", writes |-> w, closing |-> closing,
         before |-> [status |-> visit.status, approval |-> visit.approval]]
  BY <1>1 DEF Marking
<1> QED
  BY <1>2, <1>3 DEF HeldJob, HeldRow

(* A session takes a job that holds the visit too. *)
LEMMA HeldTurns ==
  ASSUME JobsTyped, AllHeld, NEW s \in Sessions, NEW j, HeldJob(j),
         jobs' = [jobs EXCEPT ![s] = j]
  PROVE  \A t \in Sessions : HeldJob(jobs'[t])
BY DEF JobsTyped, AllHeld

LEMMA HeldIdle == HeldJob(Idle)
BY DEF HeldJob, Idle, Committing, TickJob

LEMMA HeldAsks ==
  ASSUME NEW op \in {"submit", "cancel"}, NEW pc \in {"wait", "replied"}, NEW reply
  PROVE  HeldJob([op |-> op, pc |-> pc, reply |-> reply])
BY DEF HeldJob, Committing, TickJob

LEMMA SubmittedHeld ==
  ASSUME JobsTyped, AllHeld, NEW s \in Sessions, NEW z, Submitted(s, z)
  PROVE  \A t \in Sessions : HeldJob(jobs'[t])
<1>1. CASE ActiveManagers(z) = {}
  BY <1>1, HeldIdle, HeldTurns DEF Submitted, End
<1>2. CASE ActiveManagers(z) # {}
  BY <1>2, HeldAsks, HeldTurns DEF Submitted, Call
<1> QED
  BY <1>1, <1>2

LEMMA RequestHeld ==
  ASSUME TypeInv, HeldUntilCleared, NEW s \in Requests, Request(s)
  PROVE  HeldUntilCleared'
<1> SUFFICES ASSUME cleared' = {} PROVE AllHeld'
  BY DEF HeldUntilCleared
<1> DEFINE row == Synced(visit)
<1>0. s \in Sessions /\ JobsTyped /\ visit \in Row
  BY DEF TypeInv, StateTyped, Sessions
<1>1. CASE \E z \in Zones : Create(s, z)
  <2>1. PICK z \in Zones : Create(s, z)
    BY <1>1
  <2>2. cleared' = cleared
    BY <2>1 DEF Create
  <2>3. AllHeld
    BY <2>2 DEF HeldUntilCleared
  <2>4. /\ visit' = [visit EXCEPT !.status = "pending_approval", !.area = z,
                                  !.approval = "draft", !.routed = ActiveManagers(z)]
        /\ Submitted(s, z) /\ event' = event
    BY <2>1 DEF Create, clock
  <2>5. HeldRow(visit')
    BY <1>0, <2>3, <2>4 DEF AllHeld, HeldRow, Held, Row
  <2> QED
    BY <1>0, <2>3, <2>4, <2>5, SubmittedHeld DEF AllHeld
<1>2. CASE ~\E z \in Zones : Create(s, z)
  <2>1. cleared = {}
    BY <1>2 DEF Request, SubmitRead, CancelRead, Read, Postpone, PrintBadge, CheckOut, UndoNoShow,
                EditArea, Begin, history
  <2>2. AllHeld
    BY <2>1 DEF HeldUntilCleared
  <2>3. visit' = visit /\ event' = event
    BY <1>2 DEF Request, SubmitRead, CancelRead, Read, Postpone, PrintBadge, CheckOut, UndoNoShow,
                EditArea, Begin, clock
  <2>4. HeldRow(row) /\ row \in Row
    BY <1>0, <2>2, RowsMade DEF AllHeld, HeldRow, Held, Synced, Row
  <2> HIDE DEF row
  <2>5. SUFFICES \A t \in Sessions : HeldJob(jobs'[t])
    BY <2>2, <2>3 DEF AllHeld
  <2>6. CASE SubmitRead(s)
    <3>1. PICK j : j = [op |-> "submit", pc |-> "route", area |-> row.area, approval |-> row.approval]
      OBVIOUS
    <3>2. HeldJob(j)
      BY <3>1 DEF HeldJob, Committing, TickJob
    <3> QED
      BY <1>0, <2>2, <2>6, <3>1, <3>2, HeldTurns DEF SubmitRead, row
  <2>7. CASE CancelRead(s)
    <3>1. CASE row.status = "pending_approval" /\ row.approval \in IN_FLIGHT_STATES
      BY <1>0, <2>2, <2>7, <3>1, HeldAsks, HeldTurns DEF CancelRead, row, Call
    <3>2. CASE ~(row.status = "pending_approval" /\ row.approval \in IN_FLIGHT_STATES)
      <4>1. PICK r : r = [row EXCEPT !.status = "cancelled"]
        OBVIOUS
      <4>2. HeldRow(r)
        BY <2>4, <4>1 DEF HeldRow, Held, Row
      <4>3. jobs' = [jobs EXCEPT ![s] = Loaded("cancel", r, tasks)]
        BY <2>7, <3>2, <4>1 DEF CancelRead, row
      <4> QED
        BY <1>0, <2>2, <4>2, <4>3, HeldLoaded, HeldTurns
    <3> QED
      BY <3>1, <3>2
  <2>8. CASE Read(s)
    BY <1>0, <2>2, <2>4, <2>8, HeldLoaded, HeldTurns DEF Read, Begin, row
  <2>9. CASE Postpone(s)
    BY <1>0, <2>2, <2>4, <2>9, HeldLoaded, HeldTurns DEF Postpone, Begin, row
  <2>10. ~PrintBadge(s)
    BY <2>4 DEF PrintBadge, row, HeldRow, Held, Unprintable
  <2>11. ~CheckOut(s)
    BY <2>2 DEF CheckOut, AllHeld, HeldRow, Held
  <2>12. CASE UndoNoShow(s)
    <3>1. PICK r : r = [visit EXCEPT !.status = event.status, !.approval = event.approval]
      OBVIOUS
    <3>2. HeldRow(r)
      BY <1>0, <2>2, <2>12, <3>1 DEF UndoNoShow, AllHeld, HeldRow, HeldEvent, Held, Row
    <3> QED
      BY <1>0, <2>2, <2>12, <3>1, <3>2, HeldLoaded, HeldTurns DEF UndoNoShow, Begin
  <2>13. ASSUME NEW z \in Zones, EditArea(s, z)
         PROVE  \A t \in Sessions : HeldJob(jobs'[t])
    <3>1. PICK r : r = [row EXCEPT !.area = z]
      OBVIOUS
    <3>2. HeldRow(r)
      BY <2>4, <3>1 DEF HeldRow, Held, Row
    <3> QED
      BY <1>0, <2>2, <2>13, <3>1, <3>2, HeldLoaded, HeldTurns DEF EditArea, row
  <2> QED
    BY <1>2, <2>6, <2>7, <2>8, <2>9, <2>10, <2>11, <2>12, <2>13 DEF Request
<1> QED
  BY <1>1, <1>2

LEMMA CommitHeld ==
  ASSUME TypeInv, AllHeld, NEW s \in Sessions, Commit(s)
  PROVE  AllHeld'
<1>1. Committing(jobs[s]) /\ HeldWrites(jobs[s].writes)
  BY DEF Commit, TypeInv, JobsTyped, JobFits, Routing, Asking, RequestJob, TickJob, AllHeld, HeldJob
<1>2. jobs[s].op = "noshow" => TickJob(jobs[s])
  BY DEF Commit, TypeInv, JobsTyped, JobFits, Routing, Asking, RequestJob
<1>3. HeldRow(visit')
  BY <1>1, WrittenIs DEF Commit, HeldWrites, AllHeld, HeldRow
<1>4. HeldEvent(event')
  <2>1. CASE jobs[s].op = "noshow"
    BY <1>2, <2>1 DEF Commit, AllHeld, HeldJob, HeldEvent
  <2>2. CASE jobs[s].op # "noshow"
    BY <2>2 DEF Commit, AllHeld, HeldEvent
  <2> QED
    BY <2>1, <2>2
<1>5. \A t \in Sessions : HeldJob(jobs'[t])
  BY HeldIdle, HeldTurns DEF Commit, End, TypeInv
<1> QED
  BY <1>3, <1>4, <1>5 DEF AllHeld

LEMMA ProceedHeld ==
  ASSUME TypeInv, HeldUntilCleared, NEW s \in Sessions, Proceed(s)
  PROVE  HeldUntilCleared'
<1> SUFFICES ASSUME cleared' = {} PROVE AllHeld'
  BY DEF HeldUntilCleared
<1>0. cleared = {} /\ cleared' = cleared
  BY DEF Proceed, SubmitRoute, SubmitDone, WithdrawRefresh, CancelRefresh, Commit, history
<1>1. AllHeld
  BY <1>0 DEF HeldUntilCleared
<1>2. JobsTyped /\ visit \in Row
  BY DEF TypeInv, StateTyped
<1>3. CASE SubmitRoute(s)
  <2>1. RequiresApproval(jobs[s].area)
    BY <1>0, <1>3 DEF SubmitRoute
  <2>2. /\ visit' = [visit EXCEPT !.routed = ActiveManagers(jobs[s].area)]
        /\ Submitted(s, jobs[s].area) /\ event' = event
    BY <1>3, <2>1 DEF SubmitRoute, clock
  <2>3. HeldRow(visit')
    BY <1>1, <1>2, <2>2 DEF AllHeld, HeldRow, Row
  <2> QED
    BY <1>1, <1>2, <2>2, <2>3, SubmittedHeld DEF AllHeld
<1>4. CASE SubmitDone(s)
  BY <1>1, <1>2, <1>4, HeldIdle, HeldTurns DEF SubmitDone, End, AllHeld, clock
<1>5. ~WithdrawRefresh(s)
  BY <1>1 DEF WithdrawRefresh, AllHeld, HeldJob
<1>6. CASE CancelRefresh(s)
  <2>1. PICK r : r = Cancelled(visit)
    OBVIOUS
  <2>2. HeldRow(r)
    BY <1>1, <1>2, <2>1 DEF AllHeld, HeldRow, Held, Cancelled, Row
  <2> QED
    BY <1>1, <1>2, <1>6, <2>1, <2>2, HeldLoaded, HeldTurns DEF CancelRefresh, AllHeld, clock
<1>7. CASE Commit(s)
  BY <1>1, <1>7, CommitHeld
<1> QED
  BY <1>3, <1>4, <1>5, <1>6, <1>7 DEF Proceed

LEMMA AnswerHeld ==
  ASSUME TypeInv, AllHeld, NEW c \in calls, NEW ok, Answer(c, ok)
  PROVE  \A t \in Sessions : HeldJob(jobs'[t])
<1>1. CASE c.by = "nobody"
  BY <1>1 DEF Answer, AllHeld
<1>2. CASE c.by # "nobody"
  <2>1. PICK r \in Requests : r = c.by
    BY <1>2 DEF TypeInv, CallsTyped
  <2>2. r \in Sessions /\ jobs[r] \in Asking
    BY <2>1 DEF TypeInv, CallsTyped, CallsAwaited, Waits, Sessions
  <2>3. jobs[r].op \in {"submit", "cancel"}
    BY <2>2 DEF Asking, AllHeld, HeldJob
  <2>4. PICK j : j = [op |-> jobs[r].op, pc |-> "replied", reply |-> ok]
    OBVIOUS
  <2>5. \A t \in Sessions : jobs'[t] = IF t = r THEN j ELSE jobs[t]
    BY <1>2, <2>1, <2>2, <2>4 DEF Answer, TypeInv, JobsTyped, Asking
  <2>6. HeldJob(j)
    BY <2>3, <2>4, HeldAsks
  <2> QED
    BY <2>5, <2>6 DEF AllHeld
<1> QED
  BY <1>1, <1>2

LEMMA EngineHeld ==
  ASSUME TypeInv, HeldUntilCleared, Engine
  PROVE  HeldUntilCleared'
<1> SUFFICES ASSUME cleared' = {} PROVE AllHeld'
  BY DEF HeldUntilCleared
<1>0. cleared = {} /\ cleared' = cleared
  BY DEF Engine, EngineDecide, EngineSubmit, EngineCancel, history
<1>1. AllHeld /\ visit \in Row
  BY <1>0 DEF HeldUntilCleared, TypeInv, StateTyped
<1>2. event' = event
  BY DEF Engine, EngineDecide, EngineSubmit, EngineCancel, clock
<1>3. CASE EngineDecide
  <2>1. HeldRow(visit')
    BY <1>0, <1>1, <1>3 DEF EngineDecide, AllHeld, HeldRow, Row
  <2> QED
    BY <1>1, <1>2, <1>3, <2>1 DEF EngineDecide, AllHeld
<1>4. ASSUME NEW c \in calls, EngineSubmit(c) \/ EngineCancel(c) PROVE AllHeld'
  <2>1. HeldRow(visit')
    BY <1>1, <1>4 DEF EngineSubmit, EngineCancel, AllHeld, HeldRow, Row
  <2>2. PICK ok \in BOOLEAN : Answer(c, ok)
    BY <1>4 DEF EngineSubmit, EngineCancel
  <2> QED
    BY <1>1, <1>2, <2>1, <2>2, AnswerHeld DEF AllHeld
<1> QED
  BY <1>3, <1>4 DEF Engine

LEMMA OthersHeld ==
  ASSUME TypeInv, HeldUntilCleared,
         \/ MarkNoShow \/ \E s \in Sessions : TimeOut(s)
         \/ DropCall \/ DayEnds \/ \E t \in ZoneTables : SaveZones(t)
         \/ UNCHANGED vars
  PROVE  HeldUntilCleared'
<1> SUFFICES ASSUME cleared' = {} PROVE AllHeld'
  BY DEF HeldUntilCleared
<1>0. cleared = {} /\ visit' = visit /\ event' = event
  BY DEF MarkNoShow, TimeOut, DropCall, DayEnds, SaveZones, vars, history, clock
<1>1. AllHeld /\ visit \in Row /\ JobsTyped
  BY <1>0 DEF HeldUntilCleared, TypeInv, StateTyped
<1>2. SUFFICES \A t \in Sessions : HeldJob(jobs'[t])
  BY <1>0, <1>1 DEF AllHeld
<1>3. CASE MarkNoShow
  <2>1. PICK r : r = [visit EXCEPT !.status = "no_show"]
    OBVIOUS
  <2>2. HeldRow(r)
    BY <1>1, <2>1 DEF AllHeld, HeldRow, Held, Row
  <2>3. HeldRow(NoShow(visit))
    BY <1>1 DEF NoShow, Cancelled, AllHeld, HeldRow, Held, Row
  <2>4. PICK j : /\ jobs' = [jobs EXCEPT ![Tick] = j]
                 /\ j = Marking(NoShow(visit), tasks) \/ j = Marking(r, {})
    BY <1>3, <2>1 DEF MarkNoShow
  <2>5. HeldJob(j)
    BY <1>1, <2>2, <2>3, <2>4, HeldMarking DEF AllHeld
  <2> QED
    BY <1>1, <2>4, <2>5, HeldTurns DEF Sessions
<1>4. ASSUME NEW s \in Sessions, TimeOut(s) PROVE \A t \in Sessions : HeldJob(jobs'[t])
  <2>1. jobs[s] \in Asking
    BY <1>4 DEF TimeOut, TypeInv, JobsTyped, JobFits, RequestJob, TickJob, Committing, Routing
  <2>2. jobs[s].op \in {"submit", "cancel"}
    BY <1>1, <2>1 DEF Asking, AllHeld, HeldJob
  <2>3. PICK j : j = [op |-> jobs[s].op, pc |-> "replied", reply |-> jobs[s].reply]
    OBVIOUS
  <2>4. \A t \in Sessions : jobs'[t] = IF t = s THEN j ELSE jobs[t]
    BY <1>4, <2>1, <2>3 DEF TimeOut, TypeInv, JobsTyped, Asking
  <2>5. HeldJob(j)
    BY <2>2, <2>3, HeldAsks
  <2> QED
    BY <1>1, <2>4, <2>5 DEF AllHeld
<1>5. CASE DropCall \/ DayEnds \/ UNCHANGED vars \/ \E t \in ZoneTables : SaveZones(t)
  BY <1>1, <1>5 DEF DropCall, DayEnds, SaveZones, vars, AllHeld
<1> QED
  BY <1>3, <1>4, <1>5

(* LetInOnlyCleared: nobody gets a badge for a visit that was neither      *)
(* approved nor exempt, with any number of requests side by side, each     *)
(* deciding on a row it read without a lock.                               *)
THEOREM OnlyClearedLetIn == Spec => []LetInOnlyCleared
<1>1. Init => HeldUntilCleared
  BY HeldIdle DEF Init, HeldUntilCleared, AllHeld, HeldRow, HeldEvent, Held
<1>2. TypeInv /\ HeldUntilCleared /\ [Next]_vars => HeldUntilCleared'
  BY RequestHeld, ProceedHeld, EngineHeld, OthersHeld DEF Next
<1>3. HeldUntilCleared => LetInOnlyCleared
  BY DEF HeldUntilCleared, AllHeld, HeldRow, LetInOnlyCleared
<1> QED
  BY <1>1, <1>2, <1>3, TypesAlways, PTL DEF Spec

-----------------------------------------------------------------------------
(***************************************************************************)
(* Agreement, with one request at a time.  Three parties still write the   *)
(* row: the request, the tick and the engine, each from what it read.      *)
(* A commit is described by the approval status the row will have after    *)
(* it, its own or the one of the moment.                                   *)
(***************************************************************************)
OneRequest == \A r, q \in Requests : r = q

Agree(status, approval) ==
  /\ status = "confirmed" => approval \in {"none", "approved"}
  /\ status \in {"cancelled", "no_show"} => approval \notin IN_FLIGHT_STATES
  /\ status = "pending_approval" => approval # "approved"

Asked(approval, open) == approval = "submitted" => open \ {Revise} # {}

After(w, approval) == IF "approval" \in DOMAIN w THEN w["approval"] ELSE approval

Closing == {"cancel", "withdraw", "noshow"}

(* A commit by this operation of this approval status over the present one *)
(* is one the row's status can live with.                                  *)
StatusFits(op, w, approval) ==
  /\ w["status"] # "absent"
  /\ w["status"] = "pending_approval" => op = "undo"
  /\ w["status"] = "no_show" => op = "noshow"
  /\ w["status"] = "confirmed" =>
       /\ After(w, approval) \in {"none", "approved"}
       /\ "approval" \in DOMAIN w \/ op = "undo"
  /\ w["status"] \in {"cancelled", "no_show"} => After(w, approval) \notin IN_FLIGHT_STATES

ApprovalFits(op, w) ==
  /\ "status" \notin DOMAIN w => w["approval"] = "none"
  /\ w["approval"] \in IN_FLIGHT_STATES => op = "undo"

(* An undo finds the visit as the no-show left it, and goes back to what   *)
(* the audit row remembers.                                                *)
UndoFits(w, status, approval, ev) ==
  /\ status = "no_show" /\ ev # NoEvent
  /\ "status" \in DOMAIN w /\ w["status"] = ev.status
  /\ After(w, approval) = ev.approval

NoShowFits(w, before, closing) ==
  /\ "status" \in DOMAIN w /\ w["status"] = "no_show"
  /\ "approval" \in DOMAIN w => w["approval"] = "cancelled"
  /\ Agree(before.status, before.approval) /\ Asked(before.approval, closing)

CommitFits(job, status, approval, ev) ==
  /\ job.op \in Closing => After(job.writes, approval) \notin IN_FLIGHT_STATES
  /\ job.op \notin Closing => job.closing = {}
  /\ "status" \in DOMAIN job.writes => StatusFits(job.op, job.writes, approval)
  /\ "approval" \in DOMAIN job.writes => ApprovalFits(job.op, job.writes)
  /\ job.op = "undo" => UndoFits(job.writes, status, approval, ev)
  /\ job.op = "noshow" => NoShowFits(job.writes, job.before, job.closing)

Drops(job) == job \in Routing \/ (job \in Asking /\ job.op = "withdraw")

JobAgrees(job, status, approval, ev) ==
  /\ Committing(job) => CommitFits(job, status, approval, ev)
  /\ Drops(job) => approval # "none"

RowAgrees ==
  /\ Agree(visit.status, visit.approval) /\ Asked(visit.approval, tasks)
  /\ event # NoEvent => Agree(event.status, event.approval) /\ Asked(event.approval, event.closed)
  /\ visit.status = "absent" => visit.approval = "none" /\ \A s \in Sessions : jobs[s] = Idle
  /\ visit.status = "no_show" => jobs[Tick] = Idle

JobsAgree == \A s \in Sessions : JobAgrees(jobs[s], visit.status, visit.approval, event)

AgreementInv == RowAgrees /\ JobsAgree

(* An engine transaction on an approval in flight. *)
LEMMA EngineStands ==
  ASSUME NEW job, NEW st, NEW st1, NEW ap, NEW ap1, NEW ev,
         JobAgrees(job, st, ap, ev), ap \in IN_FLIGHT_STATES, ap1 # "none", st # "no_show"
  PROVE  JobAgrees(job, st1, ap1, ev)
BY DEF JobAgrees, CommitFits, StatusFits, UndoFits, After, IN_FLIGHT_STATES

(* Another session's commit, which leaves the approval or one not in       *)
(* flight.                                                                 *)
LEMMA OvertakenStands ==
  ASSUME NEW job, NEW st, NEW st1, NEW ap, NEW ap1, NEW ev, NEW ev1,
         JobAgrees(job, st, ap, ev), Committing(job) => job.op # "undo",
         ap1 = ap \/ ap1 \notin IN_FLIGHT_STATES, Drops(job) => ap1 # "none"
  PROVE  JobAgrees(job, st1, ap1, ev1)
BY DEF JobAgrees, CommitFits, StatusFits, UndoFits, After

LEMMA IdleAgrees ==
  ASSUME NEW st, NEW ap, NEW ev PROVE JobAgrees(Idle, st, ap, ev)
BY DEF JobAgrees, Idle, Committing, Drops, Routing, Asking

(* A session takes another job; the row and the audit row stand. *)
LEMMA AgreeTurns ==
  ASSUME JobsTyped, AgreementInv, NEW s \in Sessions, NEW j,
         jobs' = [jobs EXCEPT ![s] = j],
         JobAgrees(j, visit.status, visit.approval, event),
         visit'.status = visit.status, visit'.approval = visit.approval, event' = event,
         Asked(visit.approval, tasks'),
         visit.status = "absent" => j = Idle,
         s = Tick => visit.status # "no_show"
  PROVE  AgreementInv'
<1>1. \A t \in Sessions : jobs'[t] = IF t = s THEN j ELSE jobs[t]
  BY DEF JobsTyped
<1>2. JobsAgree'
  BY <1>1 DEF AgreementInv, JobsAgree
<1>3. RowAgrees'
  BY <1>1 DEF AgreementInv, RowAgrees, Sessions
<1> QED
  BY <1>2, <1>3 DEF AgreementInv

(* What loading and changing the row makes a session commit. *)
LEMMA LoadedAgrees ==
  ASSUME visit \in Row, RowAgrees, NEW op \in Ops \ {"noshow"}, NEW row \in Row, NEW closing,
         op \notin Closing => closing = {},
         op \in Closing => row.approval \notin IN_FLIGHT_STATES,
         row.status # visit.status =>
           /\ row.status \notin {"absent", "no_show"}
           /\ row.status = "pending_approval" => op = "undo"
           /\ row.status = "confirmed" =>
                row.approval \in {"none", "approved"}
                /\ (row.approval # visit.approval \/ op = "undo")
           /\ row.status = "cancelled" => row.approval \notin IN_FLIGHT_STATES,
         row.approval # visit.approval =>
           /\ row.status = visit.status => row.approval = "none"
           /\ row.approval \in IN_FLIGHT_STATES => op = "undo",
         op = "undo" =>
           /\ visit.status = "no_show" /\ event # NoEvent /\ row.status # "no_show"
           /\ row.status = event.status /\ row.approval = event.approval
  PROVE  JobAgrees(Loaded(op, row, closing), visit.status, visit.approval, event)
<1>1. PICK w : w = Changes(row)
  OBVIOUS
<1>2. /\ "status" \in DOMAIN w <=> row.status # visit.status
      /\ "status" \in DOMAIN w => w["status"] = row.status
      /\ "approval" \in DOMAIN w <=> row.approval # visit.approval
      /\ "approval" \in DOMAIN w => w["approval"] = row.approval
  BY <1>1, ChangesAre DEF Columns
<1>3. After(w, visit.approval) = row.approval
  BY <1>2 DEF After
<1>4. PICK j : j = [op |-> op, pc |-> "commit", writes |-> w, closing |-> closing]
  OBVIOUS
<1>5. ~Drops(j)
  BY <1>4 DEF Drops, Routing, Asking
<1>6. "status" \in DOMAIN w => StatusFits(op, w, visit.approval)
  BY <1>2, <1>3 DEF StatusFits
<1>7. "approval" \in DOMAIN w => ApprovalFits(op, w)
  BY <1>2 DEF ApprovalFits
<1>8. op = "undo" => UndoFits(w, visit.status, visit.approval, event)
  BY <1>2, <1>3 DEF UndoFits
<1>9. CommitFits(j, visit.status, visit.approval, event)
  BY <1>3, <1>4, <1>6, <1>7, <1>8 DEF CommitFits
<1> QED
  BY <1>1, <1>4, <1>5, <1>9 DEF JobAgrees, Loaded

LEMMA AsksAgree ==
  ASSUME NEW op \in {"submit", "withdraw", "cancel"}, NEW pc \in {"wait", "replied"}, NEW reply,
         NEW st, NEW ap, NEW ev, op = "withdraw" => ap # "none"
  PROVE  JobAgrees([op |-> op, pc |-> pc, reply |-> reply], st, ap, ev)
BY DEF JobAgrees, Committing, Drops, Routing

(* Mirroring the engine changes a visit only when its approval is over. *)
LEMMA SyncedIs ==
  ASSUME visit \in Row, RowAgrees
  PROVE  /\ Synced(visit).approval = visit.approval
         /\ Synced(visit).arrived = visit.arrived
         /\ \/ Synced(visit).status = visit.status
            \/ /\ visit.status = "pending_approval" /\ Synced(visit).status = "cancelled"
               /\ visit.approval \in {"rejected", "cancelled"}
BY DEF Synced, Row, RowAgrees, Agree

LEMMA SubmittedAgrees ==
  ASSUME JobsTyped, NEW s \in Sessions, NEW z, Submitted(s, z)
  PROVE  \E j : /\ jobs' = [jobs EXCEPT ![s] = j]
                /\ \A st, ap, ev : JobAgrees(j, st, ap, ev)
<1>1. CASE ActiveManagers(z) = {}
  BY <1>1, IdleAgrees DEF Submitted, End
<1>2. CASE ActiveManagers(z) # {}
  <2>1. PICK j : j = [op |-> "submit", pc |-> "wait", reply |-> FALSE]
    OBVIOUS
  <2>2. \A st, ap, ev : JobAgrees(j, st, ap, ev)
    BY <2>1, AsksAgree
  <2> QED
    BY <1>2, <2>1, <2>2 DEF Submitted, Call
<1> QED
  BY <1>1, <1>2

(* Booking finds nobody at work on the visit. *)
LEMMA CreateAgrees ==
  ASSUME TypeInv, AgreementInv, NEW s \in Requests, NEW z \in Zones, Create(s, z)
  PROVE  AgreementInv'
<1>0. s \in Sessions /\ JobsTyped /\ visit \in Row
  BY DEF TypeInv, StateTyped, Sessions
<1>1. visit.status = "absent" /\ visit.approval = "none" /\ \A t \in Sessions : jobs[t] = Idle
  BY DEF Create, AgreementInv, RowAgrees
<1>2. tasks' = tasks /\ event' = event
  BY DEF Create, clock
<1>3. PICK j : /\ \A t \in Sessions : jobs'[t] = IF t = s THEN j ELSE Idle
               /\ \A st, ap, ev : JobAgrees(j, st, ap, ev)
  <2>1. CASE RequiresApproval(z)
    <3>1. PICK j : /\ jobs' = [jobs EXCEPT ![s] = j]
                   /\ \A st, ap, ev : JobAgrees(j, st, ap, ev)
      BY <1>0, <2>1, SubmittedAgrees DEF Create
    <3> QED
      BY <1>0, <1>1, <3>1 DEF JobsTyped
  <2>2. CASE ~RequiresApproval(z)
    <3>1. jobs' = jobs
      BY <2>2 DEF Create
    <3> QED
      BY <1>1, <3>1, IdleAgrees
  <2> QED
    BY <2>1, <2>2
<1>5. JobsAgree'
  BY <1>3, IdleAgrees DEF JobsAgree
<1>6. \/ visit'.status = "confirmed" /\ visit'.approval = "none"
      \/ visit'.status = "pending_approval" /\ visit'.approval = "draft"
  BY <1>0, <1>1 DEF Create, Row
<1>7. RowAgrees'
  BY <1>2, <1>6 DEF AgreementInv, RowAgrees, Agree, Asked
<1> QED
  BY <1>5, <1>7 DEF AgreementInv

LEMMA RequestAgrees ==
  ASSUME TypeInv, AgreementInv, NEW s \in Requests, Request(s)
  PROVE  AgreementInv'
<1> DEFINE row == Synced(visit)
<1>0. /\ s \in Sessions /\ s # Tick /\ JobsTyped /\ RowAgrees
      /\ visit \in Row /\ row \in Row
  BY RowsMade, SessionAssumption DEF TypeInv, StateTyped, Sessions, AgreementInv
<1>1. CASE \E z \in Zones : Create(s, z)
  BY <1>1, CreateAgrees
<1>2. CASE ~\E z \in Zones : Create(s, z)
  <2>1. visit' = visit /\ event' = event /\ tasks' = tasks
    BY <1>2 DEF Request, SubmitRead, CancelRead, Read, Postpone, PrintBadge, CheckOut, UndoNoShow,
                EditArea, Begin, clock
  <2>2. Asked(visit.approval, tasks')
    BY <1>0, <2>1 DEF RowAgrees
  <2>3. /\ row.approval = visit.approval
        /\ \/ row.status = visit.status
           \/ /\ visit.status = "pending_approval" /\ row.status = "cancelled"
              /\ visit.approval \in {"rejected", "cancelled"}
    BY <1>0, SyncedIs
  <2> HIDE DEF row
  (* Every session but one that changes nothing starts from a visit. *)
  <2>4. ASSUME NEW j, jobs' = [jobs EXCEPT ![s] = j], visit.status # "absent",
               JobAgrees(j, visit.status, visit.approval, event)
        PROVE  AgreementInv'
    BY <1>0, <2>1, <2>2, <2>4, AgreeTurns
  <2>5. CASE SubmitRead(s)
    <3>1. PICK j : j = [op |-> "submit", pc |-> "route", area |-> row.area, approval |-> row.approval]
      OBVIOUS
    <3>2. visit.status # "absent" /\ visit.approval # "none"
      BY <2>3, <2>5 DEF SubmitRead, row, RESUBMITTABLE_STATES
    <3>3. JobAgrees(j, visit.status, visit.approval, event)
      BY <3>1, <3>2 DEF JobAgrees, Committing
    <3> QED
      BY <2>4, <2>5, <3>1, <3>2, <3>3 DEF SubmitRead, row
  <2>6. CASE CancelRead(s)
    <3>1. row.status \in Editable /\ row.status = visit.status /\ visit.status # "absent"
      BY <2>3, <2>6 DEF CancelRead, row, Editable
    <3>2. CASE row.status = "pending_approval" /\ row.approval \in IN_FLIGHT_STATES
      <4>1. PICK j : j = [op |-> "cancel", pc |-> "wait", reply |-> FALSE]
        OBVIOUS
      <4>2. JobAgrees(j, visit.status, visit.approval, event)
        BY <4>1, AsksAgree
      <4> QED
        BY <2>4, <2>6, <3>1, <3>2, <4>1, <4>2 DEF CancelRead, row, Call
    <3>3. CASE ~(row.status = "pending_approval" /\ row.approval \in IN_FLIGHT_STATES)
      <4>1. PICK r \in Row : r = [row EXCEPT !.status = "cancelled"]
        BY <1>0 DEF Row, VisitStatus
      <4>2. r.status = "cancelled" /\ r.approval = visit.approval
        BY <1>0, <2>3, <4>1 DEF Row
      <4>3. r.approval \notin IN_FLIGHT_STATES
        BY <1>0, <2>3, <3>1, <3>3, <4>2 DEF RowAgrees, Agree, Editable, IN_FLIGHT_STATES
      <4>4. JobAgrees(Loaded("cancel", r, tasks), visit.status, visit.approval, event)
        BY <1>0, <4>2, <4>3, LoadedAgrees DEF Ops, Closing
      <4>5. jobs' = [jobs EXCEPT ![s] = Loaded("cancel", r, tasks)]
        BY <2>6, <3>3, <4>1 DEF CancelRead, row
      <4> QED
        BY <2>4, <3>1, <4>4, <4>5
    <3> QED
      BY <3>2, <3>3
  <2>7. CASE Read(s)
    <3>1. visit.status # "absent"
      BY <1>0, <2>7 DEF Read, Synced, Row
    <3>2. JobAgrees(Loaded("read", row, {}), visit.status, visit.approval, event)
      BY <1>0, <2>3, LoadedAgrees DEF Ops, Closing, IN_FLIGHT_STATES
    <3> QED
      BY <2>4, <2>7, <3>1, <3>2 DEF Read, Begin, row
  <2>8. CASE Postpone(s)
    <3>1. visit.status # "absent"
      BY <2>3, <2>8 DEF Postpone, row, Editable
    <3>2. JobAgrees(Loaded("postpone", row, {}), visit.status, visit.approval, event)
      BY <1>0, <2>3, LoadedAgrees DEF Ops, Closing, IN_FLIGHT_STATES
    <3> QED
      BY <2>4, <2>8, <3>1, <3>2 DEF Postpone, Begin, row
  <2>9. CASE PrintBadge(s)
    <3>1. PICK r \in Row : r = [row EXCEPT !.arrived = TRUE, !.status = "checked_in"]
      BY <1>0 DEF Row, VisitStatus
    <3>2. r.status = "checked_in" /\ r.approval = visit.approval
      BY <1>0, <2>3, <3>1 DEF Row
    <3>3. visit.status # "absent"
      BY <2>3, <2>9 DEF PrintBadge, row, Unprintable
    <3>4. JobAgrees(Loaded("print", r, {}), visit.status, visit.approval, event)
      BY <1>0, <3>2, LoadedAgrees DEF Ops, Closing
    <3> QED
      BY <2>4, <2>9, <3>1, <3>3, <3>4 DEF PrintBadge, Begin, row
  <2>10. CASE CheckOut(s)
    <3>1. PICK r \in Row : r = [visit EXCEPT !.status = "checked_out"]
      BY <1>0 DEF Row, VisitStatus
    <3>2. r.status = "checked_out" /\ r.approval = visit.approval
      BY <1>0, <3>1 DEF Row
    <3>3. JobAgrees(Loaded("checkout", r, {}), visit.status, visit.approval, event)
      BY <1>0, <3>2, LoadedAgrees DEF Ops, Closing
    <3> QED
      BY <2>4, <2>10, <3>1, <3>3 DEF CheckOut, Begin
  <2>11. CASE UndoNoShow(s)
    <3>1. /\ event # NoEvent /\ event.status \in Editable
          /\ event.status \in VisitStatus /\ event.approval \in ApprovalStatus
      BY <2>11 DEF UndoNoShow, TypeInv, StateTyped, EventTyped, Editable, VisitStatus
    <3>2. PICK r \in Row : r = [visit EXCEPT !.status = event.status, !.approval = event.approval]
      BY <1>0, <3>1 DEF Row
    <3>3. r.status = event.status /\ r.approval = event.approval
      BY <1>0, <3>2 DEF Row
    <3>4. Agree(event.status, event.approval)
      BY <1>0, <3>1 DEF RowAgrees
    <3>5. JobAgrees(Loaded("undo", r, {}), visit.status, visit.approval, event)
      BY <1>0, <2>11, <3>1, <3>3, <3>4, LoadedAgrees DEF UndoNoShow, Agree, Editable, Ops, Closing
    <3> QED
      BY <2>4, <2>11, <3>2, <3>5 DEF UndoNoShow, Begin
  <2>12. ASSUME NEW z \in Zones, EditArea(s, z) PROVE AgreementInv'
    <3>1. PICK r \in Row : r = [row EXCEPT !.area = z]
      BY <1>0 DEF Row
    <3>2. r.status = row.status /\ r.approval = row.approval
      BY <1>0, <3>1 DEF Row
    <3>3. visit.status # "absent" /\ row.status = visit.status
      BY <2>3, <2>12 DEF EditArea, row, Editable
    <3>4. JobAgrees(Loaded("edit", r, {}), visit.status, visit.approval, event)
      BY <1>0, <2>3, <3>2, <3>3, LoadedAgrees DEF Ops, Closing
    <3> QED
      BY <2>4, <2>12, <3>1, <3>3, <3>4 DEF EditArea, row
  <2> QED
    BY <1>2, <2>5, <2>6, <2>7, <2>8, <2>9, <2>10, <2>11, <2>12 DEF Request
<1> QED
  BY <1>1, <1>2

(* Withdrawing an approval for a zone that needs none writes no approval   *)
(* only when there is none.                                                *)
LEMMA RouteAgrees ==
  ASSUME TypeInv, AgreementInv, NEW s \in Requests, SubmitRoute(s)
  PROVE  AgreementInv'
<1>0. /\ s \in Sessions /\ s # Tick /\ JobsTyped /\ RowAgrees /\ visit \in Row
      /\ jobs[s] # Idle /\ jobs[s] \in Routing
  BY SessionAssumption DEF SubmitRoute, TypeInv, StateTyped, JobsTyped, JobFits, Asking, RequestJob,
     TickJob, Committing, Idle, Sessions, AgreementInv
<1>1. visit.status # "absent" /\ visit.approval # "none"
  BY <1>0 DEF AgreementInv, RowAgrees, JobsAgree, JobAgrees, Drops
<1>2. tasks' = tasks /\ event' = event
  BY DEF SubmitRoute, clock
<1>3. visit'.status = visit.status /\ visit'.approval = visit.approval
  BY <1>0 DEF SubmitRoute, Row
<1>4. ASSUME NEW j, jobs' = [jobs EXCEPT ![s] = j],
             JobAgrees(j, visit.status, visit.approval, event)
      PROVE  AgreementInv'
  BY <1>0, <1>1, <1>2, <1>3, <1>4, AgreeTurns DEF RowAgrees
<1>5. CASE Submitted(s, jobs[s].area)
  BY <1>0, <1>4, <1>5, SubmittedAgrees
<1>6. CASE Call(s, "withdraw", "cancel")
  <2>1. PICK j : j = [op |-> "withdraw", pc |-> "wait", reply |-> FALSE]
    OBVIOUS
  <2>2. JobAgrees(j, visit.status, visit.approval, event)
    BY <1>1, <2>1, AsksAgree
  <2> QED
    BY <1>4, <1>6, <2>1, <2>2 DEF Call
<1>7. CASE jobs' = [jobs EXCEPT ![s] = [op |-> "withdraw", pc |-> "commit",
                      writes |-> [approval |-> "none", status |-> "confirmed"],
                      closing |-> tasks]]
  <2>1. PICK w : w = [approval |-> "none", status |-> "confirmed"]
    OBVIOUS
  <2>2. PICK j : j = [op |-> "withdraw", pc |-> "commit", writes |-> w, closing |-> tasks]
    OBVIOUS
  <2>3. ~Drops(j)
    BY <2>2 DEF Drops, Routing, Asking
  <2>4. StatusFits("withdraw", w, visit.approval) /\ ApprovalFits("withdraw", w)
    BY <2>1 DEF StatusFits, ApprovalFits, After, IN_FLIGHT_STATES
  <2>5. After(w, visit.approval) \notin IN_FLIGHT_STATES
    BY <2>1 DEF After, IN_FLIGHT_STATES
  <2>6. CommitFits(j, visit.status, visit.approval, event)
    BY <2>2, <2>4, <2>5 DEF CommitFits, Closing
  <2>7. JobAgrees(j, visit.status, visit.approval, event)
    BY <2>3, <2>6 DEF JobAgrees
  <2> QED
    BY <1>4, <1>7, <2>1, <2>2, <2>7
<1> QED
  BY <1>5, <1>6, <1>7 DEF SubmitRoute

(* A commit writes the columns it decided on over the row of the moment.   *)
LEMMA CommitAgrees ==
  ASSUME OneRequest, TypeInv, AgreementInv, NEW s \in Sessions, Commit(s)
  PROVE  AgreementInv'
<1>1. PICK job : job = jobs[s]
  OBVIOUS
<1>2. PICK w : w = job.writes
  OBVIOUS
<1>3. Committing(job) /\ job # Idle
  BY <1>1 DEF Commit, TypeInv, JobsTyped, JobFits, Routing, Asking, RequestJob, TickJob
<1>4. job.op = "noshow" <=> s = Tick
  BY <1>1, <1>3, SessionAssumption DEF Commit, TypeInv, JobsTyped, JobFits, Routing, Asking,
     RequestJob, TickJob, Sessions
<1>5. CommitFits(job, visit.status, visit.approval, event) /\ RowAgrees
  BY <1>1, <1>3 DEF AgreementInv, JobsAgree, JobAgrees
<1>6. visit.status # "absent"
  BY <1>1, <1>3, <1>5 DEF RowAgrees
<1>7. /\ visit'.status = IF "status" \in DOMAIN w THEN w["status"] ELSE visit.status
      /\ visit'.approval = After(w, visit.approval)
  BY <1>1, <1>2, WrittenIs DEF Commit, After
<1>8. Agree(visit'.status, visit'.approval)
  <2>1. CASE "status" \in DOMAIN w
    <3>1. StatusFits(job.op, w, visit.approval)
      BY <1>2, <1>5, <2>1 DEF CommitFits
    <3>2. w["status"] = "pending_approval" =>
            w["status"] = event.status /\ After(w, visit.approval) = event.approval /\ event # NoEvent
      BY <1>2, <1>5, <3>1 DEF CommitFits, StatusFits, UndoFits
    <3> QED
      BY <1>5, <1>7, <2>1, <3>1, <3>2 DEF StatusFits, RowAgrees, Agree
  <2>2. CASE "status" \notin DOMAIN w
    <3>1. visit'.approval = visit.approval \/ visit'.approval = "none"
      BY <1>2, <1>5, <1>7, <2>2 DEF CommitFits, ApprovalFits, After
    <3> QED
      BY <1>5, <1>7, <2>2, <3>1 DEF RowAgrees, Agree, IN_FLIGHT_STATES
  <2> QED
    BY <2>1, <2>2
<1>9. Asked(visit'.approval, tasks')
  <2> SUFFICES ASSUME visit'.approval = "submitted" PROVE tasks' \ {Revise} # {}
    BY DEF Asked
  <2>1. job.op \notin Closing /\ job.closing = {}
    BY <1>2, <1>5, <1>7 DEF CommitFits, IN_FLIGHT_STATES
  <2>2. CASE job.op = "undo"
    <3>1. /\ event # NoEvent /\ event.approval = "submitted"
          /\ event.closed \ {Revise} # {} /\ Agree(event.status, event.approval)
      BY <1>2, <1>5, <1>7, <2>2 DEF CommitFits, UndoFits, RowAgrees, Asked
    <3>2. event.status = "pending_approval"
      BY <3>1 DEF TypeInv, StateTyped, EventTyped, Editable, Agree
    <3>3. tasks' = tasks \cup event.closed
      BY <1>1, <2>2, <3>2 DEF Commit, TasksAfter
    <3> QED
      BY <3>1, <3>3
  <2>3. CASE job.op # "undo"
    <3>1. visit.approval = "submitted"
      BY <1>2, <1>5, <1>7, <2>3 DEF CommitFits, ApprovalFits, After, IN_FLIGHT_STATES
    <3>2. tasks' = tasks \ {}
      BY <1>1, <2>1, <2>3 DEF Commit, TasksAfter
    <3> QED
      BY <1>5, <3>1, <3>2 DEF RowAgrees, Asked
  <2> QED
    BY <2>2, <2>3
<1>10. event' # NoEvent => Agree(event'.status, event'.approval) /\ Asked(event'.approval, event'.closed)
  <2>1. CASE job.op = "noshow"
    <3>1. event' = [status |-> job.before.status, approval |-> job.before.approval,
                    closed |-> job.closing]
      BY <1>1, <2>1 DEF Commit
    <3> QED
      BY <1>5, <2>1, <3>1 DEF CommitFits, NoShowFits
  <2>2. CASE job.op # "noshow"
    BY <1>1, <1>5, <2>2 DEF Commit, RowAgrees
  <2> QED
    BY <2>1, <2>2
<1>11. visit'.status # "absent"
  BY <1>2, <1>5, <1>6, <1>7 DEF CommitFits, StatusFits
<1>12. \A t \in Sessions : jobs'[t] = IF t = s THEN Idle ELSE jobs[t]
  BY DEF Commit, End, TypeInv, JobsTyped
<1>13. visit'.status = "no_show" => jobs'[Tick] = Idle
  <2>1. CASE s = Tick
    BY <1>12, <2>1 DEF Sessions
  <2>2. CASE s # Tick
    <3>1. visit'.status = "no_show" => visit.status = "no_show"
      BY <1>2, <1>4, <1>5, <1>7, <2>2 DEF CommitFits, StatusFits
    <3> QED
      BY <1>5, <1>12, <2>2, <3>1 DEF RowAgrees, Sessions
  <2> QED
    BY <2>1, <2>2
<1>14. RowAgrees'
  BY <1>8, <1>9, <1>10, <1>11, <1>13 DEF RowAgrees
<1>15. ASSUME NEW t \in Sessions, t # s, jobs[t] # Idle
       PROVE  JobAgrees(jobs[t], visit'.status, visit'.approval, event')
  <2>1. /\ s = Tick => t \in Requests
        /\ s # Tick => t = Tick
    BY <1>15 DEF OneRequest, Sessions
  <2>2. visit.status # "no_show"
    BY <1>1, <1>3, <1>5, <1>15, <2>1 DEF RowAgrees
  <2>3. JobAgrees(jobs[t], visit.status, visit.approval, event)
    BY DEF AgreementInv, JobsAgree
  <2>4. Committing(jobs[t]) => jobs[t].op # "undo"
    BY <2>2, <2>3 DEF JobAgrees, CommitFits, UndoFits
  <2>5. visit'.approval = visit.approval \/ visit'.approval \notin IN_FLIGHT_STATES
    BY <1>2, <1>5, <1>7, <2>2 DEF CommitFits, ApprovalFits, UndoFits, After
  <2>6. Drops(jobs[t]) => visit'.approval # "none"
    <3> SUFFICES ASSUME Drops(jobs[t]) PROVE visit'.approval # "none"
      OBVIOUS
    <3>1. t # Tick
      BY SessionAssumption DEF Drops, Routing, Asking, TypeInv, JobsTyped, JobFits, TickJob,
         Committing, Idle
    <3>2. job.op = "noshow"
      BY <1>4, <2>1, <3>1
    <3>3. visit.approval # "none"
      BY <2>3 DEF JobAgrees
    <3> QED
      BY <1>2, <1>5, <1>7, <3>2, <3>3 DEF CommitFits, NoShowFits, After
  <2> QED
    BY <2>3, <2>4, <2>5, <2>6, OvertakenStands
<1>16. JobsAgree'
  BY <1>12, <1>15, IdleAgrees DEF JobsAgree
<1> QED
  BY <1>14, <1>16 DEF AgreementInv

LEMMA ProceedAgrees ==
  ASSUME OneRequest, TypeInv, AgreementInv, NEW s \in Sessions, Proceed(s)
  PROVE  AgreementInv'
<1>0. JobsTyped /\ RowAgrees /\ visit \in Row
  BY DEF TypeInv, StateTyped, AgreementInv
<1>1. CASE SubmitRoute(s)
  <2>1. s \in Requests
    BY <1>1 DEF SubmitRoute, TypeInv, JobsTyped, JobFits, TickJob, Committing, Idle
  <2> QED
    BY <1>1, <2>1, RouteAgrees
<1>2. ASSUME ~SubmitRoute(s), ~Commit(s) PROVE AgreementInv'
  <2>1. /\ s \in Requests /\ s # Tick /\ jobs[s] # Idle /\ jobs[s] \in Asking
        /\ visit' = visit /\ event' = event
    BY <1>2, SessionAssumption DEF Proceed, SubmitDone, WithdrawRefresh, CancelRefresh, clock,
       TypeInv, JobsTyped, JobFits, Routing, RequestJob, TickJob, Committing, Idle
  <2>2. visit.status # "absent"
    BY <1>0, <2>1 DEF RowAgrees
  <2>3. ASSUME NEW j, jobs' = [jobs EXCEPT ![s] = j], Asked(visit.approval, tasks'),
               JobAgrees(j, visit.status, visit.approval, event)
        PROVE  AgreementInv'
    BY <1>0, <2>1, <2>2, <2>3, AgreeTurns
  <2>4. CASE SubmitDone(s)
    <3>1. Asked(visit.approval, tasks')
      BY <1>0, <2>4 DEF SubmitDone, RowAgrees, Asked
    <3> QED
      BY <2>3, <2>4, <3>1, IdleAgrees DEF SubmitDone, End
  <2>5. CASE WithdrawRefresh(s)
    <3>1. visit.approval # "none"
      BY <2>1, <2>5 DEF WithdrawRefresh, AgreementInv, JobsAgree, JobAgrees, Drops
    <3>2. PICK r \in Row : r = Exempted(visit)
      BY <1>0, RowsMade
    <3>3. r.status = "confirmed" /\ r.approval = "none"
      BY <1>0, <3>2 DEF Exempted, Row
    <3>4. JobAgrees(Loaded("withdraw", r, tasks), visit.status, visit.approval, event)
      BY <1>0, <3>1, <3>3, LoadedAgrees DEF Ops, Closing, IN_FLIGHT_STATES
    <3>5. jobs' = [jobs EXCEPT ![s] = Loaded("withdraw", r, tasks)] /\ tasks' = tasks
      BY <2>5, <3>2 DEF WithdrawRefresh, Loaded
    <3> QED
      BY <1>0, <2>3, <3>4, <3>5 DEF RowAgrees
  <2>6. CASE CancelRefresh(s)
    <3>1. PICK r \in Row : r = Cancelled(visit)
      BY <1>0, RowsMade
    <3>2. /\ r.status = "cancelled" /\ r.approval \notin IN_FLIGHT_STATES
          /\ r.approval = visit.approval \/ visit.approval \in IN_FLIGHT_STATES
      BY <1>0, <3>1 DEF Cancelled, Row, IN_FLIGHT_STATES
    <3>3. r.approval # visit.approval => visit.status # "cancelled"
      BY <1>0, <3>2 DEF RowAgrees, Agree
    <3>4. JobAgrees(Loaded("cancel", r, tasks), visit.status, visit.approval, event)
      BY <1>0, <3>2, <3>3, LoadedAgrees DEF Ops, Closing
    <3>5. jobs' = [jobs EXCEPT ![s] = Loaded("cancel", r, tasks)] /\ tasks' = tasks
      BY <2>6, <3>1 DEF CancelRefresh
    <3> QED
      BY <1>0, <2>3, <3>4, <3>5 DEF RowAgrees
  <2> QED
    BY <1>2, <2>4, <2>5, <2>6 DEF Proceed
<1>3. CASE Commit(s)
  BY <1>3, CommitAgrees
<1> QED
  BY <1>1, <1>2, <1>3

(* Answers and timeouts leave a session with what it asked for. *)
LEMMA AnswerIs ==
  ASSUME TypeInv, NEW c \in calls, NEW ok \in BOOLEAN, Answer(c, ok)
  PROVE  \A t \in Sessions : \/ jobs'[t] = jobs[t]
                             \/ /\ jobs[t] \in Asking /\ jobs'[t] \in Asking
                                /\ jobs'[t].op = jobs[t].op
<1>1. CASE c.by = "nobody"
  BY <1>1 DEF Answer
<1>2. CASE c.by # "nobody"
  <2>1. PICK r \in Requests : r = c.by
    BY <1>2 DEF TypeInv, CallsTyped
  <2>2. r \in Sessions /\ jobs[r] \in Asking
    BY <2>1 DEF TypeInv, CallsTyped, CallsAwaited, Waits, Sessions
  <2>3. PICK j \in Asking : j = [op |-> jobs[r].op, pc |-> "replied", reply |-> ok]
    BY <2>2 DEF Asking
  <2>4. \A t \in Sessions : jobs'[t] = IF t = r THEN j ELSE jobs[t]
    BY <1>2, <2>1, <2>2, <2>3 DEF Answer, TypeInv, JobsTyped, Asking
  <2> QED
    BY <2>2, <2>3, <2>4
<1> QED
  BY <1>1, <1>2

LEMMA AskingAgrees ==
  ASSUME NEW job \in Asking, NEW j \in Asking, j.op = job.op, NEW st, NEW ap, NEW ev,
         JobAgrees(job, st, ap, ev)
  PROVE  JobAgrees(j, st, ap, ev)
BY DEF JobAgrees, Drops, Committing, Asking, Routing

(* An engine transaction on an approval in flight. *)
LEMMA EngineMoves ==
  ASSUME TypeInv, AgreementInv, event' = event,
         visit.approval \in IN_FLIGHT_STATES, visit'.approval # "none",
         visit'.status \in {visit.status, "confirmed"},
         Agree(visit'.status, visit'.approval), Asked(visit'.approval, tasks'),
         \A t \in Sessions : \/ jobs'[t] = jobs[t]
                             \/ /\ jobs[t] \in Asking /\ jobs'[t] \in Asking
                                /\ jobs'[t].op = jobs[t].op
  PROVE  AgreementInv'
<1>1. visit.status # "no_show" /\ visit.status # "absent"
  BY DEF AgreementInv, RowAgrees, Agree, IN_FLIGHT_STATES
<1>2. RowAgrees'
  BY <1>1 DEF AgreementInv, RowAgrees
<1>3. ASSUME NEW t \in Sessions
      PROVE  JobAgrees(jobs'[t], visit'.status, visit'.approval, event')
  <2>1. JobAgrees(jobs[t], visit.status, visit.approval, event)
    BY DEF AgreementInv, JobsAgree
  <2>2. JobAgrees(jobs[t], visit'.status, visit'.approval, event')
    BY <1>1, <2>1, EngineStands
  <2> QED
    BY <2>2, AskingAgrees
<1> QED
  BY <1>2, <1>3 DEF AgreementInv, JobsAgree

LEMMA EngineRefuses ==
  ASSUME TypeInv, AgreementInv, event' = event, visit' = visit, tasks' = tasks,
         \A t \in Sessions : \/ jobs'[t] = jobs[t]
                             \/ /\ jobs[t] \in Asking /\ jobs'[t] \in Asking
                                /\ jobs'[t].op = jobs[t].op
  PROVE  AgreementInv'
<1>1. Idle \notin Asking
  BY DEF Idle, Asking
<1>2. \A t \in Sessions : jobs[t] = Idle => jobs'[t] = Idle
  BY <1>1
<1>3. RowAgrees'
  BY <1>2 DEF AgreementInv, RowAgrees, Sessions
<1>4. JobsAgree'
  BY AskingAgrees DEF AgreementInv, JobsAgree
<1> QED
  BY <1>3, <1>4 DEF AgreementInv

LEMMA EngineAgrees ==
  ASSUME TypeInv, AgreementInv, Engine
  PROVE  AgreementInv'
<1>0. visit \in Row /\ RowAgrees /\ event' = event
  BY DEF TypeInv, StateTyped, AgreementInv, Engine, EngineDecide, EngineSubmit, EngineCancel, clock
<1>1. CASE EngineDecide
  <2>1. visit.approval \in IN_FLIGHT_STATES /\ jobs' = jobs
    BY <1>1 DEF EngineDecide, IN_FLIGHT_STATES
  <2>2. \/ /\ visit'.status = visit.status
           /\ visit'.approval \in {"submitted", "returned", "rejected", "draft"}
        \/ visit'.status = "confirmed" /\ visit'.approval = "approved"
    BY <1>0, <1>1 DEF EngineDecide, Row
  <2>3. Agree(visit'.status, visit'.approval)
    BY <1>0, <1>1, <2>2 DEF EngineDecide, RowAgrees, Agree, IN_FLIGHT_STATES
  <2>4. Asked(visit'.approval, tasks')
    <3>1. CASE \E k \in 1 .. Steps : k > visit.step /\ tasks' = {k}
      BY <3>1, StepsAssumption DEF Asked, Revise
    <3>2. CASE visit'.approval # "submitted"
      BY <3>2 DEF Asked
    <3> QED
      BY <1>0, <1>1, <3>1, <3>2 DEF EngineDecide, Row
  <2> QED
    BY <1>0, <2>1, <2>2, <2>3, <2>4, EngineMoves
<1>2. ASSUME NEW c \in calls, EngineSubmit(c) PROVE AgreementInv'
  <2>1. PICK ok \in BOOLEAN : Answer(c, ok)
    BY <1>2 DEF EngineSubmit
  <2>2. CASE visit.approval \in RESUBMITTABLE_STATES
    <3>1. PICK k \in 1 .. Steps : /\ visit' = [visit EXCEPT !.approval = "submitted", !.step = k]
                                  /\ tasks' = tasks \cup {k}
      BY <1>2, <2>2 DEF EngineSubmit
    <3>2. visit'.status = visit.status /\ visit'.approval = "submitted"
      BY <1>0, <3>1 DEF Row
    <3>3. Agree(visit'.status, visit'.approval)
      BY <1>0, <2>2, <3>2 DEF RowAgrees, Agree, RESUBMITTABLE_STATES, IN_FLIGHT_STATES
    <3>4. Asked(visit'.approval, tasks')
      BY <3>1, StepsAssumption DEF Asked, Revise
    <3>5. visit.approval \in IN_FLIGHT_STATES
      BY <2>2 DEF RESUBMITTABLE_STATES, IN_FLIGHT_STATES
    <3> QED
      BY <1>0, <2>1, <3>2, <3>3, <3>4, <3>5, AnswerIs, EngineMoves
  <2>3. CASE visit.approval \notin RESUBMITTABLE_STATES
    <3>1. visit' = visit /\ tasks' = tasks
      BY <1>2, <2>3 DEF EngineSubmit
    <3> QED
      BY <1>0, <2>1, <3>1, AnswerIs, EngineRefuses
  <2> QED
    BY <2>2, <2>3
<1>3. ASSUME NEW c \in calls, EngineCancel(c) PROVE AgreementInv'
  <2>1. PICK ok \in BOOLEAN : Answer(c, ok)
    BY <1>3 DEF EngineCancel
  <2>2. CASE visit' = visit /\ tasks' = tasks
    BY <1>0, <2>1, <2>2, AnswerIs, EngineRefuses
  <2>3. CASE ~(visit' = visit /\ tasks' = tasks)
    <3>1. /\ visit.approval \in IN_FLIGHT_STATES
          /\ visit' = [visit EXCEPT !.approval = "cancelled"]
      BY <1>3, <2>3 DEF EngineCancel
    <3>2. visit'.status = visit.status /\ visit'.approval = "cancelled"
      BY <1>0, <3>1 DEF Row
    <3>3. Agree(visit'.status, visit'.approval) /\ Asked(visit'.approval, tasks')
      BY <1>0, <3>1, <3>2 DEF RowAgrees, Agree, Asked, IN_FLIGHT_STATES
    <3> QED
      BY <1>0, <2>1, <3>1, <3>2, <3>3, AnswerIs, EngineMoves
  <2> QED
    BY <2>2, <2>3
<1> QED
  BY <1>1, <1>2, <1>3 DEF Engine

(* The tick remembers the two statuses it closes, and the tasks. *)
LEMMA MarkingAgrees ==
  ASSUME visit \in Row, RowAgrees, NEW row \in Row, NEW closing,
         visit.status \in Editable, row.status = "no_show",
         row.approval = visit.approval \/ row.approval = "cancelled",
         row.approval \notin IN_FLIGHT_STATES, Asked(visit.approval, closing)
  PROVE  JobAgrees(Marking(row, closing), visit.status, visit.approval, event)
<1>1. PICK w : w = Changes(row)
  OBVIOUS
<1>2. /\ "status" \in DOMAIN w <=> row.status # visit.status
      /\ "status" \in DOMAIN w => w["status"] = row.status
      /\ "approval" \in DOMAIN w <=> row.approval # visit.approval
      /\ "approval" \in DOMAIN w => w["approval"] = row.approval
  BY <1>1, ChangesAre DEF Columns
<1>3. PICK before : before = [status |-> visit.status, approval |-> visit.approval]
  OBVIOUS
<1>4. PICK j : j = [op |-> "noshow", pc |-> "commit", writes |-> w, closing |-> closing,
                    before |-> before]
  OBVIOUS
<1>5. After(w, visit.approval) \notin IN_FLIGHT_STATES
  BY <1>2 DEF After
<1>6. StatusFits("noshow", w, visit.approval)
  BY <1>2, <1>5 DEF StatusFits, Editable
<1>7. "approval" \in DOMAIN w => ApprovalFits("noshow", w)
  BY <1>2 DEF ApprovalFits, Editable, IN_FLIGHT_STATES
<1>8. NoShowFits(w, before, closing)
  BY <1>2, <1>3 DEF NoShowFits, RowAgrees, Editable
<1>9. CommitFits(j, visit.status, visit.approval, event)
  BY <1>4, <1>5, <1>6, <1>7, <1>8 DEF CommitFits, Closing
<1>10. ~Drops(j)
  BY <1>4 DEF Drops, Routing, Asking
<1> QED
  BY <1>1, <1>3, <1>4, <1>9, <1>10 DEF JobAgrees, Marking

LEMMA MarkAgrees ==
  ASSUME TypeInv, AgreementInv, MarkNoShow
  PROVE  AgreementInv'
<1>0. /\ Tick \in Sessions /\ JobsTyped /\ RowAgrees /\ visit \in Row
      /\ visit.status \in Editable
      /\ visit' = visit /\ event' = event /\ tasks' = tasks
  BY DEF MarkNoShow, Overdue, TypeInv, StateTyped, Sessions, AgreementInv, clock
<1>1. CASE visit.status = "pending_approval"
  <2>1. PICK r \in Row : r = NoShow(visit)
    BY <1>0, RowsMade
  <2>2. /\ r.status = "no_show" /\ r.approval \notin IN_FLIGHT_STATES
        /\ r.approval = visit.approval \/ r.approval = "cancelled"
    BY <1>0, <2>1 DEF NoShow, Cancelled, Row, IN_FLIGHT_STATES
  <2>3. JobAgrees(Marking(r, tasks), visit.status, visit.approval, event)
    BY <1>0, <2>2, MarkingAgrees DEF RowAgrees
  <2>4. jobs' = [jobs EXCEPT ![Tick] = Marking(r, tasks)]
    BY <1>1, <2>1 DEF MarkNoShow
  <2> QED
    BY <1>0, <2>3, <2>4, AgreeTurns DEF RowAgrees, Editable
<1>2. CASE visit.status # "pending_approval"
  <2>1. PICK r \in Row : r = [visit EXCEPT !.status = "no_show"]
    BY <1>0 DEF Row, VisitStatus
  <2>2. r.status = "no_show" /\ r.approval = visit.approval
    BY <1>0, <2>1 DEF Row
  <2>3. r.approval \notin IN_FLIGHT_STATES /\ Asked(visit.approval, {})
    BY <1>0, <1>2, <2>2 DEF RowAgrees, Agree, Asked, Editable, IN_FLIGHT_STATES
  <2>4. JobAgrees(Marking(r, {}), visit.status, visit.approval, event)
    BY <1>0, <2>2, <2>3, MarkingAgrees
  <2>5. jobs' = [jobs EXCEPT ![Tick] = Marking(r, {})]
    BY <1>2, <2>1 DEF MarkNoShow
  <2> QED
    BY <1>0, <2>4, <2>5, AgreeTurns DEF RowAgrees, Editable
<1> QED
  BY <1>1, <1>2

LEMMA TimeOutAgrees ==
  ASSUME TypeInv, AgreementInv, NEW s \in Sessions, TimeOut(s)
  PROVE  AgreementInv'
<1>1. s \in Requests /\ s # Tick /\ jobs[s] \in Asking
  BY SessionAssumption DEF TimeOut, TypeInv, JobsTyped, JobFits, RequestJob, TickJob, Committing, Routing
<1>2. PICK j \in Asking : j = [op |-> jobs[s].op, pc |-> "replied", reply |-> jobs[s].reply]
  BY <1>1 DEF Asking
<1>3. \A t \in Sessions : jobs'[t] = IF t = s THEN j ELSE jobs[t]
  BY <1>1, <1>2 DEF TypeInv, JobsTyped, Asking, TimeOut
<1>4. visit' = visit /\ event' = event /\ tasks' = tasks
  BY DEF TimeOut, clock
<1>5. visit.status # "absent"
  BY <1>1 DEF AgreementInv, RowAgrees, Asking, Idle
<1>6. JobsAgree'
  BY <1>1, <1>2, <1>3, <1>4, AskingAgrees DEF AgreementInv, JobsAgree
<1>7. RowAgrees'
  BY <1>1, <1>3, <1>4, <1>5 DEF AgreementInv, RowAgrees, Sessions
<1> QED
  BY <1>6, <1>7 DEF AgreementInv

LEMMA AgreementInitially == Init => AgreementInv
BY IdleAgrees DEF Init, AgreementInv, RowAgrees, Agree, Asked, JobsAgree, Sessions

LEMMA AgreementKept ==
  ASSUME OneRequest, TypeInv, AgreementInv, [Next]_vars
  PROVE  AgreementInv'
<1>1. CASE DropCall \/ DayEnds \/ UNCHANGED vars \/ \E t \in ZoneTables : SaveZones(t)
  <2>1. visit' = visit /\ event' = event /\ tasks' = tasks /\ jobs' = jobs
    BY <1>1 DEF DropCall, DayEnds, SaveZones, vars, clock
  <2> QED
    BY <2>1 DEF AgreementInv, RowAgrees, JobsAgree
<1>2. CASE MarkNoShow
  BY <1>2, MarkAgrees
<1>3. CASE \E s \in Requests : Request(s)
  BY <1>3, RequestAgrees
<1>4. CASE \E s \in Sessions : Proceed(s) \/ TimeOut(s)
  BY <1>4, ProceedAgrees, TimeOutAgrees
<1>5. CASE Engine
  BY <1>5, EngineAgrees
<1> QED
  BY <1>1, <1>2, <1>3, <1>4, <1>5 DEF Next

LEMMA AgreementAlways ==
  ASSUME OneRequest
  PROVE  Spec => []AgreementInv
<1>1. TypeInv /\ AgreementInv /\ [Next]_vars => AgreementInv'
  BY AgreementKept
<1> QED
  BY <1>1, AgreementInitially, TypesAlways, PTL DEF Spec

(* StatusesAgree: whatever is lost, late or overtaken between a request,   *)
(* the tick and the engine, a confirmed visit has no approval under way    *)
(* and neither has a cancelled one.                                        *)
THEOREM BothStatusesAgree ==
  ASSUME OneRequest
  PROVE  Spec => []StatusesAgree
<1>1. AgreementInv => StatusesAgree
  BY DEF AgreementInv, RowAgrees, Agree, StatusesAgree
<1> QED
  BY <1>1, AgreementAlways, PTL

(* AwaitedIsAsked: a visit that approvers are said to have is in an        *)
(* approver's inbox, also after a no-show was undone; not only when        *)
(* nothing is running.                                                     *)
THEOREM AwaitedVisitsAsked ==
  ASSUME OneRequest
  PROVE  Spec => []AwaitedIsAsked
<1>1. AgreementInv => AwaitedIsAsked
  BY DEF AgreementInv, RowAgrees, Asked, AwaitedIsAsked
<1> QED
  BY <1>1, AgreementAlways, PTL

=============================================================================
