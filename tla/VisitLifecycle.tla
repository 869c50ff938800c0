--------------------------- MODULE VisitLifecycle ---------------------------
(***************************************************************************)
(* One visit of vms-api, from booking to departure.  Its row carries two   *)
(* statuses: the visit's own, written by vms-api, and approval_status,     *)
(* written by the approval engine (another service, on the same row) and   *)
(* by vms-api.  vms-api commits the row, then calls the engine over HTTP;  *)
(* a call may be lost, refused, or executed after vms-api stopped waiting. *)
(*                                                                         *)
(* A request of vms-api reads the row without a lock and later commits the *)
(* columns it changed (SQLAlchemy writes those only); several requests and *)
(* the scheduler's tick run at once.  The engine locks the row for each    *)
(* action, so an engine action is one step.                                *)
(***************************************************************************)
EXTENDS Naturals

CONSTANTS
  Requests,      \* requests vms-api serves at the same time
  Tick,          \* the scheduler's session; an advisory lock keeps it single
  Zones,         \* access areas
  Managers,      \* users who may manage a zone
  ZoneTables,    \* the states of the zone configuration
  Steps,         \* the approval chain is 1..Steps
  MaxMoves       \* bound: how often the visit is rescheduled

ASSUME SessionAssumption == Tick \notin Requests /\ "nobody" \notin Requests
ASSUME StepsAssumption == Steps \in Nat \ {0}
ASSUME MovesAssumption == MaxMoves \in Nat
ASSUME ZoneAssumption ==
  /\ Zones # {}
  /\ ZoneTables \subseteq [Zones -> [managers: SUBSET Managers, active: SUBSET Managers]]

VARIABLES
  visit,      \* the committed row of vms_visits
  tasks,      \* open inbox tasks: approval steps by number, and Revise
  zones,      \* vms_zones and vms_zone_managers
  late,       \* the plant day of the planned arrival is over
  moves,      \* reschedules so far
  event,      \* the audit row of the last automatic no-show
  jobs,       \* what each session of vms-api is doing
  calls,      \* engine calls on their way
  routedFor,  \* history: the zone whose managers the last routing took
  cleared     \* history: the zones the visit has been admitted to

history == <<routedFor, cleared>>
clock == <<late, moves, event>>
vars == <<visit, tasks, zones, clock, jobs, calls, history>>

Revise == 0
VisitStatus == {"absent", "pending_approval", "confirmed", "checked_in",
                "checked_out", "cancelled", "no_show"}
ApprovalStatus == {"none", "draft", "submitted", "returned", "approved",
                   "rejected", "cancelled"}    \* "submitted" is in_review too
IN_FLIGHT_STATES == {"draft", "submitted", "returned"}
RESUBMITTABLE_STATES == {"draft", "returned"}
Editable == {"confirmed", "pending_approval"}

(* Mutant: a badge may be printed before the approval. *)
UnprintableWhenOver == {"cancelled", "checked_out", "no_show", "absent"}
Unprintable == {"cancelled", "checked_out", "no_show", "pending_approval", "absent"}

Row == [status: VisitStatus, approval: ApprovalStatus, step: 0..Steps,
        area: Zones, routed: SUBSET Managers, arrived: BOOLEAN]
Columns == {"status", "approval", "step", "area", "routed", "arrived"}
Tasks == SUBSET (0..Steps)
Sessions == Requests \cup {Tick}
Idle == [op |-> "idle"]
NoEvent == [status |-> "none"]

ActiveManagers(z) == zones[z].managers \cap zones[z].active
RequiresApproval(z) == zones[z].managers # {}
MayMoveConfirmed(row, z) ==
  \/ ~RequiresApproval(z)
  \/ ActiveManagers(z) # {} /\ ActiveManagers(z) \subseteq row.routed

-----------------------------------------------------------------------------
(* get_visit mirrors the engine's last word onto a visit still pending. *)
Synced(row) ==
  [row EXCEPT !.status =
     IF @ # "pending_approval" THEN @
     ELSE IF row.approval \in {"rejected", "cancelled"} THEN "cancelled"
     ELSE IF row.approval = "approved" THEN "confirmed" ELSE @]

(* What a session that makes `row` of the row it loads will write: the     *)
(* columns that differ.  It commits them over whatever others committed    *)
(* meanwhile, and closes the tasks it found open.                          *)
Changes(row) == [c \in {d \in Columns : row[d] # visit[d]} |-> row[c]]
Written(writes) ==
  [c \in Columns |-> IF c \in DOMAIN writes THEN writes[c] ELSE visit[c]]

Loaded(op, row, closing) ==
  [op |-> op, pc |-> "commit", writes |-> Changes(row), closing |-> closing]

Begin(s, op, row, closing) ==
  /\ jobs[s] = Idle
  /\ jobs' = [jobs EXCEPT ![s] = Loaded(op, row, closing)]
  /\ UNCHANGED <<visit, tasks, zones, clock, calls, history>>

End(s) == jobs' = [jobs EXCEPT ![s] = Idle]

(* The engine is called and the session waits, its row read again after. *)
Call(s, op, act) ==
  /\ jobs' = [jobs EXCEPT ![s] = [op |-> op, pc |-> "wait", reply |-> FALSE]]
  /\ calls' = calls \cup {[act |-> act, by |-> s]}

-----------------------------------------------------------------------------
(* Booking.  A zone without configured managers needs no approval; one     *)
(* whose managers have all left stops the visit before the engine.         *)
Submitted(s, z) ==
  /\ routedFor' = z
  /\ IF ActiveManagers(z) = {} THEN End(s) /\ UNCHANGED calls
     ELSE Call(s, "submit", "submit")

Create(s, z) ==
  /\ visit.status = "absent"
  /\ jobs[s] = Idle
  /\ \/ /\ ~RequiresApproval(z)
        /\ visit' = [visit EXCEPT !.status = "confirmed", !.area = z]
        /\ cleared' = {z}
        /\ UNCHANGED <<jobs, calls, routedFor>>
     \/ /\ RequiresApproval(z)
        /\ visit' = [visit EXCEPT !.status = "pending_approval", !.area = z,
                                  !.approval = "draft", !.routed = ActiveManagers(z)]
        /\ Submitted(s, z)
        /\ UNCHANGED cleared
  /\ UNCHANGED <<tasks, zones, clock>>

(* POST /visits/{id}/submit, the retry of a failed hand-over and the       *)
(* resubmission of a returned visit.                                       *)
SubmitRead(s) ==
  LET row == Synced(visit) IN
  /\ jobs[s] = Idle
  /\ row.status = "pending_approval" /\ row.approval \in RESUBMITTABLE_STATES
  /\ jobs' = [jobs EXCEPT ![s] = [op |-> "submit", pc |-> "route",
                                  area |-> row.area, approval |-> row.approval]]
  /\ UNCHANGED <<visit, tasks, zones, clock, calls, history>>

Exempted(row) == [row EXCEPT !.approval = "none", !.status = "confirmed"]

(* prepare_and_submit commits the new route before it calls the engine; a  *)
(* visit whose zone no longer needs approval is confirmed, a returned      *)
(* approval withdrawn first.                                               *)
SubmitRoute(s) ==
  LET job == jobs[s]  z == job.area IN
  /\ job.op = "submit" /\ job.pc = "route"
  /\ \/ /\ RequiresApproval(z)
        /\ visit' = [visit EXCEPT !.routed = ActiveManagers(z)]
        /\ Submitted(s, z)
        /\ UNCHANGED cleared
     \/ /\ ~RequiresApproval(z) /\ job.approval = "returned"
        /\ Call(s, "withdraw", "cancel")
        /\ cleared' = cleared \cup {z}
        /\ UNCHANGED <<visit, routedFor>>
     \/ /\ ~RequiresApproval(z) /\ job.approval = "draft"
        /\ jobs' = [jobs EXCEPT ![s] = [op |-> "withdraw", pc |-> "commit",
                                        writes |-> [approval |-> "none", status |-> "confirmed"],
                                        closing |-> tasks]]
        /\ cleared' = cleared \cup {z}
        /\ UNCHANGED <<visit, calls, routedFor>>
  /\ UNCHANGED <<tasks, zones, clock>>

(* The creator's Revise task is closed here: the engine leaves it open. *)
SubmitDone(s) ==
  /\ jobs[s].op = "submit" /\ jobs[s].pc = "replied"
  /\ tasks' = IF jobs[s].reply THEN tasks \ {Revise} ELSE tasks
  /\ End(s)
  /\ UNCHANGED <<visit, zones, clock, calls, history>>

(* Withdrawing and cancelling read the row again after the engine's answer *)
(* and go on whatever it was.                                              *)
WithdrawRefresh(s) ==
  /\ jobs[s].op = "withdraw" /\ jobs[s].pc = "replied"
  /\ jobs' = [jobs EXCEPT ![s] = [op |-> "withdraw", pc |-> "commit",
                                  writes |-> Changes(Exempted(visit)), closing |-> tasks]]
  /\ UNCHANGED <<visit, tasks, zones, clock, calls, history>>

-----------------------------------------------------------------------------
(* Mutant: the approval status is left as it was. *)
CancelledVisitOnly(row) == [row EXCEPT !.status = "cancelled"]

Cancelled(row) ==
  [row EXCEPT !.status = "cancelled",
              !.approval = IF @ \in IN_FLIGHT_STATES THEN "cancelled" ELSE @]

CancelRead(s) ==
  LET row == Synced(visit) IN
  /\ jobs[s] = Idle
  /\ row.status \in Editable
  /\ IF row.status = "pending_approval" /\ row.approval \in IN_FLIGHT_STATES
     THEN Call(s, "cancel", "cancel")
     ELSE /\ jobs' = [jobs EXCEPT ![s] = Loaded("cancel", [row EXCEPT !.status = "cancelled"], tasks)]
          /\ UNCHANGED calls
  /\ UNCHANGED <<visit, tasks, zones, clock, history>>

CancelRefresh(s) ==
  /\ jobs[s].op = "cancel" /\ jobs[s].pc = "replied"
  /\ jobs' = [jobs EXCEPT ![s] = Loaded("cancel", Cancelled(visit), tasks)]
  /\ UNCHANGED <<visit, tasks, zones, clock, calls, history>>

(* GET /visits/{id}, when it has something to mirror. *)
Read(s) == Synced(visit) # visit /\ Begin(s, "read", Synced(visit), {})

(* PATCH: another zone, refused while approvers have the visit. *)
EditArea(s, z) ==
  LET row == Synced(visit) IN
  /\ row.status \in Editable /\ z # row.area
  /\ row.approval # "submitted"
  /\ \/ row.status = "pending_approval" /\ UNCHANGED cleared
     \/ MayMoveConfirmed(row, z) /\ cleared' = cleared \cup {z}
  /\ jobs[s] = Idle
  /\ jobs' = [jobs EXCEPT ![s] = Loaded("edit", [row EXCEPT !.area = z], {})]
  /\ UNCHANGED <<visit, tasks, zones, clock, calls, routedFor>>

(* PATCH: another day. *)
Postpone(s) ==
  LET row == Synced(visit) IN
  /\ row.status \in Editable /\ moves < MaxMoves
  /\ Begin(s, "postpone", row, {})

(* The first badge print checks the visitor in. *)
PrintBadge(s) ==
  LET row == Synced(visit) IN
  /\ row.status \notin Unprintable /\ ~row.arrived
  /\ Begin(s, "print", [row EXCEPT !.arrived = TRUE, !.status = "checked_in"], {})

CheckOut(s) ==
  /\ visit.status = "checked_in"
  /\ Begin(s, "checkout", [visit EXCEPT !.status = "checked_out"], {})

(* The tick's mark_no_shows. *)
NoShow(row) == [Cancelled(row) EXCEPT !.status = "no_show"]
Marking(row, closing) ==
  [op |-> "noshow", pc |-> "commit", writes |-> Changes(row), closing |-> closing,
   before |-> [status |-> visit.status, approval |-> visit.approval]]

(* Mutant: a visit still pending is left to its approvers. *)
OverdueConfirmed == late /\ visit.status = "confirmed" /\ ~visit.arrived
Overdue == late /\ visit.status \in Editable /\ ~visit.arrived
MarkNoShow ==
  /\ Overdue
  /\ jobs[Tick] = Idle
  /\ jobs' = [jobs EXCEPT ![Tick] =
       IF visit.status = "pending_approval"
       THEN Marking(NoShow(visit), tasks)
       ELSE Marking([visit EXCEPT !.status = "no_show"], {})]
  /\ UNCHANGED <<visit, tasks, zones, clock, calls, history>>

(* Data Maintenance moves the visit to a later day; a no-show is undone    *)
(* from the audit row, its tasks reopened when it was pending.             *)
UndoNoShow(s) ==
  /\ visit.status = "no_show" /\ ~visit.arrived
  /\ event # NoEvent /\ moves < MaxMoves
  /\ Begin(s, "undo", [visit EXCEPT !.status = event.status, !.approval = event.approval], {})

-----------------------------------------------------------------------------
(* Mutant: an undone no-show restores the statuses only. *)
TasksNotReopened(job) == tasks \ job.closing

(* The tasks a commit leaves open. *)
TasksAfter(job) ==
  IF job.op = "undo" /\ event.status = "pending_approval"
  THEN tasks \cup event.closed ELSE tasks \ job.closing

(* A session commits, all at once: the row is locked from its first write. *)
Commit(s) ==
  LET job == jobs[s] IN
  /\ job # Idle /\ job.pc = "commit"
  /\ visit' = Written(job.writes)
  /\ tasks' = TasksAfter(job)
  /\ event' = IF job.op = "noshow"
              THEN [status |-> job.before.status, approval |-> job.before.approval,
                    closed |-> job.closing]
              ELSE IF job.op = "undo" THEN NoEvent ELSE event
  /\ IF job.op \in {"postpone", "undo"} /\ moves < MaxMoves
     THEN late' = FALSE /\ moves' = moves + 1 ELSE UNCHANGED <<late, moves>>
  /\ End(s)
  /\ UNCHANGED <<zones, calls, history>>

-----------------------------------------------------------------------------
(* The approval engine, one action per transaction.  A session still       *)
(* waiting for the call gets the answer.                                   *)
Answer(c, ok) ==
  /\ calls' = calls \ {c}
  /\ jobs' = IF c.by = "nobody" THEN jobs
             ELSE [jobs EXCEPT ![c.by].pc = "replied", ![c.by].reply = ok]

(* Mutant: the chain is taken to be one step longer. *)
EngineSubmitPastEnd(c) ==
  /\ c.act = "submit" /\ visit.approval \in RESUBMITTABLE_STATES
  /\ \E k \in 1..Steps + 1 : /\ visit' = [visit EXCEPT !.approval = "submitted", !.step = k]
                            /\ tasks' = tasks \cup {k}
  /\ Answer(c, TRUE)
  /\ UNCHANGED <<zones, clock, history>>

EngineSubmit(c) ==
  /\ c.act = "submit"
  /\ \/ /\ visit.approval \in RESUBMITTABLE_STATES
        /\ \E k \in 1..Steps : /\ visit' = [visit EXCEPT !.approval = "submitted", !.step = k]
                               /\ tasks' = tasks \cup {k}
        /\ Answer(c, TRUE)
     \/ /\ visit.approval \notin RESUBMITTABLE_STATES
        /\ Answer(c, FALSE)
        /\ UNCHANGED <<visit, tasks>>
  /\ UNCHANGED <<zones, clock, history>>

(* The engine lets the creator, an approver and an admin cancel, not the   *)
(* Host nor a department manager.                                          *)
EngineCancel(c) ==
  /\ c.act = "cancel"
  /\ \/ /\ visit.approval \in IN_FLIGHT_STATES
        /\ visit' = [visit EXCEPT !.approval = "cancelled"]
        /\ tasks' = {}
        /\ Answer(c, TRUE)
     \/ Answer(c, FALSE) /\ UNCHANGED <<visit, tasks>>
  /\ UNCHANGED <<zones, clock, history>>

(* approve, return, reject and recall, from VMS or from the Portal. *)
EngineDecide ==
  /\ visit.approval = "submitted"
  /\ \/ \E k \in 1..Steps : /\ k > visit.step
                            /\ visit' = [visit EXCEPT !.step = k]
                            /\ tasks' = {k}
                            /\ UNCHANGED cleared
     \/ /\ visit' = [visit EXCEPT !.approval = "approved", !.status = "confirmed"]
        /\ tasks' = {}
        /\ cleared' = cleared \cup {routedFor}
     \/ /\ visit' = [visit EXCEPT !.approval = "returned"]
        /\ tasks' = {Revise}
        /\ UNCHANGED cleared
     \/ /\ \E a \in {"rejected", "draft"} : visit' = [visit EXCEPT !.approval = a]
        /\ tasks' = {}
        /\ UNCHANGED cleared
  /\ UNCHANGED <<zones, clock, jobs, calls, routedFor>>

(* httpx gives up after ten seconds; the call may still be executed. *)
TimeOut(s) ==
  /\ jobs[s] # Idle /\ jobs[s].pc = "wait"
  /\ jobs' = [jobs EXCEPT ![s].pc = "replied"]
  /\ calls' = {IF c.by = s THEN [c EXCEPT !.by = "nobody"] ELSE c : c \in calls}
  /\ UNCHANGED <<visit, tasks, zones, clock, history>>

DropCall ==
  /\ \E c \in calls : c.by = "nobody" /\ calls' = calls \ {c}
  /\ UNCHANGED <<visit, tasks, zones, clock, jobs, history>>

DayEnds ==
  /\ ~late /\ late' = TRUE
  /\ UNCHANGED <<visit, tasks, zones, moves, event, jobs, calls, history>>

SaveZones(t) ==
  /\ t # zones /\ zones' = t
  /\ UNCHANGED <<visit, tasks, clock, jobs, calls, history>>

-----------------------------------------------------------------------------
Init ==
  /\ visit = [status |-> "absent", approval |-> "none", step |-> 0,
              area |-> CHOOSE z \in Zones : TRUE, routed |-> {}, arrived |-> FALSE]
  /\ tasks = {} /\ zones \in ZoneTables
  /\ late = FALSE /\ moves = 0 /\ event = NoEvent
  /\ jobs = [s \in Sessions |-> Idle] /\ calls = {}
  /\ routedFor = visit.area /\ cleared = {}

Request(s) ==
  \/ SubmitRead(s) \/ CancelRead(s) \/ Read(s) \/ Postpone(s)
  \/ PrintBadge(s) \/ CheckOut(s) \/ UndoNoShow(s)
  \/ \E z \in Zones : Create(s, z) \/ EditArea(s, z)

Proceed(s) ==
  \/ SubmitRoute(s) \/ SubmitDone(s) \/ WithdrawRefresh(s) \/ CancelRefresh(s)
  \/ Commit(s)

Engine == EngineDecide \/ \E c \in calls : EngineSubmit(c) \/ EngineCancel(c)

Next ==
  \/ \E s \in Requests : Request(s)
  \/ \E s \in Sessions : Proceed(s) \/ TimeOut(s)
  \/ Engine \/ DropCall \/ MarkNoShow \/ DayEnds
  \/ \E t \in ZoneTables : SaveZones(t)

(* Days pass and the scheduler ticks and finishes its tick.  Nobody is     *)
(* bound to decide, print, read or retry, nor to finish a request.         *)
Fairness == WF_vars(Proceed(Tick)) /\ WF_vars(DayEnds) /\ WF_vars(MarkNoShow)

Spec == Init /\ [][Next]_vars /\ Fairness

-----------------------------------------------------------------------------
Ops == {"withdraw", "cancel", "read", "edit", "postpone", "print", "checkout",
        "noshow", "undo"}
JobOK(job) ==
  \/ job = Idle
  \/ job.pc = "route" /\ job.area \in Zones /\ job.approval \in RESUBMITTABLE_STATES
  \/ job.pc \in {"wait", "replied"} /\ job.op \in {"submit", "withdraw", "cancel"}
  \/ /\ job.pc = "commit" /\ job.op \in Ops /\ job.closing \in Tasks
     /\ DOMAIN job.writes \subseteq Columns /\ Written(job.writes) \in Row

(* The row, the tasks and what each session holds are of their types; the  *)
(* step is one of the chain.                                               *)
TypeOK ==
  /\ visit \in Row /\ tasks \in Tasks /\ zones \in ZoneTables
  /\ late \in BOOLEAN /\ moves \in 0..MaxMoves
  /\ event = NoEvent \/ event \in [status: Editable, approval: ApprovalStatus, closed: Tasks]
  /\ DOMAIN jobs = Sessions /\ \A s \in Sessions : JobOK(jobs[s])
  /\ calls \subseteq [act: {"submit", "cancel"}, by: Requests \cup {"nobody"}]
  /\ routedFor \in Zones /\ cleared \subseteq Zones

(* The two statuses agree: a confirmed visit has no approval under way,    *)
(* and neither has one that was cancelled or did not show up, whatever was *)
(* lost, late or overtaken between the two services.                       *)
StatusesAgree ==
  /\ visit.status = "confirmed" => visit.approval \in {"none", "approved"}
  /\ visit.status \in {"cancelled", "no_show"} => visit.approval \notin IN_FLIGHT_STATES

(* Nobody gets a badge for a visit that was neither approved nor exempt. *)
LetInOnlyCleared == visit.arrived => cleared # {}

Quiet == calls = {} /\ \A s \in Sessions : jobs[s] = Idle

(* When nothing is running, a visit that approvers are said to have is in  *)
(* an approver's inbox: somebody is asked to move it, also after a no-show *)
(* was undone.                                                             *)
AwaitedIsAsked ==
  Quiet /\ visit.status = "pending_approval" /\ visit.approval = "submitted"
    => tasks \ {Revise} # {}

(* No visit stays pending for ever: the day passes and the tick closes it, *)
(* whatever requests and engine calls are stuck.                           *)
PendingEnds == visit.status = "pending_approval" ~> visit.status # "pending_approval"

=============================================================================
