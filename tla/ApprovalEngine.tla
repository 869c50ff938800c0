---------------------------- MODULE ApprovalEngine ----------------------------
(***************************************************************************)
(* approval-api's workflow engine (app/crud/engine.py) on one document:    *)
(* submit, approve, return, reject, recall, cancel and the re-sync of      *)
(* in-flight documents, while the requester edits the form between runs    *)
(* and administrators change posts, department routing, delegations and    *)
(* Budget Config at any moment.                                            *)
(*                                                                         *)
(* Every action of execute_action holds the document's row lock until its  *)
(* transaction commits, so it is one step here.  A re-sync takes no lock;  *)
(* this module runs it in one step too, and ApprovalRace splits it.        *)
(*                                                                         *)
(* `trail` is the standing part of approval_events: which steps of the     *)
(* current run were cleared, as which node, and how.  `released` counts    *)
(* the runs of _POST_APPROVE (the next task, an agreement's activation).   *)
(***************************************************************************)
EXTENDS WorkflowRules, FiniteSets

CONSTANTS
  Chains,     \* the workflow_defs lists an administrator may have saved
  Orgs,       \* the organisations administrators move between
  Forms,      \* the forms the requester may fill in
  Delegates   \* the delegator -> delegate functions that may be live today

VARIABLES
  status,     \* doc.status
  step,       \* doc.approval_step_idx
  applied,    \* doc.ob_mode_applied
  form,       \* [overBudget, crossDept, zone]
  tasks,      \* the document's open tasks
  lastReturn, \* step_idx of the latest `return` event, -1 for none
  trail,      \* set of [step, node, how]
  released,   \* how many times the post-approval effect ran
  org,        \* [posts, manager, director, supervisor, gmOrOpm, crossPost, obMode]
  standIn,    \* delegator -> the delegate live today, NoUser for none
  chain       \* workflow_defs[workflow_key]

doc  == <<status, step, applied, form, tasks, lastReturn, trail, released>>
vars == <<doc, org, standIn, chain>>

NoNode == [role |-> "none", ob |-> FALSE]   \* an index past the end of the list

Hows == {"signed", "same_approver", "conditional", "claimant"}

OrgType ==
  [posts : [PostRoles -> SUBSET Users], gmOrOpm : {"gm", "opm"},
   crossPost : {"gm", "opm"}, obMode : BudgetModes,
   manager : Users \cup {NoUser}, director : Users \cup {NoUser},
   supervisor : Users \cup {NoUser}]

FormType == [overBudget : BOOLEAN, crossDept : BOOLEAN, zone : SUBSET Users]

EngineAssumption ==
  /\ Chains \subseteq Seq([role : Roles, ob : {FALSE}])
  /\ \A c \in Chains : Len(c) > 0
  /\ Orgs \subseteq OrgType
  /\ Forms \subseteq FormType
  /\ \A f \in Forms : f.zone # {} => DocType = "vms_visit"
  /\ Delegates \subseteq [Users -> Users \cup {NoUser}]

ASSUME RulesHold == RulesAssumption
ASSUME EngineHolds == EngineAssumption

-----------------------------------------------------------------------------
(* The effective workflow. *)

WorkflowUnder(mode) == IF DocType = "pr" THEN ObPrefix(mode) \o chain ELSE chain

(* Mutant: the mode read from Budget Config on every call. *)
LiveMode == SubmissionMode(form, "draft", applied, org)

FrozenMode ==
  IF status # "draft" /\ applied # "unset" THEN applied
  ELSE SubmissionMode(form, "draft", applied, org)

Workflow == WorkflowUnder(FrozenMode)

StepRole == IF step < Len(Workflow) THEN At(Workflow, step).role ELSE "none"

CanApprove(u) == ActorCanApprove(u, StepRole, org, form, standIn)

OpenApprovals == {t \in tasks : t.kind = "approve"}

-----------------------------------------------------------------------------
Init ==
  /\ status = "draft" /\ step = 0 /\ applied = "unset"
  /\ form \in Forms
  /\ tasks = {} /\ lastReturn = -1 /\ trail = {} /\ released = 0
  /\ org \in Orgs
  /\ standIn \in Delegates
  /\ chain \in Chains

(* Mutant: resumes by index although the over-budget steps changed. *)
SubmissionStartByIndex(mode) ==
  IF status = "draft" \/ lastReturn \notin Indexes(WorkflowUnder(mode)) THEN 0 ELSE lastReturn

(* The step a submission starts from: the one that returned the document,  *)
(* unless it is a draft, the over-budget steps in front changed, or the    *)
(* list no longer has that step.                                           *)
SubmissionStart(mode) ==
  IF \/ status = "draft"
     \/ DocType = "pr" /\ applied # "unset" /\ ObPrefix(applied) # ObPrefix(mode)
     \/ lastReturn \notin Indexes(WorkflowUnder(mode))
  THEN 0 ELSE lastReturn

SkippedAtSubmit(node) ==
  StepSkip(node, org, form) \/ ClaimantStepSkip(node, org, form)

Event(wf, i, how) ==
  [step |-> i, node |-> IF i < Len(wf) THEN At(wf, i) ELSE NoNode, how |-> how]

SkipEvent(wf, i) ==
  Event(wf, i, IF StepSkip(At(wf, i), org, form) THEN "conditional" ELSE "claimant")

(* submit: walk the skipped prefix, refuse when only the claimant is left  *)
(* or when a later step cannot be routed, freeze the over-budget mode.     *)
(* Open tasks stay open.  A list skipped to its end is approved at once.   *)
Submit ==
  /\ status \in Submittable
  /\ ~ (DocType = "pr" /\ form.overBudget /\ org.obMode = "hard_block")
  /\ LET mode == SubmissionMode(form, status, applied, org)
         wf   == WorkflowUnder(mode)
         from == SubmissionStart(mode)
     IN \E n \in from .. Len(wf) :
          /\ \A i \in from .. n - 1 : SkippedAtSubmit(At(wf, i))
          /\ n < Len(wf) => ~ SkippedAtSubmit(At(wf, n))
          /\ n = Len(wf) => \A i \in from .. n - 1 : StepSkip(At(wf, i), org, form)
          /\ \A i \in n .. Len(wf) - 1 :
               StepSkip(At(wf, i), org, form) \/ Routable(At(wf, i), org)
          /\ status' = IF n < Len(wf) THEN "submitted" ELSE "approved"
          /\ step' = n
          /\ applied' = IF DocType = "pr" THEN mode ELSE applied
          /\ tasks' = IF n < Len(wf) THEN tasks \cup StepTasks(At(wf, n), org, form)
                      ELSE tasks
          /\ trail' = {e \in trail : e.step < from}
                        \cup {SkipEvent(wf, i) : i \in from .. n - 1}
  /\ UNCHANGED <<form, lastReturn, released, org, standIn, chain>>

(* Where the document goes once steps up to n are cleared: on to step n,   *)
(* or, past the end, approved with its post-approval effect.               *)
Advance(wf, n) ==
  IF n < Len(wf)
  THEN /\ Routable(At(wf, n), org)
       /\ tasks' = StepTasks(At(wf, n), org, form)
       /\ UNCHANGED released
  ELSE /\ tasks' = {}
       /\ released' = IF HasPostEffect(DocType) THEN released + 1 ELSE released

SkippedAtApprove(u, node) ==
  SkippedAtSubmit(node) \/ SameApproverSkip(u, node, org, form)

SkipEventFor(u, wf, i) ==
  IF ~ StepSkip(At(wf, i), org, form) /\ SameApproverSkip(u, At(wf, i), org, form)
  THEN Event(wf, i, "same_approver") ELSE SkipEvent(wf, i)

(* approve: close the tasks, then walk over the steps that are skipped for *)
(* this document, held by the same approver, or held by the claimant only. *)
(* The final approval leaves the step index where it is.                   *)
Approve(u) ==
  /\ status \in InFlight
  /\ CanApprove(u)
  /\ LET wf == Workflow
     IN \E n \in step + 1 .. IF step < Len(wf) THEN Len(wf) ELSE step + 1 :
          /\ \A i \in step + 1 .. n - 1 : SkippedAtApprove(u, At(wf, i))
          /\ n < Len(wf) => ~ SkippedAtApprove(u, At(wf, n))
          /\ Advance(wf, n)
          /\ step' = IF n < Len(wf) THEN n ELSE step
          /\ status' = IF n < Len(wf) THEN "in_review" ELSE GrantedStatus(DocType)
          /\ trail' = trail \cup {Event(wf, step, "signed")}
                        \cup {SkipEventFor(u, wf, i) : i \in step + 1 .. n - 1}
  /\ UNCHANGED <<applied, form, lastReturn, org, standIn, chain>>

(* return: back to the requester, with a revise task; the event keeps the  *)
(* step, the document goes to step 0.                                      *)
Return(u) ==
  /\ status \in InFlight
  /\ CanApprove(u)
  /\ status' = "returned" /\ step' = 0
  /\ lastReturn' = step
  /\ tasks' = {ReviseTask}
  /\ UNCHANGED <<applied, form, trail, released, org, standIn, chain>>

Reject(u) ==
  /\ status \in InFlight
  /\ CanApprove(u)
  /\ status' = RejectedStatus(DocType)
  /\ tasks' = {}
  /\ UNCHANGED <<step, applied, form, lastReturn, trail, released, org, standIn, chain>>

(* Mutant: a recall leaves the approval task open. *)
RecallKeepsTasks(u) ==
  /\ status \in InFlight
  /\ u = Creator \/ TokenRole[u] = "system_admin"
  /\ status' = "draft" /\ step' = 0
  /\ UNCHANGED <<tasks, applied, form, lastReturn, trail, released, org, standIn, chain>>

(* recall: the submitter (or an administrator) takes it back to draft. *)
Recall(u) ==
  /\ status \in InFlight
  /\ u = Creator \/ TokenRole[u] = "system_admin"
  /\ status' = "draft" /\ step' = 0
  /\ tasks' = {}
  /\ UNCHANGED <<applied, form, lastReturn, trail, released, org, standIn, chain>>

(* cancel: the owner, an administrator, or whoever may approve the step    *)
(* the index names.                                                        *)
MayCancel(u) == status \in Cancellable(DocType) /\ (u = Creator \/ CanApprove(u))

Cancel(u) ==
  /\ MayCancel(u)
  /\ status' = "cancelled"
  /\ tasks' = {}
  /\ UNCHANGED <<step, applied, form, lastReturn, trail, released, org, standIn, chain>>

(* The requester edits a draft or returned document (epms-api, expense-api *)
(* and vms-api's zone snapshot), which may move it across the budget line, *)
(* across departments or to another zone.                                  *)
EditForm ==
  /\ status \in Submittable
  /\ form' \in Forms \ {form}
  /\ UNCHANGED <<status, step, applied, tasks, lastReturn, trail, released,
                 org, standIn, chain>>

-----------------------------------------------------------------------------
(* Re-sync of an in-flight document to the current configuration.  `seen`  *)
(* is what the re-sync read: [status, step, wf, tasks].  The session       *)
(* writes back a column only when the new value differs from the one read. *)
(* A PO sign-off's tasks are `sign_po`, which the re-sync does not look at.*)

Now == [status |-> status, step |-> step, wf |-> Workflow,
        tasks |-> IF DocType = "posign" THEN {} ELSE OpenApprovals]

Written(read, new, current) == IF new = read THEN current ELSE new

(* The step the open tasks say the document is at; -1: leave it alone. *)
TrueStep(seen) ==
  LET mapped == {StepIndexForTaskRole(seen.wf, t.role, seen.step) : t \in seen.tasks} \ {-1}
  IN  IF seen.tasks = {} THEN IF seen.step < Len(seen.wf) THEN seen.step ELSE -1
      ELSE IF mapped = {} THEN -1
      ELSE CHOOSE i \in mapped : \A j \in mapped : i <= j

(* Not in flight any more: complete the approval tasks left open. *)
ResyncFinished(seen) ==
  /\ seen.status \notin InFlight
  /\ seen.tasks # {}
  /\ tasks' = tasks \ seen.tasks
  /\ UNCHANGED <<status, step, trail, released>>

(* Mutant: approves a claim only its claimant is left to approve. *)
ResyncSkipToEnd(seen) ==
  LET wf == seen.wf
      at == TrueStep(seen)
  IN /\ seen.status \in InFlight
     /\ at # -1
     /\ SkippedAtSubmit(At(wf, at))
     /\ \E n \in at + 1 .. Len(wf) :
          /\ \A i \in at .. n - 1 : SkippedAtSubmit(At(wf, i))
          /\ n < Len(wf) => ~ SkippedAtSubmit(At(wf, n))
          /\ Advance(wf, n)
          /\ step' = Written(seen.step, n, step)
          /\ status' = IF n < Len(wf) THEN "in_review" ELSE GrantedStatus(DocType)
          /\ trail' = trail \cup {SkipEvent(wf, i) : i \in at .. n - 1}

(* Where a re-sync takes a document whose true step is skipped now: on to  *)
(* the next step that is not, past the end only over steps no claimant is  *)
(* left with.                                                              *)
SkipsTo(seen, n) ==
  LET wf == seen.wf
      at == TrueStep(seen)
  IN /\ seen.status \in InFlight
     /\ at # -1
     /\ SkippedAtSubmit(At(wf, at))
     /\ n \in at + 1 .. Len(wf)
     /\ \A i \in at .. n - 1 : SkippedAtSubmit(At(wf, i))
     /\ n < Len(wf) => ~ SkippedAtSubmit(At(wf, n))
     /\ n = Len(wf) => \A i \in at .. n - 1 : StepSkip(At(wf, i), org, form)

(* Case A. *)
ResyncSkip(seen) ==
  LET wf == seen.wf
  IN \E n \in 1 .. Len(wf) :
       /\ SkipsTo(seen, n)
       /\ Advance(wf, n)
       /\ step' = Written(seen.step, n, step)
       /\ status' = Written(seen.status,
                            IF n < Len(wf) THEN "in_review" ELSE GrantedStatus(DocType), status)
       /\ trail' = trail \cup {SkipEvent(wf, i) : i \in TrueStep(seen) .. n - 1}

(* Mutant: a reissue is due only for tasks of another step. *)
StrayTasks(seen, node, at) ==
  \E t \in seen.tasks : StepIndexForTaskRole(seen.wf, t.role, at) # at

(* Case C: do the open tasks no longer suit the true step? *)
Drifted(seen, node, at) ==
  LET stray    == \E t \in seen.tasks : StepIndexForTaskRole(seen.wf, t.role, at) # at
      assigned == {t.user : t \in seen.tasks}
  IN  IF node.role = "zone_manager" /\ DocType = "vms_visit"
      THEN form.zone # {} /\ (stray \/ assigned # form.zone)
      ELSE IF node.role \in PinnedRoles
      THEN LET desired == StepHolders(node.role, org, form, FALSE)
           IN  desired # {} /\ (stray \/ assigned \cap desired = {})
      ELSE stray \/ assigned # {NoUser}

(* Mutants: a reissue that leaves the old tasks open, and one that writes  *)
(* the status it read.                                                     *)
ResyncRealignAdds(seen) ==
  LET wf == seen.wf
      at == TrueStep(seen)
  IN /\ seen.status \in InFlight
     /\ at # -1
     /\ ~ SkippedAtSubmit(At(wf, at))
     /\ Drifted(seen, At(wf, at), at)
     /\ tasks' = tasks \cup StepTasks(At(wf, at), org, form)
     /\ UNCHANGED <<status, step, trail, released>>

ResyncRealignReopens(seen) ==
  LET wf == seen.wf
      at == TrueStep(seen)
  IN /\ seen.status \in InFlight
     /\ at # -1
     /\ ~ SkippedAtSubmit(At(wf, at))
     /\ Drifted(seen, At(wf, at), at)
     /\ tasks' = StepTasks(At(wf, at), org, form)
     /\ status' = seen.status
     /\ UNCHANGED <<step, trail, released>>

(* Whether its index or its tasks are to be put right. *)
Realigns(seen) ==
  LET at == TrueStep(seen)
  IN /\ seen.status \in InFlight
     /\ at # -1
     /\ ~ SkippedAtSubmit(At(seen.wf, at))
     /\ seen.step # at \/ Drifted(seen, At(seen.wf, at), at)

(* Cases B and C: move the index to the true step, reissue drifted tasks. *)
ResyncRealign(seen) ==
  LET at   == TrueStep(seen)
      node == At(seen.wf, at)
  IN /\ Realigns(seen)
     /\ step' = Written(seen.step, at, step)
     /\ tasks' = IF Drifted(seen, node, at) THEN StepTasks(node, org, form) ELSE tasks
     /\ UNCHANGED <<status, trail, released>>

ResyncFrom(seen) ==
  /\ ResyncFinished(seen) \/ ResyncSkip(seen) \/ ResyncRealign(seen)
  /\ UNCHANGED <<applied, form, lastReturn, org, standIn, chain>>

Resync == ResyncFrom(Now)

-----------------------------------------------------------------------------
(* Configuration, saved by administrators while the document moves.  Each  *)
(* save is followed by a best-effort Resync, which is its own action       *)
(* because the save has committed before it and it may fail.               *)

Reconfigured(fields) ==
  {o \in Orgs \ {org} : \A f \in DOMAIN org \ fields : o[f] = org[f]}

(* PUT /routing: the department's GM/OPM choice, Director, Supervisor      *)
(* switch, and the post for cross-department payments.                     *)
SaveRouting ==
  /\ org' \in Reconfigured({"gmOrOpm", "crossPost", "director", "supervisor"})
  /\ UNCHANGED <<doc, standIn, chain>>

(* A person gets or loses a post, changes department or is deactivated. *)
AssignHolders ==
  /\ org' \in Reconfigured({"posts", "manager", "director", "supervisor"})
  /\ UNCHANGED <<doc, standIn, chain>>

(* Budget Config's over-budget mode. *)
SaveBudgetConfig ==
  /\ org' \in Reconfigured({"obMode"})
  /\ UNCHANGED <<doc, standIn, chain>>

(* A delegation starts, ends or is revoked. *)
ChangeDelegation ==
  /\ standIn' \in Delegates \ {standIn}
  /\ UNCHANGED <<doc, org, chain>>

-----------------------------------------------------------------------------
Next ==
  \/ Submit
  \/ \E u \in Users : Approve(u) \/ Return(u) \/ Reject(u) \/ Recall(u) \/ Cancel(u)
  \/ EditForm
  \/ Resync
  \/ SaveRouting \/ AssignHolders \/ SaveBudgetConfig \/ ChangeDelegation

Spec == Init /\ [][Next]_vars

-----------------------------------------------------------------------------
(* Properties. *)

(* Chains in which a GM or OPM task names its step: the re-sync reads such *)
(* a task as one of a gm_or_opm step, so plain gm or opm steps have none   *)
(* beside them, and none of the over-budget ones in front.                 *)
UnambiguousChains ==
  \A c \in Chains : (\E i \in Indexes(c) : At(c, i).role \in {"gm", "opm"}) =>
    DocType # "pr" /\ \A i \in Indexes(c) : At(c, i).role # "gm_or_opm"

(* Chains whose last step no rule skips for being unassigned, so that no   *)
(* submission skips its whole list; every default chain is one.            *)
EndsUnskipped ==
  \A c \in Chains :
    /\ At(c, Len(c) - 1).role \notin {"director", "supervisor", "zone_manager"}
    /\ At(c, Len(c) - 1).role = "dept_manager" => DocType # "pa"

GmOrOpmLevel == {"gm_or_opm", "gm", "opm"}

(* Payment chains with a step at GM/OPM level, as the default ones of      *)
(* payments and of courier freight have.                                   *)
GmOrOpmListed ==
  DocType = "pa" => \A c \in Chains : \E i \in Indexes(c) : At(c, i).role \in GmOrOpmLevel

(* Documents none of whose steps any rule skips for a vacancy or for their *)
(* claimant, as purchase orders, sign-offs and agreements are under their  *)
(* default chains.                                                         *)
NothingSkipped ==
  /\ DocType \notin {"pr", "pa"} /\ ~ IsClaim(DocType)
  /\ \A c \in Chains : \A i \in Indexes(c) :
       At(c, i).role \notin {"director", "supervisor", "zone_manager"}

(* The document's row, tasks and history and the configuration stay of     *)
(* their types: the step index is never negative, a task has a known role. *)
TypeOK ==
  /\ status \in Statuses
  /\ step \in Nat
  /\ applied \in AppliedModes
  /\ form \in Forms
  /\ tasks \subseteq Tasks
  /\ lastReturn \in Nat \cup {-1}
  /\ trail \subseteq [step : Nat, node : Nodes \cup {NoNode}, how : Hows]
  /\ released \in Nat
  /\ org \in Orgs
  /\ standIn \in Delegates
  /\ chain \in Chains

Cleared(wf, i) == \E how \in Hows : Event(wf, i, how) \in trail

Granted == status \in {"approved", "active"}

(* No step is jumped: whatever the returns, recalls, budget crossings,     *)
(* skips and re-syncs on the way, an in-flight document is at a step of    *)
(* its list and every step before it was signed or visibly skipped in this *)
(* run, as that very node; an approved one has the whole list cleared.     *)
EveryStepCleared ==
  /\ status \in InFlight =>
       /\ step \in Indexes(Workflow)
       /\ \A i \in 0 .. step - 1 : Cleared(Workflow, i)
  /\ Granted => \A i \in Indexes(Workflow) : Cleared(Workflow, i)

(* What a returned document carries back for its resubmission. *)
ReturnCleared ==
  status = "returned" =>
    LET wf == WorkflowUnder(applied)
    IN  /\ applied # "unset" \/ DocType # "pr"
        /\ lastReturn \in Indexes(wf)
        /\ \A i \in 0 .. lastReturn - 1 : Cleared(wf, i)

(* A document waiting for approval has an open approval task and all of    *)
(* them belong to the step it waits at; a document that is not waiting has *)
(* none, so no inbox shows an approval that would be refused.              *)
TaskAtPendingStep ==
  IF status \in InFlight
  THEN /\ OpenApprovals # {}
       /\ \A t \in OpenApprovals : ServesStep(t, StepRole)
  ELSE OpenApprovals = {}

(* The mode a purchase request's approval run walks is known from its      *)
(* submission on: Budget Config is not asked again (ob_mode_applied).      *)
ModeFrozen ==
  DocType = "pr" /\ (status \in InFlight \/ Granted) => applied # "unset"

(* Inductive: what the engine needs of a document to keep every step       *)
(* cleared through returns, budget crossings and re-syncs.                 *)
StepsInv ==
  TypeOK /\ EveryStepCleared /\ ReturnCleared /\ TaskAtPendingStep /\ ModeFrozen

(* The post-approval effect (the next task, the reimbursement, the         *)
(* agreement's activation) ran for a document exactly when it is approved, *)
(* and only once, whichever of approve and re-sync granted it.             *)
ReleasedOnce ==
  released = IF status = GrantedStatus(DocType) /\ HasPostEffect(DocType) THEN 1 ELSE 0

(* The list an approval run walks is frozen at submission: Budget Config   *)
(* may change at any time without moving a step of a document in flight.   *)
ListFrozenInFlight ==
  [][(status \in InFlight /\ status' \in InFlight) => Workflow' = Workflow]_vars

(* A step is skipped as conditional only for its own reason: an            *)
(* over-budget step once Budget Config was loosened past it (hard_block    *)
(* never waives), a department step of a cross-department payment, an      *)
(* unassigned Director or Supervisor, a zone without managers.  An empty   *)
(* company post waits.                                                     *)
Warranted(node) ==
  \/ node.ob /\ \/ org.obMode = "allow"
                \/ org.obMode = "fm_only" /\ node.role = "gm_or_opm"
  \/ node.role = "dept_manager" /\ CrossDept(form)
  \/ node.role = "director" /\ (CrossDept(form) \/ org.director = NoUser)
  \/ node.role = "supervisor" /\ org.supervisor = NoUser
  \/ node.role = "zone_manager" /\ form.zone = {}

SkipsWarranted ==
  [][\A e \in trail' \ trail : e.how = "conditional" => Warranted(e.node)]_vars

(* No document is approved without somebody's signature, not even a claim  *)
(* whose claimant comes to hold its steps while re-syncs skip the others.  *)
GrantedWasSigned == Granted => \E e \in trail : e.how = "signed"

(* A payment covering several departments is never approved below GM/OPM   *)
(* level: the departments' own steps step aside only because a GM or OPM   *)
(* step is signed, or skipped for a signer the engine takes to hold it,    *)
(* also when the payment became one after a return.                        *)
CrossDeptApprovedAbove ==
  CrossDept(form) /\ Granted =>
    \E e \in trail : e.node.role \in GmOrOpmLevel /\ e.how \in {"signed", "same_approver"}

(* A visit waiting for its zone has one task per manager of the zone, the  *)
(* form's snapshot, across re-syncs and changes of the organisation.       *)
EveryZoneManagerAsked ==
  status \in InFlight /\ StepRole = "zone_manager" =>
    {t.user : t \in OpenApprovals} = form.zone

(* No late step, of whatever actor, takes a decision back: what is         *)
(* approved, rejected or cancelled stays so.                               *)
Decided == Granted \/ status \in {"rejected", "cancelled"}

DecisionsStand == [][Decided => status' = status]_vars

(* A document is in line with the configuration when its pending step is   *)
(* not one to skip and its tasks are those a fresh routing would create.   *)
Aligned ==
  status \in InFlight =>
    /\ ~ SkippedAtSubmit(At(Workflow, step))
    /\ OpenApprovals = StepTasks(At(Workflow, step), org, form)

(* A re-sync that changes a document leaves it in line. *)
ResyncAligns == [][Resync => Aligned']_vars

(* What no re-sync repairs: a manager's step to come in a department       *)
(* without one; a step at GM/OPM level whose post was changed in the       *)
(* routing, since a task for either post passes for the step's; a claim    *)
(* whose claimant alone is left with the steps to come, or alone holds the *)
(* plain GM or OPM post it waits for.                                      *)
BeyondResync ==
  LET ahead == {At(Workflow, i) : i \in step .. Len(Workflow) - 1}
      skipped == SkippedAtSubmit(At(Workflow, step))
  IN  \/ \E node \in ahead : ~ Routable(node, org)
      \/ StepRole = "gm_or_opm" /\ ~ skipped
      \/ /\ \A node \in ahead : SkippedAtSubmit(node)
         /\ \E node \in ahead : ~ StepSkip(node, org, form)
      \/ StepRole \in {"gm", "opm"} /\ skipped

(* A re-sync sees every document out of line with the configuration, but   *)
(* for those beyond it: it has tasks to reissue, or a step to skip to that *)
(* can be routed.                                                          *)
ResyncSeesDrift ==
  \/ Aligned \/ BeyondResync
  \/ Realigns(Now)
  \/ \E n \in 1 .. Len(Workflow) :
       SkipsTo(Now, n) /\ (n < Len(Workflow) => Routable(At(Workflow, n), org))

-----------------------------------------------------------------------------
(* The engine implements ApprovalLifecycle: the steps below the index are  *)
(* the settled ones, those below the returning step while the document is  *)
(* back with its requester, all of them once it is approved.               *)

Phase ==
  CASE status \in Submittable -> "open"
    [] status \in InFlight    -> "pending"
    [] Granted                -> "granted"
    [] OTHER                  -> "refused"

WalkedList ==
  CASE status = "returned"            -> WorkflowUnder(applied)
    [] status \in InFlight \/ Granted -> Workflow
    [] OTHER                          -> <<>>

Settled ==
  CASE status = "returned"   -> lastReturn
    [] status \in InFlight  -> step
    [] Granted              -> Len(Workflow)
    [] OTHER                -> 0

RunLists == {ObPrefix(m) \o c : m \in AppliedModes, c \in Chains}

Lifecycle == INSTANCE ApprovalLifecycle
  WITH phase <- Phase, list <- WalkedList, done <- Settled, Lists <- RunLists

(* Every engine step is a lifecycle step or changes nothing of it: approval *)
(* moves forward through one frozen list and is granted only at its end,   *)
(* a return keeps exactly the cleared front, decided documents stay so.    *)
ImplementsLifecycle == Lifecycle!Spec

=============================================================================
