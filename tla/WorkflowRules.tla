---------------------------- MODULE WorkflowRules ----------------------------
(***************************************************************************)
(* The rules of the UniOps approval engine that only read: which statuses  *)
(* an action accepts, who holds a step, when a step is skipped, to whom a  *)
(* step is assigned.  They are the helpers of approval-api's               *)
(* app/crud/engine.py, as operators of the organisation `o` (posts,        *)
(* department routing, Budget Config), of the document's form `f` (what    *)
(* its requester filled in) and of a workflow node.                        *)
(*                                                                         *)
(* A workflow node is a record [role, ob]; `ob` stands for the node ids    *)
(* ob_finance_manager and ob_gm_or_opm, the over-budget steps the engine   *)
(* injects in front of a purchase request's own chain.  Step indexes are   *)
(* the code's, from 0; At(wf, i) is workflow[i].                           *)
(***************************************************************************)
EXTENDS Integers, Sequences

CONSTANTS
  Users,      \* the people
  NoUser,     \* SQL NULL where a user id is expected
  DocType,    \* the document's action key in _DOC_META
  Creator,    \* doc.created_by: the requester or claimant
  TokenRole   \* the role each user's access token carries

DocTypes == {"pr", "po", "posign", "agr", "pa", "pa_dir", "exp", "mil", "trv",
             "tra", "cfm", "vms_visit", "budget_plan"}

(* Company posts, held by whoever users.role / user_roles says; then the   *)
(* steps one person (or the zone's managers) is looked up for.             *)
PostRoles == {"gm", "opm", "vendor_manager", "finance_manager",
              "procurement_manager", "finance_director", "finance_bp"}
PinnedRoles == {"dept_manager", "director", "supervisor", "zone_manager"}
Roles == PostRoles \cup PinnedRoles \cup {"gm_or_opm"}

Nodes == [role : Roles, ob : BOOLEAN]
At(wf, i) == wf[i + 1]
Indexes(wf) == 0 .. Len(wf) - 1

RulesAssumption ==
  /\ NoUser \notin Users
  /\ DocType \in DocTypes
  /\ Creator \in Users
  /\ TokenRole \in [Users -> STRING]

-----------------------------------------------------------------------------
(* Statuses, and which of them each action accepts, by the document's type *)
(* where the code looks them up by it.                                     *)

(* Mutant: an approved document still accepts an approval. *)
InFlightApprovedToo == {"submitted", "in_review", "approved"}

InFlight == {"submitted", "in_review"}
Submittable == {"draft", "returned"}
Statuses == InFlight \cup Submittable
              \cup {"approved", "active", "rejected", "cancelled"}

(* Mutant: an approved document can be withdrawn. *)
CancellableApprovedToo(type) == Submittable \cup {"submitted", "approved"}

Cancellable(type) ==
  CASE type \in {"pr", "po", "posign", "agr"} -> Submittable \cup {"submitted"}
    [] type = "vms_visit"                  -> Submittable \cup InFlight
    [] OTHER                               -> Submittable

IsClaim(type) == type \in {"exp", "mil", "trv", "tra", "cfm"}

RejectedStatus(type) == IF type \in {"pa", "pa_dir"} THEN "cancelled" ELSE "rejected"

(* What the last approval leaves behind: _POST_APPROVE activates an        *)
(* agreement and, for most other types, opens the next task.               *)
(* Mutant: the status payments once ended in. *)
GrantedAsProcessed(type) == "processed"

GrantedStatus(type) == IF type = "agr" THEN "active" ELSE "approved"
HasPostEffect(type) == type \notin {"posign", "tra"}

-----------------------------------------------------------------------------
(* Over-budget pre-approval of purchase requests. *)

BudgetModes == {"fm_gm_opm", "fm_only", "allow", "hard_block"}
AppliedModes == BudgetModes \cup {"none", "unset"}   \* "unset": NULL

ObFinanceManager == [role |-> "finance_manager", ob |-> TRUE]
ObGmOrOpm        == [role |-> "gm_or_opm", ob |-> TRUE]

ObPrefix(mode) ==
  CASE mode = "fm_gm_opm" -> <<ObFinanceManager, ObGmOrOpm>>
    [] mode = "fm_only"   -> <<ObFinanceManager>>
    [] OTHER              -> <<>>

SubmissionMode(f, status, applied, o) ==
  LET live == IF f.overBudget THEN o.obMode ELSE "none"
  IN  IF /\ status = "returned"
         /\ applied # "unset"
         /\ (applied = "none") <=> (live = "none")
      THEN applied ELSE live

(* Mutant: hard_block waives like the modes without steps. *)
ObStepWaivedByBlock(node, o) ==
  node.ob /\ \A i \in Indexes(ObPrefix(o.obMode)) : At(ObPrefix(o.obMode), i) # node

ObStepWaived(node, o) ==
  /\ node.ob
  /\ o.obMode # "hard_block"
  /\ \A i \in Indexes(ObPrefix(o.obMode)) : At(ObPrefix(o.obMode), i) # node

-----------------------------------------------------------------------------
(* Who holds a step, and who may act on it. *)

CrossDept(f) == DocType = "pa" /\ f.crossDept

GmOrOpmPost(o, cross) == IF cross THEN o.crossPost ELSE o.gmOrOpm

StepHolders(role, o, f, cross) ==
  CASE role = "zone_manager" -> f.zone
    [] role = "dept_manager" -> {o.manager} \ {NoUser}
    [] role = "director"     -> {o.director} \ {NoUser}
    [] role = "supervisor"   -> {o.supervisor} \ {NoUser}
    [] role = "gm_or_opm"    -> o.posts[GmOrOpmPost(o, cross)]
    [] role \in PostRoles    -> o.posts[role]
    [] OTHER                 -> {}

ActorCanApprove(u, role, o, f, standIn) ==
  LET holders == StepHolders(role, o, f, CrossDept(f))
  IN  \/ TokenRole[u] = "system_admin"
      \/ u \in holders
      \/ \E h \in holders : standIn[h] = u
      \/ /\ role \in PostRoles \ {"finance_bp"}
         /\ TokenRole[u] = role
         /\ o.posts[role] = {}

-----------------------------------------------------------------------------
(* When a step is skipped. *)

(* Mutant: a cross-department payment sheds its gm_or_opm step as well. *)
ShouldSkipGmOrOpmToo(role, o, f) ==
  \/ CrossDept(f) /\ role \in {"dept_manager", "director", "gm_or_opm"}
  \/ role = "director" /\ o.director = NoUser
  \/ role = "supervisor" /\ o.supervisor = NoUser

ShouldSkipStep(role, o, f) ==
  \/ CrossDept(f) /\ role \in {"dept_manager", "director"}
  \/ DocType = "vms_visit" /\ role = "zone_manager" /\ f.zone = {}
  \/ role = "director" /\ o.director = NoUser
  \/ role = "supervisor" /\ o.supervisor = NoUser

StepSkip(node, o, f) ==
  \/ DocType = "pr" /\ ObStepWaived(node, o)
  \/ ShouldSkipStep(node.role, o, f)

ClaimantStepSkip(node, o, f) ==
  IsClaim(DocType) /\ StepHolders(node.role, o, f, CrossDept(f)) = {Creator}

(* The walk at approval asks "does the actor hold this step too" without   *)
(* the cross-department flag.                                              *)
SameApproverSkip(u, node, o, f) == u \in StepHolders(node.role, o, f, FALSE)

-----------------------------------------------------------------------------
(* To whom a step is assigned: its approval tasks.  A task without a user  *)
(* is broadcast to whoever holds its role.                                 *)

ApproveTask(role, u) == [kind |-> "approve", role |-> role, user |-> u]
ReviseTask == [kind |-> "revise", role |-> "requester", user |-> Creator]
Tasks == [kind : {"approve"}, role : Roles, user : Users \cup {NoUser}]
           \cup {ReviseTask}

Routable(node, o) == node.role = "dept_manager" => o.manager # NoUser

(* Mutant: one task for the first of the zone's managers. *)
StepTasksFirstManager(node, o, f) ==
  CASE node.role = "dept_manager" -> {ApproveTask(node.role, o.manager)}
    [] node.role = "zone_manager" /\ f.zone # {} ->
         {ApproveTask(node.role, CHOOSE m \in f.zone : TRUE)}
    [] OTHER -> {ApproveTask(node.role, NoUser)}

StepTasks(node, o, f) ==
  CASE node.role = "gm_or_opm" -> {ApproveTask(GmOrOpmPost(o, CrossDept(f)), NoUser)}
    [] node.role = "dept_manager" -> {ApproveTask(node.role, o.manager)}
    [] node.role = "director"   -> {ApproveTask(node.role, o.director)}
    [] node.role = "supervisor" -> {ApproveTask(node.role, o.supervisor)}
    [] node.role = "zone_manager" /\ DocType = "vms_visit" /\ f.zone # {} ->
         {ApproveTask(node.role, m) : m \in f.zone}
    [] OTHER -> {ApproveTask(node.role, NoUser)}

(* Whether a task is one of a step's: its role is the step's, or the post  *)
(* a gm_or_opm step resolved to.                                           *)
ServesStep(t, role) ==
  \/ t.role = role
  \/ role = "gm_or_opm" /\ t.role \in {"gm", "opm"}

(* The step a task's role belongs to, -1 for none: the stored step when    *)
(* its role matches, else the first node that does.  Every GM or OPM task  *)
(* counts as a gm_or_opm one.                                              *)
StepIndexForTaskRole(wf, taskRole, prefer) ==
  LET target  == IF taskRole \in {"gm", "opm", "gm_or_opm"} THEN "gm_or_opm" ELSE taskRole
      matches == {i \in Indexes(wf) : At(wf, i).role = target}
  IN  IF prefer \in matches THEN prefer
      ELSE IF matches = {} THEN -1
      ELSE CHOOSE i \in matches : \A j \in matches : i <= j

=============================================================================
