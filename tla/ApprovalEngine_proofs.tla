------------------------ MODULE ApprovalEngine_proofs ------------------------
(***************************************************************************)
(* Theorems about the approval engine, for every type of document, set of  *)
(* people, organisations, forms, delegations and chains.                   *)
(***************************************************************************)
EXTENDS ApprovalRace, SequenceTheorems, SumLemmas

-----------------------------------------------------------------------------
(* What the rules of WorkflowRules return, for every organisation, form    *)
(* and chain.                                                              *)

(* The over-budget steps of a mode are workflow nodes, none of them on a   *)
(* plain GM or OPM post.                                                   *)
LEMMA PrefixType ==
  ASSUME NEW mode
  PROVE  /\ ObPrefix(mode) \in Seq(Nodes)
         /\ \A i \in 1 .. Len(ObPrefix(mode)) :
              ObPrefix(mode)[i].role \notin {"gm", "opm"}
<1>1. ObFinanceManager \in Nodes /\ ObGmOrOpm \in Nodes
  BY DEF ObFinanceManager, ObGmOrOpm, Nodes, Roles, PostRoles
<1>2. ObFinanceManager.role \notin {"gm", "opm"} /\ ObGmOrOpm.role \notin {"gm", "opm"}
  BY DEF ObFinanceManager, ObGmOrOpm
<1>3. CASE mode = "fm_gm_opm"
  BY <1>1, <1>2, <1>3 DEF ObPrefix
<1>4. CASE mode = "fm_only"
  BY <1>1, <1>2, <1>4 DEF ObPrefix
<1>5. CASE mode \notin {"fm_gm_opm", "fm_only"}
  BY <1>5 DEF ObPrefix
<1> QED
  BY <1>3, <1>4, <1>5

(* An index of a list is in front of its end and names a node of it. *)
LEMMA NodeAt ==
  ASSUME NEW S, NEW wf \in Seq(S), NEW i \in Indexes(wf)
  PROVE  i \in Nat /\ i < Len(wf) /\ At(wf, i) \in S
<1>1. Len(wf) \in Nat
  BY LenProperties
<1>2. i \in Nat /\ i < Len(wf) /\ i + 1 \in 1 .. Len(wf)
  BY <1>1 DEF Indexes
<1> QED
  BY <1>2, ElementOfSeq DEF At

(* A submission never freezes the absence of a mode. *)
LEMMA SubmissionModeSet ==
  ASSUME NEW f, NEW st, NEW ap \in AppliedModes, NEW o,
         o.obMode \in BudgetModes
  PROVE  /\ SubmissionMode(f, st, ap, o) \in AppliedModes
         /\ SubmissionMode(f, st, ap, o) # "unset"
BY DEF SubmissionMode, AppliedModes, BudgetModes

-----------------------------------------------------------------------------
(* The tasks of a step are at least one, all of them approvals, all of     *)
(* them the step's.                                                        *)
LEMMA StepTasksServe ==
  ASSUME NEW node \in Nodes, NEW o, NEW f,
         o.gmOrOpm \in {"gm", "opm"}, o.crossPost \in {"gm", "opm"}
  PROVE  /\ StepTasks(node, o, f) # {}
         /\ \A t \in StepTasks(node, o, f) :
              t.kind = "approve" /\ ServesStep(t, node.role)
<1> DEFINE Serves(T) == T # {} /\ \A t \in T : t.kind = "approve" /\ ServesStep(t, node.role)
<1>1. GmOrOpmPost(o, CrossDept(f)) \in {"gm", "opm"}
  BY DEF GmOrOpmPost
<1>2. \A u : Serves({ApproveTask(node.role, u)})
  BY DEF ApproveTask, ServesStep
<1>3. CASE node.role = "gm_or_opm"
  <2>1. StepTasks(node, o, f) = {ApproveTask(GmOrOpmPost(o, CrossDept(f)), NoUser)}
    BY <1>3 DEF StepTasks
  <2>2. Serves({ApproveTask(GmOrOpmPost(o, CrossDept(f)), NoUser)})
    BY <1>1, <1>3 DEF ApproveTask, ServesStep
  <2> QED
    BY <2>1, <2>2
<1>4. CASE node.role = "zone_manager" /\ DocType = "vms_visit" /\ f.zone # {}
  <2>1. StepTasks(node, o, f) = {ApproveTask(node.role, m) : m \in f.zone}
    BY <1>4 DEF StepTasks
  <2>2. PICK m \in f.zone : TRUE
    BY <1>4
  <2>3. ApproveTask(node.role, m) \in StepTasks(node, o, f)
    BY <2>1, <2>2
  <2>4. ASSUME NEW t \in StepTasks(node, o, f)
        PROVE  t.kind = "approve" /\ ServesStep(t, node.role)
    <3>1. PICK u : t = ApproveTask(node.role, u)
      BY <2>1
    <3> QED
      BY <3>1 DEF ApproveTask, ServesStep
  <2> QED
    BY <2>3, <2>4
<1>5. CASE /\ node.role # "gm_or_opm"
           /\ ~ (node.role = "zone_manager" /\ DocType = "vms_visit" /\ f.zone # {})
  <2>1. \E u : StepTasks(node, o, f) = {ApproveTask(node.role, u)}
    BY <1>5 DEF StepTasks
  <2> QED
    BY <1>2, <2>1
<1> QED
  BY <1>3, <1>4, <1>5

LEMMA StepTasksType ==
  ASSUME NEW node \in Nodes, NEW o, NEW f,
         o.gmOrOpm \in {"gm", "opm"}, o.crossPost \in {"gm", "opm"},
         o.manager \in Users \cup {NoUser}, o.director \in Users \cup {NoUser},
         o.supervisor \in Users \cup {NoUser}, f.zone \subseteq Users
  PROVE  StepTasks(node, o, f) \subseteq Tasks
<1>1. GmOrOpmPost(o, CrossDept(f)) \in Roles
  BY DEF GmOrOpmPost, Roles, PostRoles
<1>2. node.role \in Roles
  BY DEF Nodes
<1>3. \A r \in Roles, u \in Users \cup {NoUser} : ApproveTask(r, u) \in Tasks
  BY DEF ApproveTask, Tasks
<1>4. CASE node.role = "zone_manager"
  BY <1>2, <1>3, <1>4 DEF StepTasks
<1>5. CASE node.role # "zone_manager"
  BY <1>1, <1>2, <1>3, <1>5 DEF StepTasks
<1> QED
  BY <1>4, <1>5

(* The step a task's role is read as is an index of the list, or none. *)
LEMMA StepIndexRange ==
  ASSUME NEW S, NEW wf \in Seq(S), NEW role, NEW prefer
  PROVE  StepIndexForTaskRole(wf, role, prefer) \in Indexes(wf) \cup {-1}
<1> DEFINE target  == IF role \in {"gm", "opm", "gm_or_opm"} THEN "gm_or_opm" ELSE role
           matches == {i \in Indexes(wf) : At(wf, i).role = target}
<1>1. matches # {} => \E i \in matches : \A j \in matches : i <= j
  <2>1. matches \subseteq Nat
    BY LenProperties DEF Indexes
  <2> HIDE DEF matches
  <2> QED
    BY <2>1, LeastNatural
<1>2. StepIndexForTaskRole(wf, role, prefer) =
        IF prefer \in matches THEN prefer
        ELSE IF matches = {} THEN -1 ELSE CHOOSE i \in matches : \A j \in matches : i <= j
  BY Zenon DEF StepIndexForTaskRole
<1>3. matches \subseteq Indexes(wf)
  OBVIOUS
<1> HIDE DEF matches
<1> QED
  BY <1>1, <1>2, <1>3

(* A task that serves the step a document waits at is read back as that    *)
(* very step, unless it is a GM or OPM task of a plain post, which is read *)
(* as a gm_or_opm one and, where there is none, belongs nowhere.           *)
LEMMA TaskNamesStep ==
  ASSUME NEW wf \in Seq(Nodes), NEW at \in Indexes(wf), NEW t,
         ServesStep(t, At(wf, at).role),
         At(wf, at).role \in {"gm", "opm"} =>
           \A i \in Indexes(wf) : At(wf, i).role # "gm_or_opm"
  PROVE  StepIndexForTaskRole(wf, t.role, at) \in {at, -1}
<1>1. CASE At(wf, at).role \in {"gm", "opm"}
  <2>1. t.role = At(wf, at).role
    BY <1>1 DEF ServesStep
  <2>2. {i \in Indexes(wf) : At(wf, i).role = "gm_or_opm"} = {}
    BY <1>1
  <2> QED
    BY <1>1, <2>1, <2>2 DEF StepIndexForTaskRole
<1>2. CASE At(wf, at).role \notin {"gm", "opm"}
  BY <1>2 DEF StepIndexForTaskRole, ServesStep
<1> QED
  BY <1>1, <1>2

-----------------------------------------------------------------------------
(* Types. *)

EventType == [step : Nat, node : Nodes \cup {NoNode}, how : Hows]

LEMMA Configured ==
  /\ \A o \in Orgs :
       /\ o.manager \in Users \cup {NoUser}
       /\ o.director \in Users \cup {NoUser}
       /\ o.supervisor \in Users \cup {NoUser}
       /\ o.gmOrOpm \in {"gm", "opm"} /\ o.crossPost \in {"gm", "opm"}
       /\ o.obMode \in BudgetModes
  /\ \A f \in Forms : f.zone \subseteq Users
<1>1. Orgs \subseteq OrgType /\ Forms \subseteq FormType
  BY EngineHolds DEF EngineAssumption
<1> QED
  BY <1>1 DEF OrgType, FormType

(* A saved chain is a list of nodes without over-budget steps. *)
LEMMA ChainType ==
  ASSUME NEW c \in Chains
  PROVE  c \in Seq(Nodes) /\ Len(c) > 0
<1>1. c \in Seq([role : Roles, ob : {FALSE}]) /\ Len(c) > 0
  BY EngineHolds DEF EngineAssumption
<1>2. [role : Roles, ob : {FALSE}] \subseteq Nodes
  BY DEF Nodes
<1> QED
  BY <1>1, <1>2, SeqMonotonic

LEMMA WorkflowType ==
  ASSUME chain \in Chains, NEW mode
  PROVE  WorkflowUnder(mode) \in Seq(Nodes)
BY ChainType, PrefixType, ConcatProperties DEF WorkflowUnder

LEMMA StepTasksFacts ==
  ASSUME NEW node \in Nodes, NEW o \in Orgs, NEW f \in Forms
  PROVE  /\ StepTasks(node, o, f) \subseteq Tasks
         /\ StepTasks(node, o, f) # {}
         /\ \A t \in StepTasks(node, o, f) :
              t.kind = "approve" /\ ServesStep(t, node.role)
BY Configured, StepTasksType, StepTasksServe

LEMMA EventTyped ==
  ASSUME NEW wf \in Seq(Nodes), NEW i \in Nat, NEW how \in Hows
  PROVE  Event(wf, i, how) \in EventType
<1>1. CASE i < Len(wf)
  <2>1. i \in Indexes(wf)
    BY <1>1, LenProperties DEF Indexes
  <2> QED
    BY <1>1, <2>1, NodeAt DEF Event, EventType
<1>2. CASE ~ (i < Len(wf))
  BY <1>2 DEF Event, EventType
<1> QED
  BY <1>1, <1>2

(* A walked step leaves an event of its own. *)
LEMMA SkipEvents ==
  ASSUME NEW wf, NEW i
  PROVE  /\ \E how \in Hows : SkipEvent(wf, i) = Event(wf, i, how)
         /\ \A u : \E how \in Hows : SkipEventFor(u, wf, i) = Event(wf, i, how)
<1>1. \E how \in Hows : SkipEvent(wf, i) = Event(wf, i, how)
  BY DEF SkipEvent, Hows
<1> QED
  BY <1>1 DEF SkipEventFor, Hows

-----------------------------------------------------------------------------
(* Type correctness. *)

LEMMA TrailGrows ==
  ASSUME NEW wf \in Seq(Nodes), NEW S, S \subseteq Nat, NEW u
  PROVE  /\ {SkipEvent(wf, i) : i \in S} \subseteq EventType
         /\ {SkipEventFor(u, wf, i) : i \in S} \subseteq EventType
<1>1. ASSUME NEW i \in S
      PROVE  SkipEvent(wf, i) \in EventType /\ SkipEventFor(u, wf, i) \in EventType
  <2>1. i \in Nat
    OBVIOUS
  <2>2. PICK how \in Hows : SkipEvent(wf, i) = Event(wf, i, how)
    BY SkipEvents, Zenon
  <2>3. PICK by \in Hows : SkipEventFor(u, wf, i) = Event(wf, i, by)
    BY SkipEvents, Zenon
  <2> QED
    BY <2>1, <2>2, <2>3, EventTyped
<1> QED
  BY <1>1

LEMMA SubmissionStarts ==
  ASSUME TypeOK, NEW mode
  PROVE  /\ SubmissionStart(mode) \in Nat
         /\ SubmissionStart(mode) # 0 => SubmissionStart(mode) \in Indexes(WorkflowUnder(mode))
<1>1. Indexes(WorkflowUnder(mode)) \subseteq Nat
  BY WorkflowType, LenProperties DEF TypeOK, Indexes
<1> QED
  BY <1>1 DEF SubmissionStart

(* What a submission does, as far as the types and the cleared steps need. *)
LEMMA SubmitStep ==
  ASSUME TypeOK, Submit
  PROVE  LET mode == SubmissionMode(form, status, applied, org)
             wf   == WorkflowUnder(mode)
             from == SubmissionStart(mode)
         IN  /\ mode \in AppliedModes /\ mode # "unset"
             /\ wf \in Seq(Nodes) /\ from \in Nat
             /\ applied' = IF DocType = "pr" THEN mode ELSE applied
             /\ \E n \in Nat :
                  /\ from <= n /\ n <= Len(wf)
                  /\ status' = IF n < Len(wf) THEN "submitted" ELSE "approved"
                  /\ step' = n
                  /\ tasks' = IF n < Len(wf) THEN tasks \cup StepTasks(At(wf, n), org, form)
                              ELSE tasks
                  /\ trail' = {e \in trail : e.step < from}
                                \cup {SkipEvent(wf, i) : i \in from .. n - 1}
<1> DEFINE mode == SubmissionMode(form, status, applied, org)
           wf   == WorkflowUnder(mode)
           from == SubmissionStart(mode)
<1>1. mode \in AppliedModes /\ mode # "unset"
  BY SubmissionModeSet, Configured DEF TypeOK
<1>2. wf \in Seq(Nodes) /\ from \in Nat /\ Len(wf) \in Nat
  BY WorkflowType, SubmissionStarts, LenProperties DEF TypeOK
<1>3. PICK n \in from .. Len(wf) :
        /\ status' = IF n < Len(wf) THEN "submitted" ELSE "approved"
        /\ step' = n
        /\ applied' = IF DocType = "pr" THEN mode ELSE applied
        /\ tasks' = IF n < Len(wf) THEN tasks \cup StepTasks(At(wf, n), org, form)
                    ELSE tasks
        /\ trail' = {e \in trail : e.step < from}
                      \cup {SkipEvent(wf, i) : i \in from .. n - 1}
  BY Zenon DEF Submit
<1> HIDE DEF mode, wf, from
<1>4. n \in Nat /\ from <= n /\ n <= Len(wf)
  BY <1>2
<1>5. \E k \in Nat :
        /\ from <= k /\ k <= Len(wf)
        /\ status' = IF k < Len(wf) THEN "submitted" ELSE "approved"
        /\ step' = k
        /\ tasks' = IF k < Len(wf) THEN tasks \cup StepTasks(At(wf, k), org, form)
                    ELSE tasks
        /\ trail' = {e \in trail : e.step < from}
                      \cup {SkipEvent(wf, i) : i \in from .. k - 1}
  BY <1>3, <1>4, Zenon
<1> QED
  BY <1>1, <1>2, <1>3, <1>5, Zenon DEF mode, wf, from

(* What an approval does. *)
LEMMA ApproveStep ==
  ASSUME TypeOK, NEW u, Approve(u)
  PROVE  /\ status \in InFlight
         /\ \E n \in Nat :
              /\ step < n /\ (step < Len(Workflow) => n <= Len(Workflow))
              /\ step' = IF n < Len(Workflow) THEN n ELSE step
              /\ status' = IF n < Len(Workflow) THEN "in_review" ELSE GrantedStatus(DocType)
              /\ tasks' = IF n < Len(Workflow) THEN StepTasks(At(Workflow, n), org, form)
                          ELSE {}
              /\ released' \in {released, released + 1}
              /\ trail' = trail \cup {Event(Workflow, step, "signed")}
                            \cup {SkipEventFor(u, Workflow, i) : i \in step + 1 .. n - 1}
<1>1. step \in Nat /\ Len(Workflow) \in Nat
  BY WorkflowType, LenProperties DEF TypeOK, Workflow
<1>2. PICK n \in step + 1 .. IF step < Len(Workflow) THEN Len(Workflow) ELSE step + 1 :
        /\ Advance(Workflow, n)
        /\ step' = IF n < Len(Workflow) THEN n ELSE step
        /\ status' = IF n < Len(Workflow) THEN "in_review" ELSE GrantedStatus(DocType)
        /\ trail' = trail \cup {Event(Workflow, step, "signed")}
                      \cup {SkipEventFor(u, Workflow, i) : i \in step + 1 .. n - 1}
  BY Zenon DEF Approve
<1>3. n \in Nat /\ step < n /\ (step < Len(Workflow) => n <= Len(Workflow))
  BY <1>1, <1>2
<1>4. /\ tasks' = IF n < Len(Workflow) THEN StepTasks(At(Workflow, n), org, form) ELSE {}
      /\ released' \in {released, released + 1}
  BY <1>2, Zenon DEF Advance
<1>5. status \in InFlight
  BY DEF Approve
<1> QED
  BY <1>2, <1>3, <1>4, <1>5

(* The step a re-sync works on is one of the list, if it works on any. *)
LEMMA TrueStepRange ==
  ASSUME TypeOK
  PROVE  TrueStep(Now) \in Indexes(Workflow) \cup {-1}
<1> DEFINE open   == IF DocType = "posign" THEN {} ELSE OpenApprovals
           mapped == {StepIndexForTaskRole(Workflow, t.role, step) : t \in open} \ {-1}
<1>1. Workflow \in Seq(Nodes) /\ Len(Workflow) \in Nat /\ step \in Nat
  BY WorkflowType, LenProperties DEF TypeOK, Workflow
<1>2. mapped \subseteq Indexes(Workflow)
  BY <1>1, StepIndexRange
<1>3. mapped # {} => \E i \in mapped : \A j \in mapped : i <= j
  <2>1. mapped \subseteq Nat
    BY <1>1, <1>2 DEF Indexes
  <2> HIDE DEF mapped
  <2> QED
    BY <2>1, LeastNatural
<1>4. /\ Now.wf = Workflow /\ Now.step = step /\ Now.tasks = open
  BY DEF Now
<1>5. TrueStep(Now) =
        IF open = {} THEN IF step < Len(Workflow) THEN step ELSE -1
        ELSE IF mapped = {} THEN -1
        ELSE CHOOSE i \in mapped : \A j \in mapped : i <= j
  BY <1>4 DEF TrueStep
<1>6. step < Len(Workflow) => step \in Indexes(Workflow)
  BY <1>1 DEF Indexes
<1> HIDE DEF mapped, open
<1> QED
  BY <1>2, <1>3, <1>5, <1>6

(* What a re-sync does: complete tasks left open, skip steps, or put the   *)
(* index and the tasks at the step the tasks name.                         *)
LEMMA ResyncStep ==
  ASSUME TypeOK, Resync
  PROVE  /\ UNCHANGED <<applied, form, lastReturn, org, standIn, chain>>
         /\ \/ /\ status \notin InFlight
               /\ Now.tasks # {} /\ tasks' = tasks \ Now.tasks
               /\ UNCHANGED <<status, step, trail, released>>
            \/ /\ status \in InFlight
               /\ TrueStep(Now) \in Indexes(Workflow)
               /\ \E n \in Nat :
                    /\ TrueStep(Now) < n /\ n <= Len(Workflow)
                    /\ step' = n
                    /\ status' = IF n < Len(Workflow) THEN "in_review" ELSE GrantedStatus(DocType)
                    /\ tasks' = IF n < Len(Workflow)
                                THEN StepTasks(At(Workflow, n), org, form) ELSE {}
                    /\ released' \in {released, released + 1}
                    /\ trail' = trail \cup {SkipEvent(Workflow, i) : i \in TrueStep(Now) .. n - 1}
            \/ /\ status \in InFlight
               /\ TrueStep(Now) \in Indexes(Workflow)
               /\ step' = TrueStep(Now)
               /\ tasks' \in {tasks, StepTasks(At(Workflow, TrueStep(Now)), org, form)}
               /\ UNCHANGED <<status, trail, released>>
<1> DEFINE at == TrueStep(Now)
<1>1. /\ Now.wf = Workflow /\ Now.step = step /\ Now.status = status
  BY DEF Now
<1>2. UNCHANGED <<applied, form, lastReturn, org, standIn, chain>>
  BY DEF Resync, ResyncFrom
<1>3. Len(Workflow) \in Nat /\ (at # -1 => at \in Indexes(Workflow) /\ at \in Nat)
  BY TrueStepRange, WorkflowType, LenProperties DEF TypeOK, Workflow, Indexes
<1>4. \A new, current : Written(current, new, current) = new
  BY DEF Written
<1>5. CASE ResyncFinished(Now)
  BY <1>1, <1>2, <1>5 DEF ResyncFinished
<1>6. CASE ResyncSkip(Now)
  <2>1. status \in InFlight /\ at # -1
    BY <1>1, <1>6 DEF ResyncSkip, SkipsTo
  <2>2. PICK n \in at + 1 .. Len(Workflow) :
          /\ Advance(Workflow, n)
          /\ step' = Written(step, n, step)
          /\ status' = Written(status,
                               IF n < Len(Workflow) THEN "in_review" ELSE GrantedStatus(DocType), status)
          /\ trail' = trail \cup {SkipEvent(Workflow, i) : i \in at .. n - 1}
    BY <1>1, <1>6 DEF ResyncSkip, SkipsTo
  <2>3. n \in Nat /\ at < n /\ n <= Len(Workflow) /\ at \in Indexes(Workflow)
    BY <1>3, <2>1, <2>2
  <2>4. /\ tasks' = IF n < Len(Workflow) THEN StepTasks(At(Workflow, n), org, form) ELSE {}
        /\ released' \in {released, released + 1}
    BY <2>2, Zenon DEF Advance
  <2>5. /\ step' = n
        /\ status' = IF n < Len(Workflow) THEN "in_review" ELSE GrantedStatus(DocType)
    BY <1>4, <2>2, Zenon
  <2> HIDE DEF at
  <2>6. \E k \in Nat :
          /\ at < k /\ k <= Len(Workflow)
          /\ step' = k
          /\ status' = IF k < Len(Workflow) THEN "in_review" ELSE GrantedStatus(DocType)
          /\ tasks' = IF k < Len(Workflow) THEN StepTasks(At(Workflow, k), org, form) ELSE {}
          /\ released' \in {released, released + 1}
          /\ trail' = trail \cup {SkipEvent(Workflow, i) : i \in at .. k - 1}
    BY <2>2, <2>3, <2>4, <2>5, Zenon
  <2> QED
    BY <1>2, <2>1, <2>3, <2>6, Zenon DEF at
<1>7. CASE ResyncRealign(Now)
  <2>1. /\ status \in InFlight /\ at # -1
        /\ step' = Written(step, at, step)
        /\ tasks' \in {tasks, StepTasks(At(Workflow, at), org, form)}
        /\ UNCHANGED <<status, trail, released>>
    BY <1>1, <1>7 DEF ResyncRealign, Realigns
  <2>2. step' = at /\ at \in Indexes(Workflow)
    BY <1>3, <1>4, <2>1
  <2> QED
    BY <1>2, <2>1, <2>2, Zenon
<1> QED
  BY <1>5, <1>6, <1>7, Zenon DEF Resync, ResyncFrom

LEMMA TypeInit == Init => TypeOK
BY DEF Init, TypeOK, Statuses, Submittable, AppliedModes

LEMMA StatusSets ==
  /\ InFlight \subseteq Statuses /\ Submittable \subseteq Statuses
  /\ {"approved", "active", "rejected", "cancelled", GrantedStatus(DocType), RejectedStatus(DocType)}
       \subseteq Statuses
BY DEF Statuses, InFlight, Submittable, GrantedStatus, RejectedStatus

LEMMA TypeStep == TypeOK /\ [Next]_vars => TypeOK'
<1> SUFFICES ASSUME TypeOK, [Next]_vars PROVE TypeOK'
  OBVIOUS
<1>1. /\ org \in Orgs /\ form \in Forms /\ step \in Nat /\ released \in Nat
      /\ Workflow \in Seq(Nodes) /\ Len(Workflow) \in Nat
      /\ Indexes(Workflow) \subseteq Nat
      /\ trail \subseteq EventType /\ tasks \subseteq Tasks
  BY WorkflowType, LenProperties DEF TypeOK, Workflow, EventType, Indexes
<1>2. ASSUME NEW wf \in Seq(Nodes), NEW n \in Nat, n < Len(wf)
      PROVE  StepTasks(At(wf, n), org, form) \subseteq Tasks
  <2>1. n \in Indexes(wf)
    BY <1>2, LenProperties DEF Indexes
  <2> QED
    BY <1>1, <2>1, NodeAt, StepTasksFacts
<1>3. ReviseTask \in Tasks
  BY DEF Tasks
<1>4. CASE Submit
  <2> DEFINE mode == SubmissionMode(form, status, applied, org)
             wf   == WorkflowUnder(mode)
             from == SubmissionStart(mode)
  <2>1. /\ mode \in AppliedModes /\ wf \in Seq(Nodes) /\ from \in Nat
        /\ applied' = IF DocType = "pr" THEN mode ELSE applied
    BY <1>4, SubmitStep, Zenon
  <2>2. PICK n \in Nat :
          /\ from <= n /\ n <= Len(wf)
          /\ status' = IF n < Len(wf) THEN "submitted" ELSE "approved"
          /\ step' = n
          /\ tasks' = IF n < Len(wf) THEN tasks \cup StepTasks(At(wf, n), org, form)
                      ELSE tasks
          /\ trail' = {e \in trail : e.step < from}
                        \cup {SkipEvent(wf, i) : i \in from .. n - 1}
    BY <1>4, SubmitStep, Zenon
  <2>3. UNCHANGED <<form, lastReturn, released, org, standIn, chain>>
    BY <1>4 DEF Submit
  <2> HIDE DEF mode, wf, from
  <2>4. from .. n - 1 \subseteq Nat
    BY <2>1
  <2>5. {SkipEvent(wf, i) : i \in from .. n - 1} \subseteq EventType
    BY <2>1, <2>4, TrailGrows
  <2>6. trail' \subseteq EventType
    BY <1>1, <2>2, <2>5
  <2>7. tasks' \subseteq Tasks
    BY <1>1, <1>2, <2>1, <2>2
  <2>8. status' \in Statuses /\ applied' \in AppliedModes
    BY <2>1, <2>2 DEF TypeOK, Statuses, InFlight
  <2> QED
    BY <2>2, <2>3, <2>6, <2>7, <2>8 DEF TypeOK, EventType
<1>5. ASSUME NEW u \in Users, Approve(u)
      PROVE  TypeOK'
  <2>1. PICK n \in Nat :
          /\ step < n
          /\ step' = IF n < Len(Workflow) THEN n ELSE step
          /\ status' = IF n < Len(Workflow) THEN "in_review" ELSE GrantedStatus(DocType)
          /\ tasks' = IF n < Len(Workflow) THEN StepTasks(At(Workflow, n), org, form)
                      ELSE {}
          /\ released' \in {released, released + 1}
          /\ trail' = trail \cup {Event(Workflow, step, "signed")}
                        \cup {SkipEventFor(u, Workflow, i) : i \in step + 1 .. n - 1}
    BY <1>5, ApproveStep, Zenon
  <2>2. UNCHANGED <<applied, form, lastReturn, org, standIn, chain>>
    BY <1>5 DEF Approve
  <2>3. step + 1 .. n - 1 \subseteq Nat
    BY <1>1
  <2>4. {SkipEventFor(u, Workflow, i) : i \in step + 1 .. n - 1} \subseteq EventType
    BY <1>1, <2>3, TrailGrows
  <2>5. Event(Workflow, step, "signed") \in EventType
    BY <1>1, EventTyped DEF Hows
  <2>6. trail' \subseteq EventType
    BY <1>1, <2>1, <2>4, <2>5
  <2>7. tasks' \subseteq Tasks
    BY <1>1, <1>2, <2>1
  <2>8. status' \in Statuses
    BY <2>1, StatusSets DEF Statuses, InFlight
  <2>9. step' \in Nat /\ released' \in Nat
    BY <1>1, <2>1
  <2> QED
    BY <2>2, <2>6, <2>7, <2>8, <2>9 DEF TypeOK, EventType
<1>6. ASSUME NEW u \in Users, Return(u)
      PROVE  TypeOK'
  BY <1>1, <1>3, <1>6 DEF Return, TypeOK, Statuses, Submittable
<1>7. ASSUME NEW u \in Users, Reject(u)
      PROVE  TypeOK'
  BY <1>7, StatusSets DEF Reject, TypeOK
<1>8. ASSUME NEW u \in Users, Recall(u)
      PROVE  TypeOK'
  BY <1>8 DEF Recall, TypeOK, Statuses, Submittable
<1>9. ASSUME NEW u \in Users, Cancel(u)
      PROVE  TypeOK'
  BY <1>9, StatusSets DEF Cancel, TypeOK
<1>10. CASE EditForm
  BY <1>10 DEF EditForm, TypeOK
<1>11. CASE Resync
  <2> DEFINE at == TrueStep(Now)
  <2>1. UNCHANGED <<applied, form, lastReturn, org, standIn, chain>>
    BY <1>11, ResyncStep, Zenon
  <2>2. CASE /\ tasks' = tasks \ Now.tasks
             /\ UNCHANGED <<status, step, trail, released>>
    BY <1>1, <2>1, <2>2 DEF TypeOK
  <2>3. CASE /\ at \in Indexes(Workflow)
             /\ \E n \in Nat :
                  /\ at < n /\ n <= Len(Workflow)
                  /\ step' = n
                  /\ status' = IF n < Len(Workflow) THEN "in_review" ELSE GrantedStatus(DocType)
                  /\ tasks' = IF n < Len(Workflow)
                              THEN StepTasks(At(Workflow, n), org, form) ELSE {}
                  /\ released' \in {released, released + 1}
                  /\ trail' = trail \cup {SkipEvent(Workflow, i) : i \in at .. n - 1}
    <3> HIDE DEF at
    <3>1. PICK n \in Nat :
             /\ step' = n
             /\ status' = IF n < Len(Workflow) THEN "in_review" ELSE GrantedStatus(DocType)
             /\ tasks' = IF n < Len(Workflow)
                         THEN StepTasks(At(Workflow, n), org, form) ELSE {}
             /\ released' \in {released, released + 1}
             /\ trail' = trail \cup {SkipEvent(Workflow, i) : i \in at .. n - 1}
      BY <2>3, Zenon
    <3>2. at .. n - 1 \subseteq Nat
      BY <1>1, <2>3
    <3>3. {SkipEvent(Workflow, i) : i \in at .. n - 1} \subseteq EventType
      BY <1>1, <3>2, TrailGrows
    <3>4. trail' \subseteq EventType /\ released' \in Nat
      BY <1>1, <3>1, <3>3
    <3>5. tasks' \subseteq Tasks
      BY <1>2, <1>1, <3>1
    <3>6. status' \in Statuses
      BY <3>1, StatusSets DEF Statuses, InFlight
    <3> QED
      BY <2>1, <3>1, <3>4, <3>5, <3>6 DEF TypeOK, EventType
  <2>4. CASE /\ at \in Indexes(Workflow)
             /\ step' = at
             /\ tasks' \in {tasks, StepTasks(At(Workflow, at), org, form)}
             /\ UNCHANGED <<status, trail, released>>
    <3> HIDE DEF at
    <3>1. at \in Nat /\ At(Workflow, at) \in Nodes
      BY <1>1, <2>4, NodeAt
    <3>2. tasks' \subseteq Tasks
      BY <1>1, <2>4, <3>1, StepTasksFacts
    <3> QED
      BY <2>1, <2>4, <3>1, <3>2 DEF TypeOK
  <2> QED
    BY <1>11, <2>2, <2>3, <2>4, ResyncStep, Zenon
<1>12. CASE SaveRouting
  BY <1>12 DEF SaveRouting, Reconfigured, TypeOK, doc
<1>13. CASE AssignHolders
  BY <1>13 DEF AssignHolders, Reconfigured, TypeOK, doc
<1>14. CASE SaveBudgetConfig
  BY <1>14 DEF SaveBudgetConfig, Reconfigured, TypeOK, doc
<1>15. CASE ChangeDelegation
  BY <1>15 DEF ChangeDelegation, TypeOK, doc
<1>16. CASE UNCHANGED vars
  BY <1>16 DEF vars, doc, TypeOK
<1> QED
  BY <1>4, <1>5, <1>6, <1>7, <1>8, <1>9, <1>10, <1>11, <1>12, <1>13, <1>14, <1>15,
     <1>16 DEF Next

(* The engine is type-correct: in particular its step index is never       *)
(* negative and no task is opened for a user nobody is.                    *)
THEOREM TypeCorrect == Spec => []TypeOK
BY TypeInit, TypeStep, PTL DEF Spec

-----------------------------------------------------------------------------
(* No step is jumped.  StepsInv is inductive: the list of a document in    *)
(* flight is the one frozen at submission, the steps below its index carry *)
(* events, a return keeps them for the resubmission, and the open tasks    *)
(* name the very step of the index, so a re-sync finds that step again.    *)

Run == EveryStepCleared /\ ReturnCleared /\ TaskAtPendingStep /\ ModeFrozen

LEMMA FrozenList ==
  ASSUME ModeFrozen, status \in InFlight \/ Granted
  PROVE  Workflow = WorkflowUnder(applied)
BY DEF ModeFrozen, Workflow, FrozenMode, WorkflowUnder, InFlight, Granted

LEMMA FrozenListNext ==
  ASSUME ModeFrozen', status' \in InFlight \/ Granted', chain' = chain
  PROVE  Workflow' = WorkflowUnder(applied')
BY DEF ModeFrozen, Workflow, FrozenMode, WorkflowUnder, InFlight, Granted

(* A step that lands a document at step n of its list, or past its end.    *)
LEMMA Landed ==
  ASSUME NEW wf \in Seq(Nodes), NEW n \in Nat, n <= Len(wf),
         Workflow' = wf, ModeFrozen',
         \A i \in 0 .. n - 1 : \E how \in Hows : Event(wf, i, how) \in trail',
         n < Len(wf) => /\ status' \in InFlight /\ step' = n
                        /\ OpenApprovals' # {}
                        /\ \A t \in OpenApprovals' : ServesStep(t, At(wf, n).role),
         ~ n < Len(wf) => status' \in {"approved", "active"} /\ OpenApprovals' = {}
  PROVE  Run'
<1>1. Len(wf) \in Nat
  BY LenProperties
<1>2. CASE n < Len(wf)
  <2>1. status' \notin {"approved", "active", "returned"}
    BY <1>2 DEF InFlight
  <2>2. EveryStepCleared'
    BY <1>1, <1>2, <2>1 DEF EveryStepCleared, Granted, Cleared, Indexes
  <2>3. TaskAtPendingStep'
    BY <1>2 DEF TaskAtPendingStep, StepRole
  <2> QED
    BY <2>1, <2>2, <2>3 DEF Run, ReturnCleared
<1>3. CASE ~ n < Len(wf)
  <2>1. n = Len(wf) /\ status' \notin InFlight \cup {"returned"}
    BY <1>1, <1>3 DEF InFlight
  <2>2. EveryStepCleared'
    BY <1>3, <2>1 DEF EveryStepCleared, Cleared, Indexes
  <2> QED
    BY <1>3, <2>1, <2>2 DEF Run, ReturnCleared, TaskAtPendingStep
<1> QED
  BY <1>2, <1>3

(* A step that leaves nobody to approve. *)
LEMMA PutAside ==
  ASSUME status' \in {"draft", "rejected", "cancelled"}, OpenApprovals' = {}
  PROVE  Run'
BY DEF Run, EveryStepCleared, ReturnCleared, TaskAtPendingStep, ModeFrozen, InFlight, Granted

(* A step that only changes the form or the configuration. *)
LEMMA DocStands ==
  ASSUME Run, UNCHANGED <<status, step, applied, tasks, lastReturn, trail, chain>>
  PROVE  Run'
<1>1. ModeFrozen' /\ OpenApprovals' = OpenApprovals
  BY DEF Run, ModeFrozen, Granted, OpenApprovals
<1>2. status \in InFlight \/ Granted => Workflow' = Workflow
  BY <1>1, FrozenList, FrozenListNext DEF Run, Granted
<1>3. EveryStepCleared'
  BY <1>2 DEF Run, EveryStepCleared, Granted, Cleared
<1>4. ReturnCleared'
  BY DEF Run, ReturnCleared, Cleared, WorkflowUnder
<1>5. TaskAtPendingStep'
  BY <1>1, <1>2 DEF Run, TaskAtPendingStep, StepRole
<1> QED
  BY <1>1, <1>3, <1>4, <1>5 DEF Run

(* The approvals a step opens. *)
LEMMA OpenedTasks ==
  ASSUME TypeOK, NEW wf \in Seq(Nodes), NEW n \in Nat, n < Len(wf),
         NEW T, T = StepTasks(At(wf, n), org, form)
  PROVE  /\ {t \in T : t.kind = "approve"} = T
         /\ T # {}
         /\ \A t \in T : ServesStep(t, At(wf, n).role)
<1>1. n \in Indexes(wf)
  BY LenProperties DEF Indexes
<1>2. At(wf, n) \in Nodes
  BY <1>1, NodeAt
<1> QED
  BY <1>2, StepTasksFacts DEF TypeOK

LEMMA ApproveKeeps ==
  ASSUME TypeOK, Run, NEW u \in Users, Approve(u)
  PROVE  Run'
<1>1. status \in InFlight
  BY ApproveStep
<1>2. UNCHANGED <<applied, chain>>
  BY DEF Approve
<1>3. /\ Workflow \in Seq(Nodes) /\ Len(Workflow) \in Nat /\ step \in Nat
      /\ step < Len(Workflow)
      /\ \A i \in 0 .. step - 1 : \E how \in Hows : Event(Workflow, i, how) \in trail
  <2>1. Workflow \in Seq(Nodes)
    BY WorkflowType DEF TypeOK, Workflow
  <2> QED
    BY <1>1, <2>1, NodeAt, LenProperties DEF Run, EveryStepCleared, Cleared
<1>4. PICK n \in Nat :
        /\ step < n /\ n <= Len(Workflow)
        /\ step' = IF n < Len(Workflow) THEN n ELSE step
        /\ status' = IF n < Len(Workflow) THEN "in_review" ELSE GrantedStatus(DocType)
        /\ tasks' = IF n < Len(Workflow) THEN StepTasks(At(Workflow, n), org, form)
                    ELSE {}
        /\ trail' = trail \cup {Event(Workflow, step, "signed")}
                      \cup {SkipEventFor(u, Workflow, i) : i \in step + 1 .. n - 1}
  BY <1>3, ApproveStep, Zenon
<1>5. ModeFrozen'
  BY <1>1, <1>2 DEF Run, ModeFrozen
<1>6. status' \in InFlight \cup {"approved", "active"}
  BY <1>4 DEF InFlight, GrantedStatus
<1>7. Workflow' = Workflow
  BY <1>1, <1>2, <1>5, <1>6, FrozenList, FrozenListNext DEF Run, Granted
<1>8. ASSUME NEW i \in 0 .. n - 1
      PROVE  \E how \in Hows : Event(Workflow, i, how) \in trail'
  <2>1. CASE i < step
    BY <1>3, <1>4, <2>1
  <2>2. CASE i = step
    BY <1>4, <2>2 DEF Hows
  <2>3. CASE i > step
    <3>1. i \in step + 1 .. n - 1
      BY <1>3, <2>3
    <3>2. SkipEventFor(u, Workflow, i) \in trail'
      BY <1>4, <3>1
    <3> QED
      BY <3>2, SkipEvents, Zenon
  <2> QED
    BY <1>3, <2>1, <2>2, <2>3
<1>9. n < Len(Workflow) => /\ status' \in InFlight /\ step' = n
                           /\ OpenApprovals' # {}
                           /\ \A t \in OpenApprovals' : ServesStep(t, At(Workflow, n).role)
  BY <1>3, <1>4, OpenedTasks DEF OpenApprovals, InFlight
<1>10. ~ n < Len(Workflow) => status' \in {"approved", "active"} /\ OpenApprovals' = {}
  BY <1>4 DEF OpenApprovals, GrantedStatus
<1> QED
  BY <1>3, <1>4, <1>5, <1>7, <1>8, <1>9, <1>10, Landed

(* Where a resubmission does not start from the top, its list is the one   *)
(* the returned document walked, and the steps in front stand.             *)
LEMMA SubmissionFront ==
  ASSUME TypeOK, Run, status \in Submittable,
         NEW mode, SubmissionStart(mode) # 0
  PROVE  /\ SubmissionStart(mode) = lastReturn
         /\ WorkflowUnder(mode) = WorkflowUnder(applied)
         /\ \A i \in 0 .. lastReturn - 1 :
              \E how \in Hows : Event(WorkflowUnder(mode), i, how) \in trail
<1>1. status = "returned" /\ SubmissionStart(mode) = lastReturn
  BY DEF SubmissionStart, Submittable
<1>2. applied # "unset" \/ DocType # "pr"
  BY <1>1 DEF Run, ReturnCleared
<1>3. ~ (DocType = "pr" /\ applied # "unset" /\ ObPrefix(applied) # ObPrefix(mode))
  BY DEF SubmissionStart
<1>4. WorkflowUnder(mode) = WorkflowUnder(applied)
  BY <1>2, <1>3 DEF WorkflowUnder
<1> QED
  BY <1>1, <1>4 DEF Run, ReturnCleared, Cleared

LEMMA SubmitKeeps ==
  ASSUME TypeOK, Run, Submit
  PROVE  Run'
<1> DEFINE mode == SubmissionMode(form, status, applied, org)
           wf   == WorkflowUnder(mode)
           from == SubmissionStart(mode)
<1>1. /\ mode # "unset" /\ wf \in Seq(Nodes) /\ from \in Nat
      /\ applied' = IF DocType = "pr" THEN mode ELSE applied
  BY SubmitStep, Zenon
<1>2. PICK n \in Nat :
        /\ from <= n /\ n <= Len(wf)
        /\ status' = IF n < Len(wf) THEN "submitted" ELSE "approved"
        /\ step' = n
        /\ tasks' = IF n < Len(wf) THEN tasks \cup StepTasks(At(wf, n), org, form)
                    ELSE tasks
        /\ trail' = {e \in trail : e.step < from}
                      \cup {SkipEvent(wf, i) : i \in from .. n - 1}
  BY SubmitStep, Zenon
<1>3. status \in Submittable /\ chain' = chain
  BY DEF Submit
<1>4. OpenApprovals = {}
  BY <1>3 DEF Run, TaskAtPendingStep, Submittable, InFlight
<1>5. from # 0 => \A i \in 0 .. from - 1 : \E how \in Hows : Event(wf, i, how) \in trail
  BY <1>3, SubmissionFront
<1>6. \A m : DocType # "pr" => WorkflowUnder(m) = wf
  BY DEF WorkflowUnder
<1>7. DocType = "pr" => WorkflowUnder(applied') = wf
  BY <1>1
<1> HIDE DEF mode, wf, from
<1>8. ModeFrozen'
  BY <1>1 DEF ModeFrozen
<1>9. status' \in InFlight \cup {"approved"}
  BY <1>2 DEF InFlight
<1>10. Workflow' = wf
  BY <1>3, <1>6, <1>7, <1>8, <1>9, FrozenListNext DEF Granted
<1>11. ASSUME NEW i \in 0 .. n - 1
       PROVE  \E how \in Hows : Event(wf, i, how) \in trail'
  <2>1. CASE i < from
    <3>1. PICK how \in Hows : Event(wf, i, how) \in trail
      BY <1>1, <1>5, <2>1
    <3>2. Event(wf, i, how).step = i
      BY DEF Event
    <3> QED
      BY <1>2, <2>1, <3>1, <3>2
  <2>2. CASE ~ i < from
    <3>1. i \in from .. n - 1
      BY <1>1, <2>2
    <3>2. SkipEvent(wf, i) \in trail'
      BY <1>2, <3>1
    <3> QED
      BY <3>2, SkipEvents, Zenon
  <2> QED
    BY <2>1, <2>2
<1>12. n < Len(wf) => /\ status' \in InFlight /\ step' = n
                      /\ OpenApprovals' # {}
                      /\ \A t \in OpenApprovals' : ServesStep(t, At(wf, n).role)
  <2> SUFFICES ASSUME n < Len(wf)
               PROVE  /\ status' \in InFlight /\ step' = n
                      /\ OpenApprovals' # {}
                      /\ \A t \in OpenApprovals' : ServesStep(t, At(wf, n).role)
    OBVIOUS
  <2> DEFINE T == StepTasks(At(wf, n), org, form)
  <2>1. /\ {t \in T : t.kind = "approve"} = T /\ T # {}
        /\ \A t \in T : ServesStep(t, At(wf, n).role)
    BY <1>1, OpenedTasks
  <2> HIDE DEF T
  <2>2. tasks' = tasks \cup T
    BY <1>2 DEF T
  <2>3. OpenApprovals' = T
    BY <1>4, <2>1, <2>2 DEF OpenApprovals
  <2> QED
    BY <1>2, <2>1, <2>3 DEF InFlight
<1>13. ~ n < Len(wf) => status' \in {"approved", "active"} /\ OpenApprovals' = {}
  BY <1>2, <1>4 DEF OpenApprovals
<1> QED
  BY <1>1, <1>2, <1>8, <1>10, <1>11, <1>12, <1>13, Landed

(* With unambiguous chains the open tasks of a document in flight name the *)
(* step its index does, or no step at all.                                 *)
LEMMA TasksNameTheIndex ==
  ASSUME UnambiguousChains, TypeOK, Run, status \in InFlight
  PROVE  TrueStep(Now) \in {step, -1}
<1> DEFINE open   == IF DocType = "posign" THEN {} ELSE OpenApprovals
           mapped == {StepIndexForTaskRole(Workflow, t.role, step) : t \in open} \ {-1}
<1>1. Workflow \in Seq(Nodes) /\ step \in Indexes(Workflow) /\ step < Len(Workflow)
  <2>1. Workflow \in Seq(Nodes)
    BY WorkflowType DEF TypeOK, Workflow
  <2>2. step \in Indexes(Workflow)
    BY DEF Run, EveryStepCleared
  <2> QED
    BY <2>1, <2>2, NodeAt
<1>2. At(Workflow, step).role \in {"gm", "opm"} =>
        \A i \in Indexes(Workflow) : At(Workflow, i).role # "gm_or_opm"
  <2> SUFFICES ASSUME At(Workflow, step).role \in {"gm", "opm"}
               PROVE  \A i \in Indexes(Workflow) : At(Workflow, i).role # "gm_or_opm"
    OBVIOUS
  <2>1. chain \in Chains /\ chain \in Seq(Nodes)
    BY ChainType DEF TypeOK
  <2>2. CASE DocType # "pr"
    <3>1. Workflow = chain
      BY <2>2 DEF Workflow, WorkflowUnder
    <3> QED
      BY <1>1, <2>1, <3>1 DEF UnambiguousChains
  <2>3. CASE DocType = "pr"
    <3> DEFINE pre == ObPrefix(FrozenMode)
    <3>1. Workflow = pre \o chain
      BY <2>3 DEF Workflow, WorkflowUnder
    <3>2. /\ pre \in Seq(Nodes) /\ Len(pre) \in Nat /\ Len(chain) \in Nat
          /\ \A i \in 1 .. Len(pre) : pre[i].role \notin {"gm", "opm"}
      BY <2>1, PrefixType, LenProperties
    <3> HIDE DEF pre
    <3>3. /\ Len(Workflow) = Len(pre) + Len(chain)
          /\ Workflow[step + 1] = IF step + 1 <= Len(pre) THEN pre[step + 1]
                                  ELSE chain[step + 1 - Len(pre)]
      BY <1>1, <2>1, <3>1, <3>2, ConcatProperties DEF Indexes
    <3>4. ~ step + 1 <= Len(pre)
      BY <1>1, <3>2, <3>3 DEF At, Indexes
    <3>5. step - Len(pre) \in Indexes(chain)
      BY <1>1, <3>2, <3>3, <3>4 DEF Indexes
    <3>6. At(chain, step - Len(pre)).role \in {"gm", "opm"}
      <4>1. step - Len(pre) + 1 = step + 1 - Len(pre)
        BY <1>1, <3>2 DEF Indexes
      <4> QED
        BY <3>3, <3>4, <4>1 DEF At
    <3> QED
      BY <2>1, <2>3, <3>5, <3>6 DEF UnambiguousChains
  <2> QED
    BY <2>2, <2>3
<1>3. \A t \in OpenApprovals : ServesStep(t, At(Workflow, step).role)
  BY <1>1 DEF Run, TaskAtPendingStep, StepRole
<1>4. mapped \subseteq {step}
  BY <1>1, <1>2, <1>3, TaskNamesStep
<1>5. Now.wf = Workflow /\ Now.step = step /\ Now.tasks = open
  BY DEF Now
<1>6. TrueStep(Now) =
        IF open = {} THEN IF step < Len(Workflow) THEN step ELSE -1
        ELSE IF mapped = {} THEN -1
        ELSE CHOOSE i \in mapped : \A j \in mapped : i <= j
  BY <1>5 DEF TrueStep
<1>7. step <= step
  BY DEF TypeOK
<1> HIDE DEF mapped, open
<1>8. mapped = {} \/ mapped = {step}
  BY <1>4
<1> QED
  BY <1>1, <1>6, <1>7, <1>8

LEMMA ResyncKeeps ==
  ASSUME UnambiguousChains, TypeOK, Run, Resync
  PROVE  Run'
<1>1. UNCHANGED <<applied, form, lastReturn, org, standIn, chain>>
  BY ResyncStep, Zenon
<1>2. CASE /\ status \notin InFlight
           /\ Now.tasks # {}
  <2>1. Now.tasks = {}
    BY <1>2 DEF Now, Run, TaskAtPendingStep
  <2> QED
    BY <1>2, <2>1
<1>3. CASE /\ status \in InFlight
           /\ TrueStep(Now) \in Indexes(Workflow)
  <2>1. /\ Workflow \in Seq(Nodes) /\ Len(Workflow) \in Nat
        /\ step \in Nat /\ step < Len(Workflow)
        /\ \A i \in 0 .. step - 1 : \E how \in Hows : Event(Workflow, i, how) \in trail
    <3>1. Workflow \in Seq(Nodes)
      BY WorkflowType DEF TypeOK, Workflow
    <3> QED
      BY <1>3, <3>1, NodeAt, LenProperties DEF Run, EveryStepCleared, Cleared
  <2>2. TrueStep(Now) = step
    BY <1>3, <2>1, TasksNameTheIndex DEF Indexes
  <2>3. ASSUME ModeFrozen', status' \in InFlight \cup {"approved", "active"}
        PROVE  Workflow' = Workflow
    BY <1>1, <1>3, <2>3, FrozenList, FrozenListNext DEF Run, Granted
  <2>4. CASE \E n \in Nat :
               /\ step < n /\ n <= Len(Workflow)
               /\ step' = n
               /\ status' = IF n < Len(Workflow) THEN "in_review" ELSE GrantedStatus(DocType)
               /\ tasks' = IF n < Len(Workflow)
                           THEN StepTasks(At(Workflow, n), org, form) ELSE {}
               /\ trail' = trail \cup {SkipEvent(Workflow, i) : i \in step .. n - 1}
    <3>1. PICK n \in Nat :
               /\ step < n /\ n <= Len(Workflow)
               /\ step' = n
               /\ status' = IF n < Len(Workflow) THEN "in_review" ELSE GrantedStatus(DocType)
               /\ tasks' = IF n < Len(Workflow)
                           THEN StepTasks(At(Workflow, n), org, form) ELSE {}
               /\ trail' = trail \cup {SkipEvent(Workflow, i) : i \in step .. n - 1}
      BY <2>4, Zenon
    <3>2. ModeFrozen'
      BY <1>1, <1>3 DEF Run, ModeFrozen
    <3>3. Workflow' = Workflow
      BY <2>3, <3>1, <3>2 DEF InFlight, GrantedStatus
    <3>4. ASSUME NEW i \in 0 .. n - 1
          PROVE  \E how \in Hows : Event(Workflow, i, how) \in trail'
      <4>1. CASE i < step
        BY <2>1, <3>1, <4>1
      <4>2. CASE ~ i < step
        <5>1. SkipEvent(Workflow, i) \in trail'
          BY <2>1, <3>1, <4>2
        <5> QED
          BY <5>1, SkipEvents, Zenon
      <4> QED
        BY <4>1, <4>2
    <3>5. n < Len(Workflow) =>
            /\ status' \in InFlight /\ step' = n
            /\ OpenApprovals' # {}
            /\ \A t \in OpenApprovals' : ServesStep(t, At(Workflow, n).role)
      BY <2>1, <3>1, OpenedTasks DEF OpenApprovals, InFlight
    <3>6. ~ n < Len(Workflow) => status' \in {"approved", "active"} /\ OpenApprovals' = {}
      BY <3>1 DEF OpenApprovals, GrantedStatus
    <3> QED
      BY <2>1, <3>1, <3>2, <3>3, <3>4, <3>5, <3>6, Landed
  <2>5. CASE /\ step' = step
             /\ tasks' \in {tasks, StepTasks(At(Workflow, step), org, form)}
             /\ UNCHANGED <<status, trail, released>>
    <3>1. ModeFrozen'
      BY <1>1, <1>3, <2>5 DEF Run, ModeFrozen
    <3>2. Workflow' = Workflow
      BY <1>3, <2>3, <2>5, <3>1
    <3>3. /\ OpenApprovals' # {}
          /\ \A t \in OpenApprovals' : ServesStep(t, At(Workflow, step).role)
      <4>1. CASE tasks' = tasks
        BY <1>3, <2>1, <4>1 DEF Run, TaskAtPendingStep, StepRole, OpenApprovals
      <4>2. CASE tasks' = StepTasks(At(Workflow, step), org, form)
        BY <2>1, <4>2, OpenedTasks DEF OpenApprovals
      <4> QED
        BY <2>5, <4>1, <4>2
    <3>4. status' \in InFlight
      BY <1>3, <2>5
    <3>5. \A i \in 0 .. step - 1 : \E how \in Hows : Event(Workflow, i, how) \in trail'
      BY <2>1, <2>5
    <3> QED
      BY <2>1, <2>5, <3>1, <3>2, <3>3, <3>4, <3>5, Landed
  <2> QED
    BY <1>3, <2>2, <2>4, <2>5, ResyncStep, Zenon
<1> QED
  BY <1>2, <1>3, ResyncStep, Zenon

LEMMA ReturnKeeps ==
  ASSUME TypeOK, Run, NEW u \in Users, Return(u)
  PROVE  Run'
<1>1. /\ status \in InFlight
      /\ UNCHANGED <<applied, trail, chain>>
      /\ status' = "returned" /\ lastReturn' = step /\ tasks' = {ReviseTask}
  BY DEF Return
<1>2. Workflow = WorkflowUnder(applied)
  BY <1>1, FrozenList DEF Run
<1>3. /\ step \in Indexes(Workflow)
      /\ \A i \in 0 .. step - 1 : Cleared(Workflow, i)
      /\ applied # "unset" \/ DocType # "pr"
  BY <1>1 DEF Run, EveryStepCleared, ModeFrozen
<1>4. WorkflowUnder(applied)' = WorkflowUnder(applied)
  BY <1>1 DEF WorkflowUnder
<1>5. ReturnCleared'
  BY <1>1, <1>2, <1>3, <1>4 DEF ReturnCleared, Cleared
<1>6. OpenApprovals' = {}
  BY <1>1 DEF OpenApprovals, ReviseTask
<1> QED
  BY <1>1, <1>5, <1>6
  DEF Run, EveryStepCleared, TaskAtPendingStep, ModeFrozen, InFlight, Granted

LEMMA RunStep ==
  ASSUME UnambiguousChains, TypeOK, Run, [Next]_vars
  PROVE  Run'
<1>1. CASE Submit
  BY <1>1, SubmitKeeps
<1>2. ASSUME NEW u \in Users, Approve(u)
      PROVE  Run'
  BY <1>2, ApproveKeeps
<1>3. ASSUME NEW u \in Users, Return(u)
      PROVE  Run'
  BY <1>3, ReturnKeeps
<1>4. ASSUME NEW u \in Users, Reject(u)
      PROVE  Run'
  BY <1>4, PutAside DEF Reject, RejectedStatus, OpenApprovals
<1>5. ASSUME NEW u \in Users, Recall(u)
      PROVE  Run'
  BY <1>5, PutAside DEF Recall, OpenApprovals
<1>6. ASSUME NEW u \in Users, Cancel(u)
      PROVE  Run'
  BY <1>6, PutAside DEF Cancel, OpenApprovals
<1>7. CASE EditForm
  BY <1>7, DocStands DEF EditForm
<1>8. CASE Resync
  BY <1>8, ResyncKeeps
<1>9. CASE SaveRouting
  BY <1>9, DocStands DEF SaveRouting, doc
<1>10. CASE AssignHolders
  BY <1>10, DocStands DEF AssignHolders, doc
<1>11. CASE SaveBudgetConfig
  BY <1>11, DocStands DEF SaveBudgetConfig, doc
<1>12. CASE ChangeDelegation
  BY <1>12, DocStands DEF ChangeDelegation, doc
<1>13. CASE UNCHANGED vars
  BY <1>13, DocStands DEF vars, doc
<1> QED
  BY <1>1, <1>2, <1>3, <1>4, <1>5, <1>6, <1>7, <1>8, <1>9, <1>10, <1>11, <1>12, <1>13
  DEF Next

LEMMA StepsStep ==
  ASSUME UnambiguousChains
  PROVE  StepsInv /\ [Next]_vars => StepsInv'
BY RunStep, TypeStep DEF StepsInv, Run

LEMMA StepsInit == Init => StepsInv
BY TypeInit
DEF Init, StepsInv, EveryStepCleared, ReturnCleared, TaskAtPendingStep, ModeFrozen,
    OpenApprovals, InFlight, Granted

LEMMA StepsAlways ==
  ASSUME UnambiguousChains
  PROVE  Spec => []StepsInv
BY StepsInit, StepsStep, PTL DEF Spec

(* No step is jumped: on every instance whose chains keep plain GM/OPM     *)
(* steps apart from gm_or_opm ones, a document in flight has every step    *)
(* before its index, and an approved one its whole list, signed or visibly *)
(* skipped, across returns, recalls, budget crossings and re-syncs.        *)
THEOREM NoStepJumped ==
  ASSUME UnambiguousChains
  PROVE  Spec => []EveryStepCleared
<1>1. StepsInv => EveryStepCleared
  BY DEF StepsInv
<1> QED
  BY <1>1, StepsAlways, PTL

(* Inboxes are right: a document in flight always has an open approval,    *)
(* each for the step it waits at, and any other document has none.         *)
THEOREM TasksFollowTheStep ==
  ASSUME UnambiguousChains
  PROVE  Spec => []TaskAtPendingStep
<1>1. StepsInv => TaskAtPendingStep
  BY DEF StepsInv
<1> QED
  BY <1>1, StepsAlways, PTL

(* Budget Config never moves a document in flight: the list it walks is    *)
(* the one of its submission until it is decided or sent back.             *)
THEOREM ListStaysFrozen ==
  ASSUME UnambiguousChains
  PROVE  Spec => ListFrozenInFlight
<1>1. ASSUME StepsInv, StepsInv', [Next]_vars
      PROVE  [(status \in InFlight /\ status' \in InFlight) => Workflow' = Workflow]_vars
  <2> SUFFICES ASSUME Next, status \in InFlight, status' \in InFlight
               PROVE  Workflow' = Workflow
    BY <1>1
  <2>1. Workflow = WorkflowUnder(applied)
    BY <1>1, FrozenList DEF StepsInv
  <2>2. applied' = applied /\ chain' = chain
    <3>1. ~ Submit
      BY DEF Submit, Submittable, InFlight
    <3> QED
      BY <3>1
      DEF Next, Approve, Return, Reject, Recall, Cancel, EditForm, SaveRouting,
          AssignHolders, SaveBudgetConfig, ChangeDelegation, doc, Resync, ResyncFrom
  <2>3. Workflow' = WorkflowUnder(applied')
    BY <1>1, <2>2, FrozenListNext DEF StepsInv
  <2> QED
    BY <2>1, <2>2, <2>3
<1> QED
  BY <1>1, StepsAlways, PTL DEF Spec, ListFrozenInFlight

-----------------------------------------------------------------------------
(* The post-approval effect runs once. *)

LEMMA LastStepWaits ==
  ASSUME EndsUnskipped, chain \in Chains, NEW mode
  PROVE  LET wf == WorkflowUnder(mode)
         IN  /\ wf \in Seq(Nodes) /\ Len(wf) \in Nat /\ Len(wf) > 0
             /\ ~ StepSkip(At(wf, Len(wf) - 1), org, form)
<1> DEFINE wf == WorkflowUnder(mode)
           last == At(chain, Len(chain) - 1)
<1>1. /\ chain \in Seq(Nodes) /\ Len(chain) \in Nat /\ Len(chain) > 0
  BY ChainType, LenProperties
<1>2. wf \in Seq(Nodes)
  BY WorkflowType
<1>3. Len(wf) \in Nat /\ Len(wf) > 0 /\ At(wf, Len(wf) - 1) = last
  <2>1. CASE DocType # "pr"
    BY <1>1, <2>1 DEF WorkflowUnder
  <2>2. CASE DocType = "pr"
    <3> DEFINE pre == ObPrefix(mode)
    <3>1. pre \in Seq(Nodes) /\ Len(pre) \in Nat
      BY PrefixType, LenProperties
    <3>2. wf = pre \o chain
      BY <2>2 DEF WorkflowUnder
    <3> HIDE DEF pre, wf
    <3>3. /\ Len(wf) = Len(pre) + Len(chain)
          /\ wf[Len(wf)] = chain[Len(wf) - Len(pre)]
      BY <1>1, <3>1, <3>2, ConcatProperties
    <3>4. Len(wf) - Len(pre) = Len(chain) /\ Len(wf) - 1 + 1 = Len(wf)
             /\ Len(chain) - 1 + 1 = Len(chain)
      BY <1>1, <3>1, <3>3
    <3> QED
      BY <1>1, <3>1, <3>3, <3>4 DEF At
  <2> QED
    BY <2>1, <2>2
<1>4. /\ last.ob = FALSE /\ last.role \notin {"director", "supervisor", "zone_manager"}
      /\ last.role = "dept_manager" => DocType # "pa"
  <2>1. chain \in Seq([role : Roles, ob : {FALSE}])
    BY EngineHolds DEF EngineAssumption
  <2>2. Len(chain) - 1 \in Indexes(chain)
    BY <1>1 DEF Indexes
  <2>3. last \in [role : Roles, ob : {FALSE}]
    BY <2>1, <2>2, NodeAt
  <2> QED
    BY <2>3 DEF EndsUnskipped
<1> HIDE DEF last
<1>5. ~ StepSkip(last, org, form)
  BY <1>4 DEF StepSkip, ObStepWaived, ShouldSkipStep, CrossDept
<1> QED
  BY <1>2, <1>3, <1>5

(* A submission never approves. *)
LEMMA SubmitWaits ==
  ASSUME EndsUnskipped, TypeOK, Submit
  PROVE  status' = "submitted" /\ released' = released
<1> DEFINE mode == SubmissionMode(form, status, applied, org)
           wf   == WorkflowUnder(mode)
           from == SubmissionStart(mode)
<1>1. PICK n \in from .. Len(wf) :
        /\ n = Len(wf) => \A i \in from .. n - 1 : StepSkip(At(wf, i), org, form)
        /\ status' = IF n < Len(wf) THEN "submitted" ELSE "approved"
  BY Zenon DEF Submit
<1>2. /\ wf \in Seq(Nodes) /\ Len(wf) \in Nat /\ Len(wf) > 0
      /\ ~ StepSkip(At(wf, Len(wf) - 1), org, form)
  BY LastStepWaits DEF TypeOK
<1>3. from \in Nat /\ from < Len(wf)
  BY <1>2, SubmissionStarts, NodeAt
<1> HIDE DEF mode, wf, from
<1>4. n < Len(wf)
  <2>1. n = Len(wf) => Len(wf) - 1 \in from .. n - 1
    BY <1>2, <1>3
  <2> QED
    BY <1>1, <1>2, <1>3, <2>1
<1> QED
  BY <1>1, <1>4 DEF Submit

LEMMA Releases ==
  ASSUME TypeOK, ReleasedOnce, NEW n, NEW wf, status \in InFlight, Advance(wf, n),
         status' = IF n < Len(wf) THEN "in_review" ELSE GrantedStatus(DocType)
  PROVE  ReleasedOnce'
<1>1. released = 0
  BY DEF ReleasedOnce, InFlight, GrantedStatus
<1>2. CASE n < Len(wf)
  BY <1>1, <1>2 DEF Advance, ReleasedOnce, GrantedStatus
<1>3. CASE ~ n < Len(wf)
  BY <1>1, <1>3 DEF Advance, ReleasedOnce
<1> QED
  BY <1>2, <1>3

LEMMA ReleaseStep ==
  ASSUME EndsUnskipped
  PROVE  TypeOK /\ ReleasedOnce /\ [Next]_vars => ReleasedOnce'
<1> SUFFICES ASSUME TypeOK, ReleasedOnce, [Next]_vars PROVE ReleasedOnce'
  OBVIOUS
<1>1. CASE Submit
  BY <1>1, SubmitWaits DEF Submit, Submittable, ReleasedOnce, GrantedStatus
<1>2. ASSUME NEW u \in Users, Approve(u)
      PROVE  ReleasedOnce'
  <2>1. \E n : /\ Advance(Workflow, n)
               /\ status' = IF n < Len(Workflow) THEN "in_review" ELSE GrantedStatus(DocType)
    BY <1>2, Zenon DEF Approve
  <2>2. status \in InFlight
    BY <1>2 DEF Approve
  <2> QED
    BY <2>1, <2>2, Releases
<1>3. ASSUME NEW u \in Users, Return(u) \/ Reject(u) \/ Recall(u) \/ Cancel(u)
      PROVE  ReleasedOnce'
  <2>1. /\ status \notin {"approved", "active"}
        /\ status' \notin {"approved", "active"}
        /\ released' = released
    BY <1>3 DEF Return, Reject, Recall, Cancel, MayCancel, Cancellable, RejectedStatus,
                Submittable, InFlight
  <2> QED
    BY <2>1 DEF ReleasedOnce, GrantedStatus
<1>4. CASE Resync
  <2>1. CASE ResyncSkip(Now)
    <3>1. \A new, current : Written(current, new, current) = new
      BY DEF Written
    <3>2. Now.wf = Workflow /\ Now.status = status
      BY DEF Now
    <3>3. \E n : /\ Advance(Workflow, n)
                 /\ status' = Written(status,
                                IF n < Len(Workflow) THEN "in_review" ELSE GrantedStatus(DocType),
                                status)
      BY <2>1, <3>2, Zenon DEF ResyncSkip, SkipsTo
    <3>4. \E n : /\ Advance(Workflow, n)
                 /\ status' = IF n < Len(Workflow) THEN "in_review" ELSE GrantedStatus(DocType)
      BY <3>1, <3>3, Zenon
    <3>5. status \in InFlight
      BY <2>1, <3>2 DEF ResyncSkip, SkipsTo
    <3> QED
      BY <3>4, <3>5, Releases
  <2>2. CASE ResyncFinished(Now) \/ ResyncRealign(Now)
    BY <2>2 DEF ResyncFinished, ResyncRealign, ReleasedOnce
  <2> QED
    BY <1>4, <2>1, <2>2 DEF Resync, ResyncFrom
<1>5. CASE EditForm \/ SaveRouting \/ AssignHolders \/ SaveBudgetConfig
           \/ ChangeDelegation \/ UNCHANGED vars
  BY <1>5 DEF EditForm, SaveRouting, AssignHolders, SaveBudgetConfig, ChangeDelegation,
              vars, doc, ReleasedOnce
<1> QED
  BY <1>1, <1>2, <1>3, <1>4, <1>5 DEF Next

(* The next task, reimbursement or activation happens exactly when a       *)
(* document is granted and never twice, by approve and re-sync together,   *)
(* with any chains whose last step no rule skips for being unassigned.     *)
THEOREM EffectRunsOnce ==
  ASSUME EndsUnskipped
  PROVE  Spec => []ReleasedOnce
<1>1. Init => ReleasedOnce
  BY DEF Init, ReleasedOnce, GrantedStatus
<1> QED
  BY <1>1, ReleaseStep, TypeCorrect, PTL DEF Spec

-----------------------------------------------------------------------------
(* Skipped steps had their reason. *)

(* The over-budget steps of a list are the injected ones, in front of a    *)
(* purchase request's chain.                                               *)
LEMMA OverBudgetSteps ==
  ASSUME chain \in Chains, NEW mode, NEW i \in Indexes(WorkflowUnder(mode)),
         At(WorkflowUnder(mode), i).ob
  PROVE  At(WorkflowUnder(mode), i) \in {ObFinanceManager, ObGmOrOpm}
<1> DEFINE wf  == WorkflowUnder(mode)
           pre == ObPrefix(mode)
<1>1. /\ chain \in Seq([role : Roles, ob : {FALSE}])
      /\ chain \in Seq(Nodes) /\ Len(chain) \in Nat
  BY EngineHolds, ChainType, LenProperties DEF EngineAssumption
<1>2. \A j \in 1 .. Len(chain) : ~ chain[j].ob
  <2>1. \A j \in 1 .. Len(chain) : chain[j] \in [role : Roles, ob : {FALSE}]
    BY <1>1, ElementOfSeq
  <2> QED
    BY <2>1
<1>3. CASE DocType # "pr"
  <2>1. wf = chain
    BY <1>3 DEF WorkflowUnder
  <2>2. i + 1 \in 1 .. Len(chain)
    BY <1>1, <2>1 DEF Indexes
  <2> QED
    BY <1>2, <2>1, <2>2 DEF At
<1>4. CASE DocType = "pr"
  <2>1. /\ pre \in Seq(Nodes) /\ Len(pre) \in Nat
        /\ \A j \in 1 .. Len(pre) : pre[j] \in {ObFinanceManager, ObGmOrOpm}
    <3>1. pre \in Seq(Nodes) /\ Len(pre) \in Nat
      BY PrefixType, LenProperties
    <3>2. \A j \in 1 .. Len(pre) : pre[j] \in {ObFinanceManager, ObGmOrOpm}
      BY DEF ObPrefix
    <3> QED
      BY <3>1, <3>2
  <2>2. wf = pre \o chain
    BY <1>4 DEF WorkflowUnder
  <2> HIDE DEF pre, wf
  <2>3. Len(wf) = Len(pre) + Len(chain)
    BY <1>1, <2>1, <2>2, ConcatProperties
  <2>4. i \in Nat /\ i + 1 \in 1 .. Len(pre) + Len(chain)
    BY <1>1, <2>1, <2>3 DEF Indexes, wf
  <2>5. wf[i + 1] = IF i + 1 <= Len(pre) THEN pre[i + 1] ELSE chain[i + 1 - Len(pre)]
    BY <1>1, <2>1, <2>2, <2>4, ConcatProperties
  <2>6. CASE i + 1 <= Len(pre)
    BY <2>1, <2>4, <2>5, <2>6 DEF At, wf
  <2>7. CASE ~ i + 1 <= Len(pre)
    <3>1. i + 1 - Len(pre) \in 1 .. Len(chain)
      BY <1>1, <2>1, <2>4, <2>7
    <3>2. ~ wf[i + 1].ob
      BY <1>2, <2>5, <2>7, <3>1
    <3> QED
      BY <3>2 DEF At, wf
  <2> QED
    BY <2>6, <2>7
<1> QED
  BY <1>3, <1>4

(* The engine skips a step, of whatever list, only for one of the reasons. *)
LEMMA SkipReasons ==
  ASSUME TypeOK, NEW mode, NEW i \in Indexes(WorkflowUnder(mode)),
         StepSkip(At(WorkflowUnder(mode), i), org, form)
  PROVE  Warranted(At(WorkflowUnder(mode), i))
<1> DEFINE node == At(WorkflowUnder(mode), i)
<1>1. node.ob => node \in {ObFinanceManager, ObGmOrOpm}
  BY OverBudgetSteps DEF TypeOK
<1> SUFFICES Warranted(node)
  OBVIOUS
<1>4. StepSkip(node, org, form)
  OBVIOUS
<1> HIDE DEF node
<1>2. CASE ObStepWaived(node, org)
  <2>1. org.obMode \in {"fm_gm_opm", "fm_only", "allow"}
    BY <1>2, Configured DEF ObStepWaived, BudgetModes, TypeOK
  <2>2. \A k \in Indexes(ObPrefix(org.obMode)) : At(ObPrefix(org.obMode), k) # node
    BY <1>2 DEF ObStepWaived
  <2>3. CASE org.obMode = "fm_gm_opm"
    <3>1. ObPrefix(org.obMode) = <<ObFinanceManager, ObGmOrOpm>>
      BY <2>3 DEF ObPrefix
    <3>2. 0 \in Indexes(ObPrefix(org.obMode)) /\ 1 \in Indexes(ObPrefix(org.obMode))
      BY <3>1 DEF Indexes
    <3>3. node # ObFinanceManager /\ node # ObGmOrOpm
      BY <2>2, <3>1, <3>2 DEF At
    <3> QED
      BY <1>1, <1>2, <3>3 DEF ObStepWaived
  <2>4. CASE org.obMode = "fm_only"
    <3>1. ObPrefix(org.obMode) = <<ObFinanceManager>>
      BY <2>4 DEF ObPrefix
    <3>2. 0 \in Indexes(ObPrefix(org.obMode))
      BY <3>1 DEF Indexes
    <3>3. node # ObFinanceManager
      BY <2>2, <3>1, <3>2 DEF At
    <3>4. node.role = "gm_or_opm"
      BY <1>1, <1>2, <3>3 DEF ObStepWaived, ObGmOrOpm
    <3> QED
      BY <1>2, <2>4, <3>4 DEF Warranted, ObStepWaived
  <2>5. CASE org.obMode = "allow"
    BY <1>2, <2>5 DEF Warranted, ObStepWaived
  <2> QED
    BY <2>1, <2>3, <2>4, <2>5
<1>3. CASE ShouldSkipStep(node.role, org, form)
  BY <1>3 DEF ShouldSkipStep, Warranted
<1> QED
  BY <1>2, <1>3, <1>4 DEF StepSkip

(* The events of walked steps: of submissions and re-syncs, and of         *)
(* approvals.                                                              *)
Walked(e) ==
  \E mode : \E i \in Indexes(WorkflowUnder(mode)) :
    \/ /\ e = SkipEvent(WorkflowUnder(mode), i)
       /\ SkippedAtSubmit(At(WorkflowUnder(mode), i))
    \/ \E u \in Users :
         /\ e = SkipEventFor(u, WorkflowUnder(mode), i)
         /\ SkippedAtApprove(u, At(WorkflowUnder(mode), i))

(* What such an event says. *)
LEMMA WalkedSays ==
  ASSUME TypeOK, NEW e, Walked(e)
  PROVE  \E mode : \E i \in Indexes(WorkflowUnder(mode)) :
           /\ e.node = At(WorkflowUnder(mode), i)
           /\ e.how \in Hows \ {"signed"}
           /\ e.how = "conditional" => StepSkip(At(WorkflowUnder(mode), i), org, form)
           /\ e.how = "claimant" => ClaimantStepSkip(At(WorkflowUnder(mode), i), org, form)
<1>1. PICK mode : \E i \in Indexes(WorkflowUnder(mode)) :
        \/ /\ e = SkipEvent(WorkflowUnder(mode), i)
           /\ SkippedAtSubmit(At(WorkflowUnder(mode), i))
        \/ \E u \in Users :
             /\ e = SkipEventFor(u, WorkflowUnder(mode), i)
             /\ SkippedAtApprove(u, At(WorkflowUnder(mode), i))
  BY DEF Walked
<1> DEFINE wf == WorkflowUnder(mode)
<1>2. Len(wf) \in Nat
  BY WorkflowType, LenProperties DEF TypeOK
<1> HIDE DEF wf
<1>3. PICK i \in Indexes(wf) :
        \/ e = SkipEvent(wf, i) /\ SkippedAtSubmit(At(wf, i))
        \/ \E u \in Users : e = SkipEventFor(u, wf, i) /\ SkippedAtApprove(u, At(wf, i))
  BY <1>1 DEF wf
<1>4. i < Len(wf)
  BY <1>2 DEF Indexes
<1>5. CASE e = SkipEvent(wf, i) /\ SkippedAtSubmit(At(wf, i))
  <2>1. /\ e.node = At(wf, i)
        /\ e.how = IF StepSkip(At(wf, i), org, form) THEN "conditional" ELSE "claimant"
    BY <1>4, <1>5 DEF SkipEvent, Event
  <2> QED
    BY <1>5, <2>1 DEF SkippedAtSubmit, wf, Hows
<1>6. ASSUME NEW u \in Users, e = SkipEventFor(u, wf, i), SkippedAtApprove(u, At(wf, i))
      PROVE  /\ e.node = At(wf, i)
             /\ e.how \in Hows \ {"signed"}
             /\ e.how = "conditional" => StepSkip(At(wf, i), org, form)
             /\ e.how = "claimant" => ClaimantStepSkip(At(wf, i), org, form)
  <2>1. CASE ~ StepSkip(At(wf, i), org, form) /\ SameApproverSkip(u, At(wf, i), org, form)
    BY <1>4, <1>6, <2>1 DEF SkipEventFor, Event, Hows
  <2>2. CASE ~ (~ StepSkip(At(wf, i), org, form)
                  /\ SameApproverSkip(u, At(wf, i), org, form))
    <3>1. /\ e.node = At(wf, i)
          /\ e.how = IF StepSkip(At(wf, i), org, form) THEN "conditional" ELSE "claimant"
      BY <1>4, <1>6, <2>2 DEF SkipEventFor, SkipEvent, Event
    <3> QED
      BY <1>6, <2>2, <3>1 DEF SkippedAtApprove, SkippedAtSubmit, Hows
  <2> QED
    BY <2>1, <2>2
<1> QED
  BY <1>3, <1>5, <1>6 DEF wf

(* A step writes its signature of the pending step or events of steps it   *)
(* walked past.                                                            *)
LEMMA NewEvents ==
  ASSUME TypeOK, Next, NEW e \in trail', e \notin trail
  PROVE  e = Event(Workflow, step, "signed") \/ Walked(e)
<1>1. CASE Submit
  <2> DEFINE mode == SubmissionMode(form, status, applied, org)
             wf   == WorkflowUnder(mode)
             from == SubmissionStart(mode)
  <2>1. wf \in Seq(Nodes) /\ from \in Nat /\ Len(wf) \in Nat
    BY <1>1, SubmitStep, LenProperties
  <2>2. PICK n \in from .. Len(wf) :
          /\ \A i \in from .. n - 1 : SkippedAtSubmit(At(wf, i))
          /\ trail' = {x \in trail : x.step < from}
                        \cup {SkipEvent(wf, i) : i \in from .. n - 1}
    BY <1>1, Zenon DEF Submit
  <2> HIDE DEF from, wf
  <2>3. PICK i \in from .. n - 1 : e = SkipEvent(wf, i) /\ SkippedAtSubmit(At(wf, i))
    BY <2>2
  <2>4. i \in Indexes(wf)
    BY <2>1, <2>2 DEF Indexes
  <2> HIDE DEF mode
  <2> QED
    BY <2>3, <2>4 DEF wf, Walked
<1>2. ASSUME NEW u \in Users, Approve(u)
      PROVE  e = Event(Workflow, step, "signed") \/ Walked(e)
  <2>1. Len(Workflow) \in Nat /\ step \in Nat
    BY WorkflowType, LenProperties DEF TypeOK, Workflow
  <2>2. PICK n \in step + 1 .. IF step < Len(Workflow) THEN Len(Workflow) ELSE step + 1 :
          /\ \A i \in step + 1 .. n - 1 : SkippedAtApprove(u, At(Workflow, i))
          /\ trail' = trail \cup {Event(Workflow, step, "signed")}
                        \cup {SkipEventFor(u, Workflow, i) : i \in step + 1 .. n - 1}
    BY <1>2, Zenon DEF Approve
  <2>3. CASE e # Event(Workflow, step, "signed")
    <3>1. PICK i \in step + 1 .. n - 1 :
            e = SkipEventFor(u, Workflow, i) /\ SkippedAtApprove(u, At(Workflow, i))
      BY <2>2, <2>3
    <3>2. i \in Indexes(Workflow)
      BY <2>1, <2>2, <3>1 DEF Indexes
    <3> QED
      BY <3>1, <3>2 DEF Walked, Workflow
  <2> QED
    BY <2>3
<1>3. CASE Resync
  <2>1. CASE ResyncSkip(Now)
    <3> DEFINE at == TrueStep(Now)
    <3>1. Len(Workflow) \in Nat /\ (at # -1 => at \in Indexes(Workflow) /\ at \in Nat)
      BY TrueStepRange, WorkflowType, LenProperties DEF TypeOK, Workflow, Indexes
    <3>2. Now.wf = Workflow
      BY DEF Now
    <3>3. at # -1
      BY <2>1 DEF ResyncSkip, SkipsTo
    <3>4. PICK n \in at + 1 .. Len(Workflow) :
            /\ \A i \in at .. n - 1 : SkippedAtSubmit(At(Workflow, i))
            /\ trail' = trail \cup {SkipEvent(Workflow, i) : i \in at .. n - 1}
      BY <2>1, <3>2 DEF ResyncSkip, SkipsTo
    <3> HIDE DEF at
    <3>5. PICK i \in at .. n - 1 : e = SkipEvent(Workflow, i) /\ SkippedAtSubmit(At(Workflow, i))
      BY <3>4
    <3>6. i \in Indexes(Workflow)
      BY <3>1, <3>3, <3>4 DEF Indexes
    <3> QED
      BY <3>5, <3>6 DEF Walked, Workflow
  <2>2. CASE ResyncFinished(Now) \/ ResyncRealign(Now)
    BY <2>2 DEF ResyncFinished, ResyncRealign
  <2> QED
    BY <1>3, <2>1, <2>2 DEF Resync, ResyncFrom
<1>4. CASE trail' = trail
  BY <1>4
<1> QED
  BY <1>1, <1>2, <1>3, <1>4
  DEF Next, Return, Reject, Recall, Cancel, EditForm, SaveRouting, AssignHolders,
      SaveBudgetConfig, ChangeDelegation, doc

(* A step is skipped as conditional only for its own reason, whichever of  *)
(* submission, approval and re-sync walks past it: over-budget steps only  *)
(* once Budget Config was loosened past them, never under hard_block.      *)
THEOREM SkipsHaveReasons == Spec => SkipsWarranted
<1>1. ASSUME TypeOK, [Next]_vars
      PROVE  [\A e \in trail' \ trail : e.how = "conditional" => Warranted(e.node)]_vars
  <2> SUFFICES ASSUME Next, NEW e \in trail', e \notin trail, e.how = "conditional"
               PROVE  Warranted(e.node)
    BY <1>1
  <2>1. Walked(e)
    BY <1>1, NewEvents DEF Event
  <2>2. PICK mode : \E i \in Indexes(WorkflowUnder(mode)) :
          e.node = At(WorkflowUnder(mode), i) /\ StepSkip(e.node, org, form)
    BY <1>1, <2>1, WalkedSays
  <2> QED
    BY <1>1, <2>2, SkipReasons
<1> QED
  BY <1>1, TypeCorrect, PTL DEF Spec, SkipsWarranted

-----------------------------------------------------------------------------
(* Nothing is approved unsigned. *)

LEMMA SignedStep ==
  ASSUME EndsUnskipped
  PROVE  TypeOK /\ GrantedWasSigned /\ [Next]_vars => GrantedWasSigned'
<1> SUFFICES ASSUME TypeOK, GrantedWasSigned, [Next]_vars PROVE GrantedWasSigned'
  OBVIOUS
<1>1. CASE Submit
  BY <1>1, SubmitWaits DEF GrantedWasSigned, Granted
<1>2. ASSUME NEW u \in Users, Approve(u)
      PROVE  GrantedWasSigned'
  <2>1. Event(Workflow, step, "signed") \in trail'
    BY <1>2, ApproveStep, Zenon
  <2>2. Event(Workflow, step, "signed").how = "signed"
    BY DEF Event
  <2> QED
    BY <2>1, <2>2 DEF GrantedWasSigned
<1>3. ASSUME NEW u \in Users, Return(u) \/ Reject(u) \/ Recall(u) \/ Cancel(u)
      PROVE  GrantedWasSigned'
  BY <1>3 DEF Return, Reject, Recall, Cancel, RejectedStatus, GrantedWasSigned, Granted
<1>4. CASE Resync
  <2>1. CASE ResyncSkip(Now)
    <3> DEFINE at == TrueStep(Now)
    <3>1. /\ Workflow \in Seq(Nodes) /\ Len(Workflow) \in Nat /\ Len(Workflow) > 0
          /\ ~ StepSkip(At(Workflow, Len(Workflow) - 1), org, form)
      BY LastStepWaits DEF TypeOK, Workflow
    <3>2. /\ Now.wf = Workflow /\ Now.status = status
          /\ \A new, current : Written(current, new, current) = new
      BY DEF Now, Written
    <3>3. at \in Indexes(Workflow)
      BY <2>1, TrueStepRange DEF ResyncSkip, SkipsTo
    <3>4. PICK n \in at + 1 .. Len(Workflow) :
            /\ n = Len(Workflow) => \A i \in at .. n - 1 : StepSkip(At(Workflow, i), org, form)
            /\ status' = Written(status,
                           IF n < Len(Workflow) THEN "in_review" ELSE GrantedStatus(DocType), status)
      BY <2>1, <3>2 DEF ResyncSkip, SkipsTo
    <3> HIDE DEF at
    <3>5. n < Len(Workflow)
      BY <3>1, <3>3, <3>4 DEF Indexes
    <3>6. status' = "in_review"
      BY <3>2, <3>4, <3>5
    <3> QED
      BY <3>6 DEF GrantedWasSigned, Granted
  <2>2. CASE ResyncFinished(Now) \/ ResyncRealign(Now)
    BY <2>2 DEF ResyncFinished, ResyncRealign, GrantedWasSigned, Granted
  <2> QED
    BY <1>4, <2>1, <2>2 DEF Resync, ResyncFrom
<1>5. CASE EditForm \/ SaveRouting \/ AssignHolders \/ SaveBudgetConfig
           \/ ChangeDelegation \/ UNCHANGED vars
  BY <1>5 DEF EditForm, SaveRouting, AssignHolders, SaveBudgetConfig, ChangeDelegation,
              vars, doc, GrantedWasSigned, Granted
<1> QED
  BY <1>1, <1>2, <1>3, <1>4, <1>5 DEF Next

(* With any chains whose last step no rule skips for being unassigned, no  *)
(* document is ever approved without a signature: whatever submissions and *)
(* re-syncs skip for the claimant or for vacancies, the last word is       *)
(* somebody's approval.                                                    *)
THEOREM NothingUnsigned ==
  ASSUME EndsUnskipped
  PROVE  Spec => []GrantedWasSigned
<1>1. Init => GrantedWasSigned
  BY DEF Init, GrantedWasSigned, Granted
<1> QED
  BY <1>1, SignedStep, TypeCorrect, PTL DEF Spec

-----------------------------------------------------------------------------
(* Payments of several departments are approved at GM/OPM level.           *)

(* The GM or OPM step of a payment is passed by a signature or by a signer *)
(* the engine takes to hold it, in no other way.                           *)
GmOrOpmKept ==
  \A e \in trail : e.node.role \in GmOrOpmLevel => e.how \in {"signed", "same_approver"}

LEMMA GmOrOpmStep ==
  ASSUME DocType \in {"pa", "pa_dir"}
  PROVE  TypeOK /\ GmOrOpmKept /\ [Next]_vars => GmOrOpmKept'
<1> SUFFICES ASSUME TypeOK, GmOrOpmKept, Next, NEW e \in trail', e \notin trail,
                    e.node.role \in GmOrOpmLevel
             PROVE  e.how \in {"signed", "same_approver"}
  BY DEF GmOrOpmKept, vars, doc
<1>1. CASE e = Event(Workflow, step, "signed")
  BY <1>1 DEF Event
<1>2. CASE Walked(e)
  <2>1. PICK mode : \E i \in Indexes(WorkflowUnder(mode)) :
          /\ e.node = At(WorkflowUnder(mode), i)
          /\ e.how \in Hows \ {"signed"}
          /\ e.how = "conditional" => StepSkip(At(WorkflowUnder(mode), i), org, form)
          /\ e.how = "claimant" => ClaimantStepSkip(At(WorkflowUnder(mode), i), org, form)
    BY <1>2, WalkedSays
  <2>2. e.how # "conditional"
    BY <2>1 DEF StepSkip, ShouldSkipStep, GmOrOpmLevel
  <2>3. e.how # "claimant"
    BY <2>1 DEF ClaimantStepSkip, IsClaim
  <2> QED
    BY <2>1, <2>2, <2>3 DEF Hows
<1> QED
  BY <1>1, <1>2, NewEvents

(* A payment covering several departments is never approved below GM/OPM   *)
(* level, although the departments' own steps step aside for it and it may *)
(* become one, or stop being one, while it is returned.  (For the other    *)
(* types of document CrossDeptApprovedAbove says nothing.)                 *)
THEOREM ApprovedAbove ==
  ASSUME UnambiguousChains, GmOrOpmListed
  PROVE  Spec => []CrossDeptApprovedAbove
<1>1. CASE DocType # "pa"
  <2>1. CrossDeptApprovedAbove
    BY <1>1 DEF CrossDeptApprovedAbove, CrossDept
  <2> QED
    BY <2>1, PTL
<1>2. CASE DocType = "pa"
  <2>1. Init => GmOrOpmKept
    BY DEF Init, GmOrOpmKept
  <2>2. TypeOK /\ GmOrOpmKept /\ [Next]_vars => GmOrOpmKept'
    BY <1>2, GmOrOpmStep
  <2>3. StepsInv /\ GmOrOpmKept => CrossDeptApprovedAbove
    <3> SUFFICES ASSUME StepsInv, GmOrOpmKept, Granted
                 PROVE  \E e \in trail : /\ e.node.role \in GmOrOpmLevel
                                         /\ e.how \in {"signed", "same_approver"}
      BY DEF CrossDeptApprovedAbove
    <3>1. Workflow = chain /\ chain \in Chains
      BY <1>2 DEF Workflow, WorkflowUnder, StepsInv, TypeOK
    <3>2. PICK i \in Indexes(chain) : At(chain, i).role \in GmOrOpmLevel
      BY <1>2, <3>1 DEF GmOrOpmListed
    <3>3. PICK how \in Hows : Event(chain, i, how) \in trail
      BY <3>1, <3>2 DEF StepsInv, EveryStepCleared, Cleared
    <3>4. i < Len(chain)
      BY <3>1, <3>2, ChainType, NodeAt
    <3>5. Event(chain, i, how).node.role \in GmOrOpmLevel
      BY <3>2, <3>4 DEF Event
    <3> QED
      BY <3>3, <3>5 DEF GmOrOpmKept
  <2> QED
    BY <2>1, <2>2, <2>3, StepsAlways, TypeCorrect, PTL DEF Spec
<1> QED
  BY <1>1, <1>2

-----------------------------------------------------------------------------
(* Every manager of a visit's zone is asked. *)

(* A step that lands a visit at step n with that step's tasks asks the     *)
(* managers of its zone, if n is the zone's step.                          *)
LEMMA ZoneLanded ==
  ASSUME DocType = "vms_visit", NEW n,
         UNCHANGED <<form, chain>>, step' = n, n < Len(chain),
         ~ SkippedAtSubmit(At(chain, n)),
         OpenApprovals' = StepTasks(At(chain, n), org, form)
  PROVE  EveryZoneManagerAsked'
<1> DEFINE node == At(chain, n)
<1> SUFFICES ASSUME node.role = "zone_manager"
             PROVE  {t.user : t \in OpenApprovals'} = form.zone
  BY DEF EveryZoneManagerAsked, StepRole, Workflow, WorkflowUnder
<1>1. form.zone # {}
  BY DEF SkippedAtSubmit, StepSkip, ShouldSkipStep
<1>2. StepTasks(node, org, form) = {ApproveTask(node.role, m) : m \in form.zone}
  BY <1>1 DEF StepTasks
<1>3. \A m : ApproveTask(node.role, m).user = m
  BY DEF ApproveTask
<1> HIDE DEF node
<1>4. {t.user : t \in {ApproveTask(node.role, m) : m \in form.zone}} = form.zone
  BY <1>3
<1> QED
  BY <1>2, <1>4 DEF node

LEMMA AskedStep ==
  ASSUME DocType = "vms_visit", UnambiguousChains,
         StepsInv, EveryZoneManagerAsked, [Next]_vars
  PROVE  EveryZoneManagerAsked'
<1>1. /\ TypeOK /\ Run
      /\ Workflow = chain /\ \A mode : WorkflowUnder(mode) = chain
      /\ chain \in Seq(Nodes) /\ Len(chain) \in Nat
  BY ChainType, LenProperties DEF StepsInv, Run, Workflow, WorkflowUnder, TypeOK
<1>2. CASE Submit
  <2> DEFINE from == SubmissionStart(SubmissionMode(form, status, applied, org))
  <2>1. OpenApprovals = {}
    BY <1>2 DEF StepsInv, TaskAtPendingStep, Submit, Submittable, InFlight
  <2>2. from \in Nat /\ UNCHANGED <<form, chain>>
    BY <1>1, <1>2, SubmissionStarts DEF Submit
  <2>3. PICK n \in from .. Len(chain) :
          /\ n < Len(chain) => ~ SkippedAtSubmit(At(chain, n))
          /\ status' = IF n < Len(chain) THEN "submitted" ELSE "approved"
          /\ step' = n
          /\ tasks' = IF n < Len(chain) THEN tasks \cup StepTasks(At(chain, n), org, form)
                      ELSE tasks
    <3> DEFINE wf == WorkflowUnder(SubmissionMode(form, status, applied, org))
    <3>1. \E n \in from .. Len(wf) :
            /\ n < Len(wf) => ~ SkippedAtSubmit(At(wf, n))
            /\ status' = IF n < Len(wf) THEN "submitted" ELSE "approved"
            /\ step' = n
            /\ tasks' = IF n < Len(wf) THEN tasks \cup StepTasks(At(wf, n), org, form)
                        ELSE tasks
      BY <1>2, Zenon DEF Submit
    <3>2. wf = chain
      BY <1>1
    <3> HIDE DEF wf, from
    <3> QED
      BY <3>1, <3>2
  <2> HIDE DEF from
  <2>4. CASE n < Len(chain)
    <3>1. {t \in StepTasks(At(chain, n), org, form) : t.kind = "approve"}
            = StepTasks(At(chain, n), org, form)
      BY <1>1, <2>2, <2>3, <2>4, OpenedTasks
    <3>2. OpenApprovals' = StepTasks(At(chain, n), org, form)
      BY <2>1, <2>3, <2>4, <3>1 DEF OpenApprovals
    <3> QED
      BY <2>2, <2>3, <2>4, <3>2, ZoneLanded
  <2>5. CASE ~ n < Len(chain)
    BY <2>3, <2>5 DEF EveryZoneManagerAsked, InFlight
  <2> QED
    BY <2>4, <2>5
<1>3. ASSUME NEW u \in Users, Approve(u)
      PROVE  EveryZoneManagerAsked'
  <2>1. step \in Nat /\ UNCHANGED <<form, chain>>
    BY <1>1, <1>3 DEF TypeOK, Approve
  <2>2. PICK n \in step + 1 .. IF step < Len(chain) THEN Len(chain) ELSE step + 1 :
          /\ n < Len(chain) => ~ SkippedAtApprove(u, At(chain, n))
          /\ Advance(chain, n)
          /\ step' = IF n < Len(chain) THEN n ELSE step
          /\ status' = IF n < Len(chain) THEN "in_review" ELSE GrantedStatus(DocType)
    BY <1>1, <1>3, Zenon DEF Approve
  <2>3. CASE n < Len(chain)
    <3>1. n \in Nat /\ ~ SkippedAtSubmit(At(chain, n))
      BY <1>1, <2>1, <2>2, <2>3 DEF SkippedAtApprove
    <3>2. OpenApprovals' = StepTasks(At(chain, n), org, form)
      BY <1>1, <2>2, <2>3, <3>1, OpenedTasks DEF OpenApprovals, Advance
    <3> QED
      BY <2>1, <2>2, <2>3, <3>1, <3>2, ZoneLanded
  <2>4. CASE ~ n < Len(chain)
    BY <2>2, <2>4 DEF EveryZoneManagerAsked, InFlight, GrantedStatus
  <2> QED
    BY <2>3, <2>4
<1>4. ASSUME NEW u \in Users, Return(u) \/ Reject(u) \/ Recall(u) \/ Cancel(u)
      PROVE  EveryZoneManagerAsked'
  BY <1>4 DEF Return, Reject, Recall, Cancel, RejectedStatus, EveryZoneManagerAsked, InFlight
<1>5. CASE EditForm
  BY <1>5 DEF EditForm, Submittable, EveryZoneManagerAsked, InFlight
<1>6. CASE Resync
  <2>1. UNCHANGED <<form, chain>>
    BY <1>6 DEF Resync, ResyncFrom
  <2>2. /\ Now.wf = Workflow /\ Now.status = status /\ Now.step = step
        /\ \A new, current : Written(current, new, current) = new
    BY DEF Now, Written
  <2>3. CASE ResyncFinished(Now)
    BY <2>2, <2>3 DEF ResyncFinished, EveryZoneManagerAsked
  <2>4. CASE ResyncSkip(Now)
    <3>1. TrueStep(Now) \in Nat
      BY <1>1, <2>4, TrueStepRange DEF ResyncSkip, SkipsTo, Indexes
    <3>2. PICK n \in TrueStep(Now) + 1 .. Len(chain) :
            /\ n < Len(chain) => ~ SkippedAtSubmit(At(chain, n))
            /\ Advance(chain, n)
            /\ step' = Written(step, n, step)
            /\ status' = Written(status,
                           IF n < Len(chain) THEN "in_review" ELSE GrantedStatus(DocType), status)
      BY <1>1, <2>2, <2>4 DEF ResyncSkip, SkipsTo
    <3>3. CASE n < Len(chain)
      <4>1. n \in Nat
        BY <3>1, <3>2
      <4>2. OpenApprovals' = StepTasks(At(chain, n), org, form)
        BY <1>1, <3>2, <3>3, <4>1, OpenedTasks DEF OpenApprovals, Advance
      <4> QED
        BY <2>1, <2>2, <3>2, <3>3, <4>2, ZoneLanded
    <3>4. CASE ~ n < Len(chain)
      BY <2>2, <3>2, <3>4 DEF EveryZoneManagerAsked, InFlight, GrantedStatus
    <3> QED
      BY <3>3, <3>4
  <2>5. CASE ResyncRealign(Now)
    <3>1. status \in InFlight /\ TrueStep(Now) # -1
      BY <2>2, <2>5 DEF ResyncRealign, Realigns
    <3>2. TrueStep(Now) = step
      BY <1>1, <3>1, TasksNameTheIndex
    <3>3. /\ ~ SkippedAtSubmit(At(chain, step))
          /\ step' = Written(step, step, step)
          /\ tasks' \in {tasks, StepTasks(At(chain, step), org, form)}
      BY <1>1, <2>2, <2>5, <3>2 DEF ResyncRealign, Realigns
    <3>4. step' = step /\ step \in Nat /\ step < Len(chain)
      BY <1>1, <2>2, <3>1, <3>3, NodeAt DEF Run, EveryStepCleared
    <3>5. CASE tasks' = tasks
      BY <1>1, <2>1, <3>1, <3>4, <3>5
      DEF EveryZoneManagerAsked, OpenApprovals, StepRole, Workflow, WorkflowUnder
    <3>6. CASE tasks' = StepTasks(At(chain, step), org, form)
      <4>1. OpenApprovals' = StepTasks(At(chain, step), org, form)
        BY <1>1, <3>4, <3>6, OpenedTasks DEF OpenApprovals
      <4> QED
        BY <2>1, <3>3, <3>4, <4>1, ZoneLanded
    <3> QED
      BY <3>3, <3>5, <3>6
  <2> QED
    BY <1>6, <2>3, <2>4, <2>5 DEF Resync, ResyncFrom
<1>7. CASE SaveRouting \/ AssignHolders \/ SaveBudgetConfig \/ ChangeDelegation
           \/ UNCHANGED vars
  <2>1. UNCHANGED <<status, step, form, tasks, chain>>
    BY <1>7 DEF SaveRouting, AssignHolders, SaveBudgetConfig, ChangeDelegation, vars, doc
  <2> QED
    BY <2>1 DEF EveryZoneManagerAsked, OpenApprovals, StepRole, Workflow, WorkflowUnder
<1> QED
  BY <1>2, <1>3, <1>4, <1>5, <1>6, <1>7 DEF Next

(* While a visit waits for its zone, the users with a task are exactly the *)
(* managers of the zone its form names, through every re-sync and change   *)
(* of the organisation.                                                    *)
THEOREM WholeZoneAsked ==
  ASSUME DocType = "vms_visit", UnambiguousChains
  PROVE  Spec => []EveryZoneManagerAsked
<1>1. Init => EveryZoneManagerAsked
  BY DEF Init, EveryZoneManagerAsked, InFlight
<1> QED
  BY <1>1, AskedStep, StepsAlways, PTL DEF Spec

-----------------------------------------------------------------------------
(* A re-sync leaves in line what it changes. *)

(* Whatever a re-sync does to a document, afterwards its pending step is   *)
(* not one to skip and its open tasks are those a fresh routing would      *)
(* create, for every type of document and every change of the              *)
(* configuration since the last one.                                       *)
THEOREM ResyncRepairs ==
  ASSUME UnambiguousChains
  PROVE  Spec => ResyncAligns
<1>1. ASSUME StepsInv, StepsInv', [Next]_vars
      PROVE  [Resync => Aligned']_vars
  <2> SUFFICES ASSUME Resync, status' \in InFlight
               PROVE  /\ ~ SkippedAtSubmit(At(Workflow, step))'
                      /\ OpenApprovals' = StepTasks(At(Workflow, step), org, form)'
    BY DEF Aligned
  <2>1. UNCHANGED <<applied, form, org, chain>>
    BY DEF Resync, ResyncFrom
  <2>2. /\ Now.wf = Workflow /\ Now.status = status /\ Now.step = step
        /\ \A new, current : Written(current, new, current) = new
    BY DEF Now, Written
  <2>3. status \in InFlight
    BY <2>2 DEF Resync, ResyncFrom, ResyncFinished, ResyncSkip, SkipsTo, ResyncRealign, Realigns
  <2>4. /\ TypeOK /\ Run /\ ModeFrozen'
        /\ Workflow \in Seq(Nodes) /\ Len(Workflow) \in Nat
    BY <1>1, WorkflowType, LenProperties DEF StepsInv, Run, TypeOK, Workflow
  <2>5. Workflow' = Workflow
    BY <2>1, <2>3, <2>4, FrozenList, FrozenListNext DEF Run
  <2>6. ASSUME NEW n \in Nat, n < Len(Workflow), step' = n,
               ~ SkippedAtSubmit(At(Workflow, n)),
               tasks' = StepTasks(At(Workflow, n), org, form)
        PROVE  /\ ~ SkippedAtSubmit(At(Workflow, step))'
               /\ OpenApprovals' = StepTasks(At(Workflow, step), org, form)'
    <3>1. At(Workflow, step)' = At(Workflow, n)
      BY <2>5, <2>6 DEF At
    <3>2. OpenApprovals' = StepTasks(At(Workflow, n), org, form)
      BY <2>4, <2>6, OpenedTasks DEF OpenApprovals
    <3>3. ~ SkippedAtSubmit(At(Workflow, step))'
      BY <2>1, <2>6, <3>1 DEF SkippedAtSubmit
    <3> QED
      BY <2>1, <3>1, <3>2, <3>3
  <2>7. CASE ResyncFinished(Now)
    BY <2>2, <2>3, <2>7 DEF ResyncFinished
  <2>8. CASE ResyncSkip(Now)
    <3>1. TrueStep(Now) \in Nat
      BY <2>4, <2>8, TrueStepRange DEF ResyncSkip, SkipsTo, Indexes
    <3>2. PICK n \in TrueStep(Now) + 1 .. Len(Workflow) :
            /\ n < Len(Workflow) => ~ SkippedAtSubmit(At(Workflow, n))
            /\ Advance(Workflow, n)
            /\ step' = Written(step, n, step)
            /\ status' = Written(status,
                           IF n < Len(Workflow) THEN "in_review" ELSE GrantedStatus(DocType), status)
      BY <2>2, <2>8 DEF ResyncSkip, SkipsTo
    <3>3. n < Len(Workflow)
      BY <2>2, <3>2 DEF InFlight, GrantedStatus
    <3>4. n \in Nat
      BY <3>1, <3>2
    <3> QED
      BY <2>2, <2>6, <3>2, <3>3, <3>4 DEF Advance
  <2>9. CASE ResyncRealign(Now)
    <3>1. TrueStep(Now) # -1
      BY <2>9 DEF ResyncRealign, Realigns
    <3>2. TrueStep(Now) = step
      BY <2>3, <2>4, <3>1, TasksNameTheIndex
    <3>3. /\ ~ SkippedAtSubmit(At(Workflow, step))
          /\ Drifted(Now, At(Workflow, step), step)
          /\ step' = Written(step, step, step)
          /\ tasks' = IF Drifted(Now, At(Workflow, step), step)
                      THEN StepTasks(At(Workflow, step), org, form) ELSE tasks
      BY <2>2, <2>9, <3>2 DEF ResyncRealign, Realigns
    <3>4. step \in Nat /\ step < Len(Workflow)
      BY <2>3, <2>4, NodeAt DEF Run, EveryStepCleared
    <3> QED
      BY <2>2, <2>6, <3>3, <3>4
  <2> QED
    BY <2>7, <2>8, <2>9 DEF Resync, ResyncFrom
<1> QED
  BY <1>1, StepsAlways, PTL DEF Spec, ResyncAligns

-----------------------------------------------------------------------------
(* A re-sync sees what has drifted.  OneRouting is inductive with          *)
(* StepsInv: the open approvals of a document in flight are those of its   *)
(* pending step, routed once, under the organisation of that moment.       *)

OneRouting ==
  status \in InFlight =>
    \E o \in Orgs : OpenApprovals = StepTasks(At(Workflow, step), o, form)

(* A step that lands a document at step n with that step's tasks. *)
LEMMA RoutedLanded ==
  ASSUME TypeOK, NEW wf \in Seq(Nodes), NEW n \in Nat, n < Len(wf),
         UNCHANGED form, Workflow' = wf, step' = n,
         tasks' = StepTasks(At(wf, n), org, form)
  PROVE  OneRouting'
<1>1. OpenApprovals' = StepTasks(At(wf, n), org, form)
  BY OpenedTasks DEF OpenApprovals
<1>2. At(Workflow, step)' = At(wf, n)
  BY DEF At
<1> QED
  BY <1>1, <1>2 DEF OneRouting, TypeOK

LEMMA RoutedStep ==
  ASSUME UnambiguousChains, StepsInv, StepsInv', OneRouting, [Next]_vars
  PROVE  OneRouting'
<1>1. /\ TypeOK /\ Run /\ ModeFrozen /\ ModeFrozen'
      /\ Workflow \in Seq(Nodes) /\ Len(Workflow) \in Nat
  BY WorkflowType, LenProperties DEF StepsInv, Run, TypeOK, Workflow
<1>2. ASSUME status \in InFlight, status' \in InFlight, UNCHANGED <<applied, chain>>
      PROVE  Workflow' = Workflow
  BY <1>1, <1>2, FrozenList, FrozenListNext
<1>3. CASE Submit
  <2> DEFINE mode == SubmissionMode(form, status, applied, org)
             wf   == WorkflowUnder(mode)
             from == SubmissionStart(mode)
  <2>1. /\ wf \in Seq(Nodes)
        /\ applied' = IF DocType = "pr" THEN mode ELSE applied
    BY <1>1, <1>3, SubmitStep, Zenon
  <2>2. PICK n \in Nat :
          /\ status' = IF n < Len(wf) THEN "submitted" ELSE "approved"
          /\ step' = n
          /\ tasks' = IF n < Len(wf) THEN tasks \cup StepTasks(At(wf, n), org, form)
                      ELSE tasks
    BY <1>1, <1>3, SubmitStep, Zenon
  <2>3. UNCHANGED <<form, chain>> /\ status \in Submittable
    BY <1>3 DEF Submit
  <2>4. OpenApprovals = {}
    BY <1>1, <2>3 DEF Run, TaskAtPendingStep, Submittable, InFlight
  <2>5. WorkflowUnder(applied') = wf
    BY <2>1 DEF WorkflowUnder
  <2> HIDE DEF mode, wf, from
  <2>6. CASE n < Len(wf)
    <3>1. Workflow' = wf
      BY <1>1, <2>2, <2>3, <2>5, <2>6, FrozenListNext DEF InFlight
    <3>2. {t \in StepTasks(At(wf, n), org, form) : t.kind = "approve"}
            = StepTasks(At(wf, n), org, form)
      BY <1>1, <2>1, <2>6, OpenedTasks
    <3>3. OpenApprovals' = StepTasks(At(wf, n), org, form)
      BY <2>2, <2>4, <2>6, <3>2 DEF OpenApprovals
    <3>4. At(Workflow, step)' = At(wf, n)
      BY <2>2, <3>1 DEF At
    <3> QED
      BY <1>1, <2>3, <3>3, <3>4 DEF OneRouting, TypeOK
  <2>7. CASE ~ n < Len(wf)
    BY <2>2, <2>7 DEF OneRouting, InFlight
  <2> QED
    BY <2>6, <2>7
<1>4. ASSUME NEW u \in Users, Approve(u)
      PROVE  OneRouting'
  <2>1. UNCHANGED <<applied, form, chain>> /\ status \in InFlight
    BY <1>4 DEF Approve
  <2>2. PICK n \in Nat :
          /\ step' = IF n < Len(Workflow) THEN n ELSE step
          /\ status' = IF n < Len(Workflow) THEN "in_review" ELSE GrantedStatus(DocType)
          /\ tasks' = IF n < Len(Workflow) THEN StepTasks(At(Workflow, n), org, form) ELSE {}
    BY <1>1, <1>4, ApproveStep, Zenon
  <2>3. CASE n < Len(Workflow)
    BY <1>1, <1>2, <2>1, <2>2, <2>3, RoutedLanded DEF InFlight
  <2>4. CASE ~ n < Len(Workflow)
    BY <2>2, <2>4 DEF OneRouting, InFlight, GrantedStatus
  <2> QED
    BY <2>3, <2>4
<1>5. ASSUME NEW u \in Users, Return(u) \/ Reject(u) \/ Recall(u) \/ Cancel(u)
      PROVE  OneRouting'
  BY <1>5 DEF Return, Reject, Recall, Cancel, RejectedStatus, OneRouting, InFlight
<1>6. CASE EditForm
  BY <1>6 DEF EditForm, Submittable, OneRouting, InFlight
<1>7. CASE Resync
  <2>1. UNCHANGED <<applied, form, lastReturn, org, standIn, chain>>
    BY <1>1, <1>7, ResyncStep, Zenon
  <2>2. CASE status \notin InFlight /\ UNCHANGED <<status, step, trail, released>>
    BY <2>2 DEF OneRouting
  <2>3. CASE status \in InFlight /\ TrueStep(Now) \in Indexes(Workflow)
    <3>1. TrueStep(Now) = step /\ step \in Nat /\ step < Len(Workflow)
      BY <1>1, <2>3, NodeAt, TasksNameTheIndex
    <3>2. CASE \E n \in Nat :
                 /\ step' = n
                 /\ status' = IF n < Len(Workflow) THEN "in_review" ELSE GrantedStatus(DocType)
                 /\ tasks' = IF n < Len(Workflow)
                             THEN StepTasks(At(Workflow, n), org, form) ELSE {}
      <4>1. PICK n \in Nat :
                 /\ step' = n
                 /\ status' = IF n < Len(Workflow) THEN "in_review" ELSE GrantedStatus(DocType)
                 /\ tasks' = IF n < Len(Workflow)
                             THEN StepTasks(At(Workflow, n), org, form) ELSE {}
        BY <3>2
      <4>2. CASE n < Len(Workflow)
        BY <1>1, <1>2, <2>1, <2>3, <4>1, <4>2, RoutedLanded DEF InFlight
      <4>3. CASE ~ n < Len(Workflow)
        BY <4>1, <4>3 DEF OneRouting, InFlight, GrantedStatus
      <4> QED
        BY <4>2, <4>3
    <3>3. CASE /\ step' = step /\ status' = status
               /\ tasks' \in {tasks, StepTasks(At(Workflow, step), org, form)}
      <4>1. Workflow' = Workflow
        BY <1>2, <2>1, <2>3, <3>3
      <4>2. CASE tasks' = tasks
        <5>1. At(Workflow, step)' = At(Workflow, step) /\ OpenApprovals' = OpenApprovals
          BY <3>3, <4>1, <4>2 DEF At, OpenApprovals
        <5> QED
          BY <2>1, <2>3, <5>1 DEF OneRouting
      <4>3. CASE tasks' = StepTasks(At(Workflow, step), org, form)
        BY <1>1, <2>1, <3>1, <3>3, <4>1, <4>3, RoutedLanded
      <4> QED
        BY <3>3, <4>2, <4>3
    <3> QED
      BY <1>1, <1>7, <2>3, <3>1, <3>2, <3>3, ResyncStep, Zenon
  <2> QED
    BY <1>1, <1>7, <2>2, <2>3, ResyncStep, Zenon
<1>8. CASE SaveRouting \/ AssignHolders \/ SaveBudgetConfig \/ ChangeDelegation
           \/ UNCHANGED vars
  <2>1. UNCHANGED <<status, step, applied, form, tasks, chain>>
    BY <1>8 DEF SaveRouting, AssignHolders, SaveBudgetConfig, ChangeDelegation, vars, doc
  <2> SUFFICES ASSUME status \in InFlight
               PROVE  OneRouting'
    BY <2>1 DEF OneRouting
  <2>2. At(Workflow, step)' = At(Workflow, step) /\ OpenApprovals' = OpenApprovals
    BY <1>2, <2>1 DEF At, OpenApprovals
  <2> QED
    BY <2>1, <2>2 DEF OneRouting
<1> QED
  BY <1>3, <1>4, <1>5, <1>6, <1>7, <1>8 DEF Next

LEMMA RoutedAlways ==
  ASSUME UnambiguousChains
  PROVE  Spec => []OneRouting
<1>1. Init => OneRouting
  BY DEF Init, OneRouting, InFlight
<1> QED
  BY <1>1, RoutedStep, StepsAlways, PTL DEF Spec

(* A list walked from a skipped step has a first step that is not, or ends. *)
LEMMA WalkEnds ==
  ASSUME NEW wf \in Seq(Nodes), NEW at \in Indexes(wf), SkippedAtSubmit(At(wf, at))
  PROVE  \E n \in at + 1 .. Len(wf) :
           /\ \A i \in at .. n - 1 : SkippedAtSubmit(At(wf, i))
           /\ n < Len(wf) => ~ SkippedAtSubmit(At(wf, n))
<1> DEFINE stops == {n \in at + 1 .. Len(wf) : n < Len(wf) => ~ SkippedAtSubmit(At(wf, n))}
<1>1. at \in Nat /\ Len(wf) \in Nat /\ at < Len(wf)
  BY NodeAt, LenProperties
<1>2. Len(wf) \in stops /\ stops \subseteq Nat
  BY <1>1
<1>3. \A n \in stops : n \in at + 1 .. Len(wf) /\ (n < Len(wf) => ~ SkippedAtSubmit(At(wf, n)))
  OBVIOUS
<1>4. \A n \in at + 1 .. Len(wf) :
        (n < Len(wf) => ~ SkippedAtSubmit(At(wf, n))) => n \in stops
  OBVIOUS
<1> HIDE DEF stops
<1>5. PICK n \in stops : \A k \in stops : n <= k
  BY <1>2, LeastNatural
<1>6. ASSUME NEW i \in at .. n - 1
      PROVE  SkippedAtSubmit(At(wf, i))
  <2>1. CASE i = at
    BY <2>1
  <2>2. CASE i # at
    <3>1. i \in at + 1 .. Len(wf) /\ i \notin stops
      BY <1>1, <1>3, <1>5, <2>2
    <3> QED
      BY <1>4, <3>1
  <2> QED
    BY <2>1, <2>2
<1> QED
  BY <1>3, <1>5, <1>6

(* The open tasks of a document name its pending step, but where a GM or   *)
(* OPM post is a step of its own.                                          *)
LEMMA TasksFindTheIndex ==
  ASSUME UnambiguousChains, TypeOK, Run, status \in InFlight,
         StepRole \notin {"gm", "opm"}
  PROVE  TrueStep(Now) = step
<1> DEFINE open   == IF DocType = "posign" THEN {} ELSE OpenApprovals
           mapped == {StepIndexForTaskRole(Workflow, t.role, step) : t \in open} \ {-1}
           first  == CHOOSE i \in mapped : \A j \in mapped : i <= j
<1>1. /\ Workflow \in Seq(Nodes) /\ step \in Indexes(Workflow) /\ step < Len(Workflow)
      /\ step \in Nat
  BY WorkflowType, NodeAt DEF TypeOK, Workflow, Run, EveryStepCleared
<1>2. ASSUME NEW t \in OpenApprovals
      PROVE  StepIndexForTaskRole(Workflow, t.role, step) = step
  <2>1. ServesStep(t, At(Workflow, step).role) /\ At(Workflow, step).role \notin {"gm", "opm"}
    BY <1>1 DEF Run, TaskAtPendingStep, StepRole
  <2> QED
    BY <1>1, <2>1 DEF ServesStep, StepIndexForTaskRole
<1>3. open = {} \/ mapped # {}
  <2> SUFFICES ASSUME DocType # "posign"
               PROVE  mapped # {}
    OBVIOUS
  <2>1. PICK t \in OpenApprovals : TRUE
    BY DEF Run, TaskAtPendingStep
  <2> QED
    BY <1>1, <1>2, <2>1
<1>4. Now.wf = Workflow /\ Now.step = step /\ Now.tasks = open
  BY DEF Now
<1>5. TrueStep(Now) =
        IF open = {} THEN IF step < Len(Workflow) THEN step ELSE -1
        ELSE IF mapped = {} THEN -1
        ELSE first
  BY <1>4 DEF TrueStep
<1>6. mapped \subseteq {step}
  BY <1>2
<1>7. step <= step
  BY <1>1
<1>8. mapped # {} => first = step
  <2> SUFFICES ASSUME mapped = {step}
               PROVE  first = step
    BY <1>6
  <2>1. \E i \in mapped : \A j \in mapped : i <= j
    BY <1>7
  <2> HIDE DEF mapped
  <2> QED
    BY <2>1
<1> HIDE DEF mapped, open, first
<1> QED
  BY <1>1, <1>3, <1>5, <1>8

(* The tasks an earlier routing of the pending step left are those of a    *)
(* fresh one, or the re-sync finds them drifted.                           *)
LEMMA DriftFound ==
  ASSUME TypeOK, Run, OneRouting, status \in InFlight,
         ~ SkippedAtSubmit(At(Workflow, step)), ~ BeyondResync,
         OpenApprovals # StepTasks(At(Workflow, step), org, form)
  PROVE  Drifted(Now, At(Workflow, step), step) /\ StepRole \notin {"gm", "opm"}
<1> DEFINE node     == At(Workflow, step)
           open     == IF DocType = "posign" THEN {} ELSE OpenApprovals
           assigned == {t.user : t \in Now.tasks}
<1>1. /\ step \in Nat /\ step < Len(Workflow) /\ node \in Nodes /\ StepRole = node.role
      /\ Now.tasks = open
  BY WorkflowType, NodeAt DEF TypeOK, Workflow, Run, EveryStepCleared, StepRole, Now
<1>2. PICK o \in Orgs : OpenApprovals = StepTasks(node, o, form)
  BY DEF OneRouting
<1>3. /\ node.role = "dept_manager" => org.manager # NoUser
      /\ node.role # "gm_or_opm"
  <2>1. step \in step .. Len(Workflow) - 1
    BY <1>1, WorkflowType, LenProperties DEF TypeOK, Workflow
  <2> QED
    BY <1>1, <2>1 DEF BeyondResync, Routable
<1>4. form.zone # {} => DocType = "vms_visit"
  BY EngineHolds DEF EngineAssumption, TypeOK
<1>5. \A u : ApproveTask(node.role, u).user = u
  BY DEF ApproveTask
<1> HIDE DEF node
<1>6. CASE node.role \notin {"dept_manager", "director", "supervisor", "gm_or_opm"}
  <2>1. StepTasks(node, o, form) = StepTasks(node, org, form)
    BY <1>6 DEF StepTasks
  <2> QED
    BY <1>2, <2>1 DEF node
<1>7. ASSUME NEW then, NEW now, now # NoUser,
             StepTasks(node, o, form) = {ApproveTask(node.role, then)},
             StepTasks(node, org, form) = {ApproveTask(node.role, now)},
             StepHolders(node.role, org, form, FALSE) = {now} \ {NoUser},
             node.role \in {"dept_manager", "director", "supervisor"}
      PROVE  Drifted(Now, node, step) /\ StepRole \notin {"gm", "opm"}
  <2>1. then # now
    BY <1>2, <1>7 DEF node
  <2>2. Now.tasks \subseteq {ApproveTask(node.role, then)}
    BY <1>1, <1>2, <1>7 DEF node
  <2>3. {t.user : t \in Now.tasks} \cap {now} = {}
    BY <1>5, <2>1, <2>2
  <2>4. node.role \in PinnedRoles /\ node.role # "zone_manager"
    BY <1>7 DEF PinnedRoles
  <2>5. {now} \ {NoUser} = {now}
    BY <1>7
  <2> QED
    BY <1>1, <1>7, <2>3, <2>4, <2>5 DEF Drifted, node
<1>8. CASE node.role = "dept_manager"
  <2>1. \A p : StepTasks(node, p, form) = {ApproveTask(node.role, p.manager)}
    BY <1>8 DEF StepTasks
  <2>2. StepHolders(node.role, org, form, FALSE) = {org.manager} \ {NoUser}
    BY <1>8 DEF StepHolders, PostRoles
  <2> QED
    BY <1>3, <1>7, <1>8, <2>1, <2>2 DEF node
<1>9. CASE node.role = "director"
  <2>1. \A p : StepTasks(node, p, form) = {ApproveTask(node.role, p.director)}
    BY <1>9 DEF StepTasks
  <2>2. StepHolders(node.role, org, form, FALSE) = {org.director} \ {NoUser}
    BY <1>9 DEF StepHolders, PostRoles
  <2>3. org.director # NoUser
    BY <1>9 DEF SkippedAtSubmit, StepSkip, ShouldSkipStep, node
  <2> QED
    BY <1>7, <1>9, <2>1, <2>2, <2>3 DEF node
<1>10. CASE node.role = "supervisor"
  <2>1. \A p : StepTasks(node, p, form) = {ApproveTask(node.role, p.supervisor)}
    BY <1>10 DEF StepTasks
  <2>2. StepHolders(node.role, org, form, FALSE) = {org.supervisor} \ {NoUser}
    BY <1>10 DEF StepHolders, PostRoles
  <2>3. org.supervisor # NoUser
    BY <1>10 DEF SkippedAtSubmit, StepSkip, ShouldSkipStep, node
  <2> QED
    BY <1>7, <1>10, <2>1, <2>2, <2>3 DEF node
<1> QED
  BY <1>3, <1>6, <1>8, <1>9, <1>10 DEF node

(* A re-sync sees every document out of line: whatever is changed in the   *)
(* organisation and however often, it finds tasks to reissue or a step to  *)
(* skip to, unless the document is one of those beyond it.                 *)
THEOREM ResyncFindsDrift ==
  ASSUME UnambiguousChains
  PROVE  Spec => []ResyncSeesDrift
<1>1. ASSUME StepsInv, OneRouting
      PROVE  ResyncSeesDrift
  <2> SUFFICES ASSUME ~ Aligned, ~ BeyondResync
               PROVE  \/ Realigns(Now)
                      \/ \E n \in 1 .. Len(Workflow) :
                           /\ SkipsTo(Now, n)
                           /\ n < Len(Workflow) => Routable(At(Workflow, n), org)
    BY DEF ResyncSeesDrift
  <2> DEFINE node == At(Workflow, step)
  <2>1. /\ TypeOK /\ Run /\ status \in InFlight
        /\ Workflow \in Seq(Nodes) /\ Len(Workflow) \in Nat
        /\ step \in Indexes(Workflow) /\ step \in Nat /\ step < Len(Workflow)
        /\ StepRole = node.role
    BY <1>1, WorkflowType, NodeAt, LenProperties
    DEF StepsInv, Run, TypeOK, Workflow, Aligned, EveryStepCleared, StepRole
  <2>2. Now.wf = Workflow /\ Now.status = status /\ Now.step = step
    BY DEF Now
  <2>3. CASE ~ SkippedAtSubmit(node)
    <3>1. Drifted(Now, node, step) /\ StepRole \notin {"gm", "opm"}
      BY <1>1, <2>1, <2>3, DriftFound DEF Aligned
    <3>2. TrueStep(Now) = step /\ step # -1
      BY <2>1, <3>1, TasksFindTheIndex
    <3> QED
      BY <2>1, <2>2, <2>3, <3>1, <3>2 DEF Realigns
  <2>4. CASE SkippedAtSubmit(node)
    <3>1. StepRole \notin {"gm", "opm"}
      BY <2>4 DEF BeyondResync
    <3>2. TrueStep(Now) = step /\ step # -1
      BY <2>1, <3>1, TasksFindTheIndex
    <3>3. PICK n \in step + 1 .. Len(Workflow) :
            /\ \A i \in step .. n - 1 : SkippedAtSubmit(At(Workflow, i))
            /\ n < Len(Workflow) => ~ SkippedAtSubmit(At(Workflow, n))
      BY <2>1, <2>4, WalkEnds
    <3>4. n \in 1 .. Len(Workflow)
      BY <2>1, <3>3
    <3>5. n = Len(Workflow) => \A i \in step .. n - 1 : StepSkip(At(Workflow, i), org, form)
      BY <3>3 DEF BeyondResync
    <3>6. n < Len(Workflow) => Routable(At(Workflow, n), org)
      <4>1. n < Len(Workflow) => n \in step .. Len(Workflow) - 1
        BY <2>1, <3>3
      <4> QED
        BY <4>1 DEF BeyondResync
    <3>7. SkipsTo(Now, n)
      BY <2>1, <2>2, <2>4, <3>2, <3>3, <3>5 DEF SkipsTo
    <3> QED
      BY <3>4, <3>6, <3>7
  <2> QED
    BY <2>3, <2>4
<1> QED
  BY <1>1, RoutedAlways, StepsAlways, PTL

-----------------------------------------------------------------------------
(* Decisions stand. *)

LEMMA DecisionStep ==
  ASSUME Next, Decided
  PROVE  status' = status
BY DEF Next, Submit, Approve, Return, Reject, Recall, Cancel, MayCancel, EditForm,
       Resync, ResyncFrom, ResyncFinished, ResyncSkip, SkipsTo, ResyncRealign, Realigns, Now,
       SaveRouting, AssignHolders, SaveBudgetConfig, ChangeDelegation, doc,
       Decided, Granted, InFlight, Submittable, Cancellable

(* Whatever its type, a document that was approved, rejected or cancelled  *)
(* stays so: no approval, recall, cancel, edit or re-sync reopens it.      *)
THEOREM DecidedForGood == Spec => DecisionsStand
<1>1. [Next]_vars => [Decided => status' = status]_vars
  BY DecisionStep
<1> QED
  BY <1>1, PTL DEF Spec, DecisionsStand

-----------------------------------------------------------------------------
(* Re-syncs that overlap decisions.  Where no step is ever skipped, a      *)
(* re-sync that writes late can only move the index and the tasks: what it *)
(* read names a step of the chain, and that step is not one to skip.       *)

SeenOK == seen.wf \in {<<>>, chain} /\ seen.step \in Nat

LEMMA SeenStepRange ==
  ASSUME NEW read, read.wf \in Seq(Nodes), read.step \in Nat
  PROVE  TrueStep(read) \in Indexes(read.wf) \cup {-1}
<1> DEFINE mapped ==
      {StepIndexForTaskRole(read.wf, t.role, read.step) : t \in read.tasks} \ {-1}
<1>1. Len(read.wf) \in Nat
  BY LenProperties
<1>2. mapped \subseteq Indexes(read.wf)
  BY StepIndexRange
<1>3. mapped # {} => \E i \in mapped : \A j \in mapped : i <= j
  <2>1. mapped \subseteq Nat
    BY <1>1, <1>2 DEF Indexes
  <2> HIDE DEF mapped
  <2> QED
    BY <2>1, LeastNatural
<1>4. TrueStep(read) =
        IF read.tasks = {} THEN IF read.step < Len(read.wf) THEN read.step ELSE -1
        ELSE IF mapped = {} THEN -1
        ELSE CHOOSE i \in mapped : \A j \in mapped : i <= j
  BY DEF TrueStep
<1>5. read.step < Len(read.wf) => read.step \in Indexes(read.wf)
  BY <1>1 DEF Indexes
<1> HIDE DEF mapped
<1> QED
  BY <1>2, <1>3, <1>4, <1>5

LEMMA NoStepSkips ==
  ASSUME NothingSkipped, TypeOK, NEW i \in Indexes(chain)
  PROVE  ~ SkippedAtSubmit(At(chain, i))
BY DEF NothingSkipped, TypeOK, SkippedAtSubmit, StepSkip, ClaimantStepSkip,
       ShouldSkipStep, CrossDept

LEMMA LateWrite ==
  ASSUME NothingSkipped, TypeOK, SeenOK, ResyncWrite
  PROVE  /\ UNCHANGED <<status, applied, form, lastReturn, trail, released,
                        org, standIn, chain>>
         /\ step' \in Nat /\ tasks' \subseteq Tasks
         /\ seen' = NotRunning
<1> DEFINE wf == seen.wf
           at == TrueStep(seen)
<1>1. /\ UNCHANGED <<applied, form, lastReturn, org, standIn, chain>>
      /\ seen' = NotRunning
      /\ ResyncFinished(seen) \/ ResyncSkip(seen) \/ ResyncRealign(seen)
  BY DEF ResyncWrite, ResyncFrom
<1>2. wf \in Seq(Nodes) /\ Len(wf) \in Nat
  <2>1. chain \in Seq(Nodes) /\ <<>> \in Seq(Nodes)
    BY ChainType, EmptySeq DEF TypeOK
  <2>2. wf \in Seq(Nodes)
    BY <2>1 DEF SeenOK
  <2> QED
    BY <2>2, LenProperties
<1>3. at \in Indexes(wf) \cup {-1}
  BY <1>2, SeenStepRange DEF SeenOK
<1>4. ASSUME at # -1
      PROVE  at \in Nat /\ at \in Indexes(chain) /\ wf = chain
  <2>1. Indexes(<<>>) = {}
    BY DEF Indexes
  <2> QED
    BY <1>2, <1>3, <1>4, <2>1, NodeAt DEF SeenOK
<1>5. ~ ResyncSkip(seen)
  BY <1>4, NoStepSkips DEF ResyncSkip, SkipsTo
<1>6. CASE ResyncFinished(seen)
  BY <1>1, <1>6 DEF ResyncFinished, TypeOK
<1>7. CASE ResyncRealign(seen)
  <2>1. /\ at # -1
        /\ step' = Written(seen.step, at, step)
        /\ tasks' \in {tasks, StepTasks(At(wf, at), org, form)}
        /\ UNCHANGED <<status, trail, released>>
    BY <1>7 DEF ResyncRealign, Realigns
  <2>2. step' \in {step, at}
    BY <2>1 DEF Written
  <2>3. At(wf, at) \in Nodes
    BY <1>2, <1>3, <2>1, NodeAt
  <2>4. StepTasks(At(wf, at), org, form) \subseteq Tasks
    BY <2>3, StepTasksFacts DEF TypeOK
  <2>5. step' \in Nat
    BY <1>4, <2>1, <2>2 DEF TypeOK
  <2> QED
    BY <1>1, <2>1, <2>4, <2>5 DEF TypeOK
<1> QED
  BY <1>1, <1>5, <1>6, <1>7

LEMMA RaceMoves ==
  RaceNext => \/ [Next]_vars /\ UNCHANGED seen
              \/ UNCHANGED vars /\ seen' \in {Now, NotRunning}
              \/ ResyncWrite
BY DEF RaceNext, ResyncRead, ResyncNothing

RaceInv == TypeOK /\ SeenOK

LEMMA RaceInit0 == RaceInit => RaceInv
BY TypeInit DEF RaceInit, RaceInv, SeenOK, NotRunning

LEMMA RaceStep ==
  ASSUME NothingSkipped
  PROVE  RaceInv /\ [RaceNext]_raceVars => RaceInv'
<1> SUFFICES ASSUME RaceInv, [RaceNext]_raceVars PROVE RaceInv'
  OBVIOUS
<1>1. CASE [Next]_vars /\ UNCHANGED seen
  <2>1. chain' = chain
    BY <1>1 DEF Next, Submit, Approve, Return, Reject, Recall, Cancel, EditForm, Resync,
                ResyncFrom, SaveRouting, AssignHolders, SaveBudgetConfig,
                ChangeDelegation, vars, doc
  <2> QED
    BY <1>1, <2>1, TypeStep DEF RaceInv, SeenOK
<1>2. CASE UNCHANGED vars /\ seen' \in {Now, NotRunning}
  <2>1. TypeOK'
    BY <1>2, TypeStep DEF RaceInv
  <2>2. Now.wf = chain /\ Now.step = step
    BY DEF Now, Workflow, WorkflowUnder, NothingSkipped
  <2>3. SeenOK'
    BY <1>2, <2>2 DEF SeenOK, NotRunning, vars, doc, RaceInv, TypeOK
  <2> QED
    BY <2>1, <2>3 DEF RaceInv
<1>3. CASE ResyncWrite
  <2>1. TypeOK'
    BY <1>3, LateWrite DEF RaceInv, TypeOK
  <2>2. SeenOK'
    BY <1>3, LateWrite DEF RaceInv, SeenOK, NotRunning
  <2> QED
    BY <2>1, <2>2 DEF RaceInv
<1> QED
  BY <1>1, <1>2, <1>3, RaceMoves DEF raceVars

LEMMA RaceAlways ==
  ASSUME NothingSkipped
  PROVE  RaceSpec => []RaceInv
BY RaceInit0, RaceStep, PTL DEF RaceSpec

(* Where no step is skipped, a re-sync whose write overtakes or follows a  *)
(* decision it did not see takes none back, although it takes no lock.     *)
(* (With steps that are skipped it may: the post-approval effect then runs *)
(* twice, as the model checker finds.)                                     *)
THEOREM RacedDecisionsStand ==
  ASSUME NothingSkipped
  PROVE  RaceSpec => DecisionsStand
<1>1. ASSUME RaceInv, [RaceNext]_raceVars
      PROVE  [Decided => status' = status]_vars
  <2>1. CASE [Next]_vars
    BY <2>1, DecisionStep
  <2>2. CASE ResyncWrite
    BY <1>1, <2>2, LateWrite DEF RaceInv
  <2> QED
    BY <1>1, <2>1, <2>2, RaceMoves DEF raceVars
<1> QED
  BY <1>1, RaceAlways, PTL DEF RaceSpec, DecisionsStand

(* ...and the post-approval effect still runs exactly once, however        *)
(* re-syncs and final approvals overlap.                                   *)
THEOREM RacedEffectOnce ==
  ASSUME NothingSkipped
  PROVE  RaceSpec => []ReleasedOnce
<1>1. EndsUnskipped
  <2> SUFFICES ASSUME NEW c \in Chains
               PROVE  /\ At(c, Len(c) - 1).role \notin {"director", "supervisor", "zone_manager"}
                      /\ At(c, Len(c) - 1).role = "dept_manager" => DocType # "pa"
    BY DEF EndsUnskipped
  <2>1. Len(c) - 1 \in Indexes(c)
    BY ChainType, LenProperties DEF Indexes
  <2> QED
    BY <2>1 DEF NothingSkipped
<1>2. RaceInit => ReleasedOnce
  BY DEF RaceInit, Init, ReleasedOnce, GrantedStatus
<1>3. RaceInv /\ ReleasedOnce /\ [RaceNext]_raceVars => ReleasedOnce'
  <2> SUFFICES ASSUME RaceInv, ReleasedOnce, [RaceNext]_raceVars PROVE ReleasedOnce'
    OBVIOUS
  <2>1. CASE [Next]_vars
    BY <1>1, <2>1, ReleaseStep DEF RaceInv
  <2>2. CASE ResyncWrite
    BY <2>2, LateWrite DEF RaceInv, ReleasedOnce
  <2> QED
    BY <2>1, <2>2, RaceMoves DEF raceVars
<1> QED
  BY <1>2, <1>3, RaceAlways, PTL DEF RaceSpec

=============================================================================
