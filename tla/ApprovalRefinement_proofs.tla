---------------------- MODULE ApprovalRefinement_proofs ----------------------
(***************************************************************************)
(* The approval engine implements ApprovalLifecycle, for every type of     *)
(* document, set of people, organisations, forms, delegations and chains   *)
(* that keep plain GM/OPM steps apart from gm_or_opm ones.                 *)
(***************************************************************************)
EXTENDS ApprovalEngine_proofs

(* The lifecycle's variables, computed from the engine's. *)
LEMMA Image ==
  /\ status \in InFlight =>
       Phase = "pending" /\ WalkedList = Workflow /\ Settled = step
  /\ status \in {"approved", "active"} =>
       Phase = "granted" /\ WalkedList = Workflow /\ Settled = Len(Workflow)
  /\ status = "returned" =>
       Phase = "open" /\ WalkedList = WorkflowUnder(applied) /\ Settled = lastReturn
  /\ status = "draft" =>
       Phase = "open" /\ WalkedList = <<>> /\ Settled = 0
  /\ status \in {"rejected", "cancelled"} =>
       Phase = "refused" /\ WalkedList = <<>> /\ Settled = 0
BY DEF Phase, WalkedList, Settled, InFlight, Submittable, Granted

LEMMA ImageNext ==
  /\ status' \in InFlight =>
       Phase' = "pending" /\ WalkedList' = Workflow' /\ Settled' = step'
  /\ status' \in {"approved", "active"} =>
       Phase' = "granted" /\ WalkedList' = Workflow' /\ Settled' = Len(Workflow')
  /\ status' = "returned" =>
       Phase' = "open" /\ WalkedList' = WorkflowUnder(applied)' /\ Settled' = lastReturn'
  /\ status' = "draft" =>
       Phase' = "open" /\ WalkedList' = <<>> /\ Settled' = 0
  /\ status' \in {"rejected", "cancelled"} =>
       Phase' = "refused" /\ WalkedList' = <<>> /\ Settled' = 0
BY DEF Phase, WalkedList, Settled, InFlight, Submittable, Granted

(* While a document is in flight, and when it is granted, its list stays. *)
LEMMA ListStands ==
  ASSUME Run, Run', UNCHANGED <<applied, chain>>,
         status \in InFlight \cup {"approved", "active"},
         status' \in InFlight \cup {"approved", "active"}
  PROVE  Workflow' = Workflow
BY FrozenList, FrozenListNext DEF Run, Granted

(* A step that leaves the document alone is none of the lifecycle's. *)
LEMMA Stutters ==
  ASSUME TypeOK, Run, Run', UNCHANGED <<status, step, applied, lastReturn, chain>>
  PROVE  UNCHANGED <<Phase, WalkedList, Settled>>
<1>1. status \in InFlight \cup {"approved", "active", "returned", "draft", "rejected",
                                "cancelled"}
  BY DEF TypeOK, Statuses, Submittable
<1>2. WorkflowUnder(applied)' = WorkflowUnder(applied)
  BY DEF WorkflowUnder
<1> QED
  BY <1>1, <1>2, Image, ImageNext, ListStands

(* The walks of approve and of a re-sync settle steps of the list. *)
LEMMA Settles ==
  ASSUME TypeOK, Run, Run', UNCHANGED <<applied, chain>>, status \in InFlight,
         NEW n \in Nat, step < n, n <= Len(Workflow),
         n < Len(Workflow) => step' = n /\ status' \in InFlight,
         ~ n < Len(Workflow) => status' \in {"approved", "active"}
  PROVE  Lifecycle!Settle
<1>1. Workflow' = Workflow
  BY ListStands
<1>2. Len(Workflow) \in Nat /\ step \in Nat
  BY WorkflowType, LenProperties DEF TypeOK, Workflow
<1>3. Phase = "pending" /\ WalkedList = Workflow /\ Settled = step
  BY Image
<1>4. WalkedList' = Workflow /\ Settled' = n
  BY <1>1, <1>2, ImageNext
<1>5. Phase' = IF n = Len(Workflow) THEN "granted" ELSE "pending"
  BY <1>2, ImageNext
<1>6. n \in step + 1 .. Len(Workflow)
  BY <1>2
<1> QED
  BY <1>3, <1>4, <1>5, <1>6 DEF Lifecycle!Settle, Lifecycle!Proceed

(* A submission starts a run, on the front that stands of the one before. *)
LEMMA Begins ==
  ASSUME TypeOK, Run, Run', Submit
  PROVE  Lifecycle!Begin
<1> DEFINE mode == SubmissionMode(form, status, applied, org)
           wf   == WorkflowUnder(mode)
           from == SubmissionStart(mode)
<1>1. /\ mode \in AppliedModes /\ wf \in Seq(Nodes) /\ from \in Nat
      /\ applied' = IF DocType = "pr" THEN mode ELSE applied
  BY SubmitStep, Zenon
<1>2. PICK n \in Nat :
        /\ from <= n /\ n <= Len(wf)
        /\ status' = IF n < Len(wf) THEN "submitted" ELSE "approved"
        /\ step' = n
  BY SubmitStep, Zenon
<1>3. status \in Submittable /\ chain' = chain
  BY DEF Submit
<1>4. wf \in RunLists
  <2>1. chain \in Chains /\ chain \in Seq(Nodes)
    BY ChainType DEF TypeOK
  <2>2. CASE DocType = "pr"
    <3>1. wf = ObPrefix(mode) \o chain
      BY <2>2 DEF WorkflowUnder
    <3> QED
      BY <1>1, <2>1, <3>1 DEF RunLists
  <2>3. CASE DocType # "pr"
    <3>1. ObPrefix("none") \o chain = chain
      BY <2>1, ConcatEmptySeq DEF ObPrefix
    <3>2. wf = ObPrefix("none") \o chain /\ "none" \in AppliedModes
      BY <2>3, <3>1 DEF WorkflowUnder, AppliedModes
    <3> QED
      BY <2>1, <3>2 DEF RunLists
  <2> QED
    BY <2>2, <2>3
<1>5. /\ Phase = "open" /\ Settled \in Nat
      /\ from \in 0 .. Settled
      /\ from # 0 => WalkedList = wf
  <2>1. CASE status = "draft"
    BY <2>1, Image DEF SubmissionStart
  <2>2. CASE status = "returned"
    <3>1. /\ Phase = "open" /\ WalkedList = WorkflowUnder(applied)
          /\ Settled = lastReturn
      BY <2>2, Image
    <3>2. lastReturn \in Nat
      BY <2>2, WorkflowType, NodeAt DEF Run, ReturnCleared, TypeOK
    <3>3. from # 0 => from = lastReturn /\ WorkflowUnder(applied) = wf
      BY <1>3, SubmissionFront
    <3> QED
      BY <1>1, <3>1, <3>2, <3>3
  <2> QED
    BY <1>3, <2>1, <2>2 DEF Submittable
<1>6. WorkflowUnder(applied') = wf
  BY <1>1 DEF WorkflowUnder
<1> HIDE DEF mode, wf, from
<1>7. status' \in InFlight \cup {"approved"} /\ Len(wf) \in Nat
  BY <1>1, <1>2, LenProperties DEF InFlight
<1>8. Workflow' = wf
  BY <1>3, <1>6, <1>7, FrozenListNext DEF Run, Granted
<1>9. WalkedList' = wf /\ Settled' = n
  BY <1>2, <1>7, <1>8, ImageNext DEF InFlight
<1>10. Phase' = IF n = Len(wf) THEN "granted" ELSE "pending"
  BY <1>2, <1>7, ImageNext DEF InFlight
<1>11. SubSeq(wf, 1, from) = SubSeq(WalkedList, 1, from)
  <2>1. CASE from = 0
    <3>1. SubSeq(wf, 1, 0) = <<>> /\ SubSeq(WalkedList, 1, 0) = <<>>
      BY SubSeqEmpty
    <3> QED
      BY <2>1, <3>1
  <2>2. CASE from # 0
    BY <1>5, <2>2
  <2> QED
    BY <2>1, <2>2
<1>12. from <= Len(wf) /\ n \in from .. Len(wf)
  BY <1>1, <1>2, <1>7
<1>13. Lifecycle!Proceed
  BY <1>9, <1>10 DEF Lifecycle!Proceed
<1>14. WalkedList' \in RunLists
  BY <1>4, <1>9
<1>15. /\ from \in 0 .. Settled /\ from <= Len(WalkedList')
       /\ Lifecycle!Front(WalkedList', from) = Lifecycle!Front(WalkedList, from)
       /\ Settled' \in from .. Len(WalkedList')
  BY <1>5, <1>9, <1>11, <1>12 DEF Lifecycle!Front
<1> QED
  BY <1>5, <1>13, <1>14, <1>15, Zenon DEF Lifecycle!Begin

(* An approval settles the pending step and those it walks over. *)
LEMMA ApproveSettles ==
  ASSUME TypeOK, Run, Run', NEW u \in Users, Approve(u)
  PROVE  Lifecycle!Settle
<1>1. UNCHANGED <<applied, chain>>
  BY DEF Approve
<1>2. status \in InFlight
  BY ApproveStep
<1>3. step < Len(Workflow)
  BY <1>2, WorkflowType, NodeAt DEF TypeOK, Workflow, Run, EveryStepCleared
<1>4. PICK n \in Nat :
        /\ step < n /\ n <= Len(Workflow)
        /\ step' = IF n < Len(Workflow) THEN n ELSE step
        /\ status' = IF n < Len(Workflow) THEN "in_review" ELSE GrantedStatus(DocType)
  BY <1>3, ApproveStep, Zenon
<1>5. n < Len(Workflow) => step' = n /\ status' \in InFlight
  BY <1>4 DEF InFlight
<1>6. ~ n < Len(Workflow) => status' \in {"approved", "active"}
  BY <1>4 DEF GrantedStatus
<1> QED
  BY <1>1, <1>2, <1>4, <1>5, <1>6, Settles

(* A return keeps the settled front for the next run. *)
LEMMA ReturnSendsBack ==
  ASSUME Run, NEW u \in Users, Return(u)
  PROVE  Lifecycle!SendBack
<1>1. /\ status \in InFlight /\ status' = "returned" /\ lastReturn' = step
      /\ UNCHANGED <<applied, chain>>
  BY DEF Return
<1>2. WorkflowUnder(applied)' = Workflow
  BY <1>1, FrozenList DEF Run, WorkflowUnder
<1> QED
  BY <1>1, <1>2, Image, ImageNext DEF Lifecycle!SendBack

LEMMA LifecycleInit == Init => Lifecycle!Init
BY Image DEF Init, Lifecycle!Init

LEMMA LifecycleStep ==
  ASSUME UnambiguousChains, TypeOK, Run, Run', [Next]_vars
  PROVE  [Lifecycle!Next]_(Lifecycle!vars)
<1>1. CASE Submit
  BY <1>1, Begins DEF Lifecycle!Next
<1>2. ASSUME NEW u \in Users, Approve(u)
      PROVE  Lifecycle!Settle
  BY <1>2, ApproveSettles
<1>3. ASSUME NEW u \in Users, Return(u)
      PROVE  Lifecycle!SendBack
  BY <1>3, ReturnSendsBack
<1>4. ASSUME NEW u \in Users, Reject(u)
      PROVE  Lifecycle!Refuse
  BY <1>4, Image, ImageNext DEF Reject, RejectedStatus, Lifecycle!Refuse
<1>5. ASSUME NEW u \in Users, Recall(u)
      PROVE  Lifecycle!StartOver
  BY <1>5, Image, ImageNext DEF Recall, Lifecycle!StartOver
<1>6. ASSUME NEW u \in Users, Cancel(u)
      PROVE  Lifecycle!Refuse
  <2>1. status \in InFlight \cup {"draft", "returned"} /\ status' = "cancelled"
    BY <1>6 DEF Cancel, MayCancel, Cancellable, Submittable, InFlight
  <2> QED
    BY <2>1, Image, ImageNext DEF Lifecycle!Refuse
<1>7. CASE Resync
  <2>1. UNCHANGED <<applied, lastReturn, chain>>
    BY <1>7, ResyncStep, Zenon
  <2>2. CASE status \notin InFlight /\ Now.tasks # {}
    BY <2>2 DEF Now, Run, TaskAtPendingStep
  <2>3. CASE status \in InFlight /\ TrueStep(Now) \in Indexes(Workflow)
    <3>1. Workflow \in Seq(Nodes)
      BY WorkflowType DEF TypeOK, Workflow
    <3>2. TrueStep(Now) = step
      BY <2>3, <3>1, NodeAt, TasksNameTheIndex
    <3>3. CASE \E n \in Nat :
                 /\ step < n /\ n <= Len(Workflow)
                 /\ step' = n
                 /\ status' = IF n < Len(Workflow) THEN "in_review" ELSE GrantedStatus(DocType)
      <4>1. PICK n \in Nat :
                 /\ step < n /\ n <= Len(Workflow)
                 /\ step' = n
                 /\ status' = IF n < Len(Workflow) THEN "in_review" ELSE GrantedStatus(DocType)
        BY <3>3
      <4>2. n < Len(Workflow) => step' = n /\ status' \in InFlight
        BY <4>1 DEF InFlight
      <4>3. ~ n < Len(Workflow) => status' \in {"approved", "active"}
        BY <4>1 DEF GrantedStatus
      <4>4. Lifecycle!Settle
        BY <2>1, <2>3, <4>1, <4>2, <4>3, Settles
      <4> QED
        BY <4>4 DEF Lifecycle!Next
    <3>4. CASE step' = step /\ status' = status
      BY <2>1, <3>4, Stutters DEF Lifecycle!vars
    <3> QED
      BY <1>7, <2>3, <3>2, <3>3, <3>4, ResyncStep, Zenon
  <2> QED
    BY <1>7, <2>2, <2>3, ResyncStep, Zenon
<1>8. CASE EditForm \/ SaveRouting \/ AssignHolders \/ SaveBudgetConfig
           \/ ChangeDelegation \/ UNCHANGED vars
  <2>1. UNCHANGED <<status, step, applied, lastReturn, chain>>
    BY <1>8 DEF EditForm, SaveRouting, AssignHolders, SaveBudgetConfig,
                ChangeDelegation, vars, doc
  <2> QED
    BY <2>1, Stutters DEF Lifecycle!vars
<1> QED
  BY <1>1, <1>2, <1>3, <1>4, <1>5, <1>6, <1>7, <1>8 DEF Next, Lifecycle!Next

(* The engine keeps the lifecycle's promise: whoever acts, returns, edits, *)
(* reconfigures or re-syncs, a run walks one list from its first unsettled *)
(* step, grants at its end only, and counts an earlier run's step only     *)
(* where the list has the same steps in front; decided documents stay so.  *)
THEOREM EngineImplementsLifecycle ==
  ASSUME UnambiguousChains
  PROVE  Spec => ImplementsLifecycle
<1>1. StepsInv /\ StepsInv' /\ [Next]_vars => [Lifecycle!Next]_(Lifecycle!vars)
  BY LifecycleStep DEF StepsInv, Run
<1> QED
  BY <1>1, LifecycleInit, StepsAlways, PTL
  DEF Spec, ImplementsLifecycle, Lifecycle!Spec

=============================================================================
