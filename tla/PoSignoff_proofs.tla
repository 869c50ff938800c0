-------------------------- MODULE PoSignoff_proofs --------------------------
(***************************************************************************)
(* For any list of steps, people, posts and delegations, any number of     *)
(* requests and of lost answers: a step of a sign-off still to be signed   *)
(* has a blank box, and every signature was granted by the engine.         *)
(***************************************************************************)
EXTENDS PoSignoff, ApprovalRefinement_proofs

-----------------------------------------------------------------------------
(* The invariant.  Whatever is signed, or about to be, is below the step   *)
(* the document waits at, or, while it is back with its officer, below the *)
(* step that returned it, from which it will go on.                        *)

SignedBelow(front) ==
  /\ \A i \in DOMAIN boxes : i \in Nat /\ i < front
  /\ \A r \in Requests :
       /\ jobs[r].at = "recording" => jobs[r].box \in Nat /\ jobs[r].box < front
       /\ jobs[r].at = "signing" => jobs[r].box \in Nat /\ jobs[r].box <= front

BoxInv ==
  /\ DOMAIN jobs = Requests
  /\ status = "draft" => SignedBelow(0) /\ \A r \in Requests : jobs[r].at # "signing"
  /\ status = "returned" => lastReturn \in Indexes(chain) /\ SignedBelow(lastReturn)
  /\ status \in InFlight => step \in Indexes(chain) /\ SignedBelow(step)

(* A chain is a list. *)
LEMMA ChainIsList == Init => Len(chain) \in Nat
<1> SUFFICES ASSUME Init PROVE Len(chain) \in Nat
  OBVIOUS
<1>1. chain \in Seq([role : Roles, ob : {FALSE}])
  BY EngineHolds DEF Init, EngineAssumption
<1> QED
  BY <1>1

(* What is below a step is below every later one. *)
LEMMA Later ==
  ASSUME NEW m \in Nat, NEW n \in Nat, m <= n, SignedBelow(m)
  PROVE  SignedBelow(n)
BY DEF SignedBelow

(* A sign-off walks the saved chain as it is. *)
LEMMA WalksChain == Workflow = chain /\ \A mode : WorkflowUnder(mode) = chain
BY SignoffAssumption DEF Workflow, WorkflowUnder

LEMMA WalksChainNext == Workflow' = chain'
BY SignoffAssumption DEF Workflow, WorkflowUnder

-----------------------------------------------------------------------------
(* The engine's steps. *)

(* A submission starts at the first step, of a draft nobody has signed, or *)
(* goes on at or after the step that returned it.                          *)
LEMMA SubmitAskKeeps ==
  ASSUME BoxInv, Len(chain) \in Nat, NEW r \in Requests, SubmitAsk(r)
  PROVE  BoxInv' /\ Len(chain') \in Nat
<1>1. Submit /\ boxes' = boxes /\ chain' = chain /\ lastReturn' = lastReturn
  BY DEF SubmitAsk, Submit
<1>2. jobs' = [jobs EXCEPT ![r] = [at |-> "clearing", wasReturned |-> jobs[r].wasReturned]]
  BY DEF SubmitAsk, Goto
<1>3. DOMAIN jobs' = Requests
  BY <1>2 DEF BoxInv
<1>4. status \in {"draft", "returned"}
  BY <1>1 DEF Submit, Submittable
<1>5. PICK mode : \E n \in SubmissionStart(mode) .. Len(chain) :
         /\ status' = IF n < Len(chain) THEN "submitted" ELSE "approved"
         /\ step' = n
  BY <1>1, WalksChain DEF Submit
<1>6. PICK n \in SubmissionStart(mode) .. Len(chain) :
         /\ status' = IF n < Len(chain) THEN "submitted" ELSE "approved"
         /\ step' = n
  BY <1>5
<1>7. SubmissionStart(mode) = IF status = "draft" THEN 0 ELSE lastReturn
  BY <1>4, SignoffAssumption, WalksChain DEF SubmissionStart, BoxInv
<1>8. SubmissionStart(mode) \in Nat /\ SignedBelow(SubmissionStart(mode))
  BY <1>4, <1>7 DEF BoxInv, Indexes
<1>9. n \in Nat /\ SignedBelow(n)
  BY <1>6, <1>8, Later
<1>10. SignedBelow(n)'
  <2>1. \A q \in Requests : jobs'[q] = jobs[q] \/ jobs'[q].at = "clearing"
    BY <1>2 DEF BoxInv
  <2> QED
    BY <1>1, <1>6, <1>9, <2>1 DEF SignedBelow
<1>11. n < Len(chain) => n \in Indexes(chain)
  BY <1>9 DEF Indexes
<1>12. CASE n < Len(chain)
  BY <1>1, <1>3, <1>6, <1>10, <1>11, <1>12 DEF BoxInv, InFlight, Indexes
<1>13. CASE ~ (n < Len(chain))
  BY <1>1, <1>3, <1>6, <1>13 DEF BoxInv, InFlight
<1> QED
  BY <1>1, <1>12, <1>13

(* An approval moves past the step it was asked for. *)
LEMMA SignAskKeeps ==
  ASSUME BoxInv, Len(chain) \in Nat, NEW r \in Requests, SignAsk(r)
  PROVE  BoxInv' /\ Len(chain') \in Nat
<1> DEFINE u == jobs[r].by
<1>1. /\ Approve(u) /\ boxes' = boxes /\ chain' = chain /\ lastReturn' = lastReturn
      /\ jobs[r].at = "signing"
      /\ jobs' = [jobs EXCEPT ![r] = [at |-> "recording", by |-> u, box |-> jobs[r].box]]
  BY DEF SignAsk, Approve, Goto
<1>2. DOMAIN jobs' = Requests
  BY <1>1 DEF BoxInv
<1>3. status \in InFlight /\ step \in Indexes(chain) /\ SignedBelow(step)
  BY <1>1 DEF Approve, BoxInv
<1>4. PICK n \in step + 1 .. IF step < Len(chain) THEN Len(chain) ELSE step + 1 :
         /\ step' = IF n < Len(chain) THEN n ELSE step
         /\ status' = IF n < Len(chain) THEN "in_review" ELSE GrantedStatus(DocType)
  BY <1>1, WalksChain DEF Approve
<1>5. n \in Nat /\ step \in Nat /\ step < n
  BY <1>3, <1>4 DEF Indexes
<1>6. jobs[r].box \in Nat /\ jobs[r].box < n
  BY <1>1, <1>3, <1>5 DEF SignedBelow
<1>7. SignedBelow(n)
  BY <1>3, <1>5, Later
<1>8. SignedBelow(n)'
  <2>1. /\ \A q \in Requests \ {r} : jobs'[q] = jobs[q]
        /\ jobs'[r] = [at |-> "recording", by |-> u, box |-> jobs[r].box]
    BY <1>1 DEF BoxInv
  <2> QED
    BY <1>1, <1>6, <1>7, <2>1 DEF SignedBelow
<1>9. CASE n < Len(chain)
  BY <1>1, <1>2, <1>4, <1>5, <1>8, <1>9 DEF BoxInv, InFlight, Indexes
<1>10. CASE ~ (n < Len(chain))
  <2>1. status' = "approved"
    BY <1>4, <1>10, SignoffAssumption DEF GrantedStatus
  <2> QED
    BY <1>1, <1>2, <2>1 DEF BoxInv, InFlight
<1> QED
  BY <1>1, <1>9, <1>10

(* A return keeps the step the document waited at. *)
LEMMA ReturnKeepsBoxes ==
  ASSUME BoxInv, Len(chain) \in Nat, NEW u \in Users, SignoffReturn(u)
  PROVE  BoxInv' /\ Len(chain') \in Nat
BY DEF SignoffReturn, Return, own, BoxInv, SignedBelow, Indexes, InFlight

-----------------------------------------------------------------------------
(* The requests' own steps. *)

(* A request that goes on with nothing signed in hand. *)
LEMMA EmptyHanded ==
  ASSUME BoxInv, NEW r \in Requests, NEW job, job.at \notin {"signing", "recording"},
         jobs' = [jobs EXCEPT ![r] = job], DOMAIN boxes' \subseteq DOMAIN boxes,
         UNCHANGED vars
  PROVE  BoxInv'
<1>1. DOMAIN jobs' = Requests /\ \A q \in Requests : jobs'[q] = jobs[q] \/ jobs'[q] = job
  BY DEF BoxInv
<1>2. \A front : SignedBelow(front) => SignedBelow(front)'
  BY <1>1 DEF SignedBelow
<1>3. UNCHANGED <<status, step, lastReturn, chain>>
  BY DEF vars, doc
<1>4. status = "draft" => SignedBelow(0)' /\ \A q \in Requests : jobs'[q].at # "signing"
  BY <1>1, <1>2 DEF BoxInv
<1>5. /\ status = "returned" => lastReturn \in Indexes(chain) /\ SignedBelow(lastReturn)'
      /\ status \in InFlight => step \in Indexes(chain) /\ SignedBelow(step)'
  BY <1>2, <1>3 DEF BoxInv, SignedBelow
<1> QED
  BY <1>1, <1>3, <1>4, <1>5 DEF BoxInv, SignedBelow

(* A signer who reads the step the document waits at. *)
LEMMA SignReadKeeps ==
  ASSUME BoxInv, NEW r \in Requests, NEW u \in Users, SignRead(r, u)
  PROVE  BoxInv'
<1>1. /\ status \in InFlight
      /\ jobs' = [jobs EXCEPT ![r] = [at |-> "signing", by |-> u, box |-> step]]
      /\ UNCHANGED <<status, step, lastReturn, chain, boxes>>
  BY DEF SignRead, Goto, vars, doc
<1>2. step \in Indexes(chain) /\ SignedBelow(step) /\ DOMAIN jobs' = Requests
  BY <1>1 DEF BoxInv
<1>3. SignedBelow(step)'
  <2>1. /\ \A q \in Requests \ {r} : jobs'[q] = jobs[q]
        /\ jobs'[r] = [at |-> "signing", by |-> u, box |-> step]
    BY <1>1 DEF BoxInv
  <2> QED
    BY <1>1, <1>2, <2>1 DEF SignedBelow, Indexes
<1> QED
  BY <1>1, <1>2, <1>3 DEF BoxInv, InFlight

(* The signature in hand is for a step below the one waited at. *)
LEMMA SignRecordKeeps ==
  ASSUME BoxInv, NEW r \in Requests, SignRecord(r)
  PROVE  BoxInv'
<1>1. /\ jobs[r].at = "recording"
      /\ DOMAIN boxes' = DOMAIN boxes \cup {jobs[r].box}
      /\ jobs' = [jobs EXCEPT ![r] = Idle]
      /\ UNCHANGED <<status, step, lastReturn, chain>>
  BY DEF SignRecord, RecordedStep, Goto, vars, doc
<1>2. /\ DOMAIN jobs' = Requests
      /\ \A q \in Requests : jobs'[q] = jobs[q] \/ jobs'[q] = Idle
  BY <1>1 DEF BoxInv
<1>3. \A front : SignedBelow(front) => SignedBelow(front)'
  <2> SUFFICES ASSUME NEW front, SignedBelow(front)
               PROVE  SignedBelow(front)'
    OBVIOUS
  <2>1. jobs[r].box \in Nat /\ jobs[r].box < front
    BY <1>1 DEF SignedBelow
  <2> QED
    BY <1>1, <1>2, <2>1 DEF SignedBelow, Idle
<1>4. status = "draft" => SignedBelow(0)' /\ \A q \in Requests : jobs'[q].at # "signing"
  BY <1>2, <1>3 DEF BoxInv, Idle
<1>5. /\ status = "returned" => lastReturn \in Indexes(chain) /\ SignedBelow(lastReturn)'
      /\ status \in InFlight => step \in Indexes(chain) /\ SignedBelow(step)'
  BY <1>1, <1>3 DEF BoxInv, SignedBelow
<1> QED
  BY <1>1, <1>2, <1>4, <1>5 DEF BoxInv, SignedBelow

(* Every other step of a request, and of a profile. *)
LEMMA OwnStepsKeep ==
  ASSUME BoxInv,
         \/ \E r \in Requests : \/ SubmitRead(r) \/ SubmitRecord(r)
                                \/ Refused(r) \/ LoseAnswer(r)
         \/ \E u \in Users : SetSignature(u)
  PROVE  BoxInv'
<1>1. ASSUME NEW r \in Requests, SubmitRead(r)
      PROVE  BoxInv'
  <2> DEFINE job == [at |-> "submitting", wasReturned |-> status = "returned"]
  <2>1. /\ jobs' = [jobs EXCEPT ![r] = job]
        /\ DOMAIN boxes' \subseteq DOMAIN boxes
        /\ UNCHANGED vars
    BY <1>1 DEF SubmitRead, Goto
  <2>2. job.at \notin {"signing", "recording"}
    OBVIOUS
  <2> HIDE DEF job
  <2> QED
    BY <2>1, <2>2, EmptyHanded
<1>2. ASSUME NEW r \in Requests, SubmitRecord(r)
      PROVE  BoxInv'
  <2>1. DOMAIN boxes' \subseteq DOMAIN boxes
    BY <1>2 DEF SubmitRecord
  <2> QED
    BY <1>2, <2>1, EmptyHanded DEF SubmitRecord, Goto, Idle
<1>3. ASSUME NEW r \in Requests, Refused(r) \/ LoseAnswer(r)
      PROVE  BoxInv'
  BY <1>3, EmptyHanded DEF Refused, LoseAnswer, Goto, Idle
<1>4. ASSUME NEW u \in Users, SetSignature(u)
      PROVE  BoxInv'
  BY <1>4 DEF SetSignature, BoxInv, SignedBelow, vars, doc
<1> QED
  BY <1>1, <1>2, <1>3, <1>4

(* The order is retracted, a post changes hands, a delegation starts. *)
LEMMA ElsewhereKeeps ==
  ASSUME BoxInv, Withdraw \/ ((AssignHolders \/ ChangeDelegation) /\ UNCHANGED own)
  PROVE  BoxInv'
<1>1. CASE Withdraw
  BY <1>1 DEF Withdraw, BoxInv, SignedBelow, InFlight
<1>2. CASE (AssignHolders \/ ChangeDelegation) /\ UNCHANGED own
  BY <1>2 DEF AssignHolders, ChangeDelegation, own, doc, BoxInv, SignedBelow
<1> QED
  BY <1>1, <1>2

-----------------------------------------------------------------------------
LEMMA BoxStep ==
  ASSUME BoxInv, Len(chain) \in Nat, [SignNext]_signVars
  PROVE  BoxInv' /\ Len(chain') \in Nat
<1>1. CASE UNCHANGED signVars
  BY <1>1 DEF signVars, vars, doc, own, BoxInv, SignedBelow
<1>2. ASSUME NEW r \in Requests, SubmitAsk(r) \/ SignAsk(r)
      PROVE  BoxInv' /\ Len(chain') \in Nat
  BY <1>2, SubmitAskKeeps, SignAskKeeps
<1>3. ASSUME NEW r \in Requests, (\E u \in Users : SignRead(r, u)) \/ SignRecord(r)
      PROVE  BoxInv' /\ chain' = chain
  BY <1>3, SignReadKeeps, SignRecordKeeps DEF SignRead, SignRecord, vars
<1>4. ASSUME NEW r \in Requests, SubmitRead(r) \/ SubmitRecord(r) \/ Refused(r) \/ LoseAnswer(r)
      PROVE  BoxInv' /\ chain' = chain
  BY <1>4, OwnStepsKeep DEF SubmitRead, SubmitRecord, Refused, LoseAnswer, vars
<1>5. ASSUME NEW u \in Users, SignoffReturn(u)
      PROVE  BoxInv' /\ Len(chain') \in Nat
  BY <1>5, ReturnKeepsBoxes
<1>6. ASSUME NEW u \in Users, SetSignature(u)
      PROVE  BoxInv' /\ chain' = chain
  BY <1>6, OwnStepsKeep DEF SetSignature, vars
<1>7. ASSUME Withdraw \/ ((AssignHolders \/ ChangeDelegation) /\ UNCHANGED own)
      PROVE  BoxInv' /\ chain' = chain
  BY <1>7, ElsewhereKeeps DEF Withdraw, AssignHolders, ChangeDelegation
<1> QED
  BY <1>1, <1>2, <1>3, <1>4, <1>5, <1>6, <1>7 DEF SignNext

LEMMA BoxStart == SignInit => BoxInv
BY DEF SignInit, Init, BoxInv, SignedBelow, Idle, InFlight

(* No step still to be signed carries a signature, however requests        *)
(* overtake one another and whichever of the engine's answers are lost.    *)
THEOREM BlankUntilSigned == SignSpec => []PendingBoxesBlank
<1>1. SignInit => BoxInv /\ Len(chain) \in Nat
  BY BoxStart, ChainIsList DEF SignInit
<1>2. BoxInv /\ Len(chain) \in Nat /\ [SignNext]_signVars => (BoxInv /\ Len(chain) \in Nat)'
  BY BoxStep
<1>3. BoxInv => PendingBoxesBlank
  BY DEF BoxInv, SignedBelow, PendingBoxesBlank
<1> QED
  BY <1>1, <1>2, <1>3, PTL DEF SignSpec

-----------------------------------------------------------------------------
(* Types.  A request carries a step of the list.                           *)
BoxesListed ==
  \A r \in Requests : jobs[r].at \in {"signing", "recording"} => jobs[r].box \in Indexes(chain)

(* The engine's rows stay of their types: its actions are taken as they    *)
(* are, and a withdrawal of the order only ends the document.              *)
LEMMA EngineRowsTyped ==
  ASSUME TypeOK, [SignNext]_signVars, jobs \in [Requests -> Jobs]
  PROVE  TypeOK' /\ chain' = chain
<1>1. CASE UNCHANGED vars
  BY <1>1, TypeStep DEF vars
<1>2. CASE Submit
  BY <1>2, TypeStep DEF Next, Submit
<1>3. ASSUME NEW u \in Users, Approve(u) \/ Return(u)
      PROVE  TypeOK' /\ chain' = chain
  BY <1>3, TypeStep DEF Next, Approve, Return
<1>4. CASE AssignHolders \/ ChangeDelegation
  BY <1>4, TypeStep DEF Next, AssignHolders, ChangeDelegation, doc
<1>5. CASE Withdraw
  BY <1>5 DEF Withdraw, TypeOK, Statuses
<1>6. ASSUME NEW r \in Requests
      PROVE  jobs[r].at = "signing" => jobs[r].by \in Users
  <2>1. jobs[r] \in Jobs
    OBVIOUS
  <2> QED
    BY <2>1 DEF Jobs, Idle
<1> QED
  BY <1>1, <1>2, <1>3, <1>4, <1>5, <1>6
     DEF SignNext, signVars, SubmitRead, SubmitAsk, SubmitRecord, SignRead, SignAsk, SignRecord,
         Refused, LoseAnswer, SignoffReturn, SetSignature

(* What a request holds, by what it is doing. *)
LEMMA JobTypes ==
  ASSUME NEW job \in Jobs
  PROVE  /\ job.at \in {"idle", "submitting", "clearing", "signing", "recording"}
         /\ job.at \in {"submitting", "clearing"} => job.wasReturned \in BOOLEAN
         /\ job.at \in {"signing", "recording"} => job.by \in Users /\ job.box \in Nat
BY DEF Jobs, Idle

(* A request that goes on to a job of its type. *)
LEMMA JobWritten ==
  ASSUME jobs \in [Requests -> Jobs], BoxesListed, NEW r \in Requests, NEW job \in Jobs,
         job.at \in {"signing", "recording"} => job.box \in Indexes(chain),
         jobs' = [jobs EXCEPT ![r] = job], chain' = chain
  PROVE  jobs' \in [Requests -> Jobs] /\ BoxesListed'
<1>1. \A q \in Requests : jobs'[q] = jobs[q] \/ jobs'[q] = job
  OBVIOUS
<1> QED
  BY <1>1 DEF BoxesListed

LEMMA SignTyped ==
  ASSUME SignTypeOK, BoxesListed, [SignNext]_signVars
  PROVE  SignTypeOK' /\ BoxesListed'
<1>0. /\ TypeOK /\ DOMAIN boxes \subseteq Indexes(chain)
      /\ \A i \in DOMAIN boxes : boxes[i] \in Users
      /\ approvals \subseteq [step : Nat, by : Users]
      /\ pictured \subseteq Users /\ withdrawn \in BOOLEAN
      /\ jobs \in [Requests -> Jobs]
      /\ lost \in 0 .. MaxLost /\ edits \in 0 .. MaxEdits
      /\ step \in Nat
  BY DEF SignTypeOK, TypeOK
<1>e. TypeOK' /\ chain' = chain
  BY <1>0, EngineRowsTyped
<1>1. CASE UNCHANGED own
  BY <1>0, <1>1, <1>e DEF own, SignTypeOK, BoxesListed
<1>2. ASSUME NEW r \in Requests, NEW job \in Jobs,
             job.at \in {"signing", "recording"} => job.box \in Indexes(chain), Goto(r, job),
             boxes' = boxes, approvals' \subseteq [step : Nat, by : Users],
             pictured' = pictured, withdrawn' = withdrawn,
             lost' \in 0 .. MaxLost, edits' = edits
      PROVE  SignTypeOK' /\ BoxesListed'
  <2>1. jobs' \in [Requests -> Jobs] /\ BoxesListed'
    BY <1>0, <1>2, <1>e, JobWritten DEF Goto
  <2> QED
    BY <1>0, <1>2, <1>e, <2>1 DEF SignTypeOK
<1>i. Idle \in Jobs /\ Idle.at = "idle"
  BY DEF Jobs, Idle
<1>3. ASSUME NEW r \in Requests, SubmitRead(r)
      PROVE  SignTypeOK' /\ BoxesListed'
  <2> SUFFICES ASSUME NEW job, job = [at |-> "submitting", wasReturned |-> status = "returned"]
               PROVE  SignTypeOK' /\ BoxesListed'
    OBVIOUS
  <2>1. job \in Jobs /\ job.at = "submitting"
    BY DEF Jobs
  <2> QED
    BY <1>0, <1>2, <1>3, <2>1 DEF SubmitRead
<1>4. ASSUME NEW r \in Requests, SubmitAsk(r)
      PROVE  SignTypeOK' /\ BoxesListed'
  <2> SUFFICES ASSUME NEW job, job = [at |-> "clearing", wasReturned |-> jobs[r].wasReturned]
               PROVE  SignTypeOK' /\ BoxesListed'
    OBVIOUS
  <2>1. jobs[r].wasReturned \in BOOLEAN
    BY <1>0, <1>4, JobTypes DEF SubmitAsk
  <2>2. job \in Jobs /\ job.at = "clearing"
    BY <2>1 DEF Jobs
  <2> QED
    BY <1>0, <1>2, <1>4, <2>2 DEF SubmitAsk
<1>5. ASSUME NEW r \in Requests, SubmitRecord(r)
      PROVE  SignTypeOK' /\ BoxesListed'
  <2>1. jobs' \in [Requests -> Jobs] /\ BoxesListed'
    BY <1>0, <1>5, <1>e, <1>i, JobWritten DEF SubmitRecord, Goto
  <2>2. DOMAIN boxes' \subseteq Indexes(chain) /\ \A i \in DOMAIN boxes' : boxes'[i] \in Users
    <3>1. DOMAIN << >> = {}
      BY EmptySeq
    <3> QED
      BY <1>0, <1>5, <3>1 DEF SubmitRecord
  <2> QED
    BY <1>0, <1>5, <1>e, <2>1, <2>2 DEF SubmitRecord, SignTypeOK
<1>6. ASSUME NEW r \in Requests, NEW u \in Users, SignRead(r, u)
      PROVE  SignTypeOK' /\ BoxesListed'
  <2> SUFFICES ASSUME NEW job, job = [at |-> "signing", by |-> u, box |-> step]
               PROVE  SignTypeOK' /\ BoxesListed'
    OBVIOUS
  <2>1. job \in Jobs /\ job.box = step
    BY <1>0 DEF Jobs
  <2>2. step \in Indexes(chain)
    <3>1. Len(chain) \in Nat
      BY <1>0, ChainType, LenProperties DEF TypeOK
    <3> QED
      BY <1>0, <1>6, <3>1 DEF SignRead, Indexes
  <2> QED
    BY <1>0, <1>2, <1>6, <2>1, <2>2 DEF SignRead
<1>7. ASSUME NEW r \in Requests, SignAsk(r)
      PROVE  SignTypeOK' /\ BoxesListed'
  <2> SUFFICES ASSUME NEW job, job = [at |-> "recording", by |-> jobs[r].by, box |-> jobs[r].box]
               PROVE  SignTypeOK' /\ BoxesListed'
    OBVIOUS
  <2>1. jobs[r].by \in Users /\ jobs[r].box \in Nat
    BY <1>0, <1>7, JobTypes DEF SignAsk
  <2>2. job \in Jobs /\ job.box = jobs[r].box
    BY <2>1 DEF Jobs
  <2>3. jobs[r].box \in Indexes(chain)
    BY <1>7 DEF SignAsk, BoxesListed
  <2>4. approvals' \subseteq [step : Nat, by : Users]
    BY <1>0, <1>7, <2>1 DEF SignAsk
  <2> QED
    BY <1>0, <1>2, <1>7, <2>2, <2>3, <2>4 DEF SignAsk
<1>8. ASSUME NEW r \in Requests, SignRecord(r)
      PROVE  SignTypeOK' /\ BoxesListed'
  <2>1. jobs' \in [Requests -> Jobs] /\ BoxesListed'
    BY <1>0, <1>8, <1>e, <1>i, JobWritten DEF SignRecord, Goto
  <2>2. jobs[r].by \in Users /\ jobs[r].box \in Indexes(chain)
    BY <1>0, <1>8, JobTypes DEF SignRecord, BoxesListed
  <2>3. /\ boxes' = [i \in DOMAIN boxes \cup {jobs[r].box} |->
                      IF i = jobs[r].box THEN jobs[r].by ELSE boxes[i]]
        /\ UNCHANGED <<approvals, pictured, withdrawn, lost, edits>>
    BY <1>8 DEF SignRecord, RecordedStep
  <2>4. DOMAIN boxes' \subseteq Indexes(chain) /\ \A i \in DOMAIN boxes' : boxes'[i] \in Users
    BY <1>0, <2>2, <2>3
  <2> QED
    BY <1>0, <1>e, <2>1, <2>3, <2>4 DEF SignTypeOK
<1>9. ASSUME NEW r \in Requests, Refused(r) \/ LoseAnswer(r)
      PROVE  SignTypeOK' /\ BoxesListed'
  <2>1. lost' \in 0 .. MaxLost
    BY <1>0, <1>9, SignoffBounds DEF Refused, LoseAnswer
  <2> QED
    BY <1>0, <1>2, <1>9, <1>i, <2>1 DEF Refused, LoseAnswer
<1>10. ASSUME NEW u \in Users, SetSignature(u)
       PROVE  SignTypeOK' /\ BoxesListed'
  <2>1. edits' \in 0 .. MaxEdits /\ pictured' \subseteq Users
    BY <1>0, <1>10, SignoffBounds DEF SetSignature
  <2> QED
    BY <1>0, <1>10, <1>e, <2>1 DEF SetSignature, SignTypeOK, BoxesListed
<1>11. CASE Withdraw
  BY <1>0, <1>11, <1>e DEF Withdraw, SignTypeOK, BoxesListed
<1> QED
  BY <1>1, <1>3, <1>4, <1>5, <1>6, <1>7, <1>8, <1>9, <1>10, <1>11
     DEF SignNext, SignoffReturn, signVars

LEMMA SignTypedFirst == SignInit => SignTypeOK /\ BoxesListed
<1> SUFFICES ASSUME SignInit PROVE SignTypeOK /\ BoxesListed
  OBVIOUS
<1>1. TypeOK /\ DOMAIN boxes = {}
  BY TypeInit, EmptySeq DEF SignInit
<1>2. Idle \in Jobs /\ Idle.at = "idle"
  BY DEF Jobs, Idle
<1>3. jobs \in [Requests -> Jobs] /\ \A r \in Requests : jobs[r].at = "idle"
  BY <1>2 DEF SignInit
<1>4. /\ approvals = {} /\ pictured \subseteq Users /\ withdrawn = FALSE
      /\ lost = 0 /\ edits = 0
  BY DEF SignInit
<1>5. BoxesListed
  BY <1>3 DEF BoxesListed
<1>6. lost \in 0 .. MaxLost /\ edits \in 0 .. MaxEdits
  BY <1>4, SignoffBounds
<1> QED
  BY <1>1, <1>3, <1>4, <1>5, <1>6 DEF SignTypeOK

(* The engine's row and the sign-off's keep their types: every signature   *)
(* is on a step of the list and names a person.                            *)
THEOREM SignaturesTyped == SignSpec => []SignTypeOK
<1>1. SignTypeOK /\ BoxesListed /\ [SignNext]_signVars => (SignTypeOK /\ BoxesListed)'
  BY SignTyped
<1> QED
  BY SignTypedFirst, <1>1, PTL DEF SignSpec

-----------------------------------------------------------------------------
(* Signatures, kept or about to be, that the engine has accepted.          *)
Accepted(u, i) == \E a \in approvals : a.by = u /\ a.step >= i

GrantInv ==
  /\ \A i \in DOMAIN boxes : Accepted(boxes[i], i)
  /\ \A r \in Requests : jobs[r].at = "recording" => Accepted(jobs[r].by, jobs[r].box)

(* An engine that has accepted more approvals has accepted the same ones.  *)
LEMMA GrantsKept ==
  ASSUME GrantInv, approvals \subseteq approvals',
         \A i \in DOMAIN boxes' : i \in DOMAIN boxes /\ boxes'[i] = boxes[i],
         \A r \in Requests : jobs'[r].at = "recording" =>
           jobs'[r] = jobs[r] \/ \E a \in approvals' : a.by = jobs'[r].by /\ a.step >= jobs'[r].box
  PROVE  GrantInv'
BY DEF GrantInv, Accepted

LEMMA GrantStep ==
  ASSUME SignTypeOK, BoxInv, GrantInv, [SignNext]_signVars
  PROVE  GrantInv'
<1>0. jobs \in [Requests -> Jobs] /\ step \in Nat
  BY DEF SignTypeOK, TypeOK
<1>1. CASE UNCHANGED <<boxes, approvals, jobs>>
  BY <1>1 DEF GrantInv, Accepted
<1>2. ASSUME NEW r \in Requests, NEW job, job.at # "recording", jobs' = [jobs EXCEPT ![r] = job],
             approvals' = approvals, boxes' = boxes \/ boxes' = << >>
      PROVE  GrantInv'
  <2>1. \A q \in Requests : jobs'[q] = jobs[q] \/ jobs'[q] = job
    BY <1>0, <1>2
  <2>2. \A i \in DOMAIN boxes' : i \in DOMAIN boxes /\ boxes'[i] = boxes[i]
    BY <1>2, EmptySeq
  <2> QED
    BY <1>2, <2>1, <2>2, GrantsKept
<1>i. Idle.at # "recording"
  BY DEF Idle
<1>3. ASSUME NEW r \in Requests, SubmitRead(r) \/ SubmitAsk(r) \/ SubmitRecord(r)
      PROVE  GrantInv'
  <2>1. PICK job : job.at # "recording" /\ jobs' = [jobs EXCEPT ![r] = job]
    BY <1>3, <1>i DEF SubmitRead, SubmitAsk, SubmitRecord, Goto
  <2> QED
    BY <1>2, <1>3, <2>1 DEF SubmitRead, SubmitAsk, SubmitRecord
<1>4. ASSUME NEW r \in Requests, NEW u \in Users, SignRead(r, u)
      PROVE  GrantInv'
  <2> SUFFICES ASSUME NEW job, job = [at |-> "signing", by |-> u, box |-> step]
               PROVE  GrantInv'
    OBVIOUS
  <2> QED
    BY <1>2, <1>4 DEF SignRead, Goto
<1>5. ASSUME NEW r \in Requests, SignAsk(r)
      PROVE  GrantInv'
  <2> SUFFICES ASSUME NEW job, job = [at |-> "recording", by |-> jobs[r].by, box |-> jobs[r].box]
               PROVE  GrantInv'
    OBVIOUS
  <2>1. /\ jobs[r].at = "signing" /\ status \in InFlight /\ boxes' = boxes
        /\ approvals' = approvals \cup {[step |-> step, by |-> jobs[r].by]}
        /\ jobs' = [jobs EXCEPT ![r] = job]
    BY <1>5 DEF SignAsk, Approve, Goto
  <2>2. jobs[r].box \in Nat /\ jobs[r].box <= step
    BY <2>1 DEF BoxInv, SignedBelow
  <2>3. \E a \in approvals' : a.by = job.by /\ a.step >= job.box
    <3>1. [step |-> step, by |-> jobs[r].by] \in approvals'
      BY <2>1
    <3> QED
      BY <1>0, <2>2, <3>1
  <2>4. \A q \in Requests : jobs'[q] = jobs[q] \/ jobs'[q] = job
    BY <1>0, <2>1
  <2> QED
    BY <2>1, <2>3, <2>4, GrantsKept
<1>6. ASSUME NEW r \in Requests, SignRecord(r)
      PROVE  GrantInv'
  <2>1. /\ jobs[r].at = "recording" /\ approvals' = approvals
        /\ boxes' = [i \in DOMAIN boxes \cup {jobs[r].box} |->
                      IF i = jobs[r].box THEN jobs[r].by ELSE boxes[i]]
        /\ jobs' = [jobs EXCEPT ![r] = Idle]
    BY <1>6 DEF SignRecord, RecordedStep, Goto
  <2>2. \A q \in Requests : jobs'[q] = jobs[q] \/ jobs'[q].at # "recording"
    BY <1>0, <1>i, <2>1
  <2>3. Accepted(jobs[r].by, jobs[r].box)
    BY <2>1 DEF GrantInv
  <2> QED
    BY <2>1, <2>2, <2>3 DEF GrantInv, Accepted
<1>7. ASSUME NEW r \in Requests, Refused(r) \/ LoseAnswer(r)
      PROVE  GrantInv'
  BY <1>2, <1>7, <1>i DEF Refused, LoseAnswer, Goto
<1>8. CASE Withdraw \/ (\E u \in Users : SignoffReturn(u) \/ SetSignature(u))
           \/ ((AssignHolders \/ ChangeDelegation) /\ UNCHANGED own)
  BY <1>1, <1>8 DEF Withdraw, SignoffReturn, SetSignature, own
<1> QED
  BY <1>1, <1>3, <1>4, <1>5, <1>6, <1>7, <1>8 DEF SignNext, signVars, own

(* Nobody's signature is on the document without the engine having         *)
(* accepted an approval of theirs, at that step or a later one: the answer *)
(* is awaited, and the step read before it can only have moved on.         *)
THEOREM SignaturesGranted == SignSpec => []SignaturesWereGranted
<1>1. SignInit => SignTypeOK /\ BoxesListed /\ BoxInv /\ Len(chain) \in Nat /\ GrantInv
  <2> SUFFICES ASSUME SignInit
               PROVE  SignTypeOK /\ BoxesListed /\ BoxInv /\ Len(chain) \in Nat /\ GrantInv
    OBVIOUS
  <2>1. \A r \in Requests : jobs[r].at # "recording"
    BY DEF SignInit, Idle
  <2>2. DOMAIN boxes = {}
    BY EmptySeq DEF SignInit
  <2>3. GrantInv
    BY <2>1, <2>2 DEF GrantInv
  <2> QED
    BY <2>3, SignTypedFirst, BoxStart, ChainIsList DEF SignInit
<1>2. SignTypeOK /\ BoxesListed /\ BoxInv /\ Len(chain) \in Nat /\ GrantInv /\ [SignNext]_signVars
        => (SignTypeOK /\ BoxesListed /\ BoxInv /\ Len(chain) \in Nat /\ GrantInv)'
  BY SignTyped, BoxStep, GrantStep
<1>3. GrantInv => SignaturesWereGranted
  BY DEF GrantInv, Accepted, SignaturesWereGranted
<1> QED
  BY <1>1, <1>2, <1>3, PTL DEF SignSpec

-----------------------------------------------------------------------------
(* The composition implements the engine's lifecycle: what epms-api writes *)
(* beside the engine, and NC's withdrawal of the order, are steps of it.   *)

(* The engine steps that a sign-off takes. *)
EngineStep ==
  \/ Submit \/ (\E u \in Users : Approve(u) \/ Return(u))
  \/ AssignHolders \/ ChangeDelegation
  \/ UNCHANGED vars

LEMMA SignSteps ==
  ASSUME SignTypeOK, [SignNext]_signVars
  PROVE  Withdraw \/ EngineStep
<1>1. ASSUME NEW r \in Requests, SignAsk(r)
      PROVE  EngineStep
  <2>1. jobs[r] \in Jobs /\ jobs[r].at = "signing" /\ Approve(jobs[r].by)
    BY <1>1 DEF SignTypeOK, SignAsk
  <2>2. jobs[r].by \in Users
    BY <2>1, JobTypes
  <2> QED
    BY <2>1, <2>2 DEF EngineStep
<1> QED
  BY <1>1
  DEF SignNext, signVars, SubmitRead, SubmitAsk, SubmitRecord, SignRead, SignRecord, Refused,
      LoseAnswer, SignoffReturn, SetSignature, EngineStep

(* A withdrawal ends a document in flight or returned, and leaves a draft  *)
(* or a decided one.                                                       *)
LEMMA WithdrawKeeps ==
  ASSUME Run, Withdraw
  PROVE  Run'
<1>1. OpenApprovals' = {} /\ UNCHANGED <<step, applied, form, lastReturn, trail, org, chain>>
  BY DEF Withdraw, OpenApprovals
<1>2. CASE status \in InFlight \cup {"returned"}
  BY <1>1, <1>2, PutAside DEF Withdraw
<1>3. CASE status \notin InFlight \cup {"returned"}
  <2>1. status' = status /\ status' \notin InFlight /\ status' # "returned"
    BY <1>3 DEF Withdraw
  <2>2. Workflow' = Workflow
    BY WalksChain, WalksChainNext, <1>1
  <2> QED
    BY <1>1, <2>1, <2>2 DEF Run, EveryStepCleared, Granted, Cleared, ReturnCleared,
                            TaskAtPendingStep, ModeFrozen
<1> QED
  BY <1>2, <1>3

LEMMA SignRun ==
  ASSUME SignTypeOK, Run, [SignNext]_signVars
  PROVE  Run'
<1>1. CASE Withdraw
  BY <1>1, WithdrawKeeps
<1>2. CASE EngineStep
  BY <1>2, SubmitKeeps, ApproveKeeps, ReturnKeeps, DocStands
  DEF SignTypeOK, EngineStep, AssignHolders, ChangeDelegation, vars, doc
<1> QED
  BY <1>1, <1>2, SignSteps

LEMMA SignLifecycleStep ==
  ASSUME SignTypeOK, Run, Run', [SignNext]_signVars
  PROVE  [Lifecycle!Next]_(Lifecycle!vars)
<1>1. CASE EngineStep
  <2>1. CASE Submit
    BY <2>1, Begins DEF SignTypeOK, Lifecycle!Next
  <2>2. ASSUME NEW u \in Users, Approve(u)
        PROVE  Lifecycle!Next
    BY <2>2, ApproveSettles DEF SignTypeOK, Lifecycle!Next
  <2>3. ASSUME NEW u \in Users, Return(u)
        PROVE  Lifecycle!Next
    BY <2>3, ReturnSendsBack DEF Lifecycle!Next
  <2>4. CASE AssignHolders \/ ChangeDelegation \/ UNCHANGED vars
    <3>1. UNCHANGED <<status, step, applied, lastReturn, chain>>
      BY <2>4 DEF AssignHolders, ChangeDelegation, vars, doc
    <3> QED
      BY <3>1, Stutters DEF SignTypeOK, Lifecycle!vars
  <2> QED
    BY <1>1, <2>1, <2>2, <2>3, <2>4 DEF EngineStep
<1>2. CASE Withdraw
  <2>1. UNCHANGED <<step, applied, lastReturn, chain>>
    BY <1>2 DEF Withdraw
  <2>2. CASE status \in InFlight \cup {"returned"}
    <3>1. status' = "cancelled"
      BY <1>2, <2>2 DEF Withdraw
    <3>2. Lifecycle!Refuse
      BY <2>2, <3>1, Image, ImageNext DEF Lifecycle!Refuse
    <3> QED
      BY <3>2 DEF Lifecycle!Next
  <2>3. CASE status \notin InFlight \cup {"returned"}
    <3>1. status' = status
      BY <1>2, <2>3 DEF Withdraw
    <3> QED
      BY <2>1, <3>1, Stutters DEF SignTypeOK, Lifecycle!vars
  <2> QED
    BY <2>2, <2>3
<1> QED
  BY <1>1, <1>2, SignSteps

(* The sign-off keeps the engine's promise whatever requests overlap,      *)
(* whichever answers are lost and whenever NC withdraws the order: one     *)
(* frozen list walked from its first unsettled step, approved at its end   *)
(* only, and an approved sign-off stays approved though the order is gone. *)
THEOREM SignoffImplementsLifecycle == SignSpec => ImplementsLifecycle
<1>1. SignInit => Lifecycle!Init /\ Run
  BY LifecycleInit, StepsInit DEF SignInit, StepsInv, Run
<1>2. SignTypeOK /\ Run /\ [SignNext]_signVars => Run'
  BY SignRun
<1>3. SignTypeOK /\ Run /\ Run' /\ [SignNext]_signVars => [Lifecycle!Next]_(Lifecycle!vars)
  BY SignLifecycleStep
<1> QED
  BY <1>1, <1>2, <1>3, SignaturesTyped, PTL DEF SignSpec, ImplementsLifecycle, Lifecycle!Spec

=============================================================================
