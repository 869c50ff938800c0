------------------------------ MODULE PoSignoff ------------------------------
(***************************************************************************)
(* The signature flow over a purchase order mirrored from NC: epms-api's   *)
(* sign-off endpoints (app/api/v1/po_signoff.py, app/crud/po_signoff.py)   *)
(* composed with the approval engine, which runs it as doc_type "posign".  *)
(*                                                                         *)
(* A request reads the purchase order, asks the engine over HTTP, and only *)
(* then writes its own rows: three steps, between which other requests,    *)
(* the engine and NC's withdrawal of the order commit.  The engine commits *)
(* before it answers; when the answer does not arrive (a timeout, a        *)
(* restart of epms-api) the last step is lost.                             *)
(*                                                                         *)
(* `boxes` is the table po_signoff_signatures, step_idx -> signer, and     *)
(* `approvals` the engine's approve events of this sign-off.               *)
(***************************************************************************)
EXTENDS ApprovalEngine

CONSTANTS
  Requests,   \* requests to epms-api that may run at the same time
  MaxLost,    \* bound: answers of the engine that are lost
  MaxEdits    \* bound: signature images set or removed in a profile

ASSUME SignoffAssumption == DocType = "posign"
ASSUME SignoffBounds == MaxLost \in Nat /\ MaxEdits \in Nat

VARIABLES
  boxes,      \* a partial function from steps to users
  approvals,  \* [step, by]
  pictured,   \* the users whose profile holds a signature image
  withdrawn,  \* NC retracted the order
  jobs,       \* what each request has read and is waiting for
  lost, edits

own == <<boxes, approvals, pictured, withdrawn, jobs, lost, edits>>
signVars == <<vars, own>>

Idle == [at |-> "idle"]
Jobs ==
  {Idle} \cup [at : {"submitting", "clearing"}, wasReturned : BOOLEAN]
         \cup [at : {"signing", "recording"}, by : Users, box : Nat]

SignInit ==
  /\ Init
  /\ boxes = << >> /\ approvals = {}
  /\ pictured \in SUBSET Users
  /\ withdrawn = FALSE
  /\ jobs = [r \in Requests |-> Idle]
  /\ lost = 0 /\ edits = 0

Goto(r, job) == jobs' = [jobs EXCEPT ![r] = job]

-----------------------------------------------------------------------------
(* submit *)

(* A step nobody holds, or none of whose holders has set a signature.      *)
Blocked == \E i \in Indexes(chain) : org.posts[At(chain, i).role] \cap pictured = {}

SubmitRead(r) ==
  /\ jobs[r] = Idle
  /\ ~ withdrawn /\ ~ Blocked
  /\ Goto(r, [at |-> "submitting", wasReturned |-> status = "returned"])
  /\ UNCHANGED <<vars, boxes, approvals, pictured, withdrawn, lost, edits>>

SubmitAsk(r) ==
  /\ jobs[r].at = "submitting"
  /\ Submit
  /\ Goto(r, [at |-> "clearing", wasReturned |-> jobs[r].wasReturned])
  /\ UNCHANGED <<boxes, approvals, pictured, withdrawn, lost, edits>>

(* clear_signatures, when it was a resubmission. *)
SubmitRecord(r) ==
  /\ jobs[r].at = "clearing"
  /\ boxes' = IF jobs[r].wasReturned THEN << >> ELSE boxes
  /\ Goto(r, Idle)
  /\ UNCHANGED <<vars, approvals, pictured, withdrawn, lost, edits>>

-----------------------------------------------------------------------------
(* sign *)

SignRead(r, u) ==
  /\ jobs[r] = Idle
  /\ status \in InFlight /\ step < Len(chain)
  /\ u \in pictured
  /\ Goto(r, [at |-> "signing", by |-> u, box |-> step])
  /\ UNCHANGED <<vars, boxes, approvals, pictured, withdrawn, lost, edits>>

(* Mutant: goes on to the signature although the engine refused.           *)
SignAskRegardless(r) ==
  /\ jobs[r].at = "signing"
  /\ IF status \in InFlight /\ CanApprove(jobs[r].by)
     THEN Approve(jobs[r].by)
          /\ approvals' = approvals \cup {[step |-> step, by |-> jobs[r].by]}
     ELSE UNCHANGED <<vars, approvals>>
  /\ Goto(r, [at |-> "recording", by |-> jobs[r].by, box |-> jobs[r].box])
  /\ UNCHANGED <<boxes, pictured, withdrawn, lost, edits>>

(* The engine approves the step it finds, which need not be the one read.  *)
SignAsk(r) ==
  /\ jobs[r].at = "signing"
  /\ Approve(jobs[r].by)
  /\ approvals' = approvals \cup {[step |-> step, by |-> jobs[r].by]}
  /\ Goto(r, [at |-> "recording", by |-> jobs[r].by, box |-> jobs[r].box])
  /\ UNCHANGED <<boxes, pictured, withdrawn, lost, edits>>

(* Mutant: the step as the engine left it. *)
RecordedStepNow(job) == step

RecordedStep(job) == job.box

(* record_signature: delete the step's row, insert the new one. *)
SignRecord(r) ==
  /\ jobs[r].at = "recording"
  /\ LET signed == RecordedStep(jobs[r])
     IN boxes' = [i \in DOMAIN boxes \cup {signed} |->
                    IF i = signed THEN jobs[r].by ELSE boxes[i]]
  /\ Goto(r, Idle)
  /\ UNCHANGED <<vars, approvals, pictured, withdrawn, lost, edits>>

-----------------------------------------------------------------------------
(* The engine refused or could not be reached: nothing was written. *)
Refused(r) ==
  /\ jobs[r].at \in {"submitting", "signing"}
  /\ Goto(r, Idle)
  /\ UNCHANGED <<vars, boxes, approvals, pictured, withdrawn, lost, edits>>

(* The engine committed and its answer was lost. *)
LoseAnswer(r) ==
  /\ jobs[r].at \in {"clearing", "recording"}
  /\ lost < MaxLost
  /\ lost' = lost + 1
  /\ Goto(r, Idle)
  /\ UNCHANGED <<vars, boxes, approvals, pictured, withdrawn, edits>>

(* return: the engine's; the endpoint writes nothing of its own. *)
SignoffReturn(u) == Return(u) /\ UNCHANGED own

(* Mutant: an approved sign-off is withdrawn as well. *)
WithdrawApprovedToo ==
  /\ ~ withdrawn
  /\ withdrawn' = TRUE
  /\ status' = IF status = "draft" THEN status ELSE "cancelled"
  /\ tasks' = {}
  /\ UNCHANGED <<step, applied, form, lastReturn, trail, released, org, standIn, chain>>
  /\ UNCHANGED <<boxes, approvals, pictured, jobs, lost, edits>>

(* The NC mirror finds the order retracted: its sign-off goes with it. *)
Withdraw ==
  /\ ~ withdrawn
  /\ withdrawn' = TRUE
  /\ status' = IF status \in InFlight \cup {"returned"} THEN "cancelled" ELSE status
  /\ tasks' = {}
  /\ UNCHANGED <<step, applied, form, lastReturn, trail, released, org, standIn, chain>>
  /\ UNCHANGED <<boxes, approvals, pictured, jobs, lost, edits>>

(* A user sets or removes the signature of their profile. *)
SetSignature(u) ==
  /\ edits < MaxEdits
  /\ edits' = edits + 1
  /\ pictured' = IF u \in pictured THEN pictured \ {u} ELSE pictured \cup {u}
  /\ UNCHANGED <<vars, boxes, approvals, withdrawn, jobs, lost>>

SignNext ==
  \/ \E r \in Requests :
       \/ SubmitRead(r) \/ SubmitAsk(r) \/ SubmitRecord(r)
       \/ \E u \in Users : SignRead(r, u)
       \/ SignAsk(r) \/ SignRecord(r)
       \/ Refused(r) \/ LoseAnswer(r)
  \/ \E u \in Users : SignoffReturn(u) \/ SetSignature(u)
  \/ Withdraw
  \/ (AssignHolders \/ ChangeDelegation) /\ UNCHANGED own

SignSpec == SignInit /\ [][SignNext]_signVars

-----------------------------------------------------------------------------
(* Properties. *)

(* The engine's row and the sign-off's: a signature is on a step that is   *)
(* one of the list, and names a person.                                    *)
SignTypeOK ==
  /\ TypeOK
  /\ DOMAIN boxes \subseteq Indexes(chain)
  /\ \A i \in DOMAIN boxes : boxes[i] \in Users
  /\ approvals \subseteq [step : Nat, by : Users]
  /\ pictured \subseteq Users
  /\ withdrawn \in BOOLEAN
  /\ jobs \in [Requests -> Jobs]
  /\ lost \in 0 .. MaxLost /\ edits \in 0 .. MaxEdits

(* A step still to be signed has a blank box: no signature of an earlier   *)
(* round is found under a later one's step, whatever answers were lost on  *)
(* the way, whichever requests overtook one another.                       *)
PendingBoxesBlank ==
  status \in InFlight => \A i \in DOMAIN boxes : i < step

(* Nobody's signature is on the document without the engine having         *)
(* accepted an approval of theirs, at that step or a later one.            *)
SignaturesWereGranted ==
  \A i \in DOMAIN boxes : \E a \in approvals : a.by = boxes[i] /\ a.step >= i

(* po_signoff.py, sign: without a signature "the step would advance and    *)
(* the document would carry a blank signature box forever".  An approved   *)
(* sign-off no request is working on has every box signed.                 *)
ApprovedFullySigned ==
  status = "approved" /\ (\A r \in Requests : jobs[r] = Idle)
    => Indexes(chain) \subseteq DOMAIN boxes

=============================================================================
