-------------------------- MODULE ApprovalLifecycle --------------------------
(***************************************************************************)
(* What the approval engine promises for one document, without saying who  *)
(* acts, how a step comes to be settled or how the list is put together.   *)
(*                                                                         *)
(* A document is open (with its requester), pending (with its approvers),  *)
(* granted or refused.  A run of approval walks a fixed list of steps from *)
(* its first unsettled one; nothing is granted before the whole list is    *)
(* settled, no settled step becomes unsettled while the document is        *)
(* pending, and granted and refused are final.  What was settled may       *)
(* outlive a return to the requester: the next run then settles the same   *)
(* steps in front or starts again from the top.                            *)
(***************************************************************************)
EXTENDS Integers, Sequences

CONSTANT Lists      \* the step lists a run may walk

VARIABLES
  phase,    \* "open", "pending", "granted", "refused"
  list,     \* the steps of the current run
  done      \* how many of them, from the front, are settled

vars == <<phase, list, done>>

Front(s, k) == SubSeq(s, 1, k)

Init == phase = "open" /\ list = <<>> /\ done = 0

Proceed == phase' = IF done' = Len(list') THEN "granted" ELSE "pending"

(* A submission: settled steps stand only as steps of the same list front. *)
Begin ==
  /\ phase = "open"
  /\ list' \in Lists
  /\ \E k \in 0 .. done :
       /\ k <= Len(list')
       /\ Front(list', k) = Front(list, k)
       /\ done' \in k .. Len(list')
  /\ Proceed

Settle ==
  /\ phase = "pending"
  /\ done' \in done + 1 .. Len(list)
  /\ UNCHANGED list
  /\ Proceed

(* Back to the requester, keeping what was settled. *)
SendBack ==
  /\ phase = "pending"
  /\ phase' = "open"
  /\ UNCHANGED <<list, done>>

(* Back to a draft: nothing stands. *)
StartOver ==
  /\ phase = "pending"
  /\ phase' = "open" /\ list' = <<>> /\ done' = 0

Refuse ==
  /\ phase \in {"open", "pending"}
  /\ phase' = "refused" /\ list' = <<>> /\ done' = 0

Next == Begin \/ Settle \/ SendBack \/ StartOver \/ Refuse

Spec == Init /\ [][Next]_vars

=============================================================================
