---------------------------- MODULE ApprovalRace ----------------------------
(***************************************************************************)
(* The re-sync as it runs: unlike an approval it takes no lock on the      *)
(* document it reads, so decisions commit between its read of the row and  *)
(* the open tasks and its write.  It writes against the row and the tasks  *)
(* of that later moment; the configuration it applies is the one saved by  *)
(* then.                                                                   *)
(***************************************************************************)
EXTENDS ApprovalEngine

VARIABLE seen       \* what the running re-sync has read; NotRunning for none

raceVars == <<vars, seen>>

NotRunning == [status |-> "draft", step |-> 0, wf |-> <<>>, tasks |-> {}]

RaceInit == Init /\ seen = NotRunning

(* The batch picks documents that have an open approval task. *)
ResyncRead ==
  /\ seen = NotRunning
  /\ OpenApprovals # {}
  /\ seen' = Now
  /\ UNCHANGED vars

ResyncWrite ==
  /\ seen # NotRunning
  /\ ResyncFrom(seen)
  /\ seen' = NotRunning

(* It found nothing to change, or failed and rolled back. *)
ResyncNothing ==
  /\ seen # NotRunning
  /\ seen' = NotRunning
  /\ UNCHANGED vars

RaceNext ==
  \/ Next /\ UNCHANGED seen
  \/ ResyncRead \/ ResyncWrite \/ ResyncNothing

RaceSpec == RaceInit /\ [][RaceNext]_raceVars

=============================================================================
