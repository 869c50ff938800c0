------------------------------- MODULE MCVisit -------------------------------
(***************************************************************************)
(* A visit to one of two zones: the lab, whose only manager may leave, and *)
(* the plant, free of approval or managed by somebody else.                *)
(***************************************************************************)
EXTENDS VisitLifecycle

CONSTANTS lab, plant, m1, m2

Managed(s) == [managers |-> s, active |-> s]
Deserted == [managers |-> {m1}, active |-> {}]

FreePlant ==
  {[z \in Zones |-> IF z = lab THEN l ELSE Managed({})] : l \in {Managed({m1}), Deserted}}

=============================================================================
