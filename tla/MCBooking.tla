------------------------------ MODULE MCBooking ------------------------------
(* A meeting, single or weekly on two dates, in either of two slots. *)
EXTENDS RoomBooking, TLC

CONSTANTS r1, r2, s1, s2

SlotSymmetry == Permutations({s1, s2})

=============================================================================
