-------------------------------- MODULE MCRace --------------------------------
(***************************************************************************)
(* An instance of ApprovalRace: a chain with a Director who may be         *)
(* unassigned.                                                             *)
(***************************************************************************)
EXTENDS ApprovalRace

CONSTANTS req, mgr, dir, fin

Posts == [p \in PostRoles |-> IF p = "finance_manager" THEN {fin} ELSE {}]
BaseOrg ==
  [posts |-> Posts, gmOrOpm |-> "gm", crossPost |-> "gm", obMode |-> "allow",
   manager |-> mgr, director |-> dir, supervisor |-> NoUser]

Tokens == [u \in Users |-> "staff"]
NoDelegates == {[u \in Users |-> NoUser]}
PlainForms == {[overBudget |-> FALSE, crossDept |-> FALSE, zone |-> {}]}

Node(role) == [role |-> role, ob |-> FALSE]
DirectorChains == {<<Node("dept_manager"), Node("director")>>}
DirectorOrgs == {[BaseOrg EXCEPT !.director = d] : d \in {dir, NoUser}}

=============================================================================
