------------------------------ MODULE MCApproval ------------------------------
(***************************************************************************)
(* Small instances of ApprovalEngine, one per kind of document whose rules *)
(* differ.  Each gives the organisations, forms, chains and delegations    *)
(* TLC moves between.                                                      *)
(***************************************************************************)
EXTENDS ApprovalEngine

CONSTANTS req, mgr, dir, fin, boss, adm   \* people: requester, managers, admin

NoPosts == [p \in PostRoles |-> {}]
Posts == [NoPosts EXCEPT !["gm"] = {boss, mgr}, !["opm"] = {boss},
                         !["finance_manager"] = {fin}, !["finance_bp"] = {fin}]

BaseOrg ==
  [posts |-> Posts, gmOrOpm |-> "gm", crossPost |-> "gm", obMode |-> "fm_gm_opm",
   manager |-> mgr, director |-> dir, supervisor |-> NoUser]

BaseForm == [overBudget |-> FALSE, crossDept |-> FALSE, zone |-> {}]

Node(role) == [role |-> role, ob |-> FALSE]
Chain(roles) == [i \in DOMAIN roles |-> Node(roles[i])]

Tokens == [u \in Users |-> IF u = adm THEN "system_admin" ELSE "staff"]
NoDelegates == {[u \in Users |-> NoUser]}
MgrAway == NoDelegates \cup {[u \in Users |-> IF u = mgr THEN fin ELSE NoUser]}

(* Purchase requests over and under budget, while Budget Config, the       *)
(* department's Director and GM/OPM choice change.                         *)
PrChains == {Chain(<<"dept_manager", "director", "gm_or_opm">>)}
PrForms == {[BaseForm EXCEPT !.overBudget = b] : b \in BOOLEAN}
PrOrgs ==
  {[BaseOrg EXCEPT !.obMode = m, !.director = d, !.gmOrOpm = g] :
     m \in BudgetModes, d \in {dir, boss, NoUser}, g \in {"gm", "opm"}}

(* Expense claims whose claimant comes to manage the department and to be  *)
(* the finance BP or the GM, alone or with somebody else.                  *)
ExpChains == {Chain(<<"dept_manager", "supervisor", "finance_bp", "gm_or_opm">>)}
ClaimForms == {BaseForm}
ExpOrgs ==
  {[BaseOrg EXCEPT !.manager = m, !.supervisor = s,
                   !.posts = [Posts EXCEPT !["finance_bp"] = b, !["gm"] = g]] :
     m \in {mgr, req}, s \in {dir, NoUser}, b \in {{fin}, {req}, {fin, req}},
     g \in {{boss}, {req}}}

(* Payments of one department and of several, under both settings of the   *)
(* post that approves those, whose finance BP is also the GM or not.       *)
PaChains == {Chain(<<"dept_manager", "director", "finance_bp", "gm_or_opm">>)}
PaForms == {[BaseForm EXCEPT !.crossDept = b] : b \in BOOLEAN}
PaOrgs ==
  {[BaseOrg EXCEPT !.crossPost = c, !.director = d,
                   !.posts = [Posts EXCEPT !["gm"] = g]] :
     c \in {"gm", "opm"}, d \in {dir, NoUser}, g \in {{boss}, {fin}}}

(* Visits to zones with two managers, one and none. *)
VisitChains == {Chain(<<"dept_manager", "zone_manager", "finance_manager">>)}
VisitForms == {[BaseForm EXCEPT !.zone = z] : z \in {{}, {dir}, {dir, fin}}}
VisitOrgs == {[BaseOrg EXCEPT !.manager = m] : m \in {mgr, dir, NoUser}}

(* A claimant who manages the department, and a Director who may leave.    *)
ClaimantOrgs ==
  {[BaseOrg EXCEPT !.manager = m, !.director = d] : m \in {req, mgr}, d \in {dir, NoUser}}
ClaimDirectorChains == {Chain(<<"dept_manager", "director">>)}

=============================================================================
