----------------------------- MODULE MCDocuments -----------------------------
(***************************************************************************)
(* Small instances of ApprovalEngine side by side: one document of the     *)
(* kind picked in the initial state, walked by the rules of its type.  A   *)
(* "raced" purchase order is re-synced in two steps (ApprovalRace), on a   *)
(* chain no step of which can be skipped.                                  *)
(***************************************************************************)
EXTENDS MCApproval

VARIABLES kind, seen

PlainChains == {Chain(<<"dept_manager", "finance_manager">>)}
PlainOrgs == {[BaseOrg EXCEPT !.manager = m] : m \in {mgr, dir}}

Claim == INSTANCE ApprovalEngine
  WITH DocType <- "exp", Chains <- ExpChains, Orgs <- ExpOrgs, Forms <- ClaimForms,
       Delegates <- MgrAway
Payment == INSTANCE ApprovalEngine
  WITH DocType <- "pa", Chains <- PaChains, Orgs <- PaOrgs, Forms <- PaForms,
       Delegates <- NoDelegates
Visit == INSTANCE ApprovalEngine
  WITH DocType <- "vms_visit", Chains <- VisitChains, Orgs <- VisitOrgs,
       Forms <- VisitForms, Delegates <- NoDelegates
Raced == INSTANCE ApprovalRace
  WITH DocType <- "po", Chains <- PlainChains, Orgs <- PlainOrgs, Forms <- ClaimForms,
       Delegates <- NoDelegates

docVars == <<vars, seen, kind>>

DocInit ==
  \/ kind = "claim"    /\ Claim!Init    /\ seen = Raced!NotRunning
  \/ kind = "payment"  /\ Payment!Init  /\ seen = Raced!NotRunning
  \/ kind = "visit"    /\ Visit!Init    /\ seen = Raced!NotRunning
  \/ kind = "raced"    /\ Raced!RaceInit

DocNext ==
  /\ UNCHANGED kind
  /\ \/ kind = "claim"    /\ Claim!Next    /\ UNCHANGED seen
     \/ kind = "payment"  /\ Payment!Next  /\ UNCHANGED seen
     \/ kind = "visit"    /\ Visit!Next    /\ UNCHANGED seen
     \/ kind = "raced"    /\ Raced!RaceNext

DocSpec == DocInit /\ [][DocNext]_docVars

-----------------------------------------------------------------------------
(* What ApprovalEngine and ApprovalRace say of each kind of document.      *)
(* GrantedWasSigned, ReleasedOnce, CrossDeptApprovedAbove,                 *)
(* EveryZoneManagerAsked and DecisionsStand are checked as they stand: the *)
(* module's own DocType is a payment's, for which they say of every kind   *)
(* here what they say under its own (only payments have forms across       *)
(* departments, only visits a zone step, and all the kinds have a          *)
(* post-approval effect).                                                  *)

=============================================================================
