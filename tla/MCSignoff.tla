------------------------------ MODULE MCSignoff ------------------------------
(***************************************************************************)
(* The paper form's two signatures.  The Purchasing Manager's post has one *)
(* holder or two, and one person may come to hold both posts.              *)
(***************************************************************************)
EXTENDS PoSignoff

CONSTANTS officer, pm, opm

NoPosts == [p \in PostRoles |-> {}]
OrgWith(buyers, managers) ==
  [posts |-> [NoPosts EXCEPT !["procurement_manager"] = buyers, !["opm"] = managers],
   gmOrOpm |-> "gm", crossPost |-> "gm", obMode |-> "allow",
   manager |-> NoUser, director |-> NoUser, supervisor |-> NoUser]

PaperForm == {<<[role |-> "procurement_manager", ob |-> FALSE],
                [role |-> "opm", ob |-> FALSE]>>}
BlankForms == {[overBudget |-> FALSE, crossDept |-> FALSE, zone |-> {}]}
Tokens == [u \in Users |-> "staff"]

NobodyAway == {[u \in Users |-> NoUser]}
PmAway == NobodyAway \cup {[u \in Users |-> IF u = pm THEN officer ELSE NoUser]}

FixedPosts == {OrgWith({pm}, {opm})}
MovingPosts == FixedPosts \cup {OrgWith({pm, opm}, {opm})}

=============================================================================
