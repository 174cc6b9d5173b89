------------------------- MODULE MembershipAbstract -------------------------
(***************************************************************************)
(* What the membership store promises (spec.md 3, 4.1 and 5): the active   *)
(* members and the tombstones change one whole configuration change at a   *)
(* time, and only by a change that is valid against the membership it is  *)
(* applied to.  No request, proposal or timeout appears here.             *)
(***************************************************************************)
EXTENDS FiniteSets, Functions, TLC

CONSTANTS IDs, URLs, InitMembers

VARIABLES members, removed

Active == DOMAIN members

\* Peer URLs held by the active members other than `id`.
HeldByOthers(id) == UNION {members[m] : m \in Active \ {id}}

AddNode(id, urls) ==
  /\ id \notin Active \cup removed
  /\ urls \cap HeldByOthers(id) = {}
  /\ members' = members @@ (id :> urls)
  /\ UNCHANGED removed

RemoveNode(id) ==
  /\ id \in Active
  /\ members' = Restrict(members, Active \ {id})
  /\ removed' = removed \cup {id}

UpdateNode(id, urls) ==
  /\ id \in Active
  /\ urls \cap HeldByOthers(id) = {}
  /\ members' = [members EXCEPT ![id] = urls]
  /\ UNCHANGED removed

Init == members = InitMembers /\ removed = {}

Next ==
  \E id \in IDs :
    \/ RemoveNode(id)
    \/ \E urls \in SUBSET URLs : AddNode(id, urls) \/ UpdateNode(id, urls)

Spec == Init /\ [][Next]_<<members, removed>>

=============================================================================
