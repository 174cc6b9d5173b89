------------------------------- MODULE MCAuth -------------------------------
(* Keys "/a", "/a/b" and "/ab" as character sequences; role permissions   *)
(* drawn from read "/a", read "/a*" and write "/a"; roles ra (always      *)
(* loadable), rb and guest (possibly missing) and the built-in root; a   *)
(* user with up to two of these roles.                                   *)
EXTENDS AuthSpec, FiniteSets, TLC

KA  == <<"/", "a">>
KAB == <<"/", "a", "/", "b">>
KAb == <<"/", "a", "b">>

Grantable == {Perm(KA, FALSE, FALSE), Perm(KA, TRUE, FALSE), Perm(KA, FALSE, TRUE)}

RoleLists == {<< >>} \cup {<<x>> : x \in {"ra", "rb", "root"}}
               \cup {<<x, y>> : x, y \in {"ra", "rb", "root"}}

StoreSet(lists, raVals, rbVals, guestVals) ==
  { [enabled |-> e, userRoles |-> l,
     roles |-> ("ra" :> a) @@ ("rb" :> b) @@ ("guest" :> g) @@ ("root" :> RootPerms)] :
      e \in BOOLEAN, l \in lists, a \in raVals, b \in rbVals, g \in guestVals }

\* Users with up to two roles, rb possibly missing; no guest grants.
MCUserStores == StoreSet(RoleLists, SUBSET Grantable, SUBSET Grantable \cup {Missing}, {{}})

\* Anonymous requests against every guest role.
MCGuestStores == StoreSet({<< >>}, {{}}, {Missing}, SUBSET Grantable \cup {Missing})

MCRequests ==
  [creds : {NoCreds} \cup [user : {User}, pwOK : BOOLEAN] \cup [user : {Unknown}, pwOK : {TRUE}],
   method : {"GET", "PUT"}, key : {KA, KAB, KAb}, recursive : BOOLEAN]
=============================================================================
