------------------------------ MODULE AuthSpec ------------------------------
(***************************************************************************)
(* The authorization decision of spec.md 4.3, checked against the gate of  *)
(* module Auth for every auth store and request of the input space.  A    *)
(* role grants a request when it gives access to the key, recursively or  *)
(* exactly as the request's recursive flag says, for reading or writing   *)
(* as its method says.                                                    *)
(***************************************************************************)
EXTENDS Auth

CONSTANTS
  Stores,    \* auth stores to judge against
  Requests   \* requests to judge

VARIABLES store, rq

\* Role `name` exists and grants the request (spec 4.3).
Grants(st, name, r) ==
  /\ st.roles[name] # Missing
  /\ IF r.recursive
       THEN HasRecursiveAccess(st.roles[name], r.key, WriteMethod(r.method))
       ELSE HasKeyAccess(st.roles[name], r.key, WriteMethod(r.method))

\* The credentials identify User with the right password.
Authenticated(r) == r.creds # NoCreds /\ r.creds.user = User /\ r.creds.pwOK

Init == store \in Stores /\ rq \in Requests
Next == UNCHANGED <<store, rq>>
Spec == Init /\ [][Next]_<<store, rq>>

\* hasKeyPrefixAccess never lets a user with credentials reach a key that
\* none of the user's roles grants: a wrong password, an unknown user or
\* roles that do not grant mean a 401 from the keys handler.
UserAccessIsSound ==
  (store.enabled /\ rq.creds # NoCreds /\ HasKeyPrefixAccess(store, rq)) =>
    /\ Authenticated(rq)
    /\ \E i \in 1..Len(store.userRoles) : Grants(store, store.userRoles[i], rq)

\* Spec 4.3: a request without credentials is judged by the guest role, per
\* its recursive flag like any role.
GuestAccessIsSound ==
  (store.enabled /\ rq.creds = NoCreds /\ HasKeyPrefixAccess(store, rq)) =>
    Grants(store, "guest", rq)

\* Spec 4.3: the first of the user's roles that grants access wins; only
\* when no assigned role grants access is the request denied.
UserAccessIsComplete ==
  (store.enabled /\ Authenticated(rq)
   /\ \E i \in 1..Len(store.userRoles) : Grants(store, store.userRoles[i], rq)) =>
    HasKeyPrefixAccess(store, rq)
=============================================================================
