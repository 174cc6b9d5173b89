----------------------------- MODULE AuthAdmin -----------------------------
(***************************************************************************)
(* The auth admin handlers of etcdhttp/client_auth.go (handleRoles,       *)
(* baseRoles, forRole, handleUsers, baseUsers, forUser, enableDisable)    *)
(* serving concurrent clients against the auth store.  A handler first    *)
(* checks the caller with hasRootAccess (hasWriteRootAccess for /enable), *)
(* the gate of module Auth, and then calls the store: the two are reads   *)
(* and writes of the store at different times.                            *)
(*                                                                         *)
(* The store (etcdserver/auth) is not part of this repository.  A store   *)
(* call may always fail with an error; when it succeeds it has the effect *)
(* its name says, and Create* needs the record absent, Update* and        *)
(* Delete* need it present; EnableAuth needs a user holding the root    *)
(* role.  The built-in root role is a role record.                       *)
(***************************************************************************)
EXTENDS FiniteSets, SequencesExt

CONSTANTS
  Users,        \* user names
  Roles,        \* role names, "root" among them
  Perms,        \* permissions a role may hold
  Clients,      \* concurrent HTTP clients of /v2/auth
  MaxRequests,  \* requests each client sends, one after the other
  User, Unknown, NoCreds, Missing   \* as in module Auth

ASSUME "root" \in Roles /\ MaxRequests \in Nat

VARIABLES
  enabled,   \* sec.AuthEnabled()
  users,     \* per user name: its roles, or Missing
  roles,     \* per role name: its permissions, or Missing
  req,       \* per client: its current request, stage and status
  issued     \* per client: requests sent so far

vars == <<enabled, users, roles, req, issued>>
store == <<enabled, users, roles>>

A == INSTANCE Auth

Singletons(S) == {{}} \cup {{x} : x \in S}

\* Decoded JSON bodies of PUT role and PUT user: whether decoding failed or
\* the name differs from the URL's, the record's own set (Permissions or
\* Roles) and the grant and revoke sets.
Bodies(S) ==
  {[decode |-> d, set |-> {}, grant |-> {}, revoke |-> {}] : d \in {"bad", "mismatch"}}
  \cup [decode : {"ok"}, set : Singletons(S), grant : Singletons(S), revoke : Singletons(S)]

\* The requests of the auth sub-tree: handler, method, name and body.
Ops ==
  {[h |-> h, m |-> "GET", name |-> "none", body |-> "none"] : h \in {"roles", "users", "badpath"}}
  \cup {[h |-> "enable", m |-> m, name |-> "none", body |-> "none"] : m \in {"GET", "PUT", "DELETE"}}
  \cup {[h |-> "role", m |-> m, name |-> r, body |-> "none"] : m \in {"GET", "DELETE"}, r \in Roles}
  \cup {[h |-> "role", m |-> "PUT", name |-> r, body |-> b] : r \in Roles, b \in Bodies(Perms)}
  \cup {[h |-> "user", m |-> m, name |-> u, body |-> "none"] : m \in {"GET", "DELETE"}, u \in Users}
  \cup {[h |-> "user", m |-> "PUT", name |-> u, body |-> b] : u \in Users, b \in Bodies(Roles)}

Creds == {NoCreds} \cup [user : Users, pwOK : BOOLEAN]

\* HTTP 200, 201, 400 and 401, and writeError of an error the store returned.
Statuses == {"OK", "Created", "BadRequest", "Unauthorized", "StoreError"}

NoRequest == [stage |-> "idle", op |-> "none", creds |-> NoCreds, status |-> "none"]

-----------------------------------------------------------------------------
(* The gate, through module Auth, on the store as it is now. *)

\* The store as hasRootAccess sees it for a caller: GetUser(username)
\* fails for a name the store does not hold.
Known(cr) == cr # NoCreds /\ users[cr.user] # Missing

AuthView(cr) ==
  [enabled |-> enabled,
   userRoles |-> IF Known(cr) THEN SetToSeq(users[cr.user]) ELSE << >>,
   roles |-> roles]

AuthRequest(cr, m) ==
  [creds |-> IF cr = NoCreds THEN NoCreds
             ELSE [user |-> IF Known(cr) THEN User ELSE Unknown, pwOK |-> cr.pwOK],
   method |-> m, key |-> << >>, recursive |-> FALSE]

\* Fault variant: forUser forgets its root check.
GateMissingForUsers(cr, op) ==
  IF op.h = "enable" THEN A!HasWriteRootAccess(AuthView(cr), AuthRequest(cr, op.m))
  ELSE IF op.h = "user" THEN TRUE
  ELSE A!HasRootAccess(AuthView(cr), AuthRequest(cr, op.m))

\* enableDisable uses hasWriteRootAccess; every other handler hasRootAccess.
Gate(cr, op) ==
  IF op.h = "enable" THEN A!HasWriteRootAccess(AuthView(cr), AuthRequest(cr, op.m))
  ELSE A!HasRootAccess(AuthView(cr), AuthRequest(cr, op.m))

-----------------------------------------------------------------------------
(* Handlers *)

Answer(c, s) == req' = [req EXCEPT ![c].stage = "done", ![c].status = s]

\* A store call that fails: writeError, nothing changes.
StoreFails(c) == Answer(c, "StoreError") /\ UNCHANGED store

\* A store read (AllRoles, GetRole, GetUser ...): 200 when it finds what
\* it reads, or an error.
StoreGet(c, found) == (found /\ Answer(c, "OK") /\ UNCHANGED store) \/ StoreFails(c)

Init ==
  /\ enabled = FALSE
  /\ users = [u \in Users |-> Missing]
  /\ roles = [r \in Roles |-> IF r = "root" THEN {} ELSE Missing]
  /\ req = [c \in Clients |-> NoRequest]
  /\ issued = [c \in Clients |-> 0]

\* A request arrives.  handleRoles and handleUsers answer a path of more
\* than three pieces with 400; otherwise the handler checks the caller
\* and answers 401 or goes on.
Receive(c) ==
  /\ req[c].stage \in {"idle", "done"}
  /\ issued[c] < MaxRequests
  /\ issued' = [issued EXCEPT ![c] = @ + 1]
  /\ \E op \in Ops, cr \in Creds :
       req' = [req EXCEPT ![c] =
                IF op.h = "badpath" THEN [stage |-> "done", op |-> op, creds |-> cr, status |-> "BadRequest"]
                ELSE IF ~Gate(cr, op) THEN [stage |-> "done", op |-> op, creds |-> cr, status |-> "Unauthorized"]
                ELSE [stage |-> "checked", op |-> op, creds |-> cr, status |-> "none"]]
  /\ UNCHANGED store

\* baseRoles: sec.AllRoles(), an empty list when there is none.
BaseRoles(c) ==
  /\ req[c].stage = "checked" /\ req[c].op.h = "roles"
  /\ StoreGet(c, TRUE)
  /\ UNCHANGED issued

\* baseUsers: sec.AllUsers(), likewise.
BaseUsers(c) ==
  /\ req[c].stage = "checked" /\ req[c].op.h = "users"
  /\ StoreGet(c, TRUE)
  /\ UNCHANGED issued

\* Fault variant: UpdateRole runs before the check of a body holding both
\* permissions and grant/revoke.
ForRoleUpdateFirst(c) ==
  /\ req[c].stage = "checked" /\ req[c].op.h = "role"
  /\ LET r == req[c].op.name  b == req[c].op.body IN
     CASE req[c].op.m = "GET" ->
            StoreGet(c, roles[r] # Missing)
       [] req[c].op.m = "DELETE" ->
            \/ roles[r] # Missing /\ roles' = [roles EXCEPT ![r] = Missing]
               /\ Answer(c, "OK") /\ UNCHANGED <<enabled, users>>
            \/ StoreFails(c)
       [] req[c].op.m = "PUT" /\ b.decode # "ok" -> Answer(c, "BadRequest") /\ UNCHANGED store
       [] req[c].op.m = "PUT" /\ b.grant = {} /\ b.revoke = {} ->
            \/ roles[r] = Missing /\ roles' = [roles EXCEPT ![r] = b.set]
               /\ Answer(c, "Created") /\ UNCHANGED <<enabled, users>>
            \/ StoreFails(c)
       [] OTHER ->
            \/ roles[r] # Missing /\ roles' = [roles EXCEPT ![r] = (@ \cup b.grant) \ b.revoke]
               /\ Answer(c, IF b.set # {} THEN "BadRequest" ELSE "OK")
               /\ UNCHANGED <<enabled, users>>
            \/ StoreFails(c)
  /\ UNCHANGED issued

\* forRole: GET is GetRole; PUT creates the role when the body has no
\* grant or revoke (201), and otherwise updates it (200) unless the body
\* also has permissions (400); DELETE is DeleteRole.
ForRole(c) ==
  /\ req[c].stage = "checked" /\ req[c].op.h = "role"
  /\ LET r == req[c].op.name  b == req[c].op.body IN
     CASE req[c].op.m = "GET" ->
            StoreGet(c, roles[r] # Missing)
       [] req[c].op.m = "DELETE" ->
            \/ roles[r] # Missing /\ roles' = [roles EXCEPT ![r] = Missing]
               /\ Answer(c, "OK") /\ UNCHANGED <<enabled, users>>
            \/ StoreFails(c)
       [] req[c].op.m = "PUT" /\ b.decode # "ok" -> Answer(c, "BadRequest") /\ UNCHANGED store
       [] req[c].op.m = "PUT" /\ b.grant = {} /\ b.revoke = {} ->
            \/ roles[r] = Missing /\ roles' = [roles EXCEPT ![r] = b.set]
               /\ Answer(c, "Created") /\ UNCHANGED <<enabled, users>>
            \/ StoreFails(c)
       [] req[c].op.m = "PUT" /\ b.set # {} -> Answer(c, "BadRequest") /\ UNCHANGED store
       [] OTHER ->
            \/ roles[r] # Missing /\ roles' = [roles EXCEPT ![r] = (@ \cup b.grant) \ b.revoke]
               /\ Answer(c, "OK") /\ UNCHANGED <<enabled, users>>
            \/ StoreFails(c)
  /\ UNCHANGED issued

\* forUser: GET is GetUser; PUT without grant or revoke is CreateUser when
\* it names roles and CreateOrUpdateUser otherwise (201 only when the
\* latter created the user), with grant or revoke it is UpdateUser unless
\* the body also names roles (400); DELETE is DeleteUser.
ForUser(c) ==
  /\ req[c].stage = "checked" /\ req[c].op.h = "user"
  /\ LET u == req[c].op.name  b == req[c].op.body IN
     CASE req[c].op.m = "GET" ->
            StoreGet(c, users[u] # Missing)
       [] req[c].op.m = "DELETE" ->
            \/ users[u] # Missing /\ users' = [users EXCEPT ![u] = Missing]
               /\ Answer(c, "OK") /\ UNCHANGED <<enabled, roles>>
            \/ StoreFails(c)
       [] req[c].op.m = "PUT" /\ b.decode # "ok" -> Answer(c, "BadRequest") /\ UNCHANGED store
       [] req[c].op.m = "PUT" /\ b.grant = {} /\ b.revoke = {} /\ b.set # {} ->
            \/ users[u] = Missing /\ users' = [users EXCEPT ![u] = b.set]
               /\ Answer(c, "OK") /\ UNCHANGED <<enabled, roles>>
            \/ StoreFails(c)
       [] req[c].op.m = "PUT" /\ b.grant = {} /\ b.revoke = {} ->
            \/ /\ users' = [users EXCEPT ![u] = IF @ = Missing THEN {} ELSE @]
               /\ Answer(c, IF users[u] = Missing THEN "Created" ELSE "OK")
               /\ UNCHANGED <<enabled, roles>>
            \/ StoreFails(c)
       [] req[c].op.m = "PUT" /\ b.set # {} -> Answer(c, "BadRequest") /\ UNCHANGED store
       [] OTHER ->
            \/ users[u] # Missing /\ users' = [users EXCEPT ![u] = (@ \cup b.grant) \ b.revoke]
               /\ Answer(c, "OK") /\ UNCHANGED <<enabled, roles>>
            \/ StoreFails(c)
  /\ UNCHANGED issued

\* enableDisable: GET reports sec.AuthEnabled(); PUT is EnableAuth and
\* DELETE DisableAuth.
EnableDisable(c) ==
  /\ req[c].stage = "checked" /\ req[c].op.h = "enable"
  /\ CASE req[c].op.m = "GET" -> Answer(c, "OK") /\ UNCHANGED store
       [] req[c].op.m = "PUT" ->
            \/ ~enabled /\ \E u \in Users : users[u] # Missing /\ "root" \in users[u]
               /\ enabled' = TRUE /\ Answer(c, "OK") /\ UNCHANGED <<users, roles>>
            \/ StoreFails(c)
       [] OTHER ->
            \/ enabled /\ enabled' = FALSE /\ Answer(c, "OK") /\ UNCHANGED <<users, roles>>
            \/ StoreFails(c)
  /\ UNCHANGED issued

Next ==
  \E c \in Clients :
    \/ Receive(c) \/ BaseRoles(c) \/ BaseUsers(c) \/ ForRole(c) \/ ForUser(c) \/ EnableDisable(c)

Spec == Init /\ [][Next]_vars

-----------------------------------------------------------------------------
(* Properties *)

\* The caller holds root now: an authenticated user with the root role.
RootNow(cr) ==
  Known(cr) /\ cr.pwOK /\ "root" \in users[cr.user]

\* While auth is enabled, users, roles and the enabled flag change only by
\* a request of a caller who holds the root role when the change is made
\* (spec: every auth admin operation requires root access).
ChangesWhileEnabledByRoot ==
  [][ (enabled /\ store' # store) =>
        \E c \in Clients : req[c].stage = "checked" /\ req'[c].stage = "done"
                           /\ RootNow(req[c].creds) ]_vars

\* The store changes only in a step that answers a request 200 or 201: a
\* request answered 400, 401 or with a store error leaves it as it was.
ChangedOnlyWhenAnswered2xx ==
  [][ store' # store =>
        \E c \in Clients : req[c].stage = "checked" /\ req'[c].stage = "done"
                           /\ req'[c].status \in {"OK", "Created"} ]_vars
=============================================================================
