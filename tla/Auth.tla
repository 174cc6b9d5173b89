-------------------------------- MODULE Auth --------------------------------
(***************************************************************************)
(* The authorization gate of the client handlers (etcdhttp/client_auth.go: *)
(* hasWriteRootAccess, hasRootAccess, hasKeyPrefixAccess, hasGuestAccess)  *)
(* over the auth store's decision surface (etcdserver/auth, not part of    *)
(* this repository: AuthEnabled, GetUser, CheckPassword, GetRole and the   *)
(* role's HasKeyAccess / HasRecursiveAccess, modelled from spec.md 4.3 and *)
(* the store's documented pattern matching).                              *)
(*                                                                         *)
(* Keys and permission patterns are strings, written as sequences of      *)
(* characters so that prefix matching is string prefix matching.  A      *)
(* pattern ending in "*" grants every key it is a string prefix of; any   *)
(* other pattern grants exactly its own key.                              *)
(***************************************************************************)
EXTENDS Sequences, SequencesExt

CONSTANTS
  User,        \* the user name a request may present
  Unknown,     \* a user name the store does not know
  NoCreds,     \* no basic-auth header
  Missing      \* GetRole / GetUser return an error

\* A permission: a pattern (character sequence) with or without a final "*",
\* for reading or for writing.
Perm(pat, star, write) == [pat |-> pat, star |-> star, write |-> write]

\* The root role grants everything (auth.RootRoleName with pattern "*").
RootPerms == {Perm(<< >>, TRUE, FALSE), Perm(<< >>, TRUE, TRUE)}

\* simpleMatch: a star pattern matches by prefix, another by equality.
SimpleMatch(p, key) == IF p.star THEN IsPrefix(p.pat, key) ELSE p.pat = key
\* prefixMatch: only a star pattern grants a whole subtree.
PrefixMatch(p, key) == p.star /\ IsPrefix(p.pat, key)

\* Role.HasKeyAccess and Role.HasRecursiveAccess over a role's permissions.
HasKeyAccess(perms, key, write) ==
  \E p \in perms : p.write = write /\ SimpleMatch(p, key)
HasRecursiveAccess(perms, key, write) ==
  \E p \in perms : p.write = write /\ PrefixMatch(p, key)

\* A request is judged against an auth store: whether auth is enabled, the
\* role list of User and each role's permissions (Missing for a role
\* GetRole cannot load).  A request has credentials (NoCreds, or a user
\* name and whether its password checks), a method, a key (the path under
\* /v2/keys) and the recursive flag of its parsed form.
WriteMethod(m) == m \notin {"GET", "HEAD"}

\* sec.GetRole: the permissions of a role, or Missing.
RolePerms(store, name) == store.roles[name]

\* hasRootAccess.
HasRootAccess(store, rq) ==
  IF ~store.enabled THEN TRUE
  ELSE IF rq.creds = NoCreds THEN FALSE
  ELSE IF rq.creds.user # User THEN FALSE
  ELSE IF ~rq.creds.pwOK THEN FALSE
  ELSE \E i \in 1..Len(store.userRoles) : store.userRoles[i] = "root"

\* hasWriteRootAccess: reads are always allowed.
HasWriteRootAccess(store, rq) ==
  IF ~WriteMethod(rq.method) THEN TRUE ELSE HasRootAccess(store, rq)

\* hasGuestAccess: the guest role, judged with HasKeyAccess.
HasGuestAccess(store, rq) ==
  IF RolePerms(store, "guest") = Missing THEN FALSE
  ELSE HasKeyAccess(RolePerms(store, "guest"), rq.key, WriteMethod(rq.method))

\* Fault variant: the loop judges every request with HasKeyAccess, as
\* hasGuestAccess does.
RECURSIVE FirstRoleIgnoresRecursive(_, _, _)
FirstRoleIgnoresRecursive(store, names, rq) ==
  IF names = << >> THEN FALSE
  ELSE IF RolePerms(store, Head(names)) = Missing
    THEN FirstRoleIgnoresRecursive(store, Tail(names), rq)
  ELSE HasKeyAccess(RolePerms(store, Head(names)), rq.key, WriteMethod(rq.method))

\* The loop over user.Roles: roles GetRole cannot load are skipped, and the
\* first loadable role decides.
RECURSIVE FirstRoleDecides(_, _, _)
FirstRoleDecides(store, names, rq) ==
  IF names = << >> THEN FALSE
  ELSE IF RolePerms(store, Head(names)) = Missing
    THEN FirstRoleDecides(store, Tail(names), rq)
  ELSE IF rq.recursive
    THEN HasRecursiveAccess(RolePerms(store, Head(names)), rq.key, WriteMethod(rq.method))
  ELSE HasKeyAccess(RolePerms(store, Head(names)), rq.key, WriteMethod(rq.method))

\* hasKeyPrefixAccess.
HasKeyPrefixAccess(store, rq) ==
  IF ~store.enabled THEN TRUE
  ELSE IF rq.creds = NoCreds THEN HasGuestAccess(store, rq)
  ELSE IF rq.creds.user # User THEN FALSE
  ELSE IF ~rq.creds.pwOK THEN FALSE
  ELSE FirstRoleDecides(store, store.userRoles, rq)

=============================================================================
