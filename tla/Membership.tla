----------------------------- MODULE Membership -----------------------------
(***************************************************************************)
(* Cluster membership of the etcd server vendored by mantle: the members   *)
(* HTTP handler (etcdhttp/client.go, membersHandler.ServeHTTP), the        *)
(* configuration-change validator and the membership store (etcdserver     *)
(* cluster, whose source is not part of this repository and is modelled    *)
(* from spec.md sections 4.1, 5 and 7).                                     *)
(*                                                                         *)
(* A handler validates a change against the current membership, proposes  *)
(* it to consensus and waits for it with a timeout.  Consensus orders     *)
(* proposals in `log`; applying one re-validates it against the            *)
(* membership at apply time, mutates the store and triggers the waiter.   *)
(* A member publishes its attributes (name, client URLs) through the same  *)
(* log.  The consensus engine itself is abstracted to the ordered log.    *)
(***************************************************************************)
EXTENDS Naturals, Sequences, FiniteSets, Functions, TLC

CONSTANTS
  IDs,          \* member IDs (types.ID) a request or the bootstrap may name
  URLs,         \* peer URLs
  Reqs,         \* concurrent HTTP requests to /v2/members
  InitMembers,  \* bootstrap membership: a function from IDs to peer URL sets
  NoResult      \* the waiter of a request has not been triggered

ASSUME DOMAIN InitMembers \subseteq IDs
ASSUME \A i \in DOMAIN InitMembers : InitMembers[i] \subseteq URLs

VARIABLES
  members,   \* active members: function from member ID to its peer URL set
  removed,   \* IDs removed for good (the tombstone set)
  attrs,     \* active members whose published attributes are applied
  published, \* members that have proposed their attributes
  log,       \* proposals ordered by consensus and not yet applied
  req,       \* per request: handler stage, operation and HTTP status
  result     \* per request: what applying its proposal returned

vars == <<members, removed, attrs, published, log, req, result>>

Kinds  == {"add", "remove", "update"}
Errors == {"IDRemoved", "IDExists", "IDNotFound", "PeerURLExists"}
\* A configuration change: raftpb.ConfChange with the Member in its Context.
ConfChanges == [type : Kinds, id : IDs, urls : SUBSET URLs]
\* Peer URL sets a request may carry: httptypes.MemberCreateRequest and
\* MemberUpdateRequest hold a non-empty list of parsed URLs.
URLSets == SUBSET URLs \ {{}}
\* HTTP statuses written by membersHandler.ServeHTTP.
Statuses == {201, 204, 400, 401, 404, 405, 409, 410, 415, 500}

Active == DOMAIN members

-----------------------------------------------------------------------------
(* Membership store and validator (spec 4.1; cluster.go is not in src/). *)

\* Peer URLs of the active members other than `id`.
OtherPeerURLs(id) == UNION {members[m] : m \in Active \ {id}}

\* Fault variant: the tombstone check (rule 1) is forgotten.
ValidateForgetsTombstone(cc) ==
  CASE cc.type = "add" ->
         IF cc.id \in Active THEN "IDExists"
         ELSE IF cc.urls \cap OtherPeerURLs(cc.id) # {} THEN "PeerURLExists" ELSE "ok"
    [] cc.type = "remove" -> IF cc.id \notin Active THEN "IDNotFound" ELSE "ok"
    [] cc.type = "update" ->
         IF cc.id \notin Active THEN "IDNotFound"
         ELSE IF cc.urls \cap OtherPeerURLs(cc.id) # {} THEN "PeerURLExists" ELSE "ok"

\* ValidateConfigurationChange: the rules of spec 4.1 in their order.
ValidateConfigurationChange(cc) ==
  IF cc.id \in removed THEN "IDRemoved"
  ELSE CASE cc.type = "add" ->
              IF cc.id \in Active THEN "IDExists"
              ELSE IF cc.urls \cap OtherPeerURLs(cc.id) # {}
                   THEN "PeerURLExists" ELSE "ok"
         [] cc.type = "remove" ->
              IF cc.id \notin Active THEN "IDNotFound" ELSE "ok"
         [] cc.type = "update" ->
              IF cc.id \notin Active THEN "IDNotFound"
              ELSE IF cc.urls \cap OtherPeerURLs(cc.id) # {}
                   THEN "PeerURLExists" ELSE "ok"

\* Fault variant: RemoveMember deletes the member but writes no tombstone.
ApplyMembershipNoTombstone(cc) ==
  IF cc.type = "remove"
    THEN /\ members' = Restrict(members, Active \ {cc.id})
         /\ attrs' = attrs \ {cc.id}
         /\ UNCHANGED removed
    ELSE /\ members' = IF cc.type = "add" THEN members @@ (cc.id :> cc.urls)
                       ELSE [members EXCEPT ![cc.id] = cc.urls]
         /\ UNCHANGED <<removed, attrs>>

\* AddMember, RemoveMember and UpdateRaftAttributes, each one atomic step:
\* RemoveMember evicts the member and tombstones its ID together.
ApplyMembership(cc) ==
  CASE cc.type = "add" ->
         /\ members' = members @@ (cc.id :> cc.urls)
         /\ UNCHANGED <<removed, attrs>>
    [] cc.type = "remove" ->
         /\ members' = Restrict(members, Active \ {cc.id})
         /\ removed' = removed \cup {cc.id}
         /\ attrs' = attrs \ {cc.id}
    [] cc.type = "update" ->
         /\ members' = [members EXCEPT ![cc.id] = cc.urls]
         /\ UNCHANGED <<removed, attrs>>

\* Fault variant: attributes are recorded whatever became of the member.
UpdateAttributesUnchecked(id) == attrs' = attrs \cup {id}

\* UpdateAttributes: a no-op for a removed member, the race with a Remove.
UpdateAttributes(id) ==
  IF id \in removed THEN attrs' = attrs ELSE attrs' = attrs \cup {id}

-----------------------------------------------------------------------------
(* membersHandler.ServeHTTP (etcdhttp/client.go). *)

\* Fault variant: a created member answered 200 OK.
StatusAddAsOK(kind, err) ==
  CASE kind = "add" ->
         IF err = "ok" THEN 200
         ELSE IF err \in {"IDExists", "PeerURLExists"} THEN 409 ELSE 500
    [] kind = "remove" ->
         IF err = "ok" THEN 204
         ELSE IF err = "IDRemoved" THEN 410
         ELSE IF err = "IDNotFound" THEN 404 ELSE 500
    [] kind = "update" ->
         IF err = "ok" THEN 204
         ELSE IF err = "PeerURLExists" THEN 409
         ELSE IF err = "IDNotFound" THEN 404 ELSE 500

\* Fault variant: DELETE of an already removed member answered as success.
StatusIdempotentDelete(kind, err) ==
  CASE kind = "add" ->
         IF err = "ok" THEN 201
         ELSE IF err \in {"IDExists", "PeerURLExists"} THEN 409 ELSE 500
    [] kind = "remove" ->
         IF err \in {"ok", "IDRemoved"} THEN 204
         ELSE IF err = "IDNotFound" THEN 404 ELSE 500
    [] kind = "update" ->
         IF err = "ok" THEN 204
         ELSE IF err = "PeerURLExists" THEN 409
         ELSE IF err = "IDNotFound" THEN 404 ELSE 500

\* The status the handler writes for the error server.AddMember,
\* RemoveMember or UpdateMember returned; writeError turns any error the
\* switch does not name into 500.
StatusOf(kind, err) ==
  CASE kind = "add" ->
         IF err = "ok" THEN 201
         ELSE IF err \in {"IDExists", "PeerURLExists"} THEN 409 ELSE 500
    [] kind = "remove" ->
         IF err = "ok" THEN 204
         ELSE IF err = "IDRemoved" THEN 410
         ELSE IF err = "IDNotFound" THEN 404 ELSE 500
    [] kind = "update" ->
         IF err = "ok" THEN 204
         ELSE IF err = "PeerURLExists" THEN 409
         ELSE IF err = "IDNotFound" THEN 404 ELSE 500

Init ==
  /\ members = InitMembers
  /\ removed = {}
  /\ attrs = {}
  /\ published = {}
  /\ log = << >>
  /\ req = [r \in Reqs |-> [stage |-> "idle", cc |-> CHOOSE cc \in ConfChanges : TRUE,
                            status |-> 0]]
  /\ result = [r \in Reqs |-> NoResult]

\* A request is turned away before it reaches the server: the caller lacks
\* the root role (hasWriteRootAccess, 401), the path has no ID (getID, 405)
\* or one that does not parse (getID, 404), or the body is not JSON of the
\* right Content-Type (unmarshalRequest, 415 or 400).  Nothing is proposed.
RejectEarly(r) ==
  /\ req[r].stage = "idle"
  /\ \E kind \in Kinds, status \in {400, 401, 404, 405, 415} :
       /\ status \in {404, 405} => kind # "add"
       /\ status \in {400, 415} => kind # "remove"
       /\ req' = [req EXCEPT ![r] = [@ EXCEPT !.stage = "done", !.status = status,
                                              !.cc.type = kind]]
  /\ UNCHANGED <<members, removed, attrs, published, log, result>>

Propose(r) ==
  /\ req[r].stage = "idle"
  /\ \E kind \in Kinds, id \in IDs, urls \in URLSets :
       LET cc  == [type |-> kind, id |-> id,
                   urls |-> IF kind = "remove" THEN {} ELSE urls]
           err == ValidateConfigurationChange(cc)
       IN /\ kind = "remove" => urls = CHOOSE u \in URLSets : TRUE
          /\ IF err = "ok"
               THEN /\ log' = Append(log, [from |-> r, cc |-> cc])
                    /\ req' = [req EXCEPT ![r] = [stage |-> "wait", cc |-> cc, status |-> 0]]
               ELSE /\ log' = log
                    /\ req' = [req EXCEPT ![r] = [stage |-> "done", cc |-> cc,
                                                  status |-> StatusOf(kind, err)]]
  /\ UNCHANGED <<members, removed, attrs, published, result>>

\* The waiter is triggered: the handler writes the status for the result
\* applying its proposal returned.
Respond(r) ==
  /\ req[r].stage = "wait"
  /\ result[r] # NoResult
  /\ req' = [req EXCEPT ![r].stage = "done",
                        ![r].status = StatusOf(req[r].cc.type, result[r])]
  /\ UNCHANGED <<members, removed, attrs, published, log, result>>

\* The request context (defaultServerTimeout) expires first: the handler
\* gives up with ErrTimeout, written as 500.  The proposal stays in the log.
\* When the waiter has also been triggered, Go's select picks either case.
Timeout(r) ==
  /\ req[r].stage = "wait"
  /\ req' = [req EXCEPT ![r].stage = "done", ![r].status = 500]
  /\ UNCHANGED <<members, removed, attrs, published, log, result>>

\* An active member publishes its attributes through consensus.
Publish(id) ==
  /\ id \in Active \ published
  /\ published' = published \cup {id}
  /\ log' = Append(log, [from |-> id, cc |-> [type |-> "attrs", id |-> id, urls |-> {}]])
  /\ UNCHANGED <<members, removed, attrs, req, result>>

\* Fault variant: the apply path trusts the validation done before proposing.
ApplyUnchecked ==
  /\ log # << >>
  /\ LET p == Head(log) IN
       /\ log' = Tail(log)
       /\ IF p.cc.type = "attrs"
            THEN /\ UpdateAttributes(p.cc.id)
                 /\ UNCHANGED <<members, removed, result>>
            ELSE /\ ApplyMembership(p.cc)
                 /\ result' = [result EXCEPT ![p.from] = "ok"]
  /\ UNCHANGED <<published, req>>

\* Consensus applies the next proposal.  A configuration change is
\* validated again against the membership at apply time; a rejected one
\* leaves the store alone.  The result triggers the proposer's waiter.
Apply ==
  /\ log # << >>
  /\ LET p == Head(log) IN
       /\ log' = Tail(log)
       /\ IF p.cc.type = "attrs"
            THEN /\ UpdateAttributes(p.cc.id)
                 /\ UNCHANGED <<members, removed, result>>
            ELSE LET err == ValidateConfigurationChange(p.cc) IN
                 /\ IF err = "ok" THEN ApplyMembership(p.cc)
                                  ELSE UNCHANGED <<members, removed, attrs>>
                 /\ result' = [result EXCEPT ![p.from] = err]
  /\ UNCHANGED <<published, req>>

Next ==
  \/ \E r \in Reqs : RejectEarly(r) \/ Propose(r) \/ Respond(r) \/ Timeout(r)
  \/ \E id \in IDs : Publish(id)
  \/ Apply

\* Consensus keeps applying what it has ordered, and the request context's
\* timer fires; clients are not obliged to send requests.
Fairness == WF_vars(Apply) /\ \A r \in Reqs : WF_vars(Timeout(r))

Spec == Init /\ [][Next]_vars /\ Fairness

-----------------------------------------------------------------------------
(* Properties *)

TypeOK ==
  /\ Active \subseteq IDs
  /\ \A i \in Active : members[i] \subseteq URLs
  /\ removed \subseteq IDs
  /\ attrs \subseteq IDs
  /\ published \subseteq IDs
  /\ req \in [Reqs -> [stage : {"idle", "wait", "done"},
                       cc : [type : Kinds, id : IDs, urls : SUBSET URLs],
                       status : Statuses \cup {0}]]
  /\ result \in [Reqs -> Errors \cup {"ok", NoResult}]

\* Peer URLs are never shared by two active members, however the POSTs and
\* PUTs of concurrent handlers interleave between validation and apply.
PeerURLsDisjoint ==
  \A a, b \in Active : a # b => members[a] \cap members[b] = {}

\* A removed ID is never active again: neither a POST racing the DELETE nor
\* a later POST that happens to produce the same ID brings it back.
RemovedNeverActive == Active \cap removed = {}

\* Attributes published by a member are never in effect for a member that
\* is not active, even when its removal is applied before its publication.
AttributesOnlyOfActive == attrs \subseteq Active

\* A 201 or 204 from membersHandler means the request's own change was
\* valid when consensus applied it, and it is in effect: a removed member is
\* tombstoned and an added one is active or has since been removed.
SuccessMeansApplied ==
  \A r \in Reqs :
    (req[r].stage = "done" /\ req[r].status \in {201, 204}) =>
      /\ result[r] = "ok"
      /\ req[r].cc.type = "remove" => req[r].cc.id \in removed
      /\ req[r].cc.type = "add" => req[r].cc.id \in Active \cup removed

\* The store implements the abstract membership: every step of the handlers,
\* the log and the apply path is a whole valid change or leaves the active
\* members and the tombstones alone.
Abstract == INSTANCE MembershipAbstract
AbstractSpec == Abstract!Spec


=============================================================================
