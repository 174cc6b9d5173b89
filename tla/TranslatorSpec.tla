--------------------------- MODULE TranslatorSpec ---------------------------
(***************************************************************************)
(* The reference for parseKeyRequest: the validation policy of spec.md     *)
(* 4.2 and the data model of spec.md 3, stated rule by rule without an     *)
(* order, over the inputs of module Translator.  A request is rejected     *)
(* exactly when some rule is broken, with the error of a broken rule, and *)
(* an accepted one carries the fields the spec derives from the form.    *)
(***************************************************************************)
EXTENDS Translator

CONSTANT InputSpace   \* the inputs the check ranges over, a subset of Inputs

ASSUME InputSpace \subseteq Inputs

\* The request being translated; the check ranges over every input at once.
VARIABLE input

\* Methods that only read; spec 3 and 4.2 allow wait=true on these.
ReadMethods == {"GET", "HEAD"}

PresentNotUint(v) == v \notin {Absent} /\ ~(v \in Numbers /\ v < 2^W)
PresentNotBool(v) == v \notin {Absent} /\ v \notin {"true", "false"}

\* The error of every rule of spec 4.2 the input breaks.
SpecErrors(in) ==
  UNION {
    IF ~in.formOK \/ ~in.prefixOK THEN {"InvalidForm"} ELSE {},
    IF PresentNotUint(in.prevIndex) \/ PresentNotUint(in.waitIndex)
      THEN {"IndexNaN"} ELSE {},
    IF in.ttl \notin {Absent, Empty} /\ PresentNotUint(in.ttl) THEN {"TTLNaN"} ELSE {},
    IF \/ \E f \in BoolFlags : PresentNotBool(in.flags[f])
       \/ PresentNotBool(in.prevExist)
       \/ in.flags["wait"] = "true" /\ in.method \notin ReadMethods
      THEN {"InvalidField"} ELSE {},
    IF in.prevValue = Empty THEN {"PrevValueRequired"} ELSE {} }

\* The expiration the spec asks for: the ttl in seconds added to now.
SpecExpiration(in) ==
  IF in.ttl \in {Absent, Empty} THEN Unset ELSE Now + in.ttl * Second

\* The fields of an accepted request the spec fixes.
SpecAccepts(in, rq) ==
  /\ rq.wait = (in.flags["wait"] = "true")
  /\ rq.stream = (in.flags["stream"] = "true")
  /\ rq.recursive = (in.flags["recursive"] = "true")
  /\ rq.prevExist = (IF in.prevExist = Absent THEN Unset ELSE in.prevExist = "true")
  /\ rq.prevIndex = (IF in.prevIndex = Absent THEN 0 ELSE in.prevIndex)
  /\ rq.since = (IF in.waitIndex = Absent THEN 0 ELSE in.waitIndex)
  /\ rq.expiration = SpecExpiration(in)

Init == input \in InputSpace
Next == UNCHANGED input
Spec == Init /\ [][Next]_input

\* An accepted request carries uint64 indexes and an int64 expiration.
TypeOK ==
  LET res == ParseKeyRequest(input) IN
  res.err = "ok" =>
    /\ res.prevIndex \in 0..MaxUint
    /\ res.since \in 0..MaxUint
    /\ res.expiration \in {Unset} \cup -(2^(W-1))..(2^(W-1) - 1)
    /\ res.prevExist \in BOOLEAN \cup {Unset}

\* parseKeyRequest rejects a request exactly when it breaks a rule of spec
\* 4.2, reports the error of a broken rule, and otherwise builds the
\* request the spec describes: its fourteen checks and their order, the
\* nullable ttl and prevExist and the presence test on prevValue agree
\* with the rules.
ParseMatchesSpec ==
  LET res == ParseKeyRequest(input) IN
  IF SpecErrors(input) = {} THEN res.err = "ok" /\ SpecAccepts(input, res)
                            ELSE res.err \in SpecErrors(input)

\* wait=true is valid on a read-only method (spec 3): a HEAD with wait is
\* accepted.
WaitAllowedOnReads ==
  (input.method \in ReadMethods /\ SpecErrors(input) = {}) =>
    ParseKeyRequest(input).err = "ok"

\* An accepted ttl puts the expiration after the current time (spec 4.2:
\* the ttl is added, as seconds, to the current time).
ExpirationAfterNow ==
  LET res == ParseKeyRequest(input) IN
  (res.err = "ok" /\ res.expiration # Unset /\ input.ttl > 0) => res.expiration > Now
=============================================================================
