----------------------------- MODULE Translator -----------------------------
(***************************************************************************)
(* parseKeyRequest (etcdhttp/client.go): the translation of a form-encoded *)
(* request on /v2/keys into an etcdserverpb.Request, with the field        *)
(* helpers getUint64 and getBool.  A form field is Absent or holds the     *)
(* first of its values: a decimal string is modelled by its value, the   *)
(* empty string by Empty and any other text by Bad.  Integers have the    *)
(* width W (64 in Go): a decimal of 2^W or more does not parse.  Time is  *)
(* counted in ticks, Second ticks to the second (10^9 in Go), and Now is  *)
(* clock.Now() in ticks.                                                  *)
(***************************************************************************)
EXTENDS Integers, Sequences, SequencesExt

CONSTANTS
  Absent,     \* a form field that is not present
  Empty,      \* the empty string
  Bad,        \* a string that is neither a decimal nor a boolean
  Unset,      \* a nullable request field left nil (PrevExist, Expiration)
  Methods,    \* HTTP methods the keys handler accepts
  Numbers,    \* numeric strings a request may carry, as their values
  W,          \* bit width of uint64 / int64
  Second,     \* ticks per second (time.Second)
  Now         \* clock.Now(), in ticks since the epoch

ASSUME W \in Nat \ {0} /\ Second \in Nat \ {0} /\ Now \in Nat
ASSUME Numbers \subseteq Nat

BoolFlags == {"recursive", "sorted", "wait", "dir", "quorum", "stream"}

\* The values a form field may hold.
UintValues == {Absent, Empty, Bad} \cup Numbers
BoolValues == {Absent, Empty, "true", "false", Bad}
StrValues  == {Absent, Empty, "v"}

\* An inbound request: whether r.ParseForm() succeeds, whether the path
\* starts with /v2/keys, the method and the form.
Inputs ==
  [formOK : BOOLEAN, prefixOK : BOOLEAN, method : Methods,
   prevIndex : UintValues, waitIndex : UintValues, ttl : UintValues,
   flags : [BoolFlags -> {Absent, "true", Bad}],
   prevExist : BoolValues, prevValue : StrValues]

MaxUint == 2^W - 1

\* Two's-complement reinterpretation of an integer in W bits (int64 wrap).
Signed(x) == LET m == x % 2^W IN IF m >= 2^(W-1) THEN m - 2^W ELSE m

\* strconv.ParseUint(s, 10, 64) and strconv.ParseBool(s).
ParsesAsUint(s) == s \in Numbers /\ s <= MaxUint
ParsesAsBool(s) == s \in {"true", "false"}

\* Fault variant: an empty value is taken for a missing one, as for ttl.
GetUint64FailsEmptyOK(v) == v \notin {Absent, Empty} /\ ~ParsesAsUint(v)

\* getUint64 / getBool: a missing key yields 0 / FALSE and no error.
GetUint64Fails(v) == v # Absent /\ ~ParsesAsUint(v)
GetUint64(v) == IF v = Absent THEN 0 ELSE v
GetBoolFails(v) == v # Absent /\ ~ParsesAsBool(v)
GetBool(v) == v = "true"

\* r.FormValue: the empty string for a missing key.
FormValue(v) == IF v = Absent THEN Empty ELSE v

\* The checks of parseKeyRequest in the order the code makes them; the
\* first that fails decides the error.
Checks(in) ==
  << [fails |-> ~in.formOK, code |-> "InvalidForm"],
     [fails |-> ~in.prefixOK, code |-> "InvalidForm"],
     [fails |-> GetUint64Fails(in.prevIndex), code |-> "IndexNaN"],
     [fails |-> GetUint64Fails(in.waitIndex), code |-> "IndexNaN"],
     [fails |-> GetBoolFails(in.flags["recursive"]), code |-> "InvalidField"],
     [fails |-> GetBoolFails(in.flags["sorted"]), code |-> "InvalidField"],
     [fails |-> GetBoolFails(in.flags["wait"]), code |-> "InvalidField"],
     [fails |-> GetBoolFails(in.flags["dir"]), code |-> "InvalidField"],
     [fails |-> GetBoolFails(in.flags["quorum"]), code |-> "InvalidField"],
     [fails |-> GetBoolFails(in.flags["stream"]), code |-> "InvalidField"],
     [fails |-> GetBool(in.flags["wait"]) /\ in.method # "GET", code |-> "InvalidField"],
     [fails |-> in.prevValue = Empty, code |-> "PrevValueRequired"],
     [fails |-> FormValue(in.ttl) # Empty /\ GetUint64Fails(in.ttl), code |-> "TTLNaN"],
     [fails |-> in.prevExist # Absent /\ GetBoolFails(in.prevExist), code |-> "InvalidField"] >>

\* rr.Expiration = clock.Now().Add(time.Duration(*ttl) * time.Second).UnixNano():
\* the uint64 is reinterpreted as int64, multiplied in int64 and added to
\* the clock in int64 nanoseconds.
Expiration(ttl) == Signed(Now + Signed(Signed(ttl) * Second))

\* parseKeyRequest: the error of the first failing check, or the request.
ParseKeyRequest(in) ==
  LET first == SelectInSeq(Checks(in), LAMBDA c : c.fails) IN
  IF first # 0
    THEN [err |-> Checks(in)[first].code]
    ELSE [err |-> "ok",
          method |-> in.method,
          prevIndex |-> GetUint64(in.prevIndex),
          since |-> GetUint64(in.waitIndex),
          wait |-> GetBool(in.flags["wait"]),
          recursive |-> GetBool(in.flags["recursive"]),
          stream |-> GetBool(in.flags["stream"]),
          prevValue |-> FormValue(in.prevValue),
          prevExist |-> IF in.prevExist = Absent THEN Unset ELSE GetBool(in.prevExist),
          expiration |-> IF FormValue(in.ttl) = Empty THEN Unset
                         ELSE Expiration(in.ttl)]

=============================================================================
