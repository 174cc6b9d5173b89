---------------------------- MODULE MCTranslator ----------------------------
(* Inputs of parseKeyRequest: every combination of field values, with at  *)
(* most one malformed boolean flag (each flag is checked on its own, so  *)
(* one at a time reaches every check) and the flags that shape the      *)
(* request (wait, recursive, stream) free.  W = 16 bits stand for 64;    *)
(* Second = 10 ticks, Now = 1000 ticks.                                  *)
EXTENDS TranslatorSpec, Codec, FiniteSets, SequencesExt

MCW == 16
MCSecond == 10
MCNow == 1000

\* Decimals that parse, one at the width limit, and one beyond it.
MCNumbers == {0, 7, 2^MCW - 1, 2^MCW}
\* Only small TTLs: the overflow of large ones is checked on its own.
MCSmallNumbers == {0, 7, 2^MCW}

FlagMaps ==
  { [f \in BoolFlags |-> IF f \in T THEN "true" ELSE IF f = b THEN Bad ELSE Absent] :
      T \in SUBSET {"wait", "recursive", "stream"}, b \in BoolFlags \cup {"none"} }

InputsWith(methods, uints, ttls) ==
  [formOK : BOOLEAN, prefixOK : BOOLEAN, method : methods,
   prevIndex : uints, waitIndex : uints, ttl : ttls,
   flags : FlagMaps, prevExist : BoolValues, prevValue : StrValues]

\* Every method but HEAD, whose wait rule is checked on its own.
MCInputs == InputsWith({"GET", "PUT", "DELETE"},
                       {Absent, Empty} \cup MCNumbers,
                       {Absent, Empty, Bad} \cup MCSmallNumbers)
\* HEAD requests.
MCHeadInputs == InputsWith({"HEAD"}, {Absent, 7}, {Absent})
\* TTLs below and above the point (3176 s) where ttl * Second + Now
\* leaves the signed range.
MCTTLNumbers == {1, 3000, 3300, 40000}
\* Accepted PUTs with such a TTL.
MCTTLInputs == { in \in InputsWith({"PUT"}, {Absent}, MCTTLNumbers) :
                   in.formOK /\ in.prefixOK /\ in.prevExist = Absent
                   /\ in.prevValue = Absent /\ \A f \in BoolFlags : in.flags[f] = Absent }

(***************************************************************************)
(* Inputs of the log-entry codec.  Bytes: keys of the four fields with    *)
(* their own wire type (0x08 0x10 0x1A 0x22) and of field 1 with a wrong   *)
(* one (0x0A), keys of an unknown field 5 with every wire type 0..6       *)
(* (0x28..0x2E; 0x2B and 0x2C open and close a group), small values, and  *)
(* continuation bytes (0x80, and 0x88 and 0xA8 that start two-byte keys   *)
(* of fields 1 and 5).                                                     *)
(***************************************************************************)
MCCodecBytes == {0, 2, 8, 10, 16, 26, 34, 40, 41, 42, 43, 44, 45, 46, 128, 136, 168}
\* A 130-byte string, whose length needs a two-byte varint.
MCLong == [i \in 1..130 |-> 97]
MCEntriesWith(names) ==
  [Index : {0, 1, 127, 128, 16384}, Term : {0, 300},
   CommandName : names, Command : {Nil} \cup names,
   XXX_unrecognized : {Nil, <<40, 5>>, <<43, 44>>}]
\* Every byte string of at most four bytes, the encoding of every entry,
\* and every prefix of the encoding of a short entry: a log cut off inside
\* an entry.
MCCodecInputs ==
  UNION {[1..n -> MCCodecBytes] : n \in 0..4}
  \cup {Marshal(m).bytes : m \in MCEntriesWith({<< >>, <<97>>, MCLong})}
  \cup UNION {Prefixes(Marshal(m).bytes) : m \in MCEntriesWith({<< >>, <<97>>})}
\* The empty input alone, for the runs about the translator.
MCNoCodecInputs == {<< >>}

(***************************************************************************)
(* The runs check both decoders of this repository: a state pairs a       *)
(* request with a byte string, the requests with the empty string and the *)
(* other byte strings with a plain GET, so every input of either decoder  *)
(* is checked in some state.                                               *)
(***************************************************************************)
\* A plain GET of a key.
MCRequest ==
  [formOK |-> TRUE, prefixOK |-> TRUE, method |-> "GET", prevIndex |-> Absent,
   waitIndex |-> Absent, ttl |-> Absent, flags |-> [f \in BoolFlags |-> Absent],
   prevExist |-> Absent, prevValue |-> Absent]
ParsersInit ==
  \/ input \in InputSpace /\ entryBytes = << >>
  \/ entryBytes \in CodecInputs \ {<< >>} /\ input = MCRequest
ParsersSpec == ParsersInit /\ [][UNCHANGED <<input, entryBytes>>]_<<input, entryBytes>>
=============================================================================
