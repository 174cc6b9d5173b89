------------------------------- MODULE Codec -------------------------------
(***************************************************************************)
(* The generated protobuf codec of the etcd 0.4 log entry                  *)
(* (migrate/etcd4pb/log_entry.pb.go): LogEntry.Unmarshal with its field    *)
(* loop and skipLogEntry, LogEntry.Size with sovLogEntry, and              *)
(* Marshal/MarshalTo with encodeVarintLogEntry.  A byte string is a        *)
(* sequence of naturals below 256; Go's 0-based index i is data[i + 1]    *)
(* here, and data[lo:hi] is SubSeq(data, lo + 1, hi).  A nil pointer or    *)
(* slice is Nil.  Bit operations are written arithmetically:               *)
(* b & 0x7F = b % 128, w >> 3 = w \div 8, w & 0x7 = w % 8,                *)
(* x << s = x * 2^s.  The varints of the inputs checked stay below 2^31,   *)
(* where uint64 and int agree with the naturals (no wrap).                 *)
(***************************************************************************)
EXTENDS Naturals, Sequences

CONSTANTS
  Nil,           \* a nil pointer or slice
  CodecInputs    \* byte strings given to Unmarshal

VARIABLE entryBytes \* the byte string LogEntry.Unmarshal decodes

\* A LogEntry with every field nil.
EmptyEntry ==
  [Index |-> Nil, Term |-> Nil, CommandName |-> Nil, Command |-> Nil,
   XXX_unrecognized |-> Nil]

\* Field numbers 1..4 of the message, by name.
FieldName == <<"Index", "Term", "CommandName", "Command">>

\* Outcomes: an error value of the code, or a runtime panic.
Fail(e) == [err |-> e, n |-> 0, entry |-> EmptyEntry]
Panic == Fail("panic")
OkAt(n) == [err |-> "none", n |-> n, entry |-> EmptyEntry]
Done(m) == [err |-> "none", n |-> 0, entry |-> m]

\* Go's data[lo:hi] on a slice whose capacity is its length.
Slice(data, lo, hi) ==
  IF 0 <= lo /\ lo <= hi /\ hi <= Len(data)
  THEN [err |-> "none", bytes |-> SubSeq(data, lo + 1, hi)]
  ELSE [err |-> "panic", bytes |-> << >>]

(***************************************************************************)
(* The varint loop every field repeats: from index i, add the low seven   *)
(* bits of each byte at the next shift until a byte below 0x80; running   *)
(* out of input first is io.ErrUnexpectedEOF.  The value and the index    *)
(* after the varint.                                                       *)
(***************************************************************************)
RECURSIVE Uvarint(_, _, _, _)
Uvarint(data, i, shift, v) ==
  IF i >= Len(data) THEN [err |-> "ErrUnexpectedEOF", val |-> 0, next |-> i]
  ELSE LET b == data[i + 1]
           w == v + (b % 128) * 2^shift
       IN IF b < 128 THEN [err |-> "none", val |-> w, next |-> i + 1]
          ELSE Uvarint(data, i + 1, shift + 7, w)

ReadUvarint(data, i) == Uvarint(data, i, 0, 0)

\* Mutant: the size loop shifts by a whole byte (x >>= 8), so a value of
\* 128..255 is counted as one byte.
RECURSIVE SovLogEntryByteShift(_)
SovLogEntryByteShift(x) ==
  IF x \div 256 = 0 THEN 1 ELSE 1 + SovLogEntryByteShift(x \div 256)

\* sovLogEntry: the number of bytes of the varint of x.
RECURSIVE SovLogEntry(_)
SovLogEntry(x) == IF x \div 128 = 0 THEN 1 ELSE 1 + SovLogEntry(x \div 128)

(***************************************************************************)
(* skipLogEntry: the length of the one field at the start of data, by its *)
(* wire type; a group (3) is skipped field by field, each inner field by  *)
(* a recursive call on data[start:], until an end-group key (4).  Fixed   *)
(* 64 and 32 bit fields (1, 5) and lengths (2) are not checked against   *)
(* the input: the caller does that.                                        *)
(***************************************************************************)
RECURSIVE SkipLogEntry(_), SkipGroup(_, _)
SkipLogEntry(data) ==
  IF Len(data) = 0 THEN Panic   \* panic("unreachable")
  ELSE
  LET k == ReadUvarint(data, 0)
      wireType == k.val % 8
      v == ReadUvarint(data, k.next)
  IN CASE k.err # "none"                -> Fail(k.err)
       [] wireType \in {0, 2} /\ v.err # "none" -> Fail(v.err)
       [] wireType = 0 -> OkAt(v.next)
       [] wireType = 1 -> OkAt(k.next + 8)
       [] wireType = 2 -> OkAt(v.next + v.val)
       [] wireType = 3 -> SkipGroup(data, k.next)
       [] wireType = 4 -> OkAt(k.next)
       [] wireType = 5 -> OkAt(k.next + 4)
       [] OTHER        -> Fail("illegalWireType")

SkipGroup(data, start) ==
  LET k == ReadUvarint(data, start)
      rest == Slice(data, start, Len(data))
      inner == SkipLogEntry(rest.bytes)
  IN CASE k.err # "none"    -> Fail(k.err)
       [] k.val % 8 = 4     -> OkAt(k.next)
       [] rest.err # "none" -> Panic
       [] inner.err # "none" -> inner
       [] OTHER             -> SkipGroup(data, start + inner.n)

(***************************************************************************)
(* One field of LogEntry.Unmarshal's loop, keyed at index i.  Index and  *)
(* Term are varints (wire type 0), CommandName and Command are length-   *)
(* delimited (wire type 2) and copied out of data; any other field       *)
(* number rewinds to the key, by the length of the key's value re-encoded *)
(* (sizeOfWire), skips the field and appends its bytes to                 *)
(* XXX_unrecognized.  The record of the next index and the entry so far.  *)
(***************************************************************************)
VarintField(data, k, m) ==
  LET v == ReadUvarint(data, k.next)
  IN CASE k.val % 8 # 0   -> Fail("wireType")
       [] v.err # "none"  -> Fail(v.err)
       [] OTHER -> [err |-> "none", n |-> v.next,
                    entry |-> [m EXCEPT ![FieldName[k.val \div 8]] = v.val]]

\* Mutant: the length of a bytes field is not checked against the input.
BytesFieldUnchecked(data, k, m) ==
  LET n == ReadUvarint(data, k.next)
      postIndex == n.next + n.val
      s == Slice(data, n.next, postIndex)
  IN CASE k.val % 8 # 2          -> Fail("wireType")
       [] n.err # "none"         -> Fail(n.err)
       [] s.err # "none"         -> Panic
       [] OTHER -> [err |-> "none", n |-> postIndex,
                    entry |-> [m EXCEPT ![FieldName[k.val \div 8]] = s.bytes]]

BytesField(data, k, m) ==
  LET n == ReadUvarint(data, k.next)
      postIndex == n.next + n.val
      s == Slice(data, n.next, postIndex)
  IN CASE k.val % 8 # 2          -> Fail("wireType")
       [] n.err # "none"         -> Fail(n.err)
       [] postIndex > Len(data)  -> Fail("ErrUnexpectedEOF")
       [] s.err # "none"         -> Panic
       [] OTHER -> [err |-> "none", n |-> postIndex,
                    entry |-> [m EXCEPT ![FieldName[k.val \div 8]] = s.bytes]]

UnknownField(data, k, m) ==
  LET start == k.next - SovLogEntry(k.val)
      rest == Slice(data, start, Len(data))
      skippy == SkipLogEntry(rest.bytes)
      s == Slice(data, start, start + skippy.n)
      old == IF m.XXX_unrecognized = Nil THEN << >> ELSE m.XXX_unrecognized
  IN CASE rest.err # "none"             -> Panic
       [] skippy.err # "none"           -> skippy
       [] start + skippy.n > Len(data)  -> Fail("ErrUnexpectedEOF")
       [] s.err # "none"                -> Panic
       [] OTHER -> [err |-> "none", n |-> start + skippy.n,
                    entry |-> [m EXCEPT !.XXX_unrecognized = old \o s.bytes]]

\* After the loop: the three required fields must have been seen.
RequiredSet(m) ==
  IF \E f \in {"Index", "Term", "CommandName"} : m[f] = Nil
  THEN Fail("RequiredNotSet") ELSE Done(m)

RECURSIVE UnmarshalFrom(_, _, _)
UnmarshalFrom(data, i, m) ==
  IF i >= Len(data) THEN RequiredSet(m)
  ELSE
  LET k == ReadUvarint(data, i)
      f == CASE k.val \div 8 \in {1, 2} -> VarintField(data, k, m)
             [] k.val \div 8 \in {3, 4} -> BytesField(data, k, m)
             [] OTHER                   -> UnknownField(data, k, m)
  IN CASE k.err # "none" -> Fail(k.err)
       [] f.err # "none" -> f
       [] OTHER          -> UnmarshalFrom(data, f.n, f.entry)

\* LogEntry.Unmarshal into a fresh LogEntry.
Unmarshal(data) == UnmarshalFrom(data, 0, EmptyEntry)

(***************************************************************************)
(* Encoding.  Size adds, for each non-nil field, its key byte, the varint  *)
(* of its value or length, and the bytes.  Marshal allocates Size bytes   *)
(* and MarshalTo fills them in field order: a key byte or varint written  *)
(* past the end panics, while copy() of a string, of bytes or of the      *)
(* unknown fields copies only what fits; the result is cut to the bytes   *)
(* written.                                                                *)
(***************************************************************************)
RECURSIVE EncodeVarintLogEntry(_)
EncodeVarintLogEntry(v) ==
  IF v >= 128 THEN << (v % 128) + 128 >> \o EncodeVarintLogEntry(v \div 128)
  ELSE << v >>

BytesSize(b) == IF b = Nil THEN 0 ELSE 1 + Len(b) + SovLogEntry(Len(b))

Size(m) ==
  (IF m.Index = Nil THEN 0 ELSE 1 + SovLogEntry(m.Index))
  + (IF m.Term = Nil THEN 0 ELSE 1 + SovLogEntry(m.Term))
  + BytesSize(m.CommandName) + BytesSize(m.Command)
  + (IF m.XXX_unrecognized = Nil THEN 0 ELSE Len(m.XXX_unrecognized))

\* Writes into the buffer: a key and a varint, or a copy().
Put(b) == [copy |-> FALSE, bytes |-> b]
Copy(b) == [copy |-> TRUE, bytes |-> b]

\* A length-delimited field with key byte key.
BytesFieldOf(key, b) ==
  IF b = Nil THEN << >>
  ELSE << Put(<< key >> \o EncodeVarintLogEntry(Len(b))), Copy(b) >>

\* The writes of MarshalTo, in order.
Writes(m) ==
  << Put(<< 8 >> \o EncodeVarintLogEntry(m.Index)),
     Put(<< 16 >> \o EncodeVarintLogEntry(m.Term)) >>
  \o BytesFieldOf(26, m.CommandName) \o BytesFieldOf(34, m.Command)
  \o (IF m.XXX_unrecognized = Nil THEN << >> ELSE << Copy(m.XXX_unrecognized) >>)

RECURSIVE Fill(_, _, _)
Fill(ws, size, out) ==
  IF ws = << >> THEN [err |-> "none", bytes |-> out]
  ELSE LET w == Head(ws)
           room == size - Len(out)
       IN CASE w.copy ->
                 Fill(Tail(ws), size,
                      out \o SubSeq(w.bytes, 1, IF Len(w.bytes) < room
                                                THEN Len(w.bytes) ELSE room))
            [] Len(w.bytes) > room -> [err |-> "panic", bytes |-> << >>]
            [] OTHER -> Fill(Tail(ws), size, out \o w.bytes)

\* MarshalTo into a buffer of size bytes.
MarshalTo(m, size) ==
  IF \E f \in {"Index", "Term", "CommandName"} : m[f] = Nil
  THEN [err |-> "RequiredNotSet", bytes |-> << >>]
  ELSE Fill(Writes(m), size, << >>)

Marshal(m) == MarshalTo(m, Size(m))

(***************************************************************************)
(* Properties.                                                             *)
(***************************************************************************)

\* An entry Unmarshal accepts is Marshalled without error and decodes
\* back to itself: Size reserves room for every byte MarshalTo writes (a
\* write past the buffer panics), MarshalTo writes each field with the key
\* and the length the decoder reads, and the unknown fields the decoder
\* copied out, rewinding to their key, decode to the same bytes again.
ReencodeRoundTrip ==
  LET r == Unmarshal(entryBytes)
      w == Marshal(r.entry)
  IN r.err = "none" => w.err = "none" /\ Unmarshal(w.bytes) = r

\* Unmarshal of any byte string ends with an entry or an error value of the
\* code (io.ErrUnexpectedEOF, a wrong or illegal wire type, a required
\* field not set), never with a runtime panic: every slice of data it takes,
\* for a length-delimited field or a skipped unknown one, is checked
\* against the input first.
UnmarshalNeverPanics == Unmarshal(entryBytes).err # "panic"

=============================================================================
