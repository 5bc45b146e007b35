------------------------------- MODULE Packet -------------------------------
(***************************************************************************)
(* Writing and reading the bytes of a packet (src/pycubrid/packet.py).     *)
(*                                                                         *)
(* A byte is <<k, n, v>>: the k-th of the n bytes that encode v.  What is  *)
(* read at an offset is a value only if the bytes there are all the bytes  *)
(* of it, in order; a reader that has lost its place gets Garbage.         *)
(***************************************************************************)
EXTENDS Integers, Sequences, SequencesExt

CONSTANTS
  None,     \* SQL's NULL, Python's None
  Garbage,  \* what is decoded from bytes that do not belong together
  Empty,    \* the empty text
  Length    \* Length[t]: the bytes of the text t, without its terminator

Encoded(v, n) == [k \in 1..n |-> <<k, n, v>>]

Decoded(bs) ==
  IF bs # <<>> /\ \A k \in DOMAIN bs : bs[k][1] = k /\ bs[k][2] = Len(bs)
  THEN bs[1][3] ELSE Garbage

(***************************************************************************)
(* PacketWriter: _write_ appends a field, add_ puts its length before it.  *)
(***************************************************************************)
WriteByte(v) == Encoded(v, 1)
WriteShort(v) == Encoded(v, 2)
WriteInt(v) == Encoded(v, 4)
WriteLong(v) == Encoded(v, 8)

AddByte(v) == WriteInt(1) \o WriteByte(v)
AddInt(v) == WriteInt(4) \o WriteInt(v)
AddLong(v) == WriteInt(8) \o WriteLong(v)
AddBytes(bs) == WriteInt(Len(bs)) \o bs
AddNull == WriteInt(0)
AddCacheTime == WriteInt(8) \o WriteInt(0) \o WriteInt(0)

TextBytes(t) == Encoded(t, Length[t]) \o WriteByte(0)

\* _write_null_terminated_string: the length counts the terminator.
AddText(t) == WriteInt(Length[t] + 1) \o TextBytes(t)

Filler(n) == [k \in 1..n |-> <<1, 1, 0>>]

\* _write_fixed_length_string: a text that is too long is cut.
FixedText(t, n) == SubSeq(Encoded(t, Length[t]) \o Filler(n), 1, n)

\* finalize: DATA_LENGTH, CAS_INFO, the payload.
Finalize(payload, info) == WriteInt(Len(payload)) \o info \o payload

(***************************************************************************)
(* PacketReader: the buffer, the offset, the values read so far, and if an *)
(* exception was raised, after which nothing more is read.                 *)
(***************************************************************************)
Reader(bs, decode) ==
  [buf |-> bs, off |-> 0, out |-> <<>>, decode |-> decode, raised |-> FALSE]

Remaining(r) == Len(r.buf) - r.off
Value(v) == <<"value", v>>
Push(r, v, n) == [r EXCEPT !.out = Append(@, v), !.off = @ + n]
Raised(r) == [r EXCEPT !.raised = TRUE]
Skip(r, n) == [r EXCEPT !.off = @ + n]

\* The value read last; the reader without it; the values q has read since it
\* was r; and q with v in their place.
Top(r) == r.out[Len(r.out)][2]
Pop(r) == [r EXCEPT !.out = Front(@)]
Since(q, r) == SubSeq(q.out, Len(r.out) + 1, Len(q.out))
Yield(q, r, v) == [q EXCEPT !.out = Append(r.out, v)]
Forget(q, r) == [q EXCEPT !.out = r.out]
Collect(q, r) == IF q.raised THEN q ELSE Yield(q, r, Since(q, r))
Tagged(q, r, tag) == IF q.raised THEN q ELSE Yield(q, r, <<tag, Since(q, r)>>)

\* The next n bytes, or the fewer there are.
Slice(r, n) == SubSeq(r.buf, r.off + 1, IF n <= Remaining(r) THEN r.off + n ELSE Len(r.buf))

\* A field of n bytes: struct.error, or IndexError, past the end.
ReadFixed(r, n) ==
  IF r.raised \/ n > Remaining(r) THEN Raised(r)
  ELSE Push(r, Value(Decoded(Slice(r, n))), n)

ReadByte(r) == ReadFixed(r, 1)
ReadShort(r) == ReadFixed(r, 2)
ReadInt(r) == ReadFixed(r, 4)
ReadLong(r) == ReadFixed(r, 8)

\* _parse_bytes: past the end it is silently short.
ReadBytes(r, n) == IF r.raised THEN r ELSE Push(r, <<"bytes", Slice(r, n)>>, n)

\* The text without its terminator, if it has one.
TextOf(bs) ==
  LET body == IF bs[Len(bs)] = <<1, 1, 0>> THEN Front(bs) ELSE bs
  IN IF body = <<>> THEN Empty ELSE Decoded(body)

\* _parse_null_terminated_string.
ReadText(r, n) ==
  IF r.raised THEN r
  ELSE IF n <= 0 THEN Push(r, Value(Empty), 0)
  ELSE IF n > Remaining(r) THEN Raised(r)
  ELSE Push(r, Value(TextOf(Slice(r, n))), n)

\* A length or a count, of which something is made.
Known(r) == IF r.raised \/ Top(r) = Garbage THEN Raised(r) ELSE r
ReadLength(r) == Known(ReadInt(r))

\* What the length says.
Behind(Read(_, _), l) == IF l.raised THEN l ELSE Read(Pop(l), Top(l))

ReadField(r, kind) ==
  CASE kind = "byte" -> ReadByte(r)
    [] kind = "short" -> ReadShort(r)
    [] kind = "int" -> ReadInt(r)
    [] kind = "long" -> ReadLong(r)
    [] kind = "text" -> Behind(ReadText, ReadLength(r))

ReadFields(r, kinds) == FoldLeft(ReadField, r, kinds)

\* A loop over range() of the value read last, which its list replaces.
Times(Step(_, _), r) == FoldLeft(Step, Pop(r), [k \in 1..Top(r) |-> k])
ReadList(Step(_, _), r) ==
  IF Known(r).raised THEN Raised(r) ELSE Tagged(Times(Step, r), Pop(r), "list")

(***************************************************************************)
(* The values of a row, by the type of their column: the types that have   *)
(* the same reader are one.                                                *)
(***************************************************************************)
\* Types of fixed width, and their width.
Width == [short |-> 2, int |-> 4, bigint |-> 8, float |-> 4, double |-> 8,
          date |-> 6, time |-> 6, timestamp |-> 12, datetime |-> 14]

FixedTypes == DOMAIN Width
TextTypes == {"char", "numeric"}
LobTypes == {"blob", "clob"}
CollectionTypes == {"set", "multiset", "sequence"}

\* _COLLECTION_ELEMENT_METHOD_NAMES: what a collection can be decoded of.
ElementTypes == FixedTypes \cup TextTypes \cup LobTypes \cup {"object", "bit"}

\* 14 bytes and, if there is more, the time zone.
ReadZoned(r, n) == Tagged(ReadText(ReadFixed(r, 14), n - 14), r, "zoned")

ReadObject(r) == Tagged(ReadFields(r, <<"int", "short", "short">>), r, "oid")

\* _read_lob: the packed handle, read a second time by a reader of its own.
LobOf(q, r, n, type) ==
  IF q.raised THEN Raised(r)
  ELSE Push(r, <<"lob", type, q.out[2][2], q.out[3][2], q.buf>>, n)

ReadLob(r, n, type) ==
  LobOf(ReadFields(Reader(Slice(r, n), FALSE), <<"int", "long", "text">>), r, n, type)

ReadScalar(r, type, n) ==
  CASE type \in FixedTypes -> ReadFixed(r, Width[type])
    [] type \in TextTypes \cup {"json"} -> ReadText(r, n)
    [] type = "datetimetz" -> ReadZoned(r, n)
    [] type = "object" -> ReadObject(r)
    [] type \in LobTypes -> ReadLob(r, n, type)
    [] OTHER -> ReadBytes(r, n)

Element(l, r, type) ==
  IF l.raised THEN l
  ELSE IF Top(l) <= 0 THEN Yield(l, r, <<"None">>)
  ELSE ReadScalar(Pop(l), type, Top(l))

\* _convert_collection_value; a dict, which a LOB is read to, has no hash.
Converted(type, s) ==
  IF type # "set" THEN <<"list", s>>
  ELSE IF \E k \in DOMAIN s : s[k][1] = "lob" THEN <<"tuple", s>>
  ELSE <<"frozenset", ToSet(s)>>

Collection(q, r, type) ==
  IF q.raised THEN q ELSE Yield(q, r, Converted(type, Top(q)))

\* The raw bytes, or a list of the elements; h has read the element type and
\* the count.  Of a type that is a collection, or unknown, the raw bytes again.
Elements(h, r, type, n) ==
  LET of == Top(Pop(h))
      ReadElement(q, k) == Element(ReadLength(q), q, of)
  IN IF h.raised THEN h
     ELSE IF of \notin ElementTypes THEN ReadBytes(r, n)
     ELSE Collection(ReadList(ReadElement, h), r, type)

\* _parse_collection.
ReadCollection(r, type, n) ==
  IF ~r.decode THEN ReadBytes(r, n)
  ELSE Elements(ReadFields(r, <<"byte", "int">>), r, type, n)

ReadTyped(r, type, n) ==
  IF type \in CollectionTypes THEN ReadCollection(r, type, n) ELSE ReadScalar(r, type, n)
=============================================================================
