------------------------------ MODULE CasCodec ------------------------------
(***************************************************************************)
(* The other end of the wire (external): how a CAS takes the bytes of a    *)
(* request apart, and the bytes of its responses, as the packets of        *)
(* src/pycubrid/protocol.py expect them.                                   *)
(*                                                                         *)
(* It is written field by field, not from the driver's own definitions:    *)
(* the driver is compared with it.                                         *)
(***************************************************************************)
EXTENDS Protocol

(***************************************************************************)
(* A request: its length, CAS_INFO, the function code, and the arguments,  *)
(* each behind its length.                                                 *)
(***************************************************************************)
Args(bs) ==
  LET from[o \in 0..Len(bs)] ==
        LET l == Decoded(SubSeq(bs, o + 1, o + 4))
        IN IF o = Len(bs) THEN <<>>
           ELSE IF o + 4 > Len(bs) THEN <<Garbage>>
           ELSE IF l = Garbage \/ l < 0 \/ o + 4 + l > Len(bs) THEN <<Garbage>>
           ELSE <<SubSeq(bs, o + 5, o + 4 + l)>> \o from[o + 4 + l]
  IN from[0]

IntArg(a) == Decoded(a)
FlagArg(a) == Decoded(a) = 1
TextArg(a) == IF Len(a) = 1 THEN Empty ELSE Decoded(Front(a))

\* A field of fixed length: what is in it before the filler.
Unfilled(bs) ==
  LET text == SelectSeq(bs, LAMBDA b : b # <<1, 1, 0>>)
  IN IF text = <<>> THEN Empty ELSE Decoded(text)

\* What the server takes the bytes for, as a request of Protocol.tla; the
\* columns and types an EXECUTE or a FETCH is parsed with stay at the client.
Understood(fc, a, version) ==
  CASE fc = "PREPARE_AND_EXECUTE" ->
         [fc |-> fc, sql |-> TextArg(a[2]), ac |-> FlagArg(a[4])]
    [] fc = "PREPARE" -> [fc |-> fc, sql |-> TextArg(a[1]), ac |-> FlagArg(a[3])]
    [] fc = "EXECUTE" -> [fc |-> fc, handle |-> IntArg(a[1]), ac |-> FlagArg(a[7])]
    [] fc = "FETCH" ->
         [fc |-> fc, handle |-> IntArg(a[1]), current |-> IntArg(a[2]) - 1, size |-> IntArg(a[3])]
    [] fc = "SCHEMA_INFO" ->
         [fc |-> fc, type |-> IntArg(a[1]), table |-> TextArg(a[2]), flag |-> IntArg(a[3])]
    [] fc = "EXECUTE_BATCH" ->
         LET sqls == SubSeq(a, IF version > 3 THEN 3 ELSE 2, Len(a))
         IN [fc |-> fc, ac |-> FlagArg(a[1]), sqls |-> [k \in DOMAIN sqls |-> TextArg(sqls[k])]]
    [] fc = "END_TRAN" -> [fc |-> fc, how |-> IntArg(a[1])]
    [] fc = "CLOSE_REQ_HANDLE" -> [fc |-> fc, handle |-> IntArg(a[1])]
    [] fc = "GET_DB_VERSION" -> [fc |-> fc, ac |-> FlagArg(a[1])]
    [] fc = "GET_DB_PARAMETER" -> [fc |-> fc, parameter |-> IntArg(a[1])]
    [] fc = "SET_DB_PARAMETER" ->
         [fc |-> fc, parameter |-> IntArg(a[1]), value |-> IntArg(a[2])]
    [] fc = "LOB_NEW" -> [fc |-> fc, type |-> IntArg(a[1])]
    [] fc = "LOB_WRITE" -> [fc |-> fc, lob |-> a[1], offset |-> IntArg(a[2]), data |-> a[3]]
    [] fc = "LOB_READ" -> [fc |-> fc, lob |-> a[1], offset |-> IntArg(a[2]), length |-> IntArg(a[3])]
    [] OTHER -> [fc |-> fc]

\* The frame is as long as it says.
Framed(bs) ==
  /\ Len(bs) > 8
  /\ Decoded(SubSeq(bs, 1, 4)) = Len(bs) - 8

Taken(bs, version) == Understood(bs[9][3], Args(SubSeq(bs, 10, Len(bs))), version)

Opened(bs) ==
  [fc |-> "OPEN_DATABASE", database |-> Unfilled(SubSeq(bs, 1, 32)),
   user |-> Unfilled(SubSeq(bs, 33, 64)), password |-> Unfilled(SubSeq(bs, 65, 96))]

(***************************************************************************)
(* Values.  A cell is a type and a value of it.                            *)
(***************************************************************************)
Sized(bs) == WriteInt(Len(bs)) \o bs

LobHandle(v) == WriteInt(1) \o WriteLong(v[1]) \o AddText(v[2])

ScalarBytes(type, v) ==
  CASE type \in FixedTypes -> Encoded(v, Width[type])
    [] type \in TextTypes \cup {"json"} -> TextBytes(v)
    [] type = "datetimetz" ->
         Encoded(v[1], 14) \o (IF v[2] = Empty THEN <<>> ELSE TextBytes(v[2]))
    [] type = "object" -> WriteInt(v[1]) \o WriteShort(v[2]) \o WriteShort(v[3])
    [] type \in LobTypes -> LobHandle(v)
    [] OTHER -> Encoded(v, 2)

ItemBytes(type, v) == IF v = None THEN WriteInt(-1) ELSE Sized(ScalarBytes(type, v))

ValueBytes(c) ==
  IF c.type \in CollectionTypes
  THEN WriteByte(c.v.of) \o WriteInt(Len(c.v.items))
         \o FlattenSeq([k \in DOMAIN c.v.items |-> ItemBytes(c.v.of, c.v.items[k])])
  ELSE ScalarBytes(c.type, c.v)

CellBytes(column, stype, c) ==
  IF c.v = None THEN WriteInt(-1)
  ELSE IF IsCall(stype) \/ column.type = "null" THEN Sized(WriteByte(c.type) \o ValueBytes(c))
  ELSE Sized(ValueBytes(c))

RowBytes(columns, stype, row, n) ==
  WriteInt(n) \o Encoded(0, 8)
    \o FlattenSeq([k \in DOMAIN row |-> CellBytes(columns[k], stype, row[k])])

RowsBytes(columns, stype, rows) ==
  WriteInt(Len(rows)) \o FlattenSeq([k \in DOMAIN rows |-> RowBytes(columns, stype, rows[k], k)])

(***************************************************************************)
(* The Python value an application should get for a cell.                  *)
(***************************************************************************)
ScalarValue(type, v) ==
  CASE type \in FixedTypes \cup TextTypes \cup {"json"} -> Value(v)
    [] type = "datetimetz" -> <<"zoned", <<Value(v[1]), Value(v[2])>>>>
    [] type = "object" -> <<"oid", <<Value(v[1]), Value(v[2]), Value(v[3])>>>>
    [] type \in LobTypes -> <<"lob", type, v[1], v[2], LobHandle(v)>>
    [] OTHER -> <<"bytes", Encoded(v, 2)>>

ItemValue(type, v) == IF v = None THEN <<"None">> ELSE ScalarValue(type, v)

CellValue(c, decode) ==
  IF c.v = None THEN <<"None">>
  ELSE IF c.type \notin CollectionTypes THEN ScalarValue(c.type, c.v)
  ELSE IF ~decode \/ c.v.of \notin ElementTypes THEN <<"bytes", ValueBytes(c)>>
  ELSE LET s == [k \in DOMAIN c.v.items |-> ItemValue(c.v.of, c.v.items[k])]
       IN IF c.type # "set" THEN <<"list", s>>
          ELSE IF c.v.of \in LobTypes /\ ToSet(c.v.items) \ {None} # {} THEN <<"tuple", s>>
          ELSE <<"frozenset", ToSet(s)>>

RowsValue(rows, decode) ==
  [k \in DOMAIN rows |-> [j \in DOMAIN rows[k] |-> CellValue(rows[k][j], decode)]]

(***************************************************************************)
(* Responses, behind CAS_INFO.  A column of a response says whether its    *)
(* type has two bytes; rows are None where the response has no such part.  *)
(***************************************************************************)
TypeBytes(c) == (IF c.wide THEN WriteByte("extended") ELSE <<>>) \o WriteByte(c.type)

ColumnBytes(c) ==
  TypeBytes(c) \o WriteShort(c.scale) \o WriteInt(c.precision)
    \o AddText(c.name) \o AddText(c.real_name) \o AddText(c.table)
    \o WriteByte(Flag(c.nullable)) \o AddText(c.default)
    \o FlattenSeq([k \in 1..7 |-> WriteByte(Flag(c.flags[k]))])

\* The column as the driver knows it.
Metadata(c) == [f \in DOMAIN c \ {"wide"} |-> c[f]]
MetadataOf(columns) == [k \in DOMAIN columns |-> Metadata(columns[k])]

InfoBytes(i) ==
  WriteByte(i.stype) \o WriteInt(i.count) \o Encoded(0, 8) \o WriteInt(0) \o WriteInt(0)

Since2(version) == IF version > 1 THEN WriteByte(0) ELSE <<>>
Since5(version) == IF version > 4 THEN WriteInt(0) ELSE <<>>

Prepared(s) ==
  WriteInt(s.handle) \o WriteInt(0) \o WriteByte(s.stype) \o WriteInt(0) \o WriteByte(1)
    \o WriteInt(Len(s.columns)) \o FlattenSeq([k \in DOMAIN s.columns |-> ColumnBytes(s.columns[k])])

Executed(s, version, columns, stype) ==
  WriteByte(0) \o WriteInt(Len(s.infos)) \o FlattenSeq([k \in DOMAIN s.infos |-> InfoBytes(s.infos[k])])
    \o Since2(version) \o Since5(version)
    \o (IF s.rows = None THEN <<>> ELSE WriteInt(0) \o RowsBytes(columns, stype, s.rows))

\* A result of a batch: <<"result", type, count>> or <<"error", code, message>>.
BatchResultBytes(x, version) ==
  IF x[1] = "result"
  THEN WriteByte(x[2]) \o WriteInt(x[3]) \o WriteInt(0) \o WriteShort(0) \o WriteShort(0)
  ELSE WriteByte(0) \o WriteInt(IF version > 2 THEN -1 ELSE x[2])
         \o (IF version > 2 THEN WriteInt(x[2]) ELSE <<>>) \o AddText(x[3])

Body(q, s, version) ==
  CASE s.st = "error" -> WriteInt(-1) \o WriteInt(s.code) \o TextBytes(s.message)
    [] s.st = "empty" -> <<>>
    [] s.st = "dead" -> WriteInt(-1)
    [] s.st = "ok" ->
    CASE q.fc = "PREPARE" -> Prepared(s)
      [] q.fc = "PREPARE_AND_EXECUTE" ->
           Prepared(s) \o WriteInt(s.total) \o Executed(s, version, s.columns, s.stype)
      [] q.fc = "EXECUTE" -> WriteInt(s.total) \o Executed(s, version, q.columns, q.stype)
      [] q.fc = "FETCH" -> WriteInt(0) \o RowsBytes(q.columns, q.stype, s.rows)
      [] q.fc = "EXECUTE_BATCH" ->
           WriteInt(0) \o WriteInt(Len(s.results))
             \o FlattenSeq([k \in DOMAIN s.results |-> BatchResultBytes(s.results[k], version)])
             \o Since5(version)
      [] q.fc = "GET_LAST_INSERT_ID" ->
           WriteInt(0) \o (IF s.id = Empty THEN WriteInt(-1)
             ELSE Sized((IF s.wide THEN WriteByte("extended") ELSE <<>>)
                          \o WriteByte("numeric") \o TextBytes(s.id)))
      [] q.fc = "LOB_NEW" -> WriteInt(0) \o LobHandle(s.lob)
      [] q.fc = "LOB_READ" -> WriteInt(Len(s.data)) \o s.data
      [] q.fc = "GET_DB_VERSION" -> WriteInt(0) \o TextBytes(s.engine_version)
      [] q.fc = "SCHEMA_INFO" -> WriteInt(s.handle) \o WriteInt(s.tuple_count)
      [] q.fc = "GET_DB_PARAMETER" -> WriteInt(0) \o WriteInt(s.value)
      [] q.fc = "OPEN_DATABASE" ->
           WriteInt(0) \o WriteByte(1) \o WriteByte(0) \o WriteByte(1) \o WriteByte(0)
             \o WriteByte(64 + s.version) \o WriteByte(0) \o WriteByte(0) \o WriteByte(0)
             \o WriteInt(s.session)
      [] OTHER -> WriteInt(0)

\* DATA_LENGTH counts what is behind CAS_INFO.
Response(q, s, version, info) == LET b == Body(q, s, version) IN WriteInt(Len(b)) \o info \o b

\* The attributes the packet of q should have after such a response.
Meant(q, s, decode) ==
  LET rows == IF s.rows = None THEN <<>> ELSE RowsValue(s.rows, decode)
  IN CASE s.st = "error" -> [code |-> s.code, message |-> s.message]
       [] s.st = "empty" -> [alive |-> TRUE]
       [] s.st = "dead" -> [alive |-> FALSE]
       [] s.st = "ok" ->
       CASE q.fc = "PREPARE" ->
              [handle |-> s.handle, stype |-> s.stype, columns |-> MetadataOf(s.columns)]
         [] q.fc = "PREPARE_AND_EXECUTE" ->
              [handle |-> s.handle, stype |-> s.stype, columns |-> MetadataOf(s.columns),
               total |-> s.total, infos |-> s.infos, rows |-> rows]
         [] q.fc = "EXECUTE" -> [total |-> s.total, infos |-> s.infos, rows |-> rows]
         [] q.fc = "FETCH" -> [rows |-> rows]
         [] q.fc = "EXECUTE_BATCH" ->
              [results |-> SelectSeq(s.results, LAMBDA x : x[1] = "result"),
               errors |-> SelectSeq(s.results, LAMBDA x : x[1] = "error")]
         [] q.fc = "GET_LAST_INSERT_ID" -> [id |-> s.id]
         [] q.fc = "LOB_NEW" -> [lob |-> LobHandle(s.lob)]
         [] q.fc = "LOB_READ" -> [data |-> s.data]
         [] q.fc = "GET_DB_VERSION" -> [engine_version |-> s.engine_version]
         [] q.fc = "SCHEMA_INFO" -> [handle |-> s.handle, tuple_count |-> s.tuple_count]
         [] q.fc = "GET_DB_PARAMETER" -> [value |-> s.value]
         [] q.fc = "OPEN_DATABASE" -> [version |-> s.version, session |-> s.session]
         [] q.fc = "CHECK_CAS" -> [alive |-> TRUE]
         [] OTHER -> [done |-> TRUE]
=============================================================================
