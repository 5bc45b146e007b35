------------------------------ MODULE Protocol ------------------------------
(***************************************************************************)
(* The packets (src/pycubrid/protocol.py): the bytes write() makes of a    *)
(* request, and what parse() makes of the bytes of a response.             *)
(*                                                                         *)
(* A request is a record: fc, its function code, and the arguments the     *)
(* packet was built with.                                                  *)
(***************************************************************************)
EXTENDS Packet

CONSTANTS
  Duplicate,  \* the message of an error that says "unique" or the like
  Unexpected  \* one that says "syntax" or the like

(***************************************************************************)
(* write(), without the header that finalize() adds.                       *)
(***************************************************************************)
Flag(b) == IF b THEN 1 ELSE 0
Normal == 0    \* CCIPrepareOption.NORMAL, CCIExecutionOption.NORMAL
QueryAll == 2  \* CCIExecutionOption.QUERY_ALL

PrepareAndExecuteArgs(q) ==
  AddInt(3) \o AddText(q.sql) \o AddByte(Normal) \o AddByte(Flag(q.ac))
    \o AddByte(QueryAll) \o AddInt(0) \o AddInt(0) \o AddNull \o AddCacheTime \o AddInt(0)

PrepareArgs(q) == AddText(q.sql) \o AddByte(Normal) \o AddByte(Flag(q.ac))

ExecuteArgs(q) ==
  AddInt(q.handle) \o AddByte(Normal) \o AddInt(0) \o AddInt(0) \o AddNull
    \o AddByte(Flag(q.stype = "SELECT")) \o AddByte(Flag(q.ac)) \o AddByte(1)
    \o AddCacheTime \o AddInt(0)

\* Seeded fault: the position of the first row is not made 1-based.
FetchArgsZeroBased(q) ==
  AddInt(q.handle) \o AddInt(q.current) \o AddInt(q.size) \o AddByte(0) \o AddInt(0)

FetchArgs(q) ==
  AddInt(q.handle) \o AddInt(q.current + 1) \o AddInt(q.size) \o AddByte(0) \o AddInt(0)

SchemaArgs(q) == AddInt(q.type) \o AddText(q.table) \o AddByte(q.flag)

BatchArgs(q, version) ==
  AddByte(Flag(q.ac)) \o (IF version > 3 THEN AddInt(0) ELSE <<>>)
    \o FlattenSeq([k \in DOMAIN q.sqls |-> AddText(q.sqls[k])])

\* CommitPacket and RollbackPacket.
EndTranArgs(q) == AddByte(q.how)
CloseQueryArgs(q) == AddInt(q.handle)
EngineVersionArgs(q) == AddByte(Flag(q.ac))
GetDbParameterArgs(q) == AddInt(q.parameter)
SetDbParameterArgs(q) == AddInt(q.parameter) \o AddInt(q.value)
LobNewArgs(q) == AddInt(q.type)
LobWriteArgs(q) == AddBytes(q.lob) \o AddLong(q.offset) \o AddBytes(q.data)
LobReadArgs(q) == AddBytes(q.lob) \o AddLong(q.offset) \o AddInt(q.length)

Arguments(q, version) ==
  CASE q.fc = "PREPARE_AND_EXECUTE" -> PrepareAndExecuteArgs(q)
    [] q.fc = "PREPARE" -> PrepareArgs(q)
    [] q.fc = "EXECUTE" -> ExecuteArgs(q)
    [] q.fc = "FETCH" -> FetchArgs(q)
    [] q.fc = "SCHEMA_INFO" -> SchemaArgs(q)
    [] q.fc = "EXECUTE_BATCH" -> BatchArgs(q, version)
    [] q.fc = "END_TRAN" -> EndTranArgs(q)
    [] q.fc = "CLOSE_REQ_HANDLE" -> CloseQueryArgs(q)
    [] q.fc = "GET_DB_VERSION" -> EngineVersionArgs(q)
    [] q.fc = "GET_DB_PARAMETER" -> GetDbParameterArgs(q)
    [] q.fc = "SET_DB_PARAMETER" -> SetDbParameterArgs(q)
    [] q.fc = "LOB_NEW" -> LobNewArgs(q)
    [] q.fc = "LOB_WRITE" -> LobWriteArgs(q)
    [] q.fc = "LOB_READ" -> LobReadArgs(q)
    [] q.fc \in {"CHECK_CAS", "CON_CLOSE", "GET_LAST_INSERT_ID"} -> <<>>

\* OPEN_DATABASE has no header, no function code and no lengths.
OpenDatabase(q) ==
  FixedText(q.database, 32) \o FixedText(q.user, 32) \o FixedText(q.password, 32)
    \o Filler(512) \o Filler(20)

Write(q, version, info) ==
  IF q.fc = "OPEN_DATABASE" THEN OpenDatabase(q)
  ELSE Finalize(WriteByte(q.fc) \o Arguments(q, version), info)

(***************************************************************************)
(* parse(): columns, rows, result infos.                                   *)
(***************************************************************************)
BehindExtended(t) == IF ~t.raised /\ Top(t) = "extended" THEN ReadByte(Pop(t)) ELSE t
ReadType(r) == BehindExtended(ReadByte(r))

\* The flags are compared with 1.
ColumnOf(q, r) ==
  LET v == [j \in DOMAIN Since(q, r) |-> Since(q, r)[j][2]]
  IN IF q.raised THEN q
     ELSE Yield(q, r,
            [type |-> v[1], scale |-> v[2], precision |-> v[3], name |-> v[4],
             real_name |-> v[5], table |-> v[6], nullable |-> v[7] = 1,
             default |-> v[8], flags |-> [j \in 1..7 |-> v[8 + j] = 1]])

\* _parse_column_metadata, one column.
ReadColumn(r, k) ==
  ColumnOf(ReadFields(ReadType(r),
             <<"short", "int", "text", "text", "text", "byte", "text">>
               \o [j \in 1..7 |-> "byte"]), r)

IsCall(stype) == stype \in {"CALL", "EVALUATE", "CALL_SP"}

\* Seeded fault: the type byte is not counted in the size of the value.
TypedSizeUncounted(size) == size

TypedSize(size) == size - 1

\* A value behind its type byte, which is all there is of a NULL.
TypedCell(t, size, r) ==
  IF t.raised THEN t
  ELSE IF size <= 0 THEN Yield(t, r, <<"None">>)
  ELSE ReadTyped(Pop(t), Top(t), size)

\* A value of a row, behind its length; in the result of a CALL, and in a column
\* without a type, a type byte stands before it.
Cell(l, r, type, call) ==
  IF l.raised THEN l
  ELSE IF Top(l) <= 0 THEN Yield(l, r, <<"None">>)
  ELSE IF call \/ type = "null" THEN TypedCell(ReadByte(Pop(l)), TypedSize(Top(l)), r)
  ELSE ReadTyped(Pop(l), type, Top(l))

\* _parse_row_data: as many rows as the value read last.
ReadRows(r, columns, stype) ==
  LET ReadCell(q, c) == Cell(ReadLength(q), q, c.type, IsCall(stype))
      ReadRow(q, k) == Collect(FoldLeft(ReadCell, Forget(Skip(ReadInt(q), 8), q), columns), q)
  IN ReadList(ReadRow, r)

\* _parse_result_infos, one of them: a statement type, a count, an OID and
\* two ints of cache time.
ResultInfo(q, r) ==
  IF q.raised THEN q
  ELSE Yield(q, r, [stype |-> Since(q, r)[1][2], count |-> Since(q, r)[2][2]])

ReadResultInfo(r, k) ==
  ResultInfo(ReadFields(r, <<"byte", "int", "long", "int", "int">>), r)

\* Seeded fault: the byte of version 2 is expected from version 3 on.
VersionedLate(r, version) ==
  Forget(ReadFields(r, (IF version > 2 THEN <<"byte">> ELSE <<>>)
                         \o (IF version > 4 THEN <<"int">> ELSE <<>>)), r)

\* The fields that came with later versions of the protocol.
Versioned(r, version) ==
  Forget(ReadFields(r, (IF version > 1 THEN <<"byte">> ELSE <<>>)
                         \o (IF version > 4 THEN <<"int">> ELSE <<>>)), r)

NoRows == <<"list", <<>>>>

\* The rows that come with the response of a SELECT, if any do; a SELECT has
\* columns.
ReadInline(r, columns, stype) ==
  IF r.raised THEN r
  ELSE IF stype # "SELECT" \/ Remaining(r) < 8 THEN Push(r, NoRows, 0)
  ELSE ReadRows(ReadInt(Skip(r, 4)), columns, stype)

(***************************************************************************)
(* parse() of each packet, from behind the response code, which is the     *)
(* value read last.  The outcome: an exception, the packet's attributes,   *)
(* and how many bytes were left.                                           *)
(***************************************************************************)
Outcome(r, attributes) ==
  IF r.raised THEN [raised |-> "struct.error"]
  ELSE [raised |-> "none", left |-> Remaining(r), attributes |-> attributes]

At(r, k) == r.out[k][2]

\* What PREPARE and PREPARE_AND_EXECUTE have in common: out[1] is the handle,
\* out[3] the statement type, out[6] the columns.
ReadPrepared(r) == ReadList(ReadColumn, ReadFields(r, <<"int", "byte", "int", "byte", "int">>))

\* Behind the total, which is the value read last: whether it may be cached,
\* the result infos, and what the version adds.
ReadExecuted(r, version) ==
  Versioned(ReadList(ReadResultInfo, ReadFields(r, <<"byte", "int">>)), version)

PreparedOutcome(r) ==
  Outcome(r, [handle |-> At(r, 1), stype |-> At(r, 3), columns |-> At(r, 6)])

ParsePrepare(r) == PreparedOutcome(ReadPrepared(r))

\* The rows are of the columns that came with them.
ReadOwnRows(r) == IF r.raised THEN r ELSE ReadInline(r, At(r, 6), At(r, 3))

ExecutedOutcome(r) ==
  Outcome(r, [handle |-> At(r, 1), stype |-> At(r, 3), columns |-> At(r, 6),
              total |-> At(r, 7), infos |-> At(r, 9), rows |-> At(r, 10)])

ParsePrepareAndExecute(r, version) ==
  ExecutedOutcome(ReadOwnRows(ReadExecuted(ReadFields(ReadPrepared(r), <<"int">>), version)))

ParseExecute(r, q, version) ==
  LET e == ReadInline(ReadExecuted(r, version), q.columns, q.stype)
  IN Outcome(e, [total |-> At(e, 1), infos |-> At(e, 3), rows |-> At(e, 4)])

\* Without columns, or rows, there is nothing to be read.
FetchedRows(r, q) ==
  IF ~r.raised /\ q.columns = <<>> THEN Yield(r, Pop(r), NoRows)
  ELSE ReadRows(r, q.columns, q.stype)

ParseFetch(r, q) ==
  LET f == FetchedRows(ReadInt(r), q) IN Outcome(f, [rows |-> At(f, 2)])

\* One statement of a batch: a result, or an error with its code and message.
BatchDone(q, r) ==
  IF q.raised THEN q
  ELSE Yield(q, r, <<"result", Since(q, r)[1][2], Since(q, r)[2][2]>>)

BatchError(q, r) ==
  IF q.raised THEN q ELSE Yield(q, r, <<"error", Top(Pop(q)), Top(q)>>)

BatchResult(h, r, version) ==
  IF h.raised THEN h
  ELSE IF Top(h) >= 0 THEN BatchDone(ReadFields(h, <<"int", "short", "short">>), r)
  ELSE BatchError(ReadFields(h, IF version > 2 THEN <<"int", "text">> ELSE <<"text">>), r)

BatchOutcome(r) ==
  Outcome(r, [results |-> SelectSeq(At(r, 2), LAMBDA x : x[1] = "result"),
              errors |-> SelectSeq(At(r, 2), LAMBDA x : x[1] = "error")])

ParseBatch(r, version) ==
  LET ReadResult(q, k) == BatchResult(Known(ReadFields(q, <<"byte", "int">>)), q, version)
      list == ReadList(ReadResult, ReadInt(r))
  IN BatchOutcome(IF version > 4 THEN Forget(ReadInt(list), list) ELSE list)

\* GetLastInsertIdPacket: the type of the value has one byte or two.
TypeHeaderSize(type) == IF type = "extended" THEN 2 ELSE 1

IdText(t, size) ==
  LET n == TypeHeaderSize(Top(t))
  IN IF t.raised THEN t ELSE ReadText(Skip(t, n - 1), size - n)

LastInsertId(l) ==
  IF l.raised THEN l
  ELSE IF Top(l) <= 0 THEN Push(l, Value(Empty), 0)
  ELSE IdText(ReadByte(l), Top(l))

ParseLastInsertId(r) ==
  LET i == LastInsertId(ReadLength(r)) IN Outcome(i, [id |-> Top(i)])

ParseLobRead(r) ==
  LET d == ReadBytes(r, Top(r))
  IN Outcome(d, [data |-> IF Top(r) > 0 THEN Top(d) ELSE <<>>])

\* The handle of the new LOB is all that is left.
ParseLobNew(r) ==
  LET b == ReadBytes(r, Remaining(r)) IN Outcome(b, [lob |-> Top(b)])

ParseEngineVersion(r) ==
  LET t == ReadText(r, Len(r.buf) - 8) IN Outcome(t, [engine_version |-> Top(t)])

ParseSchema(r) ==
  LET n == ReadInt(r) IN Outcome(n, [handle |-> At(n, 1), tuple_count |-> Top(n)])

ParseDbParameter(r) == LET v == ReadInt(r) IN Outcome(v, [value |-> Top(v)])

Attributes(q, r, version) ==
  CASE q.fc = "PREPARE" -> ParsePrepare(r)
    [] q.fc = "PREPARE_AND_EXECUTE" -> ParsePrepareAndExecute(r, version)
    [] q.fc = "EXECUTE" -> ParseExecute(r, q, version)
    [] q.fc = "FETCH" -> ParseFetch(r, q)
    [] q.fc = "EXECUTE_BATCH" -> ParseBatch(r, version)
    [] q.fc = "GET_LAST_INSERT_ID" -> ParseLastInsertId(r)
    [] q.fc = "LOB_READ" -> ParseLobRead(r)
    [] q.fc = "LOB_NEW" -> ParseLobNew(r)
    [] q.fc = "GET_DB_VERSION" -> ParseEngineVersion(r)
    [] q.fc = "SCHEMA_INFO" -> ParseSchema(r)
    [] q.fc = "GET_DB_PARAMETER" -> ParseDbParameter(r)
    [] OTHER -> Outcome(r, [done |-> TRUE])

(***************************************************************************)
(* _raise_error: the class of the exception is read off the message, whose *)
(* length is what is left of the response behind the error code.           *)
(***************************************************************************)
ErrorClass(message) ==
  CASE message = Duplicate -> "IntegrityError"
    [] message = Unexpected -> "ProgrammingError"
    [] OTHER -> "DatabaseError"

RaiseError(r, length) ==
  LET e == ReadText(ReadInt(r), length - 4)
  IN IF e.raised THEN [raised |-> "struct.error"]
     ELSE [raised |-> ErrorClass(Top(e)), left |-> Remaining(e),
           attributes |-> [code |-> At(e, 2), message |-> Top(e)]]

\* OpenDatabasePacket.parse: the protocol version is in the low six bits of
\* the fifth of the eight bytes of the broker's information.
ParseOpenDatabase(r) ==
  LET b == ReadFields(r, <<"byte", "byte", "byte", "byte", "byte", "byte", "byte", "byte", "int">>)
  IN Outcome(b, [version |-> At(b, 6) % 64, session |-> Top(b)])

\* CheckCasPacket: an empty body is an answer as good as zero.
ParseCheckCas(r) ==
  IF Remaining(r) < 4 THEN Outcome(r, [alive |-> TRUE])
  ELSE LET c == ReadInt(r) IN Outcome(c, [alive |-> Top(c) >= 0])

\* A negative response code is an error.
ParseBody(q, r, version) ==
  IF r.raised THEN [raised |-> "struct.error"]
  ELSE IF Top(r) < 0 THEN RaiseError(r, Len(r.buf) - 8)
  ELSE IF q.fc = "OPEN_DATABASE" THEN ParseOpenDatabase(r)
  ELSE Attributes(q, r, version)

\* CAS_INFO is skipped.
Parse(q, body, version, decode) ==
  LET r == Skip(Reader(body, decode), 4)
  IN IF q.fc = "CHECK_CAS" THEN ParseCheckCas(r) ELSE ParseBody(q, ReadLength(r), version)
=============================================================================
