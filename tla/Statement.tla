----------------------------- MODULE Statement -----------------------------
(***************************************************************************)
(* The way of a statement and of its result: parameters are bound into the *)
(* text (SqlBind), the packet is written, the server (CasCodec) reads it   *)
(* and responds, the response is received and parsed (Protocol, Packet),   *)
(* and the cursor or the Lob keeps what later requests are made of.        *)
(* src/pycubrid/connection.py (_send_and_receive, _recv_exact), cursor.py, *)
(* lob.py; the asyncio driver builds and parses the same packets.          *)
(*                                                                         *)
(* When an exchange happens, and what it does to the session, is the       *)
(* subject of SyncDriver and AsyncDriver; here it is the bytes.            *)
(***************************************************************************)
EXTENDS SqlBind, CasCodec, TLC

CONSTANTS
  Requests,      \* what may be asked without a cursor or a LOB
  Texts,         \* the texts a response may contain
  Messages,      \* the messages of an error
  ColumnLists,   \* the columns a result may have
  Cells(_),      \* Cells(t): the values a column of type t may have
  CallCells,     \* the values a CALL may return
  Connections,   \* the protocol version and decode_collections of connections
  MaxPieces      \* bound: a response of more bytes comes in two pieces

VARIABLES
  phase,    \* "bind", "ready", "sent", "replied" or "parsed"
  broker,   \* the protocol version of the server
  version,  \* _protocol_version: what the driver takes it to be
  decode,   \* decode_collections
  request,  \* the request under way
  sent,     \* the response to it
  stream,   \* the bytes of the response
  taken,    \* how many bytes of it have been received
  result,   \* what the packet parsed
  cursor,   \* what the cursor keeps of its statement
  lob       \* the handle of a Lob object

wireVars == <<broker, version, decode, request, sent, stream, taken, result, cursor, lob>>
vars == <<bindVars, phase, wireVars>>

Nothing == [fc |-> "none"]

\* A connection of today, as connect() leaves it.
Init ==
  /\ BindInit
  /\ phase = "bind"
  /\ broker = 8 /\ version = 8
  /\ decode = FALSE
  /\ request = Nothing /\ sent = Nothing /\ stream = <<>> /\ taken = 0 /\ result = Nothing
  /\ cursor = Nothing /\ lob = <<>>

(***************************************************************************)
(* execute() binds its parameters, then they and the text are its locals   *)
(* no more.  Bound: parameters are bound in the first statement only.      *)
(***************************************************************************)
Binding == phase = "bind" /\ BindNext /\ UNCHANGED <<phase, wireVars>>

Rendered ==
  /\ phase = "bind" /\ mode = "bound"
  /\ phase' = "ready"
  /\ plain' = FALSE
  /\ sql' = <<>> /\ i' = 0 /\ start' = 0 /\ parts' = <<>> /\ given' = <<>>
  /\ bound' = [raised |-> "none", text |-> <<>>]
  /\ UNCHANGED <<mode, wireVars>>

(***************************************************************************)
(* The requests.                                                           *)
(***************************************************************************)
Send(q) ==
  /\ phase = "ready"
  /\ request' = q
  /\ phase' = "sent"
  /\ UNCHANGED <<bindVars, broker, version, decode, sent, stream, taken, result, cursor, lob>>

\* Bound: one cursor or one Lob at a time.
Free == cursor = Nothing /\ lob = <<>>

Ask == Free /\ \E q \in Requests : Send(q)

\* _fetch_more_rows; current is the cursor's _row_index.
Fetch ==
  /\ cursor # Nothing /\ cursor.stype \in {"SELECT", "CALL"}
  /\ \E current \in {0, 1} :
       Send([fc |-> "FETCH", handle |-> cursor.handle, current |-> current, size |-> 100,
             columns |-> cursor.columns, stype |-> cursor.stype])

\* A PREPARE is followed by the EXECUTE of its handle.
Execute ==
  /\ cursor # Nothing /\ cursor.prepared
  /\ Send([fc |-> "EXECUTE", handle |-> cursor.handle, ac |-> TRUE,
           columns |-> cursor.columns, stype |-> cursor.stype])

CloseQuery ==
  /\ cursor # Nothing
  /\ Send([fc |-> "CLOSE_REQ_HANDLE", handle |-> cursor.handle])

\* Lob.read and Lob.write, with the handle the object was made with.
LobRead ==
  /\ lob # <<>>
  /\ Send([fc |-> "LOB_READ", lob |-> lob, offset |-> 0, length |-> 2])

LobWrite ==
  /\ lob # <<>>
  /\ \E t \in Texts :
       Send([fc |-> "LOB_WRITE", lob |-> lob, offset |-> 1, data |-> Encoded(t, Length[t])])

(***************************************************************************)
(* The server (external): a connection may be made anew, to a broker of    *)
(* another version, and with other options.                                *)
(***************************************************************************)
OpenDatabaseCall ==
  /\ phase = "ready" /\ Free
  /\ \E t \in Texts :
       request' = [fc |-> "OPEN_DATABASE", database |-> t, user |-> t, password |-> Empty]
  /\ \E c \in Connections : broker' = c[1] /\ decode' = c[2]
  /\ phase' = "sent"
  /\ UNCHANGED <<bindVars, version, sent, stream, taken, result, cursor, lob>>

CellsOf(column, stype) == IF stype = "CALL" THEN CallCells ELSE Cells(column.type)

RowsOf(columns, stype) ==
  IF Len(columns) = 1 THEN {<<c>> : c \in CellsOf(columns[1], stype)}
  ELSE {<<c, d>> : c \in CellsOf(columns[1], stype), d \in CellsOf(columns[2], stype)}

\* No row, one, and two alike.
RowLists(columns, stype) ==
  LET rows == RowsOf(columns, stype)
  IN {<<>>} \cup {<<r>> : r \in rows} \cup {<<r, r>> : r \in rows}

Infos == {<<>>, <<[stype |-> "INSERT", count |-> 1]>>,
          <<[stype |-> "INSERT", count |-> 1], [stype |-> "UPDATE", count |-> 0]>>}

Ok(fields) == [st |-> "ok"] @@ fields

PreparedResponses ==
  {Ok([handle |-> 7, stype |-> "INSERT", columns |-> <<>>])}
    \cup {Ok([handle |-> 7, stype |-> t, columns |-> cs]) :
            t \in {"SELECT", "CALL"}, cs \in ColumnLists}

\* The rows of a SELECT may come with the response, or not at all.
ExecutedResponses(s) ==
  IF s.stype = "SELECT"
  THEN {s @@ [total |-> 5, infos |-> <<>>, rows |-> r] :
          r \in {None} \cup RowLists(s.columns, s.stype)}
  ELSE {s @@ [total |-> 1, infos |-> is, rows |-> None] : is \in Infos}

BatchResults ==
  {<<"result", "INSERT", 1>>, <<"result", "DELETE", 0>>} \cup {<<"error", -3, t>> : t \in Texts}

OkResponses(q) ==
  CASE q.fc = "PREPARE" -> PreparedResponses
    [] q.fc = "PREPARE_AND_EXECUTE" ->
         UNION {ExecutedResponses(s) : s \in PreparedResponses}
    [] q.fc = "EXECUTE" -> ExecutedResponses(Ok([columns |-> q.columns, stype |-> q.stype]))
    [] q.fc = "FETCH" -> {Ok([rows |-> r]) : r \in RowLists(q.columns, q.stype)}
    [] q.fc = "EXECUTE_BATCH" ->
         {Ok([results |-> r]) : r \in UNION {[1..n -> BatchResults] : n \in 0..2}}
    [] q.fc = "GET_LAST_INSERT_ID" ->
         {Ok([id |-> t, wide |-> w]) : t \in Texts, w \in BOOLEAN}
    [] q.fc = "LOB_NEW" -> {Ok([lob |-> <<0, t>>]) : t \in Texts}
    [] q.fc = "LOB_READ" -> {Ok([data |-> Encoded(t, Length[t])]) : t \in Texts}
    [] q.fc = "GET_DB_VERSION" -> {Ok([engine_version |-> t]) : t \in Texts}
    [] q.fc = "SCHEMA_INFO" -> {Ok([handle |-> 7, tuple_count |-> 2])}
    [] q.fc = "GET_DB_PARAMETER" -> {Ok([value |-> v]) : v \in {0, 4}}
    [] q.fc = "OPEN_DATABASE" -> {Ok([version |-> broker, session |-> 9])}
    [] q.fc = "CHECK_CAS" -> {[st |-> "ok"], [st |-> "empty"], [st |-> "dead"]}
    [] OTHER -> {[st |-> "ok"]}

ErrorResponses == {[st |-> "error", code |-> -3, message |-> t] : t \in Messages}

Respond ==
  /\ phase = "sent"
  /\ sent' \in OkResponses(request)
       \cup (IF request.fc = "CHECK_CAS" THEN {} ELSE ErrorResponses)
  /\ stream' = Response(request, sent', broker, Encoded(0, 4))
  /\ taken' = 0
  /\ phase' = "replied"
  /\ UNCHANGED <<bindVars, broker, version, decode, request, result, cursor, lob>>

(***************************************************************************)
(* _send_and_receive: the length, then as many bytes and CAS_INFO, each    *)
(* received in the pieces that the socket gives (_recv_exact).             *)
(***************************************************************************)
Received == SubSeq(stream, 1, taken)

BodyLength == Decoded(SubSeq(stream, 1, 4)) + 4

Wanted == IF taken < 4 THEN 4 - taken ELSE 4 + BodyLength - taken

Pieces == IF Len(stream) <= MaxPieces THEN 1..Wanted ELSE {Wanted}

Receive ==
  /\ phase = "replied" /\ Wanted > 0
  /\ \E n \in Pieces : taken' = taken + n
  /\ UNCHANGED <<bindVars, phase, broker, version, decode, request, sent, stream, result, cursor, lob>>

ParseResponse ==
  /\ phase = "replied" /\ Wanted = 0
  /\ result' = Parse(request, SubSeq(Received, 5, taken), version, decode)
  /\ phase' = "parsed"
  /\ UNCHANGED <<bindVars, broker, version, decode, request, sent, stream, taken, cursor, lob>>

(***************************************************************************)
(* What is kept of a result: the version of the broker, what the cursor    *)
(* needs for its FETCH, the handle of a LOB.                               *)
(***************************************************************************)
KeptVersion ==
  IF request.fc = "OPEN_DATABASE" /\ result.raised = "none" THEN result.attributes.version
  ELSE version

KeptCursor ==
  CASE request.fc \in {"PREPARE", "PREPARE_AND_EXECUTE"} /\ result.raised = "none" ->
         [handle |-> result.attributes.handle, stype |-> result.attributes.stype,
          columns |-> result.attributes.columns, prepared |-> request.fc = "PREPARE"]
    [] OTHER -> Nothing

\* Lob.create; or a Lob made of the packed handle in the first row.
LobCells == {k \in DOMAIN result.attributes.rows[1] : result.attributes.rows[1][k][1] = "lob"}
KeptLob ==
  IF result.raised # "none" THEN {<<>>}
  ELSE CASE request.fc = "LOB_NEW" -> {result.attributes.lob}
         [] request.fc = "FETCH" ->
              IF result.attributes.rows = <<>> \/ LobCells = {} THEN {<<>>}
              ELSE {result.attributes.rows[1][k][5] : k \in LobCells}
         [] OTHER -> {<<>>}

Return ==
  /\ phase = "parsed"
  /\ phase' = "ready"
  /\ version' = KeptVersion
  /\ cursor' = KeptCursor
  /\ lob' \in KeptLob
  /\ request' = Nothing /\ sent' = Nothing /\ stream' = <<>> /\ taken' = 0 /\ result' = Nothing
  /\ UNCHANGED <<bindVars, broker, decode>>

(***************************************************************************)
(* The specification.  A connection is lost when its OPEN_DATABASE fails:  *)
(* only another one follows.                                               *)
(***************************************************************************)
Connected == version = broker

Next ==
  \/ Binding \/ Rendered
  \/ Connected /\ (Ask \/ Fetch \/ Execute \/ CloseQuery \/ LobRead \/ LobWrite)
  \/ OpenDatabaseCall
  \/ Respond \/ Receive \/ ParseResponse \/ Return

Spec == Init /\ [][Next]_vars

(***************************************************************************)
(* The server takes the bytes of every request for what the driver meant:  *)
(* the arguments are found one after the other to the last byte, those     *)
(* that depend on the version included, and a LOB's handle comes back as   *)
(* the server made it.  The server of CasCodec frames as finalize() and    *)
(* _recv_exact do, CAS_INFO not counted, and takes every argument behind a *)
(* length of four bytes, as add_byte() writes it; docs/PROTOCOL.md says    *)
(* otherwise of both (lines 84 and 435), and is not what is checked here.  *)
(***************************************************************************)
ClientOnly == {"columns", "stype"}
AsMeant(q) == [f \in DOMAIN q \ ClientOnly |-> q[f]]

RequestUnderstood ==
  phase = "sent" =>
    LET bs == Write(request, version, Encoded(0, 4))
    IN IF request.fc = "OPEN_DATABASE" THEN Len(bs) = 628 /\ Opened(bs) = request
       ELSE Framed(bs) /\ Taken(bs, broker) = AsMeant(request)

(***************************************************************************)
(* What a packet has parsed is what the server responded, whatever the     *)
(* version, the types and the options: no value is read from bytes that    *)
(* are not its own, and a server error becomes an exception of its class   *)
(* with the code and the message.                                          *)
(***************************************************************************)
ResponseUnderstood ==
  phase = "parsed" =>
    /\ result.raised = IF sent.st = "error" THEN ErrorClass(sent.message) ELSE "none"
    /\ result.attributes = Meant(request, sent, decode)

(***************************************************************************)
(* However the socket cuts it, a response is received and read to its last *)
(* byte and no further: the next one starts where it should.  The length   *)
(* of a response leaves CAS_INFO out, as _send_and_receive expects it.     *)
(***************************************************************************)
NothingLeft ==
  phase = "parsed" =>
    taken = Len(stream) /\ result.raised # "struct.error" /\ result.left = 0
=============================================================================
