-------------------------- MODULE SyncDriverProofs --------------------------
(***************************************************************************)
(* Theorems about the synchronous driver, for every set of statements,     *)
(* cursors and handles, every fetch size and every choice of public calls. *)
(***************************************************************************)
EXTENDS SyncDriver, CasServerProofs

(***************************************************************************)
(* Type correctness.  TypeOK is inductive once it is known that a fetch    *)
(* always runs on behalf of a cursor.                                      *)
(***************************************************************************)
FetchHasCursor == call.op \in {"fetchmany", "fetchall"} => call.cur \in Cursors

TypeInv == TypeOK /\ FetchHasCursor

\* No call under way, and a call that begins, are call records.
LEMMA BeginType ==
  /\ Idle \in CallRecords
  /\ \A op \in Calls, c \in Cursors \cup {None}, p \in Packets :
       /\ Begin(op, c, p) \in CallRecords
       /\ Begin(op, c, p).op = op /\ Begin(op, c, p).cur = c
<1>1. NoPacket \in Packets
  BY PacketType
<1>2. Idle \in CallRecords
  BY <1>1 DEF Idle, CallRecords, Steps
<1> QED
  BY <1>2 DEF Begin, CallRecords, Steps

\* A reply that an exchange may give is a reply.
LEMMA PossibleRepliesType ==
  ASSUME TypeOK, NEW r \in PossibleReplies
  PROVE  r \in Replies
<1>1. /\ \A st \in ReplyStates : Failed(st) \in Replies
  BY ReplyType
<1>2. \A o \in Outcomes(call.pkt) : o.reply \in Replies
  <2>1. call.pkt \in Packets /\ ServerTypeOK
    BY DEF TypeOK, CallRecords
  <2> QED
    BY <2>1, OutcomesType DEF OutcomeRecords
<1> QED
  BY <1>1, <1>2 DEF PossibleReplies, Parsed, ReplyStates

\* Whatever an exchange does to the session and the transport is well typed.
LEMMA SendAndReceiveType ==
  ASSUME TypeOK, NEW r \in PossibleReplies, SendAndReceive(r)
  PROVE  /\ ServerTypeOK'
         /\ connected' \in BOOLEAN /\ socket' \in BOOLEAN
         /\ casStatus' \in {"ACTIVE", "INACTIVE"}
<1>1. call.pkt \in Packets /\ ServerTypeOK
  BY DEF TypeOK, CallRecords
<1>2. NoHandles \in [Handles -> Stmts \cup {None}]
  BY DEF NoHandles
<1>3. \A o \in Outcomes(call.pkt) : o \in OutcomeRecords
  BY <1>1, OutcomesType
<1>4. CASE NotConnected(r)
  BY <1>1, <1>4 DEF NotConnected, serverVars, transportVars, TypeOK, ServerTypeOK
<1>5. CASE ReconnectFails(r)
  BY <1>1, <1>5 DEF ReconnectFails, HandshakeFails, serverVars, TypeOK, ServerTypeOK
<1>6. CASE Response(r)
  <2>1. PICK o \in OutcomeRecords : Serve(o)
    BY <1>3, <1>6 DEF Response
  <2>2. ServerTypeOK'
    BY <1>1, <2>1 DEF Serve, OutcomeRecords, ServerTypeOK
  <2> QED
    BY <1>6, <2>2 DEF Response, CasStatusAfterReply, TypeOK
<1>7. ASSUME SessionEndsDuring(call.pkt)
      PROVE  ServerTypeOK'
  <2>1. durable' \in SUBSET Stmts
    BY <1>1, <1>3, <1>7 DEF SessionEndsDuring, OutcomeRecords, ServerTypeOK
  <2> QED
    BY <1>1, <1>2, <1>7, <2>1 DEF SessionEndsDuring, ServerTypeOK
<1>8. CASE SocketError(r)
  BY <1>7, <1>8 DEF SocketError, TypeOK
<1>9. CASE EndOfFile(r)
  BY <1>7, <1>9 DEF EndOfFile, transportVars, TypeOK
<1> QED
  BY <1>4, <1>5, <1>6, <1>8, <1>9 DEF SendAndReceive

\* So are a session that opens and one that ends.
LEMMA SessionType ==
  ASSUME TypeOK
  PROVE  /\ HandshakeOk => /\ ServerTypeOK'
                           /\ connected' \in BOOLEAN /\ socket' \in BOOLEAN
                           /\ casStatus' \in {"ACTIVE", "INACTIVE"}
         /\ HandshakeFails => /\ ServerTypeOK'
                              /\ connected' \in BOOLEAN /\ socket' \in BOOLEAN
                              /\ casStatus' \in {"ACTIVE", "INACTIVE"}
         /\ SessionEnds => ServerTypeOK'
<1>1. NoHandles \in [Handles -> Stmts \cup {None}]
  BY DEF NoHandles
<1> QED
  BY <1>1 DEF HandshakeOk, HandshakeFails, SessionOpens, SessionEnds, serverVars,
              TypeOK, ServerTypeOK

\* A call that ends, however it ends, leaves the connection idle.
LEMMA FinishType ==
  ASSUME Return \/ ReturnFalse \/ Raise
  PROVE  /\ call' = Idle /\ call' \in CallRecords
         /\ ret' \in {"none", "returned", "false", "raised"}
         /\ FetchHasCursor'
<1>1. call' = Idle
  BY DEF Return, ReturnFalse, Raise, Finish
<1>2. call' \in CallRecords
  BY <1>1, BeginType
<1> QED
  BY <1>1, <1>2 DEF Return, ReturnFalse, Raise, Finish, FetchHasCursor, Idle

\* The next request of the same call.
LEMMA SendNextType ==
  ASSUME TypeInv, NEW p \in Packets, SendNext(p)
  PROVE  call' \in CallRecords /\ FetchHasCursor'
  BY DEF SendNext, TypeInv, TypeOK, CallRecords, Steps, FetchHasCursor

\* What a fetch takes from the buffer of its cursor.
LEMMA TakeType ==
  ASSUME TypeInv, NEW op \in {"fetchmany", "fetchall"}, NEW c \in Cursors,
         NEW rows \in Seq(Stmts \X Nat), NEW want \in Nat, Take(op, c, rows, want)
  PROVE  /\ result' \in [Cursors -> ResultRecords]
         /\ call' \in CallRecords /\ FetchHasCursor'
         /\ ret' \in {"none", "returned", "false", "raised"}
<1> DEFINE available == Len(rows) - result[c].index
           take == IF op = "fetchall" THEN available ELSE Min2(available, want)
           index == result[c].index + take
           more == /\ op = "fetchall" \/ take < want
                   /\ handle[c] # None
                   /\ index < result[c].total
           left == IF op = "fetchall" THEN 0 ELSE want - take
<1>1. result[c] \in ResultRecords /\ result[c].index \in Nat
  BY DEF TypeInv, TypeOK, ResultRecords
<1>2. take \in Int /\ index \in Nat
  BY <1>1 DEF Min2
<1>3. more => left \in Nat
  BY <1>2
<1>4. result' = [result EXCEPT ![c] = Moved(result[c], rows, index)]
  BY DEF Take
<1>8. IF more
      THEN /\ call' = [Begin(op, c, FetchPacket(handle[c], index))
                         EXCEPT !.want = left]
           /\ ret' = NoReturn
      ELSE Return
  BY DEF Take
<1> HIDE DEF take, index, more, left
<1>5. result' \in [Cursors -> ResultRecords]
  <2> DEFINE q == Moved(result[c], rows, index)
  <2>2. q \in ResultRecords
    BY <1>1, <1>2 DEF Moved, ResultRecords
  <2>3. result' = [result EXCEPT ![c] = q]
    BY <1>4
  <2> HIDE DEF q
  <2> QED
    BY <2>2, <2>3 DEF TypeInv, TypeOK
<1>6. CASE more
  <2>1. FetchPacket(handle[c], index) \in Packets
    BY <1>2, PacketType DEF TypeInv, TypeOK
  <2>2. /\ Begin(op, c, FetchPacket(handle[c], index)) \in CallRecords
        /\ Begin(op, c, FetchPacket(handle[c], index)).cur = c
    BY <2>1, BeginType DEF Calls, CursorCalls
  <2>3. /\ call' = [Begin(op, c, FetchPacket(handle[c], index)) EXCEPT !.want = left]
        /\ ret' = NoReturn
    BY <1>6, <1>8
  <2>4. call' \in CallRecords /\ call'.cur = c
    BY <1>3, <1>6, <2>2, <2>3 DEF Begin, CallRecords
  <2> QED
    BY <1>5, <2>3, <2>4 DEF NoReturn, FetchHasCursor
<1>7. CASE ~more
  BY <1>5, <1>7, <1>8, FinishType
<1> QED
  BY <1>6, <1>7

\* A stuttering step.
LEMMA TypeStutter ==
  ASSUME TypeInv, UNCHANGED vars
  PROVE  TypeInv'
  BY DEF vars, serverVars, connectionVars, transportVars, cursorVars, TypeInv,
         TypeOK, ServerTypeOK, FetchHasCursor

\* The application's calls.
LEMMA TypeInvocation ==
  ASSUME TypeInv, Invocation
  PROVE  TypeInv'
<1> USE DEF vars, serverVars, connectionVars, transportVars, cursorVars
<1>1. /\ NoPacket \in Packets /\ Idle \in CallRecords
      /\ CheckCasPacket \in Packets
      /\ \A op \in Calls, c \in Cursors \cup {None}, p \in Packets :
           Begin(op, c, p) \in CallRecords /\ Begin(op, c, p).op = op
                                           /\ Begin(op, c, p).cur = c
  BY PacketType, BeginType
<1>2. NoReturn \in {"none", "returned", "false", "raised"}
  BY DEF NoReturn
<1>3. CASE ConnectCall
  <2>1. call' \in CallRecords /\ call'.op = "connect"
    BY <1>1, <1>3 DEF ConnectCall, CallRecords, Calls, ConnectionCalls, Steps
  <2> QED
    BY <1>2, <1>3, <2>1 DEF ConnectCall, TypeInv, TypeOK, ServerTypeOK, FetchHasCursor
<1>4. CASE PingCall
  <2>1. call' \in CallRecords /\ call'.op = "ping"
    <3>1. Begin("ping", None, CheckCasPacket) \in CallRecords
      BY <1>1 DEF Calls, ConnectionCalls, Fcs
    <3>2. ASSUME NEW reconnect \in BOOLEAN,
                 call' = [Begin("ping", None, CheckCasPacket)
                            EXCEPT !.flag = reconnect]
          PROVE  call' \in CallRecords /\ call'.op = "ping"
      BY <3>1, <3>2 DEF Begin, CallRecords
    <3>3. ASSUME call' = [Idle EXCEPT !.op = "ping", !.step = "connect", !.flag = TRUE]
          PROVE  call' \in CallRecords /\ call'.op = "ping"
      BY <1>1, <3>3 DEF CallRecords, Calls, ConnectionCalls, Steps
    <3> QED
      BY <1>4, <3>2, <3>3 DEF PingCall
  <2>2. handle' \in [Cursors -> Handles \cup {None}]
    BY <1>4 DEF PingCall, Invalidated, TypeInv, TypeOK
  <2> QED
    BY <1>2, <1>4, <2>1, <2>2 DEF PingCall, TypeInv, TypeOK, ServerTypeOK, FetchHasCursor
<1>5. CASE EndTranCall
  <2>1. /\ Begin("commit", None, CommitPacket) \in CallRecords
        /\ Begin("rollback", None, RollbackPacket) \in CallRecords
    BY PacketType, BeginType DEF Calls, ConnectionCalls, Fcs
  <2>2. call' \in CallRecords /\ call'.op \in {"commit", "rollback"}
    <3>1. \/ call' = Begin("commit", None, CommitPacket)
          \/ call' = Begin("rollback", None, RollbackPacket)
      BY <1>5 DEF EndTranCall
    <3>2. call' \in CallRecords
      BY <2>1, <3>1
    <3>3. call'.op \in {"commit", "rollback"}
      BY <3>1 DEF Begin
    <3> QED
      BY <3>2, <3>3
  <2> QED
    BY <1>2, <1>5, <2>2 DEF EndTranCall, TypeInv, TypeOK, ServerTypeOK, FetchHasCursor
<1>6. CASE SetAutocommitCall
  <2>1. PICK value \in BOOLEAN :
          call' = [Begin("set_autocommit", None, SetDbParameterPacket(value))
                     EXCEPT !.flag = value]
    BY <1>6 DEF SetAutocommitCall
  <2>2. Begin("set_autocommit", None, SetDbParameterPacket(value)) \in CallRecords
    BY PacketType, BeginType DEF Calls, ConnectionCalls
  <2>3. call' \in CallRecords /\ call'.op = "set_autocommit"
    BY <2>1, <2>2 DEF Begin, CallRecords
  <2> QED
    BY <1>2, <1>6, <2>3 DEF SetAutocommitCall, TypeInv, TypeOK, ServerTypeOK,
                            FetchHasCursor
<1>7. CASE QueryCall
  <2>1. \A s \in Stmts : GetSchemaPacket(s) \in Packets
    BY PacketType
  <2>2. /\ \A p \in Packets :
              /\ Begin("get_server_version", None, p) \in CallRecords
              /\ Begin("get_last_insert_id", None, p) \in CallRecords
              /\ Begin("get_schema_info", None, p) \in CallRecords
        /\ GetEngineVersionPacket \in Packets
        /\ GetLastInsertIdPacket \in Packets
    BY PacketType, BeginType DEF Calls, ConnectionCalls, Fcs
  <2>3. /\ call' \in CallRecords
        /\ call'.op \in {"get_server_version", "get_last_insert_id", "get_schema_info"}
        /\ sent' \in SUBSET Stmts
    <3>1. PICK p \in Packets :
            \/ call' = Begin("get_server_version", None, p)
            \/ call' = Begin("get_last_insert_id", None, p)
            \/ call' = Begin("get_schema_info", None, p)
      BY <1>7, <2>1, <2>2 DEF QueryCall
    <3>2. call' \in CallRecords
      BY <2>2, <3>1
    <3>3. call'.op \in {"get_server_version", "get_last_insert_id", "get_schema_info"}
      BY <3>1 DEF Begin
    <3>4. sent' \in SUBSET Stmts
      BY <1>7 DEF QueryCall, TypeInv, TypeOK
    <3> QED
      BY <3>2, <3>3, <3>4
  <2> QED
    BY <1>2, <1>7, <2>3 DEF QueryCall, TypeInv, TypeOK, ServerTypeOK, FetchHasCursor
<1>8. CASE CloseCall
  <2>1. CASE connected
    <3>1. call' = [Idle EXCEPT !.op = "close", !.step = "loop", !.todo = cursors]
      BY <1>8, <2>1 DEF CloseCall
    <3>2. call' \in CallRecords /\ call'.op = "close"
      BY <1>1, <3>1 DEF CallRecords, Calls, ConnectionCalls, Steps, TypeInv, TypeOK
    <3> QED
      BY <1>2, <1>8, <2>1, <3>2 DEF CloseCall, TypeInv, TypeOK, ServerTypeOK, FetchHasCursor
  <2>2. CASE ~connected
    <3>1. Return
      BY <1>8, <2>2 DEF CloseCall
    <3> QED
      BY <1>8, <3>1, FinishType DEF CloseCall, TypeInv, TypeOK, ServerTypeOK
  <2> QED
    BY <2>1, <2>2
<1>9. ASSUME NEW c \in Cursors, NewCursor(c)
      PROVE  TypeInv'
  <2>1. NoResult \in ResultRecords
    BY DEF NoResult, ResultRecords
  <2> QED
    BY <1>2, <1>9, <2>1 DEF NewCursor, TypeInv, TypeOK, ServerTypeOK, FetchHasCursor
<1>10. ASSUME NEW c \in Cursors, CursorCloseCall(c)
       PROVE  TypeInv'
  <2>1. CASE handle[c] # None /\ connected
    <3>1. CloseQueryPacket(handle[c]) \in Packets
      BY PacketType DEF TypeInv, TypeOK
    <3>2. /\ call' = Begin("cursor_close", c, CloseQueryPacket(handle[c]))
          /\ ret' = NoReturn
      BY <1>10, <2>1 DEF CursorCloseCall
    <3>3. call' \in CallRecords /\ call'.op = "cursor_close"
      BY <1>1, <3>1, <3>2 DEF Calls, CursorCalls
    <3> QED
      BY <1>2, <1>10, <2>1, <3>2, <3>3 DEF CursorCloseCall, TypeInv, TypeOK, ServerTypeOK,
                                     FetchHasCursor
  <2>2. CASE ~(handle[c] # None /\ connected)
    <3>1. CursorClosed(c) /\ Return
      BY <1>10, <2>2 DEF CursorCloseCall
    <3> QED
      BY <1>10, <3>1, FinishType DEF CursorCloseCall, CursorClosed, TypeInv, TypeOK,
                                     ServerTypeOK
  <2> QED
    BY <2>1, <2>2
<1>11. ASSUME NEW c \in Cursors, ExecuteCall(c)
       PROVE  TypeInv'
  <2>1. PICK s \in Stmts :
          /\ sent' = sent \cup {s}
          /\ call' = [Begin("execute", c,
                            IF handle[c] # None THEN CloseQueryPacket(handle[c])
                            ELSE PrepareAndExecutePacket(s, autocommit))
                        EXCEPT !.stmts = {s}]
    BY <1>11 DEF ExecuteCall
  <2> DEFINE p == IF handle[c] # None THEN CloseQueryPacket(handle[c])
                  ELSE PrepareAndExecutePacket(s, autocommit)
  <2>2. p \in Packets
    BY PacketType DEF TypeInv, TypeOK
  <2>3. Begin("execute", c, p) \in CallRecords
    BY <1>1, <2>2 DEF Calls, CursorCalls
  <2>4. call' \in CallRecords /\ call'.op = "execute"
    BY <2>1, <2>3 DEF Begin, CallRecords
  <2> QED
    BY <1>2, <1>11, <2>1, <2>4 DEF ExecuteCall, TypeInv, TypeOK, ServerTypeOK,
                                   FetchHasCursor
<1>12. ASSUME NEW c \in Cursors, ExecutemanyBatchCall(c)
       PROVE  TypeInv'
  <2>1. PICK ss \in SUBSET Stmts, ac \in BOOLEAN :
          /\ sent' = sent \cup ss
          /\ call' = [Begin("executemany_batch", c, BatchExecutePacket(ss, ac))
                        EXCEPT !.stmts = ss]
    BY <1>12 DEF ExecutemanyBatchCall
  <2>2. BatchExecutePacket(ss, ac) \in Packets
    BY PacketType
  <2>3. Begin("executemany_batch", c, BatchExecutePacket(ss, ac)) \in CallRecords
    BY <1>1, <2>2 DEF Calls, CursorCalls
  <2>4. call' \in CallRecords /\ call'.op = "executemany_batch"
    BY <2>1, <2>3 DEF Begin, CallRecords
  <2> QED
    BY <1>2, <1>12, <2>1, <2>4 DEF ExecutemanyBatchCall, TypeInv, TypeOK,
                                   ServerTypeOK, FetchHasCursor
<1>13. ASSUME NEW c \in Cursors, FetchmanyCall(c)
       PROVE  TypeInv'
  <2>1. PICK n \in Nat : Take("fetchmany", c, result[c].rows, n)
    BY <1>13, WantSizesAssumption DEF FetchmanyCall
  <2> QED
    BY <1>13, <2>1, TakeType DEF FetchmanyCall, TypeInv, TypeOK, ServerTypeOK,
                                 ResultRecords
<1>14. ASSUME NEW c \in Cursors, FetchallCall(c)
       PROVE  TypeInv'
  BY <1>14, TakeType DEF FetchallCall, TypeInv, TypeOK, ServerTypeOK, ResultRecords
<1> QED
  BY <1>3, <1>4, <1>5, <1>6, <1>7, <1>8, <1>9, <1>10, <1>11, <1>12, <1>13, <1>14
     DEF Invocation

\* The step of a call under way may be replaced, and its packet.
LEMMA CallStepType ==
  ASSUME TypeInv, NEW st \in Steps
  PROVE  /\ [call EXCEPT !.step = st] \in CallRecords
         /\ [call EXCEPT !.step = st, !.pkt = NoPacket] \in CallRecords
         /\ call' \in {[call EXCEPT !.step = st],
                       [call EXCEPT !.step = st, !.pkt = NoPacket],
                       [call EXCEPT !.pkt = NoPacket, !.step = st]}
              => call' \in CallRecords /\ FetchHasCursor'
  BY PacketType DEF TypeInv, TypeOK, CallRecords, FetchHasCursor

\* The steps of the driver's code.
LEMMA TypeDriverStep ==
  ASSUME TypeInv, DriverStep
  PROVE  TypeInv'
<1> USE DEF vars, connectionVars, transportVars, cursorVars, NoCursorChange
<1>1. ASSUME NEW r \in PossibleReplies, SendAndReceive(r)
      PROVE  /\ ServerTypeOK'
             /\ connected' \in BOOLEAN /\ socket' \in BOOLEAN
             /\ casStatus' \in {"ACTIVE", "INACTIVE"}
             /\ r \in Replies
  BY <1>1, SendAndReceiveType, PossibleRepliesType DEF TypeInv
<1>2. Invalidated \in [Cursors -> Handles \cup {None}]
  BY DEF Invalidated, TypeInv, TypeOK
<1>3. \A h \in Handles \cup {None} :
        [handle EXCEPT ![call.cur] = h] \in [Cursors -> Handles \cup {None}]
  BY DEF TypeInv, TypeOK
<1>4. ASSUME NEW c, CursorClosed(c)
      PROVE  /\ handle' \in [Cursors -> Handles \cup {None}]
             /\ closed' \in [Cursors -> BOOLEAN]
             /\ cursors' \in SUBSET Cursors
             /\ result' \in [Cursors -> ResultRecords]
             /\ lastrowid' \in [Cursors -> Stmts \cup {None}]
  BY <1>4 DEF CursorClosed, TypeInv, TypeOK
<1>5. CASE CheckReconnect
  <2>1. call' \in CallRecords /\ FetchHasCursor'
    BY <1>5, CallStepType DEF CheckReconnect, Steps
  <2> QED
    BY <1>2, <1>5, <2>1, SessionType DEF CheckReconnect, DropConnection, TypeInv, TypeOK
<1>6. CASE Reconnected
  <2>1. call' \in CallRecords /\ FetchHasCursor'
    BY <1>6, CallStepType DEF Reconnected, Steps
  <2> QED
    BY <1>6, <2>1, SessionType DEF Reconnected, TypeInv, TypeOK
<1>7. CASE ConnectDone
  BY <1>7, SessionType, FinishType DEF ConnectDone, TypeInv, TypeOK
<1>8. CASE PingReply
  <2>1. PICK r \in PossibleReplies :
          /\ SendAndReceive(r)
          /\ \/ Return \/ ReturnFalse \/ Raise
             \/ /\ call' = [call EXCEPT !.step = "cleanup", !.pkt = NoPacket]
                /\ UNCHANGED ret
    BY <1>8 DEF PingReply
  <2>2. call' \in CallRecords /\ FetchHasCursor'
    BY <2>1, FinishType, CallStepType DEF Steps
  <2>3. ret' \in {"none", "returned", "false", "raised"}
    BY <2>1, FinishType DEF TypeInv, TypeOK
  <2> QED
    BY <1>1, <1>8, <2>1, <2>2, <2>3 DEF PingReply, TypeInv, TypeOK
<1>9. CASE PingDrop
  <2>1. call' \in CallRecords /\ FetchHasCursor'
    BY <1>9, CallStepType DEF PingDrop, Steps
  <2> QED
    BY <1>2, <1>9, <2>1, SessionType DEF PingDrop, DropConnection, TypeInv, TypeOK
<1>10. CASE PingConnect
  BY <1>10, SessionType, FinishType DEF PingConnect, TypeInv, TypeOK
<1>11. CASE EndTranReply
  <2>1. PICK r \in PossibleReplies :
          /\ SendAndReceive(r)
          /\ IF r.st = "ok" THEN handle' = Invalidated /\ Return /\ acked' = {}
             ELSE Raise /\ UNCHANGED <<handle, acked>>
    BY <1>11 DEF EndTranReply
  <2> QED
    BY <1>1, <1>2, <1>11, <2>1, FinishType DEF EndTranReply, TypeInv, TypeOK
<1>12. CASE SetAutocommitReply
  <2>1. PICK r \in PossibleReplies : SendAndReceive(r)
    BY <1>12 DEF SetAutocommitReply
  <2>2. /\ \/ SendNext(CommitPacket) /\ UNCHANGED ret
           \/ Return \/ Raise
        /\ autocommit' \in {autocommit, call.flag}
        /\ acked' \in {acked, {}}
    BY <1>12 DEF SetAutocommitReply
  <2>3. CommitPacket \in Packets
    BY PacketType DEF Fcs
  <2>4. call' \in CallRecords /\ FetchHasCursor'
    BY <2>2, <2>3, FinishType, SendNextType
  <2>5. ret' \in {"none", "returned", "false", "raised"}
    BY <2>2, FinishType DEF TypeInv, TypeOK
  <2>6. autocommit' \in BOOLEAN /\ acked' \in SUBSET Stmts
    BY <2>2 DEF TypeInv, TypeOK, CallRecords
  <2> QED
    BY <1>1, <1>12, <2>1, <2>4, <2>5, <2>6 DEF SetAutocommitReply, TypeInv, TypeOK
<1>13. CASE QueryReply
  <2>1. PICK r \in PossibleReplies :
          /\ SendAndReceive(r)
          /\ Return \/ Raise
    BY <1>13 DEF QueryReply
  <2>2. call' = Idle /\ call' \in CallRecords /\ FetchHasCursor'
    <3>1. call' = Idle
      BY <2>1, FinishType
    <3>2. FetchHasCursor'
      BY <3>1 DEF FetchHasCursor, Idle
    <3> QED
      BY <3>1, <3>2, BeginType
  <2>3. ret' \in {"none", "returned", "false", "raised"}
    BY <1>1, <2>1, FinishType DEF Replies
  <2> QED
    BY <1>1, <1>13, <2>1, <2>2, <2>3 DEF QueryReply, TypeInv, TypeOK
<1>14. ASSUME NEW c \in Cursors, CloseCursor(c)
       PROVE  TypeInv'
  <2>1. CASE handle[c] # None /\ connected
    <3>1. call' = [call EXCEPT !.cur = c, !.step = "send",
                               !.pkt = CloseQueryPacket(handle[c])]
      BY <1>14, <2>1 DEF CloseCursor
    <3>2. CloseQueryPacket(handle[c]) \in Packets
      BY PacketType DEF TypeInv, TypeOK
    <3>3. call' \in CallRecords /\ FetchHasCursor'
      BY <3>1, <3>2 DEF TypeInv, TypeOK, CallRecords, Steps, FetchHasCursor
    <3> QED
      BY <1>14, <2>1, <3>3 DEF CloseCursor, serverVars, TypeInv, TypeOK, ServerTypeOK
  <2>2. CASE ~(handle[c] # None /\ connected)
    <3>1. CursorClosed(c) /\ call' = [call EXCEPT !.todo = @ \ {c}]
      BY <1>14, <2>2 DEF CloseCursor
    <3>2. call' \in CallRecords /\ FetchHasCursor'
      BY <3>1 DEF TypeInv, TypeOK, CallRecords, FetchHasCursor
    <3> QED
      BY <1>4, <1>14, <3>1, <3>2 DEF CloseCursor, serverVars, TypeInv, TypeOK,
                                     ServerTypeOK
  <2> QED
    BY <2>1, <2>2
<1>15. CASE CloseCursorReply
  <2>1. PICK r \in PossibleReplies : SendAndReceive(r)
    BY <1>15 DEF CloseCursorReply
  <2>2. CursorClosed(call.cur)
    BY <1>15 DEF CloseCursorReply
  <2>3. call' \in CallRecords /\ call'.op = "close"
    <3>1. call' = [call EXCEPT !.todo = call.todo \ {call.cur}, !.cur = None,
                               !.pkt = NoPacket, !.step = "loop"]
      BY <1>15 DEF CloseCursorReply
    <3>2. NoPacket \in Packets /\ call.op = "close"
      BY <1>15, PacketType DEF CloseCursorReply
    <3> QED
      BY <3>1, <3>2 DEF TypeInv, TypeOK, CallRecords, Steps
  <2> QED
    BY <1>1, <1>4, <1>15, <2>1, <2>2, <2>3 DEF CloseCursorReply, TypeInv, TypeOK,
                                               FetchHasCursor
<1>16. CASE CloseDatabase
  <2>1. CloseDatabasePacket \in Packets
    BY PacketType DEF Fcs
  <2>2. call' \in CallRecords /\ FetchHasCursor'
    BY <1>16, <2>1, SendNextType DEF CloseDatabase
  <2> QED
    BY <1>16, <2>2 DEF CloseDatabase, serverVars, TypeInv, TypeOK, ServerTypeOK
<1>17. CASE CloseDatabaseReply
  <2>1. PICK r \in PossibleReplies : SendAndReceive(r)
    BY <1>17 DEF CloseDatabaseReply
  <2>2. call' \in CallRecords /\ FetchHasCursor'
    BY <1>17, CallStepType DEF CloseDatabaseReply, Steps
  <2> QED
    BY <1>1, <1>17, <2>1, <2>2 DEF CloseDatabaseReply, TypeInv, TypeOK
<1>18. CASE CloseSocket
  BY <1>18, SessionType, FinishType DEF CloseSocket, TypeInv, TypeOK
<1>19. CASE CursorCloseReply
  <2>1. PICK r \in PossibleReplies : SendAndReceive(r) /\ (Return \/ Raise)
    BY <1>19 DEF CursorCloseReply
  <2>2. CursorClosed(call.cur)
    BY <1>19 DEF CursorCloseReply
  <2> QED
    BY <1>1, <1>4, <1>19, <2>1, <2>2, FinishType DEF CursorCloseReply, TypeInv, TypeOK
<1>20. CASE ExecuteCloseReply
  <2>1. PICK r \in PossibleReplies : SendAndReceive(r)
    BY <1>20 DEF ExecuteCloseReply
  <2>2. /\ \/ Raise
           \/ /\ \E s \in call.stmts : SendNext(PrepareAndExecutePacket(s, autocommit))
              /\ UNCHANGED ret
        /\ handle' \in {handle, [handle EXCEPT ![call.cur] = None]}
    BY <1>20 DEF ExecuteCloseReply
  <2>3. \A s \in call.stmts : PrepareAndExecutePacket(s, autocommit) \in Packets
    BY PacketType DEF TypeInv, TypeOK, CallRecords
  <2>4. call' \in CallRecords /\ FetchHasCursor'
    BY <2>2, <2>3, FinishType, SendNextType
  <2>5. ret' \in {"none", "returned", "false", "raised"}
    BY <2>2, FinishType DEF TypeInv, TypeOK
  <2>6. handle' \in [Cursors -> Handles \cup {None}]
    BY <1>3, <2>2 DEF TypeInv, TypeOK
  <2> QED
    BY <1>1, <1>20, <2>1, <2>4, <2>5, <2>6 DEF ExecuteCloseReply, TypeInv, TypeOK
<1>21. CASE ExecuteReply
  <2>1. PICK r \in PossibleReplies :
          /\ SendAndReceive(r)
          /\ \/ /\ r.st = "ok"
                /\ \E s \in r.done :
                     /\ handle' = [handle EXCEPT ![call.cur] = r.h]
                     /\ result' = [result EXCEPT ![call.cur] = ResultOf(s, r.rows)]
                     /\ lastrowid' = [lastrowid EXCEPT ![call.cur] = None]
                     /\ acked' = acked \cup Dml({s})
                     /\ IF AsksLastRowId(s)
                        THEN SendNext(GetLastInsertIdPacket) /\ UNCHANGED ret
                        ELSE Return
             \/ r.st # "ok" /\ Raise /\ UNCHANGED <<handle, result, lastrowid, acked>>
    BY <1>21 DEF ExecuteReply
  <2>2. r \in Replies
    BY <1>1, <2>1
  <2>3. GetLastInsertIdPacket \in Packets
    BY PacketType DEF Fcs
  <2>4. call' \in CallRecords /\ FetchHasCursor'
    BY <2>1, <2>3, FinishType, SendNextType
  <2>5. ret' \in {"none", "returned", "false", "raised"}
    BY <2>1, FinishType DEF TypeInv, TypeOK
  <2>6. \A s \in r.done : ResultOf(s, r.rows) \in ResultRecords
    BY <2>2, SizeAssumption DEF ResultOf, ResultRecords, Replies
  <2>7. /\ handle' \in [Cursors -> Handles \cup {None}]
        /\ result' \in [Cursors -> ResultRecords]
        /\ lastrowid' \in [Cursors -> Stmts \cup {None}]
        /\ acked' \in SUBSET Stmts
    <3>1. CASE /\ handle' = handle /\ result' = result /\ lastrowid' = lastrowid
               /\ acked' = acked
      BY <3>1 DEF TypeInv, TypeOK
    <3>2. ASSUME NEW s \in r.done,
                 /\ handle' = [handle EXCEPT ![call.cur] = r.h]
                 /\ result' = [result EXCEPT ![call.cur] = ResultOf(s, r.rows)]
                 /\ lastrowid' = [lastrowid EXCEPT ![call.cur] = None]
                 /\ acked' = acked \cup Dml({s})
          PROVE  <2>7!:
      <4>1. s \in Stmts /\ r.h \in Handles \cup {None}
        BY <2>2 DEF Replies
      <4>2. Dml({s}) \in SUBSET Stmts
        BY <4>1 DEF Dml
      <4> QED
        BY <2>6, <3>2, <4>1, <4>2 DEF TypeInv, TypeOK
    <3> QED
      BY <2>1, <3>1, <3>2
  <2> QED
    BY <1>1, <1>21, <2>1, <2>4, <2>5, <2>7 DEF ExecuteReply, TypeInv, TypeOK
<1>22. CASE LastRowIdReply
  <2>1. PICK r \in PossibleReplies :
          /\ SendAndReceive(r)
          /\ lastrowid' = [lastrowid EXCEPT ![call.cur] = r.id]
          /\ CASE r.st \in {"ok", "operr"} -> Return
               [] r.st = "error" -> Raise
               [] r.st = "unparsed" -> Return \/ Raise
    BY <1>22 DEF LastRowIdReply
  <2>2. r \in Replies
    BY <1>1, <2>1
  <2>3. Return \/ Raise
    BY <2>1, <2>2 DEF Replies, ReplyStates
  <2>4. lastrowid' \in [Cursors -> Stmts \cup {None}]
    BY <2>1, <2>2 DEF TypeInv, TypeOK, Replies
  <2> QED
    BY <1>1, <1>22, <2>1, <2>3, <2>4, FinishType DEF LastRowIdReply, TypeInv, TypeOK
<1>23. CASE ExecutemanyBatchReply
  <2>1. PICK r \in PossibleReplies :
          /\ SendAndReceive(r)
          /\ IF r.st = "ok"
             THEN /\ result' = [result EXCEPT ![call.cur] = WithoutRows(@)]
                  /\ handle' = [handle EXCEPT ![call.cur] = None]
                  /\ acked' = acked \cup Dml(r.done)
                  /\ Return
             ELSE Raise /\ UNCHANGED <<handle, result, acked>>
    BY <1>23 DEF ExecutemanyBatchReply
  <2>2. r \in Replies
    BY <1>1, <2>1
  <2>3. <<>> \in Seq(Stmts \X Nat)
    OBVIOUS
  <2>4. result' \in [Cursors -> ResultRecords]
    <3>1. \A res \in ResultRecords : WithoutRows(res) \in ResultRecords
      BY <2>3 DEF WithoutRows, ResultRecords
    <3> QED
      BY <2>1, <3>1 DEF TypeInv, TypeOK
  <2>5. /\ handle' \in [Cursors -> Handles \cup {None}]
        /\ acked' \in SUBSET Stmts
    BY <1>3, <2>1, <2>2 DEF TypeInv, TypeOK, Replies, Dml
  <2> QED
    BY <1>1, <1>23, <2>1, <2>4, <2>5, FinishType DEF ExecutemanyBatchReply, TypeInv, TypeOK
<1>24. CASE FetchReply
  <2>1. PICK r \in PossibleReplies :
          /\ SendAndReceive(r)
          /\ \/ Take(call.op, call.cur, result[call.cur].rows \o r.rows, call.want)
             \/ (Return \/ Raise) /\ UNCHANGED result
    BY <1>24 DEF FetchReply
  <2>2. r \in Replies /\ call.cur \in Cursors
    BY <1>1, <1>24, <2>1 DEF FetchReply, TypeInv, FetchHasCursor
  <2>3. result[call.cur].rows \o r.rows \in Seq(Stmts \X Nat)
    BY <2>2 DEF TypeInv, TypeOK, ResultRecords, Replies
  <2>4. call.want \in Nat
    BY DEF TypeInv, TypeOK, CallRecords
  <2>5. /\ result' \in [Cursors -> ResultRecords]
        /\ call' \in CallRecords /\ FetchHasCursor'
        /\ ret' \in {"none", "returned", "false", "raised"}
    <3>1. CASE Take(call.op, call.cur, result[call.cur].rows \o r.rows, call.want)
      BY <1>24, <2>2, <2>3, <2>4, <3>1, TakeType DEF FetchReply
    <3>2. CASE (Return \/ Raise) /\ UNCHANGED result
      BY <3>2, FinishType DEF TypeInv, TypeOK
    <3> QED
      BY <2>1, <3>1, <3>2
  <2> QED
    BY <1>1, <1>24, <2>1, <2>5 DEF FetchReply, TypeInv, TypeOK
<1> QED
  BY <1>5, <1>6, <1>7, <1>8, <1>9, <1>10, <1>11, <1>12, <1>13, <1>14, <1>15, <1>16,
     <1>17, <1>18, <1>19, <1>20, <1>21, <1>22, <1>23, <1>24
     DEF DriverStep

\* The initial states are well typed.
LEMMA InitType == Init => TypeInv
<1> SUFFICES ASSUME Init
             PROVE  TypeInv
  OBVIOUS
<1>1. NoResult \in ResultRecords
  BY DEF NoResult, ResultRecords
<1>2. call = Idle /\ call \in CallRecords
  BY BeginType DEF Init
<1>3. ServerTypeOK
  BY DEF Init, ServerInit, ServerTypeOK, NoHandles
<1> QED
  BY <1>1, <1>2, <1>3
     DEF Init, TypeInv, TypeOK, NoReturn, FetchHasCursor, Idle

\* Every step keeps the variables well typed.
LEMMA TypeStep == TypeInv /\ [Next]_vars => TypeInv'
<1>1. ASSUME TypeInv, SessionLost
      PROVE  TypeInv'
  BY <1>1, SessionType
     DEF SessionLost, connectionVars, transportVars, cursorVars, TypeInv, TypeOK,
         FetchHasCursor
<1> QED
  BY <1>1, TypeInvocation, TypeDriverStep, TypeStutter DEF Next

\* The variables always have their types: what the server answers, what the
\* driver stores of it and what it sends next.
THEOREM TypeCorrect == Spec => []TypeOK
  BY InitType, TypeStep, PTL DEF Spec, TypeInv
=============================================================================
