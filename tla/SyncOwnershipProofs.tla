------------------------ MODULE SyncOwnershipProofs ------------------------
(***************************************************************************)
(* What a cursor of the synchronous driver holds is its own: lastrowid,    *)
(* the query handle, the rows; close() leaves nothing behind; and what the *)
(* fetches hand over is what ResultSets.tla promises.  For every value of  *)
(* the constants.                                                          *)
(***************************************************************************)
EXTENDS SyncDurabilityProofs

(***************************************************************************)
(* Part 1, for every choice of public calls.  A cursor that is not tracked *)
(* is closed and has no handle; a close() still has every tracked cursor   *)
(* before it, and none when it comes to CLOSE_DATABASE.  While execute()   *)
(* asks for an identifier, the session has that of the cursor's statement, *)
(* or none.                                                                *)
(***************************************************************************)
CursorOps == {"cursor_close", "execute", "executemany_batch", "fetchmany", "fetchall"}

CallHasCursor ==
  call.op \in CursorOps \/ (call.op = "close" /\ call.pkt.fc = "CloseQuery")
    => call.cur \in cursors

Tracked ==
  /\ \A c \in Cursors \ cursors : closed[c] /\ handle[c] = None
  /\ call.op = "close" =>
       /\ cursors \subseteq call.todo
       /\ call.step = "loop" => call.pkt.fc = "None"
       /\ call.pkt.fc = "CloseDatabase" \/ call.step = "cleanup" => cursors = {}

IdAsked ==
  call.op = "execute" /\ call.pkt.fc = "GetLastInsertId" /\ up
    => lastId \in {None, result[call.cur].stmt}

TrackInv == CommitInv /\ CallHasCursor /\ Tracked /\ IdAsked /\ LastRowIdOwned

\* The parts of a packet and of a call that begins.
LEMMA Parts ==
  /\ \A h : CloseQueryPacket(h).h = h
  /\ \A h, n : FetchPacket(h, n).h = h /\ FetchPacket(h, n).from = n + 1
  /\ \A s, ac : PrepareAndExecutePacket(s, ac).stmts = {s}
  /\ \A op, c, p : Begin(op, c, p).cur = c
  /\ Idle.cur = None /\ Idle.todo = {}
  BY PacketFields DEF Begin, Idle

\* A call that ends leaves the connection idle.
LEMMA Ends ==
  ASSUME Return \/ ReturnFalse \/ Raise
  PROVE  /\ call' = Idle
         /\ call'.op = "none" /\ call'.step = "idle" /\ call'.pkt.fc = "None"
  BY Fields DEF Return, ReturnFalse, Raise, Finish

(***************************************************************************)
(* How a step may leave the conjuncts of TrackInv alone.                   *)
(***************************************************************************)
\* The cursors' variables do not change, and the call is over or has begun or
\* goes on without a cursor of its own.
LEMMA TrackedKept ==
  ASSUME Tracked,
         /\ closed' = closed /\ cursors' = cursors
         /\ \A c \in Cursors : handle'[c] \in {handle[c], None},
         call'.op = "close" =>
           /\ cursors \subseteq call'.todo
           /\ call'.step = "loop" => call'.pkt.fc = "None"
           /\ call'.pkt.fc = "CloseDatabase" \/ call'.step = "cleanup" => cursors = {}
  PROVE  Tracked'
  BY DEF Tracked

\* A cursor that is closed is no longer tracked.
LEMMA TrackedClosed ==
  ASSUME TypeInv, Tracked, NEW c \in Cursors, CursorClosed(c),
         call'.op = "close" =>
           /\ cursors \ {c} \subseteq call'.todo
           /\ call'.step = "loop" => call'.pkt.fc = "None"
           /\ call'.pkt.fc # "CloseDatabase" /\ call'.step # "cleanup"
  PROVE  Tracked' /\ (LastRowIdOwned => LastRowIdOwned')
<1>1. Tracked'
  BY DEF TypeInv, TypeOK, CursorClosed, Tracked
<1> QED
  BY <1>1 DEF CursorClosed, LastRowIdOwned

\* A call that ends.
LEMMA TrackEnd ==
  ASSUME call' = Idle
  PROVE  CallHasCursor' /\ IdAsked'
  BY Fields DEF CallHasCursor, IdAsked, CursorOps

(***************************************************************************)
(* What a fetch takes from a buffer and asks for: it moves on in the rows  *)
(* it was given, and asks for more at their end only.                      *)
(***************************************************************************)
TakeTo(op, c, rows, index) ==
  /\ result' = [result EXCEPT ![c] = Moved(result[c], rows, index)]
  /\ result[c].index <= Len(rows) => index <= Len(rows)
  /\ \/ Return
     \/ /\ call'.op = op /\ call'.cur = c /\ call'.step = "send"
        /\ call'.pkt = FetchPacket(handle[c], index)
        /\ result[c].index <= Len(rows) => index = Len(rows)

\* A fetch takes the buffer up to some row.
LEMMA TakeParts ==
  ASSUME TypeInv, NEW op \in {"fetchmany", "fetchall"}, NEW c \in Cursors,
         NEW rows \in Seq(Stmts \X Nat), NEW want \in Nat, Take(op, c, rows, want)
  PROVE  \E index \in Nat : TakeTo(op, c, rows, index)
<1> DEFINE available == Len(rows) - result[c].index
           take == IF op = "fetchall" THEN available ELSE Min2(available, want)
           index == result[c].index + take
           more == /\ op = "fetchall" \/ take < want
                   /\ handle[c] # None
                   /\ index < result[c].total
           left == IF op = "fetchall" THEN 0 ELSE want - take
<1>1. result[c].index \in Nat /\ Len(rows) \in Nat
  BY DEF TypeInv, TypeOK, ResultRecords
<1>2. index \in Nat
  BY <1>1 DEF Min2
<1>3. /\ result[c].index <= Len(rows) => index <= Len(rows)
      /\ result[c].index <= Len(rows) /\ more => index = Len(rows)
  BY <1>1 DEF Min2
<1>4. result' = [result EXCEPT ![c] = Moved(result[c], rows, index)]
  BY DEF Take
<1>5. IF more
      THEN call' = [Begin(op, c, FetchPacket(handle[c], index)) EXCEPT !.want = left]
      ELSE Return
  BY DEF Take
<1> HIDE DEF take, index, more, left
<1>6. more => /\ call'.op = op /\ call'.cur = c /\ call'.step = "send"
              /\ call'.pkt = FetchPacket(handle[c], index)
  BY <1>5 DEF Begin
<1>7. TakeTo(op, c, rows, index)
  BY <1>3, <1>4, <1>5, <1>6 DEF TakeTo
<1> QED
  BY <1>2, <1>7

\* A fetch changes the rows of its cursor, not its statement.
LEMMA TrackTake ==
  ASSUME TrackInv, NEW op \in {"fetchmany", "fetchall"}, NEW c \in cursors,
         NEW rows \in Seq(Stmts \X Nat), NEW want \in Nat, Take(op, c, rows, want),
         UNCHANGED <<cursors, closed, handle, lastrowid>>
  PROVE  CallHasCursor' /\ Tracked' /\ IdAsked' /\ LastRowIdOwned'
<1>t. TypeInv /\ Tracked /\ LastRowIdOwned /\ cursors \subseteq Cursors
  BY DEF TrackInv, CommitInv, TypeInv, TypeOK
<1>1. PICK index \in Nat : TakeTo(op, c, rows, index)
  BY <1>t, TakeParts
<1>2. \A d \in Cursors : result'[d].stmt = result[d].stmt
  BY <1>t, <1>1 DEF TakeTo, Moved, TypeInv, TypeOK
<1>3. LastRowIdOwned'
  BY <1>t, <1>2 DEF LastRowIdOwned
<1>4. CASE Return
  BY <1>t, <1>3, <1>4, Ends, TrackEnd DEF Tracked
<1>5. CASE call'.op = op /\ call'.cur = c
  BY <1>t, <1>3, <1>5 DEF Tracked, CallHasCursor, IdAsked
<1> QED
  BY <1>1, <1>4, <1>5 DEF TakeTo

\* The application's calls.
LEMMA TrackInvocation ==
  ASSUME TrackInv, Invocation
  PROVE  CallHasCursor' /\ Tracked' /\ IdAsked' /\ LastRowIdOwned'
<1> USE DEF connectionVars, cursorVars
<1>t. /\ TypeInv /\ Tracked /\ LastRowIdOwned /\ CallHasCursor
      /\ \A c \in Cursors : ~closed[c] => c \in cursors
  BY DEF TrackInv, CommitInv, Tracked
<1>1. ASSUME call'.op \notin CursorOps \cup {"close"}, UNCHANGED <<cursors, closed, result, lastrowid>>,
             \A c \in Cursors : handle'[c] \in {handle[c], None}
      PROVE  CallHasCursor' /\ Tracked' /\ IdAsked' /\ LastRowIdOwned'
  BY <1>t, <1>1 DEF CallHasCursor, Tracked, IdAsked, CursorOps, LastRowIdOwned
<1>2. CASE ConnectCall
  <2>1. call'.op = "connect"
    BY <1>2 DEF ConnectCall, Idle
  <2> QED
    BY <1>1, <1>2, <2>1 DEF ConnectCall, CursorOps
<1>3. CASE PingCall
  <2>1. call'.op = "ping"
    BY <1>3 DEF PingCall, Begin, Idle
  <2>2. \A c \in Cursors : handle'[c] \in {handle[c], None}
    BY <1>3 DEF PingCall, Invalidated
  <2> QED
    BY <1>1, <1>3, <2>1, <2>2 DEF PingCall, CursorOps
<1>4. CASE EndTranCall
  <2>1. call'.op \in {"commit", "rollback"}
    BY <1>4, Fields DEF EndTranCall
  <2> QED
    BY <1>1, <1>4, <2>1 DEF EndTranCall, CursorOps
<1>5. CASE SetAutocommitCall
  <2>1. call'.op = "set_autocommit"
    BY <1>5 DEF SetAutocommitCall, Begin
  <2> QED
    BY <1>1, <1>5, <2>1 DEF SetAutocommitCall, CursorOps
<1>6. CASE QueryCall
  <2>1. call'.op \in {"get_server_version", "get_last_insert_id", "get_schema_info"}
    BY <1>6, Fields DEF QueryCall
  <2> QED
    BY <1>1, <1>6, <2>1 DEF QueryCall, CursorOps
<1>7. CASE CloseCall
  <2>1. CASE connected
    <3>1. call' = [Idle EXCEPT !.op = "close", !.step = "loop", !.todo = cursors]
      BY <1>7, <2>1 DEF CloseCall
    <3>2. /\ call'.op = "close" /\ call'.step = "loop" /\ call'.pkt = NoPacket
          /\ call'.todo = cursors
      BY <3>1 DEF Idle
    <3> QED
      BY <1>t, <1>7, <3>2, Fields
         DEF CloseCall, CallHasCursor, Tracked, IdAsked, CursorOps, LastRowIdOwned
  <2>2. CASE ~connected
    <3>1. Return
      BY <1>7, <2>2 DEF CloseCall
    <3> QED
      BY <1>1, <1>7, <3>1, Ends DEF CloseCall, CursorOps
  <2> QED
    BY <2>1, <2>2
<1>8. ASSUME NEW c \in Cursors, NewCursor(c)
      PROVE  CallHasCursor' /\ Tracked' /\ IdAsked' /\ LastRowIdOwned'
  <2>1. call.op = "none" /\ call' = call
    BY <1>8 DEF NewCursor, Invoke, TrackInv, CommitInv, CallShape
  <2>2. /\ \A d \in Cursors \ {c} : /\ closed'[d] = closed[d] /\ handle'[d] = handle[d]
                                   /\ result'[d] = result[d] /\ lastrowid'[d] = lastrowid[d]
        /\ cursors' = cursors \cup {c} /\ lastrowid'[c] = None
    BY <1>8, <1>t DEF NewCursor, TypeInv, TypeOK
  <2> QED
    BY <1>t, <2>1, <2>2 DEF CallHasCursor, Tracked, IdAsked, CursorOps, LastRowIdOwned
<1>9. ASSUME NEW c \in Cursors, CursorCloseCall(c)
      PROVE  CallHasCursor' /\ Tracked' /\ IdAsked' /\ LastRowIdOwned'
  <2>1. CASE handle[c] # None /\ connected
    <3>1. /\ call' = Begin("cursor_close", c, CloseQueryPacket(handle[c]))
          /\ UNCHANGED <<cursors, cursorVars>>
      BY <1>9, <2>1 DEF CursorCloseCall
    <3>2. c \in cursors
      BY <1>9, <1>t DEF CursorCloseCall
    <3> QED
      BY <1>t, <3>1, <3>2, Fields, Parts DEF CallHasCursor, Tracked, IdAsked, CursorOps, LastRowIdOwned
  <2>2. CASE ~(handle[c] # None /\ connected)
    <3>1. CursorClosed(c) /\ Return
      BY <1>9, <2>2 DEF CursorCloseCall
    <3> QED
      BY <1>t, <3>1, Ends, TrackEnd, TrackedClosed
  <2> QED
    BY <2>1, <2>2
<1>10. ASSUME NEW c \in Cursors, ExecuteCall(c)
       PROVE  CallHasCursor' /\ Tracked' /\ IdAsked' /\ LastRowIdOwned'
  <2>1. PICK s \in Stmts :
          call' = [Begin("execute", c, IF handle[c] # None THEN CloseQueryPacket(handle[c])
                                       ELSE PrepareAndExecutePacket(s, autocommit))
                     EXCEPT !.stmts = {s}]
    BY <1>10 DEF ExecuteCall
  <2>2. /\ call'.op = "execute" /\ call'.cur = c
        /\ call'.pkt \in {CloseQueryPacket(handle[c]),
                          PrepareAndExecutePacket(s, autocommit)}
    BY <2>1 DEF Begin
  <2> QED
    BY <1>t, <1>10, <2>2, Fields
       DEF ExecuteCall, CallHasCursor, Tracked, IdAsked, CursorOps, LastRowIdOwned
<1>11. ASSUME NEW c \in Cursors, ExecutemanyBatchCall(c)
       PROVE  CallHasCursor' /\ Tracked' /\ IdAsked' /\ LastRowIdOwned'
  <2>1. call'.op = "executemany_batch" /\ call'.cur = c
    BY <1>11 DEF ExecutemanyBatchCall, Begin
  <2> QED
    BY <1>t, <1>11, <2>1
       DEF ExecutemanyBatchCall, CallHasCursor, Tracked, IdAsked, CursorOps, LastRowIdOwned
<1>12. ASSUME NEW c \in Cursors, FetchmanyCall(c) \/ FetchallCall(c)
       PROVE  CallHasCursor' /\ Tracked' /\ IdAsked' /\ LastRowIdOwned'
  <2>1. PICK op \in {"fetchmany", "fetchall"}, n \in Nat : Take(op, c, result[c].rows, n)
    BY <1>12, WantSizesAssumption DEF FetchmanyCall, FetchallCall
  <2>2. result[c].rows \in Seq(Stmts \X Nat)
    BY <1>t DEF TypeInv, TypeOK, ResultRecords
  <2> QED
    BY <1>t, <1>12, <2>1, <2>2, TrackTake DEF FetchmanyCall, FetchallCall, Fetchable
<1> QED
  BY <1>2, <1>3, <1>4, <1>5, <1>6, <1>7, <1>8, <1>9, <1>10, <1>11, <1>12
     DEF Invocation

(***************************************************************************)
(* What the end of an exchange says of the session.                        *)
(***************************************************************************)
\* A response that parses was given by the live session.
LEMMA ReplyOk ==
  ASSUME NEW r \in PossibleReplies, SendAndReceive(r), r.st = "ok"
  PROVE  /\ Ready /\ socket /\ up
         /\ connected' = connected /\ socket' = socket
         /\ \E o \in Outcomes(call.pkt) : o.reply = r /\ Serve(o)
<1>1. /\ Failed("operr").st = "operr" /\ Failed("error").st = "error"
      /\ Failed("unparsed").st = "unparsed"
  BY ReplyType DEF ReplyStates
<1>2. Response(r)
  BY <1>1 DEF SendAndReceive, NotConnected, ReconnectFails, SocketError, EndOfFile
<1> QED
  BY <1>1, <1>2 DEF Response, Parsed, Serve

\* An answer to GET_LAST_INSERT_ID names the session's last identifier, or none.
LEMMA ReplyId ==
  ASSUME TypeInv, NEW r \in PossibleReplies, SendAndReceive(r),
         call.pkt.fc = "GetLastInsertId"
  PROVE  r.id = None \/ (up /\ r.id = lastId)
<1>1. /\ Failed("operr").id = None /\ Failed("error").id = None
      /\ Failed("unparsed").id = None
  BY DEF Failed, OkReply, Reply
<1>2. CASE Response(r)
  <2>1. PICK o \in Outcomes(call.pkt) : r \in {o.reply, Failed("unparsed")} /\ Serve(o)
    BY <1>2 DEF Response, Parsed
  <2>2. o.reply.id \in {None, lastId}
    BY LastIdAnswer DEF TypeInv, TypeOK, CallRecords
  <2> QED
    BY <1>1, <2>1, <2>2 DEF Serve
<1> QED
  BY <1>1, <1>2 DEF SendAndReceive, NotConnected, ReconnectFails, SocketError, EndOfFile

\* The steps of the driver's code.
LEMMA TrackDriverStep ==
  ASSUME TrackInv, DriverStep
  PROVE  CallHasCursor' /\ Tracked' /\ IdAsked' /\ LastRowIdOwned'
<1> USE DEF connectionVars, cursorVars, NoCursorChange
<1>t. /\ TypeInv /\ CallShape
      /\ CallHasCursor /\ Tracked /\ IdAsked /\ LastRowIdOwned
      /\ cursors \subseteq Cursors
  BY DEF TrackInv, CommitInv, TypeInv, TypeOK
<1>i. \A c \in Cursors : Invalidated[c] \in {handle[c], None}
  BY DEF Invalidated
<1>1. CASE CheckReconnect
  <2>1. /\ ~up' /\ handle' = Invalidated
        /\ call'.op = call.op /\ call'.pkt = call.pkt /\ call'.cur = call.cur
        /\ call'.todo = call.todo /\ call'.step = "connect"
    BY <1>1, <1>t DEF CheckReconnect, DropConnection, SessionEnds, TypeInv, TypeOK,
                      CallRecords
  <2> QED
    BY <1>t, <1>i, <1>1, <2>1
       DEF CheckReconnect, CallHasCursor, Tracked, IdAsked, LastRowIdOwned
<1>2. CASE Reconnected
  <2>1. /\ lastId' = None
        /\ call'.op = call.op /\ call'.pkt = call.pkt /\ call'.cur = call.cur
        /\ call'.todo = call.todo /\ call'.step = "exchange"
    BY <1>2, <1>t DEF Reconnected, HandshakeOk, SessionOpens, TypeInv, TypeOK, CallRecords
  <2> QED
    BY <1>t, <1>2, <2>1
       DEF Reconnected, CallHasCursor, Tracked, IdAsked, LastRowIdOwned
<1>3. ASSUME call' = Idle, UNCHANGED <<cursors, closed, result, lastrowid>>,
             \A c \in Cursors : handle'[c] \in {handle[c], None}
      PROVE  CallHasCursor' /\ Tracked' /\ IdAsked' /\ LastRowIdOwned'
  BY <1>t, <1>3, TrackEnd, Fields DEF Tracked, LastRowIdOwned
<1>4. ASSUME call'.op = call.op, call.op \notin CursorOps \cup {"close"},
             UNCHANGED <<cursors, closed, result, lastrowid>>,
             \A c \in Cursors : handle'[c] \in {handle[c], None}
      PROVE  CallHasCursor' /\ Tracked' /\ IdAsked' /\ LastRowIdOwned'
  BY <1>t, <1>4 DEF Tracked, LastRowIdOwned, CallHasCursor, IdAsked, CursorOps
<1>5. CASE ConnectDone \/ PingConnect
  BY <1>3, <1>5, Ends DEF ConnectDone, PingConnect
<1>6. CASE PingReply
  <2>1. call' = Idle \/ call' = [call EXCEPT !.step = "cleanup", !.pkt = NoPacket]
    BY <1>6, Ends DEF PingReply
  <2>2. call' = Idle \/ call'.op = call.op
    BY <2>1, <1>t DEF TypeInv, TypeOK, CallRecords
  <2> QED
    BY <1>3, <1>4, <1>6, <2>2 DEF PingReply, CursorOps
<1>7. CASE PingDrop
  <2>1. call'.op = call.op
    BY <1>7, <1>t DEF PingDrop, TypeInv, TypeOK, CallRecords
  <2> QED
    BY <1>4, <1>7, <1>i, <2>1 DEF PingDrop, DropConnection, CursorOps
<1>8. CASE EndTranReply
  BY <1>3, <1>8, <1>i, Ends DEF EndTranReply
<1>9. CASE SetAutocommitReply
  <2>1. call' = Idle \/ call' = [call EXCEPT !.pkt = CommitPacket, !.step = "send"]
    BY <1>9, Ends DEF SetAutocommitReply, SendNext
  <2>2. call' = Idle \/ call'.op = call.op
    BY <2>1, <1>t DEF TypeInv, TypeOK, CallRecords
  <2> QED
    BY <1>3, <1>4, <1>9, <2>2 DEF SetAutocommitReply, CursorOps
<1>10. CASE QueryReply
  BY <1>3, <1>10, Ends DEF QueryReply
<1>11. ASSUME NEW c \in Cursors, CloseCursor(c)
       PROVE  CallHasCursor' /\ Tracked' /\ IdAsked' /\ LastRowIdOwned'
  <2>1. CASE handle[c] # None /\ connected
    <3>0. c \in cursors
      BY <2>1, <1>t DEF Tracked
    <3>1. /\ call' = [call EXCEPT !.cur = c, !.step = "send",
                                 !.pkt = CloseQueryPacket(handle[c])]
          /\ UNCHANGED <<cursors, cursorVars>>
      BY <1>11, <2>1 DEF CloseCursor
    <3>2. /\ call'.op = "close" /\ call'.cur = c /\ call'.step = "send"
          /\ call'.pkt = CloseQueryPacket(handle[c]) /\ call'.todo = call.todo
      BY <1>11, <1>t, <3>1 DEF CloseCursor, TypeInv, TypeOK, CallRecords
    <3> QED
      BY <1>11, <1>t, <3>0, <3>1, <3>2, Fields
         DEF CloseCursor, Tracked, LastRowIdOwned, CallHasCursor, IdAsked
  <2>2. CASE ~(handle[c] # None /\ connected)
    <3>1. CursorClosed(c) /\ call' = [call EXCEPT !.todo = call.todo \ {c}]
      BY <1>11, <2>2 DEF CloseCursor
    <3>2. /\ call'.op = "close" /\ call'.step = "loop" /\ call'.pkt = call.pkt
          /\ call'.todo = call.todo \ {c} /\ call'.cur = call.cur
      BY <1>11, <1>t, <3>1 DEF CloseCursor, TypeInv, TypeOK, CallRecords
    <3>3. call.op = "close" /\ c \in call.todo /\ call.pkt.fc = "None"
      BY <1>11, <1>t DEF CloseCursor, Tracked
    <3>4. CallHasCursor' /\ IdAsked'
      BY <1>t, <3>2, <3>3 DEF CallHasCursor, IdAsked, CursorOps
    <3>5. Tracked' /\ LastRowIdOwned'
      <4>1. call.pkt.fc = "CloseDatabase" => cursors = {}
        BY <1>t, <3>3 DEF Tracked
      <4>2. /\ cursors' = cursors \ {c}
            /\ \A d \in Cursors \ cursors' : closed'[d] /\ handle'[d] = None
        BY <1>t, <3>1 DEF CursorClosed, Tracked, TypeInv, TypeOK
      <4> QED
        BY <1>t, <3>1, <3>2, <3>3, <4>1, <4>2 DEF CursorClosed, Tracked, LastRowIdOwned
    <3> QED
      BY <3>4, <3>5
  <2> QED
    BY <2>1, <2>2
<1>12. CASE CloseCursorReply
  <2>1. /\ call' = [call EXCEPT !.todo = call.todo \ {call.cur}, !.cur = None,
                               !.pkt = NoPacket, !.step = "loop"]
        /\ CursorClosed(call.cur)
    BY <1>12 DEF CloseCursorReply
  <2>2. /\ call'.op = "close" /\ call'.step = "loop" /\ call'.pkt = NoPacket
        /\ call'.todo = call.todo \ {call.cur}
    BY <1>12, <1>t, <2>1 DEF CloseCursorReply, TypeInv, TypeOK, CallRecords
  <2>3. call.cur \in Cursors /\ cursors \subseteq call.todo
    BY <1>12, <1>t DEF CloseCursorReply, CallHasCursor, Tracked
  <2>4. Tracked' /\ LastRowIdOwned'
    BY <1>t, <2>1, <2>2, <2>3, Fields, TrackedClosed
  <2> QED
    BY <2>2, <2>4, Fields DEF CallHasCursor, IdAsked, CursorOps
<1>13. CASE CloseDatabase
  <2>1. call' = [call EXCEPT !.pkt = CloseDatabasePacket, !.step = "send"]
    BY <1>13 DEF CloseDatabase, SendNext
  <2>2. /\ call'.op = "close" /\ call'.step = "send" /\ call'.pkt = CloseDatabasePacket
        /\ call'.todo = call.todo /\ cursors = {}
    BY <1>13, <1>t, <2>1 DEF CloseDatabase, Tracked, TypeInv, TypeOK, CallRecords
  <2> QED
    BY <1>13, <1>t, <2>2, Fields
       DEF CloseDatabase, CallHasCursor, IdAsked, Tracked, LastRowIdOwned, CursorOps
<1>14. CASE CloseDatabaseReply
  <2>1. call' = [call EXCEPT !.pkt = NoPacket, !.step = "cleanup"]
    BY <1>14 DEF CloseDatabaseReply
  <2>2. /\ call'.op = "close" /\ call'.step = "cleanup" /\ call'.pkt = NoPacket
        /\ call'.todo = call.todo /\ cursors = {}
    BY <1>14, <1>t, <2>1 DEF CloseDatabaseReply, Tracked, TypeInv, TypeOK, CallRecords
  <2> QED
    BY <1>14, <1>t, <2>2, Fields
       DEF CloseDatabaseReply, CallHasCursor, IdAsked, Tracked, LastRowIdOwned, CursorOps
<1>15. CASE CloseSocket
  BY <1>3, <1>15, Ends DEF CloseSocket
<1>16. CASE CursorCloseReply
  <2>1. /\ call' = Idle /\ CursorClosed(call.cur) /\ call.cur \in Cursors
    BY <1>16, <1>t, Ends DEF CursorCloseReply, CallHasCursor, CursorOps
  <2> QED
    BY <1>t, <2>1, Fields, TrackEnd, TrackedClosed
<1>17. CASE ExecuteCloseReply
  <2>1. /\ call.cur \in Cursors
        /\ handle' \in {handle, [handle EXCEPT ![call.cur] = None]}
    BY <1>17, <1>t DEF ExecuteCloseReply, CallHasCursor, CursorOps
  <2>2. \A c \in Cursors : handle'[c] \in {handle[c], None}
    BY <1>t, <2>1 DEF TypeInv, TypeOK
  <2>3. CASE call' = Idle
    BY <1>3, <1>17, <2>2, <2>3 DEF ExecuteCloseReply
  <2>4. ASSUME NEW s, SendNext(PrepareAndExecutePacket(s, autocommit))
        PROVE  CallHasCursor' /\ Tracked' /\ IdAsked' /\ LastRowIdOwned'
    <3>1. /\ call'.op = "execute" /\ call'.cur = call.cur
          /\ call'.pkt = PrepareAndExecutePacket(s, autocommit)
      BY <1>17, <1>t, <2>4 DEF ExecuteCloseReply, SendNext, TypeInv, TypeOK, CallRecords
    <3> QED
      BY <1>17, <1>t, <2>1, <2>2, <3>1, Fields
         DEF ExecuteCloseReply, CallHasCursor, IdAsked, Tracked, LastRowIdOwned
  <2> QED
    BY <1>17, <2>3, <2>4, Ends DEF ExecuteCloseReply
<1>18. CASE ExecuteReply
  <2>1. call.cur \in Cursors /\ call.cur \in cursors /\ call.op = "execute"
    BY <1>18, <1>t DEF ExecuteReply, CallHasCursor, CursorOps
  <2>2. PICK r \in PossibleReplies :
          /\ SendAndReceive(r)
          /\ \/ /\ r.st = "ok"
                /\ \E s \in r.done :
                     /\ handle' = [handle EXCEPT ![call.cur] = r.h]
                     /\ result' = [result EXCEPT ![call.cur] = ResultOf(s, r.rows)]
                     /\ lastrowid' = [lastrowid EXCEPT ![call.cur] = None]
                     /\ acked' = acked \cup Dml({s})
                     /\ IF AsksLastRowId(s)
                        THEN SendNext(GetLastInsertIdPacket) /\ UNCHANGED ret
                        ELSE Return
             \/ r.st # "ok" /\ Raise /\ UNCHANGED <<handle, result, lastrowid, acked>>
    BY <1>18 DEF ExecuteReply
  <2>3. CASE r.st # "ok"
    BY <1>3, <1>18, <2>2, <2>3, Ends DEF ExecuteReply
  <2>4. CASE r.st = "ok"
    <3>1. PICK s \in r.done :
            /\ handle' = [handle EXCEPT ![call.cur] = r.h]
            /\ result' = [result EXCEPT ![call.cur] = ResultOf(s, r.rows)]
            /\ lastrowid' = [lastrowid EXCEPT ![call.cur] = None]
            /\ IF AsksLastRowId(s) THEN SendNext(GetLastInsertIdPacket) ELSE Return
      BY <2>2, <2>4
    <3>2. AsksLastRowId(s) => lastId' = s
      <4>1. PICK o \in Outcomes(call.pkt) : o.reply = r /\ Serve(o)
        BY <2>2, <2>4, ReplyOk
      <4>2. call.pkt \in Packets /\ call.pkt.fc = "PrepareAndExecute"
        BY <1>18, <1>t DEF ExecuteReply, TypeInv, TypeOK, CallRecords
      <4>3. PICK e \in call.pkt.stmts : r.done = {e} /\ (Kind[e] = "insert" => o.lastId = e)
        BY <2>4, <4>1, <4>2, ExecuteAnswer
      <4> QED
        BY <3>1, <4>1, <4>3 DEF Serve, AsksLastRowId
    <3>3. result'[call.cur].stmt = s
      BY <1>t, <2>1, <3>1 DEF ResultOf, TypeInv, TypeOK
    <3>4. LastRowIdOwned'
      BY <1>t, <2>1, <3>1 DEF LastRowIdOwned, TypeInv, TypeOK
    <3>5. Tracked'
      BY <1>18, <1>t, <2>1, <3>1, Ends
         DEF ExecuteReply, Tracked, SendNext, TypeInv, TypeOK, CallRecords
    <3>6. CASE AsksLastRowId(s)
      <4>1. /\ call'.op = "execute" /\ call'.cur = call.cur
            /\ call'.pkt = GetLastInsertIdPacket
        BY <1>t, <2>1, <3>1, <3>6 DEF SendNext, TypeInv, TypeOK, CallRecords
      <4> QED
        BY <1>18, <2>1, <3>2, <3>3, <3>4, <3>5, <3>6, <4>1
           DEF ExecuteReply, CallHasCursor, IdAsked
    <3>7. CASE ~AsksLastRowId(s)
      BY <3>1, <3>4, <3>5, <3>7, Ends, TrackEnd
    <3> QED
      BY <3>6, <3>7
  <2> QED
    BY <2>3, <2>4
<1>19. CASE LastRowIdReply
  <2>1. PICK r \in PossibleReplies :
          /\ SendAndReceive(r)
          /\ lastrowid' = [lastrowid EXCEPT ![call.cur] = r.id]
          /\ CASE r.st \in {"ok", "operr"} -> Return
               [] r.st = "error" -> Raise
               [] r.st = "unparsed" -> Return \/ Raise
    BY <1>19 DEF LastRowIdReply
  <2>2. call' = Idle
    <3>1. r.st \in {"ok", "operr", "error", "unparsed"}
      BY <1>t, PossibleRepliesType DEF TypeInv, Replies, ReplyStates
    <3> QED
      BY <2>1, <3>1, Ends
  <2>3. /\ call.op = "execute" /\ call.pkt.fc = "GetLastInsertId"
        /\ r.id \in {None, result[call.cur].stmt}
    BY <1>19, <1>t, <2>1, ReplyId DEF LastRowIdReply, IdAsked
  <2>4. LastRowIdOwned'
    BY <1>19, <1>t, <2>1, <2>3 DEF LastRowIdReply, LastRowIdOwned, TypeInv, TypeOK
  <2>5. Tracked'
    BY <1>19, <1>t, <2>2, Fields DEF LastRowIdReply, Tracked
  <2> QED
    BY <2>2, <2>4, <2>5, TrackEnd
<1>20. CASE ExecutemanyBatchReply
  <2>1. PICK r \in PossibleReplies :
          \/ /\ result' = [result EXCEPT ![call.cur] = WithoutRows(@)]
             /\ handle' = [handle EXCEPT ![call.cur] = None]
             /\ Return
          \/ Raise /\ UNCHANGED <<handle, result, acked>>
    BY <1>20 DEF ExecutemanyBatchReply
  <2>2. call' = Idle
    BY <2>1, Ends
  <2>3. \A c \in Cursors : /\ result'[c].stmt = result[c].stmt
                          /\ handle'[c] \in {handle[c], None}
    BY <1>t, <2>1 DEF WithoutRows, TypeInv, TypeOK
  <2>4. Tracked' /\ LastRowIdOwned'
    BY <1>20, <1>t, <2>2, <2>3, Fields DEF ExecutemanyBatchReply, Tracked, LastRowIdOwned
  <2> QED
    BY <2>2, <2>4, TrackEnd
<1>21. CASE FetchReply
  <2>1. call.op \in {"fetchmany", "fetchall"} /\ call.cur \in cursors
    BY <1>21, <1>t DEF FetchReply, CallHasCursor, CursorOps
  <2>2. PICK r \in PossibleReplies :
          /\ SendAndReceive(r)
          /\ \/ Take(call.op, call.cur, result[call.cur].rows \o r.rows, call.want)
             \/ (Return \/ Raise) /\ UNCHANGED result
    BY <1>21 DEF FetchReply
  <2>3. r \in Replies
    BY <1>t, PossibleRepliesType DEF TypeInv
  <2>4. result[call.cur].rows \o r.rows \in Seq(Stmts \X Nat) /\ call.want \in Nat
    BY <1>t, <2>1, <2>3 DEF TypeInv, TypeOK, ResultRecords, Replies, CallRecords
  <2>5. CASE Take(call.op, call.cur, result[call.cur].rows \o r.rows, call.want)
    BY <1>21, <2>1, <2>4, <2>5, TrackTake DEF FetchReply
  <2> QED
    BY <1>3, <1>21, <2>2, <2>5, Ends DEF FetchReply
<1> QED
  BY <1>1, <1>2, <1>5, <1>6, <1>7, <1>8, <1>9, <1>10, <1>11, <1>12, <1>13, <1>14,
     <1>15, <1>16, <1>17, <1>18, <1>19, <1>20, <1>21
     DEF DriverStep

\* The initial states.
LEMMA TrackInit == Init => CallHasCursor /\ Tracked /\ IdAsked /\ LastRowIdOwned
  BY Fields DEF Init, CallHasCursor, Tracked, IdAsked, LastRowIdOwned, CursorOps

\* Every step.
LEMMA TrackStep ==
  ASSUME TrackInv, CommitInv', [Next]_vars
  PROVE  TrackInv'
<1>t. CallHasCursor /\ Tracked /\ IdAsked /\ LastRowIdOwned
  BY DEF TrackInv
<1>1. CASE SessionLost
  <2>1. ~up' /\ call' = call /\ UNCHANGED <<cursors, closed, handle, result, lastrowid>>
    BY <1>1 DEF SessionLost, SessionEnds, connectionVars, cursorVars
  <2> QED
    BY <1>t, <2>1 DEF TrackInv, CallHasCursor, Tracked, IdAsked, LastRowIdOwned
<1>2. CASE UNCHANGED vars
  BY <1>t, <1>2 DEF TrackInv, CallHasCursor, Tracked, IdAsked, LastRowIdOwned, vars,
                    serverVars, connectionVars, cursorVars
<1>3. CASE Invocation \/ DriverStep
  BY <1>3, TrackInvocation, TrackDriverStep DEF TrackInv
<1> QED
  BY <1>1, <1>2, <1>3 DEF Next

\* And so it is in every behaviour.
LEMMA TrackInvariant == Spec => []TrackInv
<1>1. Init /\ CommitInv => TrackInv
  BY TrackInit DEF TrackInv
<1>2. TrackInv /\ CommitInv' /\ [Next]_vars => TrackInv'
  BY TrackStep
<1> QED
  BY <1>1, <1>2, CommitInvariant, PTL DEF Spec

\* lastrowid never belongs to another statement than the one that the cursor's
\* last execute() ran: execute() has the answer of the session that ran its
\* INSERT, or, when that session has been replaced in between, of one that has
\* none to give.  A batch of executemany_batch() is no execute(), and leaves
\* lastrowid as it was.
THEOREM LastRowIdIsOwned == Spec => []LastRowIdOwned
  BY TrackInvariant, PTL DEF TrackInv

\* close() that returns leaves no session and no socket.  If it found the
\* connection up it has also closed every cursor and dropped every handle,
\* whichever of its requests were refused, cut off or sent on another session;
\* if it found it down it has returned at once, and leaves the cursors as they
\* were.
THEOREM CloseLeavesNothing == Spec => CloseReleases
<1> DEFINE CloseStep ==
      CloseReturns
        => /\ ~connected' /\ ~socket' /\ ~up'
           /\ call.op = "close" =>
                /\ cursors' = {}
                /\ \A c \in Cursors : closed'[c] /\ handle'[c] = None
<1>1. TrackInv /\ SocketInv /\ [Next]_vars => [CloseStep]_vars
  <2> SUFFICES ASSUME TrackInv, SocketInv, Next, CloseReturns
               PROVE  CloseStep
    OBVIOUS
  <2>t. /\ CallShape /\ Tracked /\ SocketAgrees
        /\ call \in CallRecords /\ socket \in BOOLEAN /\ up \in BOOLEAN
    BY DEF TrackInv, CommitInv, TypeInv, TypeOK, ServerTypeOK, SocketInv
  <2>1. CASE CloseCall
    <3>1. ~connected /\ UNCHANGED <<connected, socket, up>>
      BY <2>1 DEF CloseReturns, CloseCall, NoReturn, connectionVars, transportVars,
                  serverVars
    <3>2. call.op # "close"
      BY <2>1, <2>t DEF CloseCall, Invoke, CallShape
    <3> QED
      BY <2>t, <3>1, <3>2 DEF SocketAgrees
  <2>2. CASE ~CloseCall
    <3>1. call.op = "close" /\ ~IsIdle /\ ret # "returned" /\ ret' = "returned"
      BY <2>2, <2>t DEF CloseReturns, CallShape
    <3>2. CloseSocket
      <4>1. ~Invocation
        BY <2>2, <3>1
           DEF Invocation, ConnectCall, PingCall, EndTranCall, SetAutocommitCall,
               QueryCall, NewCursor, CursorCloseCall, ExecuteCall, ExecutemanyBatchCall,
               FetchmanyCall, FetchallCall, Invoke
      <4>2. /\ ~SessionLost
            /\ ~(CheckReconnect \/ Reconnected \/ CloseCursorReply \/ CloseDatabase
                   \/ CloseDatabaseReply)
            /\ ~\E c \in Cursors : CloseCursor(c)
        BY <3>1 DEF SessionLost, CheckReconnect, Reconnected, CloseCursor,
                    CloseCursorReply, CloseDatabase, CloseDatabaseReply
      <4> QED
        BY <3>1, <4>1, <4>2
           DEF Next, DriverStep, ConnectDone, PingReply, PingDrop, PingConnect,
               EndTranReply, SetAutocommitReply, QueryReply, CursorCloseReply,
               ExecuteCloseReply, ExecuteReply, LastRowIdReply, ExecutemanyBatchReply,
               FetchReply
    <3>3. cursors = {}
      BY <2>t, <3>2 DEF CloseSocket, Tracked
    <3> QED
      BY <2>t, <3>2, <3>3 DEF CloseSocket, SessionEnds, NoCursorChange, cursorVars, Tracked
  <2> QED
    BY <2>1, <2>2
<1> QED
  BY <1>1, TrackInvariant, SocketInvariant, PTL DEF Spec, CloseReleases

(***************************************************************************)
(* Part 2, for an application that keeps autocommit fixed and lets ping()  *)
(* reconnect: the setter commits and connect() replaces the session        *)
(* without invalidating the handles of the cursors.                        *)
(*                                                                         *)
(* HandlesOwned is inductive together with these facts: handles stand for  *)
(* different statements; a session just opened finds no cursor with a      *)
(* handle, and no handle open; the handle in a CLOSE_REQ_HANDLE or a FETCH *)
(* is still that of the cursor; a cursor that executes has none.           *)
(***************************************************************************)
AutocommitFixed == Api \cap {"connect", "set_autocommit"} = {}

CalledApi == call.op \in Api \cup {"none"}

HandlesDistinct ==
  connected /\ up =>
    \A c, d \in Cursors : handle[c] # None /\ handle[c] = handle[d] => c = d

HandlesOfStmts == \A c \in Cursors : handle[c] # None => result[c].stmt \in Stmts

HandleState == HandlesOwned /\ HandlesDistinct /\ HandlesOfStmts

NewSession ==
  /\ call.step \in {"connect", "exchange"} => \A c \in Cursors : handle[c] = None
  /\ call.step = "exchange" => open = NoHandles

PacketHandle ==
  /\ call.step = "send" /\ call.pkt.fc \in {"CloseQuery", "Fetch"}
       => call.pkt.h = handle[call.cur]
  /\ call.pkt.fc = "PrepareAndExecute" => handle[call.cur] = None

OwnInv == AutocommitFixed /\ TrackInv /\ CalledApi /\ HandleState /\ NewSession
            /\ PacketHandle

\* No call changes autocommit or replaces the session for the sake of it.
LEMMA OtherOps ==
  ASSUME OwnInv
  PROVE  call.op \notin {"connect", "set_autocommit"}
  BY DEF OwnInv, AutocommitFixed, CalledApi

\* HandleState goes on as long as the handles that are kept still stand, on a
\* live session, for what they stood for.
LEMMA HandlesKept ==
  ASSUME HandleState,
         \A c \in Cursors :
           /\ handle'[c] \in {handle[c], None}
           /\ handle'[c] # None =>
                /\ result'[c].stmt = result[c].stmt
                /\ connected' /\ up' => /\ connected /\ up
                                      /\ open'[handle[c]] = open[handle[c]]
  PROVE  HandleState'
  BY DEF HandleState, HandlesOwned, HandlesDistinct, HandlesOfStmts

\* An exchange, seen from the handles of the cursors.
LEMMA ExchangeHandles ==
  ASSUME OwnInv, NEW r \in PossibleReplies, SendAndReceive(r),
         NEW c \in Cursors, handle[c] # None, connected', up'
  PROVE  /\ connected /\ up
         /\ \/ open'[handle[c]] = open[handle[c]]
            \/ call.pkt.fc = "CloseQuery" /\ r.st = "ok" /\ c = call.cur
            \/ call.pkt.fc \in {"Commit", "Rollback"} /\ r.st = "ok"
<1>t. /\ TypeOK /\ CallShape /\ CallHasCursor /\ Tracked
      /\ HandleState /\ NewSession /\ PacketHandle
      /\ call.pkt \in Packets
  BY DEF OwnInv, TrackInv, CommitInv, TypeInv, TypeOK, CallRecords
<1>1. CASE NotConnected(r)
  BY <1>1 DEF NotConnected, serverVars, transportVars
<1>2. CASE ReconnectFails(r)
  BY <1>t, <1>2 DEF ReconnectFails, NewSession
<1>3. CASE SocketError(r) \/ EndOfFile(r)
  BY <1>3 DEF SocketError, EndOfFile, SessionEndsDuring
<1>4. CASE Response(r)
  <2>1. connected /\ up /\ call.step = "send"
    BY <1>t, <1>4 DEF Response, Ready, Serve, NewSession
  <2>2. PICK o \in Outcomes(call.pkt) : r \in Parsed(o) /\ open' = o.open
    BY <1>4 DEF Response, Serve
  <2>3. handle[c] \in Handles /\ open[handle[c]] \in Stmts
    BY <1>t, <2>1 DEF HandleState, HandlesOwned, HandlesOfStmts, TypeOK
  <2>4. call.pkt.fc # "CloseDatabase"
    <3>1. call.pkt.fc = "CloseDatabase" => call.op = "close"
      BY <1>t DEF CallShape, FcsOf
    <3> QED
      BY <1>t, <3>1 DEF Tracked
  <2>5. CASE open' = open
    BY <2>1, <2>5
  <2>6. ASSUME NEW h \in FreeHandles, NEW s \in Stmts, open' = [open EXCEPT ![h] = s]
        PROVE  open'[handle[c]] = open[handle[c]]
    BY <1>t, <2>3, <2>6, NoneAssumption DEF FreeHandles, TypeOK, ServerTypeOK
  <2>7. ASSUME call.pkt.fc = "CloseQuery", o.reply.st = "ok",
               open' = [open EXCEPT ![call.pkt.h] = None]
        PROVE  open'[handle[c]] = open[handle[c]] \/ (r.st = "ok" /\ c = call.cur)
    <3>1. r.st = "ok"
      BY <2>2, <2>7 DEF Parsed, CarriesData
    <3>2. call.cur \in Cursors
      BY <1>t, <2>7 DEF CallShape, FcsOf, CallHasCursor, CursorOps, TypeOK
    <3>3. call.pkt.h = handle[call.cur]
      BY <1>t, <2>1, <2>7 DEF PacketHandle
    <3>4. handle[call.cur] = handle[c] => c = call.cur
      BY <1>t, <2>1, <3>2 DEF HandleState, HandlesDistinct
    <3> QED
      BY <1>t, <2>3, <2>7, <3>1, <3>3, <3>4 DEF TypeOK, ServerTypeOK
  <2>8. ASSUME call.pkt.fc \in {"Commit", "Rollback"}, o.reply.st = "ok"
        PROVE  r.st = "ok"
    BY <2>2, <2>8 DEF Parsed, CarriesData
  <2> QED
    BY <1>t, <2>1, <2>2, <2>4, <2>5, <2>6, <2>7, <2>8, OpenAfter
<1> QED
  BY <1>1, <1>2, <1>3, <1>4 DEF SendAndReceive

\* The handle that execute() stores stands for its statement, on a number that
\* no other cursor has.
LEMMA ExecuteHandles ==
  ASSUME OwnInv, NEW r \in PossibleReplies, SendAndReceive(r), r.st = "ok",
         call.pkt.fc = "PrepareAndExecute", NEW s \in r.done,
         handle' = [handle EXCEPT ![call.cur] = r.h],
         result' = [result EXCEPT ![call.cur] = ResultOf(s, r.rows)]
  PROVE  /\ HandleState'
         /\ s \in Stmts /\ \E n \in Nat : r.rows = RowsOf(s, 1, n)
<1>t. /\ TypeOK /\ CallShape /\ CallHasCursor
      /\ HandleState /\ NewSession /\ PacketHandle
      /\ call.pkt \in Packets
  BY DEF OwnInv, TrackInv, CommitInv, TypeInv, TypeOK, CallRecords
<1>1. call.cur \in Cursors
  <2>1. call.op \in Calls \cup {"none"} /\ cursors \subseteq Cursors
    BY <1>t DEF TypeOK, CallRecords
  <2>2. call.op = "execute"
    BY <1>t, <2>1 DEF CallShape, FcsOf
  <2> QED
    BY <1>t, <2>1, <2>2 DEF CallHasCursor, CursorOps
<1>2. connected /\ up /\ connected' /\ up' /\ Ready
  BY ReplyOk DEF Serve, Ready
<1>3. PICK o \in Outcomes(call.pkt) : o.reply = r /\ open' = o.open
  BY ReplyOk DEF Serve
<1>4. PICK e \in call.pkt.stmts, h \in FreeHandles, n \in Nat :
        /\ open' = [open EXCEPT ![h] = e]
        /\ r.h = h /\ r.rows = RowsOf(e, 1, n) /\ r.done = {e}
  <2>1. o.reply.st = "ok" /\ o.reply = r /\ open' = o.open
    BY <1>3
  <2>2. PICK e \in call.pkt.stmts, h \in FreeHandles, n \in Nat :
          /\ o.open = [open EXCEPT ![h] = e]
          /\ o.reply.h = h
          /\ o.reply.rows = RowsOf(e, 1, n)
          /\ o.reply.done = {e}
          /\ Kind[e] = "insert" => o.lastId = e
    BY <1>t, <2>1, ExecuteAnswer, Zenon
  <2>3. /\ open' = [open EXCEPT ![h] = e]
        /\ r.h = h /\ r.rows = RowsOf(e, 1, n) /\ r.done = {e}
    BY <2>1, <2>2
  <2> QED
    BY <2>2, <2>3, Zenon
<1>5. e = s /\ s \in Stmts /\ h \in Handles /\ open[h] = None
  BY <1>4, <1>t DEF FreeHandles, Packets
<1>6. /\ handle'[call.cur] = h /\ result'[call.cur].stmt = s /\ open'[h] = s
      /\ handle[call.cur] = None
  BY <1>1, <1>4, <1>5, <1>t DEF ResultOf, PacketHandle, TypeOK, ServerTypeOK
<1>7. ASSUME NEW d \in Cursors, d # call.cur
      PROVE  /\ handle'[d] = handle[d] /\ result'[d].stmt = result[d].stmt
             /\ handle[d] # None => /\ handle[d] # h /\ result[d].stmt \in Stmts
                                    /\ open'[handle[d]] = result[d].stmt
  <2>1. handle'[d] = handle[d] /\ result'[d] = result[d]
    BY <1>7, <1>t DEF TypeOK
  <2>2. ASSUME handle[d] # None
        PROVE  /\ handle[d] # h /\ result[d].stmt \in Stmts
               /\ open'[handle[d]] = result[d].stmt
    <3>1. open[handle[d]] = result[d].stmt /\ result[d].stmt \in Stmts
      BY <1>2, <1>t, <2>2 DEF HandleState, HandlesOwned, HandlesOfStmts
    <3>2. handle[d] \in Handles /\ handle[d] # h
      BY <1>5, <1>t, <2>2, <3>1, NoneAssumption DEF TypeOK
    <3> QED
      BY <1>4, <1>t, <3>1, <3>2 DEF TypeOK, ServerTypeOK
  <2> QED
    BY <2>1, <2>2
<1>8. \A d \in Cursors : handle'[d] # None =>
        /\ open'[handle'[d]] = result'[d].stmt /\ result'[d].stmt \in Stmts
        /\ d # call.cur => handle'[d] = handle[d] /\ handle[d] # h
  BY <1>5, <1>6, <1>7
<1>9. HandlesOwned' /\ HandlesOfStmts'
  BY <1>8 DEF HandlesOwned, HandlesOfStmts
<1>10. HandlesDistinct'
  BY <1>t, <1>2, <1>6, <1>8 DEF HandleState, HandlesDistinct
<1> QED
  BY <1>4, <1>5, <1>9, <1>10 DEF HandleState

\* The same, for the steps that store no new handle.
LEMMA ExchangeKept ==
  ASSUME OwnInv, NEW r \in PossibleReplies, SendAndReceive(r),
         \A c \in Cursors :
           /\ handle'[c] \in {handle[c], None}
           /\ handle'[c] # None =>
                /\ result'[c].stmt = result[c].stmt
                /\ ~(call.pkt.fc = "CloseQuery" /\ r.st = "ok" /\ c = call.cur)
                /\ ~(call.pkt.fc \in {"Commit", "Rollback"} /\ r.st = "ok")
  PROVE  HandleState'
<1>1. \A c \in Cursors : handle'[c] # None /\ connected' /\ up' =>
        connected /\ up /\ open'[handle[c]] = open[handle[c]]
  BY ExchangeHandles
<1> QED
  BY <1>1, HandlesKept DEF OwnInv

\* A call that is over, or goes on with a packet that holds the cursor's handle.
LEMMA OwnCall ==
  ASSUME \/ call' = Idle
         \/ /\ call'.op \in Api
            /\ call'.step \in {"send", "loop", "cleanup"}
            /\ call'.pkt.fc \in {"CloseQuery", "Fetch"}
                 => call'.pkt.h = handle'[call'.cur]
            /\ call'.pkt.fc = "PrepareAndExecute" => handle'[call'.cur] = None
  PROVE  CalledApi' /\ NewSession' /\ PacketHandle'
  BY Fields DEF CalledApi, NewSession, PacketHandle

\* The application's calls.
LEMMA OwnInvocation ==
  ASSUME OwnInv, Invocation
  PROVE  CalledApi' /\ HandleState' /\ NewSession' /\ PacketHandle'
<1> USE DEF connectionVars, cursorVars, transportVars, serverVars
<1>t. /\ TypeOK /\ CallShape /\ Tracked
      /\ CalledApi /\ HandleState /\ NewSession /\ PacketHandle
      /\ {"connect", "set_autocommit"} \cap Api = {}
  BY DEF OwnInv, TrackInv, CommitInv, TypeInv, AutocommitFixed
<1>i. \A c \in Cursors : Invalidated[c] = None
  BY <1>t DEF Invalidated, Tracked
<1>h. ASSUME UNCHANGED <<serverVars, transportVars>>,
             \A c \in Cursors : /\ handle'[c] \in {handle[c], None}
                                /\ handle'[c] # None => result'[c].stmt = result[c].stmt
      PROVE  HandleState'
  BY <1>t, <1>h, HandlesKept
<1>1. ~ConnectCall /\ ~SetAutocommitCall
  BY <1>t DEF ConnectCall, SetAutocommitCall, Invoke
<1>2. CASE PingCall
  <2>1. \A c \in Cursors : handle'[c] \in {handle[c], None}
    BY <1>2, <1>i DEF PingCall
  <2>2. HandleState'
    BY <1>2, <1>h, <2>1 DEF PingCall
  <2>3. ASSUME NEW reconnect,
               call' = [Begin("ping", None, CheckCasPacket) EXCEPT !.flag = reconnect]
        PROVE  CalledApi' /\ NewSession' /\ PacketHandle'
    <3>1. /\ call'.op = "ping" /\ call'.step = "send" /\ call'.pkt.fc = "CheckCas"
      BY <2>3, Fields DEF Begin
    <3>2. "ping" \in Api
      BY <1>2 DEF PingCall, Invoke
    <3> QED
      BY <3>1, <3>2, OwnCall
  <2>4. ASSUME call' = [Idle EXCEPT !.op = "ping", !.step = "connect", !.flag = TRUE],
               handle' = Invalidated
        PROVE  CalledApi' /\ NewSession' /\ PacketHandle'
    <3>1. /\ call'.op = "ping" /\ call'.step = "connect" /\ call'.pkt.fc = "None"
      BY <2>4, Fields DEF Idle
    <3>2. "ping" \in Api
      BY <1>2 DEF PingCall, Invoke
    <3> QED
      BY <1>i, <2>4, <3>1, <3>2 DEF CalledApi, NewSession, PacketHandle
  <2> QED
    BY <1>2, <2>2, <2>3, <2>4 DEF PingCall
<1>3. CASE EndTranCall
  <2>1. /\ call'.op \in {"commit", "rollback"} /\ call'.op \in Api
        /\ call'.step = "send" /\ call'.pkt.fc \in {"Commit", "Rollback"}
    BY <1>3, Fields DEF EndTranCall, Invoke
  <2>2. HandleState'
    BY <1>3, <1>h DEF EndTranCall
  <2> QED
    BY <2>1, <2>2, OwnCall
<1>4. CASE QueryCall
  <2>1. /\ call'.op \in Api /\ call'.step = "send"
        /\ call'.pkt.fc \in {"GetEngineVersion", "GetLastInsertId", "GetSchema"}
    BY <1>4, Fields DEF QueryCall, Invoke
  <2>2. HandleState'
    BY <1>4, <1>h DEF QueryCall
  <2> QED
    BY <2>1, <2>2, OwnCall
<1>5. CASE CloseCall
  <2>1. \/ call'.op \in Api /\ call'.step = "loop" /\ call'.pkt.fc = "None"
        \/ call' = Idle
    BY <1>5, Fields, Ends DEF CloseCall, Invoke, Idle
  <2>2. HandleState'
    BY <1>5, <1>h DEF CloseCall
  <2> QED
    BY <2>1, <2>2, OwnCall
<1>6. ASSUME NEW c \in Cursors, NewCursor(c)
      PROVE  CalledApi' /\ HandleState' /\ NewSession' /\ PacketHandle'
  <2>1. call.op = "none" /\ call.step = "idle" /\ call' = call /\ call.pkt.fc = "None"
    BY <1>6, <1>t DEF NewCursor, Invoke, IsIdle, CallShape, FcsOf
  <2>2. \A d \in Cursors : \/ handle'[d] = None
                           \/ handle'[d] = handle[d] /\ result'[d] = result[d]
    BY <1>6, <1>t DEF NewCursor, TypeOK
  <2>3. HandleState'
    BY <1>6, <1>h, <2>2 DEF NewCursor
  <2> QED
    BY <2>1, <2>3 DEF CalledApi, NewSession, PacketHandle
<1>7. ASSUME NEW c \in Cursors, CursorCloseCall(c)
      PROVE  CalledApi' /\ HandleState' /\ NewSession' /\ PacketHandle'
  <2>1. CASE handle[c] # None /\ connected
    <3>1. /\ call' = Begin("cursor_close", c, CloseQueryPacket(handle[c]))
          /\ UNCHANGED <<cursors, cursorVars>>
      BY <1>7, <2>1 DEF CursorCloseCall
    <3>2. /\ call'.op \in Api /\ call'.step = "send" /\ call'.pkt.fc = "CloseQuery"
          /\ call'.pkt.h = handle'[call'.cur]
      BY <1>7, <3>1, Fields, Parts DEF CursorCloseCall, Invoke
    <3>3. HandleState'
      BY <1>7, <1>h, <3>1 DEF CursorCloseCall
    <3> QED
      BY <3>2, <3>3, OwnCall
  <2>2. CASE ~(handle[c] # None /\ connected)
    <3>1. CursorClosed(c) /\ Return
      BY <1>7, <2>2 DEF CursorCloseCall
    <3>2. HandleState'
      BY <1>7, <1>h, <1>t, <3>1 DEF CursorCloseCall, CursorClosed, TypeOK
    <3> QED
      BY <3>1, <3>2, Ends, OwnCall
  <2> QED
    BY <2>1, <2>2
<1>8. ASSUME NEW c \in Cursors, ExecuteCall(c)
      PROVE  CalledApi' /\ HandleState' /\ NewSession' /\ PacketHandle'
  <2>1. PICK s \in Stmts :
          call' = [Begin("execute", c, IF handle[c] # None THEN CloseQueryPacket(handle[c])
                                       ELSE PrepareAndExecutePacket(s, autocommit))
                     EXCEPT !.stmts = {s}]
    BY <1>8 DEF ExecuteCall
  <2>2. /\ call'.op = "execute" /\ call'.cur = c /\ call'.step = "send"
        /\ call'.pkt = IF handle[c] # None THEN CloseQueryPacket(handle[c])
                       ELSE PrepareAndExecutePacket(s, autocommit)
        /\ "execute" \in Api /\ handle' = handle
    BY <1>8, <2>1 DEF ExecuteCall, Begin, Invoke
  <2>3. HandleState'
    BY <1>8, <1>h DEF ExecuteCall
  <2> QED
    BY <2>2, <2>3, Fields, Parts, OwnCall
<1>9. ASSUME NEW c \in Cursors, ExecutemanyBatchCall(c)
      PROVE  CalledApi' /\ HandleState' /\ NewSession' /\ PacketHandle'
  <2>1. PICK ss, ac :
          call' = [Begin("executemany_batch", c, BatchExecutePacket(ss, ac))
                     EXCEPT !.stmts = ss]
    BY <1>9 DEF ExecutemanyBatchCall
  <2>2. /\ call'.op = "executemany_batch" /\ call'.step = "send"
        /\ call'.pkt = BatchExecutePacket(ss, ac) /\ "executemany_batch" \in Api
    BY <1>9, <2>1 DEF ExecutemanyBatchCall, Begin, Invoke
  <2>3. HandleState'
    BY <1>9, <1>h DEF ExecutemanyBatchCall
  <2> QED
    BY <2>2, <2>3, Fields, OwnCall
<1>10. ASSUME NEW c \in Cursors, FetchmanyCall(c) \/ FetchallCall(c)
       PROVE  CalledApi' /\ HandleState' /\ NewSession' /\ PacketHandle'
  <2>1. PICK op \in {"fetchmany", "fetchall"}, n \in Nat :
          Take(op, c, result[c].rows, n) /\ op \in Api
    BY <1>10, WantSizesAssumption DEF FetchmanyCall, FetchallCall, Invoke
  <2>2. UNCHANGED <<serverVars, connectionVars, handle>>
    BY <1>10 DEF FetchmanyCall, FetchallCall
  <2>3. result[c].rows \in Seq(Stmts \X Nat) /\ TypeInv
    BY <1>t DEF TypeOK, ResultRecords, OwnInv, TrackInv, CommitInv
  <2>4. PICK index \in Nat : TakeTo(op, c, result[c].rows, index)
    BY <2>1, <2>3, TakeParts
  <2>5. HandleState'
    BY <1>h, <1>t, <2>2, <2>4 DEF TakeTo, Moved, TypeOK
  <2> QED
    BY <2>1, <2>2, <2>4, <2>5, Fields, Parts, Ends, OwnCall DEF TakeTo
<1> QED
  BY <1>1, <1>2, <1>3, <1>4, <1>5, <1>6, <1>7, <1>8, <1>9, <1>10 DEF Invocation

\* The steps in which the session is dropped, or another is opened.
LEMMA OwnSessionStep ==
  ASSUME OwnInv,
         \/ CheckReconnect \/ Reconnected \/ ConnectDone
         \/ PingDrop \/ PingConnect \/ CloseSocket \/ SessionLost
  PROVE  CalledApi' /\ HandleState' /\ NewSession' /\ PacketHandle'
<1> USE DEF connectionVars, cursorVars, NoCursorChange
<1>t. /\ TypeOK /\ CallShape /\ CallHasCursor /\ Tracked
      /\ CalledApi /\ HandleState /\ NewSession /\ PacketHandle
      /\ call \in CallRecords
  BY DEF OwnInv, TrackInv, CommitInv, TypeInv, TypeOK
<1>i. \A c \in Cursors : Invalidated[c] = None
  BY <1>t DEF Invalidated, Tracked
<1>c. call.pkt.fc = "PrepareAndExecute" => call.cur \in Cursors
  <2>1. call.pkt.fc = "PrepareAndExecute" => call.op = "execute"
    BY <1>t DEF CallShape, FcsOf, CallRecords
  <2> QED
    BY <1>t, <2>1 DEF CallHasCursor, CursorOps, TypeOK
<1>1. CASE CheckReconnect \/ PingDrop
  <2>1. ~up' /\ handle' = Invalidated /\ result' = result
    BY <1>1 DEF CheckReconnect, PingDrop, DropConnection, SessionEnds
  <2>2. /\ call'.op = call.op /\ call'.pkt = call.pkt /\ call'.cur = call.cur
        /\ call'.step = "connect"
    BY <1>1, <1>t DEF CheckReconnect, PingDrop, CallRecords
  <2>3. HandleState'
    BY <1>i, <1>t, <2>1, HandlesKept
  <2> QED
    BY <1>c, <1>i, <1>t, <2>1, <2>2, <2>3 DEF CalledApi, NewSession, PacketHandle
<1>2. CASE Reconnected
  <2>1. /\ open' = NoHandles /\ handle' = handle /\ result' = result
        /\ \A c \in Cursors : handle[c] = None
    BY <1>2, <1>t DEF Reconnected, HandshakeOk, SessionOpens, NewSession
  <2>2. /\ call'.op = call.op /\ call'.pkt = call.pkt /\ call'.cur = call.cur
        /\ call'.step = "exchange"
    BY <1>2, <1>t DEF Reconnected, CallRecords
  <2>3. HandleState'
    BY <1>t, <2>1, HandlesKept
  <2> QED
    BY <1>t, <2>1, <2>2, <2>3 DEF CalledApi, NewSession, PacketHandle
<1>3. ~ConnectDone
  BY OtherOps DEF ConnectDone
<1>4. CASE PingConnect
  <2>1. /\ handle' = handle /\ result' = result
        /\ \A c \in Cursors : handle[c] = None
    BY <1>4, <1>t DEF PingConnect, NewSession
  <2>2. HandleState'
    BY <1>t, <2>1, HandlesKept
  <2> QED
    BY <1>4, <2>2, Ends, OwnCall DEF PingConnect
<1>5. CASE CloseSocket
  <2>1. ~up' /\ handle' = handle /\ result' = result
    BY <1>5 DEF CloseSocket, SessionEnds
  <2>2. HandleState'
    BY <1>t, <2>1, HandlesKept
  <2> QED
    BY <1>5, <2>2, Ends, OwnCall DEF CloseSocket
<1>6. CASE SessionLost
  <2>1. /\ ~up' /\ open' = NoHandles
        /\ handle' = handle /\ result' = result /\ call' = call
    BY <1>6 DEF SessionLost, SessionEnds
  <2>2. HandleState'
    BY <1>t, <2>1, HandlesKept
  <2> QED
    BY <1>t, <2>1, <2>2 DEF CalledApi, NewSession, PacketHandle
<1> QED
  BY <1>1, <1>2, <1>3, <1>4, <1>5, <1>6

\* The exchanges.
LEMMA OwnExchange ==
  ASSUME OwnInv,
         \/ PingReply \/ EndTranReply \/ SetAutocommitReply \/ QueryReply
         \/ CloseCursorReply \/ CloseDatabaseReply \/ CursorCloseReply
         \/ ExecuteCloseReply \/ ExecuteReply \/ LastRowIdReply
         \/ ExecutemanyBatchReply \/ FetchReply
  PROVE  CalledApi' /\ HandleState' /\ NewSession' /\ PacketHandle'
<1> USE DEF cursorVars, NoCursorChange
<1>t. /\ TypeInv /\ TypeOK /\ CallShape /\ CallHasCursor /\ Tracked
      /\ CalledApi /\ HandleState /\ NewSession /\ PacketHandle
      /\ call \in CallRecords /\ cursors \subseteq Cursors
  BY DEF OwnInv, TrackInv, CommitInv, TypeInv, TypeOK
<1>i. \A c \in Cursors : Invalidated[c] = None
  BY <1>t DEF Invalidated, Tracked
<1>r. \A r \in PossibleReplies : r \in Replies
  BY <1>t, PossibleRepliesType
\* Calls whose code touches no handle.
<1>h. ASSUME NEW r \in PossibleReplies, SendAndReceive(r), handle' = handle,
             \A c \in Cursors : result'[c].stmt = result[c].stmt,
             r.st = "ok" => call.pkt.fc \notin {"CloseQuery", "Commit", "Rollback"}
      PROVE  HandleState'
  BY <1>h, ExchangeKept
\* The next packet of the same call.
<1>n. ASSUME NEW p, SendNext(p), call.op \in Api,
             p.fc \in {"CloseQuery", "Fetch"} => p.h = handle'[call.cur],
             p.fc = "PrepareAndExecute" => handle'[call.cur] = None
      PROVE  CalledApi' /\ NewSession' /\ PacketHandle'
  <2>1. /\ call'.op = call.op /\ call'.cur = call.cur
        /\ call'.step = "send" /\ call'.pkt = p
    BY <1>n, <1>t DEF SendNext, CallRecords
  <2> QED
    BY <1>n, <2>1, OwnCall
<1>1. CASE PingReply
  <2>1. PICK r \in PossibleReplies :
          /\ SendAndReceive(r)
          /\ \/ call' = Idle
             \/ call' = [call EXCEPT !.step = "cleanup", !.pkt = NoPacket]
    BY <1>1, Ends DEF PingReply
  <2>2. call.op = "ping" /\ call.pkt.fc \in {"None", "CheckCas"} /\ call.op \in Api
    BY <1>1, <1>t DEF PingReply, CallShape, FcsOf, CalledApi
  <2>3. HandleState'
    BY <1>1, <1>h, <2>1, <2>2 DEF PingReply
  <2>4. call' = Idle \/ /\ call'.op = call.op /\ call'.step = "cleanup"
                        /\ call'.pkt.fc = "None"
    BY <1>t, <2>1, Fields DEF CallRecords
  <2> QED
    BY <2>2, <2>3, <2>4, OwnCall
<1>2. CASE EndTranReply
  <2>1. PICK r \in PossibleReplies :
          /\ SendAndReceive(r)
          /\ IF r.st = "ok" THEN handle' = Invalidated ELSE handle' = handle
          /\ call' = Idle
    BY <1>2, Ends DEF EndTranReply
  <2>2. call.pkt.fc \in {"Commit", "Rollback", "None"}
    BY <1>2, <1>t DEF EndTranReply, CallShape, FcsOf
  <2>3. HandleState'
    BY <1>2, <1>i, <2>1, <2>2, ExchangeKept DEF EndTranReply
  <2> QED
    BY <2>1, <2>3, OwnCall
<1>3. ~SetAutocommitReply
  BY OtherOps DEF SetAutocommitReply
<1>4. CASE QueryReply
  <2>1. PICK r \in PossibleReplies : SendAndReceive(r) /\ call' = Idle
    BY <1>4, Ends DEF QueryReply
  <2>2. call.pkt.fc \notin {"CloseQuery", "Commit", "Rollback"}
    BY <1>4, <1>t DEF QueryReply, CallShape, FcsOf
  <2>3. HandleState'
    BY <1>4, <1>h, <2>1, <2>2 DEF QueryReply
  <2> QED
    BY <2>1, <2>3, OwnCall
<1>5. ASSUME NEW r \in PossibleReplies, SendAndReceive(r), CursorClosed(call.cur),
             call.pkt.fc \in {"None", "CloseQuery"}, call.cur \in Cursors
      PROVE  HandleState'
  <2>1. \A c \in Cursors : /\ handle'[c] = IF c = call.cur THEN None ELSE handle[c]
                          /\ result'[c] = result[c]
    BY <1>5, <1>t DEF CursorClosed, TypeOK
  <2> QED
    BY <1>5, <2>1, ExchangeKept
<1>6. CASE CloseCursorReply
  <2>1. PICK r \in PossibleReplies : SendAndReceive(r)
    BY <1>6 DEF CloseCursorReply
  <2>2. call.cur \in Cursors
    BY <1>6, <1>t DEF CloseCursorReply, CallHasCursor
  <2>3. HandleState'
    BY <1>5, <1>6, <2>1, <2>2 DEF CloseCursorReply
  <2>4. call' = [call EXCEPT !.todo = call.todo \ {call.cur}, !.cur = None,
                             !.pkt = NoPacket, !.step = "loop"]
    BY <1>6 DEF CloseCursorReply
  <2>5. /\ call'.op = "close" /\ call'.step = "loop" /\ call'.pkt = NoPacket
        /\ "close" \in Api
    BY <1>6, <1>t, <2>4 DEF CloseCursorReply, CallRecords, CalledApi
  <2> QED
    BY <2>3, <2>5, Fields, OwnCall
<1>7. CASE CloseDatabaseReply
  <2>1. PICK r \in PossibleReplies : SendAndReceive(r)
    BY <1>7 DEF CloseDatabaseReply
  <2>2. HandleState'
    BY <1>7, <1>h, <2>1 DEF CloseDatabaseReply
  <2>3. /\ call'.op = "close" /\ call'.step = "cleanup" /\ call'.pkt = NoPacket
        /\ "close" \in Api
    BY <1>7, <1>t DEF CloseDatabaseReply, CallRecords, CalledApi
  <2> QED
    BY <2>2, <2>3, Fields, OwnCall
<1>8. CASE CursorCloseReply
  <2>1. PICK r \in PossibleReplies : SendAndReceive(r) /\ call' = Idle
    BY <1>8, Ends DEF CursorCloseReply
  <2>2. call.cur \in Cursors /\ call.pkt.fc \in {"None", "CloseQuery"}
    BY <1>8, <1>t DEF CursorCloseReply, CallHasCursor, CursorOps, CallShape, FcsOf
  <2>3. HandleState'
    BY <1>5, <1>8, <2>1, <2>2 DEF CursorCloseReply
  <2> QED
    BY <2>1, <2>3, OwnCall
<1>9. CASE ExecuteCloseReply
  <2>1. PICK r \in PossibleReplies :
          /\ SendAndReceive(r)
          /\ \/ /\ r.st = "ok"
                /\ handle' = [handle EXCEPT ![call.cur] = None]
                /\ \/ call' = Idle
                   \/ \E s : SendNext(PrepareAndExecutePacket(s, autocommit))
             \/ r.st # "ok" /\ call' = Idle /\ handle' = handle
    BY <1>9, Ends DEF ExecuteCloseReply
  <2>2. call.cur \in Cursors /\ call.op \in Api /\ result' = result
        /\ call.pkt.fc = "CloseQuery"
    BY <1>9, <1>t DEF ExecuteCloseReply, CallHasCursor, CursorOps, CalledApi
  <2>3. \A c \in Cursors :
          \/ handle'[c] = handle[c] /\ (c = call.cur => r.st # "ok")
          \/ handle'[c] = None
    BY <1>t, <2>1, <2>2 DEF TypeOK
  <2>4. HandleState'
    BY <2>1, <2>2, <2>3, ExchangeKept
  <2>5. ASSUME NEW s, SendNext(PrepareAndExecutePacket(s, autocommit)),
               handle' = [handle EXCEPT ![call.cur] = None]
        PROVE  CalledApi' /\ NewSession' /\ PacketHandle'
    <3>1. handle'[call.cur] = None
      BY <1>t, <2>2, <2>5 DEF TypeOK
    <3> QED
      BY <1>n, <2>2, <2>5, <3>1, Fields
  <2> QED
    BY <2>1, <2>4, <2>5, OwnCall
<1>10. CASE ExecuteReply
  <2>1. PICK r \in PossibleReplies :
          /\ SendAndReceive(r)
          /\ \/ /\ r.st = "ok"
                /\ \E s \in r.done :
                     /\ handle' = [handle EXCEPT ![call.cur] = r.h]
                     /\ result' = [result EXCEPT ![call.cur] = ResultOf(s, r.rows)]
                     /\ SendNext(GetLastInsertIdPacket) \/ call' = Idle
             \/ r.st # "ok" /\ call' = Idle /\ handle' = handle /\ result' = result
    BY <1>10, Ends DEF ExecuteReply
  <2>2. call.op \in Api /\ call.pkt.fc = "PrepareAndExecute"
    BY <1>10, <1>t DEF ExecuteReply, CalledApi
  <2>3. HandleState'
    BY <1>h, <2>1, <2>2, ExecuteHandles
  <2> QED
    BY <1>n, <2>1, <2>2, <2>3, Fields, OwnCall
<1>11. CASE LastRowIdReply
  <2>1. PICK r \in PossibleReplies :
          /\ SendAndReceive(r)
          /\ CASE r.st \in {"ok", "operr"} -> Return
               [] r.st = "error" -> Raise
               [] r.st = "unparsed" -> Return \/ Raise
    BY <1>11 DEF LastRowIdReply
  <2>2. call' = Idle
    <3>1. r.st \in {"ok", "operr", "error", "unparsed"}
      BY <1>r DEF Replies, ReplyStates
    <3> QED
      BY <2>1, <3>1, Ends
  <2>3. HandleState'
    BY <1>11, <1>h, <2>1 DEF LastRowIdReply
  <2> QED
    BY <2>2, <2>3, OwnCall
<1>12. CASE ExecutemanyBatchReply
  <2>1. PICK r \in PossibleReplies :
          /\ SendAndReceive(r) /\ call' = Idle
          /\ \/ /\ result' = [result EXCEPT ![call.cur] = WithoutRows(result[call.cur])]
                /\ handle' = [handle EXCEPT ![call.cur] = None]
             \/ handle' = handle /\ result' = result
    BY <1>12, Ends DEF ExecutemanyBatchReply
  <2>2. call.pkt.fc \in {"None", "ExecuteBatch"}
    BY <1>12, <1>t DEF ExecutemanyBatchReply, CallShape, FcsOf
  <2>3. \A c \in Cursors : /\ result'[c].stmt = result[c].stmt
                          /\ handle'[c] \in {handle[c], None}
    BY <1>t, <2>1 DEF WithoutRows, TypeOK
  <2>4. HandleState'
    BY <2>1, <2>2, <2>3, ExchangeKept
  <2> QED
    BY <2>1, <2>4, OwnCall
<1>13. CASE FetchReply
  <2>1. call.op \in {"fetchmany", "fetchall"} /\ call.cur \in Cursors /\ call.op \in Api
    BY <1>13, <1>t DEF FetchReply, CallHasCursor, CursorOps, CalledApi
  <2>2. PICK r \in PossibleReplies :
          /\ SendAndReceive(r)
          /\ \/ Take(call.op, call.cur, result[call.cur].rows \o r.rows, call.want)
             \/ call' = Idle /\ result' = result
    BY <1>13, Ends DEF FetchReply
  <2>3. result[call.cur].rows \o r.rows \in Seq(Stmts \X Nat) /\ call.want \in Nat
    BY <1>r, <1>t, <2>1 DEF TypeOK, ResultRecords, Replies, CallRecords
  <2>4. handle' = handle /\ call.pkt.fc \in {"None", "Fetch"}
    BY <1>13, <1>t DEF FetchReply, CallShape, FcsOf
  <2>5. CASE call' = Idle /\ result' = result
    BY <1>h, <2>2, <2>4, <2>5, OwnCall
  <2>6. CASE Take(call.op, call.cur, result[call.cur].rows \o r.rows, call.want)
    <3>1. PICK index \in Nat :
            TakeTo(call.op, call.cur, result[call.cur].rows \o r.rows, index)
      BY <1>t, <2>1, <2>3, <2>6, TakeParts
    <3>2. \A c \in Cursors : result'[c].stmt = result[c].stmt
      BY <1>t, <2>1, <3>1 DEF TakeTo, Moved, TypeOK
    <3>3. HandleState'
      BY <1>h, <2>2, <2>4, <3>2
    <3>4. \/ call' = Idle
          \/ /\ call'.op = call.op /\ call'.cur = call.cur /\ call'.step = "send"
             /\ call'.pkt = FetchPacket(handle[call.cur], index)
      BY <3>1, Ends DEF TakeTo
    <3> QED
      BY <2>1, <2>4, <3>3, <3>4, Fields, Parts, OwnCall
  <2> QED
    BY <2>2, <2>5, <2>6
<1> QED
  BY <1>1, <1>2, <1>3, <1>4, <1>6, <1>7, <1>8, <1>9, <1>10, <1>11, <1>12, <1>13

\* The steps of close() between two exchanges.
LEMMA OwnCloseStep ==
  ASSUME OwnInv, (\E c \in Cursors : CloseCursor(c)) \/ CloseDatabase
  PROVE  CalledApi' /\ HandleState' /\ NewSession' /\ PacketHandle'
<1> USE DEF connectionVars, cursorVars, transportVars, serverVars
<1>t. /\ TypeOK /\ Tracked /\ CalledApi /\ HandleState
      /\ call \in CallRecords
  BY DEF OwnInv, TrackInv, CommitInv, TypeInv, TypeOK
<1>1. ASSUME NEW c \in Cursors, CloseCursor(c)
      PROVE  CalledApi' /\ HandleState' /\ NewSession' /\ PacketHandle'
  <2>1. \A d \in Cursors : handle'[d] \in {handle[d], None} /\ result'[d] = result[d]
    BY <1>1, <1>t DEF CloseCursor, CursorClosed, TypeOK
  <2>2. HandleState'
    BY <1>1, <1>t, <2>1, HandlesKept DEF CloseCursor
  <2>3. /\ call'.op = "close" /\ "close" \in Api
        /\ call.pkt.fc \in {"None", "CloseDatabase"}
    BY <1>1, <1>t DEF CloseCursor, Tracked, CalledApi, CallRecords
  <2>4. CASE handle[c] # None /\ connected
    <3>1. /\ call' = [call EXCEPT !.cur = c, !.step = "send",
                                 !.pkt = CloseQueryPacket(handle[c])]
          /\ handle' = handle
      BY <1>1, <2>4 DEF CloseCursor
    <3>2. /\ call'.cur = c /\ call'.step = "send"
          /\ call'.pkt = CloseQueryPacket(handle[c])
      BY <1>t, <3>1 DEF CallRecords
    <3> QED
      BY <2>2, <2>3, <3>1, <3>2, Fields, Parts, OwnCall
  <2>5. CASE ~(handle[c] # None /\ connected)
    <3>1. call' = [call EXCEPT !.todo = call.todo \ {c}]
      BY <1>1, <2>5 DEF CloseCursor
    <3>2. call'.step = "loop" /\ call'.pkt = call.pkt
      BY <1>1, <1>t, <3>1 DEF CloseCursor, CallRecords
    <3> QED
      BY <2>2, <2>3, <3>2, OwnCall
  <2> QED
    BY <2>4, <2>5
<1>2. CASE CloseDatabase
  <2>1. HandleState'
    BY <1>2, <1>t, HandlesKept DEF CloseDatabase
  <2>2. /\ call'.op = "close" /\ call'.step = "send" /\ call'.pkt = CloseDatabasePacket
        /\ "close" \in Api
    BY <1>2, <1>t DEF CloseDatabase, SendNext, CalledApi, CallRecords
  <2> QED
    BY <2>1, <2>2, Fields, OwnCall
<1> QED
  BY <1>1, <1>2

\* The initial states.
LEMMA OwnInit == Init => CalledApi /\ HandleState /\ NewSession /\ PacketHandle
  BY Fields DEF Init, Idle, CalledApi, HandleState, HandlesOwned, HandlesDistinct,
                HandlesOfStmts, NewSession, PacketHandle

\* Every step.
LEMMA OwnStep ==
  ASSUME OwnInv, TrackInv', [Next]_vars
  PROVE  OwnInv'
<1>1. CalledApi' /\ HandleState' /\ NewSession' /\ PacketHandle'
  <2>1. CASE UNCHANGED vars
    BY <2>1 DEF OwnInv, CalledApi, HandleState, HandlesOwned, HandlesDistinct,
                HandlesOfStmts, NewSession, PacketHandle, vars, serverVars,
                connectionVars, transportVars, cursorVars
  <2>2. CASE Invocation \/ SessionLost
    BY <2>2, OwnInvocation, OwnSessionStep
  <2>3. CASE DriverStep
    BY <2>3, OwnSessionStep, OwnExchange, OwnCloseStep DEF DriverStep
  <2> QED
    BY <2>1, <2>2, <2>3 DEF Next
<1>2. AutocommitFixed'
  BY DEF OwnInv, AutocommitFixed
<1> QED
  BY <1>1, <1>2 DEF OwnInv

\* And so it is in every behaviour.
LEMMA OwnInvariant == AutocommitFixed /\ Spec => []OwnInv
<1>1. AutocommitFixed /\ Init /\ TrackInv => OwnInv
  BY OwnInit DEF OwnInv
<1>2. OwnInv /\ TrackInv' /\ [Next]_vars => OwnInv'
  BY OwnStep
<1> QED
  BY <1>1, <1>2, TrackInvariant, PTL DEF Spec

\* A handle that a cursor would send on a live session stands there for the
\* cursor's own statement: no reconnect, commit or failed request leaves a cursor
\* with a number that the server has freed and given to another.
THEOREM HandlesAreOwned == AutocommitFixed /\ Spec => []HandlesOwned
  BY OwnInvariant, PTL DEF OwnInv, HandleState

(***************************************************************************)
(* Part 3, the rows.  A buffer is read to its end before more is asked for *)
(* and the FETCH asks for the row after the last: with the handle its own, *)
(* what comes is what was missing.                                         *)
(***************************************************************************)
BufferInv ==
  /\ \A c \in Cursors : result[c].index <= Len(result[c].rows)
  /\ call.op \in {"fetchmany", "fetchall"} /\ call.pkt.fc = "Fetch"
       => call.pkt.from = Len(result[call.cur].rows) + 1

RowInv == OwnInv /\ RowsOwned /\ BufferInv

\* What a fetch takes from rows that are the cursor's.
LEMMA RowsTake ==
  ASSUME RowInv, NEW op \in {"fetchmany", "fetchall"}, NEW c \in Cursors,
         NEW rows \in Seq(Stmts \X Nat), NEW want \in Nat, Take(op, c, rows, want),
         rows = RowsOf(result[c].stmt, 1, Len(rows)),
         Len(result[c].rows) <= Len(rows)
  PROVE  RowsOwned' /\ BufferInv'
<1>t. TypeInv /\ TypeOK /\ RowsOwned /\ BufferInv
  BY DEF RowInv, OwnInv, TrackInv, CommitInv, TypeInv
<1>1. PICK index \in Nat : TakeTo(op, c, rows, index)
  BY <1>t, TakeParts
<1>2. /\ result' \in [Cursors -> ResultRecords]
      /\ \A d \in Cursors \ {c} : result'[d] = result[d]
      /\ result'[c].stmt = result[c].stmt /\ result'[c].rows = rows
      /\ result'[c].index = index
  <2>1. result' \in [Cursors -> ResultRecords]
    BY <1>t, TakeType
  <2> QED
    BY <1>t, <1>1, <2>1 DEF TakeTo, Moved, TypeOK
<1>3. result[c].index <= Len(rows) /\ Len(rows) \in Nat
  <2>1. /\ result[c].index <= Len(result[c].rows) /\ result[c].index \in Nat
        /\ Len(result[c].rows) \in Nat /\ Len(rows) \in Nat
    BY <1>t DEF BufferInv, TypeOK, ResultRecords
  <2> QED
    BY <2>1
<1>4. RowsOwned'
  BY <1>t, <1>2 DEF RowsOwned
<1>5. \A d \in Cursors : result'[d].index <= Len(result'[d].rows)
  BY <1>t, <1>1, <1>2, <1>3 DEF TakeTo, BufferInv
<1>6. CASE Return
  BY <1>4, <1>5, <1>6, Ends DEF BufferInv
<1>7. CASE call'.cur = c /\ call'.pkt = FetchPacket(handle[c], index) /\ index = Len(rows)
  BY <1>2, <1>4, <1>5, <1>7, Parts DEF BufferInv
<1> QED
  BY <1>1, <1>3, <1>6, <1>7 DEF TakeTo

\* Steps that change no result and build no FETCH.
LEMMA RowsKept ==
  ASSUME RowInv,
         \A c \in Cursors :
           \/ result'[c] = result[c]
           \/ result'[c].rows = <<>> /\ result'[c].index = 0,
         \/ call'.pkt.fc # "Fetch"
         \/ call'.op \notin {"fetchmany", "fetchall"}
         \/ /\ call'.op = call.op /\ call'.pkt = call.pkt /\ call'.cur = call.cur
            /\ result' = result
  PROVE  RowsOwned' /\ BufferInv'
<1>t. RowsOwned /\ BufferInv
  BY DEF RowInv
<1>1. \A s : RowsOf(s, 1, Len(<<>>)) = <<>>
  BY DEF RowsOf
<1>2. RowsOwned'
  BY <1>t, <1>1 DEF RowsOwned
<1> QED
  BY <1>t, <1>2 DEF BufferInv

\* A FETCH that succeeds brings the rows that follow those of the buffer.
LEMMA RowsFetched ==
  ASSUME RowInv, NEW r \in PossibleReplies, SendAndReceive(r), r.st = "ok",
         call.op \in {"fetchmany", "fetchall"}, call.pkt.fc = "Fetch"
  PROVE  \E n \in Nat :
           result[call.cur].rows \o r.rows = RowsOf(result[call.cur].stmt, 1, n)
<1>t. /\ TypeOK /\ ServerTypeOK /\ CallHasCursor /\ call.pkt \in Packets
      /\ HandlesOwned /\ NewSession /\ PacketHandle /\ RowsOwned /\ BufferInv
      /\ cursors \subseteq Cursors
  BY DEF RowInv, OwnInv, HandleState, TrackInv, CommitInv, TypeInv, TypeOK, CallRecords
<1>c. call.cur \in Cursors
  BY <1>t DEF CallHasCursor, CursorOps
<1>1. connected /\ up /\ call.step \in {"send", "exchange"}
  BY ReplyOk DEF Ready, Serve
<1>2. PICK o \in Outcomes(call.pkt) : o.reply = r
  BY ReplyOk
<1>3. PICK k \in Nat : /\ call.pkt.h \in Handles /\ open[call.pkt.h] \in Stmts
                      /\ r.rows = RowsOf(open[call.pkt.h], call.pkt.from, k)
  BY <1>t, <1>2, FetchAnswer
<1>4. call.step = "send"
  BY <1>1, <1>3, <1>t, NoneAssumption DEF NewSession, NoHandles
<1>5. open[call.pkt.h] = result[call.cur].stmt
  BY <1>1, <1>3, <1>4, <1>c, <1>t, NoneAssumption DEF PacketHandle, HandlesOwned
<1> DEFINE n == Len(result[call.cur].rows)
           s == result[call.cur].stmt
<1>6. n \in Nat /\ call.pkt.from = n + 1 /\ result[call.cur].rows = RowsOf(s, 1, n)
  BY <1>c, <1>t DEF TypeOK, ResultRecords, BufferInv, RowsOwned
<1>7. r.rows = RowsOf(s, n + 1, k)
  BY <1>3, <1>5, <1>6
<1> HIDE DEF n, s
<1>8. n \in Nat /\ k \in Nat
  BY <1>3, <1>6
<1>9. RowsOf(s, 1, n) \o RowsOf(s, n + 1, k) = RowsOf(s, 1, n + k)
  BY <1>8, RowsOfJoin, Zenon
<1>10. result[call.cur].rows \o r.rows = RowsOf(s, 1, n + k) /\ n + k \in Nat
  BY <1>6, <1>7, <1>8, <1>9
<1> QED
  BY <1>10 DEF s

\* A sequence is no shorter for what is appended to it.
LEMMA JoinLonger ==
  ASSUME NEW S, NEW a \in Seq(S), NEW b \in Seq(S)
  PROVE  a \o b \in Seq(S) /\ Len(a) <= Len(a \o b)
  OBVIOUS

\* Some first rows of a statement are as many as they are.
LEMMA RowsLength ==
  ASSUME NEW s, NEW n \in Nat
  PROVE  Len(RowsOf(s, 1, n)) = n
  BY DEF RowsOf

\* The application's calls.
LEMMA RowsInvocation ==
  ASSUME RowInv, Invocation
  PROVE  RowsOwned' /\ BufferInv'
<1> USE DEF connectionVars, cursorVars
<1>t. TypeOK /\ CallShape /\ RowsOwned
  BY DEF RowInv, OwnInv, TrackInv, CommitInv, TypeInv
<1>1. CASE ConnectCall \/ PingCall \/ EndTranCall \/ SetAutocommitCall \/ QueryCall
           \/ CloseCall
  <2>1. /\ result' = result
        /\ call'.op \in {"connect", "ping", "commit", "rollback", "set_autocommit",
                         "get_server_version", "get_last_insert_id", "get_schema_info",
                         "close", "none"}
    <3>1. CASE ConnectCall \/ PingCall \/ CloseCall
      BY <3>1, Ends DEF ConnectCall, PingCall, CloseCall, Begin, Idle
    <3>2. CASE EndTranCall \/ QueryCall
      BY <3>2, Fields DEF EndTranCall, QueryCall
    <3>3. CASE SetAutocommitCall
      BY <3>3 DEF SetAutocommitCall, Begin
    <3> QED
      BY <1>1, <3>1, <3>2, <3>3
  <2> QED
    BY <2>1, RowsKept
<1>2. ASSUME NEW c \in Cursors, NewCursor(c)
      PROVE  RowsOwned' /\ BufferInv'
  <2>1. call'.pkt.fc # "Fetch"
    BY <1>2, <1>t DEF NewCursor, Invoke, IsIdle, CallShape, FcsOf
  <2>2. \A d \in Cursors : \/ result'[d] = result[d]
                           \/ result'[d].rows = <<>> /\ result'[d].index = 0
    BY <1>2, <1>t DEF NewCursor, NoResult, TypeOK
  <2> QED
    BY <2>1, <2>2, RowsKept
<1>3. ASSUME NEW c \in Cursors, CursorCloseCall(c)
      PROVE  RowsOwned' /\ BufferInv'
  <2>1. /\ result' = result
        /\ call' = Idle \/ call' = Begin("cursor_close", c, CloseQueryPacket(handle[c]))
    BY <1>3, Ends DEF CursorCloseCall, CursorClosed
  <2>2. call'.pkt.fc # "Fetch"
    BY <2>1, Fields
  <2> QED
    BY <2>1, <2>2, RowsKept
<1>4. ASSUME NEW c \in Cursors, ExecuteCall(c) \/ ExecutemanyBatchCall(c)
      PROVE  RowsOwned' /\ BufferInv'
  <2>1. result' = result /\ call'.op \in {"execute", "executemany_batch"}
    BY <1>4 DEF ExecuteCall, ExecutemanyBatchCall, Begin
  <2> QED
    BY <2>1, RowsKept
<1>5. ASSUME NEW c \in Cursors, FetchmanyCall(c) \/ FetchallCall(c)
      PROVE  RowsOwned' /\ BufferInv'
  <2>1. PICK op \in {"fetchmany", "fetchall"}, n \in Nat : Take(op, c, result[c].rows, n)
    BY <1>5, WantSizesAssumption DEF FetchmanyCall, FetchallCall
  <2>2. /\ result[c].rows \in Seq(Stmts \X Nat)
        /\ Len(result[c].rows) <= Len(result[c].rows)
        /\ result[c].rows = RowsOf(result[c].stmt, 1, Len(result[c].rows))
    BY <1>t DEF TypeOK, ResultRecords, RowsOwned
  <2> QED
    BY <2>1, <2>2, RowsTake
<1> QED
  BY <1>1, <1>2, <1>3, <1>4, <1>5 DEF Invocation

\* The steps of the driver's code.
LEMMA RowsDriverStep ==
  ASSUME RowInv, DriverStep
  PROVE  RowsOwned' /\ BufferInv'
<1> USE DEF connectionVars, cursorVars, NoCursorChange
<1>t. /\ OwnInv /\ TypeInv /\ TypeOK /\ CallShape /\ CallHasCursor
      /\ RowsOwned /\ BufferInv
      /\ call \in CallRecords /\ cursors \subseteq Cursors
  BY DEF RowInv, OwnInv, TrackInv, CommitInv, TypeInv, TypeOK
<1>k. ASSUME result' = result, call' = Idle \/ call'.op \notin {"fetchmany", "fetchall"}
      PROVE  RowsOwned' /\ BufferInv'
  BY <1>k, Fields, RowsKept
<1>1. CASE CheckReconnect \/ Reconnected
  <2>1. /\ result' = result
        /\ call'.op = call.op /\ call'.pkt = call.pkt /\ call'.cur = call.cur
    BY <1>1, <1>t DEF CheckReconnect, Reconnected, CallRecords
  <2> QED
    BY <2>1, RowsKept
<1>2. CASE ConnectDone \/ PingReply \/ PingDrop \/ PingConnect \/ EndTranReply
           \/ SetAutocommitReply \/ QueryReply \/ CloseSocket \/ CursorCloseReply
           \/ ExecuteCloseReply \/ LastRowIdReply
  <2>1. result' = result
    BY <1>2 DEF ConnectDone, PingReply, PingDrop, PingConnect, EndTranReply,
       SetAutocommitReply, QueryReply, CloseSocket, CursorCloseReply, CursorClosed,
       ExecuteCloseReply, LastRowIdReply
  <2>2. CASE ConnectDone \/ PingDrop \/ PingConnect \/ EndTranReply \/ QueryReply
             \/ CloseSocket \/ CursorCloseReply
    <3>1. call' = Idle \/ call'.op = "ping"
      BY <2>2, <1>t, Ends DEF ConnectDone, PingDrop, PingConnect, EndTranReply,
         QueryReply, CloseSocket, CursorCloseReply, CallRecords
    <3> QED
      BY <1>k, <2>1, <3>1
  <2>3. CASE PingReply
    <3>1. call' = Idle \/ call' = [call EXCEPT !.step = "cleanup", !.pkt = NoPacket]
      BY <2>3, Ends DEF PingReply
    <3>2. call' = Idle \/ call'.op = "ping"
      BY <2>3, <1>t, <3>1 DEF PingReply, CallRecords
    <3> QED
      BY <1>k, <2>1, <3>2
  <2>4. CASE SetAutocommitReply
    BY <2>4, <1>t, OtherOps DEF SetAutocommitReply
  <2>5. CASE ExecuteCloseReply
    <3>1. call' = Idle \/ \E s : SendNext(PrepareAndExecutePacket(s, autocommit))
      BY <2>5, Ends DEF ExecuteCloseReply
    <3>2. call' = Idle \/ call'.op = "execute"
      BY <2>5, <1>t, <3>1 DEF ExecuteCloseReply, SendNext, CallRecords
    <3> QED
      BY <1>k, <2>1, <3>2
  <2>6. CASE LastRowIdReply
    <3>1. PICK r \in PossibleReplies :
            CASE r.st \in {"ok", "operr"} -> Return
              [] r.st = "error" -> Raise
              [] r.st = "unparsed" -> Return \/ Raise
      BY <2>6 DEF LastRowIdReply
    <3>2. r.st \in {"ok", "operr", "error", "unparsed"}
      BY <1>t, PossibleRepliesType DEF Replies, ReplyStates
    <3>3. call' = Idle
      BY <3>1, <3>2, Ends
    <3> QED
      BY <1>k, <2>1, <3>3
  <2> QED
    BY <1>2, <2>2, <2>3, <2>4, <2>5, <2>6
<1>3. CASE (\E c \in Cursors : CloseCursor(c)) \/ CloseCursorReply \/ CloseDatabase
           \/ CloseDatabaseReply
  <2>1. result' = result /\ call'.op = "close"
    <3>1. ASSUME NEW c \in Cursors, CloseCursor(c)
          PROVE  result' = result /\ call'.op = "close"
      BY <1>t, <3>1 DEF CloseCursor, CursorClosed, CallRecords
    <3>2. CASE CloseCursorReply
      <4>1. /\ call' = [call EXCEPT !.todo = call.todo \ {call.cur}, !.cur = None,
                                   !.pkt = NoPacket, !.step = "loop"]
            /\ call.op = "close" /\ result' = result
        BY <3>2 DEF CloseCursorReply, CursorClosed
      <4> QED
        BY <1>t, <4>1 DEF CallRecords
    <3>3. CASE CloseDatabase \/ CloseDatabaseReply
      BY <1>t, <3>3 DEF CloseDatabase, CloseDatabaseReply, SendNext, CallRecords
    <3> QED
      BY <1>3, <3>1, <3>2, <3>3
  <2> QED
    BY <1>k, <2>1
<1>4. CASE ExecuteReply
  <2>1. PICK r \in PossibleReplies :
          /\ SendAndReceive(r)
          /\ \/ /\ r.st = "ok"
                /\ \E s \in r.done :
                     /\ handle' = [handle EXCEPT ![call.cur] = r.h]
                     /\ result' = [result EXCEPT ![call.cur] = ResultOf(s, r.rows)]
                     /\ SendNext(GetLastInsertIdPacket) \/ call' = Idle
             \/ r.st # "ok" /\ call' = Idle /\ result' = result
    BY <1>4, Ends DEF ExecuteReply
  <2>2. /\ call.op = "execute" /\ call.cur \in Cursors
        /\ call.pkt.fc = "PrepareAndExecute"
    BY <1>4, <1>t DEF ExecuteReply, CallHasCursor, CursorOps
  <2>3. call' = Idle \/ call'.op = "execute"
    BY <1>t, <2>1, <2>2 DEF SendNext, CallRecords
  <2>4. CASE r.st # "ok"
    BY <1>k, <2>1, <2>4
  <2>5. CASE r.st = "ok"
    <3>1. PICK s \in r.done :
            /\ handle' = [handle EXCEPT ![call.cur] = r.h]
            /\ result' = [result EXCEPT ![call.cur] = ResultOf(s, r.rows)]
      BY <2>1, <2>5
    <3>2. PICK n \in Nat : r.rows = RowsOf(s, 1, n)
      BY <1>t, <2>1, <2>2, <2>5, <3>1, ExecuteHandles
    <3>3. Len(r.rows) = n
      BY <3>2, RowsLength
    <3>4. /\ \A d \in Cursors \ {call.cur} : result'[d] = result[d]
          /\ result'[call.cur].stmt = s /\ result'[call.cur].rows = r.rows
          /\ result'[call.cur].index = 0
      BY <1>t, <2>2, <3>1 DEF ResultOf, TypeOK
    <3>5. RowsOwned'
      BY <1>t, <3>2, <3>3, <3>4 DEF RowsOwned
    <3>6. \A d \in Cursors : result'[d].index <= Len(result'[d].rows)
      BY <1>t, <3>3, <3>4 DEF BufferInv
    <3> QED
      BY <2>3, <3>5, <3>6, Fields DEF BufferInv
  <2> QED
    BY <2>4, <2>5
<1>5. CASE ExecutemanyBatchReply
  <2>1. /\ call' = Idle
        /\ \/ result' = [result EXCEPT ![call.cur] = WithoutRows(result[call.cur])]
           \/ result' = result
    BY <1>5, Ends DEF ExecutemanyBatchReply
  <2>2. \A d \in Cursors : \/ result'[d] = result[d]
                           \/ result'[d].rows = <<>> /\ result'[d].index = 0
    BY <1>t, <2>1 DEF WithoutRows, TypeOK
  <2> QED
    BY <2>1, <2>2, Fields, RowsKept
<1>6. CASE FetchReply
  <2>1. call.op \in {"fetchmany", "fetchall"} /\ call.cur \in Cursors
    BY <1>6, <1>t DEF FetchReply, CallHasCursor, CursorOps
  <2>2. PICK r \in PossibleReplies :
          /\ SendAndReceive(r)
          /\ \/ /\ r.st = "ok" /\ r.rows # <<>>
                /\ Take(call.op, call.cur, result[call.cur].rows \o r.rows, call.want)
             \/ call' = Idle /\ result' = result
    BY <1>6, Ends DEF FetchReply
  <2>3. CASE call' = Idle /\ result' = result
    BY <1>k, <2>3
  <2>4. CASE /\ r.st = "ok" /\ r.rows # <<>>
             /\ Take(call.op, call.cur, result[call.cur].rows \o r.rows, call.want)
    <3>1. r \in Replies /\ call.want \in Nat /\ result[call.cur] \in ResultRecords
      BY <1>t, <2>1, PossibleRepliesType DEF TypeOK, CallRecords
    <3> DEFINE rows == result[call.cur].rows \o r.rows
    <3>2. rows \in Seq(Stmts \X Nat) /\ Len(result[call.cur].rows) <= Len(rows)
      <4>1. result[call.cur].rows \in Seq(Stmts \X Nat) /\ r.rows \in Seq(Stmts \X Nat)
        BY <3>1 DEF ResultRecords, Replies
      <4> QED
        BY <4>1, JoinLonger
    <3>3. call.pkt.fc = "Fetch"
      <4>1. call.pkt.fc \in {"None", "Fetch"}
        BY <1>t, <2>1 DEF CallShape, FcsOf
      <4>2. PICK o \in Outcomes(call.pkt) : o.reply = r
        BY <2>2, <2>4, ReplyOk
      <4>3. /\ \A a : Answer(a).reply = a
            /\ Failed("error").rows = <<>> /\ OkReply.rows = <<>>
        BY DEF Answer, Outcome, Failed, OkReply, Reply
      <4>4. call.pkt.fc = "None" => o \in {Answer(Failed("error")), Answer(OkReply)}
        BY <4>2 DEF Outcomes
      <4> QED
        BY <2>4, <4>1, <4>2, <4>3, <4>4
    <3>4. PICK n \in Nat : rows = RowsOf(result[call.cur].stmt, 1, n)
      BY <2>1, <2>2, <2>4, <3>3, RowsFetched
    <3>5. Len(rows) = n
      BY <3>4, RowsLength
    <3> HIDE DEF rows
    <3>6. Take(call.op, call.cur, rows, call.want)
      BY <2>4 DEF rows
    <3> QED
      BY <2>1, <3>1, <3>2, <3>4, <3>5, <3>6, RowsTake
  <2> QED
    BY <2>2, <2>3, <2>4
<1> QED
  BY <1>1, <1>2, <1>3, <1>4, <1>5, <1>6 DEF DriverStep

\* Every step.
LEMMA RowStep ==
  ASSUME RowInv, OwnInv', [Next]_vars
  PROVE  RowInv'
<1>1. CASE SessionLost
  <2>1. call' = call /\ result' = result
    BY <1>1 DEF SessionLost, cursorVars
  <2> QED
    BY <2>1, RowsKept DEF RowInv
<1>2. CASE UNCHANGED vars
  BY <1>2, RowsKept DEF RowInv, vars, cursorVars
<1> QED
  BY <1>1, <1>2, RowsInvocation, RowsDriverStep DEF RowInv, Next

\* And so it is in every behaviour.
LEMMA RowInvariant == AutocommitFixed /\ Spec => []RowInv
<1>1. Init => RowsOwned /\ BufferInv
  <2>1. \A s : RowsOf(s, 1, Len(<<>>)) = <<>>
    BY DEF RowsOf
  <2> QED
    BY <2>1, Fields DEF Init, NoResult, RowsOwned, BufferInv
<1>2. Init /\ OwnInv => RowInv
  BY <1>1 DEF RowInv
<1>3. RowInv /\ OwnInv' /\ [Next]_vars => RowInv'
  BY RowStep
<1> QED
  BY <1>2, <1>3, OwnInvariant, PTL DEF Spec

\* The rows a cursor buffers are the first rows of the statement it ran, in order,
\* none twice and none of another's, whatever commits, reconnects, closes and
\* failed requests come between two FETCHes.
THEOREM RowsAreOwned == AutocommitFixed /\ Spec => []RowsOwned
  BY RowInvariant, PTL DEF RowInv
(***************************************************************************)
(* Part 4, the promise of ResultSets.tla.  A SELECT's buffer never holds   *)
(* more than its result, and a fetch on its way has rows to ask for: a     *)
(* FETCH that succeeds brings some, and never goes past the end.           *)
(***************************************************************************)
FetchOps == {"fetchmany", "fetchall"}

WithinResult ==
  \A c \in Cursors :
    IF result[c].desc
    THEN /\ result[c].stmt \in Stmts
         /\ result[c].total = Size[result[c].stmt]
         /\ Len(result[c].rows) <= result[c].total
    ELSE result[c].rows = <<>> /\ result[c].index = 0

FetchHasMore ==
  call.op \in FetchOps =>
    /\ call.pkt.fc = "Fetch"
    /\ result[call.cur].desc
    /\ Len(result[call.cur].rows) < result[call.cur].total

ResultInv == RowInv /\ WithinResult /\ FetchHasMore

(***************************************************************************)
(* What a step may do to the result sets.                                  *)
(***************************************************************************)
\* Handles may go; a fetch under way stays what it is.
HandlesGo ==
  /\ result' = result
  /\ \A c \in Cursors : handle'[c] \in {handle[c], None}
  /\ \/ call'.op \notin FetchOps
     \/ call'.op = call.op /\ call'.pkt = call.pkt /\ call'.cur = call.cur

OthersKeep(c) ==
  \A d \in Cursors \ {c} : result'[d] = result[d] /\ handle'[d] = handle[d]

\* Cursor c has no result set any more.
ResultEnds(c) ==
  /\ OthersKeep(c)
  /\ ~result'[c].desc /\ result'[c].rows = <<>> /\ result'[c].index = 0
  /\ call'.op \notin FetchOps

\* Cursor c has run the SELECT s.
ResultOpens(c, s) ==
  /\ OthersKeep(c)
  /\ handle'[c] # None
  /\ result'[c].desc /\ result'[c].stmt = s /\ result'[c].total = Size[s]
  /\ result'[c].index = 0 /\ Len(result'[c].rows) <= Size[s]
  /\ call'.op \notin FetchOps

\* Cursor c has taken rows from a buffer that a FETCH may have filled up.  It
\* goes on when the buffer is empty and there is more; otherwise it returns.
ResultTaken(c, op, want, index) ==
  /\ result[c].desc /\ handle' = handle
  /\ result' = [result EXCEPT ![c] = Moved(result[c], result'[c].rows, index)]
  /\ result[c].index <= index /\ index <= Len(result'[c].rows)
  /\ Len(result'[c].rows) <= result[c].total
  /\ result'[c].rows = result[c].rows \/ handle[c] # None
  /\ \/ /\ call' = Idle
        /\ \/ op = "fetchmany" /\ index - result[c].index = want
           \/ /\ index = Len(result'[c].rows)
              /\ handle[c] = None \/ index = result[c].total
     \/ /\ call'.op = op /\ call'.cur = c /\ call'.pkt.fc = "Fetch"
        /\ ret' = NoReturn
        /\ index = Len(result'[c].rows) /\ index < result[c].total

ResultStep ==
  \/ HandlesGo
  \/ \E c \in Cursors :
       \/ ResultEnds(c)
       \/ \E s \in Stmts : ResultOpens(c, s)
       \/ \E op \in FetchOps, want, index \in Nat : ResultTaken(c, op, want, index)

\* Take is such a step.
LEMMA TakesResult ==
  ASSUME ResultInv, NEW op \in FetchOps, NEW c \in Cursors,
         NEW rows \in Seq(Stmts \X Nat), NEW want \in Nat, Take(op, c, rows, want),
         handle' = handle, result[c].desc,
         Len(result[c].rows) <= Len(rows), Len(rows) <= result[c].total,
         rows = result[c].rows \/ handle[c] # None
  PROVE  \E index \in Nat : ResultTaken(c, op, want, index)
<1>t. TypeOK /\ BufferInv
  BY DEF ResultInv, RowInv, OwnInv, TrackInv, CommitInv, TypeInv
<1> DEFINE available == Len(rows) - result[c].index
           take == IF op = "fetchall" THEN available ELSE Min2(available, want)
           index == result[c].index + take
           more == /\ op = "fetchall" \/ take < want
                   /\ handle[c] # None
                   /\ index < result[c].total
           left == IF op = "fetchall" THEN 0 ELSE want - take
<1>1. /\ result[c].index \in Nat /\ Len(rows) \in Nat /\ result[c].total \in Nat
      /\ result[c].index <= Len(rows)
  <2>1. /\ result[c].index \in Nat /\ result[c].total \in Nat
        /\ Len(result[c].rows) \in Nat /\ Len(rows) \in Nat
        /\ result[c].index <= Len(result[c].rows)
    BY <1>t DEF TypeOK, ResultRecords, BufferInv
  <2> QED
    BY <2>1
<1>2. /\ index \in Nat /\ result[c].index <= index /\ index <= Len(rows)
      /\ \/ index = Len(rows)
         \/ op = "fetchmany" /\ index - result[c].index = want
      /\ more => index = Len(rows)
      /\ op = "fetchmany" /\ ~(take < want) => index - result[c].index = want
  <2>a. available \in Nat
    BY <1>1
  <2> HIDE DEF available
  <2>1. /\ take \in Nat /\ take <= available
        /\ take = available \/ (op = "fetchmany" /\ take = want)
        /\ op = "fetchall" \/ take < want => take = available
        /\ op = "fetchmany" /\ ~(take < want) => take = want
    <3>1. CASE op = "fetchall"
      BY <2>a, <3>1
    <3>2. CASE op = "fetchmany"
      BY <2>a, <3>2 DEF Min2
    <3> QED
      BY <3>1, <3>2 DEF FetchOps
  <2>2. Len(rows) = result[c].index + available
    BY <1>1 DEF available
  <2> HIDE DEF take
  <2> QED
    BY <1>1, <2>a, <2>1, <2>2
<1>3. result' = [result EXCEPT ![c] = Moved(result[c], rows, index)]
  BY DEF Take
<1>4. IF more
      THEN /\ call' = [Begin(op, c, FetchPacket(handle[c], index)) EXCEPT !.want = left]
           /\ ret' = NoReturn
      ELSE Return
  BY DEF Take
<1>5. more => handle[c] # None /\ index < result[c].total
  OBVIOUS
<1>6. ~more => \/ op = "fetchmany" /\ index - result[c].index = want
               \/ /\ index = Len(rows)
                  /\ handle[c] = None \/ ~(index < result[c].total)
  BY <1>2 DEF FetchOps
<1> HIDE DEF take, index, more, left
<1>7. result'[c].rows = rows
  BY <1>3, <1>t DEF TypeOK, Moved
<1>8. more => call'.op = op /\ call'.cur = c /\ call'.pkt.fc = "Fetch" /\ ret' = NoReturn
  BY <1>4, Fields DEF Begin
<1>9. ~more => call' = Idle
  BY <1>4, Ends
<1>10. ~(index < result[c].total) /\ index = Len(rows) => index = result[c].total
  BY <1>1, <1>2
<1>11. ResultTaken(c, op, want, index)
  BY <1>2, <1>3, <1>5, <1>6, <1>7, <1>8, <1>9, <1>10 DEF ResultTaken
<1> QED
  BY <1>2, <1>11
\* A handle is invalidated by setting it to None.
LEMMA InvalidatedHandles ==
  ASSUME TypeOK, handle' = handle \/ handle' = Invalidated
  PROVE  \A c \in Cursors : handle'[c] \in {handle[c], None}
  BY DEF Invalidated, TypeOK

\* The application's calls.
LEMMA ResultInvocation ==
  ASSUME ResultInv, Invocation
  PROVE  ResultStep
<1> USE DEF connectionVars, cursorVars
<1>t. TypeOK /\ CallShape /\ WithinResult
  BY DEF ResultInv, RowInv, OwnInv, TrackInv, CommitInv, TypeInv
<1>1. CASE ConnectCall \/ PingCall \/ EndTranCall \/ SetAutocommitCall \/ QueryCall
           \/ CloseCall
  <2>1. /\ result' = result
        /\ call'.op \in {"connect", "ping", "commit", "rollback", "set_autocommit",
                         "get_server_version", "get_last_insert_id", "get_schema_info",
                         "close", "none"}
    <3>1. CASE ConnectCall \/ PingCall \/ CloseCall
      BY <3>1, Ends DEF ConnectCall, PingCall, CloseCall, Begin, Idle
    <3>2. CASE EndTranCall \/ QueryCall
      BY <3>2, Fields DEF EndTranCall, QueryCall
    <3>3. CASE SetAutocommitCall
      BY <3>3 DEF SetAutocommitCall, Begin
    <3> QED
      BY <1>1, <3>1, <3>2, <3>3
  <2>2. handle' = handle \/ handle' = Invalidated
    BY <1>1 DEF ConnectCall, PingCall, EndTranCall, SetAutocommitCall, QueryCall, CloseCall
  <2> QED
    BY <1>t, <2>1, <2>2, InvalidatedHandles DEF ResultStep, HandlesGo, FetchOps
<1>2. ASSUME NEW c \in Cursors, NewCursor(c)
      PROVE  ResultStep
  <2>1. call'.op = "none"
    BY <1>2, <1>t DEF NewCursor, Invoke, IsIdle, CallShape
  <2>2. OthersKeep(c) /\ result'[c] = NoResult
    BY <1>2, <1>t DEF NewCursor, OthersKeep, TypeOK
  <2> QED
    BY <2>1, <2>2 DEF NoResult, ResultStep, ResultEnds, FetchOps
<1>3. ASSUME NEW c \in Cursors, CursorCloseCall(c)
      PROVE  ResultStep
  <2>1. /\ result' = result
        /\ handle' = handle \/ handle' = [handle EXCEPT ![c] = None]
        /\ call' = Idle \/ call' = Begin("cursor_close", c, CloseQueryPacket(handle[c]))
    BY <1>3, Ends DEF CursorCloseCall, CursorClosed
  <2>2. \A d \in Cursors : handle'[d] \in {handle[d], None}
    BY <1>t, <2>1 DEF TypeOK
  <2>3. call'.op \notin FetchOps
    BY <2>1, Fields DEF FetchOps
  <2> QED
    BY <2>1, <2>2, <2>3 DEF ResultStep, HandlesGo
<1>4. ASSUME NEW c \in Cursors, ExecuteCall(c) \/ ExecutemanyBatchCall(c)
      PROVE  ResultStep
  <2>1. /\ result' = result /\ handle' = handle
        /\ call'.op \in {"execute", "executemany_batch"}
    BY <1>4 DEF ExecuteCall, ExecutemanyBatchCall, Begin
  <2> QED
    BY <2>1 DEF ResultStep, HandlesGo, FetchOps
<1>5. ASSUME NEW c \in Cursors, FetchmanyCall(c) \/ FetchallCall(c)
      PROVE  ResultStep
  <2>1. PICK op \in FetchOps, n \in Nat : Take(op, c, result[c].rows, n)
    BY <1>5, WantSizesAssumption DEF FetchmanyCall, FetchallCall, FetchOps
  <2>2. handle' = handle /\ result[c].desc
    BY <1>5 DEF FetchmanyCall, FetchallCall, Fetchable
  <2>3. /\ result[c].rows \in Seq(Stmts \X Nat)
        /\ Len(result[c].rows) <= Len(result[c].rows)
        /\ Len(result[c].rows) <= result[c].total
    BY <1>t, <2>2 DEF TypeOK, ResultRecords, WithinResult
  <2>4. \E index \in Nat : ResultTaken(c, op, n, index)
    BY <2>1, <2>2, <2>3, TakesResult
  <2> QED
    BY <2>4 DEF ResultStep
<1> QED
  BY <1>1, <1>2, <1>3, <1>4, <1>5 DEF Invocation

\* An execute that succeeds gives the cursor a handle, and a result set if it
\* has run a SELECT.
LEMMA ResultExecuted ==
  ASSUME ResultInv, NEW r \in PossibleReplies, SendAndReceive(r), r.st = "ok",
         call.op = "execute", call.pkt.fc = "PrepareAndExecute", NEW s \in r.done,
         handle' = [handle EXCEPT ![call.cur] = r.h],
         result' = [result EXCEPT ![call.cur] = ResultOf(s, r.rows)],
         call'.op \notin FetchOps
  PROVE  ResultStep
<1>t. /\ TypeOK /\ CallHasCursor /\ call.pkt \in Packets /\ cursors \subseteq Cursors
  BY DEF ResultInv, RowInv, OwnInv, TrackInv, CommitInv, TypeInv, TypeOK, CallRecords
<1>c. call.cur \in Cursors
  BY <1>t DEF CallHasCursor, CursorOps
<1>1. PICK o \in Outcomes(call.pkt) : o.reply = r
  BY ReplyOk
<1>2. /\ r.h \in Handles
      /\ \E e \in call.pkt.stmts : /\ r.done = {e} /\ Len(r.rows) <= Size[e]
                                   /\ Kind[e] # "select" => r.rows = <<>>
  BY <1>1, <1>t, ExecuteBrings
<1>3. /\ s \in Stmts /\ Len(r.rows) <= Size[s]
      /\ Kind[s] # "select" => r.rows = <<>>
  BY <1>2, <1>t DEF Packets
<1>4. /\ OthersKeep(call.cur) /\ handle'[call.cur] # None
      /\ result'[call.cur] = ResultOf(s, r.rows)
  BY <1>2, <1>c, <1>t, NoneAssumption DEF OthersKeep, TypeOK
<1>5. /\ result'[call.cur].desc = (Kind[s] = "select")
      /\ result'[call.cur].stmt = s /\ result'[call.cur].total = Size[s]
      /\ result'[call.cur].index = 0 /\ result'[call.cur].rows = r.rows
  BY <1>4 DEF ResultOf
<1>6. CASE Kind[s] = "select"
  BY <1>3, <1>4, <1>5, <1>6, <1>c DEF ResultStep, ResultOpens
<1>7. CASE Kind[s] # "select"
  BY <1>3, <1>4, <1>5, <1>7, <1>c DEF ResultStep, ResultEnds
<1> QED
  BY <1>6, <1>7

\* A FETCH that succeeds brings rows, and the cursor has the handle it used.
LEMMA ResultFetched ==
  ASSUME ResultInv, NEW r \in PossibleReplies, SendAndReceive(r), r.st = "ok",
         call.op \in FetchOps
  PROVE  /\ r.rows # <<>> /\ handle[call.cur] # None
         /\ Len(result[call.cur].rows \o r.rows) <= result[call.cur].total
<1>t. /\ TypeOK /\ ServerTypeOK /\ CallHasCursor /\ call.pkt \in Packets
      /\ HandlesOwned /\ NewSession /\ PacketHandle /\ BufferInv
      /\ WithinResult /\ FetchHasMore /\ cursors \subseteq Cursors
      /\ \A q \in PossibleReplies : q \in Replies
  BY PossibleRepliesType
     DEF ResultInv, RowInv, OwnInv, HandleState, TrackInv, CommitInv, TypeInv, TypeOK,
         CallRecords
<1>c. call.cur \in Cursors /\ call.pkt.fc = "Fetch"
  BY <1>t DEF CallHasCursor, CursorOps, FetchOps, FetchHasMore
<1>1. connected /\ up /\ call.step \in {"send", "exchange"}
  BY ReplyOk DEF Ready, Serve
<1>2. PICK o \in Outcomes(call.pkt) : o.reply = r
  BY ReplyOk
<1>3. call.pkt.h \in Handles /\ open[call.pkt.h] \in Stmts
  BY <1>c, <1>t, <1>2, FetchAnswer
<1>4. call.step = "send"
  BY <1>1, <1>3, <1>t, NoneAssumption DEF NewSession, NoHandles
<1>5. /\ call.pkt.h = handle[call.cur] /\ handle[call.cur] # None
      /\ open[call.pkt.h] = result[call.cur].stmt
  BY <1>1, <1>3, <1>4, <1>c, <1>t, NoneAssumption DEF PacketHandle, HandlesOwned
<1> DEFINE n == Len(result[call.cur].rows)
<1>6. /\ n \in Nat /\ call.pkt.from = n + 1
      /\ result[call.cur].total = Size[open[call.pkt.h]] /\ n < Size[open[call.pkt.h]]
  BY <1>c, <1>5, <1>t DEF TypeOK, ResultRecords, BufferInv, FetchHasMore, FetchOps, WithinResult
<1>7. r.rows # <<>> /\ n + Len(r.rows) <= result[call.cur].total
  BY <1>c, <1>t, <1>2, <1>6, FetchBrings
<1>8. Len(result[call.cur].rows \o r.rows) = n + Len(r.rows)
  <2>1. result[call.cur].rows \in Seq(Stmts \X Nat) /\ r.rows \in Seq(Stmts \X Nat)
    BY <1>c, <1>t DEF TypeOK, ResultRecords, Replies
  <2> QED
    BY <2>1
<1> QED
  BY <1>5, <1>7, <1>8

\* The steps of the driver's code.
LEMMA ResultDriverStep ==
  ASSUME ResultInv, DriverStep
  PROVE  ResultStep
<1> USE DEF connectionVars, cursorVars, NoCursorChange
<1>t. /\ OwnInv /\ TypeOK /\ CallShape /\ CallHasCursor /\ FetchHasMore /\ WithinResult
      /\ call \in CallRecords /\ cursors \subseteq Cursors
      /\ \A q \in PossibleReplies : q \in Replies
  BY PossibleRepliesType
     DEF ResultInv, RowInv, OwnInv, TrackInv, CommitInv, TypeInv, TypeOK
<1>k. ASSUME result' = result, call' = Idle \/ call'.op \notin FetchOps,
             \A c \in Cursors : handle'[c] \in {handle[c], None}
      PROVE  ResultStep
  BY <1>k, Fields DEF ResultStep, HandlesGo, FetchOps
<1>h. ASSUME \/ handle' = handle \/ handle' = Invalidated
             \/ handle' = [handle EXCEPT ![call.cur] = None]
             \/ \E c \in Cursors : handle' = [handle EXCEPT ![c] = None]
      PROVE  \A c \in Cursors : handle'[c] \in {handle[c], None}
  <2>1. CASE handle' = handle \/ handle' = Invalidated
    BY <1>t, <2>1, InvalidatedHandles
  <2> QED
    BY <1>h, <1>t, <2>1 DEF TypeOK
<1>1. CASE CheckReconnect \/ Reconnected
  <2>1. /\ result' = result
        /\ handle' = handle \/ handle' = Invalidated
        /\ call'.op = call.op /\ call'.pkt = call.pkt /\ call'.cur = call.cur
    BY <1>1, <1>t DEF CheckReconnect, DropConnection, Reconnected, CallRecords
  <2> QED
    BY <1>h, <2>1 DEF ResultStep, HandlesGo
<1>2. CASE ConnectDone \/ PingReply \/ PingDrop \/ PingConnect \/ EndTranReply
           \/ SetAutocommitReply \/ QueryReply \/ CloseSocket \/ CursorCloseReply
           \/ ExecuteCloseReply \/ LastRowIdReply
  <2>1. result' = result
    BY <1>2 DEF ConnectDone, PingReply, PingDrop, PingConnect, EndTranReply,
       SetAutocommitReply, QueryReply, CloseSocket, CursorCloseReply, CursorClosed,
       ExecuteCloseReply, LastRowIdReply
  <2>2. \A c \in Cursors : handle'[c] \in {handle[c], None}
    <3>1. CASE ConnectDone \/ PingReply \/ PingConnect \/ SetAutocommitReply
               \/ QueryReply \/ CloseSocket \/ LastRowIdReply
      BY <1>h, <3>1 DEF ConnectDone, PingReply, PingConnect, SetAutocommitReply,
         QueryReply, CloseSocket, LastRowIdReply
    <3>2. CASE PingDrop \/ EndTranReply
      BY <1>h, <3>2 DEF PingDrop, DropConnection, EndTranReply
    <3>3. CASE CursorCloseReply \/ ExecuteCloseReply
      BY <1>h, <3>3 DEF CursorCloseReply, CursorClosed, ExecuteCloseReply
    <3> QED
      BY <1>2, <3>1, <3>2, <3>3
  <2>3. CASE ConnectDone \/ PingDrop \/ PingConnect \/ EndTranReply \/ QueryReply
             \/ CloseSocket \/ CursorCloseReply
    <3>1. call' = Idle \/ call'.op = "ping"
      BY <2>3, <1>t, Ends DEF ConnectDone, PingDrop, PingConnect, EndTranReply,
         QueryReply, CloseSocket, CursorCloseReply, CallRecords
    <3> QED
      BY <1>k, <2>1, <2>2, <3>1 DEF FetchOps
  <2>4. CASE PingReply
    <3>1. call' = Idle \/ call' = [call EXCEPT !.step = "cleanup", !.pkt = NoPacket]
      BY <2>4, Ends DEF PingReply
    <3>2. call' = Idle \/ call'.op = "ping"
      BY <2>4, <1>t, <3>1 DEF PingReply, CallRecords
    <3> QED
      BY <1>k, <2>1, <2>2, <3>2 DEF FetchOps
  <2>5. CASE SetAutocommitReply
    BY <2>5, <1>t, OtherOps DEF SetAutocommitReply
  <2>6. CASE ExecuteCloseReply
    <3>1. call' = Idle \/ \E s : SendNext(PrepareAndExecutePacket(s, autocommit))
      BY <2>6, Ends DEF ExecuteCloseReply
    <3>2. call' = Idle \/ call'.op = "execute"
      BY <2>6, <1>t, <3>1 DEF ExecuteCloseReply, SendNext, CallRecords
    <3> QED
      BY <1>k, <2>1, <2>2, <3>2 DEF FetchOps
  <2>7. CASE LastRowIdReply
    <3>1. PICK r \in PossibleReplies :
            CASE r.st \in {"ok", "operr"} -> Return
              [] r.st = "error" -> Raise
              [] r.st = "unparsed" -> Return \/ Raise
      BY <2>7 DEF LastRowIdReply
    <3>2. r.st \in {"ok", "operr", "error", "unparsed"}
      BY <1>t DEF Replies, ReplyStates
    <3>3. call' = Idle
      BY <3>1, <3>2, Ends
    <3> QED
      BY <1>k, <2>1, <2>2, <3>3
  <2> QED
    BY <1>2, <2>3, <2>4, <2>5, <2>6, <2>7
<1>3. CASE (\E c \in Cursors : CloseCursor(c)) \/ CloseCursorReply \/ CloseDatabase
           \/ CloseDatabaseReply
  <2>1. /\ result' = result /\ call'.op = "close"
        /\ \A c \in Cursors : handle'[c] \in {handle[c], None}
    <3>1. ASSUME NEW c \in Cursors, CloseCursor(c)
          PROVE  /\ result' = result /\ call'.op = "close"
                 /\ handle' = handle \/ handle' = [handle EXCEPT ![c] = None]
      BY <1>t, <3>1 DEF CloseCursor, CursorClosed, CallRecords
    <3>2. CASE CloseCursorReply
      <4>1. /\ call' = [call EXCEPT !.todo = call.todo \ {call.cur}, !.cur = None,
                                   !.pkt = NoPacket, !.step = "loop"]
            /\ call.op = "close" /\ result' = result
            /\ handle' = [handle EXCEPT ![call.cur] = None]
        BY <3>2 DEF CloseCursorReply, CursorClosed
      <4>2. call'.op = "close"
        BY <1>t, <4>1 DEF CallRecords
      <4> QED
        BY <1>h, <4>1, <4>2
    <3>3. CASE CloseDatabase \/ CloseDatabaseReply
      <4>1. result' = result /\ handle' = handle /\ call'.op = "close"
        BY <1>t, <3>3 DEF CloseDatabase, CloseDatabaseReply, SendNext, CallRecords
      <4> QED
        BY <1>h, <4>1
    <3> QED
      BY <1>3, <1>h, <3>1, <3>2, <3>3
  <2> QED
    BY <1>k, <2>1 DEF FetchOps
<1>4. CASE ExecuteReply
  <2>1. PICK r \in PossibleReplies :
          /\ SendAndReceive(r)
          /\ \/ /\ r.st = "ok"
                /\ \E s \in r.done :
                     /\ handle' = [handle EXCEPT ![call.cur] = r.h]
                     /\ result' = [result EXCEPT ![call.cur] = ResultOf(s, r.rows)]
                     /\ SendNext(GetLastInsertIdPacket) \/ call' = Idle
             \/ r.st # "ok" /\ call' = Idle /\ result' = result /\ handle' = handle
    BY <1>4, Ends DEF ExecuteReply
  <2>2. call.op = "execute" /\ call.pkt.fc = "PrepareAndExecute"
    BY <1>4 DEF ExecuteReply
  <2>3. call'.op \notin FetchOps
    BY <1>t, <2>1, <2>2, Fields DEF SendNext, CallRecords, FetchOps
  <2>4. CASE r.st # "ok"
    BY <1>h, <1>k, <2>1, <2>4
  <2>5. CASE r.st = "ok"
    BY <2>1, <2>2, <2>3, <2>5, ResultExecuted
  <2> QED
    BY <2>4, <2>5
<1>5. CASE ExecutemanyBatchReply
  <2>1. /\ call' = Idle
        /\ \/ /\ result' = [result EXCEPT ![call.cur] = WithoutRows(result[call.cur])]
              /\ handle' = [handle EXCEPT ![call.cur] = None]
           \/ result' = result /\ handle' = handle
    BY <1>5, Ends DEF ExecutemanyBatchReply
  <2>2. call.cur \in Cursors
    BY <1>5, <1>t DEF ExecutemanyBatchReply, CallHasCursor, CursorOps
  <2>3. CASE result' = result /\ handle' = handle
    BY <1>h, <1>k, <2>1, <2>3
  <2>4. CASE /\ result' = [result EXCEPT ![call.cur] = WithoutRows(result[call.cur])]
             /\ handle' = [handle EXCEPT ![call.cur] = None]
    <3>1. OthersKeep(call.cur) /\ result'[call.cur] = WithoutRows(result[call.cur])
      BY <1>t, <2>2, <2>4 DEF OthersKeep, TypeOK
    <3> QED
      BY <2>1, <2>2, <3>1, Fields DEF WithoutRows, ResultStep, ResultEnds, FetchOps
  <2> QED
    BY <2>1, <2>3, <2>4
<1>6. CASE FetchReply
  <2>1. /\ call.op \in FetchOps /\ call.cur \in Cursors /\ call.want \in Nat
        /\ handle' = handle /\ result[call.cur].desc
    BY <1>6, <1>t DEF FetchReply, CallHasCursor, CursorOps, CallRecords, FetchOps, FetchHasMore
  <2>2. PICK r \in PossibleReplies :
          /\ SendAndReceive(r)
          /\ \/ /\ r.st = "ok"
                /\ Take(call.op, call.cur, result[call.cur].rows \o r.rows, call.want)
             \/ call' = Idle /\ result' = result
    BY <1>6, Ends DEF FetchReply
  <2>3. CASE call' = Idle /\ result' = result
    BY <1>h, <1>k, <2>1, <2>3
  <2>4. CASE /\ r.st = "ok"
             /\ Take(call.op, call.cur, result[call.cur].rows \o r.rows, call.want)
    <3> DEFINE rows == result[call.cur].rows \o r.rows
    <3>1. rows \in Seq(Stmts \X Nat) /\ Len(result[call.cur].rows) <= Len(rows)
      <4>1. result[call.cur].rows \in Seq(Stmts \X Nat) /\ r.rows \in Seq(Stmts \X Nat)
        BY <1>t, <2>1 DEF TypeOK, ResultRecords, Replies
      <4> QED
        BY <4>1, JoinLonger
    <3>2. handle[call.cur] # None /\ Len(rows) <= result[call.cur].total
      BY <2>1, <2>2, <2>4, ResultFetched
    <3> HIDE DEF rows
    <3>3. Take(call.op, call.cur, rows, call.want)
      BY <2>4 DEF rows
    <3>4. \E index \in Nat : ResultTaken(call.cur, call.op, call.want, index)
      BY <2>1, <3>1, <3>2, <3>3, TakesResult
    <3> QED
      BY <2>1, <3>4 DEF ResultStep
  <2> QED
    BY <2>2, <2>3, <2>4
<1> QED
  BY <1>1, <1>2, <1>3, <1>4, <1>5, <1>6 DEF DriverStep

\* Every step is one of these.
LEMMA ResultNext ==
  ASSUME ResultInv, [Next]_vars
  PROVE  ResultStep
<1>1. CASE SessionLost
  BY <1>1 DEF SessionLost, cursorVars, ResultStep, HandlesGo
<1>2. CASE UNCHANGED vars
  BY <1>2 DEF vars, cursorVars, ResultStep, HandlesGo
<1> QED
  BY <1>1, <1>2, ResultInvocation, ResultDriverStep DEF Next

(***************************************************************************)
(* Such a step keeps the invariant and is one of ResultSets.tla.           *)
(***************************************************************************)
\* The parts of a result set, as the abstract specification sees them.
ResultShape ==
  \A c \in Cursors :
    /\ result[c].index \in Nat /\ Len(result[c].rows) \in Nat
    /\ result[c].total \in Nat
    /\ result[c].index <= Len(result[c].rows)
    /\ result[c].desc => Len(result[c].rows) <= result[c].total
    /\ Taken(c) = [i \in 1..result[c].index |-> <<result[c].stmt, i>>]
    /\ Len(Taken(c)) = result[c].index
    /\ Reach(c) \in Nat /\ result[c].index <= Reach(c)

\* What the invariant says of the shape of a result set.
LEMMA ResultParts == ResultInv => ResultShape
<1> SUFFICES ASSUME ResultInv, NEW c \in Cursors
             PROVE  /\ result[c].index \in Nat /\ Len(result[c].rows) \in Nat
                    /\ result[c].total \in Nat
                    /\ result[c].index <= Len(result[c].rows)
                    /\ result[c].desc => Len(result[c].rows) <= result[c].total
                    /\ Taken(c) = [i \in 1..result[c].index |-> <<result[c].stmt, i>>]
                    /\ Len(Taken(c)) = result[c].index
                    /\ Reach(c) \in Nat /\ result[c].index <= Reach(c)
  BY DEF ResultShape
<1>t. TypeOK /\ RowsOwned /\ BufferInv /\ WithinResult
  BY DEF ResultInv, RowInv, OwnInv, TrackInv, CommitInv, TypeInv
<1>1. /\ result[c].index \in Nat /\ Len(result[c].rows) \in Nat
      /\ result[c].total \in Nat
      /\ result[c].index <= Len(result[c].rows)
      /\ result[c].desc => Len(result[c].rows) <= result[c].total
      /\ ~result[c].desc => result[c].index = 0
      /\ result[c].desc \in BOOLEAN
  BY <1>t DEF TypeOK, ResultRecords, BufferInv, WithinResult
<1>2. result[c].rows = [i \in 1..Len(result[c].rows) |-> <<result[c].stmt, 1 + i - 1>>]
  BY <1>t DEF RowsOwned, RowsOf
<1>3. \A i \in 1..result[c].index : result[c].rows[i] = <<result[c].stmt, i>>
  <2>1. ASSUME NEW i \in 1..result[c].index
        PROVE  i \in 1..Len(result[c].rows) /\ 1 + i - 1 = i
    BY <1>1
  <2> QED
    BY <1>2, <2>1
<1>4. Taken(c) = [i \in 1..result[c].index |-> <<result[c].stmt, i>>]
  BY <1>3 DEF Taken
<1>5. Len(Taken(c)) = result[c].index
  BY <1>1, <1>4
<1>6. Reach(c) \in Nat /\ result[c].index <= Reach(c)
  BY <1>1 DEF Reach
<1> QED
  BY <1>1, <1>4, <1>5, <1>6

\* It keeps the invariant.
LEMMA ResultKept ==
  ASSUME ResultInv, RowInv', ResultStep
  PROVE  WithinResult' /\ FetchHasMore'
<1>t. /\ TypeOK /\ CallHasCursor /\ WithinResult /\ FetchHasMore /\ TypeOK'
  BY DEF ResultInv, RowInv, OwnInv, TrackInv, CommitInv, TypeInv
<1>o. ASSUME NEW c \in Cursors, OthersKeep(c), call'.op \notin FetchOps,
             IF result'[c].desc
             THEN /\ result'[c].stmt \in Stmts
                  /\ result'[c].total = Size[result'[c].stmt]
                  /\ Len(result'[c].rows) <= result'[c].total
             ELSE result'[c].rows = <<>> /\ result'[c].index = 0
      PROVE  WithinResult' /\ FetchHasMore'
  BY <1>o, <1>t DEF OthersKeep, WithinResult, FetchHasMore
<1>1. CASE HandlesGo
  BY <1>1, <1>t DEF HandlesGo, WithinResult, FetchHasMore
<1>2. ASSUME NEW c \in Cursors, ResultEnds(c)
      PROVE  WithinResult' /\ FetchHasMore'
  BY <1>2, <1>o DEF ResultEnds
<1>3. ASSUME NEW c \in Cursors, NEW s \in Stmts, ResultOpens(c, s)
      PROVE  WithinResult' /\ FetchHasMore'
  BY <1>3, <1>o DEF ResultOpens
<1>4. ASSUME NEW c \in Cursors, NEW op \in FetchOps, NEW want \in Nat, NEW index \in Nat,
             ResultTaken(c, op, want, index)
      PROVE  WithinResult' /\ FetchHasMore'
  <2>1. /\ \A d \in Cursors \ {c} : result'[d] = result[d]
        /\ result'[c].stmt = result[c].stmt /\ result'[c].total = result[c].total
        /\ result'[c].desc = result[c].desc
    <3>1. PICK rows : result' = [result EXCEPT ![c] = Moved(result[c], rows, index)]
      BY <1>4 DEF ResultTaken
    <3> QED
      BY <1>t, <3>1 DEF Moved, TypeOK
  <2>2. result[c].desc /\ Len(result'[c].rows) <= result[c].total
    BY <1>4 DEF ResultTaken
  <2>3. WithinResult'
    BY <1>t, <2>1, <2>2 DEF WithinResult
  <2>4. \/ call' = Idle
        \/ /\ call'.cur = c /\ call'.pkt.fc = "Fetch"
           /\ Len(result'[c].rows) < result[c].total
    BY <1>4 DEF ResultTaken
  <2> QED
    BY <2>1, <2>2, <2>3, <2>4, Fields DEF FetchHasMore, FetchOps
<1> QED
  BY <1>1, <1>2, <1>3, <1>4 DEF ResultStep

\* And so it is in every behaviour.
LEMMA ResultInvariant == AutocommitFixed /\ Spec => []ResultInv
<1>1. Init => WithinResult /\ FetchHasMore
  BY Fields DEF Init, NoResult, WithinResult, FetchHasMore, FetchOps
<1>2. Init /\ RowInv => ResultInv
  BY <1>1 DEF ResultInv
<1>3. ResultInv /\ RowInv' /\ [Next]_vars => ResultInv'
  BY ResultNext, ResultKept DEF ResultInv
<1> QED
  BY <1>2, <1>3, RowInvariant, PTL DEF Spec

\* It is a step of ResultSets.tla.
LEMMA ResultSetsStep ==
  ASSUME ResultInv, ResultInv', ResultStep
  PROVE  [R!Next]_(R!vars)
<1> DEFINE stmts == [c \in Cursors |-> Selected(c)]
           takes == [c \in Cursors |-> Taken(c)]
           reaches == [c \in Cursors |-> Reach(c)]
<1>t. TypeOK /\ TypeOK'
  BY DEF ResultInv, RowInv, OwnInv, TrackInv, CommitInv, TypeInv
<1>s. ResultShape /\ ResultShape'
  BY ResultParts, PTL
<1>o. ASSUME NEW c \in Cursors, OthersKeep(c)
      PROVE  /\ stmts' = [stmts EXCEPT ![c] = Selected(c)']
             /\ takes' = [takes EXCEPT ![c] = Taken(c)']
             /\ reaches' = [reaches EXCEPT ![c] = Reach(c)']
  <2>1. \A d \in Cursors \ {c} : /\ Selected(d)' = Selected(d)
                                /\ Taken(d)' = Taken(d)
                                /\ Reach(d)' = Reach(d)
    BY <1>o DEF OthersKeep, Selected, Taken, Reach
  <2> QED
    BY <2>1
<1>1. CASE HandlesGo
  <2>1. \A c \in Cursors : Selected(c)' = Selected(c) /\ Taken(c)' = Taken(c)
    BY <1>1 DEF HandlesGo, Selected, Taken
  <2>2. stmts' = stmts /\ takes' = takes
    BY <2>1
  <2>3. \A c \in Cursors : Reach(c)' <= Reach(c)
    BY <1>1, <1>s DEF HandlesGo, Reach, ResultShape
  <2>4. \A c \in Cursors : /\ reaches'[c] \in Nat /\ reaches'[c] <= reaches[c]
                          /\ Len(takes[c]) <= reaches'[c]
    BY <1>s, <1>1, <2>1, <2>3 DEF ResultShape, HandlesGo
  <2>5. reaches' \in [Cursors -> Nat]
    BY <2>4
  <2>6. R!Loses
    BY <2>2, <2>4, <2>5 DEF R!Loses
  <2> QED
    BY <2>6 DEF R!Next
<1>2. ASSUME NEW c \in Cursors, ResultEnds(c)
      PROVE  R!Next
  <2>1. Selected(c)' = None /\ Taken(c)' = <<>> /\ Reach(c)' = 0
    BY <1>2 DEF ResultEnds, Selected, Taken, Reach
  <2>2. R!Ends(c)
    BY <1>2, <1>o, <2>1 DEF R!Ends, ResultEnds
  <2> QED
    BY <2>2 DEF R!Next
<1>3. ASSUME NEW c \in Cursors, NEW s \in Stmts, ResultOpens(c, s)
      PROVE  R!Next
  <2>1. Selected(c)' = s /\ Taken(c)' = <<>> /\ Reach(c)' = Size[s]
    BY <1>3 DEF ResultOpens, Selected, Taken, Reach
  <2>2. R!Opens(c, s)
    BY <1>3, <1>o, <2>1 DEF R!Opens, ResultOpens
  <2> QED
    BY <2>2 DEF R!Next
<1>4. ASSUME NEW c \in Cursors, NEW op \in FetchOps, NEW want \in Nat, NEW index \in Nat,
             ResultTaken(c, op, want, index)
      PROVE  R!Next
  <2>1. /\ OthersKeep(c)
        /\ result'[c].stmt = result[c].stmt /\ result'[c].total = result[c].total
        /\ result'[c].desc /\ result[c].desc /\ result'[c].index = index
    <3>1. PICK rows : result' = [result EXCEPT ![c] = Moved(result[c], rows, index)]
      BY <1>4 DEF ResultTaken
    <3> QED
      BY <1>4, <1>t, <3>1 DEF ResultTaken, Moved, OthersKeep, TypeOK
  <2>2. Selected(c)' = Selected(c) /\ Selected(c) = result[c].stmt
    BY <2>1 DEF Selected
  <2>3. Reach(c)' = Reach(c)
    BY <1>4, <2>1 DEF ResultTaken, Reach
  <2>4. Taken(c)' = R!FirstRows(result[c].stmt, index)
    BY <1>s, <2>1 DEF ResultShape, R!FirstRows
  <2>5. index \in Len(Taken(c))..Reach(c)
    BY <1>4, <1>s, <2>1, <2>3 DEF ResultTaken, ResultShape
  <2>6. stmts' = stmts /\ reaches' = reaches
    BY <1>o, <2>1, <2>2, <2>3
  <2>7. takes' = [takes EXCEPT ![c] = R!FirstRows(stmts[c], index)]
    BY <1>o, <2>1, <2>2, <2>4
  <2>8. index \in 0..reaches[c] /\ index \in Len(takes[c])..reaches[c]
    BY <1>s, <2>5 DEF ResultShape
  <2>9. R!Takes(c, index)
    BY <2>6, <2>7, <2>8 DEF R!Takes
  <2> QED
    BY <2>8, <2>9 DEF R!Next
<1> QED
  BY <1>1, <1>2, <1>3, <1>4 DEF ResultStep

\* The cursors promise what ResultSets.tla does: the rows of a SELECT are handed
\* over from the first on, in order, each once, whatever exception, reconnect,
\* commit or other cursor comes between two fetches.
THEOREM ResultSetsAreKept == AutocommitFixed /\ Spec => KeepsResultSets
<1>1. Init => R!Init
  BY DEF Init, NoResult, R!Init, Selected, Taken, Reach
<1>2. ResultInv /\ ResultInv' /\ [Next]_vars => [R!Next]_(R!vars)
  BY ResultNext, ResultSetsStep
<1> QED
  BY <1>1, <1>2, ResultInvariant, PTL DEF Spec, KeepsResultSets, R!Spec

(***************************************************************************)
(* Part 5, what a fetch returns with.                                      *)
(***************************************************************************)
FetchReturns(op, c) ==
  \/ op = "fetchall" /\ FetchallReturns(c)
  \/ op = "fetchmany" /\ FetchmanyReturns(c)

\* A fetch that returns has just taken the last rows it takes: what a FETCH that
\* fails leaves behind is not returned, and a FETCH never comes back empty.
LEMMA FetchTakes ==
  ASSUME ResultInv, Next, NEW op \in FetchOps, NEW c \in Cursors, FetchReturns(op, c)
  PROVE  \E want, index \in Nat : /\ ResultTaken(c, op, want, index)
                                  /\ op = "fetchmany" => want \in Wanted
<1>t. /\ OwnInv /\ TypeOK /\ CallShape /\ CallHasCursor /\ FetchHasMore /\ WithinResult
      /\ call \in CallRecords /\ cursors \subseteq Cursors
      /\ \A q \in PossibleReplies : q \in Replies
  BY PossibleRepliesType
     DEF ResultInv, RowInv, OwnInv, TrackInv, CommitInv, TypeInv, TypeOK
<1>1. CASE \/ FetchmanyCall(c) /\ op = "fetchmany"
           \/ FetchallCall(c) /\ op = "fetchall"
  <2>1. PICK n \in Nat : /\ Take(op, c, result[c].rows, n)
                         /\ op = "fetchmany" => n \in Wanted
    BY <1>1, WantSizesAssumption DEF FetchmanyCall, FetchallCall, Wanted, Invoke
  <2>2. handle' = handle /\ result[c].desc
    BY <1>1 DEF FetchmanyCall, FetchallCall, Fetchable
  <2>3. /\ result[c].rows \in Seq(Stmts \X Nat)
        /\ Len(result[c].rows) <= Len(result[c].rows)
        /\ Len(result[c].rows) <= result[c].total
    BY <1>t, <2>2 DEF TypeOK, ResultRecords, WithinResult
  <2>4. \E index \in Nat : ResultTaken(c, op, n, index)
    BY <2>1, <2>2, <2>3, TakesResult
  <2> QED
    BY <2>1, <2>4
<1>2. CASE call.op = op /\ call.cur = c
  <2>1. ~IsIdle /\ ret # "returned" /\ ret' = "returned"
    BY <1>2, <1>t DEF CallShape, FetchOps, FetchReturns, FetchallReturns, FetchmanyReturns
  <2>2. FetchReply
    <3>1. ~Invocation
      BY <2>1
         DEF Invocation, ConnectCall, PingCall, EndTranCall, SetAutocommitCall, QueryCall,
             CloseCall, NewCursor, CursorCloseCall, ExecuteCall, ExecutemanyBatchCall,
             FetchmanyCall, FetchallCall, Invoke
    <3>2. ~SessionLost /\ ~CheckReconnect /\ ~Reconnected
      BY <2>1 DEF SessionLost, CheckReconnect, Reconnected
    <3> QED
      BY <1>2, <3>1, <3>2
         DEF FetchOps, Next, DriverStep, ConnectDone, PingReply, PingDrop, PingConnect,
             EndTranReply, SetAutocommitReply, QueryReply, CloseCursor, CloseCursorReply,
             CloseDatabase, CloseDatabaseReply, CloseSocket, CursorCloseReply,
             ExecuteCloseReply, ExecuteReply, LastRowIdReply, ExecutemanyBatchReply
  <2>3. /\ handle' = handle /\ result[c].desc /\ call.want \in Nat
        /\ call.want \in Wanted
    BY <1>2, <1>t, <2>1, <2>2 DEF FetchReply, FetchHasMore, CallRecords, Wanted
  <2>4. PICK r \in PossibleReplies :
          /\ SendAndReceive(r) /\ r.st = "ok"
          /\ \/ Take(op, c, result[c].rows \o r.rows, call.want)
             \/ r.rows = <<>>
    BY <1>2, <2>1, <2>2 DEF FetchReply, Raise, Finish
  <2> DEFINE rows == result[c].rows \o r.rows
  <2>5. rows \in Seq(Stmts \X Nat) /\ Len(result[c].rows) <= Len(rows)
    <3>1. result[c].rows \in Seq(Stmts \X Nat) /\ r.rows \in Seq(Stmts \X Nat)
      BY <1>t DEF TypeOK, ResultRecords, Replies
    <3> QED
      BY <3>1, JoinLonger
  <2>6. r.rows # <<>> /\ handle[c] # None /\ Len(rows) <= result[c].total
    BY <1>2, <2>4, ResultFetched
  <2> HIDE DEF rows
  <2>7. Take(op, c, rows, call.want)
    BY <2>4, <2>6 DEF rows
  <2>8. \E index \in Nat : ResultTaken(c, op, call.want, index)
    BY <2>3, <2>5, <2>6, <2>7, TakesResult
  <2> QED
    BY <2>3, <2>8
<1> QED
  BY <1>1, <1>2 DEF FetchReturns, FetchallReturns, FetchmanyReturns

\* What it has then.
LEMMA FetchHasEnough ==
  ASSUME ResultInv, Next, NEW op \in FetchOps, NEW c \in Cursors, FetchReturns(op, c)
  PROVE  \/ result'[c].index = Reach(c)'
         \/ op = "fetchmany" /\ result'[c].index - result[c].index \in Wanted
<1>t. TypeOK
  BY DEF ResultInv, RowInv, OwnInv, TrackInv, CommitInv, TypeInv
<1>1. PICK want, index \in Nat : /\ ResultTaken(c, op, want, index)
                                 /\ op = "fetchmany" => want \in Wanted
  BY FetchTakes
<1>2. /\ result'[c].index = index /\ result'[c].total = result[c].total
      /\ result'[c].desc /\ handle' = handle
  <2>1. PICK rows : result' = [result EXCEPT ![c] = Moved(result[c], rows, index)]
    BY <1>1 DEF ResultTaken
  <2> QED
    BY <1>1, <1>t, <2>1 DEF ResultTaken, Moved, TypeOK
<1>3. ret' = "returned"
  BY DEF FetchReturns, FetchallReturns, FetchmanyReturns
<1>4. \/ op = "fetchmany" /\ index - result[c].index = want
      \/ /\ index = Len(result'[c].rows)
         /\ handle[c] = None \/ index = result[c].total
  <2>1. call' = Idle
    BY <1>1, <1>3 DEF ResultTaken, NoReturn
  <2> QED
    BY <1>1, <1>3, <2>1 DEF ResultTaken, NoReturn
<1>5. CASE op = "fetchmany" /\ index - result[c].index = want
  BY <1>1, <1>2, <1>5
<1>6. CASE index = Len(result'[c].rows) /\ (handle[c] = None \/ index = result[c].total)
  BY <1>2, <1>6 DEF Reach
<1> QED
  BY <1>4, <1>5, <1>6

\* A fetch that returns has all it was asked for, or all there is in reach: none
\* stops at a buffer's end or at a refused FETCH (fetchmany, fetchall).
THEOREM FetchesAreEnough == AutocommitFixed /\ Spec => FetchesEnough
<1> DEFINE Enough ==
      \A c \in Cursors :
        LET atEnd == result'[c].index = Reach(c)'
        IN  /\ FetchallReturns(c) => atEnd
            /\ FetchmanyReturns(c) =>
                 atEnd \/ result'[c].index - result[c].index \in Wanted
<1>1. ResultInv /\ [Next]_vars => [Enough]_vars
  <2> SUFFICES ASSUME ResultInv, Next, NEW c \in Cursors
               PROVE  /\ FetchallReturns(c) => result'[c].index = Reach(c)'
                      /\ FetchmanyReturns(c) =>
                           \/ result'[c].index = Reach(c)'
                           \/ result'[c].index - result[c].index \in Wanted
    OBVIOUS
  <2>1. ASSUME FetchallReturns(c)
        PROVE  result'[c].index = Reach(c)'
    <3>1. FetchReturns("fetchall", c) /\ "fetchall" \in FetchOps
      BY <2>1 DEF FetchReturns, FetchOps
    <3> QED
      BY <3>1, FetchHasEnough
  <2>2. ASSUME FetchmanyReturns(c)
        PROVE  \/ result'[c].index = Reach(c)'
               \/ result'[c].index - result[c].index \in Wanted
    <3>1. FetchReturns("fetchmany", c) /\ "fetchmany" \in FetchOps
      BY <2>2 DEF FetchReturns, FetchOps
    <3> QED
      BY <3>1, FetchHasEnough
  <2> QED
    BY <2>1, <2>2
<1> QED
  BY <1>1, ResultInvariant, PTL DEF Spec, FetchesEnough
=============================================================================
