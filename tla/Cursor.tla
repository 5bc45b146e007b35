------------------------------- MODULE Cursor -------------------------------
(***************************************************************************)
(* pycubrid.Cursor, the synchronous cursor (src/pycubrid/cursor.py), on    *)
(* top of Connection.tla.  Calls on a closed cursor, and fetches without a *)
(* result set, raise InterfaceError and change nothing: they are stutters. *)
(*                                                                         *)
(* fetchone is fetchmany(1); callproc is execute; executemany renders its  *)
(* parameter sets and is executemany_batch, or for a SELECT a sequence of  *)
(* execute calls.                                                          *)
(***************************************************************************)
EXTENDS Connection

CONSTANT WantSizes   \* the sizes the application passes to fetchmany

ASSUME WantSizesAssumption == WantSizes \subseteq Nat \ {0}

(***************************************************************************)
(* close()                                                                 *)
(***************************************************************************)
CursorCloseCall(c) ==
  /\ Invoke("cursor_close")
  /\ ~closed[c]
  /\ IF handle[c] # None /\ connected
     THEN /\ call' = Begin("cursor_close", c, CloseQueryPacket(handle[c]))
          /\ ret' = NoReturn
          /\ UNCHANGED <<cursors, cursorVars>>
     ELSE CursorClosed(c) /\ Return
  /\ UNCHANGED <<serverVars, transportVars, autocommit, sent, acked>>

CursorCloseReply ==
  /\ call.op = "cursor_close"
  /\ \E r \in PossibleReplies :
       /\ SendAndReceive(r)
       /\ IF r.st \in {"ok", "operr"} THEN Return ELSE Raise
  /\ CursorClosed(call.cur)
  /\ UNCHANGED <<autocommit, sent, acked>>

(***************************************************************************)
(* execute(): close the previous handle, prepare and execute, and ask for  *)
(* the generated identifier after an INSERT.                               *)
(***************************************************************************)
ExecuteCall(c) ==
  /\ Invoke("execute")
  /\ ~closed[c] /\ connected
  /\ \E s \in Stmts \ sent :
       /\ Kind[s] # "schema"
       /\ sent' = sent \cup {s}
       /\ call' = [Begin("execute", c,
                         IF handle[c] # None THEN CloseQueryPacket(handle[c])
                         ELSE PrepareAndExecutePacket(s, autocommit))
                     EXCEPT !.stmts = {s}]
  /\ ret' = NoReturn
  /\ UNCHANGED <<serverVars, connectionVars, cursorVars, acked>>

\* The parameters are bound after the old handle is closed; binding may raise.
ExecuteCloseReply ==
  /\ call.op = "execute" /\ call.pkt.fc = "CloseQuery"
  /\ \E r \in PossibleReplies :
       /\ SendAndReceive(r)
       /\ \/ /\ r.st = "ok"
             /\ handle' = [handle EXCEPT ![call.cur] = None]
             /\ \/ Raise
                \/ /\ \E s \in call.stmts :
                        SendNext(PrepareAndExecutePacket(s, autocommit))
                   /\ UNCHANGED ret
          \/ r.st # "ok" /\ Raise /\ UNCHANGED handle
  /\ UNCHANGED <<autocommit, cursors, closed, result, lastrowid, sent, acked>>

ResultOf(s, rows) ==
  [stmt |-> s, desc |-> Kind[s] = "select", rows |-> rows, index |-> 0,
   total |-> Size[s]]

\* Seeded fault: the identifier is asked for after every statement.
AsksLastRowIdAlways(s) == s \in Stmts

AsksLastRowId(s) == Kind[s] = "insert"

ExecuteReply ==
  /\ call.op = "execute" /\ call.pkt.fc = "PrepareAndExecute"
  /\ \E r \in PossibleReplies :
       /\ SendAndReceive(r)
       /\ \/ /\ r.st = "ok"
             /\ \E s \in r.done :
                  /\ handle' = [handle EXCEPT ![call.cur] = r.h]
                  /\ result' = [result EXCEPT ![call.cur] = ResultOf(s, r.rows)]
                  /\ lastrowid' = [lastrowid EXCEPT ![call.cur] = None]
                  /\ acked' = acked \cup Dml({s})
                  /\ IF AsksLastRowId(s)
                     THEN SendNext(GetLastInsertIdPacket) /\ UNCHANGED ret
                     ELSE Return
          \/ r.st # "ok" /\ Raise /\ UNCHANGED <<handle, result, lastrowid, acked>>
  /\ UNCHANGED <<autocommit, cursors, closed, sent>>

\* Transport errors and bad values are swallowed here, a DatabaseError and a
\* struct.error are not.
LastRowIdReply ==
  /\ call.op = "execute" /\ call.pkt.fc = "GetLastInsertId"
  /\ \E r \in PossibleReplies :
       /\ SendAndReceive(r)
       /\ lastrowid' = [lastrowid EXCEPT ![call.cur] = r.id]
       /\ CASE r.st \in {"ok", "operr"} -> Return
            [] r.st = "error" -> Raise
            [] r.st = "unparsed" -> Return \/ Raise
  /\ UNCHANGED <<autocommit, cursors, closed, handle, result, sent, acked>>

(***************************************************************************)
(* executemany_batch(): the handle the cursor had is forgotten, not closed *)
(* and the errors of single statements stay in the packet.                 *)
(***************************************************************************)
ExecutemanyBatchCall(c) ==
  /\ Invoke("executemany_batch")
  /\ ~closed[c] /\ connected
  /\ \E ss \in SUBSET {s \in Stmts \ sent : IsDml(s)}, ac \in BOOLEAN :
       /\ ss # {}
       /\ sent' = sent \cup ss
       /\ call' = [Begin("executemany_batch", c, BatchExecutePacket(ss, ac))
                     EXCEPT !.stmts = ss]
  /\ ret' = NoReturn
  /\ UNCHANGED <<serverVars, connectionVars, cursorVars, acked>>

\* stmt goes on naming what the last execute() ran.
WithoutRows(res) ==
  [stmt |-> res.stmt, desc |-> FALSE, rows |-> <<>>, index |-> 0,
   total |-> res.total]

ExecutemanyBatchReply ==
  /\ call.op = "executemany_batch"
  /\ \E r \in PossibleReplies :
       /\ SendAndReceive(r)
       /\ IF r.st = "ok"
          THEN /\ result' = [result EXCEPT ![call.cur] = WithoutRows(@)]
               /\ handle' = [handle EXCEPT ![call.cur] = None]
               /\ acked' = acked \cup Dml(r.done)
               /\ Return
          ELSE Raise /\ UNCHANGED <<handle, result, acked>>
  /\ UNCHANGED <<autocommit, cursors, closed, lastrowid, sent>>

(***************************************************************************)
(* fetchone, fetchmany and fetchall: take what the buffer holds, then      *)
(* _fetch_more_rows and take again, until enough rows are taken (fetchall: *)
(* never enough) or no more can be had.                                    *)
(***************************************************************************)
Moved(res, rows, index) ==
  [stmt |-> res.stmt, desc |-> res.desc, rows |-> rows, index |-> index,
   total |-> res.total]

\* Seeded fault: the last row of a result is never asked for.
TakeStoppingEarly(op, c, rows, want) ==
  LET available == Len(rows) - result[c].index
      take == IF op = "fetchall" THEN available ELSE Min2(available, want)
      index == result[c].index + take
      more == /\ op = "fetchall" \/ take < want
              /\ handle[c] # None
              /\ index + 1 < result[c].total
  IN  /\ result' = [result EXCEPT ![c] = Moved(@, rows, index)]
      /\ IF more
         THEN /\ call' = [Begin(op, c, FetchPacket(handle[c], index))
                            EXCEPT !.want = IF op = "fetchall" THEN 0
                                       ELSE want - take]
              /\ ret' = NoReturn
         ELSE Return

Take(op, c, rows, want) ==
  LET available == Len(rows) - result[c].index
      take == IF op = "fetchall" THEN available ELSE Min2(available, want)
      index == result[c].index + take
      more == /\ op = "fetchall" \/ take < want
              /\ handle[c] # None
              /\ index < result[c].total
  IN  /\ result' = [result EXCEPT ![c] = Moved(@, rows, index)]
      /\ IF more
         THEN /\ call' = [Begin(op, c, FetchPacket(handle[c], index))
                            EXCEPT !.want = IF op = "fetchall" THEN 0
                                       ELSE want - take]
              /\ ret' = NoReturn
         ELSE Return

Fetchable(c) == ~closed[c] /\ result[c].desc

FetchmanyCall(c) ==
  /\ Invoke("fetchmany")
  /\ Fetchable(c)
  /\ \E n \in WantSizes : Take("fetchmany", c, result[c].rows, n)
  /\ UNCHANGED <<serverVars, connectionVars, closed, handle, lastrowid, sent, acked>>

FetchallCall(c) ==
  /\ Invoke("fetchall")
  /\ Fetchable(c)
  /\ Take("fetchall", c, result[c].rows, 0)
  /\ UNCHANGED <<serverVars, connectionVars, closed, handle, lastrowid, sent, acked>>

\* Seeded fault: the rows fetched replace the buffer instead of extending it.
FetchReplyReplacingRows ==
  /\ call.op \in {"fetchmany", "fetchall"}
  /\ \E r \in PossibleReplies :
       /\ SendAndReceive(r)
       /\ \/ /\ r.st = "ok" /\ r.rows # <<>>
             /\ Take(call.op, call.cur, r.rows, call.want)
          \/ r.st = "ok" /\ r.rows = <<>> /\ Return /\ UNCHANGED result
          \/ r.st # "ok" /\ Raise /\ UNCHANGED result
  /\ UNCHANGED <<autocommit, cursors, closed, handle, lastrowid, sent, acked>>

\* An exception loses the rows this call has taken from the buffer so far.
FetchReply ==
  /\ call.op \in {"fetchmany", "fetchall"}
  /\ \E r \in PossibleReplies :
       /\ SendAndReceive(r)
       /\ \/ /\ r.st = "ok" /\ r.rows # <<>>
             /\ Take(call.op, call.cur, result[call.cur].rows \o r.rows, call.want)
          \/ r.st = "ok" /\ r.rows = <<>> /\ Return /\ UNCHANGED result
          \/ r.st # "ok" /\ Raise /\ UNCHANGED result
  /\ UNCHANGED <<autocommit, cursors, closed, handle, lastrowid, sent, acked>>
=============================================================================
