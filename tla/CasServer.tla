----------------------------- MODULE CasServer -----------------------------
(***************************************************************************)
(* The CUBRID CAS worker at the far end of a pycubrid connection.          *)
(*                                                                         *)
(* External code: the broker is not part of this repository.  What it does *)
(* is taken from the requests src/pycubrid/protocol.py writes, the         *)
(* responses it parses and what the drivers assume about them: a handle    *)
(* number names a statement inside one session, END_TRAN may free every    *)
(* handle (_connection_common.py:121), CAS_INFO says INACTIVE only when no *)
(* transaction is open (connection.py:206), and a session that ends takes  *)
(* its handles and its uncommitted work with it.                           *)
(*                                                                         *)
(* The module holds the session's state and the outcomes of each request.  *)
(* A statement is a member of Stmts, sent at most once; row i of a SELECT  *)
(* s is the pair <<s, i>>, so that a row always tells whose it is.         *)
(***************************************************************************)
EXTENDS Integers, Sequences, FiniteSets

CONSTANTS
  Stmts,      \* the statements the application may send
  Kind,       \* [Stmts -> Kinds]
  Size,       \* [Stmts -> Nat], the number of rows of each result
  Handles,    \* the request handle numbers a session can give out
  FetchSize,  \* rows per FETCH, Connection._fetch_size
  InlineMax,  \* at most this many rows come with the response to an execute
  None        \* Python's None

Kinds == {"select", "insert", "update", "schema"}

ASSUME NoneAssumption == None \notin Stmts \cup Handles
ASSUME KindAssumption == Kind \in [Stmts -> Kinds]
ASSUME SizeAssumption == Size \in [Stmts -> Nat]
ASSUME FetchSizeAssumption == FetchSize \in Nat \ {0} /\ InlineMax \in Nat

VARIABLES
  up,       \* the session at the far end of the driver's socket is alive
  open,     \* open[h]: the statement handle h stands for, or None
  tran,     \* a transaction is open
  work,     \* the DML statements executed in the open transaction
  durable,  \* statements committed, over all sessions
  param,    \* the session's AUTO_COMMIT parameter
  lastId    \* the last INSERT of the session, or None

serverVars == <<up, open, tran, work, durable, param, lastId>>

Min2(a, b) == IF a <= b THEN a ELSE b

IsDml(s) == Kind[s] \in {"insert", "update"}

(***************************************************************************)
(* Requests.  One record shape for the packet classes of protocol.py, with *)
(* the fields the server acts on: h, a query handle; stmts, the SQL; ac,   *)
(* the auto-commit flag or parameter; from, the first row wanted (1-based).*)
(***************************************************************************)
Fcs == {"None", "CloseQuery", "PrepareAndExecute", "ExecuteBatch", "Fetch",
        "Commit", "Rollback", "SetDbParameter", "GetLastInsertId",
        "GetEngineVersion", "GetSchema", "CheckCas", "CloseDatabase"}

Packets == [fc: Fcs, h: Handles \cup {None}, stmts: SUBSET Stmts,
            ac: BOOLEAN, from: Nat]

Packet(fc, h, stmts, ac, from) ==
  [fc |-> fc, h |-> h, stmts |-> stmts, ac |-> ac, from |-> from]

SimplePacket(fc) == Packet(fc, None, {}, FALSE, 0)
NoPacket == SimplePacket("None")
CommitPacket == SimplePacket("Commit")
RollbackPacket == SimplePacket("Rollback")
CloseDatabasePacket == SimplePacket("CloseDatabase")
GetLastInsertIdPacket == SimplePacket("GetLastInsertId")
GetEngineVersionPacket == SimplePacket("GetEngineVersion")
CheckCasPacket == SimplePacket("CheckCas")
CloseQueryPacket(h) == Packet("CloseQuery", h, {}, FALSE, 0)
PrepareAndExecutePacket(s, ac) == Packet("PrepareAndExecute", None, {s}, ac, 0)
BatchExecutePacket(ss, ac) == Packet("ExecuteBatch", None, ss, ac, 0)
GetSchemaPacket(s) == Packet("GetSchema", None, {s}, FALSE, 0)
\* Seeded fault: the cursor position is one too low.
FetchPacketTooLow(h, rowIndex) == Packet("Fetch", h, {}, FALSE, rowIndex - 1)

FetchPacket(h, rowIndex) == Packet("Fetch", h, {}, FALSE, rowIndex + 1)
SetDbParameterPacket(v) == Packet("SetDbParameter", None, {}, v, 0)

(***************************************************************************)
(* Responses, as the packet's parse() leaves them.  st: "ok"; "error", a   *)
(* negative response code, raised as a DatabaseError by _raise_error;      *)
(* "operr", an OperationalError or InterfaceError of the transport;        *)
(* "unparsed", an exception of the decoding of the data.                   *)
(***************************************************************************)
ReplyStates == {"ok", "error", "operr", "unparsed"}

Replies == [st: ReplyStates, h: Handles \cup {None}, rows: Seq(Stmts \X Nat),
            id: Stmts \cup {None}, done: SUBSET Stmts, neg: BOOLEAN]

Reply(h, rows, id, done) ==
  [st |-> "ok", h |-> h, rows |-> rows, id |-> id, done |-> done, neg |-> FALSE]

OkReply == Reply(None, <<>>, None, {})
Failed(st) == [OkReply EXCEPT !.st = st]
NegativeReply == [OkReply EXCEPT !.neg = TRUE]

\* n rows of the result of s, beginning with row number from.
RowsOf(s, from, n) == [i \in 1..n |-> <<s, from + i - 1>>]

NoHandles == [h \in Handles |-> None]

(***************************************************************************)
(* A session opens (OPEN_DATABASE) and ends.                               *)
(***************************************************************************)
SessionOpens ==
  /\ up' = TRUE
  /\ open' = NoHandles
  /\ tran' = FALSE
  /\ work' = {}
  /\ param' = FALSE
  /\ lastId' = None
  /\ UNCHANGED durable

SessionEnds ==
  /\ up' = FALSE
  /\ open' = NoHandles
  /\ tran' = FALSE
  /\ work' = {}
  /\ UNCHANGED <<durable, param, lastId>>

(***************************************************************************)
(* The requests a live session answers: for each packet, the set of its    *)
(* outcomes, an outcome being the session's next state and the response.   *)
(***************************************************************************)
Outcome(o, t, w, d, p, l, r) ==
  [open |-> o, tran |-> t, work |-> w, durable |-> d, param |-> p,
   lastId |-> l, reply |-> r]

Answer(r) == Outcome(open, tran, work, durable, param, lastId, r)

Dml(ss) == {s \in ss : IsDml(s)}

\* The statements ss have run under the auto-commit flag ac; the handle
\* table is now o, the last generated identifier l.
Ran(ss, ac, o, l, r) ==
  Outcome(o, ~ac,
          IF ac THEN {} ELSE work \cup Dml(ss),
          IF ac THEN durable \cup work \cup Dml(ss) ELSE durable,
          param, l, r)

InlineRows(s) == IF Kind[s] = "select" THEN 0..Min2(InlineMax, Size[s]) ELSE {0}

FreeHandles == {h \in Handles : open[h] = None}

\* PREPARE_AND_EXECUTE and the schema request open a handle of any free
\* number; the first rows of a SELECT come with the response.
OpenOutcomes(s, ac, h) ==
  {Ran({s}, ac, [open EXCEPT ![h] = s], IF Kind[s] = "insert" THEN s ELSE lastId,
       Reply(h, RowsOf(s, 1, n), None, {s})) : n \in InlineRows(s)}

ExecuteOutcomes(s, ac) == UNION {OpenOutcomes(s, ac, h) : h \in FreeHandles}

\* The last generated identifier, once the statements ss have run.
LastIds(ss) ==
  LET inserts == {s \in ss : Kind[s] = "insert"}
  IN  IF inserts = {} THEN {lastId} ELSE inserts

\* EXECUTE_BATCH: each statement succeeds or is reported as an error.  The
\* handles it uses are its own and are gone when it answers.
BatchOutcomes(done, ac) ==
  {Ran(done, ac, open, l, Reply(None, <<>>, None, done)) : l \in LastIds(done)}

\* FETCH reads the result of whatever statement the handle number stands
\* for now; an unknown number is an error.
RowsLeft(s, from) ==
  IF from > Size[s] THEN 0 ELSE Min2(Size[s] - (from - 1), FetchSize)

FetchedRows(s, from) == RowsOf(s, from, RowsLeft(s, from))

FetchOutcomes(p) ==
  IF p.h \in Handles /\ open[p.h] # None
  THEN {Answer(Reply(None, FetchedRows(open[p.h], p.from), None, {}))}
  ELSE {}

\* CLOSE_REQ_HANDLE frees the number; an unknown one may pass unnoticed.
CloseQueryOutcomes(p) ==
  {Outcome([open EXCEPT ![p.h] = None], tran, work, durable, param, lastId,
           OkReply)}

\* END_TRAN: the broker may reset the worker, and with it every handle.
EndTranOutcomes(p) ==
  {Outcome(table, FALSE, {}, IF p.fc = "Commit" THEN durable \cup work ELSE durable,
           param, lastId, OkReply) : table \in {open, NoHandles}}

SetDbParameterOutcomes(p) ==
  {Outcome(open, tran, work, durable, p.ac, lastId, OkReply)}

CloseDatabaseOutcomes ==
  {Outcome(NoHandles, FALSE, {}, durable, param, lastId, OkReply)}

\* Any request may be refused, but CHECK_CAS has a negative answer of its
\* own, which CheckCasPacket.parse does not raise.
Outcomes(p) ==
  IF p.fc = "CheckCas" THEN {Answer(OkReply), Answer(NegativeReply)}
  ELSE {Answer(Failed("error"))} \cup
       (CASE p.fc \in {"PrepareAndExecute", "GetSchema"} ->
               UNION {ExecuteOutcomes(s, p.ac) : s \in p.stmts}
          [] p.fc = "ExecuteBatch" ->
               UNION {BatchOutcomes(done, p.ac) : done \in SUBSET p.stmts}
          [] p.fc = "Fetch" -> FetchOutcomes(p)
          [] p.fc = "CloseQuery" -> CloseQueryOutcomes(p)
          [] p.fc \in {"Commit", "Rollback"} -> EndTranOutcomes(p)
          [] p.fc = "SetDbParameter" -> SetDbParameterOutcomes(p)
          [] p.fc = "GetLastInsertId" -> {Answer(Reply(None, <<>>, lastId, {}))}
          [] p.fc = "CloseDatabase" -> CloseDatabaseOutcomes
          [] OTHER -> {Answer(OkReply)})

\* The session moves to the state of outcome o.
Serve(o) ==
  /\ up
  /\ UNCHANGED up
  /\ open' = o.open
  /\ tran' = o.tran
  /\ work' = o.work
  /\ durable' = o.durable
  /\ param' = o.param
  /\ lastId' = o.lastId

\* The session ends with the request p under way: carried out, or not.
SessionEndsDuring(p) ==
  /\ up' = FALSE
  /\ open' = NoHandles
  /\ tran' = FALSE
  /\ work' = {}
  /\ durable' \in {durable} \cup
                    (IF up THEN {o.durable : o \in Outcomes(p)} ELSE {})
  /\ UNCHANGED <<param, lastId>>

ServerInit ==
  /\ up = TRUE
  /\ open = NoHandles
  /\ tran = FALSE
  /\ work = {}
  /\ durable = {}
  /\ lastId = None

ServerTypeOK ==
  /\ up \in BOOLEAN
  /\ open \in [Handles -> Stmts \cup {None}]
  /\ tran \in BOOLEAN
  /\ work \in SUBSET Stmts
  /\ durable \in SUBSET Stmts
  /\ param \in BOOLEAN
  /\ lastId \in Stmts \cup {None}
=============================================================================
