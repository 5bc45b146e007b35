------------------------- MODULE AsyncDriverProofs -------------------------
(***************************************************************************)
(* The asyncio driver keeps its types, its lock and its streams in order,  *)
(* leaves no more behind than was cancelled, and moves its transport as    *)
(* Transport.tla has it, for every value of the constants: any number of   *)
(* tasks, cursors and cancellations.                                       *)
(***************************************************************************)
EXTENDS AsyncDriver, CasServerProofs

(***************************************************************************)
(* Part 1.  The types hold together with LockKept, with a task that acts   *)
(* for a cursor having one, and with the server saying yes or no.          *)
(***************************************************************************)
CursorOps == {"cursor_close", "execute", "executemany_batch", "fetchmany", "fetchall"}

TaskHasCursor ==
  \A t \in Tasks : task[t].op \in CursorOps => task[t].cur \in Cursors

\* What the server answers: yes or no.
Answered == {m \in Messages : m.reply.st \in {"ok", "error"}}

WireOK ==
  /\ ServerTypeOK
  /\ connected \in BOOLEAN
  /\ streams \in BOOLEAN
  /\ requests \in Seq(Packets)
  /\ responses \in Seq(Answered)
  /\ casStatus \in {"ACTIVE", "INACTIVE"}

CursorsOK ==
  /\ autocommit \in BOOLEAN
  /\ cursors \in SUBSET Cursors
  /\ closed \in [Cursors -> BOOLEAN]
  /\ handle \in [Cursors -> Handles \cup {None}]
  /\ result \in [Cursors -> ResultRecords]
  /\ lastrowid \in [Cursors -> Stmts \cup {None}]

CallsOK ==
  /\ owner \in Tasks \cup {None}
  /\ waiters \in Seq(Tasks)
  /\ task \in [Tasks -> TaskRecords]
  /\ ret \in {"none", "returned", "false", "raised", "cancelled"}
  /\ TaskHasCursor
  /\ LockKept

HistoryOK == cancels \in Nat /\ sent \in SUBSET Stmts /\ acked \in SUBSET Stmts

TypeInv == WireOK /\ CursorsOK /\ CallsOK /\ HistoryOK

\* The types are TypeOK.
LEMMA TypeParts == TypeInv => TypeOK /\ TaskHasCursor /\ LockKept
<1>1. responses \in Seq(Answered) => responses \in Seq(Messages)
  BY DEF Answered
<1> QED
  BY <1>1 DEF TypeInv, WireOK, CursorsOK, CallsOK, HistoryOK, TypeOK

(***************************************************************************)
(* The queue.                                                              *)
(***************************************************************************)
\* A sequence with one place cut out.
Cut(q, k) == SubSeq(q, 1, k - 1) \o SubSeq(q, k + 1, Len(q))

\* A queue without its k-th place.
LEMMA CutParts ==
  ASSUME NEW q \in Seq(Tasks), NEW k \in DOMAIN q
  PROVE  /\ Cut(q, k) \in Seq(Tasks)
         /\ Len(Cut(q, k)) = Len(q) - 1
         /\ \A i \in 1..(Len(q) - 1) :
              Cut(q, k)[i] = IF i < k THEN q[i] ELSE q[i + 1]
<1> DEFINE a == SubSeq(q, 1, k - 1)
           b == SubSeq(q, k + 1, Len(q))
<1>1. k \in 1..Len(q) /\ Len(q) \in Nat /\ k \in Nat
  OBVIOUS
<1>2. a \in Seq(Tasks) /\ Len(a) = k - 1 /\ \A i \in 1..(k - 1) : a[i] = q[i]
  BY <1>1
<1>3. /\ b \in Seq(Tasks) /\ Len(b) = Len(q) - k
      /\ \A i \in 1..(Len(q) - k) : b[i] = q[k + i]
  BY <1>1
<1> HIDE DEF a, b
<1>4. a \o b \in Seq(Tasks) /\ Len(a \o b) = Len(q) - 1
  BY <1>1, <1>2, <1>3
<1>5. ASSUME NEW i \in 1..(Len(q) - 1)
      PROVE  (a \o b)[i] = IF i < k THEN q[i] ELSE q[i + 1]
  <2>1. CASE i < k
    BY <1>1, <1>2, <1>3, <2>1
  <2>2. CASE ~(i < k)
    <3>1. (a \o b)[i] = b[i - (k - 1)]
      BY <1>1, <1>2, <1>3, <2>2
    <3>2. i - (k - 1) \in 1..(Len(q) - k) /\ k + (i - (k - 1)) = i + 1
      BY <1>1, <2>2
    <3> QED
      BY <1>3, <2>2, <3>1, <3>2
  <2> QED
    BY <2>1, <2>2
<1> QED
  BY <1>4, <1>5 DEF Cut, a, b

\* The task at place k leaves a queue: it is gone, the others are not.
LEMMA CutQueue ==
  ASSUME NEW q \in Seq(Tasks), Once(q), NEW k \in DOMAIN q, NEW p \in Seq(Tasks),
         DOMAIN p = 1..(Len(q) - 1),
         \A i \in 1..(Len(q) - 1) : p[i] = IF i < k THEN q[i] ELSE q[i + 1]
  PROVE  /\ Once(p)
         /\ \A u : Queued(p, u) <=> Queued(q, u) /\ u # q[k]
<1>1. DOMAIN q = 1..Len(q) /\ Len(q) \in Nat /\ k \in 1..Len(q)
  OBVIOUS
<1>2. Once(p)
  BY <1>1 DEF Once
<1>3. ASSUME NEW u, Queued(p, u)
      PROVE  Queued(q, u) /\ u # q[k]
  <2>1. PICK i \in 1..(Len(q) - 1) : p[i] = u
    BY <1>3 DEF Queued
  <2>2. CASE i < k
    BY <1>1, <2>1, <2>2 DEF Queued, Once
  <2>3. CASE ~(i < k)
    <3>1. i + 1 \in 1..Len(q) /\ i + 1 # k /\ q[i + 1] = u
      BY <1>1, <2>1, <2>3
    <3> QED
      BY <1>1, <3>1 DEF Queued, Once
  <2> QED
    BY <2>2, <2>3
<1>4. ASSUME NEW u, Queued(q, u), u # q[k]
      PROVE  Queued(p, u)
  <2>1. PICK i \in 1..Len(q) : q[i] = u
    BY <1>1, <1>4 DEF Queued
  <2>2. CASE i < k
    BY <1>1, <2>1, <2>2 DEF Queued
  <2>3. CASE ~(i < k)
    <3>1. i - 1 \in 1..(Len(q) - 1) /\ ~(i - 1 < k) /\ (i - 1) + 1 = i
      BY <1>1, <1>4, <2>1, <2>3
    <3> QED
      BY <2>1, <3>1 DEF Queued
  <2> QED
    BY <2>2, <2>3
<1> QED
  BY <1>2, <1>3, <1>4

\* A task leaves the queue wherever it stands in it.
LEMMA LeaveQueue ==
  ASSUME waiters \in Seq(Tasks), Once(waiters), NEW t
  PROVE  /\ OtherWaiters(t) \in Seq(Tasks)
         /\ Once(OtherWaiters(t))
         /\ \A u : Queued(OtherWaiters(t), u) <=> Queued(waiters, u) /\ u # t
<1>1. CASE ~Queued(waiters, t)
  BY <1>1 DEF OtherWaiters, Queued
<1>2. CASE Queued(waiters, t)
  <2> DEFINE k == CHOOSE i \in DOMAIN waiters : waiters[i] = t
             p == Cut(waiters, k)
  <2>1. k \in DOMAIN waiters /\ waiters[k] = t /\ OtherWaiters(t) = p
    BY <1>2 DEF OtherWaiters, Queued, Cut
  <2> HIDE DEF k
  <2>2. /\ p \in Seq(Tasks) /\ DOMAIN p = 1..(Len(waiters) - 1)
        /\ \A i \in 1..(Len(waiters) - 1) :
             p[i] = IF i < k THEN waiters[i] ELSE waiters[i + 1]
    BY <2>1, CutParts
  <2> HIDE DEF p
  <2>3. Once(p) /\ \A u : Queued(p, u) <=> Queued(waiters, u) /\ u # waiters[k]
    BY <2>1, <2>2, CutQueue
  <2> QED
    BY <2>1, <2>2, <2>3
<1> QED
  BY <1>1, <1>2

\* The head of the queue leaves it.
LEMMA HeadLeaves ==
  ASSUME waiters \in Seq(Tasks), Once(waiters), NEW t, Queued(waiters, t),
         Head(waiters) = t
  PROVE  /\ Tail(waiters) \in Seq(Tasks)
         /\ Once(Tail(waiters))
         /\ \A u : Queued(Tail(waiters), u) <=> Queued(waiters, u) /\ u # t
<1> DEFINE p == Tail(waiters)
<1>1. /\ waiters # <<>> /\ waiters[1] = t /\ Len(waiters) \in Nat
      /\ 1 \in DOMAIN waiters
  BY DEF Queued
<1>2. /\ p \in Seq(Tasks) /\ DOMAIN p = 1..(Len(waiters) - 1)
      /\ \A i \in 1..(Len(waiters) - 1) :
           p[i] = IF i < 1 THEN waiters[i] ELSE waiters[i + 1]
  BY <1>1
<1> HIDE DEF p
<1>3. Once(p) /\ \A u : Queued(p, u) <=> Queued(waiters, u) /\ u # waiters[1]
  BY <1>1, <1>2, CutQueue
<1> QED
  BY <1>1, <1>2, <1>3 DEF p

\* A task joins the queue.
LEMMA JoinQueue ==
  ASSUME NEW q \in Seq(Tasks), Once(q), NEW t \in Tasks, ~Queued(q, t)
  PROVE  /\ Append(q, t) \in Seq(Tasks)
         /\ Once(Append(q, t))
         /\ \A u : Queued(Append(q, t), u) <=> Queued(q, u) \/ u = t
<1> DEFINE p == Append(q, t)
<1>1. /\ Len(q) \in Nat /\ DOMAIN q = 1..Len(q)
      /\ p \in Seq(Tasks) /\ DOMAIN p = 1..(Len(q) + 1)
      /\ \A i \in 1..Len(q) : p[i] = q[i]
      /\ p[Len(q) + 1] = t
  OBVIOUS
<1> HIDE DEF p
<1>2. \A i \in 1..(Len(q) + 1) : i \in 1..Len(q) \/ i = Len(q) + 1
  BY <1>1
<1>3. Once(p)
  BY <1>1, <1>2 DEF Once, Queued
<1>4. \A u : Queued(p, u) <=> Queued(q, u) \/ u = t
  <2>1. ASSUME NEW u, Queued(p, u)
        PROVE  Queued(q, u) \/ u = t
    BY <1>1, <1>2, <2>1 DEF Queued
  <2>2. ASSUME NEW u, Queued(q, u) \/ u = t
        PROVE  Queued(p, u)
    <3>1. CASE Queued(q, u)
      BY <1>1, <3>1 DEF Queued
    <3>2. CASE u = t
      <4>1. Len(q) + 1 \in 1..(Len(q) + 1)
        BY <1>1
      <4> QED
        BY <1>1, <3>2, <4>1 DEF Queued
    <3> QED
      BY <2>2, <3>1, <3>2
  <2> QED
    BY <2>1, <2>2
<1> QED
  BY <1>1, <1>3, <1>4 DEF p

(***************************************************************************)
(* The call a task has under way.                                          *)
(***************************************************************************)
\* The parts of a call that begins.
LEMMA Parts ==
  /\ \A op, c, p : /\ Begin(op, c, p).op = op /\ Begin(op, c, p).cur = c
                   /\ Begin(op, c, p).pkt = p /\ Begin(op, c, p).at = "lock"
                   /\ Begin(op, c, p).why = "request"
  /\ \A op, why : /\ BeginFor(op, why).op = op /\ BeginFor(op, why).cur = None
                  /\ BeginFor(op, why).pkt = NoPacket /\ BeginFor(op, why).at = "lock"
                  /\ BeginFor(op, why).why = why
  /\ Idle.op = "none" /\ Idle.at = "idle" /\ Idle.pkt = NoPacket
  /\ Idle.cur = None /\ Idle.why = "request"
  BY DEF Begin, BeginFor, Idle

\* A call that begins is a call.
LEMMA BeginType ==
  /\ Idle \in TaskRecords
  /\ \A op \in Calls, c \in Cursors \cup {None}, p \in Packets :
       Begin(op, c, p) \in TaskRecords
  /\ \A op \in Calls, why \in {"request", "connect", "drop", "close"} :
       BeginFor(op, why) \in TaskRecords
<1>1. NoPacket \in Packets
  BY PacketType
<1>2. Idle \in TaskRecords
  BY <1>1 DEF Idle, TaskRecords
<1> QED
  BY <1>2 DEF Begin, BeginFor, TaskRecords

\* t does not keep the lock: it did not have it, or gives it back.
Leaves(t) ==
  \/ owner' = owner /\ task[t].at \in {"idle", "lock"}
  \/ owner' = None /\ owner \in {None, t}

\* A call that may wait for the lock.
Ready(call) ==
  call \in TaskRecords /\ call.at = "lock" /\ (call.op \in CursorOps => call.cur \in Cursors)

\* t waits for the lock with another request, or for the first time.
LEMMA WaitCalls ==
  ASSUME TypeInv, NEW t \in Tasks, NEW call, Ready(call), Wait(t, call), Leaves(t)
  PROVE  CallsOK'
<1> USE TasksAssumption
<1>t. /\ CallsOK
      /\ call \in TaskRecords /\ call.at = "lock"
      /\ call.op \in CursorOps => call.cur \in Cursors
  BY DEF TypeInv, Ready
<1> DEFINE rest == OtherWaiters(t)
<1>1. /\ rest \in Seq(Tasks) /\ Once(rest)
      /\ \A u : Queued(rest, u) <=> Queued(waiters, u) /\ u # t
  BY <1>t, LeaveQueue DEF CallsOK, LockKept
<1>2. task' = [task EXCEPT ![t] = call] /\ waiters' = Append(rest, t) /\ ret' = "none"
  BY DEF Wait
<1> HIDE DEF rest
<1>3. /\ waiters' \in Seq(Tasks) /\ Once(waiters')
      /\ \A u : Queued(waiters', u) <=> Queued(rest, u) \/ u = t
  BY <1>1, <1>2, JoinQueue
<1>4. /\ task' \in [Tasks -> TaskRecords] /\ task'[t] = call
      /\ \A u \in Tasks \ {t} : task'[u] = task[u]
  BY <1>t, <1>2 DEF CallsOK
<1>5. owner' \in Tasks \cup {None}
  BY <1>t DEF CallsOK, Leaves
<1>6. \A u \in Tasks : task'[u].at \in {"connect", "read"} <=> owner' = u
  BY <1>t, <1>4 DEF CallsOK, LockKept, Leaves
<1>7. \A u \in Tasks : task'[u].at = "lock" <=> Queued(waiters', u)
  BY <1>t, <1>1, <1>3, <1>4 DEF CallsOK, LockKept
<1>8. TaskHasCursor'
  BY <1>t, <1>4 DEF CallsOK, TaskHasCursor
<1> QED
  BY <1>2, <1>3, <1>4, <1>5, <1>6, <1>7, <1>8 DEF CallsOK, LockKept

\* The call of t is over.
LEMMA FinishCalls ==
  ASSUME TypeInv, NEW t \in Tasks,
         NEW st \in {"none", "returned", "false", "raised", "cancelled"},
         Finish(t, st), Leaves(t)
  PROVE  CallsOK' /\ task'[t] = Idle
<1> USE TasksAssumption
<1>t. CallsOK
  BY DEF TypeInv
<1>1. /\ waiters' \in Seq(Tasks) /\ Once(waiters')
      /\ \A u : Queued(waiters', u) <=> Queued(waiters, u) /\ u # t
  BY <1>t, LeaveQueue DEF CallsOK, LockKept, Finish
<1>2. /\ task' \in [Tasks -> TaskRecords] /\ task'[t] = Idle
      /\ \A u \in Tasks \ {t} : task'[u] = task[u]
  BY <1>t, BeginType DEF CallsOK, Finish
<1>3. owner' \in Tasks \cup {None}
  BY <1>t DEF CallsOK, Leaves
<1>4. \A u \in Tasks : task'[u].at \in {"connect", "read"} <=> owner' = u
  BY <1>t, <1>2, Parts DEF CallsOK, LockKept, Leaves
<1>5. \A u \in Tasks : task'[u].at = "lock" <=> Queued(waiters', u)
  BY <1>t, <1>1, <1>2, Parts DEF CallsOK, LockKept
<1>6. TaskHasCursor'
  BY <1>t, <1>2, Parts DEF CallsOK, TaskHasCursor, CursorOps
<1>7. ret' \in {"none", "returned", "false", "raised", "cancelled"}
  BY DEF Finish
<1> QED
  BY <1>1, <1>2, <1>3, <1>4, <1>5, <1>6, <1>7 DEF CallsOK, LockKept

\* A call that goes on to something else.
At(call, at) == [call EXCEPT !.at = at]

\* A call that moves on to another place.
LEMMA AtType ==
  ASSUME NEW call \in TaskRecords, NEW at \in {"idle", "lock", "connect", "read"}
  PROVE  /\ At(call, at) \in TaskRecords
         /\ At(call, at).at = at
         /\ At(call, at).op = call.op
         /\ At(call, at).cur = call.cur
         /\ At(call, at).why = call.why
         /\ At(call, at).pkt = call.pkt
  BY DEF TaskRecords, At

\* t waits, with the lock it has or takes, for something else.
LEMMA SuspendCalls ==
  ASSUME TypeInv, NEW t \in Tasks, NEW at \in {"connect", "read"}, Suspend(t, at),
         \/ Granted(t) /\ Acquire(t)
         \/ task[t].at = "connect" /\ UNCHANGED lockVars
  PROVE  /\ CallsOK' /\ owner' = t
         /\ task'[t] = At(task[t], at)
         /\ \A u \in Tasks \ {t} : task'[u] = task[u]
<1> USE TasksAssumption
<1>t. CallsOK
  BY DEF TypeInv
<1> DEFINE call == At(task[t], at)
<1>0. /\ task[t] \in TaskRecords /\ call \in TaskRecords
      /\ call.at = at /\ call.op = task[t].op /\ call.cur = task[t].cur
  BY <1>t, AtType DEF CallsOK
<1>9. task' = [task EXCEPT ![t] = call] /\ ret' = "none"
  BY DEF Suspend, At
<1> HIDE DEF call
<1>1. /\ task' \in [Tasks -> TaskRecords] /\ task'[t] = call
      /\ \A u \in Tasks \ {t} : task'[u] = task[u]
      /\ ret' = "none"
  BY <1>t, <1>0, <1>9 DEF CallsOK
<1>2. task'[t].at = at /\ task'[t].op = task[t].op /\ task'[t].cur = task[t].cur
  BY <1>0, <1>1
<1>3. TaskHasCursor'
  BY <1>t, <1>1, <1>2 DEF CallsOK, TaskHasCursor
<1>4. CASE Granted(t) /\ Acquire(t)
  <2>1. owner = None /\ owner' = t /\ task[t].at = "lock" /\ waiters' = Tail(waiters)
    BY <1>4 DEF Granted, Acquire
  <2>2. /\ waiters' \in Seq(Tasks) /\ Once(waiters')
        /\ \A u : Queued(waiters', u) <=> Queued(waiters, u) /\ u # t
    BY <1>t, <1>4, <2>1, HeadLeaves DEF CallsOK, LockKept, Granted
  <2>3. \A u \in Tasks : task'[u].at \in {"connect", "read"} <=> owner' = u
    BY <1>t, <1>1, <1>2, <2>1 DEF CallsOK, LockKept
  <2>4. \A u \in Tasks : task'[u].at = "lock" <=> Queued(waiters', u)
    BY <1>t, <1>1, <1>2, <2>1, <2>2 DEF CallsOK, LockKept
  <2> QED
    BY <1>1, <1>3, <2>1, <2>2, <2>3, <2>4 DEF CallsOK, LockKept, call
<1>5. CASE task[t].at = "connect" /\ UNCHANGED lockVars
  <2>1. owner' = owner /\ owner = t /\ waiters' = waiters
    BY <1>t, <1>5 DEF CallsOK, LockKept, lockVars
  <2>2. \A u \in Tasks : task'[u].at \in {"connect", "read"} <=> owner' = u
    BY <1>t, <1>1, <1>2, <1>5, <2>1 DEF CallsOK, LockKept
  <2>3. \A u \in Tasks : task'[u].at = "lock" <=> Queued(waiters', u)
    BY <1>t, <1>1, <1>2, <1>5, <2>1 DEF CallsOK, LockKept
  <2> QED
    BY <1>t, <1>1, <1>3, <2>1, <2>2, <2>3 DEF CallsOK, LockKept, call
<1> QED
  BY <1>1, <1>4, <1>5 DEF call

\* No call changes.
LEMMA SameCalls ==
  ASSUME TypeInv, UNCHANGED <<owner, waiters, task>>,
         ret' \in {"none", "returned", "false", "raised", "cancelled"}
  PROVE  CallsOK'
  BY DEF TypeInv, CallsOK, TaskHasCursor, LockKept

\* The calls that begin, and what of them begins differs.
LEMMA ReadyCalls ==
  /\ \A op \in ConnectionCalls, p \in Packets : Ready(Begin(op, None, p))
  /\ \A op \in CursorCalls, c \in Cursors, p \in Packets : Ready(Begin(op, c, p))
  /\ \A c \in Cursors, p \in Packets : Ready(Begin("close", c, p))
  /\ \A op \in ConnectionCalls, why \in {"request", "connect", "drop", "close"} :
       Ready(BeginFor(op, why))
<1>1. /\ "close" \in Calls /\ CursorOps \cap ConnectionCalls = {}
      /\ ConnectionCalls \subseteq Calls /\ CursorCalls \subseteq Calls
  BY DEF Calls, ConnectionCalls, CursorOps, CursorCalls
<1>2. ASSUME NEW op \in Calls, NEW c \in Cursors \cup {None}, NEW p \in Packets,
             op \in CursorOps => c \in Cursors
      PROVE  Ready(Begin(op, c, p))
  <2>1. Begin(op, c, p) \in TaskRecords
    BY BeginType
  <2> QED
    BY <1>2, <2>1, Parts DEF Ready
<1>3. ASSUME NEW op \in ConnectionCalls,
             NEW why \in {"request", "connect", "drop", "close"}
      PROVE  Ready(BeginFor(op, why))
  <2>1. BeginFor(op, why) \in TaskRecords
    BY <1>1, BeginType
  <2> QED
    BY <1>1, <2>1, Parts DEF Ready
<1>4. \A op \in ConnectionCalls, p \in Packets : Ready(Begin(op, None, p))
  BY <1>1, <1>2
<1>5. \A op \in CursorCalls, c \in Cursors, p \in Packets : Ready(Begin(op, c, p))
  BY <1>1, <1>2
<1>6. \A c \in Cursors, p \in Packets : Ready(Begin("close", c, p))
  BY <1>1, <1>2
<1> QED
  BY <1>3, <1>4, <1>5, <1>6

\* A call stays ready whatever else is set in it.
LEMMA ReadyChanged ==
  ASSUME NEW call \in TaskRecords, Ready(call)
  PROVE  /\ \A v \in BOOLEAN : Ready([call EXCEPT !.flag = v])
         /\ \A ss \in SUBSET Stmts : Ready([call EXCEPT !.stmts = ss])
         /\ \A n \in Nat : Ready([call EXCEPT !.want = n])
         /\ \A todo \in SUBSET Cursors : Ready([call EXCEPT !.todo = todo])
         /\ \A p \in Packets : Ready([call EXCEPT !.pkt = p])
<1>1. \A v \in BOOLEAN : Ready([call EXCEPT !.flag = v])
  BY DEF Ready, TaskRecords
<1>2. ASSUME NEW ss \in SUBSET Stmts
      PROVE  Ready([call EXCEPT !.stmts = ss])
  BY DEF Ready, TaskRecords
<1>3. \A n \in Nat : Ready([call EXCEPT !.want = n])
  BY DEF Ready, TaskRecords
<1>4. ASSUME NEW todo \in SUBSET Cursors
      PROVE  Ready([call EXCEPT !.todo = todo])
  BY DEF Ready, TaskRecords
<1>5. \A p \in Packets : Ready([call EXCEPT !.pkt = p])
  BY DEF Ready, TaskRecords
<1> QED
  BY <1>1, <1>2, <1>3, <1>4, <1>5, Zenon

\* A call that waits for the lock again with its next request.
LEMMA ReadyAgain ==
  ASSUME TypeInv, NEW t \in Tasks, NEW p \in Packets
  PROVE  /\ Ready([task[t] EXCEPT !.pkt = p, !.at = "lock"])
         /\ Ready([task[t] EXCEPT !.at = "lock", !.pkt = p])
<1>1. task[t] \in TaskRecords /\ (task[t].op \in CursorOps => task[t].cur \in Cursors)
  BY DEF TypeInv, CallsOK, TaskHasCursor
<1> QED
  BY <1>1 DEF Ready, TaskRecords

(***************************************************************************)
(* The streams and the session.                                            *)
(***************************************************************************)
LEMMA WireType ==
  ASSUME WireOK
  PROVE  /\ Disconnect => /\ ServerTypeOK'
                          /\ connected' \in BOOLEAN /\ streams' \in BOOLEAN
                          /\ requests' \in Seq(Packets) /\ responses' \in Seq(Answered)
         /\ HandshakeOk /\ requests' \in Seq(Packets) => WireOK'
         /\ HandshakeFails => WireOK'
         /\ UNCHANGED serverVars => ServerTypeOK'
         /\ UNCHANGED <<serverVars, transportVars>> => WireOK'
<1>1. NoHandles \in [Handles -> Stmts \cup {None}]
  BY DEF NoHandles
<1>2. <<>> \in Seq(Packets) /\ <<>> \in Seq(Answered)
  OBVIOUS
<1>3. UNCHANGED serverVars => ServerTypeOK'
  BY DEF serverVars, WireOK, ServerTypeOK
<1>4. SessionEnds => ServerTypeOK'
  BY <1>1 DEF SessionEnds, WireOK, ServerTypeOK
<1>5. SessionOpens => ServerTypeOK'
  BY <1>1 DEF SessionOpens, WireOK, ServerTypeOK
<1> QED
  BY <1>2, <1>3, <1>4, <1>5
     DEF Disconnect, HandshakeOk, HandshakeFails, transportVars, WireOK

\* What parse() makes of a response is a reply.
LEMMA ReadingsType ==
  ASSUME NEW m \in Answered, NEW fc, NEW r \in Readings(m, fc)
  PROVE  r \in Replies /\ r.st \in {"ok", "error", "operr"}
<1>1. /\ m.reply \in Replies /\ OkReply \in Replies /\ NegativeReply \in Replies
      /\ Failed("error") \in Replies /\ Failed("operr") \in Replies
  BY ReplyType DEF Answered, Messages, ReplyStates
<1>2. /\ m.reply.st \in {"ok", "error"}
      /\ OkReply.st = "ok" /\ NegativeReply.st = "ok"
      /\ Failed("error").st = "error" /\ Failed("operr").st = "operr"
  BY DEF Answered, NegativeReply, Failed, OkReply, Reply
<1>3. r \in {m.reply, OkReply, NegativeReply, Failed("error"), Failed("operr")}
  BY DEF Readings
<1> QED
  BY <1>1, <1>2, <1>3

\* What an exchange may end in is a reply.
LEMMA RepliesIn ==
  ASSUME WireOK, NEW t \in Tasks, NEW r \in PossibleReplies(t)
  PROVE  r \in Replies /\ r.st \in {"ok", "error", "operr"}
<1>1. /\ Failed("error") \in Replies /\ Failed("operr") \in Replies
      /\ Failed("error").st = "error" /\ Failed("operr").st = "operr"
  BY ReplyType DEF ReplyStates, Failed, OkReply, Reply
<1>2. responses # <<>> => Head(responses) \in Answered
  BY DEF WireOK
<1> QED
  BY <1>1, <1>2, ReadingsType DEF PossibleReplies

\* An exchange, whatever comes of it.
LEMMA ExchangeType ==
  ASSUME TypeInv, NEW t \in Tasks, NEW r \in PossibleReplies(t), SendAndReceive(t, r)
  PROVE  r \in Replies /\ WireOK' /\ Leaves(t)
<1>t. WireOK /\ CallsOK
  BY DEF TypeInv
<1>1. r \in Replies
  BY <1>t, RepliesIn
<1>2. CASE NotConnected(t, r)
  BY <1>t, <1>1, <1>2, WireType DEF NotConnected, SendAndReceive, WantsToSend, Granted, Leaves
<1>3. CASE ReconnectFails(t, r)
  BY <1>t, <1>1, <1>3, WireType DEF ReconnectFails, SendAndReceive, CallsOK, LockKept, Leaves
<1>4. ASSUME Reading(t)
      PROVE  Leaves(t)
  BY <1>4 DEF Reading, SendAndReceive, Leaves
<1>5. CASE Response(t, r)
  <2>1. Head(responses) \in Answered /\ Tail(responses) \in Seq(Answered)
    BY <1>t, <1>5 DEF WireOK, Response
  <2>2. casStatus' \in {"ACTIVE", "INACTIVE"}
    BY <1>5, <2>1 DEF Response, Answered, Messages
  <2>3. CASE r.st = "operr"
    BY <1>t, <1>1, <1>4, <1>5, <2>2, <2>3, WireType DEF Response, WireOK
  <2>4. CASE r.st # "operr"
    BY <1>t, <1>1, <1>4, <1>5, <2>1, <2>2, <2>4, WireType DEF Response, WireOK
  <2> QED
    BY <2>3, <2>4
<1>6. CASE SocketError(t, r)
  BY <1>t, <1>1, <1>4, <1>6, WireType DEF SocketError, WireOK
<1>7. CASE EndOfFile(t, r)
  BY <1>t, <1>1, <1>4, <1>7, WireType DEF EndOfFile
<1> QED
  BY <1>2, <1>3, <1>5, <1>6, <1>7 DEF SendAndReceive

\* A cursor that is closed.
LEMMA CursorsClosedType ==
  ASSUME CursorsOK, NEW gone, CursorsClosed(gone), UNCHANGED autocommit
  PROVE  CursorsOK'
  BY DEF CursorsOK, CursorsClosed

\* What a fetch takes from the buffer of its cursor.
LEMMA TakeType ==
  ASSUME TypeInv, NEW t \in Tasks, Leaves(t), NEW op \in {"fetchmany", "fetchall"},
         NEW c \in Cursors, NEW rows \in Seq(Stmts \X Nat), NEW want \in Nat,
         Take(t, op, c, rows, want)
  PROVE  result' \in [Cursors -> ResultRecords] /\ CallsOK'
<1>t. CursorsOK
  BY DEF TypeInv
<1> DEFINE available == Len(rows) - result[c].index
           take == IF op = "fetchall" THEN available ELSE Min2(available, want)
           index == result[c].index + take
           more == /\ op = "fetchall" \/ take < want
                   /\ handle[c] # None
                   /\ index < result[c].total
           left == IF op = "fetchall" THEN 0 ELSE want - take
           call == [Begin(op, c, FetchPacket(handle[c], index)) EXCEPT !.want = left]
<1>1. result[c] \in ResultRecords /\ result[c].index \in Nat
  BY <1>t DEF CursorsOK, ResultRecords
<1>2. take \in Int /\ index \in Nat
  BY <1>1 DEF Min2
<1>3. more => left \in Nat
  BY <1>2
<1>4. /\ result' = [result EXCEPT ![c] = Moved(result[c], rows, index)]
      /\ IF more THEN Wait(t, call) ELSE Finish(t, "returned")
  BY DEF Take
<1> HIDE DEF take, index, more, left
<1>5. result' \in [Cursors -> ResultRecords]
  <2> DEFINE q == Moved(result[c], rows, index)
  <2>1. q \in ResultRecords
    BY <1>1, <1>2 DEF Moved, ResultRecords
  <2>2. result' = [result EXCEPT ![c] = q]
    BY <1>4
  <2> HIDE DEF q
  <2> QED
    BY <1>t, <2>1, <2>2 DEF CursorsOK
<1>6. CASE more
  <2> DEFINE p == FetchPacket(handle[c], index)
             first == Begin(op, c, p)
  <2>1. p \in Packets
    BY <1>t, <1>2, PacketType DEF CursorsOK
  <2> HIDE DEF p
  <2>2. Ready(first)
    BY <2>1, ReadyCalls DEF CursorCalls
  <2> HIDE DEF first
  <2>3. Ready([first EXCEPT !.want = left])
    BY <1>3, <1>6, <2>2, ReadyChanged DEF Ready
  <2>4. Ready(call)
    BY <2>3 DEF first, p
  <2> HIDE DEF call
  <2> QED
    BY <1>4, <1>5, <1>6, <2>4, WaitCalls
<1>7. CASE ~more
  BY <1>4, <1>5, <1>7, FinishCalls
<1> QED
  BY <1>6, <1>7

\* close() goes on to the next cursor that has a request to make, or to the end.
LEMMA CloseType ==
  ASSUME TypeInv, NEW t \in Tasks, Leaves(t), NEW gone, NEW todo \in SUBSET Cursors,
         CloseGoesOn(t, gone, todo), UNCHANGED autocommit
  PROVE  CallsOK' /\ CursorsOK'
<1>t. CursorsOK
  BY DEF TypeInv
<1>1. PICK quiet \in SUBSET todo :
        /\ CursorsClosed(gone \cup quiet)
        /\ \/ \E c \in todo \ quiet :
                Wait(t, [Begin("close", c, CloseQueryPacket(handle[c]))
                           EXCEPT !.todo = todo \ (quiet \cup {c})])
           \/ Wait(t, [BeginFor("close", "close") EXCEPT !.pkt = CloseDatabasePacket])
  BY DEF CloseGoesOn
<1>2. CursorsOK'
  BY <1>t, <1>1, CursorsClosedType
<1>3. ASSUME NEW c \in todo,
             Wait(t, [Begin("close", c, CloseQueryPacket(handle[c]))
                        EXCEPT !.todo = todo \ (quiet \cup {c})])
      PROVE  CallsOK'
  <2> DEFINE rest == todo \ (quiet \cup {c})
  <2>1. CloseQueryPacket(handle[c]) \in Packets /\ c \in Cursors /\ rest \in SUBSET Cursors
    BY <1>t, PacketType DEF CursorsOK
  <2> HIDE DEF rest
  <2>2. Ready(Begin("close", c, CloseQueryPacket(handle[c])))
    BY <2>1, ReadyCalls
  <2>3. Ready([Begin("close", c, CloseQueryPacket(handle[c])) EXCEPT !.todo = rest])
    BY <2>1, <2>2, ReadyChanged DEF Ready
  <2> QED
    BY <1>3, <2>3, WaitCalls DEF rest
<1>4. ASSUME Wait(t, [BeginFor("close", "close") EXCEPT !.pkt = CloseDatabasePacket])
      PROVE  CallsOK'
  <2>1. Ready(BeginFor("close", "close"))
    BY ReadyCalls DEF ConnectionCalls
  <2>2. Ready([BeginFor("close", "close") EXCEPT !.pkt = CloseDatabasePacket])
    BY <2>1, ReadyChanged, PacketType DEF Ready
  <2> QED
    BY <1>4, <2>2, WaitCalls
<1> QED
  BY <1>1, <1>2, <1>3, <1>4

(***************************************************************************)
(* The steps.                                                              *)
(***************************************************************************)
\* A task that calls the driver does not have the lock.
LEMMA InvocationType ==
  ASSUME TypeInv, NEW t \in Tasks, Invocation(t)
  PROVE  TypeInv'
<1> USE DEF NoCursorChange, cursorVars, historyVars
<1>t. WireOK /\ CursorsOK /\ CallsOK /\ HistoryOK
  BY DEF TypeInv
<1>n. NoPacket \in Packets /\ CheckCasPacket \in Packets
  BY PacketType
\* A call that waits for the lock and changes nothing else.
<1>w. ASSUME NEW call, Ready(call), Wait(t, call), IsIdle(t), UNCHANGED owner
      PROVE  CallsOK'
  BY <1>w, WaitCalls DEF IsIdle, Leaves
<1>f. ASSUME Finish(t, "returned"), IsIdle(t), UNCHANGED owner
      PROVE  CallsOK'
  BY <1>f, FinishCalls DEF IsIdle, Leaves
<1>u. UNCHANGED <<serverVars, transportVars>> => WireOK'
  BY <1>t, WireType
<1>c. UNCHANGED <<autocommit, cursors, closed, handle, result, lastrowid>> => CursorsOK'
  BY <1>t DEF CursorsOK
<1>h. UNCHANGED <<cancels, sent, acked>> => HistoryOK'
  BY <1>t DEF HistoryOK
<1>1. CASE ConnectCall(t)
  <2>1. Ready(BeginFor("connect", "connect"))
    BY ReadyCalls DEF ConnectionCalls
  <2> QED
    BY <1>1, <1>w, <1>u, <1>c, <1>h, <2>1 DEF ConnectCall, Invoke, TypeInv
<1>2. CASE PingCall(t)
  <2>1. PICK reconnect \in BOOLEAN :
          \/ /\ Wait(t, [Begin("ping", None, CheckCasPacket) EXCEPT !.flag = reconnect])
             /\ UNCHANGED handle
          \/ Wait(t, BeginFor("ping", "connect")) /\ handle' = Invalidated
    BY <1>2 DEF PingCall
  <2>2. Ready(BeginFor("ping", "connect")) /\ Ready(Begin("ping", None, CheckCasPacket))
    BY <1>n, ReadyCalls DEF ConnectionCalls
  <2>3. Ready([Begin("ping", None, CheckCasPacket) EXCEPT !.flag = reconnect])
    BY <2>2, ReadyChanged DEF Ready
  <2>4. CallsOK'
    BY <1>2, <1>w, <2>1, <2>2, <2>3 DEF PingCall, Invoke
  <2>5. CursorsOK'
    BY <1>2, <1>t, <2>1 DEF PingCall, CursorsOK, Invalidated
  <2> QED
    BY <1>2, <1>u, <1>h, <2>4, <2>5 DEF PingCall, TypeInv
<1>3. CASE EndTranCall(t)
  <2>1. /\ Ready(Begin("commit", None, CommitPacket))
        /\ Ready(Begin("rollback", None, RollbackPacket))
    BY PacketType, ReadyCalls DEF ConnectionCalls
  <2> QED
    BY <1>3, <1>w, <1>u, <1>c, <1>h, <2>1 DEF EndTranCall, Invoke, TypeInv
<1>4. CASE SetAutocommitCall(t)
  <2>1. PICK value \in BOOLEAN :
          Wait(t, [Begin("set_autocommit", None, SetDbParameterPacket(value))
                     EXCEPT !.flag = value])
    BY <1>4 DEF SetAutocommitCall
  <2>2. Ready(Begin("set_autocommit", None, SetDbParameterPacket(value)))
    BY PacketType, ReadyCalls DEF ConnectionCalls
  <2>3. Ready([Begin("set_autocommit", None, SetDbParameterPacket(value))
                 EXCEPT !.flag = value])
    BY <2>2, ReadyChanged DEF Ready
  <2> QED
    BY <1>4, <1>w, <1>u, <1>c, <1>h, <2>1, <2>3 DEF SetAutocommitCall, Invoke, TypeInv
<1>5. CASE QueryCall(t)
  <2>1. /\ Ready(Begin("get_server_version", None, GetEngineVersionPacket))
        /\ Ready(Begin("get_last_insert_id", None, GetLastInsertIdPacket))
        /\ \A s \in Stmts : Ready(Begin("get_schema_info", None, GetSchemaPacket(s)))
    BY PacketType, ReadyCalls DEF ConnectionCalls
  <2>2. HistoryOK'
    BY <1>5, <1>t DEF QueryCall, HistoryOK
  <2>3. CallsOK'
    BY <1>5, <1>w, <2>1 DEF QueryCall, Invoke
  <2> QED
    BY <1>5, <1>u, <1>c, <2>2, <2>3 DEF QueryCall, TypeInv
<1>6. CASE CloseCall(t)
  <2>1. CallsOK' /\ CursorsOK'
    <3>1. CASE CloseGoesOn(t, {}, cursors)
      BY <1>6, <1>t, <3>1, CloseType DEF CloseCall, Invoke, IsIdle, Leaves, CursorsOK
    <3>2. CASE Finish(t, "returned") /\ UNCHANGED <<cursors, cursorVars>>
      BY <1>6, <1>f, <1>c, <3>2 DEF CloseCall, Invoke
    <3> QED
      BY <1>6, <3>1, <3>2 DEF CloseCall
  <2> QED
    BY <1>6, <1>u, <1>h, <2>1 DEF CloseCall, TypeInv
<1>7. ASSUME NEW c \in Cursors, NewCursor(t, c)
      PROVE  TypeInv'
  <2>1. NoResult \in ResultRecords
    BY DEF NoResult, ResultRecords
  <2>2. CallsOK'
    BY <1>7, SameCalls DEF NewCursor, lockVars
  <2>3. CursorsOK'
    BY <1>7, <1>t, <2>1 DEF NewCursor, CursorsOK
  <2> QED
    BY <1>7, <1>u, <1>h, <2>2, <2>3 DEF NewCursor, TypeInv
<1>8. ASSUME NEW c \in Cursors, CursorCloseCall(t, c)
      PROVE  TypeInv'
  <2>1. CASE handle[c] # None /\ connected
    <3>1. CloseQueryPacket(handle[c]) \in Packets
      BY <1>t, PacketType DEF CursorsOK
    <3>2. Ready(Begin("cursor_close", c, CloseQueryPacket(handle[c])))
      BY <3>1, ReadyCalls DEF CursorCalls
    <3> QED
      BY <1>8, <1>w, <1>u, <1>c, <1>h, <2>1, <3>2 DEF CursorCloseCall, Invoke, TypeInv
  <2>2. CASE ~(handle[c] # None /\ connected)
    <3>1. CursorsClosed({c}) /\ Finish(t, "returned")
      BY <1>8, <2>2 DEF CursorCloseCall
    <3>2. CursorsOK'
      BY <1>8, <1>t, <3>1, CursorsClosedType DEF CursorCloseCall
    <3> QED
      BY <1>8, <1>f, <1>u, <1>h, <3>1, <3>2 DEF CursorCloseCall, Invoke, TypeInv
  <2> QED
    BY <2>1, <2>2
<1>9. ASSUME NEW c \in Cursors, ExecuteCall(t, c)
      PROVE  TypeInv'
  <2> DEFINE p(s) == IF handle[c] # None THEN CloseQueryPacket(handle[c])
                     ELSE PrepareAndExecutePacket(s, autocommit)
  <2>1. PICK s \in Stmts :
          /\ sent' = sent \cup {s}
          /\ Wait(t, [Begin("execute", c, p(s)) EXCEPT !.stmts = {s}])
    BY <1>9 DEF ExecuteCall
  <2>2. p(s) \in Packets /\ {s} \in SUBSET Stmts
    BY <1>t, PacketType DEF CursorsOK
  <2> HIDE DEF p
  <2>3. Ready(Begin("execute", c, p(s)))
    BY <2>2, ReadyCalls DEF CursorCalls
  <2>4. Ready([Begin("execute", c, p(s)) EXCEPT !.stmts = {s}])
    BY <2>2, <2>3, ReadyChanged DEF Ready
  <2>5. CallsOK'
    BY <1>9, <1>w, <2>1, <2>4 DEF ExecuteCall, Invoke
  <2>6. HistoryOK'
    BY <1>9, <1>t, <2>1 DEF ExecuteCall, HistoryOK
  <2> QED
    BY <1>9, <1>u, <1>c, <2>5, <2>6 DEF ExecuteCall, TypeInv
<1>10. ASSUME NEW c \in Cursors, ExecutemanyBatchCall(t, c)
       PROVE  TypeInv'
  <2>1. PICK ss \in SUBSET Stmts, ac \in BOOLEAN :
          /\ sent' = sent \cup ss
          /\ Wait(t, [Begin("executemany_batch", c, BatchExecutePacket(ss, ac))
                        EXCEPT !.stmts = ss])
    BY <1>10 DEF ExecutemanyBatchCall
  <2>2. BatchExecutePacket(ss, ac) \in Packets
    BY PacketType
  <2>3. Ready(Begin("executemany_batch", c, BatchExecutePacket(ss, ac)))
    BY <2>2, ReadyCalls DEF CursorCalls
  <2>4. Ready([Begin("executemany_batch", c, BatchExecutePacket(ss, ac))
                 EXCEPT !.stmts = ss])
    BY <2>3, ReadyChanged DEF Ready
  <2>5. CallsOK'
    BY <1>10, <1>w, <2>1, <2>4 DEF ExecutemanyBatchCall, Invoke
  <2>6. HistoryOK'
    BY <1>10, <1>t, <2>1 DEF ExecutemanyBatchCall, HistoryOK
  <2> QED
    BY <1>10, <1>u, <1>c, <2>5, <2>6 DEF ExecutemanyBatchCall, TypeInv
<1>11. ASSUME NEW c \in Cursors, FetchmanyCall(t, c) \/ FetchallCall(t, c)
       PROVE  TypeInv'
  <2>1. result[c].rows \in Seq(Stmts \X Nat)
    BY <1>t DEF CursorsOK, ResultRecords
  <2>2. Leaves(t)
    BY <1>11 DEF FetchmanyCall, FetchallCall, Invoke, IsIdle, Leaves
  <2>3. PICK op \in {"fetchmany", "fetchall"}, n \in Nat :
          Take(t, op, c, result[c].rows, n)
    BY <1>11, WantSizesAssumption DEF FetchmanyCall, FetchallCall
  <2>4. result' \in [Cursors -> ResultRecords] /\ CallsOK'
    BY <2>1, <2>2, <2>3, TakeType
  <2>5. CursorsOK'
    BY <1>11, <1>t, <2>4 DEF FetchmanyCall, FetchallCall, CursorsOK
  <2> QED
    BY <1>11, <1>u, <1>h, <2>4, <2>5 DEF FetchmanyCall, FetchallCall, TypeInv
<1> QED
  BY <1>1, <1>2, <1>3, <1>4, <1>5, <1>6, <1>7, <1>8, <1>9, <1>10, <1>11 DEF Invocation

\* The request is written, on the way to the server or to nowhere.
LEMMA WriteType ==
  ASSUME TypeInv, NEW t \in Tasks, Write(t)
  PROVE  requests' \in Seq(Packets)
<1>1. task[t].pkt \in Packets /\ requests \in Seq(Packets)
  BY DEF TypeInv, CallsOK, TaskRecords, WireOK
<1>2. Append(requests, task[t].pkt) \in Seq(Packets) /\ <<>> \in Seq(Packets)
  BY <1>1
<1> QED
  BY <1>2 DEF Write

\* What a task does before it has a response.
LEMMA LockStepType ==
  ASSUME TypeInv, NEW t \in Tasks,
         \/ SendRequest(t) \/ CheckReconnect(t) \/ Reconnected(t)
         \/ AlreadyConnected(t) \/ StartHandshake(t) \/ ConnectEnds(t) \/ PingDrop(t)
  PROVE  TypeInv'
<1> USE DEF NoCursorChange, cursorVars, historyVars
<1>t. WireOK /\ CursorsOK /\ CallsOK /\ HistoryOK
  BY DEF TypeInv
<1>u. UNCHANGED <<serverVars, transportVars>> => WireOK'
  BY <1>t, WireType
<1>c. /\ UNCHANGED <<autocommit, cursors, closed, handle, result, lastrowid>> => CursorsOK'
      /\ UNCHANGED <<autocommit, cursors, closed, result, lastrowid>>
         /\ handle' = Invalidated => CursorsOK'
  BY <1>t DEF CursorsOK, Invalidated
<1>h. UNCHANGED <<cancels, sent, acked>> => HistoryOK'
  BY <1>t DEF HistoryOK
<1>1. CASE SendRequest(t)
  <2>1. CallsOK'
    BY <1>1, SuspendCalls DEF SendRequest, WantsToSend, Write
  <2>2. WireOK'
    <3>1. requests' \in Seq(Packets)
      BY <1>1, WriteType DEF SendRequest
    <3>2. ServerTypeOK'
      BY <1>1, <1>t, WireType DEF SendRequest
    <3> QED
      BY <1>1, <1>t, <3>1, <3>2 DEF SendRequest, WireOK
  <2> QED
    BY <1>1, <1>c, <1>h, <2>1, <2>2 DEF SendRequest, TypeInv
<1>2. CASE CheckReconnect(t)
  <2>1. CallsOK'
    BY <1>2, SuspendCalls DEF CheckReconnect, WantsToSend
  <2>2. WireOK'
    BY <1>2, <1>t, WireType DEF CheckReconnect, WireOK
  <2> QED
    BY <1>2, <1>c, <1>h, <2>1, <2>2 DEF CheckReconnect, TypeInv
<1>3. CASE Reconnected(t)
  <2>1. CallsOK'
    BY <1>3, SuspendCalls DEF Reconnected, Write
  <2>2. WireOK'
    BY <1>3, <1>t, WireType, WriteType DEF Reconnected
  <2> QED
    BY <1>3, <1>c, <1>h, <2>1, <2>2 DEF Reconnected, TypeInv
<1>4. CASE AlreadyConnected(t)
  <2>1. CallsOK'
    BY <1>4, FinishCalls DEF AlreadyConnected, WantsToConnect, Granted, Leaves
  <2> QED
    BY <1>4, <1>u, <1>c, <1>h, <2>1 DEF AlreadyConnected, TypeInv
<1>5. CASE StartHandshake(t)
  <2>1. CallsOK'
    BY <1>5, SuspendCalls DEF StartHandshake, WantsToConnect
  <2> QED
    BY <1>5, <1>u, <1>c, <1>h, <2>1 DEF StartHandshake, TypeInv
<1>6. CASE ConnectEnds(t)
  <2>1. Leaves(t)
    BY <1>6, <1>t DEF ConnectEnds, CallsOK, LockKept, Leaves
  <2>2. CallsOK'
    BY <1>6, <2>1, FinishCalls DEF ConnectEnds
  <2>3. WireOK'
    BY <1>6, <1>t, WireType DEF ConnectEnds, WireOK
  <2>4. HistoryOK'
    BY <1>6, <1>t DEF ConnectEnds, HistoryOK
  <2> QED
    BY <1>6, <1>c, <2>2, <2>3, <2>4 DEF ConnectEnds, TypeInv
<1>7. CASE PingDrop(t)
  <2>1. Leaves(t)
    BY <1>7 DEF PingDrop, Granted, Leaves
  <2>2. Ready(BeginFor("ping", "connect"))
    BY ReadyCalls DEF ConnectionCalls
  <2>3. CallsOK'
    BY <1>7, <2>1, <2>2, WaitCalls DEF PingDrop
  <2>4. WireOK'
    BY <1>7, <1>t, WireType DEF PingDrop, WireOK
  <2> QED
    BY <1>7, <1>c, <1>h, <2>3, <2>4 DEF PingDrop, TypeInv
<1> QED
  BY <1>1, <1>2, <1>3, <1>4, <1>5, <1>6, <1>7

\* What the calls of the connection make of a response.
LEMMA ConnectionReplyType ==
  ASSUME TypeInv, NEW t \in Tasks,
         \/ PingReply(t) \/ EndTranReply(t) \/ SetAutocommitReply(t) \/ QueryReply(t)
         \/ CloseCursorReply(t) \/ CloseEnds(t)
  PROVE  TypeInv'
<1> USE DEF NoCursorChange, cursorVars, historyVars
<1>t. WireOK /\ CursorsOK /\ CallsOK /\ HistoryOK
  BY DEF TypeInv
<1>c. /\ UNCHANGED <<autocommit, cursors, closed, handle, result, lastrowid>> => CursorsOK'
      /\ UNCHANGED <<autocommit, cursors, closed, result, lastrowid>>
         /\ handle' = Invalidated => CursorsOK'
  BY <1>t DEF CursorsOK, Invalidated
<1>h. UNCHANGED <<cancels, sent, acked>> => HistoryOK'
  BY <1>t DEF HistoryOK
<1>f. \A st \in {"none", "returned", "false", "raised", "cancelled"} :
        Finish(t, st) /\ Leaves(t) => CallsOK'
  BY FinishCalls
<1>w. ASSUME NEW call, Ready(call), Wait(t, call), Leaves(t)
      PROVE  CallsOK'
  BY <1>w, WaitCalls
<1>1. CASE PingReply(t)
  <2>1. PICK r \in PossibleReplies(t) :
          /\ SendAndReceive(t, r)
          /\ CASE r.st = "ok" -> Finish(t, IF r.neg THEN "false" ELSE "returned")
               [] r.st = "error" -> Finish(t, "raised")
               [] r.st = "operr" -> IF task[t].flag
                                    THEN Wait(t, BeginFor("ping", "drop"))
                                    ELSE Finish(t, "false")
    BY <1>1 DEF PingReply
  <2>2. WireOK' /\ Leaves(t)
    BY <2>1, ExchangeType
  <2>3. r.st \in {"ok", "error", "operr"}
    BY <1>t, <2>1, RepliesIn
  <2>4. Ready(BeginFor("ping", "drop"))
    BY ReadyCalls DEF ConnectionCalls
  <2>5. CallsOK'
    BY <1>f, <1>w, <2>1, <2>2, <2>3, <2>4
  <2> QED
    BY <1>1, <1>c, <1>h, <2>2, <2>5 DEF PingReply, TypeInv
<1>2. CASE EndTranReply(t)
  <2>1. PICK r \in PossibleReplies(t) :
          /\ SendAndReceive(t, r)
          /\ IF r.st = "ok"
             THEN handle' = Invalidated /\ Finish(t, "returned") /\ acked' = {}
             ELSE Finish(t, "raised") /\ UNCHANGED <<handle, acked>>
    BY <1>2 DEF EndTranReply
  <2>2. WireOK' /\ Leaves(t)
    BY <2>1, ExchangeType
  <2>3. HistoryOK'
    BY <1>2, <1>t, <2>1 DEF EndTranReply, HistoryOK
  <2>4. CallsOK' /\ CursorsOK'
    BY <1>2, <1>c, <1>f, <2>1, <2>2 DEF EndTranReply
  <2> QED
    BY <2>2, <2>3, <2>4 DEF TypeInv
<1>3. CASE SetAutocommitReply(t)
  <2>1. PICK r \in PossibleReplies(t) :
          /\ SendAndReceive(t, r)
          /\ \/ /\ Wait(t, [task[t] EXCEPT !.pkt = CommitPacket, !.at = "lock"])
                /\ UNCHANGED <<autocommit, acked>>
             \/ /\ Finish(t, "returned")
                /\ autocommit' = task[t].flag
                /\ acked' = {}
             \/ Finish(t, "raised") /\ UNCHANGED <<autocommit, acked>>
    BY <1>3 DEF SetAutocommitReply
  <2>2. WireOK' /\ Leaves(t)
    BY <2>1, ExchangeType
  <2>3. Ready([task[t] EXCEPT !.pkt = CommitPacket, !.at = "lock"])
    BY PacketType, ReadyAgain
  <2>4. CallsOK'
    BY <1>f, <1>w, <2>1, <2>2, <2>3
  <2>5. autocommit' \in BOOLEAN /\ acked' \in SUBSET Stmts
    BY <1>t, <2>1 DEF CallsOK, CursorsOK, HistoryOK, TaskRecords
  <2> QED
    BY <1>3, <1>t, <2>2, <2>4, <2>5 DEF SetAutocommitReply, TypeInv, CursorsOK, HistoryOK
<1>4. CASE QueryReply(t)
  <2>1. PICK r \in PossibleReplies(t) :
          SendAndReceive(t, r) /\ Finish(t, IF r.st = "ok" THEN "returned" ELSE "raised")
    BY <1>4 DEF QueryReply
  <2>2. WireOK' /\ Leaves(t)
    BY <2>1, ExchangeType
  <2>3. CallsOK'
    BY <1>f, <2>1, <2>2
  <2> QED
    BY <1>4, <1>c, <1>h, <2>2, <2>3 DEF QueryReply, TypeInv
<1>5. CASE CloseCursorReply(t)
  <2>1. PICK r \in PossibleReplies(t) : SendAndReceive(t, r)
    BY <1>5 DEF CloseCursorReply
  <2>2. WireOK' /\ Leaves(t)
    BY <2>1, ExchangeType
  <2>3. task[t].todo \in SUBSET Cursors
    BY <1>t DEF CallsOK, TaskRecords
  <2>4. CallsOK' /\ CursorsOK'
    BY <1>5, <2>2, <2>3, CloseType DEF CloseCursorReply
  <2> QED
    BY <1>5, <1>h, <2>2, <2>4 DEF CloseCursorReply, TypeInv
<1>6. CASE CloseEnds(t)
  <2>1. Leaves(t)
    BY <1>6 DEF CloseEnds, Granted, Reading, Leaves
  <2>2. CallsOK'
    BY <1>6, <1>f, <2>1 DEF CloseEnds
  <2>3. casStatus' \in {"ACTIVE", "INACTIVE"}
    <3>1. responses # <<>> => Head(responses).status \in {"ACTIVE", "INACTIVE"}
      BY <1>t DEF WireOK, Answered, Messages
    <3> QED
      BY <1>6, <1>t, <3>1 DEF CloseEnds, WireOK
  <2>4. WireOK'
    BY <1>6, <1>t, <2>3, WireType DEF CloseEnds, WireOK
  <2> QED
    BY <1>6, <1>c, <1>h, <2>2, <2>4 DEF CloseEnds, TypeInv
<1> QED
  BY <1>1, <1>2, <1>3, <1>4, <1>5, <1>6

\* What the calls of a cursor make of a response.
LEMMA CursorReplyType ==
  ASSUME TypeInv, NEW t \in Tasks,
         \/ CursorCloseReply(t) \/ ExecuteCloseReply(t) \/ ExecuteReply(t)
         \/ LastRowIdReply(t) \/ ExecutemanyBatchReply(t) \/ FetchReply(t)
  PROVE  TypeInv'
<1> USE DEF historyVars
<1>t. WireOK /\ CursorsOK /\ CallsOK /\ HistoryOK
  BY DEF TypeInv
<1>k. task[t] \in TaskRecords /\ (task[t].op \in CursorOps => task[t].cur \in Cursors)
  BY <1>t DEF CallsOK, TaskHasCursor
<1>h. UNCHANGED <<cancels, sent, acked>> => HistoryOK'
  BY <1>t DEF HistoryOK
<1>f. \A st \in {"none", "returned", "false", "raised", "cancelled"} :
        Finish(t, st) /\ Leaves(t) => CallsOK'
  BY FinishCalls
<1>w. ASSUME NEW call, Ready(call), Wait(t, call), Leaves(t)
      PROVE  CallsOK'
  BY <1>w, WaitCalls
<1>e. \A r \in PossibleReplies(t) :
        SendAndReceive(t, r) => r \in Replies /\ WireOK' /\ Leaves(t)
  BY ExchangeType
<1>1. CASE CursorCloseReply(t)
  <2>1. PICK r \in PossibleReplies(t) :
          /\ SendAndReceive(t, r)
          /\ Finish(t, IF r.st = "error" THEN "raised" ELSE "returned")
    BY <1>1 DEF CursorCloseReply
  <2>2. CallsOK'
    BY <1>e, <1>f, <2>1
  <2>3. CursorsOK'
    BY <1>1, <1>t, CursorsClosedType DEF CursorCloseReply
  <2> QED
    BY <1>1, <1>e, <1>h, <2>1, <2>2, <2>3 DEF CursorCloseReply, TypeInv
<1>2. CASE ExecuteCloseReply(t)
  <2>1. PICK r \in PossibleReplies(t) :
          /\ SendAndReceive(t, r)
          /\ handle' \in {handle, [handle EXCEPT ![task[t].cur] = None]}
          /\ \/ Finish(t, "raised")
             \/ \E s \in task[t].stmts :
                  Wait(t, [task[t] EXCEPT !.at = "lock",
                             !.pkt = PrepareAndExecutePacket(s, autocommit)])
    BY <1>2 DEF ExecuteCloseReply
  <2>2. ASSUME NEW s \in task[t].stmts
        PROVE  Ready([task[t] EXCEPT !.at = "lock",
                        !.pkt = PrepareAndExecutePacket(s, autocommit)])
    <3>1. PrepareAndExecutePacket(s, autocommit) \in Packets
      BY <1>t, <1>k, PacketType DEF CursorsOK, TaskRecords
    <3> QED
      BY <3>1, ReadyAgain
  <2>3. CallsOK'
    BY <1>e, <1>f, <1>w, <2>1, <2>2
  <2>4. CursorsOK'
    BY <1>2, <1>t, <2>1 DEF ExecuteCloseReply, CursorsOK
  <2> QED
    BY <1>2, <1>e, <1>h, <2>1, <2>3, <2>4 DEF ExecuteCloseReply, TypeInv
<1>3. CASE ExecuteReply(t)
  <2>1. PICK r \in PossibleReplies(t) :
          /\ SendAndReceive(t, r)
          /\ \/ /\ r.st = "ok"
                /\ \E s \in r.done :
                     /\ handle' = [handle EXCEPT ![task[t].cur] = r.h]
                     /\ result' = [result EXCEPT ![task[t].cur] = ResultOf(s, r.rows)]
                     /\ lastrowid' = [lastrowid EXCEPT ![task[t].cur] = None]
                     /\ acked' = acked \cup Dml({s})
                     /\ IF AsksLastRowId(s)
                        THEN Wait(t, [task[t] EXCEPT !.at = "lock",
                                                     !.pkt = GetLastInsertIdPacket])
                        ELSE Finish(t, "returned")
             \/ /\ r.st # "ok" /\ Finish(t, "raised")
                /\ UNCHANGED <<handle, result, lastrowid, acked>>
    BY <1>3 DEF ExecuteReply
  <2>2. r \in Replies /\ WireOK' /\ Leaves(t)
    BY <1>e, <2>1
  <2>3. Ready([task[t] EXCEPT !.at = "lock", !.pkt = GetLastInsertIdPacket])
    BY PacketType, ReadyAgain
  <2>4. CallsOK'
    BY <1>f, <1>w, <2>1, <2>2, <2>3
  <2>5. CASE UNCHANGED <<handle, result, lastrowid, acked>>
    BY <1>3, <1>t, <2>2, <2>4, <2>5 DEF ExecuteReply, TypeInv, CursorsOK, HistoryOK
  <2>6. ASSUME NEW s \in r.done,
               /\ handle' = [handle EXCEPT ![task[t].cur] = r.h]
               /\ result' = [result EXCEPT ![task[t].cur] = ResultOf(s, r.rows)]
               /\ lastrowid' = [lastrowid EXCEPT ![task[t].cur] = None]
               /\ acked' = acked \cup Dml({s})
        PROVE  TypeInv'
    <3>1. s \in Stmts /\ r.h \in Handles \cup {None} /\ r.rows \in Seq(Stmts \X Nat)
      BY <2>2 DEF Replies
    <3>2. ResultOf(s, r.rows) \in ResultRecords
      BY <3>1, SizeAssumption DEF ResultOf, ResultRecords
    <3>3. Dml({s}) \in SUBSET Stmts
      BY <3>1 DEF Dml
    <3>4. /\ handle' \in [Cursors -> Handles \cup {None}]
          /\ result' \in [Cursors -> ResultRecords]
          /\ lastrowid' \in [Cursors -> Stmts \cup {None}]
      BY <1>t, <2>6, <3>1, <3>2 DEF CursorsOK
    <3>5. HistoryOK'
      BY <1>3, <1>t, <2>6, <3>3 DEF ExecuteReply, HistoryOK
    <3> QED
      BY <1>3, <1>t, <2>2, <2>4, <3>4, <3>5 DEF ExecuteReply, TypeInv, CursorsOK
  <2> QED
    BY <2>1, <2>5, <2>6
<1>4. CASE LastRowIdReply(t)
  <2>1. PICK r \in PossibleReplies(t) :
          /\ SendAndReceive(t, r)
          /\ lastrowid' \in {lastrowid, [lastrowid EXCEPT ![task[t].cur] = r.id]}
          /\ Finish(t, IF r.st = "error" THEN "raised" ELSE "returned")
    BY <1>4 DEF LastRowIdReply
  <2>2. r \in Replies /\ WireOK' /\ Leaves(t)
    BY <1>e, <2>1
  <2>3. CallsOK'
    BY <1>f, <2>1, <2>2
  <2>4. r.id \in Stmts \cup {None}
    BY <2>2 DEF Replies
  <2>5. CursorsOK'
    BY <1>4, <1>t, <2>1, <2>4 DEF LastRowIdReply, CursorsOK
  <2> QED
    BY <1>4, <1>h, <2>2, <2>3, <2>5 DEF LastRowIdReply, TypeInv
<1>5. CASE ExecutemanyBatchReply(t)
  <2>1. PICK r \in PossibleReplies(t) :
          /\ SendAndReceive(t, r)
          /\ IF r.st = "ok"
             THEN /\ result' = [result EXCEPT ![task[t].cur] = WithoutRows(@)]
                  /\ handle' = [handle EXCEPT ![task[t].cur] = None]
                  /\ acked' = acked \cup Dml(r.done)
                  /\ Finish(t, "returned")
             ELSE Finish(t, "raised") /\ UNCHANGED <<handle, result, acked>>
    BY <1>5 DEF ExecutemanyBatchReply
  <2>2. r \in Replies /\ WireOK' /\ Leaves(t)
    BY <1>e, <2>1
  <2>3. CallsOK'
    BY <1>f, <2>1, <2>2
  <2>4. result' \in [Cursors -> ResultRecords]
    <3>1. <<>> \in Seq(Stmts \X Nat)
      OBVIOUS
    <3>2. \A res \in ResultRecords : WithoutRows(res) \in ResultRecords
      BY <3>1 DEF WithoutRows, ResultRecords
    <3> QED
      BY <1>t, <2>1, <3>2 DEF CursorsOK
  <2>5. /\ handle' \in [Cursors -> Handles \cup {None}]
        /\ acked' \in SUBSET Stmts
    BY <1>t, <2>1, <2>2 DEF CursorsOK, HistoryOK, Replies, Dml
  <2> QED
    BY <1>5, <1>t, <2>2, <2>3, <2>4, <2>5
       DEF ExecutemanyBatchReply, TypeInv, CursorsOK, HistoryOK
<1>6. CASE FetchReply(t)
  <2>1. PICK r \in PossibleReplies(t) :
          /\ SendAndReceive(t, r)
          /\ \/ Take(t, task[t].op, task[t].cur,
                     result[task[t].cur].rows \o r.rows, task[t].want)
             \/ /\ Finish(t, IF r.st = "ok" THEN "returned" ELSE "raised")
                /\ UNCHANGED result
    BY <1>6 DEF FetchReply
  <2>2. r \in Replies /\ WireOK' /\ Leaves(t)
    BY <1>e, <2>1
  <2>3. task[t].op \in {"fetchmany", "fetchall"} /\ task[t].cur \in Cursors
    BY <1>6, <1>k DEF FetchReply, CursorOps
  <2>4. result[task[t].cur].rows \o r.rows \in Seq(Stmts \X Nat)
    BY <1>t, <2>2, <2>3 DEF CursorsOK, ResultRecords, Replies
  <2>5. task[t].want \in Nat
    BY <1>k DEF TaskRecords
  <2>6. result' \in [Cursors -> ResultRecords] /\ CallsOK'
    <3>1. CASE Take(t, task[t].op, task[t].cur,
                    result[task[t].cur].rows \o r.rows, task[t].want)
      BY <2>2, <2>3, <2>4, <2>5, <3>1, TakeType
    <3>2. CASE Finish(t, IF r.st = "ok" THEN "returned" ELSE "raised") /\ UNCHANGED result
      BY <1>f, <1>t, <2>2, <3>2 DEF CursorsOK
    <3> QED
      BY <2>1, <3>1, <3>2
  <2> QED
    BY <1>6, <1>t, <1>h, <2>2, <2>6 DEF FetchReply, TypeInv, CursorsOK
<1> QED
  BY <1>1, <1>2, <1>3, <1>4, <1>5, <1>6

\* A call is cancelled.
LEMMA CancelType ==
  ASSUME TypeInv, NEW t \in Tasks, Cancel(t)
  PROVE  TypeInv'
<1>t. WireOK /\ CursorsOK /\ CallsOK /\ HistoryOK
  BY DEF TypeInv
<1>1. Leaves(t)
  BY <1>t DEF Cancel, OwnerWithout, IsIdle, CallsOK, LockKept, Leaves, TaskRecords
<1>2. CallsOK'
  BY <1>1, FinishCalls DEF Cancel
<1>3. WireOK'
  BY <1>t, WireType DEF Cancel, WireOK
<1>4. CursorsOK'
  BY <1>t, CursorsClosedType DEF Cancel, CursorsOK, cursorVars
<1>5. HistoryOK'
  BY <1>t DEF Cancel, HistoryOK
<1> QED
  BY <1>2, <1>3, <1>4, <1>5 DEF TypeInv

\* The server answers, or the session is lost.
LEMMA ServerType ==
  ASSUME TypeInv, ServerAnswers \/ SessionLost
  PROVE  TypeInv'
<1>t. WireOK /\ CursorsOK /\ HistoryOK
  BY DEF TypeInv
<1>1. CallsOK'
  BY SameCalls DEF ServerAnswers, SessionLost, lockVars
<1>2. WireOK'
  <2>1. CASE ServerAnswers
    <3>1. Head(requests) \in Packets /\ Tail(requests) \in Seq(Packets)
      BY <1>t, <2>1 DEF ServerAnswers, WireOK
    <3>0. PICK o \in Outcomes(Head(requests)) :
            /\ Serve(o)
            /\ \E status \in StatusAfter(o) :
                 responses' = Append(responses, [fc |-> Head(requests).fc,
                                                 reply |-> o.reply, status |-> status])
      BY <2>1 DEF ServerAnswers
    <3>2. PICK status \in StatusAfter(o) :
            /\ Serve(o)
            /\ responses' = Append(responses, [fc |-> Head(requests).fc,
                                               reply |-> o.reply, status |-> status])
      BY <3>0
    <3>3. o \in OutcomeRecords /\ o.reply.st \in {"ok", "error"}
      BY <1>t, <3>1, OutcomesType, AnswerStatus DEF WireOK
    <3>4. ServerTypeOK'
      BY <1>t, <3>2, <3>3 DEF Serve, OutcomeRecords, WireOK, ServerTypeOK
    <3> DEFINE m == [fc |-> Head(requests).fc, reply |-> o.reply, status |-> status]
    <3>5. m \in Answered
      BY <3>1, <3>3 DEF StatusAfter, OutcomeRecords, Packets, Messages, Answered
    <3> HIDE DEF m
    <3>6. Append(responses, m) \in Seq(Answered)
      BY <1>t, <3>5 DEF WireOK
    <3> QED
      BY <1>t, <2>1, <3>1, <3>2, <3>4, <3>6 DEF ServerAnswers, WireOK, m
  <2>2. CASE SessionLost
    <3>1. NoHandles \in [Handles -> Stmts \cup {None}]
      BY DEF NoHandles
    <3>2. ServerTypeOK'
      BY <1>t, <2>2, <3>1 DEF SessionLost, SessionEnds, WireOK, ServerTypeOK
    <3>3. <<>> \in Seq(Packets) /\ <<>> \in Seq(Answered)
      OBVIOUS
    <3> QED
      BY <1>t, <2>2, <3>2, <3>3 DEF SessionLost, WireOK
  <2> QED
    BY <2>1, <2>2
<1>3. CursorsOK' /\ HistoryOK'
  BY <1>t DEF ServerAnswers, SessionLost, CursorsOK, HistoryOK, cursorVars, historyVars
<1> QED
  BY <1>1, <1>2, <1>3 DEF TypeInv

\* At first no task has a call under way.
LEMMA InitType == Init => TypeInv
<1> SUFFICES ASSUME Init
             PROVE  TypeInv
  OBVIOUS
<1>1. NoResult \in ResultRecords
  BY DEF NoResult, ResultRecords
<1>2. /\ <<>> \in Seq(Packets) /\ <<>> \in Seq(Answered)
      /\ <<>> \in Seq(Tasks) /\ Len(<<>>) = 0
  OBVIOUS
<1>3. WireOK
  BY <1>2 DEF Init, WireOK, ServerInit, ServerTypeOK, NoHandles
<1>4. CursorsOK
  BY <1>1, <1>3 DEF Init, CursorsOK, WireOK, ServerTypeOK
<1>5. /\ waiters = <<>> /\ Once(waiters) /\ \A u : ~Queued(waiters, u)
      /\ \A u \in Tasks : task[u] = Idle
  BY DEF Init, Once, Queued
<1>6. TaskHasCursor /\ LockKept
  BY <1>5, Parts, TasksAssumption DEF Init, TaskHasCursor, CursorOps, LockKept
<1>7. CallsOK
  BY <1>2, <1>6, BeginType DEF Init, CallsOK
<1>8. HistoryOK
  BY DEF Init, HistoryOK
<1> QED
  BY <1>3, <1>4, <1>7, <1>8 DEF TypeInv

\* Every step keeps the types and the lock.
LEMMA TypeStep == TypeInv /\ [Next]_vars => TypeInv'
<1>1. ASSUME TypeInv, UNCHANGED vars
      PROVE  TypeInv'
  <2>1. CallsOK' /\ WireOK'
    BY <1>1, WireType
       DEF vars, transportVars, lockVars, TypeInv, CallsOK, TaskHasCursor, LockKept
  <2> QED
    BY <1>1, <2>1 DEF vars, cursorVars, historyVars, TypeInv, CursorsOK, HistoryOK
<1>2. ASSUME TypeInv, NEW t \in Tasks, TaskStep(t)
      PROVE  TypeInv'
  BY <1>2, LockStepType, ConnectionReplyType, CursorReplyType DEF TaskStep
<1> QED
  BY <1>1, <1>2, InvocationType, CancelType, ServerType DEF Next

\* And so it is in every behaviour.
LEMMA TypeInvariant == Spec => []TypeInv
  BY InitType, TypeStep, PTL DEF Spec

\* The variables always have their types, with any number of tasks, cursors and
\* cancellations: what is queued, written and read, and what the cursors hold.
THEOREM AsyncTypeCorrect == Spec => []TypeOK
  BY TypeInvariant, TypeParts, PTL

\* LockKept, with any number of tasks and cancellations: the lock and its queue
\* always agree with what the tasks do, whatever fails and whatever is cancelled
\* (_lock, _send_and_receive).
THEOREM LockIsKept == Spec => []LockKept
  BY TypeInvariant, TypeParts, PTL

(***************************************************************************)
(* Part 2.  The streams.  Without a connection there is no session and     *)
(* nothing in the streams; a handshake is under way only then.  Unless a   *)
(* call was cancelled, there is nothing in them either while the lock is   *)
(* free: this is what the next owner of the lock relies on.                *)
(***************************************************************************)
StreamInv ==
  /\ ~connected => ~up /\ requests = <<>> /\ responses = <<>>
  /\ ~up => requests = <<>>
  /\ \A t \in Tasks : task[t].at = "connect" => ~connected

WireInv ==
  /\ StreamInv
  /\ cancels = 0 /\ owner = None => requests = <<>> /\ responses = <<>>
  /\ ResponsesMatch

\* What t does to the streams when it gives the lock back.
Clears(t) ==
  \/ Disconnect
  \/ /\ UNCHANGED <<up, connected, requests>>
     /\ owner = t /\ responses # <<>> /\ responses' = Tail(responses)
  \/ /\ UNCHANGED <<up, connected, requests, responses>>
     /\ owner = t /\ cancels = 0 => requests = <<>> /\ responses = <<>>

\* An exchange that ends leaves nothing in the streams.
LEMMA ExchangeWire ==
  ASSUME TypeInv, WireInv, NEW t \in Tasks, NEW r, SendAndReceive(t, r)
  PROVE  Clears(t)
<1> USE TasksAssumption DEF serverVars, transportVars
<1>1. CASE NotConnected(t, r)
  BY <1>1 DEF NotConnected, WantsToSend, Granted, Clears
<1>2. CASE ReconnectFails(t, r)
  <2>1. requests = <<>> /\ responses = <<>>
    BY <1>2 DEF ReconnectFails, WireInv, StreamInv
  <2> QED
    BY <1>2, <2>1 DEF ReconnectFails, HandshakeFails, Clears
<1>3. CASE Response(t, r)
  BY <1>3 DEF Response, Reading, Clears
<1>4. CASE SocketError(t, r)
  BY <1>4 DEF SocketError, Clears
<1>5. CASE EndOfFile(t, r)
  BY <1>5 DEF EndOfFile, WireInv, StreamInv, Clears
<1> QED
  BY <1>1, <1>2, <1>3, <1>4, <1>5 DEF SendAndReceive

\* The lock is free and the streams are empty.
LEMMA ClearsWire ==
  ASSUME TypeInv, TypeInv', WireInv, NEW t \in Tasks, Clears(t), owner \in {None, t},
         owner' = None, UNCHANGED cancels
  PROVE  WireInv'
<1> USE TasksAssumption
<1>t. /\ requests \in Seq(Packets) /\ responses \in Seq(Answered)
      /\ owner \in Tasks \cup {None}
  BY DEF TypeInv, WireOK, CallsOK
<1>1. \A u \in Tasks : task'[u].at # "connect"
  BY DEF TypeInv, CallsOK, LockKept
<1>2. CASE Disconnect
  <2>1. ~up' /\ ~connected' /\ requests' = <<>> /\ responses' = <<>> /\ Len(<<>>) = 0
    BY <1>2 DEF Disconnect, SessionEnds
  <2> QED
    BY <1>1, <2>1 DEF WireInv, StreamInv, ResponsesMatch
<1>3. CASE /\ UNCHANGED <<up, connected, requests>>
           /\ owner = t /\ responses # <<>> /\ responses' = Tail(responses)
  <2>1. connected /\ StreamInv'
    BY <1>1, <1>3 DEF WireInv, StreamInv
  <2>2. ASSUME cancels = 0
        PROVE  requests' = <<>> /\ responses' = <<>>
    <3>1. Len(requests) + Len(responses) <= 1
      BY <2>2 DEF WireInv, ResponsesMatch
    <3>2. /\ Len(requests) \in Nat /\ Len(responses) \in Nat
          /\ Len(responses) # 0
          /\ Len(requests) = 0 => requests = <<>>
          /\ Len(Tail(responses)) = Len(responses) - 1
          /\ Len(Tail(responses)) = 0 => Tail(responses) = <<>>
      BY <1>t, <1>3
    <3> QED
      BY <1>3, <3>1, <3>2
  <2> QED
    BY <1>3, <2>1, <2>2 DEF WireInv, ResponsesMatch
<1>4. CASE /\ UNCHANGED <<up, connected, requests, responses>>
           /\ owner = t /\ cancels = 0 => requests = <<>> /\ responses = <<>>
  <2>1. StreamInv'
    BY <1>1, <1>4 DEF WireInv, StreamInv
  <2>2. ASSUME cancels = 0
        PROVE  requests = <<>> /\ responses = <<>>
    <3>1. CASE owner = t
      BY <1>4, <2>2, <3>1
    <3>2. CASE owner # t
      <4>1. owner = None
        BY <3>2
      <4> QED
        BY <2>2, <4>1 DEF WireInv
    <3> QED
      BY <3>1, <3>2
  <2> QED
    BY <1>4, <2>1, <2>2 DEF WireInv, ResponsesMatch
<1> QED
  BY <1>2, <1>3, <1>4 DEF Clears

\* A step changes the calls of no other task.
OthersKept(t) == \A u \in Tasks \ {t} : task'[u] = task[u]

\* What one task does to its call leaves those of the others alone.
LEMMA OneTask ==
  ASSUME TypeInv, NEW t \in Tasks,
         \/ \E call : Wait(t, call)
         \/ \E st : Finish(t, st)
         \/ \E at : Suspend(t, at)
         \/ UNCHANGED task
  PROVE  OthersKept(t)
<1>t. task \in [Tasks -> TaskRecords]
  BY DEF TypeInv, CallsOK
<1>1. \A x : task' = [task EXCEPT ![t] = x] => OthersKept(t)
  BY <1>t DEF OthersKept
<1>2. \A at : Suspend(t, at) => task' = [task EXCEPT ![t] = At(task[t], at)]
  BY DEF Suspend, At
<1> QED
  BY <1>1, <1>2 DEF Wait, Finish, OthersKept

\* A call that begins touches neither the lock nor the streams.
LEMMA InvocationTasks ==
  ASSUME TypeInv, NEW t \in Tasks, Invocation(t)
  PROVE  /\ OthersKept(t) /\ task[t].at = "idle"
         /\ UNCHANGED <<up, connected, requests, responses, owner, cancels>>
<1> USE DEF serverVars, transportVars, lockVars, historyVars
<1>1. ASSUME NEW c \in Cursors,
             \/ NewCursor(t, c) \/ CursorCloseCall(t, c) \/ ExecuteCall(t, c)
             \/ ExecutemanyBatchCall(t, c) \/ FetchmanyCall(t, c) \/ FetchallCall(t, c)
      PROVE  /\ OthersKept(t) /\ IsIdle(t)
             /\ UNCHANGED <<up, connected, requests, responses, owner, cancels>>
  <2>1. \/ \E call : Wait(t, call)
        \/ \E st : Finish(t, st)
        \/ UNCHANGED task
    BY <1>1 DEF NewCursor, CursorCloseCall, ExecuteCall, ExecutemanyBatchCall,
                FetchmanyCall, FetchallCall, Take
  <2>2. OthersKept(t)
    BY <2>1, OneTask
  <2> QED
    BY <1>1, <2>2 DEF NewCursor, CursorCloseCall, ExecuteCall, ExecutemanyBatchCall,
                      FetchmanyCall, FetchallCall, Invoke
<1>2. ASSUME \/ ConnectCall(t) \/ PingCall(t) \/ EndTranCall(t)
             \/ SetAutocommitCall(t) \/ QueryCall(t) \/ CloseCall(t)
      PROVE  /\ OthersKept(t) /\ IsIdle(t)
             /\ UNCHANGED <<up, connected, requests, responses, owner, cancels>>
  <2>1. (\E call : Wait(t, call)) \/ Finish(t, "returned")
    BY <1>2 DEF ConnectCall, PingCall, EndTranCall, SetAutocommitCall, QueryCall,
                CloseCall, CloseGoesOn
  <2>2. OthersKept(t)
    BY <2>1, OneTask
  <2> QED
    BY <1>2, <2>2 DEF ConnectCall, PingCall, EndTranCall, SetAutocommitCall, QueryCall,
                      CloseCall, Invoke
<1> QED
  BY <1>1, <1>2 DEF Invocation, IsIdle

\* It keeps WireInv.
LEMMA InvocationWire ==
  ASSUME TypeInv, TypeInv', WireInv, NEW t \in Tasks, Invocation(t)
  PROVE  WireInv'
<1> USE TasksAssumption
<1>1. /\ OthersKept(t) /\ task[t].at = "idle"
      /\ UNCHANGED <<up, connected, requests, responses, owner, cancels>>
  BY InvocationTasks
<1>2. owner # t /\ owner' = owner /\ owner \in Tasks \cup {None}
  BY <1>1 DEF TypeInv, CallsOK, LockKept
<1>3. owner # None => task'[owner] = task[owner]
  BY <1>1, <1>2 DEF OthersKept
<1>4. \A u \in Tasks : task'[u].at = "connect" => task[u].at = "connect"
  BY <1>1, <1>2 DEF TypeInv, CallsOK, LockKept, OthersKept
<1> QED
  BY <1>1, <1>2, <1>3, <1>4 DEF WireInv, StreamInv, ResponsesMatch

\* The request a task writes is alone in the streams.
LEMMA WriteWire ==
  ASSUME TypeInv, TypeInv', WireInv, NEW t \in Tasks, Write(t), owner' = t,
         connected', UNCHANGED <<responses, cancels>>,
         cancels = 0 => requests = <<>> /\ responses = <<>>,
         task'[t] = At(task[t], "read"), OthersKept(t)
  PROVE  WireInv'
<1> USE TasksAssumption
<1>1. task[t] \in TaskRecords /\ task'[t].at = "read" /\ task'[t].pkt = task[t].pkt
  BY AtType DEF TypeInv, CallsOK
<1>2. \A u \in Tasks : task'[u].at # "connect"
  BY <1>1 DEF TypeInv, CallsOK, LockKept
<1>3. requests' = IF up' THEN Append(requests, task[t].pkt) ELSE <<>>
  BY DEF Write
<1>4. StreamInv'
  BY <1>2, <1>3 DEF StreamInv
<1>5. ASSUME cancels' = 0
      PROVE  /\ Len(requests') + Len(responses') <= 1 /\ responses' = <<>>
             /\ requests' # <<>> => Head(requests') = task'[t].pkt
  <2>1. requests = <<>> /\ responses' = <<>>
    BY <1>5
  <2>2. requests' \in {<<task[t].pkt>>, <<>>}
    BY <1>3, <2>1
  <2>3. \A p : Len(<<p>>) = 1 /\ Head(<<p>>) = p
    OBVIOUS
  <2>4. Len(responses') = 0
    BY <2>1
  <2>5. CASE requests' = <<>>
    <3>1. Len(requests') = 0
      BY <2>5
    <3> QED
      BY <2>1, <2>4, <2>5, <3>1
  <2>6. CASE requests' = <<task[t].pkt>>
    <3>1. Len(requests') = 1 /\ Head(requests') = task[t].pkt
      BY <2>3, <2>6
    <3> QED
      BY <1>1, <2>1, <2>4, <3>1
  <2> QED
    BY <2>2, <2>5, <2>6
<1> QED
  BY <1>4, <1>5 DEF WireInv, ResponsesMatch

\* What a task does before it has a response.
LEMMA LockStepWire ==
  ASSUME TypeInv, TypeInv', WireInv, NEW t \in Tasks,
         \/ SendRequest(t) \/ CheckReconnect(t) \/ Reconnected(t)
         \/ AlreadyConnected(t) \/ StartHandshake(t) \/ ConnectEnds(t) \/ PingDrop(t)
  PROVE  WireInv'
<1> USE TasksAssumption DEF serverVars, transportVars, historyVars
<1>1. CASE SendRequest(t)
  <2>1. owner = None /\ connected
    BY <1>1 DEF SendRequest, WantsToSend, Granted
  <2>2. owner' = t /\ task'[t] = At(task[t], "read") /\ OthersKept(t)
    BY <1>1, SuspendCalls DEF SendRequest, WantsToSend, Write, OthersKept
  <2> QED
    BY <1>1, <2>1, <2>2, WriteWire DEF SendRequest, WireInv
<1>2. CASE CheckReconnect(t)
  <2>1. ~up' /\ ~connected' /\ requests' = <<>> /\ responses' = <<>> /\ Len(<<>>) = 0
    BY <1>2 DEF CheckReconnect, Disconnect, SessionEnds
  <2> QED
    BY <2>1 DEF WireInv, StreamInv, ResponsesMatch
<1>3. CASE Reconnected(t)
  <2>1. ~connected /\ requests = <<>> /\ responses = <<>> /\ owner = t
    BY <1>3 DEF Reconnected, WireInv, StreamInv, TypeInv, CallsOK, LockKept
  <2>2. owner' = t /\ task'[t] = At(task[t], "read") /\ OthersKept(t)
    BY <1>3, SuspendCalls DEF Reconnected, Write, OthersKept
  <2> QED
    BY <1>3, <2>1, <2>2, WriteWire DEF Reconnected, HandshakeOk
<1>4. CASE AlreadyConnected(t)
  <2>1. owner = None /\ owner' = None /\ Clears(t)
    BY <1>4 DEF AlreadyConnected, WantsToConnect, Granted, Clears
  <2> QED
    BY <1>4, <2>1, ClearsWire DEF AlreadyConnected
<1>5. CASE StartHandshake(t)
  <2>1. ~connected /\ owner = None
    BY <1>5 DEF StartHandshake, WantsToConnect, Granted
  <2>2. requests = <<>> /\ responses = <<>> /\ Len(<<>>) = 0
    BY <2>1 DEF WireInv, StreamInv
  <2> QED
    BY <1>5, <2>1, <2>2 DEF StartHandshake, WireInv, StreamInv, ResponsesMatch
<1>6. CASE ConnectEnds(t)
  <2>1. ~connected /\ requests = <<>> /\ responses = <<>> /\ Len(<<>>) = 0
    BY <1>6 DEF ConnectEnds, WireInv, StreamInv
  <2>2. owner' = None
    BY <1>6 DEF ConnectEnds
  <2>3. \A u \in Tasks : task'[u].at # "connect"
    BY <2>2 DEF TypeInv, CallsOK, LockKept
  <2>4. /\ requests' = <<>> /\ responses' = <<>> /\ cancels' = cancels
        /\ ~connected' => ~up'
    BY <1>6, <2>1 DEF ConnectEnds, HandshakeOk, HandshakeFails, WireInv, StreamInv
  <2> QED
    BY <2>1, <2>3, <2>4 DEF WireInv, StreamInv, ResponsesMatch
<1>7. CASE PingDrop(t)
  <2>1. owner = None /\ owner' = None /\ Clears(t)
    BY <1>7 DEF PingDrop, Granted, Clears
  <2> QED
    BY <1>7, <2>1, ClearsWire DEF PingDrop
<1> QED
  BY <1>1, <1>2, <1>3, <1>4, <1>5, <1>6, <1>7

\* What a task does with a response.
Replying(t) ==
  \/ PingReply(t) \/ EndTranReply(t) \/ SetAutocommitReply(t) \/ QueryReply(t)
  \/ CloseCursorReply(t) \/ CursorCloseReply(t) \/ ExecuteCloseReply(t)
  \/ ExecuteReply(t) \/ LastRowIdReply(t) \/ ExecutemanyBatchReply(t) \/ FetchReply(t)

\* So does the end of an exchange, and of close().
LEMMA ReplyWire ==
  ASSUME TypeInv, TypeInv', WireInv, NEW t \in Tasks, Replying(t) \/ CloseEnds(t)
  PROVE  WireInv'
<1> USE TasksAssumption DEF historyVars
<1>1. CASE Replying(t)
  <2>1. PICK r \in PossibleReplies(t) : SendAndReceive(t, r)
    BY <1>1 DEF Replying, PingReply, EndTranReply, SetAutocommitReply, QueryReply,
                CloseCursorReply, CursorCloseReply, ExecuteCloseReply, ExecuteReply,
                LastRowIdReply, ExecutemanyBatchReply, FetchReply
  <2>2. UNCHANGED cancels
    BY <1>1 DEF Replying, PingReply, EndTranReply, SetAutocommitReply, QueryReply,
                CloseCursorReply, CursorCloseReply, ExecuteCloseReply, ExecuteReply,
                LastRowIdReply, ExecutemanyBatchReply, FetchReply
  <2>3. owner' = None
    BY <2>1 DEF SendAndReceive
  <2>4. Clears(t)
    BY <2>1, ExchangeWire
  <2>5. owner \in {None, t}
    BY <2>1, <2>3, ExchangeType DEF Leaves, TypeInv, CallsOK
  <2> QED
    BY <2>2, <2>3, <2>4, <2>5, ClearsWire
<1>2. CASE CloseEnds(t)
  <2>1. owner \in {None, t} /\ owner' = None /\ Clears(t) /\ UNCHANGED cancels
    BY <1>2 DEF CloseEnds, Granted, Reading, Clears
  <2> QED
    BY <2>1, ClearsWire
<1> QED
  BY <1>1, <1>2

\* So does a cancellation, of which WireInv then says less.
LEMMA CancelWire ==
  ASSUME TypeInv, TypeInv', WireInv, NEW t \in Tasks, Cancel(t)
  PROVE  WireInv'
<1> USE DEF serverVars
<1>1. cancels' # 0
  BY DEF Cancel, TypeInv, HistoryOK
<1>2. \A u \in Tasks : task'[u].at = "connect" => task[u].at = "connect"
  <2>1. OthersKept(t)
    BY OneTask DEF Cancel
  <2>2. task'[t] = Idle
    BY DEF Cancel, Finish, TypeInv, CallsOK
  <2> QED
    BY <2>1, <2>2, Parts DEF OthersKept
<1>3. StreamInv'
  <2>1. CASE Disconnect
    BY <1>2, <2>1 DEF Disconnect, SessionEnds, WireInv, StreamInv
  <2>2. CASE UNCHANGED <<serverVars, connected, streams, requests, responses>>
    BY <1>2, <2>2 DEF WireInv, StreamInv
  <2> QED
    BY <2>1, <2>2 DEF Cancel
<1> QED
  BY <1>1, <1>3 DEF WireInv, ResponsesMatch

\* So does the server, answering or lost.
LEMMA ServerWire ==
  ASSUME TypeInv, TypeInv', WireInv, ServerAnswers \/ SessionLost
  PROVE  WireInv'
<1> USE DEF lockVars, historyVars
<1>t. /\ requests \in Seq(Packets) /\ responses \in Seq(Answered)
      /\ UNCHANGED <<connected, owner, task, cancels>>
  BY DEF TypeInv, WireOK, ServerAnswers, SessionLost
<1>1. CASE ServerAnswers
  <2>1. PICK o \in Outcomes(Head(requests)) :
          /\ Serve(o)
          /\ \E status \in StatusAfter(o) :
               responses' = Append(responses, [fc |-> Head(requests).fc,
                                               reply |-> o.reply, status |-> status])
    BY <1>1 DEF ServerAnswers
  <2>2. PICK status :
          responses' = Append(responses, [fc |-> Head(requests).fc,
                                          reply |-> o.reply, status |-> status])
    BY <2>1
  <2> DEFINE m == [fc |-> Head(requests).fc, reply |-> o.reply, status |-> status]
  <2>3. m.fc = Head(requests).fc /\ responses' = Append(responses, m)
    BY <2>2
  <2> HIDE DEF m
  <2>4. requests # <<>> /\ requests' = Tail(requests) /\ up /\ up'
    BY <1>1, <2>1 DEF ServerAnswers, Serve
  <2>5. StreamInv'
    BY <1>t, <2>4 DEF WireInv, StreamInv
  <2>6. ASSUME cancels = 0
        PROVE  /\ requests' = <<>> /\ responses' = <<m>>
               /\ owner # None /\ m.fc = task[owner].pkt.fc
    <3>1. /\ Len(requests) + Len(responses) <= 1
          /\ owner # None /\ Head(requests) = task[owner].pkt
      BY <2>4, <2>6 DEF WireInv, ResponsesMatch
    <3>2. /\ Len(requests) \in Nat /\ Len(responses) \in Nat /\ Len(requests) # 0
          /\ Len(responses) = 0 => responses = <<>>
          /\ Len(Tail(requests)) = Len(requests) - 1
          /\ Len(Tail(requests)) = 0 => Tail(requests) = <<>>
      BY <1>t, <2>4
    <3>3. Append(<<>>, m) = <<m>>
      OBVIOUS
    <3>4. Len(requests) = 1 /\ Len(responses) = 0
      BY <3>1, <3>2
    <3>5. responses' = <<m>>
      BY <2>3, <3>2, <3>3, <3>4
    <3>6. requests' = <<>>
      BY <2>4, <3>2, <3>4
    <3> QED
      BY <2>3, <3>1, <3>5, <3>6
  <2>7. Len(<<>>) + Len(<<m>>) <= 1 /\ Head(<<m>>) = m /\ <<m>> # <<>>
    OBVIOUS
  <2> QED
    BY <1>t, <2>5, <2>6, <2>7 DEF WireInv, ResponsesMatch
<1>2. CASE SessionLost
  <2>1. ~up' /\ requests' = <<>> /\ responses' \in {responses, <<>>} /\ Len(<<>>) = 0
    BY <1>2 DEF SessionLost, SessionEnds
  <2>2. StreamInv'
    BY <1>t, <2>1 DEF WireInv, StreamInv
  <2>3. Len(requests) \in Nat /\ Len(responses) \in Nat
    BY <1>t
  <2> QED
    BY <1>t, <2>1, <2>2, <2>3 DEF WireInv, ResponsesMatch
<1> QED
  BY <1>1, <1>2

\* Every step keeps it.
LEMMA WireStep == TypeInv /\ TypeInv' /\ WireInv /\ [Next]_vars => WireInv'
<1> SUFFICES ASSUME TypeInv, TypeInv', WireInv, [Next]_vars
             PROVE  WireInv'
  OBVIOUS
<1>1. CASE UNCHANGED vars
  BY <1>1 DEF vars, serverVars, transportVars, lockVars, historyVars, WireInv, StreamInv,
              ResponsesMatch
<1>2. ASSUME NEW t \in Tasks, TaskStep(t)
      PROVE  WireInv'
  BY <1>2, LockStepWire, ReplyWire DEF TaskStep, Replying
<1> QED
  BY <1>1, <1>2, InvocationWire, CancelWire, ServerWire DEF Next

\* It holds at first.
LEMMA InitWire == Init => WireInv
<1> SUFFICES ASSUME Init
             PROVE  WireInv
  OBVIOUS
<1>1. \A t \in Tasks : task[t].at # "connect"
  BY Parts DEF Init
<1>2. Len(<<>>) = 0
  OBVIOUS
<1> QED
  BY <1>1, <1>2 DEF Init, ServerInit, WireInv, StreamInv, ResponsesMatch

\* And so it is in every behaviour.
LEMMA WireInvariant == Spec => [](TypeInv /\ WireInv)
  BY InitType, InitWire, TypeStep, WireStep, PTL DEF Spec

\* ResponsesMatch, with any number of tasks and cursors: unless a call is
\* cancelled, the response a task reads answers the request it wrote, across
\* every timeout, lost session and reconnect (_send_and_receive).
THEOREM ReadersMatch == Spec => []ResponsesMatch
  BY WireInvariant, PTL DEF WireInv

\* SingleHandshake, with any number of tasks and cancellations: a handshake that
\* succeeds found no connection and no session (_connect_locked).
THEOREM HandshakesAreSingle == Spec => SingleHandshake
<1>1. ASSUME TypeInv, WireInv
      PROVE  \A t \in Tasks : ConnectEndsWell(t) => ~connected /\ ~up
  BY <1>1 DEF ConnectEndsWell, WireInv, StreamInv
<1>2. TypeInv /\ WireInv /\ [Next]_vars
        => [\A t \in Tasks : ConnectEndsWell(t) => ~connected /\ ~up]_vars
  BY <1>1
<1> QED
  BY <1>2, WireInvariant, PTL DEF Spec, SingleHandshake
(***************************************************************************)
(* Part 3.  What is left in the streams.  A request is written, and a      *)
(* response read, by the owner of the lock; so one too many can only be    *)
(* the trace of a task that lost the lock in a cancellation.               *)
(***************************************************************************)
InStreams == Len(requests) + Len(responses)
Place == IF owner = None THEN 0 ELSE 1

\* The numbers StraysBounded is about.
LEMMA StreamNumbers ==
  ASSUME TypeInv
  PROVE  /\ Len(requests) \in Nat /\ Len(responses) \in Nat /\ cancels \in Nat
         /\ requests = <<>> /\ responses = <<>> => InStreams = 0
         /\ InStreams \in Nat /\ Place \in {0, 1}
<1>1. requests \in Seq(Packets) /\ responses \in Seq(Answered) /\ cancels \in Nat
  BY DEF TypeInv, WireOK, HistoryOK
<1> QED
  BY <1>1 DEF InStreams, Place

\* Nothing is left.
LEMMA NothingLeft ==
  ASSUME TypeInv', requests' = <<>>, responses' = <<>>
  PROVE  StraysBounded'
<1>1. cancels' \in Nat
  BY DEF TypeInv, HistoryOK
<1>2. Len(requests') = 0 /\ Len(responses') = 0
  OBVIOUS
<1>3. Place' \in {0, 1}
  BY DEF Place
<1>4. InStreams' = 0
  BY <1>2 DEF InStreams
<1>5. \A n \in Nat, p \in {0, 1} : 0 <= n + p
  OBVIOUS
<1>6. 0 <= cancels' + Place'
  BY <1>1, <1>3, <1>5
<1> QED
  BY <1>4, <1>6 DEF StraysBounded, InStreams, Place

\* No more than there was, and the lock as it was.
LEMMA NoMoreLeft ==
  ASSUME TypeInv, StraysBounded, UNCHANGED <<requests, responses, cancels>>,
         owner' = owner \/ owner = None
  PROVE  StraysBounded'
<1>1. InStreams' = InStreams /\ cancels' = cancels
  BY DEF InStreams
<1>2. InStreams <= cancels + Place /\ Place <= Place'
  <2>1. owner = None => Place = 0
    BY DEF Place
  <2>2. owner' = owner => Place' = Place
    BY DEF Place
  <2>3. Place \in {0, 1} /\ Place' \in {0, 1}
    BY DEF Place
  <2> QED
    BY <2>1, <2>2, <2>3 DEF StraysBounded, InStreams, Place
<1>3. Place' \in {0, 1}
  BY DEF Place
<1>4. InStreams' <= cancels' + Place'
  BY <1>1, <1>2, <1>3, StreamNumbers
<1> QED
  BY <1>4 DEF StraysBounded, InStreams, Place

\* The steps of a task between its exchanges.
LEMMA LockStepStrays ==
  ASSUME TypeInv, TypeInv', WireInv, StraysBounded, NEW t \in Tasks,
         \/ SendRequest(t) \/ CheckReconnect(t) \/ Reconnected(t)
         \/ AlreadyConnected(t) \/ StartHandshake(t) \/ ConnectEnds(t) \/ PingDrop(t)
  PROVE  StraysBounded'
<1> USE DEF serverVars, transportVars, lockVars, historyVars
<1>t. /\ requests \in Seq(Packets) /\ responses \in Seq(Answered) /\ cancels \in Nat
      /\ task[t].pkt \in Packets
      /\ task[t].at = "connect" => owner = t
  BY DEF TypeInv, WireOK, HistoryOK, CallsOK, LockKept, TaskRecords
<1>e. task[t].at = "connect" => requests = <<>> /\ responses = <<>>
  BY DEF WireInv, StreamInv
<1>w. ASSUME Write(t)
      PROVE  Len(requests') <= Len(requests) + 1
  <2>1. requests' = Append(requests, task[t].pkt) \/ requests' = <<>>
    BY <1>w DEF Write
  <2>2. Len(Append(requests, task[t].pkt)) = Len(requests) + 1 /\ Len(<<>>) = 0
    BY <1>t
  <2> QED
    BY <1>t, <2>1, <2>2
<1>1. CASE SendRequest(t)
  <2>1. /\ owner = None /\ owner' = t /\ responses' = responses /\ cancels' = cancels
        /\ Write(t)
    BY <1>1 DEF SendRequest, WantsToSend, Granted, Acquire
  <2>2. /\ Len(requests) \in Nat /\ Len(responses) \in Nat
        /\ Len(requests') <= Len(requests) + 1
    BY <1>t, <1>w, <2>1
  <2>3. Len(requests') \in Nat
    BY StreamNumbers, <1>1, <1>t DEF TypeInv, WireOK
  <2> QED
    BY <1>t, <2>1, <2>2, <2>3, TasksAssumption DEF StraysBounded
<1>2. CASE CheckReconnect(t) \/ PingDrop(t)
  BY <1>2, NothingLeft DEF CheckReconnect, PingDrop, Disconnect
<1>3. CASE Reconnected(t)
  <2>1. /\ owner' = owner /\ owner = t /\ responses' = responses /\ cancels' = cancels
        /\ Write(t) /\ requests = <<>> /\ responses = <<>>
    BY <1>3, <1>e, <1>t DEF Reconnected, HandshakeOk
  <2>2. Len(requests') <= 1 /\ Len(responses') = 0
    BY <1>w, <2>1
  <2>3. Len(requests') \in Nat
    BY DEF TypeInv, WireOK
  <2> QED
    BY <1>t, <2>1, <2>2, <2>3, TasksAssumption DEF StraysBounded
<1>4. CASE AlreadyConnected(t)
  BY <1>4, NoMoreLeft DEF AlreadyConnected
<1>5. CASE StartHandshake(t)
  BY <1>5, NoMoreLeft DEF StartHandshake, WantsToConnect, Granted
<1>6. CASE ConnectEnds(t)
  BY <1>6, <1>e, NothingLeft DEF ConnectEnds, HandshakeOk, HandshakeFails
<1> QED
  BY <1>1, <1>2, <1>3, <1>4, <1>5, <1>6

\* What a task does with a response, and the end of close().
LEMMA ReplyStrays ==
  ASSUME TypeInv, TypeInv', WireInv, StraysBounded, NEW t \in Tasks,
         Replying(t) \/ CloseEnds(t)
  PROVE  StraysBounded'
<1> USE TasksAssumption DEF serverVars, transportVars, historyVars
<1>t. requests \in Seq(Packets) /\ responses \in Seq(Answered) /\ cancels \in Nat
  BY DEF TypeInv, WireOK, HistoryOK
<1>1. CASE CloseEnds(t)
  BY <1>1, NothingLeft DEF CloseEnds, Disconnect
<1>2. CASE Replying(t)
  <2>1. PICK r : SendAndReceive(t, r)
    BY <1>2 DEF Replying, PingReply, EndTranReply, SetAutocommitReply, QueryReply,
                CloseCursorReply, CursorCloseReply, ExecuteCloseReply, ExecuteReply,
                LastRowIdReply, ExecutemanyBatchReply, FetchReply
  <2>2. UNCHANGED cancels
    BY <1>2 DEF Replying, PingReply, EndTranReply, SetAutocommitReply, QueryReply,
                CloseCursorReply, CursorCloseReply, ExecuteCloseReply, ExecuteReply,
                LastRowIdReply, ExecutemanyBatchReply, FetchReply
  <2>3. owner' = None
    BY <2>1 DEF SendAndReceive
  <2>4. CASE NotConnected(t, r)
    BY <2>2, <2>3, <2>4, NoMoreLeft DEF NotConnected, WantsToSend, Granted
  <2>5. CASE ReconnectFails(t, r)
    BY <2>5, NothingLeft DEF ReconnectFails, HandshakeFails, WireInv, StreamInv
  <2>6. CASE Response(t, r)
    <3>1. CASE Disconnect
      BY <3>1, NothingLeft DEF Disconnect
    <3>2. CASE requests' = requests /\ responses' = Tail(responses)
      <4>1. owner = t /\ responses # <<>>
        BY <2>6 DEF Response, Reading
      <4>2. /\ Len(requests) \in Nat /\ Len(responses) \in Nat
            /\ Len(Tail(responses)) = Len(responses) - 1
        BY <1>t, <4>1
      <4> QED
        BY <1>t, <2>2, <2>3, <3>2, <4>1, <4>2 DEF StraysBounded
    <3> QED
      BY <2>6, <3>1, <3>2 DEF Response
  <2>7. CASE SocketError(t, r)
    BY <2>7, NothingLeft DEF SocketError, Disconnect
  <2>8. CASE EndOfFile(t, r)
    BY <2>8, NothingLeft DEF EndOfFile, WireInv, StreamInv
  <2> QED
    BY <2>1, <2>4, <2>5, <2>6, <2>7, <2>8 DEF SendAndReceive
<1> QED
  BY <1>1, <1>2

\* The one way to leave something behind.
LEMMA CancelStrays ==
  ASSUME TypeInv, TypeInv', StraysBounded, NEW t \in Tasks, Cancel(t)
  PROVE  StraysBounded'
<1>1. CASE Disconnect
  BY <1>1, NothingLeft DEF Disconnect
<1>2. CASE requests' = requests /\ responses' = responses
  <2>1. cancels' = cancels + 1 /\ InStreams <= cancels + Place
    BY DEF Cancel, StraysBounded, InStreams, Place
  <2>2. InStreams' = InStreams
    BY <1>2 DEF InStreams
  <2>3. Place' \in {0, 1}
    BY DEF Place
  <2>4. InStreams' <= cancels' + Place'
    BY <2>1, <2>2, <2>3, StreamNumbers
  <2> QED
    BY <2>4 DEF StraysBounded, InStreams, Place
<1> QED
  BY <1>1, <1>2 DEF Cancel

\* The server turns a request into a response, or the session is lost.
LEMMA ServerStrays ==
  ASSUME TypeInv, TypeInv', StraysBounded, ServerAnswers \/ SessionLost
  PROVE  StraysBounded'
<1>t. /\ requests \in Seq(Packets) /\ responses \in Seq(Answered) /\ cancels \in Nat
      /\ owner' = owner /\ cancels' = cancels
  BY DEF TypeInv, WireOK, HistoryOK, ServerAnswers, SessionLost, lockVars, historyVars
<1>1. CASE ServerAnswers
  <2>1. PICK m : responses' = Append(responses, m)
    BY <1>1 DEF ServerAnswers
  <2>2. requests # <<>> /\ requests' = Tail(requests)
    BY <1>1 DEF ServerAnswers
  <2>3. Len(requests') = Len(requests) - 1 /\ Len(requests) \in Nat
    BY <1>t, <2>2
  <2>4. Len(responses') = Len(responses) + 1 /\ Len(responses) \in Nat
    BY <1>t, <2>1
  <2>5. InStreams' = InStreams /\ Place' = Place
    BY <1>t, <2>3, <2>4 DEF InStreams, Place
  <2> QED
    BY <1>t, <2>5 DEF StraysBounded, InStreams, Place
<1>2. CASE SessionLost
  <2>1. requests' = <<>> /\ responses' \in {responses, <<>>}
    BY <1>2 DEF SessionLost
  <2>2. /\ Len(requests) \in Nat /\ Len(responses) \in Nat
        /\ Len(requests') = 0 /\ Len(responses') \in {Len(responses), 0}
    BY <1>t, <2>1
  <2> QED
    BY <1>t, <2>2 DEF StraysBounded
<1> QED
  BY <1>1, <1>2

\* Every step keeps the bound.
LEMMA StraysStep ==
  ASSUME TypeInv, TypeInv', WireInv, StraysBounded, [Next]_vars
  PROVE  StraysBounded'
<1>1. ASSUME NEW t \in Tasks, Invocation(t)
      PROVE  StraysBounded'
  <2>1. /\ UNCHANGED <<requests, responses, owner>>
        /\ cancels' = cancels
    BY <1>1 DEF Invocation, ConnectCall, PingCall, EndTranCall, SetAutocommitCall,
       QueryCall, CloseCall, NewCursor, CursorCloseCall, ExecuteCall,
       ExecutemanyBatchCall, FetchmanyCall, FetchallCall, transportVars, lockVars,
       historyVars
  <2> QED
    BY <2>1, NoMoreLeft
<1>2. ASSUME NEW t \in Tasks, TaskStep(t)
      PROVE  StraysBounded'
  BY <1>2, LockStepStrays, ReplyStrays DEF TaskStep, Replying
<1>3. CASE UNCHANGED vars
  BY <1>3, NoMoreLeft DEF vars, transportVars, lockVars, historyVars
<1> QED
  BY <1>1, <1>2, <1>3, CancelStrays, ServerStrays DEF Next

\* StraysBounded, with any number of tasks and cancellations: each of them leaves
\* at most one request or response in the streams, and nothing else leaves any.
THEOREM StraysAreBounded == Spec => []StraysBounded
<1>1. Init => StraysBounded
  <2>1. Len(<<>>) = 0
    OBVIOUS
  <2> QED
    BY <2>1 DEF Init, StraysBounded
<1>2. /\ TypeInv /\ WireInv /\ TypeInv' /\ StraysBounded /\ [Next]_vars
        => StraysBounded'
  BY StraysStep
<1> QED
  BY <1>1, <1>2, WireInvariant, PTL DEF Spec

(***************************************************************************)
(* Part 4.  The transport.  The flag and the streams agree between any two *)
(* steps, those of a cancelled task included.                              *)
(***************************************************************************)
StreamsAgree == streams <=> connected

Moves == [T!Next]_(T!vars) /\ StreamsAgree'

\* What a step may do to the streams and the session.
TransportKept == UNCHANGED <<connected, streams, up>>
SessionGone == up' = FALSE /\ UNCHANGED <<connected, streams>>
Handshaken == ~connected /\ (HandshakeOk \/ HandshakeFails)

\* Each of these is a step of Transport.tla, or none of its business.
LEMMA TransportMoves ==
  ASSUME TypeInv, WireInv, StreamsAgree,
         TransportKept \/ SessionGone \/ Disconnect \/ Handshaken
  PROVE  Moves
<1>t. /\ connected \in BOOLEAN /\ streams \in BOOLEAN /\ up \in BOOLEAN
      /\ ~connected => ~up
  BY DEF TypeInv, WireOK, ServerTypeOK, WireInv, StreamInv
<1>1. CASE TransportKept
  BY <1>1 DEF TransportKept, Moves, StreamsAgree, T!vars
<1>2. CASE SessionGone
  <2>1. CASE up
    BY <1>2, <2>1 DEF SessionGone, Moves, StreamsAgree, T!Next, T!SessionLost
  <2>2. CASE ~up
    BY <1>2, <1>t, <2>2 DEF SessionGone, Moves, StreamsAgree, T!vars
  <2> QED
    BY <2>1, <2>2
<1>3. CASE Disconnect
  <2>1. connected' = FALSE /\ streams' = FALSE /\ up' = FALSE
    BY <1>3 DEF Disconnect, SessionEnds
  <2>2. CASE streams
    BY <2>1, <2>2 DEF Moves, StreamsAgree, T!Next, T!SocketCloses
  <2>3. CASE ~streams
    BY <1>t, <2>1, <2>3 DEF Moves, StreamsAgree, T!vars
  <2> QED
    BY <2>2, <2>3
<1>4. CASE ~connected /\ HandshakeOk
  BY <1>4 DEF HandshakeOk, SessionOpens, Moves, StreamsAgree, T!Next, T!HandshakeOk
<1>5. CASE ~connected /\ HandshakeFails
  <2>1. connected' = connected /\ streams' = streams /\ up' = up
    BY <1>5, <1>t DEF HandshakeFails, serverVars, StreamsAgree
  <2> QED
    BY <2>1 DEF Moves, StreamsAgree, T!vars
<1> QED
  BY <1>1, <1>2, <1>3, <1>4, <1>5 DEF Handshaken

\* Every step does one of these.
LEMMA TransportSteps ==
  ASSUME TypeInv, WireInv, [Next]_vars
  PROVE  TransportKept \/ SessionGone \/ Disconnect \/ Handshaken
<1> USE DEF serverVars, transportVars
<1>h. \A t \in Tasks : task[t].at = "connect" => ~connected
  BY DEF WireInv, StreamInv
<1>1. ASSUME NEW t \in Tasks, Invocation(t)
      PROVE  TransportKept
  BY <1>1 DEF TransportKept, Invocation, ConnectCall, PingCall, EndTranCall,
     SetAutocommitCall, QueryCall, CloseCall, NewCursor, CursorCloseCall, ExecuteCall,
     ExecutemanyBatchCall, FetchmanyCall, FetchallCall
<1>2. ASSUME NEW t \in Tasks, SendRequest(t) \/ AlreadyConnected(t) \/ StartHandshake(t)
      PROVE  TransportKept
  BY <1>2 DEF TransportKept, SendRequest, AlreadyConnected, StartHandshake
<1>3. ASSUME NEW t \in Tasks, CheckReconnect(t) \/ PingDrop(t) \/ CloseEnds(t)
      PROVE  Disconnect
  BY <1>3 DEF CheckReconnect, PingDrop, CloseEnds
<1>4. ASSUME NEW t \in Tasks, Reconnected(t) \/ ConnectEnds(t)
      PROVE  Handshaken
  BY <1>4, <1>h DEF Reconnected, ConnectEnds, Handshaken
<1>5. ASSUME NEW t \in Tasks, Replying(t)
      PROVE  TransportKept \/ Disconnect \/ Handshaken
  <2>1. PICK r : SendAndReceive(t, r)
    BY <1>5 DEF Replying, PingReply, EndTranReply, SetAutocommitReply, QueryReply,
                CloseCursorReply, CursorCloseReply, ExecuteCloseReply, ExecuteReply,
                LastRowIdReply, ExecutemanyBatchReply, FetchReply
  <2> QED
    BY <1>h, <2>1 DEF SendAndReceive, NotConnected, ReconnectFails, Response,
       SocketError, EndOfFile, TransportKept, Handshaken
<1>6. ASSUME NEW t \in Tasks, Cancel(t)
      PROVE  TransportKept \/ Disconnect
  BY <1>6 DEF Cancel, TransportKept
<1>7. CASE ServerAnswers
  BY <1>7 DEF ServerAnswers, Serve, TransportKept
<1>8. CASE SessionLost
  BY <1>8 DEF SessionLost, SessionEnds, SessionGone
<1>9. CASE UNCHANGED vars
  BY <1>9 DEF vars, TransportKept
<1> QED
  BY <1>1, <1>2, <1>3, <1>4, <1>5, <1>6, <1>7, <1>8, <1>9 DEF Next, TaskStep, Replying

\* OnTransport, with any number of tasks, connections and cancellations: the
\* streams are opened only where none are open, and closed with their session.
THEOREM DriverOnTransport == Spec => OnTransport
<1>1. Init => StreamsAgree
  BY DEF Init, StreamsAgree
<1>2. TypeInv /\ WireInv /\ StreamsAgree /\ [Next]_vars
        => StreamsAgree' /\ [T!Next]_(T!vars)
  BY TransportMoves, TransportSteps DEF Moves
<1> QED
  BY <1>1, <1>2, WireInvariant, PTL DEF Spec, OnTransport
==============================================================================
