# A verification of pycubrid

pycubrid is a pure Python DB-API driver for the CUBRID database: a synchronous
driver (`pycubrid/connection.py`, `pycubrid/cursor.py`) and an asyncio one
(`pycubrid/aio/`), both of which speak the CAS protocol over one socket to one
CAS worker process. This directory holds TLA+ models of the drivers, of the
statements and packets they exchange and of the CAS session they talk to, TLC
runs that check them on small instances, and TLAPS proofs for every instance.

## 1. The system

### Components, state, operations

| component | state | operations | correct when |
|---|---|---|---|
| `Connection` (`connection.py`) | `_socket`, `_connected`, `_cas_info`, `_autocommit`, `_cursors` | `connect close commit rollback cursor autocommit= ping get_*` | a session is replaced only when nothing is lost by it; `close()` on a connection that is up releases everything; every call ends |
| `ConnectionCommonMixin` (`_connection_common.py`) | the fields above | `_invalidate_query_handles _ensure_connected _drop_connection` | no cursor is left with a number the server has freed |
| `Cursor` (`cursor.py`) | `_query_handle`, `_rows`, `_row_index`, `_total_tuple_count`, `_lastrowid`, `_description`, `_closed` | `execute executemany(_batch) fetchone/many/all close` | the rows are those of its own statement, in order, once; `lastrowid` is that of its own last `execute()` |
| `AsyncConnection`, `AsyncCursor` (`aio/`) | the same, `_reader`/`_writer`, `_lock` | the same as coroutines | tasks that share a connection get what each of them would get alone |
| packets (`protocol.py`, `packet.py`) | the fields of a request and of its parsed response | `write parse` | what `parse` reads is what the server wrote |
| placeholder and literal code (`_cursor_common.py`) | none | `bind escape split` | a parameter stays inside its literal |
| `Lob` (`lob.py`) | a LOB handle | `create write read` | one exchange each |
| `TimingStats` (`timing.py`) | counters | `record_*` | bookkeeping only |
| CAS worker (external) | session, handle table, transaction, `AUTO_COMMIT` | the CAS requests | assumed, section 3 |

A cursor sends every request through `Connection._send_and_receive`, which first
runs `_check_reconnect`: when the last response's `CAS_INFO` said `INACTIVE`,
the session is dropped, a new one opened, and the request, built before, goes out
on the new one. `commit`, `rollback`, `ping` and `_drop_connection` reach back
into the cursors and take their handles away; `close()` calls the `close()` of
every tracked cursor.

### What is hard

* A query handle is a small number that means something only inside one session
  and one transaction. Sessions are replaced in the middle of calls, transactions
  end by four different calls, and each must make exactly the right cursors forget
  their handles; a number kept too long is given to another statement.
* `_check_reconnect` throws a session away on the word of one status byte.
* Every exchange can end in five ways (not connected, reconnect fails, response,
  `OSError` or timeout, end of file) times four kinds of response (good, negative,
  undecodable, with no rows); calls of several exchanges may fail between them.
* In the asyncio driver, requests are built before the lock is granted and used
  after it.
* `connect()` holds up to two sockets, and may be left between any two of its
  steps: by an error, a timeout or, in the asyncio driver, a cancellation, which may
  also hit the `await`s of its own `finally`.
* Every packet is read at offsets that follow from what was read before: one
  length, type byte or versioned field counted wrongly shifts all that follows,
  the next response included.
* Placeholders are found by a scanner and literals quoted by another function;
  the server has its own lexer, and all three must agree on what is inside a
  literal.

`PROJECT.json` lists each of these hazards at its line, with the properties that
are about it.

## 2. Modules

| module | models |
|---|---|
| `CasServer.tla` | the CAS session (external): handle table, open transaction, durable statements, `AUTO_COMMIT`, last identifier; the request and response records; for each request the set of its outcomes |
| `Connection.tla` | `Connection` and its mixin: state, `_check_reconnect`, the ways out of `_send_and_receive`, each public method |
| `Cursor.tla` | `Cursor`: `close`, `execute`, `executemany_batch`, `fetchmany`/`fetchone`, `fetchall` |
| `SyncDriver.tla` | the composition of the synchronous driver: `Init`, `Next`, fairness, properties |
| `AsyncConnection.tla` | `AsyncConnection`: `asyncio.Lock` and its queue, the request and the response as separate steps, each coroutine, cancellation |
| `AsyncCursor.tla` | `AsyncCursor` |
| `AsyncDriver.tla` | the composition of the asyncio driver: tasks, fairness, properties |
| `Transport.tla` | abstract: what `connect()` and a teardown promise the rest of the driver, in four actions; `Handshake` implements it, and both drivers make its steps |
| `ResultSets.tla` | abstract: what the cursors promise the application, without a connection, a buffer or a handle in it; both drivers implement it |
| `Handshake.tla` | `connect()`, `ping()`, `close()` and the reconnect of a request down to sockets, in both drivers: broker, redirect, TLS, `OPEN_DATABASE`, the `finally`, timeouts, cancellation; implements `Transport` |
| `SqlBind.tla` | `split_on_placeholders` step by step, `escape_string`, `format_parameter`, `bind_parameters`, the leading keyword of `executemany`; the server's lexer (external) as the reference |
| `Packet.tla` | `PacketWriter` and `PacketReader`: fields, framing, the readers of every type, collections and LOBs |
| `Protocol.tla` | `write()` and `parse()` of every packet |
| `CasCodec.tla` | the other end of the wire (external): what a CAS takes the bytes of a request for, the bytes of its responses |
| `Statement.tla` | the way of a statement: bind, write, respond, receive in pieces, parse, keep what the next request is made of |
| `MCSyncDriver.tla`, `MCAsyncDriver.tla`, `MCStatement.tla`, `*.cfg` | instances for TLC |
| `CasServerProofs.tla` | the server's outcomes have the types of its state, and never lose work |
| `SyncDriverProofs.tla` | type correctness of the synchronous driver |
| `SyncDurabilityProofs.tla` | durability of `commit()` in the synchronous driver, its steps on `Transport` |
| `SyncOwnershipProofs.tla` | identifiers, `close()`, handles and rows in the synchronous driver, the refinement of `ResultSets`, what a fetch returns |
| `AsyncDriverProofs.tla` | types, the lock, the streams and the handshakes of the asyncio driver, the bound on what cancellations leave, its steps on `Transport` |
| `AsyncDataProofs.tla` | durability, identifiers and rows in the asyncio driver, the refinement of `ResultSets`, what a fetch returns |
| `HandshakeTypeProofs.tla` | type correctness of the handshake, the order of its messages |
| `HandshakeProofs.tla` | ownership of sockets and sessions, the refinement of `Transport` |

`EXTENDS` goes CasServer <- Connection <- Cursor <- SyncDriver and CasServer <-
AsyncConnection <- AsyncCursor <- AsyncDriver: both drivers talk to the same
server. Packet <- Protocol <- CasCodec, and Statement extends SqlBind and CasCodec.
`SyncDriver` and `AsyncDriver` INSTANCE `ResultSets`, and with `Handshake` they
INSTANCE `Transport`.
The three groups are three views of one exchange. The drivers say when it
happens and what it does to a session, with a handshake of one step;
`Handshake` says that the one step is one (`Transport` is where the two meet:
`Handshake` implements it, and the drivers make no step it does not have);
`Statement` says that what is read is what was sent.

### How the modules correspond to the code

*Synchronous.* A connection belongs to one thread, so one public call runs at a
time; the record `call` is its program counter and its locals. The action
`XxxCall` runs from the invocation to the first exchange; `XxxReply` is one
exchange (`SendAndReceive(r)`, `r` being the response or the exception) and all
the code after it up to the next exchange or the return. A reconnect inside an
exchange is visible: `CheckReconnect` drops the session and `Reconnected` opens
the next. `step` tells where the call is; `pkt` is the request built. `ret` is how
the last call ended, `sent` and `acked` are history.

*Asyncio.* An action is what a task runs between two suspensions. Every exchange
is cut into: the wait for the lock (`at = "lock"`, with the request already
built), the write (`SendRequest`), the server's answer (`ServerAnswers`), and
the read, which releases the lock and runs on to the next suspension. The lock is
granted in the order of the requests (`waiters`), as `asyncio.Lock` does. `requests`
and `responses` are what is on the wire; a cancelled call leaves its part there,
and the next reader gets it (`Readings`).

*Handshake.* One call runs at a time (the thread, or the task that holds the
lock). `pc` is where it stands: an action is the code from one blocking
operation to the next, in asyncio from one `await` to the next, with the two
`wait_closed()` of the `finally` and that of `_close_streams` as places of their
own, where a cancellation skips what follows. The request of a call may be
answered, refused with a DatabaseError, answered by bytes that cannot be decoded,
lost, or cancelled. `Undecoded` lets the exception of decoding out of every call
but `close()`: in the synchronous driver any of them, though `ping()` keeps
`struct.error`; in asyncio only the `ValueError` of a negative length. `probe` is
`ping(reconnect=False)`. `cfg` chooses the driver, TLS and
`read_timeout`. `open` is what the operating system would list, `served` the
sockets that have a session at the server, `wire` what was sent on each. The
dead-end paths are those of the code: `ConnectEnds` gives the exception to
`connect()`, makes `ping()` answer False or try once more, and is swallowed by
`close()`, unless it is a cancellation, which `close()` raises after its
teardown.

*Statement.* The scanner makes one turn of its loop per action, on texts of
abstract characters (quotes, `-`, `/`, `*`, `?`, newline, backslash, a verb).
A byte is a triple: the *k*-th of the *n* bytes that encode *v*. A field that is
read from bytes which are not exactly its own is `Garbage`, a read past the end
an exception (or, for `_parse_bytes`, silently short), so every miscounted
length shows. `parse()` is a function of the bytes, the connection's version
and `decode_collections`; the reader is a record with the buffer, the offset
and the values read so far. `CasCodec` is written separately, field by field, in
the order in which the packets expect the fields: the comparison is between the
driver's `write()` and the server's reading, and between the server's values and
the driver's `parse()`.

*Result sets.* `ResultSets` knows of a cursor the SELECT whose result it holds, the
rows taken from it and how many can be taken at all. In the drivers these are
`result[c].stmt` while there is a `_description`, the buffer up to `_row_index`, and
`_total_tuple_count` while there is a `_query_handle`, else the length of the
buffer. What `commit()` or a reconnect takes out of reach is a step of its own
there, `Loses`, and does not come back until another SELECT is run.

*Data.* In the drivers, a statement is a member of `Stmts`, sent at most once; row *i* of the
result of *s* is the pair `<<s, i>>`, so a row tells whose it is; SQL text, column
types and values are left out. A response is a record of what `parse()` leaves. A
DatabaseError is `"error"`, an OperationalError or InterfaceError `"operr"`, an
exception of decoding `"unparsed"` (it leaves a synchronous call as it is; the
asyncio driver turns it into a disconnection). Calls that raise at once without
changing anything (a closed cursor, no result set, not connected) are stutters;
a `close()` that finds the connection disconnected returns at once, which is a
disjunct of `CloseCall`.

## 3. The CAS, as assumed

The broker is not in the repository. `CasServer.tla` states what the drivers'
code relies on, and leaves the rest open:

* a handle number means one statement inside one session, numbers are given out
  in any order and reused once free;
* `END_TRAN` may free every handle or none (the comment at
  `_connection_common.py:121`);
* the status byte of a response says `INACTIVE` only when no transaction is open,
  and may say `ACTIVE` at any time; the handshake may leave either;
* a session that ends loses its handles and its open transaction; a request under
  way is then carried out or not;
* any request may be refused with a negative code;
* the number of rows with an execute response is anything up to `InlineMax`, a
  FETCH returns the rows asked for;
* the framing, and the order and the widths of the fields of requests and
  responses (`CasCodec.tla`), are those the packets' `write()` and `parse()` use:
  DATA_LENGTH leaves CAS_INFO out, every argument stands behind a length of four
  bytes, the type byte before a value without a column type is one byte.
  `docs/PROTOCOL.md` has the first two otherwise: "Length of CAS Info + Payload"
  (line 84), "1B length + 1B value" for `add_byte` (line 435). The code is what is
  modelled; `RequestUnderstood` and `NothingLeft` say that its writing and its
  reading agree with a server that frames as it does, not that the document is
  right;
* the lexer (`SqlBind.tla`) knows literals with doubled quotes, backslash escapes
  unless `no_backslash_escapes`, quoted names, `--` and `/* */` comments.

## 4. Runs

| run | instance | shows |
|---|---|---|
| `sync_fetch` | 2 cursors, 2 SELECTs of 2 rows and an INSERT, 2 handle numbers, FETCH of 1 row | `HandlesOwned`, `RowsOwned`, `KeepsResultSets`, `FetchesEnough`, `CloseReleases`, `TypeOK`: whatever fails, reconnects or commits, a `close()` that returns leaves no socket and no session, and no cursor open unless it found the connection disconnected; no handle, row or cursor is mixed up, rows are handed over in order and once, and a fetch that returns has all it was asked for or all in reach, for an application that keeps autocommit fixed and lets `ping()` reconnect |
| `sync_work` | every call, `FairSpec`; 1 cursor; an INSERT, a SELECT and a schema request | `AckedKept`, `CommitDurable`, `LastRowIdOwned`, `OnTransport`, `CallsReturn` |
| `sync_connect` | as `sync_fetch`, with `connect()` | violates `RowsOwned` |
| `sync_fetchall` | a SELECT of 3 rows | violates `FetchAllComplete` |
| `async_shared` | every call but the fetches and `Cursor.close`; 2 tasks, 1 cursor; an INSERT and a schema request | `ResponsesMatch`, `SingleHandshake`, `CommitDurable` |
| `async_return` | 2 tasks, one cancellation, `FairSpec` | `CallsReturn`; `LockKept`: a cancelled call gives the lock, or its place in the queue, back; `StraysBounded`: it leaves one message at most; `OnTransport` |
| `async_alone` | 1 task, 2 cursors, a SELECT, an INSERT and an UPDATE, `executemany_batch` among the calls, 1 handle number | `TypeOK`, `RowsOwned`, `LastRowIdOwned`, `KeepsResultSets`, `FetchesEnough` |
| `async_fetch` | 2 tasks, 2 cursors, 2 SELECTs, 1 handle number | violates `RowsOfOwnStatement` |
| `async_cancel` | 1 task, one cancellation | violates `CommitDurable` |
| `handshake` | both drivers, with TLS and without, with `read_timeout` and without; 6 sockets, 2 cancellations; `FairSpec` | `SocketsOwned`, `OneSession`, `WireOrder`, `PingTruthful`, `SilenceBounded`, `Implements`, `TypeOK` |
| `statement` | 1,538 statement texts, each with both settings of `no_backslash_escapes`, up to 2 parameters of 13 values; every packet, type and error; 5 protocol versions | `SqlAsGiven`, `BatchesDml`, `RequestUnderstood`, `ResponseUnderstood`, `NothingLeft` |
| `bind_minus` | texts of `-` and `?` | violates `SqlAsDocumented` |

**Bounds.** Two cursors and two handle numbers are what it takes for a number to
be freed and given to somebody else; a third cursor adds no new relation,
because the properties are about one cursor and one other statement. In
`async_alone` one number does: it is freed and given to the other cursor's
statement, and two live handles of one task are those of `sync_fetch`. A result
of two or three rows with one row at most in the execute response and one row
for each FETCH makes a fetch span several exchanges. One INSERT in a run is
enough for an identifier that is kept too long; that a second one does not lend
its own is `LastRowIdIsOwned`, for any number of them. Each statement is sent
once, which bounds the number of executes; sessions, reconnects, failures,
commits and pings are not bounded. Two tasks are enough to wait for each other
and to come between two exchanges of one call. `MaxCancels` bounds the
cancellations (0 or 1: one is enough to shift all later responses). The cursors,
the tasks and the two SELECTs of `sync_fetch` are used alike, hence the symmetry
sets of the runs without liveness. Six sockets are a connection, its loss and a
`ping()` that tries twice, each through a redirect; two cancellations hit a call
and then its `finally`, or two calls. The texts are all those of three
characters, and up to six of those that interact (quotes with `?`, backslashes,
comments): the scanner looks one character ahead, so every pair of states and
characters meets a placeholder before and behind it. Result sets have no row,
one, or two, of one column or two, every type alone and the types of unlike
readers in pairs: a reader that ends at a wrong offset is seen by the value, the
row or the field behind it. Versions 1, 2, 3, 4 and 8 are on both sides of each
comparison in `protocol.py`. Responses of up to `MaxPieces` bytes are received
in every split, longer ones in two pieces. Parameters are bound for the first
statement only, and one cursor or one LOB is alive at a time: what the bytes of
a request depend on is that cursor or LOB and the version.

**Deadlock.** Checked wherever the application can always go on (it may call
`ping()` or `connect()`); the runs `async_fetch` and `async_cancel` leave both out of the `Api` to keep the counterexample short, and
the system may stop there, disconnected.

**Restricted `Api`.** `sync_fetch` and `async_alone` leave out `connect()` and the
autocommit setter, because with them the properties are false of this code:
`connect()` after an `OSError` keeps the handles of the dead session
(`sync_connect`), and the setter's commit (`connection.py:252`,
`aio/connection.py:276`) does not invalidate handles as `commit()` does.

**Fairness.** `FairSpec` is weak fairness of the driver's own steps: of
`DriverStep` in `SyncDriver`, of each task's `TaskStep` in `AsyncDriver`. A call
under way is run by its thread or by the event loop, and a wait for the server
ends in a response, an end of file or an error (`read_timeout`, TCP keep-alive,
which the drivers switch on). Nothing is assumed of the application, of the
server, of cancellation or of the other task. In `Handshake`, where silence is
what `SilenceBounded` is about, only `DriverStep` is weakly fair: the event loop
turns, a TCP connection being opened is accepted or given up by the local stack
within `connect_timeout` or its own limit, a timeout that was set goes off.
Nothing of the peer is fair there: a broker or a CAS may never answer.

### What the violations are

* `sync_connect`: the `OSError` path of `_send_and_receive` disconnects without
  `_invalidate_query_handles`, and `connect()` does not either. The cursor then
  sends its number to the new session and appends another statement's rows.
* `sync_fetchall`: when `commit()` or a transparent reconnect has taken the handle,
  `_fetch_more_rows` returns False, and `fetchall()` returns some of the rows
  with no error.
* `async_fetch`: a fetch waits for the lock with its packet built; another task's
  execute, ahead of it, reconnects and gets the same number; the fetch then reads
  that task's rows. No fault and no cancellation is needed.
* `async_cancel`: a call cancelled while it waits for its response leaves the
  response in the stream; `commit()` takes it for its own, and returns before the
  server has committed.
* `bind_minus`: `SELECT 5 -?` with a negative number becomes `SELECT 5 --1`, where
  the rest of the line is a comment: `bind_parameters` puts a literal for each
  placeholder, but the statement the server reads is another one.

## 5. Proofs

For every value of the constants that satisfies the modules' assumptions.

*The synchronous driver.*

* `TypeCorrect`: `Spec => []TypeOK`. `TypeOK` is not inductive: a FETCH reply
  indexes `result` by `call.cur`, so the invariant `TypeInv` adds
  `FetchHasCursor`, that a call with a cursor's reply to come names a cursor.
  `CasServerProofs` gives the type of each request's outcomes; the steps go
  action by action in `TypeStep`.
* `WorkIsKept`: `Spec => []AckedKept`, and `CommitIsDurable`: `Spec =>
  CommitDurable`. The invariant is `CommitInv`: the types, `AckedKept`, and
  `CallShape`, which packets, steps and results go with which call. `AckedKept`
  is the heart of it: what the application holds acknowledged is in the open
  transaction or durable, and it is durable already whenever the status byte
  lets `_check_reconnect` drop the session, and while it is replaced. Each
  request's outcome keeps acknowledged work or makes it durable (`WorkKept`,
  `AnswerWork`, `OutcomesWork`); an exchange therefore keeps `AckedKept`
  (`ExchangeKeeps`, `ExchangeWork`); what a call does around its exchanges
  follows by cases (`CommitSessionStep`, `ExchangeCall`, `CommitReply`). A
  commit that returns has had the outcome of END_TRAN, which makes `work`
  durable.

  These three hold for every `Api`, `connect()` and the autocommit setter
  included.
* `LastRowIdIsOwned` (`LastRowIdOwned`: `lastrowid` is None or the identifier of
  the statement of the cursor's last `execute()`) and `CloseLeavesNothing`
  (`CloseReleases`: a `close()` that returns leaves no socket and no session, and
  no cursor open if it found the connection up), for every `Api` too. That there
  is no socket without a connection is `SocketInv` (below), which covers the
  `close()` that returns at once. The invariant `TrackInv` adds to
  `CommitInv` which cursors the connection knows (`Tracked`: every open one, so
  `close()` reaches all of them) and what the session's last identifier is while
  the question for it is under way (`IdAsked`); a reconnect in between makes it
  None.
* `HandlesAreOwned` and `RowsAreOwned`: `AutocommitFixed /\ Spec =>
  []HandlesOwned`, and the same for `[]RowsOwned`. `AutocommitFixed` says that
  the application calls neither `connect()` nor the setter, which leave dead
  handles in cursors (`sync_connect` is the counterexample for `connect()`).
  `OwnInv` says that a handle held stands for the cursor's statement in the
  session there is, and for no other cursor's (`HandleState`); that a new
  session begins with no handle held (`NewSession`); and that a CLOSE_REQ_HANDLE
  or FETCH about to be sent has the handle its cursor still holds, and a cursor
  that executes has none (`PacketHandle`). `RowInv` adds that a FETCH asks for
  the row behind the buffered ones (`BufferInv`).
* `ResultSetsAreKept` (`KeepsResultSets`) and `FetchesAreEnough`
  (`FetchesEnough`), under `AutocommitFixed` too. `RowsOwned` says what is in a
  buffer; these say what the application gets of it. `ResultInv` adds to `RowInv`
  that a SELECT's buffer is within its result (`WithinResult`) and that a fetch
  under way has rows to ask for (`FetchHasMore`), from which a FETCH that
  succeeds never comes back empty and never goes past the end (`ResultFetched`,
  by `FetchBrings` of the server). The steps of the driver are then of four kinds
  (`ResultStep`): handles go, a result ends, one opens, rows are taken; each is
  shown to keep `ResultInv` (`ResultKept`) and to be a step of `ResultSets`
  (`ResultSetsStep`), and a fetch that returns has taken its last
  (`FetchTakes`).
* `DriverOnTransport` (`OnTransport`), for every `Api`. `SocketInv` says that flag
  and socket agree between any two steps and that a handshake finds neither;
  each exchange ends in a step of `Transport` or leaves it alone.

*The asyncio driver*, for any tasks, cursors, statements, handles and calls.

* `AsyncTypeCorrect` (`TypeOK`) and `LockIsKept` (`LockKept`), whatever is
  cancelled. Neither is inductive without the other: the response a task reads
  is typed because the task is the lock's owner, and `TypeInv` states both.
* `ReadersMatch` (`ResponsesMatch`) and `HandshakesAreSingle`
  (`SingleHandshake`). `WireInv` says that nothing is on the wire of a
  connection that is down, and, as long as no call was cancelled, nothing while
  the lock is free and at most one message of its owner while it is held.
* `StraysAreBounded` (`StraysBounded`) and `DriverOnTransport` (`OnTransport`),
  whatever is cancelled. What is in the streams exceeds what the lock's owner put
  there by one for each cancellation at most: only a task that loses the lock in
  a cancellation leaves a message, and every other way out of an exchange reads
  it or closes the streams. `StreamsAgree` says that flag and streams agree
  between any two steps, those of a cancelled task included.
* `CommitIsDurable`: `Spec /\ [](cancels = 0) => CommitDurable`, for every `Api`
  and any interleaving. That no call is cancelled cannot be left out:
  `async_cancel` is the counterexample. The invariant is `DataInv`: `TypeInv`,
  `WireInv`, `Shape` (which packets a call may have in hand) and `Kept`, the
  asyncio form of `AckedKept`: what was acknowledged is pending or durable while
  the session lives, also while the response that says so is unread, and durable
  where the driver may reconnect in silence.
* `LastRowIdIsOwned` and `RowsAreOwned`, under `[](cancels = 0)` and
  `TakeTurns`: a call of the driver begins only when no other is under way. It
  holds of one task by itself, and of any number that a pool or a lock of the
  application keeps apart; without it both properties fail (`async_fetch`, as
  `RowsOwned` implies `RowsOfOwnStatement`; the INSERT and its GetLastInsertId
  are two exchanges). `RowsAreOwned` also assumes `AutocommitFixed`, as in the
  synchronous driver. `TurnInv` is `DataInv` and that one task at most is busy;
  `IdInv` follows the identifier from the server through the response to the
  cursor, `RowInv` does so for handles and rows: the server has freed a cursor's
  handle only if the response that says so is on its way to the task (`Loses`),
  and rows in a response continue the buffer (`AnswerRows`).
* `ResultSetsAreKept` and `FetchesAreEnough`, under the hypotheses of
  `RowsAreOwned`, along the argument of the synchronous driver. What is added is
  that an answer is sent before it is read: `AnswerBrings` says of the rows in a
  response that the cursor it is for has room for them and still holds the handle
  they came of.

All of these rest on the assumptions of section 3, as built into `Outcomes`, and
on the named assumptions on the constants. Lemmas about `Outcomes` that several
of the proofs need are in `CasServerProofs`.

*The handshake*, for any number of sockets and cancellations, in both drivers.

* `NoSocketLost` (`SocketsOwned`), `NoSecondSession` (`OneSession`),
  `PingTellsTheTruth` (`PingTruthful`). That open sockets can be reached is not
  inductive: in the asyncio `finally` it must be known that `hs_writer` and
  `_writer` are never both open and different when the first is forgotten, which
  follows from where the call was when the exception hit. The invariant
  `Ownership` says for each place exactly which sockets are open (`Settled`,
  `InConnect`, `InFinally`), that a session is served only on an open `_socket`,
  and that `_connected` is false all through `connect()`.
* `HandshakeIsOneStep`: `Spec => Implements`. A step of the handshake is
  invisible until `Opened` (`Unseen`), which is `HandshakeOk` (`OpenedSeen`);
  closing the socket is `SocketCloses`, clearing the flag behind it
  `Disconnects` (`DropSeen`, `DropEndsSeen`); a task cancelled in between leaves
  the flag behind, as `SocketCloses` allows.
* `HandshakeTyped` (`TypeOK`): what leaves `connect()`, `close()` and the reconnect
  of any call is a DB-API exception or a cancellation; the request of another
  call, or of `ping()`, may besides raise what decoding raised. `Budget` counts the sockets a call may still need, the second
  try of `ping()` included, against the bound `MaxSockets`.
* `MessagesInOrder` (`WireOrder`): nothing was sent on a socket not made yet,
  the magic alone on the one whose answer is awaited, and no more than the
  greeting where TLS begins (`WireInv`).

Only model-checked:

* liveness (`CallsReturn`, `SilenceBounded`), which is out of the prover's reach
  under fairness;
* everything about texts and bytes (`SqlAsGiven`, `BatchesDml`,
  `RequestUnderstood`, `ResponseUnderstood`, `NothingLeft`): the sequences are
  built by folds and recursive functions, and what these compute for every input
  needs induction over data.

Violated properties have nothing to be proved; the theorems with hypotheses
above say how far the code is from them.

## 6. Not modelled

* Dates, times, time zones, `Decimal` and JSON are values without structure: how
  they are formatted or decoded from their own bytes is left out; so are `nan`,
  `inf` and the other values `format_parameter` refuses, which are one.
* `build_description`, `rowcount`, `arraysize`, the hints, `sqlstate` and `errno` of
  an error: copied or looked up, and nothing depends on them.
* The context managers: `commit()` or `rollback()`, then `close()`.
* `TimingStats`: counters that nothing else reads. Constants, types, exceptions
  and error codes: tables. Entry points, scripts, examples: callers of the API.
* `add_short`, `add_float` and the date writers of `PacketWriter`, which no packet
  calls; a typed value whose type header is two bytes, which the code does not
  know.
* Texts longer than a fixed field (32 bytes), which are cut.
* In `AsyncDriver`: a suspension inside `_close_streams` (it is in `Handshake`), and
  a subclass that overrides `connect()`. In `Handshake`: several tasks (they are
  in `AsyncDriver`), DNS, and a `setsockopt` that fails.

Where the documentation and the code disagree, without a run of their own:

* `docs/PROTOCOL.md:84` counts CAS_INFO in the length of a packet; `finalize()`
  (`packet.py:217`) and `_send_and_receive` (`connection.py:400`) do not.
* `docs/PROTOCOL.md:435` gives the byte of `add_byte` a length of one byte; the code
  writes four (`packet.py:88`).
* "Close the connection and all tracked cursors" (`connection.py:162`,
  `docs/API_REFERENCE.md:245`): a `close()` that finds the connection disconnected
  by an `OSError` returns before its loop (`connection.py:163`,
  `aio/connection.py:206`), and the cursors stay open and tracked. `CloseReleases`
  claims of such a `close()` only that there is no socket and no session.
* "Return the last generated identifier for an INSERT statement" (`cursor.py:70`):
  `executemany_batch()` of INSERTs neither asks for an identifier nor clears
  `_lastrowid` (`cursor.py:257`, `aio/cursor.py:211`), which stays that of an
  earlier INSERT. `LastRowIdOwned` is about `execute()`.

Seen while modelling: with two tasks `LastRowIdOwned`
fails, as the lock is free between an INSERT and its GetLastInsertId;
`ping(reconnect=True)` returns False on a negative CHECK_CAS answer with no
attempt to reconnect (`connection.py:292`, against `docs/API_REFERENCE.md:341`);
a response that cannot be decoded leaves a synchronous request as `struct.error`,
`IndexError`, `ValueError` or `UnicodeDecodeError`, none of which is a DB-API
exception, with the connection up (`connection.py:409`);
after a reconnect the `AUTO_COMMIT` parameter is not set again; a `fetchmany()`
that raises has consumed the buffered rows it was about to return; an asyncio
`ping()` that failed may drop the live session another task opened while it
waited for the lock; a cursor created while an asyncio `close()` waits stays open;
an asyncio task cancelled in `_close_streams` leaves `_connected` set without a
stream, which `ping()` repairs and `connect()` does not.

## 7. Plan

Done: the CAS session; the synchronous driver; the asyncio driver with its lock
and cancellation; the handshake and its refinement of `Transport`; statements,
packets and responses; proofs of every safety property of the drivers and of the
handshake that a passing run checks, the refinements included.

The two abstract specifications, `Transport` and `ResultSets`, are implemented as
planned. What is left, and what stands in its way:

| left | why |
|---|---|
| what of `Kept` survives a cancellation in the asyncio driver | that all of it does is false (`async_cancel`); `StraysBounded` says how many messages are left behind, and that acknowledged work is kept up to the first of them is not stated anywhere in the repository |
| tasks that insert, or fetch from one cursor, at the same time | they get in each other's way in this code (section 6); the theorems assume `TakeTurns` |
| texts and bytes of every length | induction over data, out of the prover's reach |
