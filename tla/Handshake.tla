------------------------------ MODULE Handshake ------------------------------
(***************************************************************************)
(* connect() and the closing of a connection, step by step, in both        *)
(* drivers (src/pycubrid/connection.py, src/pycubrid/aio/connection.py,    *)
(* and the two packets of the handshake in protocol.py).                   *)
(*                                                                         *)
(* connect() opens a socket to the broker, sends CUBRK (CUBRS with TLS)    *)
(* and reads a status: negative, the broker refuses; zero, the socket      *)
(* stays; positive, it is the port of a CAS, to which a second socket is   *)
(* opened.  The socket that is left is wrapped in TLS and carries          *)
(* OPEN_DATABASE, whose reply opens the session.  Every step may fail, the *)
(* peer may fall silent, and a task of the asyncio driver may be cancelled *)
(* at every await, those of the finally clauses included.                  *)
(*                                                                         *)
(* One call runs at a time: the thread of the connection, or the task that *)
(* holds its lock.  cfg says which driver, and with which options.         *)
(***************************************************************************)
EXTENDS Naturals, Sequences, FiniteSets

CONSTANTS
  None,        \* no socket
  MaxSockets,  \* bound: the sockets the client opens
  MaxCancels   \* bound: the cancellations of the task

Sockets == 1..MaxSockets

ASSUME BoundsAssumption == MaxSockets \in Nat /\ MaxCancels \in Nat
ASSUME NoneAssumption == None \notin Nat

VARIABLES
  cfg,        \* the driver and its options
  connected,  \* _connected
  sock,       \* _socket, or the socket of _writer
  hs,         \* handshake_socket, hs_writer: the local of connect()
  open,       \* the sockets the client has not closed
  made,       \* how many sockets it has opened
  wire,       \* wire[s]: history, the messages sent on s
  served,     \* the open sockets with a session at the server
  pc,         \* where the call under way stands
  op,         \* the call under way
  exc,        \* the exception under way
  ret,        \* how the last call ended
  cancels     \* how many cancellations there were

clientVars == <<connected, sock, hs, open, made, wire>>
callVars == <<pc, op, exc, ret>>
vars == <<cfg, clientVars, served, callVars, cancels>>

Configurations == [driver: {"sync", "async"}, ssl: BOOLEAN, timeout: BOOLEAN]

IsAsync == cfg.driver = "async"

Messages == {"magic", "tls", "open_database"}

\* The public calls, of which "probe" is ping(reconnect=False), and those
\* that are in the reconnect of their request.
Ops == {"connect", "ping", "probe", "request", "close",
        "check", "reconnect", "closing"}
Reconnecting == {"check", "reconnect", "closing"}
Proper(o) == CASE o \in {"check", "probe"} -> "ping"
               [] o = "reconnect" -> "request"
               [] o = "closing" -> "close"
               [] OTHER -> o

\* What a response that cannot be decoded raises in Python; "ValueError"
\* stands for all but struct.error.
DecodingErrors == {"struct.error", "ValueError"}
Exceptions == {"none", "OperationalError", "DatabaseError",
               "InterfaceError", "CancelledError"}

(***************************************************************************)
(* pc: "idle", no call; "exchange": the call's request is sent, its reply  *)
(* awaited; "tcp", "redirect": opening a socket to the broker, to the CAS; *)
(* "status": waiting for the broker; "hs_closed": asyncio, for the         *)
(* broker's socket to close; "tls": in the TLS handshake; "database":      *)
(* waiting for the reply to OPEN_DATABASE; "finally": leaving connect()    *)
(* with exc; "finally_hs", "finally_streams", "drop": asyncio, in the      *)
(* wait_closed() of the finally, of _close_streams() in it, and of         *)
(* _close_streams() called to tear the connection down.                    *)
(***************************************************************************)
ConnectPcs == {"tcp", "status", "hs_closed", "redirect", "tls", "database"}
FinallyPcs == {"finally", "finally_hs", "finally_streams"}
Pcs == {"idle", "exchange", "drop"} \cup ConnectPcs \cup FinallyPcs

\* The public call o begins at l.
Begin(o, l) == pc' = l /\ op' = o /\ exc' = "none" /\ ret' = "none"

\* The public call o is over: it returned, answered or raised r.
End(o, r) == pc' = "idle" /\ op' = o /\ exc' = "none" /\ ret' = r

Goto(l) == pc' = l /\ UNCHANGED <<op, exc, ret>>

\* connect() is left with the exception e.
Raise(e) == pc' = "finally" /\ exc' = e /\ UNCHANGED <<op, ret>>

Close(S) == open' = open \ S /\ served' = served \ S

Init ==
  /\ cfg \in Configurations
  /\ connected = FALSE
  /\ sock = None /\ hs = None
  /\ open = {} /\ made = 0
  /\ wire = [s \in Sockets |-> <<>>]
  /\ served = {}
  /\ pc = "idle" /\ op = "connect" /\ exc = "none" /\ ret = "none"
  /\ cancels = 0

(***************************************************************************)
(* Opening a socket, sending and closing.                                  *)
(***************************************************************************)
New == made + 1

Dial(peer, messages) ==
  /\ open' = open \cup {New}
  /\ made' = New
  /\ wire' = [wire EXCEPT ![New] = <<peer>> \o messages]

Send(messages) == wire' = [wire EXCEPT ![sock] = @ \o messages]

\* ClientInfoExchangePacket; a socket that needs no TLS goes on at once.
ClientInfo == <<"magic">>
OpenDatabase == IF cfg.ssl THEN <<>> ELSE <<"open_database">>
AfterSocket == IF cfg.ssl THEN "tls" ELSE "database"

(***************************************************************************)
(* connect(): the socket to the broker, the status it answers with.        *)
(***************************************************************************)
BrokerDialled ==
  /\ pc = "tcp"
  /\ Dial("broker", ClientInfo)
  /\ hs' = New
  /\ Goto("status")
  /\ UNCHANGED <<cfg, connected, sock, served, cancels>>

DialFails ==
  /\ pc \in {"tcp", "redirect"}
  /\ Raise("OperationalError")
  /\ UNCHANGED <<cfg, clientVars, served, cancels>>

\* Status zero: the socket is the connection's; asyncio keeps hs_writer too.
BrokerKeeps ==
  /\ pc = "status"
  /\ sock' = hs
  /\ hs' = IF IsAsync THEN hs ELSE None
  /\ wire' = [wire EXCEPT ![hs] = @ \o OpenDatabase]
  /\ Goto(AfterSocket)
  /\ UNCHANGED <<cfg, connected, open, made, served, cancels>>

\* Seeded fault: the broker's socket is forgotten without being closed.
BrokerRedirectsKeepingSocket ==
  /\ pc = "status"
  /\ hs' = None
  /\ Goto("redirect")
  /\ UNCHANGED <<cfg, connected, sock, open, made, wire, served, cancels>>

\* Positive status: the broker's socket is closed, which asyncio awaits.
BrokerRedirects ==
  /\ pc = "status"
  /\ Close({hs})
  /\ hs' = IF IsAsync THEN hs ELSE None
  /\ Goto(IF IsAsync THEN "hs_closed" ELSE "redirect")
  /\ UNCHANGED <<cfg, connected, sock, made, wire, cancels>>

HsClosed ==
  /\ pc = "hs_closed"
  /\ Goto("redirect")
  /\ UNCHANGED <<cfg, clientVars, served, cancels>>

\* Seeded fault: the CAS is greeted like the broker.
CasDialledWithMagic ==
  /\ pc = "redirect"
  /\ Dial("CAS", ClientInfo \o OpenDatabase)
  /\ sock' = New
  /\ Goto(AfterSocket)
  /\ UNCHANGED <<cfg, connected, hs, served, cancels>>

CasDialled ==
  /\ pc = "redirect"
  /\ Dial("CAS", OpenDatabase)
  /\ sock' = New
  /\ Goto(AfterSocket)
  /\ UNCHANGED <<cfg, connected, hs, served, cancels>>

(***************************************************************************)
(* The TLS upgrade.  One that fails closes (asyncio: aborts) the socket    *)
(* before the exception leaves it.                                         *)
(***************************************************************************)
TlsUp ==
  /\ pc = "tls"
  /\ Send(<<"tls", "open_database">>)
  /\ Goto("database")
  /\ UNCHANGED <<cfg, connected, sock, hs, open, made, served, cancels>>

AbortTls(e) ==
  /\ pc = "tls"
  /\ Close({sock})
  /\ Raise(e)
  /\ UNCHANGED <<cfg, connected, sock, hs, made, wire>>

TlsFails == AbortTls("OperationalError") /\ UNCHANGED cancels

(***************************************************************************)
(* The peer at the other end (external): the CAS opens the session; a      *)
(* session dies with its process or its link.                              *)
(***************************************************************************)
CasServes ==
  /\ pc = "database"
  /\ sock \notin served
  /\ served' = served \cup {sock}
  /\ UNCHANGED <<cfg, clientVars, callVars, cancels>>

SessionDies ==
  /\ \E s \in served : served' = served \ {s}
  /\ UNCHANGED <<cfg, clientVars, callVars, cancels>>

(***************************************************************************)
(* The reply to OPEN_DATABASE.                                             *)
(***************************************************************************)
Opened ==
  /\ pc = "database"
  /\ sock \in served
  /\ connected' = TRUE
  /\ hs' = None
  /\ IF op \in Reconnecting THEN Begin(Proper(op), "exchange")
     ELSE End(op, IF op = "ping" THEN "true" ELSE "returned")
  /\ UNCHANGED <<cfg, sock, open, made, wire, served, cancels>>

\* A negative response code: OpenDatabasePacket.parse raises DatabaseError.
Refused ==
  /\ pc = "database"
  /\ sock \notin served
  /\ Raise("DatabaseError")
  /\ UNCHANGED <<cfg, clientVars, served, cancels>>

\* Seeded fault: a reply that cannot be decoded leaves connect() as it is.
ReadFailsUndecoded ==
  /\ pc \in {"status", "database"}
  /\ \E e \in {"OperationalError", "struct.error"} : Raise(e)
  /\ UNCHANGED <<cfg, clientVars, served, cancels>>

\* A negative status, the end of the stream, an OSError, a reply that cannot
\* be decoded: each becomes OperationalError.
ReadFails ==
  /\ pc \in {"status", "database"}
  /\ Raise("OperationalError")
  /\ UNCHANGED <<cfg, clientVars, served, cancels>>

(***************************************************************************)
(* The peer is silent.  The synchronous driver gives each read the         *)
(* read_timeout (_create_socket); asyncio gives it to the whole handshake, *)
(* and its TLS upgrade has a limit of its own.                             *)
(***************************************************************************)
\* Seeded fault: the socket to the CAS does not get the read_timeout.
HasTimeoutBeforeTls == cfg.timeout /\ pc = "status"

HasTimeout ==
  \/ cfg.timeout /\ pc \in {"status", "database", "tls"}
  \/ cfg.timeout /\ IsAsync /\ pc \in {"hs_closed", "redirect"}
  \/ IsAsync /\ pc = "tls"

ConnectTimeout ==
  /\ HasTimeout
  /\ \/ AbortTls("OperationalError")
     \/ pc # "tls" /\ Raise("OperationalError") /\ UNCHANGED <<cfg, clientVars, served>>
  /\ UNCHANGED cancels

(***************************************************************************)
(* The finally of connect(): both sockets are closed, in asyncio with an   *)
(* await after each.  ping() answers False when it could not connect, but  *)
(* tries again when it was its request that had to reconnect; close()      *)
(* swallows what its request raised.                                       *)
(***************************************************************************)
ConnectEnds ==
  CASE op = "check" /\ exc = "OperationalError" -> Begin("ping", "tcp")
    [] op = "ping" /\ exc = "OperationalError" -> End("ping", "false")
    [] op = "closing" /\ exc # "CancelledError" -> End("close", "returned")
    [] OTHER -> End(Proper(op), exc)

FinallySync ==
  /\ pc = "finally" /\ ~IsAsync
  /\ Close({hs, sock})
  /\ hs' = None /\ sock' = None
  /\ ConnectEnds
  /\ UNCHANGED <<cfg, connected, made, wire, cancels>>

\* hs_writer is closed, unless it is the connection's own by now.
FinallyHs ==
  /\ pc = "finally" /\ IsAsync
  /\ hs \notin {None, sock}
  /\ Close({hs})
  /\ hs' = None
  /\ Goto(IF hs \in open THEN "finally_hs" ELSE "finally")
  /\ UNCHANGED <<cfg, connected, sock, made, wire, cancels>>

FinallyHsClosed ==
  /\ pc = "finally_hs"
  /\ Goto("finally")
  /\ UNCHANGED <<cfg, clientVars, served, cancels>>

\* Seeded fault: the streams of a failed handshake are left to the next try.
FinallyStreamsKept ==
  /\ pc = "finally" /\ IsAsync
  /\ hs \in {None, sock}
  /\ hs' = None
  /\ ConnectEnds
  /\ UNCHANGED <<cfg, connected, sock, open, made, wire, served, cancels>>

\* _close_streams in the finally.
FinallyStreams ==
  /\ pc = "finally" /\ IsAsync
  /\ hs \in {None, sock}
  /\ hs' = None
  /\ Close({sock})
  /\ IF sock = None THEN ConnectEnds ELSE Goto("finally_streams")
  /\ UNCHANGED <<cfg, connected, sock, made, wire, cancels>>

FinallyStreamsClosed ==
  /\ pc = "finally_streams"
  /\ sock' = None
  /\ ConnectEnds
  /\ UNCHANGED <<cfg, connected, hs, open, made, wire, served, cancels>>

(***************************************************************************)
(* Tearing the connection down for the call o, which goes on with a        *)
(* handshake or ends: _drop_connection, _safe_close_socket, _close_streams *)
(* followed by _connected = False.  asyncio awaits the stream in between.  *)
(***************************************************************************)
\* e is the exception that close() was left with, if any.
AfterDrop(o, e) ==
  CASE o = "close" -> End(o, IF e = "none" THEN "returned" ELSE e)
    [] o = "request" -> End(o, "OperationalError")
    [] o = "probe" -> End("ping", "false")
    [] OTHER -> Begin(o, "tcp")

Drop(o, e) ==
  /\ Close({sock})
  /\ IF IsAsync /\ sock # None
     THEN /\ pc' = "drop" /\ op' = o /\ exc' = e /\ ret' = "none"
          /\ UNCHANGED <<connected, sock>>
     ELSE connected' = FALSE /\ sock' = None /\ AfterDrop(o, e)
  /\ UNCHANGED <<cfg, hs, made, wire>>

TearDown(o) == Drop(o, "none") /\ UNCHANGED cancels

\* Seeded fault: the flag is not cleared after the streams are closed.
DroppedStillConnected ==
  /\ pc = "drop"
  /\ sock' = None
  /\ AfterDrop(op, exc)
  /\ UNCHANGED <<cfg, connected, hs, open, made, wire, served, cancels>>

Dropped ==
  /\ pc = "drop"
  /\ sock' = None
  /\ connected' = FALSE
  /\ AfterDrop(op, exc)
  /\ UNCHANGED <<cfg, hs, open, made, wire, served, cancels>>

(***************************************************************************)
(* A task is cancelled where it awaits.  In connect() the finally runs; in *)
(* a wait_closed() of the finally or of _close_streams the exception       *)
(* leaves at once: what stood after the await is skipped.  A close() that  *)
(* is cancelled in its request goes through its finally, and then raises.  *)
(***************************************************************************)
MayBeCancelled ==
  /\ IsAsync /\ cancels < MaxCancels
  /\ cancels' = cancels + 1

ConnectCancelled ==
  /\ pc \in ConnectPcs
  /\ MayBeCancelled
  /\ \/ AbortTls("CancelledError")
     \/ pc # "tls" /\ Raise("CancelledError") /\ UNCHANGED <<cfg, clientVars, served>>

ExchangeCancelled ==
  /\ pc = "exchange" /\ sock # None
  /\ MayBeCancelled
  /\ IF op = "close" THEN Drop("close", "CancelledError")
     ELSE End(Proper(op), "CancelledError") /\ UNCHANGED <<cfg, clientVars, served>>

FinallyCancelled ==
  /\ pc \in {"finally_hs", "finally_streams"}
  /\ MayBeCancelled
  /\ sock' = IF pc = "finally_streams" THEN None ELSE sock
  /\ End(Proper(op), "CancelledError")
  /\ UNCHANGED <<cfg, connected, hs, open, made, wire, served>>

DropCancelled ==
  /\ pc = "drop"
  /\ MayBeCancelled
  /\ sock' = None
  /\ End(Proper(op), "CancelledError")
  /\ UNCHANGED <<cfg, connected, hs, open, made, wire, served>>

(***************************************************************************)
(* The public calls.  A request first reconnects if the CAS was released   *)
(* (_check_reconnect, which wants a socket); asyncio's close() does not.   *)
(***************************************************************************)
Unchanged == UNCHANGED <<cfg, clientVars, served, cancels>>

\* There is room for n more handshakes below the bound.
Room(n) == made + 2 * n <= MaxSockets

ConnectCall ==
  /\ pc = "idle"
  /\ IF connected THEN End("connect", "returned")
     ELSE Room(1) /\ Begin("connect", "tcp")
  /\ Unchanged

PingCall ==
  /\ pc = "idle"
  /\ \/ Room(2) /\ Begin("ping", IF connected THEN "exchange" ELSE "tcp") /\ Unchanged
     \/ connected /\ sock # None /\ Room(2) /\ TearDown("check")
     \/ connected /\ Begin("probe", "exchange") /\ Unchanged
     \/ ~connected /\ End("ping", "false") /\ Unchanged

\* Any other request; _ensure_connected refuses it when disconnected.
RequestCall ==
  /\ pc = "idle"
  /\ \/ ~connected /\ End("request", "InterfaceError") /\ Unchanged
     \/ connected /\ Begin("request", "exchange") /\ Unchanged
     \/ connected /\ sock # None /\ Room(1) /\ TearDown("reconnect")

CloseCall ==
  /\ pc = "idle"
  /\ \/ ~connected /\ End("close", "returned") /\ Unchanged
     \/ connected /\ Begin("close", "exchange") /\ Unchanged
     \/ connected /\ ~IsAsync /\ Room(1) /\ TearDown("closing")

(***************************************************************************)
(* The request of a call.                                                  *)
(***************************************************************************)
Pings == {"ping", "probe"}

\* A negative response is the DatabaseError of its packet's parse(), or the
\* False of ping(): the connection is kept.
Answered ==
  /\ pc = "exchange"
  /\ sock \in served
  /\ IF op = "close" THEN TearDown("close")
     ELSE /\ \E r \in IF op \in Pings THEN {"true", "false"}
                     ELSE {"returned", "DatabaseError"} :
               End(Proper(op), r)
          /\ Unchanged

\* A response that cannot be decoded.  _send_and_receive catches OSError only
\* and keeps the connection; ping() turns a struct.error into a failure (it
\* GivesUp, a probe answers False), and close() any exception.  asyncio makes
\* an OperationalError of what parse() raises (it GivesUp), not of a length
\* that is negative.
Undecoded ==
  /\ pc = "exchange" /\ op # "close"
  /\ sock # None
  /\ \E e \in IF IsAsync THEN {"ValueError"} ELSE DecodingErrors :
       /\ ~(e = "struct.error" /\ op = "ping")
       /\ End(Proper(op), IF e = "struct.error" /\ op = "probe" THEN "false" ELSE e)
  /\ Unchanged

\* Seeded fault: a connection without streams is taken to be alive.
NoSocketAnswers ==
  /\ pc = "exchange"
  /\ sock = None
  /\ IF op = "close" THEN TearDown("close")
     ELSE /\ End(Proper(op), IF op \in Pings THEN "true" ELSE "InterfaceError")
          /\ Unchanged

\* _connected is set but there is no socket: InterfaceError.
NoSocket ==
  /\ pc = "exchange"
  /\ sock = None
  /\ CASE op = "request" -> End(op, "InterfaceError") /\ Unchanged
       [] op = "probe" -> End("ping", "false") /\ Unchanged
       [] OTHER -> TearDown(op)

\* OSError or read_timeout: the socket is given up; ping() and close() tear
\* the connection down whatever their request raised.
GivesUp == pc = "exchange" /\ sock # None /\ TearDown(op)

\* The end of the stream: OperationalError, and the socket is kept.
EndOfStream ==
  /\ pc = "exchange" /\ op \in {"request", "probe"}
  /\ sock # None
  /\ End(Proper(op), IF op = "request" THEN "OperationalError" ELSE "false")
  /\ Unchanged

(***************************************************************************)
(* The specification.                                                      *)
(***************************************************************************)
Invocation == ConnectCall \/ PingCall \/ RequestCall \/ CloseCall

\* What the driver, its event loop and the local TCP stack do by themselves.
DriverStep ==
  \/ BrokerDialled \/ CasDialled \/ DialFails
  \/ HsClosed \/ ConnectTimeout
  \/ NoSocket \/ (cfg.timeout /\ GivesUp)
  \/ FinallySync
  \/ FinallyHs \/ FinallyHsClosed \/ FinallyStreams \/ FinallyStreamsClosed
  \/ Dropped

\* What waits for the peer.
PeerStep ==
  \/ BrokerKeeps \/ BrokerRedirects
  \/ TlsUp \/ TlsFails
  \/ CasServes \/ SessionDies
  \/ Opened \/ Refused \/ ReadFails
  \/ Answered \/ Undecoded \/ GivesUp \/ EndOfStream

Cancellation ==
  \/ ConnectCancelled \/ ExchangeCancelled \/ FinallyCancelled \/ DropCancelled

Next == Invocation \/ DriverStep \/ PeerStep \/ Cancellation

Spec == Init /\ [][Next]_vars

(***************************************************************************)
(* The driver keeps running: the event loop turns, a TCP connection that   *)
(* is being opened is accepted or given up, a timeout that was set goes    *)
(* off.  Nothing is assumed of the peer.                                   *)
(***************************************************************************)
FairSpec == Spec /\ WF_vars(DriverStep)

(***************************************************************************)
(* Type invariant: among the rest, what leaves connect(), and the          *)
(* reconnect of any other call, is an exception of the DB-API or a         *)
(* cancellation, whatever the broker and the CAS reply (connect() catches  *)
(* what cannot be decoded).  The request of another call has no such       *)
(* promise: a response that cannot be decoded leaves it as it is.          *)
(***************************************************************************)
Maybe == Sockets \cup {None}

TypeOK ==
  /\ cfg \in Configurations
  /\ connected \in BOOLEAN
  /\ sock \in Maybe /\ hs \in Maybe
  /\ open \in SUBSET Sockets /\ served \in SUBSET Sockets
  /\ made \in 0..MaxSockets
  /\ wire \in [Sockets -> Seq(Messages \cup {"broker", "CAS"})]
  /\ pc \in Pcs /\ op \in Ops
  /\ exc \in Exceptions
  /\ ret \in Exceptions \cup {"returned", "true", "false"}
             \cup (IF op \in {"ping", "request"} THEN DecodingErrors ELSE {})
  /\ cancels \in 0..MaxCancels

(***************************************************************************)
(* No socket is lost: one that is open can be reached from _socket (or     *)
(* _writer) or from the local of connect(), and between calls only the     *)
(* socket of a live connection is open, however connect() was left.        *)
(***************************************************************************)
SocketsOwned ==
  /\ open \subseteq {sock, hs}
  /\ pc = "idle" => open = IF connected /\ sock # None THEN {sock} ELSE {}

(***************************************************************************)
(* At the server, too: a client has one session at most, and none that the *)
(* driver is not connected to, or about to be.                             *)
(***************************************************************************)
OneSession ==
  /\ served \subseteq {sock}
  /\ ~connected /\ served # {} => pc = "database" \/ pc \in FinallyPcs

(***************************************************************************)
(* A socket to the broker begins with the magic, one to a redirected CAS   *)
(* never has it; with TLS, OPEN_DATABASE follows the upgrade on the same   *)
(* socket, in both cases.                                                  *)
(***************************************************************************)
Tls == IF cfg.ssl THEN <<"tls">> ELSE <<>>

WireOrder ==
  \A s \in Sockets :
    \/ wire[s] \in {<<>>, <<"broker", "magic">>, <<"CAS">>}
    \/ wire[s] = <<"broker", "magic">> \o Tls \o <<"open_database">>
    \/ wire[s] = <<"CAS">> \o Tls \o <<"open_database">>

(***************************************************************************)
(* ping() answers True only of a connection that has a socket to talk on,  *)
(* even after a cancellation left _connected behind without one.           *)
(***************************************************************************)
PingTruthful ==
  pc = "idle" /\ op = "ping" /\ ret = "true" => connected /\ sock \in open

(***************************************************************************)
(* With a read_timeout a silent peer does not keep connect(), ping() or    *)
(* close() from ending; and it never keeps the asyncio driver in the TLS   *)
(* handshake ("a stalled handshake cannot block the event loop").          *)
(***************************************************************************)
SilenceBounded ==
  /\ (cfg.timeout /\ pc # "idle") ~> (pc = "idle")
  /\ (IsAsync /\ pc = "tls") ~> (pc # "tls")

(***************************************************************************)
(* The one-step handshake of Connection.tla and AsyncConnection.tla.       *)
(***************************************************************************)
HasSocket == connected /\ sock \in open
IsUp == connected /\ sock \in served

T == INSTANCE Transport WITH connected <- connected, socket <- HasSocket,
                             up <- IsUp

Implements == T!Spec
=============================================================================
