--------------------------- MODULE HandshakeProofs ---------------------------
(***************************************************************************)
(* The handshake keeps track of its sockets, and is to the rest of the     *)
(* driver the one step that Transport.tla says it is.                      *)
(***************************************************************************)
EXTENDS Handshake, TLAPS

(***************************************************************************)
(* Which sockets are open where: the conjuncts of the inductive invariant. *)
(***************************************************************************)
\* Between calls, and while a request is under way.
Settled ==
  /\ hs = None
  /\ ~connected => sock = None
  /\ open = IF connected /\ sock # None THEN {sock} ELSE {}

\* In connect(), up to its finally.
InConnect ==
  /\ pc = "tcp" => sock = None /\ hs = None /\ open = {}
  /\ pc = "status" => sock = None /\ hs # None /\ open = {hs}
  /\ pc \in {"hs_closed", "redirect"} => sock = None /\ open = {}
  /\ pc \in {"tls", "database"} => sock # None /\ open = {sock}
  /\ pc = "tls" => served = {}

\* In the finally.  Asyncio closes hs_writer only while it is not _writer's.
InFinally ==
  /\ pc = "finally" =>
       /\ open \subseteq {sock, hs}
       /\ hs \in open /\ hs # sock => sock = None
  /\ pc = "finally_hs" => sock = None /\ hs = None /\ open = {}
  /\ pc = "finally_streams" => hs = None /\ open = {}

Ownership ==
  /\ connected \in BOOLEAN /\ made \in Nat /\ pc \in Pcs /\ exc \in Exceptions
  /\ None \notin open /\ served \subseteq open \cap {sock}
  /\ pc \in {"idle", "exchange"} => Settled
  /\ pc \in {"exchange", "drop"} => connected
  /\ pc \in ConnectPcs \cup FinallyPcs => ~connected
  /\ pc = "drop" => hs = None /\ open = {}
  /\ pc = "exchange" => op \in {"ping", "probe", "request", "close"}
  /\ InConnect
  /\ InFinally

Inv == Ownership /\ PingTruthful

\* Seldom more than this has to be expanded.
USE NoneAssumption DEF Inv, Ownership, Settled, InConnect, InFinally, PingTruthful,
  Pcs, ConnectPcs, FinallyPcs, Exceptions

(***************************************************************************)
(* The initial state, and the ways a call begins and ends.                 *)
(***************************************************************************)
LEMMA InitInv == Init => Inv
<1> SUFFICES ASSUME Init PROVE Inv
  OBVIOUS
<1>1. connected = FALSE /\ sock = None /\ hs = None /\ open = {} /\ served = {} /\ made = 0
  BY DEF Init
<1>2. pc = "idle" /\ exc = "none" /\ ret = "none"
  BY DEF Init
<1>3. Settled
  BY <1>1
<1> QED
  BY <1>1, <1>2, <1>3

\* connect() is over, with nothing open: what follows is sound.
LEMMA ConnectEndsInv ==
  ASSUME Inv, ConnectEnds, pc \in FinallyPcs,
         ~connected, connected' = connected, sock' = None, hs' = None, open' = {},
         served' = {}, made' = made
  PROVE  Inv'
BY DEF ConnectEnds, Begin, End, Proper

\* A connection is torn down: its socket is closed first of all.
LEMMA TearDownInv ==
  ASSUME Inv, NEW o \in {"close", "request", "ping", "probe", "check", "reconnect", "closing"},
         NEW e \in {"none", "CancelledError"}, Drop(o, e), connected, Settled
  PROVE  Inv'
BY DEF Drop, Close, AfterDrop, Begin, End

(***************************************************************************)
(* connect().                                                              *)
(***************************************************************************)
LEMMA ConnectStep ==
  ASSUME Inv,
         \/ BrokerDialled \/ DialFails \/ BrokerKeeps \/ BrokerRedirects \/ HsClosed
         \/ CasDialled \/ TlsUp \/ TlsFails \/ CasServes \/ SessionDies
         \/ Opened \/ Refused \/ ReadFails \/ ConnectTimeout \/ ConnectCancelled
  PROVE  Inv'
<1>1. CASE BrokerDialled
  BY <1>1 DEF BrokerDialled, Dial, New, Goto
<1>2. CASE DialFails
  BY <1>2 DEF DialFails, Raise, clientVars
<1>3. CASE BrokerKeeps
  BY <1>3 DEF BrokerKeeps, AfterSocket, Goto
<1>4. CASE BrokerRedirects
  BY <1>4 DEF BrokerRedirects, Close, Goto
<1>5. CASE HsClosed
  BY <1>5 DEF HsClosed, Goto, clientVars
<1>6. CASE CasDialled
  BY <1>6 DEF CasDialled, Dial, New, AfterSocket, Goto
<1>7. CASE TlsUp
  BY <1>7 DEF TlsUp, Send, Goto
<1>8. ASSUME NEW e \in Exceptions, AbortTls(e) PROVE Inv'
  BY <1>8 DEF AbortTls, Close, Raise
<1>9. CASE TlsFails
  BY <1>8, <1>9 DEF TlsFails
<1>10. CASE CasServes
  BY <1>10 DEF CasServes, clientVars, callVars
<1>11. CASE SessionDies
  BY <1>11 DEF SessionDies, clientVars, callVars
<1>12. CASE Opened
  BY <1>12 DEF Opened, Begin, End, Reconnecting, Proper
<1>13. CASE Refused
  BY <1>13 DEF Refused, Raise, clientVars
<1>14. CASE ReadFails
  BY <1>14 DEF ReadFails, Raise, clientVars
<1>15. CASE ConnectTimeout
  <2>1. CASE AbortTls("OperationalError")
    BY <1>8, <2>1
  <2>2. CASE pc # "tls" /\ Raise("OperationalError") /\ UNCHANGED <<cfg, clientVars, served>>
    BY <1>15, <2>2 DEF ConnectTimeout, HasTimeout, Raise, clientVars
  <2> QED
    BY <1>15, <2>1, <2>2 DEF ConnectTimeout
<1>16. CASE ConnectCancelled
  <2>1. CASE AbortTls("CancelledError")
    BY <1>8, <2>1
  <2>2. CASE pc # "tls" /\ Raise("CancelledError") /\ UNCHANGED <<cfg, clientVars, served>>
    BY <1>16, <2>2 DEF ConnectCancelled, Raise, clientVars
  <2> QED
    BY <1>16, <2>1, <2>2 DEF ConnectCancelled
<1> QED
  BY <1>1, <1>2, <1>3, <1>4, <1>5, <1>6, <1>7, <1>9, <1>10, <1>11, <1>12, <1>13,
     <1>14, <1>15, <1>16

(***************************************************************************)
(* Its finally.                                                            *)
(***************************************************************************)
LEMMA FinallyStep ==
  ASSUME Inv,
         \/ FinallySync \/ FinallyHs \/ FinallyHsClosed
         \/ FinallyStreams \/ FinallyStreamsClosed \/ FinallyCancelled
  PROVE  Inv'
<1>1. CASE FinallySync
  <2>1. open' = {} /\ served' = {}
    BY <1>1 DEF FinallySync, Close
  <2> QED
    BY <1>1, <2>1, ConnectEndsInv DEF FinallySync
<1>2. CASE FinallyHs
  <2>1. open' = open \ {hs} /\ served' = served \ {hs} /\ hs' = None
    BY <1>2 DEF FinallyHs, Close
  <2>2. CASE hs \in open
    <3>1. sock = None /\ open' = {}
      BY <1>2, <2>1, <2>2 DEF FinallyHs
    <3> QED
      BY <1>2, <2>1, <2>2, <3>1 DEF FinallyHs, Goto
  <2>3. CASE hs \notin open
    BY <1>2, <2>1, <2>3 DEF FinallyHs, Goto
  <2> QED
    BY <2>2, <2>3
<1>3. CASE FinallyHsClosed
  BY <1>3 DEF FinallyHsClosed, Goto, clientVars
<1>4. CASE FinallyStreams
  <2>1. open' = {} /\ served' = {}
    BY <1>4 DEF FinallyStreams, Close
  <2>2. CASE sock = None
    BY <1>4, <2>1, <2>2, ConnectEndsInv DEF FinallyStreams
  <2>3. CASE sock # None
    BY <1>4, <2>1, <2>3 DEF FinallyStreams, Goto
  <2> QED
    BY <2>2, <2>3
<1>5. CASE FinallyStreamsClosed
  <2>1. served' = {}
    BY <1>5 DEF FinallyStreamsClosed
  <2> QED
    BY <1>5, <2>1, ConnectEndsInv DEF FinallyStreamsClosed
<1>6. CASE FinallyCancelled
  BY <1>6 DEF FinallyCancelled, End, Proper
<1> QED
  BY <1>1, <1>2, <1>3, <1>4, <1>5, <1>6

(***************************************************************************)
(* The calls and their requests.                                           *)
(***************************************************************************)
LEMMA CallStep ==
  ASSUME Inv,
         \/ ConnectCall \/ PingCall \/ RequestCall \/ CloseCall
         \/ Answered \/ Undecoded \/ NoSocket \/ GivesUp \/ EndOfStream
         \/ ExchangeCancelled
         \/ Dropped \/ DropCancelled
  PROVE  Inv'
<1>1. CASE ConnectCall
  BY <1>1 DEF ConnectCall, Begin, End, Unchanged, clientVars
<1>2. CASE PingCall
  <2>1. CASE Begin("ping", IF connected THEN "exchange" ELSE "tcp") /\ Unchanged
    BY <1>2, <2>1 DEF PingCall, Begin, Unchanged, clientVars
  <2>2. CASE connected /\ TearDown("check")
    BY <1>2, <2>2, TearDownInv DEF PingCall, TearDown
  <2>3. CASE \/ connected /\ Begin("probe", "exchange") /\ Unchanged
             \/ ~connected /\ End("ping", "false") /\ Unchanged
    BY <1>2, <2>3 DEF PingCall, Begin, End, Unchanged, clientVars
  <2> QED
    BY <1>2, <2>1, <2>2, <2>3 DEF PingCall
<1>3. CASE RequestCall
  <2>1. CASE connected /\ TearDown("reconnect")
    BY <1>3, <2>1, TearDownInv DEF RequestCall, TearDown
  <2>2. CASE ~(connected /\ TearDown("reconnect"))
    BY <1>3, <2>2 DEF RequestCall, Begin, End, Unchanged, clientVars
  <2> QED
    BY <2>1, <2>2
<1>4. CASE CloseCall
  <2>1. CASE connected /\ TearDown("closing")
    BY <1>4, <2>1, TearDownInv DEF CloseCall, TearDown
  <2>2. CASE ~(connected /\ TearDown("closing"))
    BY <1>4, <2>2 DEF CloseCall, Begin, End, Unchanged, clientVars
  <2> QED
    BY <2>1, <2>2
<1>5. CASE Answered
  <2>1. CASE TearDown("close")
    BY <1>5, <2>1, TearDownInv DEF Answered, TearDown
  <2>2. CASE op # "close"
    BY <1>5, <2>2 DEF Answered, Pings, Proper, End, Unchanged, clientVars
  <2> QED
    BY <1>5, <2>1, <2>2 DEF Answered
<1>6. CASE NoSocket
  <2>1. CASE op \in {"request", "probe"}
    BY <1>6, <2>1 DEF NoSocket, End, Unchanged, clientVars
  <2>2. CASE op \in {"ping", "close"}
    BY <1>6, <2>2, TearDownInv DEF NoSocket, TearDown
  <2> QED
    BY <1>6, <2>1, <2>2 DEF NoSocket
<1>7. CASE GivesUp
  BY <1>7, TearDownInv DEF GivesUp, TearDown
<1>8. CASE EndOfStream
  BY <1>8 DEF EndOfStream, Proper, End, Unchanged, clientVars
<1>12. CASE Undecoded
  BY <1>12 DEF Undecoded, Proper, End, DecodingErrors, Unchanged, clientVars
<1>9. CASE ExchangeCancelled
  <2>1. CASE Drop("close", "CancelledError")
    BY <1>9, <2>1, TearDownInv DEF ExchangeCancelled
  <2>2. CASE op # "close"
    BY <1>9, <2>2 DEF ExchangeCancelled, Proper, End, clientVars
  <2> QED
    BY <1>9, <2>1, <2>2 DEF ExchangeCancelled
<1>10. CASE Dropped
  BY <1>10 DEF Dropped, AfterDrop, Begin, End
<1>11. CASE DropCancelled
  BY <1>11 DEF DropCancelled, End, Proper
<1> QED
  BY <1>1, <1>2, <1>3, <1>4, <1>5, <1>6, <1>7, <1>8, <1>9, <1>10, <1>11,
     <1>12

(***************************************************************************)
(* Every step keeps the invariant.                                         *)
(***************************************************************************)
LEMMA StepInv == Inv /\ [Next]_vars => Inv'
<1> SUFFICES ASSUME Inv, [Next]_vars PROVE Inv'
  OBVIOUS
<1>1. CASE Next
  BY <1>1, ConnectStep, FinallyStep, CallStep
     DEF Next, Invocation, DriverStep, PeerStep, Cancellation
<1>2. CASE UNCHANGED vars
  BY <1>2 DEF vars, clientVars, callVars
<1> QED
  BY <1>1, <1>2

HIDE DEF Inv, Ownership, Settled, InConnect, InFinally, PingTruthful

\* And so it is in every behaviour.
LEMMA InvHolds == Spec => []Inv
BY InitInv, StepInv, PTL DEF Spec

(***************************************************************************)
(* No socket is lost, however connect() is left: an open one can be        *)
(* reached, and between calls only that of a live connection is open.      *)
(***************************************************************************)
THEOREM NoSocketLost == Spec => []SocketsOwned
<1>1. Inv => SocketsOwned
  BY DEF Inv, Ownership, Settled, InConnect, InFinally, SocketsOwned, Pcs, ConnectPcs, FinallyPcs
<1> QED
  BY <1>1, InvHolds, PTL

(***************************************************************************)
(* The client has one session at most, that of the socket it keeps.        *)
(***************************************************************************)
THEOREM NoSecondSession == Spec => []OneSession
<1>1. Inv => OneSession
  BY DEF Inv, Ownership, Settled, InConnect, InFinally, OneSession, Pcs, ConnectPcs, FinallyPcs
<1> QED
  BY <1>1, InvHolds, PTL

(***************************************************************************)
(* ping() never vouches for a connection that has no socket to talk on.    *)
(***************************************************************************)
THEOREM PingTellsTheTruth == Spec => []PingTruthful
<1>1. Inv => PingTruthful
  BY DEF Inv
<1> QED
  BY <1>1, InvHolds, PTL

(***************************************************************************)
(* The handshake implements the one step of Transport.tla: each of its     *)
(* steps is one of those, or changes nothing that the rest of the driver   *)
(* can see.                                                                *)
(***************************************************************************)
LEMMA Unseen ==
  ASSUME connected' = connected,
         ~connected \/ (sock' = sock /\ open' = open /\ served' = served)
  PROVE  UNCHANGED T!vars
BY DEF HasSocket, IsUp, T!vars

\* What is left of Inv for the rest of the driver.
LEMMA Outside ==
  ASSUME Inv
  PROVE  /\ connected \in BOOLEAN
         /\ served \subseteq open \cap {sock} /\ None \notin open
         /\ pc \in ConnectPcs \cup FinallyPcs => ~connected
         /\ pc \in {"exchange", "drop"} => connected
         /\ pc = "drop" => open = {}
         /\ pc \in {"idle", "exchange"} =>
              open = IF connected /\ sock # None THEN {sock} ELSE {}
BY DEF Inv, Ownership, Settled

\* Closing the socket is seen; without one, the clearing of the flag.
LEMMA DropSeen ==
  ASSUME Inv, NEW o, NEW e, Drop(o, e), connected, pc \in {"idle", "exchange"}
  PROVE  T!Next
<1>1. CASE sock = None
  <2>1. ~HasSocket /\ ~IsUp /\ ~HasSocket' /\ ~IsUp' /\ ~connected'
    BY <1>1, Outside DEF Drop, Close, HasSocket, IsUp
  <2> QED
    BY <2>1 DEF HasSocket, IsUp, T!Next, T!Disconnects
<1>2. CASE sock # None
  <2>1. HasSocket /\ ~HasSocket' /\ ~IsUp' /\ connected' \in BOOLEAN
    BY <1>2, Outside DEF Drop, Close, HasSocket, IsUp
  <2> QED
    BY <2>1 DEF T!Next, T!SocketCloses
<1> QED
  BY <1>1, <1>2

\* The handshake that succeeds is HandshakeOk.
LEMMA OpenedSeen == ASSUME Inv, Opened PROVE T!Next
<1>1. ~connected /\ connected' /\ HasSocket' /\ IsUp'
  BY Outside DEF Opened, HasSocket, IsUp, ConnectPcs
<1> QED
  BY <1>1 DEF HasSocket, T!Next, T!HandshakeOk

\* A session that dies is SessionLost.
LEMMA SessionDiesSeen == ASSUME Inv, SessionDies PROVE T!Next \/ UNCHANGED T!vars
<1>1. connected' = connected /\ sock' = sock /\ open' = open
  BY DEF SessionDies, clientVars
<1>2. PICK s \in served : served' = served \ {s}
  BY DEF SessionDies
<1>3. CASE connected
  BY <1>1, <1>2, <1>3, Outside DEF HasSocket, IsUp, T!Next, T!SessionLost
<1>4. CASE ~connected
  BY <1>1, <1>4, Unseen
<1> QED
  BY <1>3, <1>4

\* The flag is cleared behind the socket, or stays.
LEMMA DropEndsSeen ==
  ASSUME Inv, Dropped \/ DropCancelled
  PROVE  T!Next \/ UNCHANGED T!vars
<1>1. connected /\ ~HasSocket /\ ~IsUp /\ ~HasSocket' /\ ~IsUp'
  BY Outside DEF Dropped, DropCancelled, HasSocket, IsUp
<1>2. CASE Dropped
  BY <1>1, <1>2 DEF Dropped, HasSocket, IsUp, T!Next, T!Disconnects
<1>3. CASE DropCancelled
  BY <1>1, <1>3 DEF DropCancelled, HasSocket, IsUp, T!vars
<1> QED
  BY <1>2, <1>3

\* Every step is one of Transport.tla, or invisible there.
LEMMA Simulation == Inv /\ [Next]_vars => [T!Next]_(T!vars)
<1> SUFFICES ASSUME Inv, [Next]_vars PROVE T!Next \/ UNCHANGED T!vars
  OBVIOUS
<1>1. CASE ConnectCall \/ PingCall \/ RequestCall \/ CloseCall
  <2>1. CASE \E o \in Ops : Drop(o, "none") /\ connected /\ pc = "idle"
    BY <2>1, DropSeen
  <2>2. CASE ~\E o \in Ops : Drop(o, "none") /\ connected /\ pc = "idle"
    <3>1. Unchanged
      BY <1>1, <2>2
         DEF ConnectCall, PingCall, RequestCall, CloseCall, TearDown, Ops
    <3> QED
      BY <3>1, Unseen DEF Unchanged, clientVars
  <2> QED
    BY <2>1, <2>2
<1>2. CASE \/ Answered \/ Undecoded \/ NoSocket \/ GivesUp \/ EndOfStream
           \/ ExchangeCancelled
  <2> pc = "exchange" /\ connected
    BY <1>2, Outside DEF Answered, Undecoded, NoSocket, GivesUp, EndOfStream, ExchangeCancelled
  <2>1. CASE \E o, e : Drop(o, e)
    BY <2>1, DropSeen
  <2>2. CASE ~\E o, e : Drop(o, e)
    <3>1. UNCHANGED <<cfg, clientVars, served>>
      BY <1>2, <2>2 DEF Answered, Undecoded, NoSocket, GivesUp, EndOfStream, ExchangeCancelled,
                        TearDown, Unchanged
    <3> QED
      BY <3>1, Unseen DEF clientVars
  <2> QED
    BY <2>1, <2>2
<1>3. CASE \/ BrokerDialled \/ DialFails \/ BrokerKeeps \/ BrokerRedirects \/ HsClosed
           \/ CasDialled \/ TlsUp \/ TlsFails \/ CasServes \/ Refused \/ ReadFails
           \/ ConnectTimeout \/ ConnectCancelled
  <2>1. connected' = connected
    BY <1>3 DEF BrokerDialled, DialFails, BrokerKeeps, BrokerRedirects, HsClosed,
                CasDialled, TlsUp, TlsFails, CasServes, Refused, ReadFails,
                ConnectTimeout, ConnectCancelled, AbortTls, clientVars
  <2>2. pc \in ConnectPcs
    BY <1>3 DEF BrokerDialled, DialFails, BrokerKeeps, BrokerRedirects, HsClosed,
                CasDialled, TlsUp, TlsFails, CasServes, Refused, ReadFails,
                ConnectTimeout, HasTimeout, ConnectCancelled, AbortTls, ConnectPcs
  <2> QED
    BY <2>1, <2>2, Outside, Unseen
<1>4. CASE \/ FinallySync \/ FinallyHs \/ FinallyHsClosed
           \/ FinallyStreams \/ FinallyStreamsClosed \/ FinallyCancelled
  <2>1. connected' = connected /\ pc \in FinallyPcs
    BY <1>4 DEF FinallySync, FinallyHs, FinallyHsClosed, FinallyStreams,
                FinallyStreamsClosed, FinallyCancelled, clientVars, FinallyPcs
  <2> QED
    BY <2>1, Outside, Unseen
<1>5. CASE Opened
  BY <1>5, OpenedSeen
<1>6. CASE SessionDies
  BY <1>6, SessionDiesSeen
<1>7. CASE Dropped \/ DropCancelled
  BY <1>7, DropEndsSeen
<1>8. CASE UNCHANGED vars
  BY <1>8, Unseen DEF vars, clientVars
<1> QED
  BY <1>1, <1>2, <1>3, <1>4, <1>5, <1>6, <1>7, <1>8
     DEF Next, Invocation, DriverStep, PeerStep, Cancellation

\* connect() and the tearing down of a connection, step by step, implement the
\* one-step handshake of Transport.tla (_connect_locked, _close_streams).
THEOREM HandshakeIsOneStep == Spec => Implements
<1>1. Init => T!Init
  BY DEF Init, T!Init, HasSocket, IsUp
<1> QED
  BY <1>1, InvHolds, Simulation, PTL DEF Spec, Implements, T!Spec
=============================================================================
