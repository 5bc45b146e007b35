------------------------- MODULE HandshakeTypeProofs -------------------------
(***************************************************************************)
(* Type correctness of the handshake, and the order of its messages.  What *)
(* has to be argued for the types is that a socket is always there to be   *)
(* opened below the bound, ping()'s second try included, and that only the *)
(* driver's own exceptions leave connect().                                *)
(***************************************************************************)
EXTENDS Handshake, TLAPS

\* The sockets that remain to be opened if the request of ping() fails.
Again == IF op = "check" THEN 2 ELSE 0

Budget ==
  /\ pc = "tcp" => made + 2 + Again <= MaxSockets
  /\ pc = "drop" /\ op \notin {"close", "request", "probe"} => made + 2 + Again <= MaxSockets
  /\ pc \in {"status", "hs_closed", "redirect"} => made + 1 + Again <= MaxSockets
  /\ pc \in {"tls", "database"} \cup FinallyPcs => made + Again <= MaxSockets
  /\ pc = "exchange" /\ op = "ping" => made + 2 <= MaxSockets

\* The socket that the next message goes out on.
Current ==
  /\ pc = "status" => hs \in Sockets
  /\ pc \in {"tls", "database"} => sock \in Sockets
  /\ pc = "exchange" => op \in {"ping", "probe", "request", "close"}

TypeInv == TypeOK /\ Budget /\ Current

USE BoundsAssumption, NoneAssumption
  DEF TypeInv, TypeOK, Budget, Current, Again, Sockets, Maybe, Pcs, ConnectPcs, FinallyPcs,
      Ops, Exceptions, DecodingErrors

\* The types hold at first.
LEMMA InitType == Init => TypeInv
<1> SUFFICES ASSUME Init PROVE TypeInv
  OBVIOUS
<1>1. wire \in [Sockets -> Seq(Messages \cup {"broker", "CAS"})]
  BY DEF Init
<1>2. connected \in BOOLEAN /\ sock \in Maybe /\ hs \in Maybe
  BY DEF Init
<1>3. /\ open \in SUBSET Sockets /\ served \in SUBSET Sockets
      /\ made \in 0..MaxSockets /\ cancels \in 0..MaxCancels
  BY DEF Init
<1> QED
  BY <1>1, <1>2, <1>3 DEF Init

\* A message is added to those of a socket.
LEMMA WireType ==
  ASSUME TypeInv, NEW s \in Sockets, NEW m \in Seq(Messages \cup {"broker", "CAS"}),
         wire' = [wire EXCEPT ![s] = m] \/ wire' = [wire EXCEPT ![s] = @ \o m]
  PROVE  wire' \in [Sockets -> Seq(Messages \cup {"broker", "CAS"})]
<1> DEFINE Wire == Seq(Messages \cup {"broker", "CAS"})
<1>1. wire \in [Sockets -> Wire] /\ wire[s] \o m \in Wire
  OBVIOUS
<1> HIDE DEF Wire
<1>2. m \in Wire
  BY DEF Wire
<1>3. wire' \in [Sockets -> Wire]
  BY <1>1, <1>2
<1> QED
  BY <1>3 DEF Wire

\* A handshake that fails hands on its exception.
LEMMA ConnectEndsType ==
  ASSUME TypeInv, ConnectEnds, pc \in FinallyPcs,
         UNCHANGED <<cfg, connected, made, wire, cancels>>,
         sock' = None, hs' = None, open' \subseteq open, served' \subseteq served
  PROVE  TypeInv'
BY DEF ConnectEnds, Begin, End, Proper

\* A connection is torn down, on behalf of any call.
LEMMA DropType ==
  ASSUME TypeInv, NEW o \in {"close", "request", "ping", "probe", "check", "reconnect", "closing"},
         NEW e \in {"none", "CancelledError"}, Drop(o, e), cancels' \in 0..MaxCancels,
         o \in {"ping", "reconnect", "closing"} => made + 2 <= MaxSockets,
         o = "check" => made + 4 <= MaxSockets
  PROVE  TypeInv'
<1>1. CASE IsAsync /\ sock # None
  BY <1>1 DEF Drop, Close, Begin
<1>2. CASE ~(IsAsync /\ sock # None)
  <2>1. CASE o \in {"close", "request", "probe"}
    BY <1>2, <2>1 DEF Drop, Close, AfterDrop, End
  <2>2. CASE o \in {"ping", "check", "reconnect", "closing"}
    <3>1. /\ pc' = "tcp" /\ op' = o /\ exc' = "none" /\ ret' = "none"
          /\ connected' = FALSE /\ sock' = None /\ made' = made
      BY <1>2, <2>2 DEF Drop, AfterDrop, Begin
    <3>2. made' + 2 + Again' <= MaxSockets
      BY <2>2, <3>1
    <3> QED
      BY <2>2, <3>1, <3>2 DEF Drop, Close
  <2> QED
    BY <2>1, <2>2
<1> QED
  BY <1>1, <1>2

\* The messages of OPEN_DATABASE.
LEMMA OpenDatabaseType == OpenDatabase \in Seq(Messages)
<1>1. <<>> \in Seq(Messages)
  OBVIOUS
<1>2. <<"open_database">> \in Seq(Messages)
  BY DEF Messages
<1> QED
  BY <1>1, <1>2 DEF OpenDatabase

\* The steps of a handshake.
LEMMA ConnectType ==
  ASSUME TypeInv,
         \/ BrokerDialled \/ DialFails \/ BrokerKeeps \/ BrokerRedirects \/ HsClosed
         \/ CasDialled \/ TlsUp \/ TlsFails \/ CasServes \/ SessionDies
         \/ Opened \/ Refused \/ ReadFails \/ ConnectTimeout \/ ConnectCancelled
  PROVE  TypeInv'
<1>1. CASE BrokerDialled
  <2>1. New \in Sockets /\ <<"broker">> \o ClientInfo \in Seq(Messages \cup {"broker", "CAS"})
    BY <1>1 DEF BrokerDialled, New, ClientInfo, Messages
  <2>2. wire' \in [Sockets -> Seq(Messages \cup {"broker", "CAS"})]
    BY <1>1, <2>1, WireType DEF BrokerDialled, Dial
  <2> QED
    BY <1>1, <2>1, <2>2 DEF BrokerDialled, Dial, New, Goto
<1>2. CASE DialFails
  BY <1>2 DEF DialFails, Raise, clientVars
<1>3. CASE BrokerKeeps
  <2>1. OpenDatabase \in Seq(Messages \cup {"broker", "CAS"})
    BY OpenDatabaseType
  <2>2. wire' \in [Sockets -> Seq(Messages \cup {"broker", "CAS"})]
    BY <1>3, <2>1, WireType DEF BrokerKeeps
  <2> QED
    BY <1>3, <2>2 DEF BrokerKeeps, AfterSocket, Goto
<1>4. CASE BrokerRedirects
  BY <1>4 DEF BrokerRedirects, Close, Goto
<1>5. CASE HsClosed
  BY <1>5 DEF HsClosed, Goto, clientVars
<1>6. CASE CasDialled
  <2>1. New \in Sockets /\ <<"CAS">> \o OpenDatabase \in Seq(Messages \cup {"broker", "CAS"})
    BY <1>6, OpenDatabaseType DEF CasDialled, New
  <2>2. wire' \in [Sockets -> Seq(Messages \cup {"broker", "CAS"})]
    BY <1>6, <2>1, WireType DEF CasDialled, Dial
  <2> QED
    BY <1>6, <2>1, <2>2 DEF CasDialled, Dial, New, AfterSocket, Goto
<1>7. CASE TlsUp
  <2>1. <<"tls", "open_database">> \in Seq(Messages \cup {"broker", "CAS"})
    BY DEF Messages
  <2>2. wire' \in [Sockets -> Seq(Messages \cup {"broker", "CAS"})]
    BY <1>7, <2>1, WireType DEF TlsUp, Send
  <2> QED
    BY <1>7, <2>2 DEF TlsUp, Goto
<1>8. ASSUME NEW e \in Exceptions, AbortTls(e), cancels' \in 0..MaxCancels PROVE TypeInv'
  BY <1>8 DEF AbortTls, Close, Raise
<1>9. CASE TlsFails
  BY <1>8, <1>9 DEF TlsFails
<1>10. CASE CasServes
  BY <1>10 DEF CasServes, clientVars, callVars
<1>11. CASE SessionDies
  BY <1>11 DEF SessionDies, clientVars, callVars
<1>12. CASE Opened
  BY <1>12 DEF Opened, Begin, End, Reconnecting, Proper
<1>13. CASE Refused
  BY <1>13 DEF Refused, Raise, clientVars
<1>14. CASE ReadFails
  BY <1>14 DEF ReadFails, Raise, clientVars
<1>15. CASE ConnectTimeout
  <2>1. CASE AbortTls("OperationalError")
    BY <1>8, <1>15, <2>1 DEF ConnectTimeout
  <2>2. CASE pc # "tls" /\ Raise("OperationalError") /\ UNCHANGED <<cfg, clientVars, served>>
    BY <1>15, <2>2 DEF ConnectTimeout, HasTimeout, Raise, clientVars
  <2> QED
    BY <1>15, <2>1, <2>2 DEF ConnectTimeout
<1>16. CASE ConnectCancelled
  <2> cancels' \in 0..MaxCancels
    BY <1>16 DEF ConnectCancelled, MayBeCancelled
  <2>1. CASE AbortTls("CancelledError")
    BY <1>8, <2>1
  <2>2. CASE pc # "tls" /\ Raise("CancelledError") /\ UNCHANGED <<cfg, clientVars, served>>
    BY <1>16, <2>2 DEF ConnectCancelled, Raise, clientVars
  <2> QED
    BY <1>16, <2>1, <2>2 DEF ConnectCancelled
<1> QED
  BY <1>1, <1>2, <1>3, <1>4, <1>5, <1>6, <1>7, <1>9, <1>10, <1>11, <1>12, <1>13,
     <1>14, <1>15, <1>16

\* Those of its finally.
LEMMA FinallyType ==
  ASSUME TypeInv,
         \/ FinallySync \/ FinallyHs \/ FinallyHsClosed
         \/ FinallyStreams \/ FinallyStreamsClosed \/ FinallyCancelled
  PROVE  TypeInv'
<1>1. CASE FinallySync
  BY <1>1, ConnectEndsType DEF FinallySync, Close
<1>2. CASE FinallyHs
  BY <1>2 DEF FinallyHs, Close, Goto
<1>3. CASE FinallyHsClosed
  BY <1>3 DEF FinallyHsClosed, Goto, clientVars
<1>4. CASE FinallyStreams
  <2>1. CASE sock = None
    BY <1>4, <2>1, ConnectEndsType DEF FinallyStreams, Close
  <2>2. CASE sock # None
    BY <1>4, <2>2 DEF FinallyStreams, Close, Goto
  <2> QED
    BY <2>1, <2>2
<1>5. CASE FinallyStreamsClosed
  BY <1>5 DEF FinallyStreamsClosed, ConnectEnds, Begin, End, Proper
<1>6. CASE FinallyCancelled
  BY <1>6 DEF FinallyCancelled, MayBeCancelled, End, Proper
<1> QED
  BY <1>1, <1>2, <1>3, <1>4, <1>5, <1>6

\* Those of the calls around it.
LEMMA CallType ==
  ASSUME TypeInv,
         \/ ConnectCall \/ PingCall \/ RequestCall \/ CloseCall
         \/ Answered \/ Undecoded \/ NoSocket \/ GivesUp \/ EndOfStream
         \/ ExchangeCancelled
         \/ Dropped \/ DropCancelled
  PROVE  TypeInv'
<1>1. CASE ConnectCall
  BY <1>1 DEF ConnectCall, Room, Begin, End, Unchanged, clientVars
<1>2. CASE PingCall
  <2>1. CASE Room(2) /\ TearDown("check")
    <3>1. Drop("check", "none") /\ made + 4 <= MaxSockets /\ cancels' \in 0..MaxCancels
      BY <2>1 DEF Room, TearDown
    <3> QED
      BY <3>1, DropType
  <2>2. CASE Room(2) /\ Begin("ping", IF connected THEN "exchange" ELSE "tcp") /\ Unchanged
    <3>1. made + 4 <= MaxSockets
      BY <2>2 DEF Room
    <3> QED
      BY <1>2, <2>2, <3>1 DEF PingCall, Begin, Unchanged, clientVars
  <2>3. CASE connected /\ Begin("probe", "exchange") /\ Unchanged
    BY <2>3 DEF Begin, Unchanged, clientVars
  <2>4. CASE ~connected /\ End("ping", "false") /\ Unchanged
    BY <2>4 DEF End, Unchanged, clientVars
  <2> QED
    BY <1>2, <2>1, <2>2, <2>3, <2>4 DEF PingCall
<1>3. CASE RequestCall
  <2>1. CASE Room(1) /\ TearDown("reconnect")
    <3>1. /\ Drop("reconnect", "none")
          /\ made + 2 <= MaxSockets /\ cancels' \in 0..MaxCancels
      BY <2>1 DEF Room, TearDown
    <3> QED
      BY <3>1, DropType
  <2>2. CASE ~(Room(1) /\ TearDown("reconnect"))
    BY <1>3, <2>2 DEF RequestCall, Begin, End, Unchanged, clientVars
  <2> QED
    BY <2>1, <2>2
<1>4. CASE CloseCall
  <2>1. CASE Room(1) /\ TearDown("closing")
    <3>1. /\ Drop("closing", "none")
          /\ made + 2 <= MaxSockets /\ cancels' \in 0..MaxCancels
      BY <2>1 DEF Room, TearDown
    <3> QED
      BY <3>1, DropType
  <2>2. CASE ~(Room(1) /\ TearDown("closing"))
    BY <1>4, <2>2 DEF CloseCall, Begin, End, Unchanged, clientVars
  <2> QED
    BY <2>1, <2>2
<1>5. CASE Answered
  <2>1. CASE TearDown("close")
    BY <1>5, <2>1, DropType DEF TearDown
  <2>2. CASE op # "close"
    BY <1>5, <2>2 DEF Answered, Pings, Proper, End, Unchanged, clientVars
  <2> QED
    BY <1>5, <2>1, <2>2 DEF Answered
<1>6. CASE NoSocket
  <2>1. CASE op = "request"
    BY <1>6, <2>1 DEF NoSocket, End, Unchanged, clientVars
  <2>2. CASE op = "probe"
    BY <1>6, <2>2 DEF NoSocket, End, Unchanged, clientVars
  <2>3. CASE op \in {"ping", "close"}
    BY <1>6, <2>3, DropType DEF NoSocket, TearDown
  <2> QED
    BY <1>6, <2>1, <2>2, <2>3 DEF NoSocket
<1>7. CASE GivesUp
  BY <1>7, DropType DEF GivesUp, TearDown
<1>8. CASE EndOfStream
  BY <1>8 DEF EndOfStream, Proper, End, Unchanged, clientVars
<1>12. CASE Undecoded
  BY <1>12 DEF Undecoded, Proper, End, Unchanged, clientVars
<1>9. CASE ExchangeCancelled
  <2> cancels' \in 0..MaxCancels
    BY <1>9 DEF ExchangeCancelled, MayBeCancelled
  <2>1. CASE Drop("close", "CancelledError")
    BY <1>9, <2>1, DropType DEF ExchangeCancelled
  <2>2. CASE op # "close"
    BY <1>9, <2>2 DEF ExchangeCancelled, Proper, End, clientVars
  <2> QED
    BY <1>9, <2>1, <2>2 DEF ExchangeCancelled
<1>10. CASE Dropped
  BY <1>10 DEF Dropped, AfterDrop, Begin, End
<1>11. CASE DropCancelled
  BY <1>11 DEF DropCancelled, MayBeCancelled, End, Proper
<1> QED
  BY <1>1, <1>2, <1>3, <1>4, <1>5, <1>6, <1>7, <1>8, <1>9, <1>10, <1>11,
     <1>12

\* Every step keeps the types.
LEMMA TypeStep == TypeInv /\ [Next]_vars => TypeInv'
<1> SUFFICES ASSUME TypeInv, [Next]_vars PROVE TypeInv'
  OBVIOUS
<1>1. CASE Next
  BY <1>1, ConnectType, FinallyType, CallType
     DEF Next, Invocation, DriverStep, PeerStep, Cancellation
<1>2. CASE UNCHANGED vars
  BY <1>2 DEF vars, clientVars, callVars
<1> QED
  BY <1>1, <1>2

HIDE DEF TypeInv, TypeOK, Budget, Current

(***************************************************************************)
(* Every variable keeps its type: among them what connect() raises, alone  *)
(* or in the reconnect of another call, and what close() does: a DB-API    *)
(* exception or a cancellation, whatever the broker and the CAS reply.     *)
(* The request of ping() or of any other call may raise besides what its   *)
(* response raised when it could not be decoded (_send_and_receive).       *)
(***************************************************************************)
THEOREM HandshakeTyped == Spec => []TypeOK
<1>1. TypeInv => TypeOK
  BY DEF TypeInv
<1> QED
  BY <1>1, InitType, TypeStep, PTL DEF Spec

(***************************************************************************)
(* The order of the messages.  Nothing is on a socket that is not open     *)
(* yet, and what is on one says where the handshake on it stands.          *)
(***************************************************************************)
Greeted == {<<"broker", "magic">>, <<"CAS">>}

WireInv ==
  /\ \A s \in Sockets : s > made => wire[s] = <<>>
  /\ pc = "status" => wire[hs] = <<"broker", "magic">>
  /\ pc = "tls" => cfg.ssl /\ wire[sock] \in Greeted
  /\ WireOrder

\* The messages of one socket.
InOrder(messages) ==
  \/ messages \in {<<>>} \cup Greeted
  \/ messages = <<"broker", "magic">> \o Tls \o <<"open_database">>
  \/ messages = <<"CAS">> \o Tls \o <<"open_database">>

\* WireOrder, socket by socket.
LEMMA OrderBySocket == WireOrder <=> \A s \in Sockets : InOrder(wire[s])
BY DEF WireOrder, InOrder, Greeted

\* A message follows a message.
LEMMA TwoMessages ==
  ASSUME NEW S, NEW a \in S, NEW b \in S
  PROVE  <<a>> \o <<b>> = <<a, b>>
<1>1. ASSUME NEW p, NEW q, p = <<a>>, q = <<b>>
      PROVE  p \o q = <<a, b>>
  <2>1. p \in Seq(S) /\ q \in Seq(S)
    BY <1>1
  <2>2. p \o q \in Seq(S) /\ Len(p \o q) = 2 /\ (p \o q)[1] = a /\ (p \o q)[2] = b
    BY <1>1, <2>1
  <2>3. \A r \in Seq(S) : Len(r) = 2 /\ r[1] = a /\ r[2] = b => r = <<a, b>>
    OBVIOUS
  <2> QED
    BY <2>2, <2>3
<1> QED
  BY <1>1

\* What a socket begins with, and what the upgrade adds to it.
LEMMA GreetedInOrder ==
  /\ \A g \in Greeted : InOrder(g)
  /\ InOrder(<<"broker">> \o ClientInfo)
  /\ InOrder(<<"CAS">> \o OpenDatabase)
  /\ <<"broker">> \o ClientInfo = <<"broker", "magic">>
  /\ cfg.ssl => OpenDatabase = <<>> /\ <<"CAS">> \o OpenDatabase = <<"CAS">>
  /\ \A g \in Greeted : InOrder(g \o OpenDatabase)
  /\ cfg.ssl => \A g \in Greeted : InOrder(g \o <<"tls", "open_database">>)
<1>1. <<"broker">> \o ClientInfo = <<"broker", "magic">>
  <2>1. "broker" \in {"broker", "magic"} /\ "magic" \in {"broker", "magic"}
    OBVIOUS
  <2> QED
    BY <2>1, TwoMessages DEF ClientInfo
<1>2. \A g \in Greeted : InOrder(g)
  BY DEF InOrder
<1>3. ASSUME NEW g \in Greeted PROVE g \o <<>> = g
  BY DEF Greeted
<1>4. ASSUME NEW g \in Greeted PROVE InOrder(g \o OpenDatabase)
  <2>1. CASE cfg.ssl
    BY <1>2, <1>3, <2>1 DEF OpenDatabase
  <2>2. CASE ~cfg.ssl
    BY <1>3, <2>2 DEF OpenDatabase, InOrder, Tls, Greeted
  <2> QED
    BY <2>1, <2>2
<1>5. ASSUME cfg.ssl, NEW g \in Greeted
      PROVE  InOrder(g \o <<"tls", "open_database">>)
  <2>1. (g \o <<"tls">>) \o <<"open_database">> = g \o <<"tls", "open_database">>
    BY DEF Greeted
  <2> QED
    BY <1>5, <2>1 DEF InOrder, Tls, Greeted
<1>6. <<"CAS">> \in Greeted /\ <<"broker", "magic">> \in Greeted
  BY DEF Greeted
<1>7. cfg.ssl => OpenDatabase = <<>> /\ <<"CAS">> \o OpenDatabase = <<"CAS">>
  BY <1>3, <1>6 DEF OpenDatabase
<1> QED
  BY <1>1, <1>2, <1>4, <1>5, <1>6, <1>7

\* The messages m go out on the socket s.
LEMMA SendOrder ==
  ASSUME TypeInv, WireInv, NEW s \in Sockets, NEW m, InOrder(m),
         wire' = [wire EXCEPT ![s] = m], made' \in made..MaxSockets, s <= made',
         cfg' = cfg,
         pc' = "status" => hs' = s /\ m = <<"broker", "magic">>,
         pc' = "tls" => sock' = s /\ cfg.ssl /\ m \in Greeted
  PROVE  WireInv'
<1>1. /\ made \in 0..MaxSockets
      /\ wire \in [Sockets -> Seq(Messages \cup {"broker", "CAS"})]
  BY DEF TypeInv, TypeOK
<1>2. wire'[s] = m /\ \A u \in Sockets \ {s} : wire'[u] = wire[u]
  BY <1>1
<1>3. \A u \in Sockets : InOrder(wire[u])
  BY OrderBySocket DEF WireInv
<1>4. \A u \in Sockets : InOrder(wire[u])'
  BY <1>2, <1>3 DEF InOrder, Tls
<1>5. WireOrder'
  BY <1>4 DEF WireOrder, InOrder, Greeted
<1>6. \A u \in Sockets : u > made' => wire'[u] = <<>>
  BY <1>1, <1>2 DEF WireInv
<1> QED
  BY <1>2, <1>5, <1>6 DEF WireInv

\* Nothing is sent.
LEMMA SilentOrder ==
  ASSUME WireInv, UNCHANGED <<cfg, made, wire>>,
         pc' \in {"status", "tls"} => UNCHANGED <<pc, hs, sock>>
  PROVE  WireInv'
BY DEF WireInv, WireOrder, Tls

\* Every step keeps the order.
LEMMA OrderStep == TypeInv /\ WireInv /\ [Next]_vars => WireInv'
<1> SUFFICES ASSUME TypeInv, WireInv, [Next]_vars PROVE WireInv'
  OBVIOUS
<1>t. /\ made \in 0..MaxSockets /\ sock \in Maybe /\ hs \in Maybe
      /\ wire \in [Sockets -> Seq(Messages \cup {"broker", "CAS"})]
      /\ pc = "status" => hs \in Sockets /\ hs <= made
      /\ pc = "tls" => sock \in Sockets /\ sock <= made
  <2>1. \A s \in Sockets : s > made => wire[s] \notin Greeted
    <3>1. Len(<<>>) = 0 /\ Len(<<"CAS">>) = 1 /\ Len(<<"broker", "magic">>) = 2
      OBVIOUS
    <3>2. <<>> \notin Greeted
      BY <3>1 DEF Greeted
    <3> QED
      BY <3>2 DEF WireInv
  <2>2. <<"broker", "magic">> \in Greeted
    BY DEF Greeted
  <2> QED
    BY <2>1, <2>2 DEF TypeInv, TypeOK, Current, WireInv
<1>1. CASE BrokerDialled
  <2> DEFINE m == <<"broker">> \o ClientInfo
  <2>1. New \in Sockets /\ New = made + 1
    BY <1>1 DEF BrokerDialled, TypeInv, Budget, TypeOK, New
  <2>2. InOrder(m) /\ m = <<"broker", "magic">>
    BY GreetedInOrder
  <2>3. /\ wire' = [wire EXCEPT ![New] = m] /\ made' = New /\ cfg' = cfg
        /\ pc' = "status" /\ hs' = New
    BY <1>1 DEF BrokerDialled, Dial, Goto
  <2> HIDE DEF m
  <2> QED
    <3>1. made' \in made..MaxSockets /\ New <= made'
      BY <1>t, <2>1, <2>3
    <3>2. pc' # "tls"
      BY <2>3
    <3> QED
      BY <2>1, <2>2, <2>3, <3>1, <3>2, SendOrder, Zenon
<1>2. CASE CasDialled
  <2> DEFINE m == <<"CAS">> \o OpenDatabase
  <2>1. New \in Sockets /\ New = made + 1
    BY <1>2 DEF CasDialled, TypeInv, Budget, TypeOK, New
  <2>2. InOrder(m) /\ (cfg.ssl => m \in Greeted)
    BY GreetedInOrder DEF Greeted
  <2>3. wire' = [wire EXCEPT ![New] = m] /\ made' = New /\ cfg' = cfg /\ sock' = New
    BY <1>2 DEF CasDialled, Dial
  <2>4. pc' # "status" /\ (pc' = "tls" => cfg.ssl)
    BY <1>2 DEF CasDialled, AfterSocket, Goto
  <2> HIDE DEF m
  <2> QED
    <3>1. made' \in made..MaxSockets /\ New <= made'
      BY <1>t, <2>1, <2>3
    <3> QED
      BY <2>1, <2>2, <2>3, <2>4, <3>1, SendOrder, Zenon
<1>3. CASE BrokerKeeps
  <2> DEFINE m == wire[hs] \o OpenDatabase
  <2>1. wire[hs] = <<"broker", "magic">> /\ wire[hs] \in Greeted
    BY <1>3 DEF BrokerKeeps, WireInv, Greeted
  <2>2. cfg.ssl => m = wire[hs]
    BY <2>1, GreetedInOrder DEF Greeted
  <2>3. wire' = [wire EXCEPT ![hs] = m]
    BY <1>3 DEF BrokerKeeps
  <2>4. InOrder(m)
    BY <2>1, GreetedInOrder
  <2>5. hs \in Sockets /\ hs <= made /\ made' = made /\ cfg' = cfg /\ sock' = hs
    BY <1>3, <1>t DEF BrokerKeeps
  <2>6. pc' # "status" /\ (pc' = "tls" => cfg.ssl)
    BY <1>3 DEF BrokerKeeps, AfterSocket, Goto
  <2> HIDE DEF m
  <2> QED
    <3>1. made' \in made..MaxSockets /\ hs <= made'
      BY <1>t, <2>5
    <3>2. pc' = "tls" => m \in Greeted
      BY <2>1, <2>2, <2>6
    <3> QED
      BY <2>3, <2>4, <2>5, <2>6, <3>1, <3>2, SendOrder, Zenon
<1>4. CASE TlsUp
  <2> DEFINE m == wire[sock] \o <<"tls", "open_database">>
  <2>1. InOrder(m)
    BY <1>4, GreetedInOrder DEF TlsUp, WireInv
  <2>2. wire' = [wire EXCEPT ![sock] = m]
    BY <1>4 DEF TlsUp, Send
  <2>3. /\ sock \in Sockets /\ sock <= made /\ made' = made /\ cfg' = cfg
        /\ pc' = "database"
    BY <1>4, <1>t DEF TlsUp, Goto
  <2> HIDE DEF m
  <2> QED
    <3>1. made' \in made..MaxSockets /\ sock <= made'
      BY <1>t, <2>3
    <3>2. pc' # "tls" /\ pc' # "status"
      BY <2>3
    <3> QED
      BY <2>1, <2>2, <2>3, <3>1, <3>2, SendOrder, Zenon
<1>5. CASE \/ DialFails \/ BrokerRedirects \/ HsClosed \/ TlsFails \/ CasServes \/ SessionDies
           \/ Opened \/ Refused \/ ReadFails \/ ConnectTimeout \/ ConnectCancelled
  <2>1. UNCHANGED <<cfg, made, wire>>
    BY <1>5 DEF DialFails, BrokerRedirects, HsClosed, TlsFails, AbortTls, CasServes,
                SessionDies, Opened, Refused, ReadFails, ConnectTimeout,
                ConnectCancelled, clientVars
  <2>2. pc' \in {"status", "tls"} => UNCHANGED <<pc, hs, sock>>
    BY <1>5 DEF DialFails, BrokerRedirects, HsClosed, TlsFails, AbortTls, CasServes,
                SessionDies, Opened, Refused, ReadFails, ConnectTimeout,
                ConnectCancelled, Goto, Raise, Begin, End, clientVars, callVars
  <2> QED
    BY <2>1, <2>2, SilentOrder
<1>6. CASE \/ FinallySync \/ FinallyHs \/ FinallyHsClosed \/ FinallyStreams
           \/ FinallyStreamsClosed \/ FinallyCancelled
  <2>1. UNCHANGED <<cfg, made, wire>>
    BY <1>6 DEF FinallySync, FinallyHs, FinallyHsClosed, FinallyStreams,
                FinallyStreamsClosed, FinallyCancelled, clientVars
  <2>2. pc' \notin {"status", "tls"}
    BY <1>6 DEF FinallySync, FinallyHs, FinallyHsClosed, FinallyStreams,
                FinallyStreamsClosed, FinallyCancelled, ConnectEnds, Goto, Begin, End
  <2> QED
    BY <2>1, <2>2, SilentOrder
<1>7. CASE \/ Invocation \/ Answered \/ Undecoded \/ NoSocket \/ GivesUp \/ EndOfStream
           \/ ExchangeCancelled \/ Dropped \/ DropCancelled
  <2>1. UNCHANGED <<cfg, made, wire>> /\ pc' \notin {"status", "tls"}
    BY <1>7 DEF Invocation, ConnectCall, PingCall, RequestCall, CloseCall, Answered,
                Undecoded, NoSocket, GivesUp, EndOfStream, ExchangeCancelled, Dropped, DropCancelled,
                TearDown, Drop, AfterDrop, Begin, End, Unchanged, clientVars
  <2> QED
    BY <2>1, SilentOrder
<1>8. CASE UNCHANGED vars
  BY <1>8, SilentOrder DEF vars, clientVars, callVars
<1> QED
  BY <1>1, <1>2, <1>3, <1>4, <1>5, <1>6, <1>7, <1>8
     DEF Next, DriverStep, PeerStep, Cancellation

(***************************************************************************)
(* Whatever fails, times out or is cancelled, the magic goes to a broker   *)
(* and first, and OPEN_DATABASE only where the upgrade to TLS, if one was  *)
(* asked for, is done (_connect_locked, connect).                          *)
(***************************************************************************)
THEOREM MessagesInOrder == Spec => []WireOrder
<1>1. Init => WireInv
  BY DEF Init, WireInv, WireOrder
<1>2. WireInv => WireOrder
  BY DEF WireInv
<1> QED
  BY <1>1, <1>2, InitType, TypeStep, OrderStep, PTL DEF Spec
=============================================================================
