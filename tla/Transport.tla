------------------------------ MODULE Transport ------------------------------
(***************************************************************************)
(* What connect() and the tearing down of a connection promise to the rest *)
(* of the driver, and all that Connection.tla and AsyncConnection.tla know *)
(* of them: a handshake that either opens one session or leaves no socket, *)
(* and a socket whose loss ends the session.  Handshake.tla implements it. *)
(***************************************************************************)

VARIABLES
  connected,  \* _connected
  socket,     \* the connection has a socket (async: a stream) to talk on
  up          \* the session of that socket is alive at the server

vars == <<connected, socket, up>>

Init == ~connected /\ ~socket /\ ~up

HandshakeOk ==
  /\ ~connected /\ ~socket
  /\ connected' /\ socket' /\ up'

\* The socket is closed; the flag follows, or (a task cancelled in between)
\* stays behind.
SocketCloses ==
  /\ socket
  /\ ~socket' /\ ~up'
  /\ connected' \in BOOLEAN

\* The flag follows later.
Disconnects ==
  /\ connected /\ ~socket
  /\ ~connected'
  /\ UNCHANGED <<socket, up>>

\* The session dies under the driver.
SessionLost ==
  /\ up
  /\ ~up'
  /\ UNCHANGED <<connected, socket>>

Next == HandshakeOk \/ SocketCloses \/ Disconnects \/ SessionLost

Spec == Init /\ [][Next]_vars
=============================================================================
