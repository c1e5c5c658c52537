------------------------- MODULE HttpClientProofs -------------------------
(***************************************************************************)
(* Proofs about HttpClient.  Types and the two locks come first: who is in *)
(* send() holds request_mutex_, and the count of requests in flight says   *)
(* whether that thread is past the first block.  From them follows that    *)
(* the socket in use is the client's and is open.                          *)
(***************************************************************************)
EXTENDS HttpClient, FiniteSetTheorems, SequenceTheorems, TLAPS

Steps == {"idle", "open", "write", "status", "content", "done", "failed"}
UsesSocket == {"write", "status", "content"}
InFlight == UsesSocket \cup {"done", "failed"}

PartType == [what : {"continue", "head", "content"}, of : Sends, closing : BOOLEAN]
NetType == [up : Seq(Sends), down : Seq(PartType),
            shut : BOOLEAN, fin : BOOLEAN, open : BOOLEAN]

ClientTypeOK ==
  /\ keep_alive \in BOOLEAN /\ should_close \in BOOLEAN
  /\ request_mutex \in Senders \cup {Nobody}
  /\ socket \in Conns \cup {NoSocket}
  /\ in_flight \in Nat
  /\ at \in [Senders -> Steps]
  /\ sock \in [Senders -> Conns \cup {NoSocket}]
  /\ opened \in Nat /\ opened <= MaxConns
  /\ sent \in Nat /\ sent <= MaxSends
  /\ net \in [Conns -> NetType]
  /\ executed \in [Sends -> Nat]
  /\ outcome \in [Sends -> Sends \cup {Unanswered}]

-----------------------------------------------------------------------------
(* Creating a socket.                                                      *)

(* The sockets made for a host are counted, and a connect that succeeded   *)
(* was made on one of them.                                                *)
LEMMA ConnectedSocketExists ==
  ASSUME NEW result, CreateClientSocket(result), opened \in Nat
  PROVE  /\ result.made \in Nat
         /\ result.ok \in BOOLEAN
         /\ result.ok => result.made > 0
         /\ opened' = opened + result.made
         /\ opened' \in Nat /\ opened' <= MaxConns
<1>1. PICK tries \in Attempts : result = CreateSocket(tries)
  BY DEF CreateClientSocket
<1>2. PICK n \in 0 .. Addresses : tries \in [1 .. n -> Tries]
  BY <1>1 DEF Attempts
<1> DEFINE Made == {i \in DOMAIN tries : tries[i] # "no socket"}
<1>3. DOMAIN tries = 1 .. n /\ n \in Nat
  BY <1>2, ClientAssumption
<1>4. IsFiniteSet(Made) /\ Cardinality(Made) \in Nat
  <2>1. IsFiniteSet(1 .. n)
    BY <1>3, FS_Interval
  <2>2. Made \subseteq 1 .. n
    BY <1>3
  <2>3. IsFiniteSet(Made)
    BY <2>1, <2>2, FS_Subset
  <2>4. QED
    BY <2>3, FS_CardinalityType
<1>5. result.made = Cardinality(Made)
  BY <1>1 DEF CreateSocket
<1>6. ASSUME result.ok PROVE result.made > 0
  <2>1. Len(tries) > 0 /\ tries[Len(tries)] = "connected"
    BY <1>1, <1>6 DEF CreateSocket
  <2>2. tries \in Seq(Tries) /\ Len(tries) = n
    BY <1>2, <1>3
  <2>3. n \in Made
    <3>1. n > 0 /\ tries[n] = "connected"
      BY <2>1, <2>2
    <3>2. n \in DOMAIN tries
      BY <1>3, <3>1
    <3>3. QED
      BY <3>1, <3>2
  <2> HIDE DEF Made
  <2>4. Cardinality(Made) # 0
    BY <1>4, <2>3, FS_EmptySet
  <2>5. QED
    BY <1>4, <1>5, <2>4
<1>7. result.ok \in BOOLEAN
  BY <1>1 DEF CreateSocket
<1>8. opened' = opened + result.made /\ opened + result.made <= MaxConns
  BY DEF CreateClientSocket
<1> HIDE DEF Made
<1>9. QED
  BY <1>4, <1>5, <1>6, <1>7, <1>8

-----------------------------------------------------------------------------
(* What closing and shutting down a socket changes.                        *)

LEMMA CloseSocketNet ==
  ASSUME NEW conns \in [Conns -> NetType], NEW c \in Conns \cup {NoSocket}
  PROVE  /\ CloseSocket(conns, c) \in [Conns -> NetType]
         /\ \A d \in Conns : /\ CloseSocket(conns, c)[d].up = conns[d].up
                             /\ CloseSocket(conns, c)[d].open = (conns[d].open /\ d # c)
                             /\ d # c => CloseSocket(conns, c)[d] = conns[d]
<1>1. NoSocket \notin Conns
  BY DEF NoSocket, Conns
<1>2. <<>> \in Seq(PartType)
  BY EmptySeq
<1>3. \A d \in Conns : /\ conns[d] \in NetType /\ conns[d].open \in BOOLEAN
  BY DEF NetType
<1>4. CASE c = NoSocket
  BY <1>1, <1>3, <1>4 DEF CloseSocket
<1>5. CASE c # NoSocket
  <2>1. c \in Conns
    BY <1>5
  <2> DEFINE closed == [conns[c] EXCEPT !.shut = TRUE, !.open = FALSE, !.down = <<>>]
  <2>2. CloseSocket(conns, c) = [conns EXCEPT ![c] = closed]
    BY <1>5, <2>1 DEF CloseSocket
  <2>3. closed \in NetType /\ closed.up = conns[c].up /\ closed.open = FALSE
    BY <1>2, <1>3, <2>1 DEF NetType
  <2> HIDE DEF closed
  <2>4. QED
    BY <1>3, <2>1, <2>2, <2>3
<1>6. QED
  BY <1>4, <1>5

LEMMA ShutdownSocketNet ==
  ASSUME NEW conns \in [Conns -> NetType], NEW c \in Conns \cup {NoSocket}
  PROVE  /\ ShutdownSocket(conns, c) \in [Conns -> NetType]
         /\ \A d \in Conns : /\ ShutdownSocket(conns, c)[d].up = conns[d].up
                             /\ ShutdownSocket(conns, c)[d].down = conns[d].down
                             /\ ShutdownSocket(conns, c)[d].open = conns[d].open
                             /\ d # c => ShutdownSocket(conns, c)[d] = conns[d]
<1>1. NoSocket \notin Conns
  BY DEF NoSocket, Conns
<1>2. CASE c = NoSocket
  BY <1>1, <1>2 DEF ShutdownSocket
<1>3. CASE c # NoSocket
  BY <1>3 DEF ShutdownSocket, NetType
<1>4. QED
  BY <1>2, <1>3

-----------------------------------------------------------------------------
(* The locks.                                                              *)

Turns == \A t \in Senders : at[t] # "idle" <=> request_mutex = t

Counted ==
  /\ \A t \in Senders : at[t] \in InFlight => in_flight = 1
  /\ (\A t \in Senders : at[t] \notin InFlight) => in_flight = 0

OwnSocket ==
  \A t \in Senders : at[t] \in UsesSocket => sock[t] = socket /\ socket # NoSocket

OneOpen ==
  /\ socket # NoSocket => net[socket].open /\ socket <= opened
  /\ \A c \in Conns : net[c].open => c = socket

FlagHeeded == should_close /\ in_flight = 0 => socket = NoSocket

Begun == (\E t \in Senders : at[t] # "idle") => sent > 0

LockInv == Turns /\ Counted /\ OwnSocket /\ OneOpen /\ FlagHeeded /\ Begun

LEMMA ClientInitially == ClientInit => ClientTypeOK /\ LockInv
<1> SUFFICES ASSUME ClientInit PROVE ClientTypeOK /\ LockInv
  OBVIOUS
<1>1. <<>> \in Seq(PartType) /\ <<>> \in Seq(Sends)
  BY EmptySeq
<1>2. net \in [Conns -> NetType]
  BY <1>1 DEF ClientInit, Fresh, NetType
<1>3. ClientTypeOK
  <2>1. keep_alive \in BOOLEAN /\ should_close \in BOOLEAN
    BY ClientAssumption DEF ClientInit
  <2>2. opened \in Nat /\ opened <= MaxConns /\ sent \in Nat /\ sent <= MaxSends
    BY ClientAssumption DEF ClientInit
  <2>3. executed \in [Sends -> Nat] /\ outcome \in [Sends -> Sends \cup {Unanswered}]
    BY DEF ClientInit
  <2>4. at \in [Senders -> Steps] /\ sock \in [Senders -> Conns \cup {NoSocket}]
    BY DEF ClientInit, Steps
  <2>5. request_mutex \in Senders \cup {Nobody} /\ socket \in Conns \cup {NoSocket} /\ in_flight \in Nat
    BY DEF ClientInit
  <2>6. QED
    BY <1>2, <2>1, <2>2, <2>3, <2>4, <2>5 DEF ClientTypeOK
<1>4. OneOpen
  BY DEF ClientInit, OneOpen, Fresh
<1>5. LockInv
  BY <1>4, ClientAssumption DEF ClientInit, LockInv, Turns, Counted, OwnSocket,
     FlagHeeded, Begun, UsesSocket, InFlight
<1>6. QED
  BY <1>3, <1>5

(* Only one thread is in send().                                           *)
LEMMA OneSender ==
  ASSUME ClientTypeOK, LockInv, NEW t \in Senders, at[t] # "idle"
  PROVE  \A u \in Senders : u # t => at[u] = "idle"
  BY DEF LockInv, Turns

LEMMA SendLocks ==
  ASSUME ClientTypeOK, LockInv, NEW t \in Senders, Send(t)
  PROVE  ClientTypeOK' /\ LockInv'
<1>1. \A u \in Senders : at[u] = "idle"
  BY ClientAssumption DEF Send, LockInv, Turns
<1>2. ClientTypeOK'
  BY ClientAssumption DEF Send, ClientTypeOK, Steps
<1>3. \A u \in Senders : at'[u] = IF u = t THEN "open" ELSE "idle"
  BY <1>1 DEF Send, ClientTypeOK
<1>4. Turns' /\ Counted'
  BY <1>1, <1>3, ClientAssumption DEF Send, LockInv, Turns, Counted, InFlight, UsesSocket
<1>5. OwnSocket' /\ OneOpen' /\ FlagHeeded'
  BY <1>3 DEF Send, LockInv, OwnSocket, OneOpen, FlagHeeded, UsesSocket
<1>6. Begun'
  BY DEF Send, Begun, ClientTypeOK
<1>7. QED
  BY <1>2, <1>4, <1>5, <1>6 DEF LockInv

(* The first block of send_, with the socket it settles on.                *)
LEMMA EnterLocks ==
  ASSUME ClientTypeOK, LockInv, NEW t \in Senders, at[t] = "open",
         NEW c \in Conns, EntersFlight(t, c), should_close' = FALSE,
         keep_alive' = keep_alive, sent' = sent, executed' = executed,
         opened' \in Nat, opened' <= MaxConns, c <= opened',
         net' \in [Conns -> NetType],
         net'[c].open, \A d \in Conns : net'[d].open => d = c
  PROVE  ClientTypeOK' /\ LockInv'
<1>1. \A u \in Senders : u # t => at[u] = "idle"
  BY OneSender
<1>2. \A u \in Senders : at[u] \notin InFlight
  BY <1>1 DEF InFlight, UsesSocket
<1>3. in_flight = 0
  BY <1>2 DEF LockInv, Counted
<1>4. /\ at' = [at EXCEPT ![t] = "write"] /\ sock' = [sock EXCEPT ![t] = c]
      /\ socket' = c /\ in_flight' = 1
      /\ request_mutex' = request_mutex /\ outcome' = outcome
  BY <1>3 DEF EntersFlight
<1>5. \A u \in Senders : at'[u] = IF u = t THEN "write" ELSE "idle"
  BY <1>1, <1>4 DEF ClientTypeOK
<1>6. ClientTypeOK'
  BY <1>4 DEF ClientTypeOK, Steps
<1>7. Turns'
  BY <1>4, <1>5 DEF LockInv, Turns
<1>8. Counted'
  BY <1>4, <1>5 DEF Counted, InFlight, UsesSocket
<1>9. OwnSocket'
  BY <1>4, <1>5 DEF OwnSocket, UsesSocket, ClientTypeOK, NoSocket, Conns
<1>10. OneOpen' /\ FlagHeeded' /\ Begun'
  BY <1>4 DEF OneOpen, FlagHeeded, LockInv, Begun
<1>11. QED
  BY <1>6, <1>7, <1>8, <1>9, <1>10 DEF LockInv

LEMMA ReuseLocks ==
  ASSUME ClientTypeOK, LockInv, NEW t \in Senders, Reuse(t)
  PROVE  ClientTypeOK' /\ LockInv'
<1>1. /\ at[t] = "open" /\ socket # NoSocket /\ should_close' = FALSE
      /\ EntersFlight(t, socket)
      /\ keep_alive' = keep_alive /\ opened' = opened /\ net' = net
      /\ sent' = sent /\ executed' = executed
  BY DEF Reuse
<1>2. /\ socket \in Conns /\ socket <= opened' /\ net'[socket].open
      /\ \A d \in Conns : net'[d].open => d = socket
      /\ opened' \in Nat /\ opened' <= MaxConns /\ net' \in [Conns -> NetType]
  BY <1>1 DEF ClientTypeOK, LockInv, OneOpen
<1>3. QED
  BY <1>1, <1>2, EnterLocks

(* A new socket is opened when the old one has been closed.                *)
LEMMA ReplacedSocket ==
  ASSUME ClientTypeOK, OneOpen, NEW c \in Conns,
         net' = [CloseSocket(net, socket) EXCEPT ![c].open = TRUE]
  PROVE  /\ net' \in [Conns -> NetType] /\ net'[c].open
         /\ net'[c].up = net[c].up
         /\ c # socket => net'[c].down = net[c].down
         /\ \A d \in Conns : /\ net'[d].open => d = c
                             /\ net'[d].up = net[d].up
                             /\ d # c /\ d # socket => net'[d] = net[d]
<1> DEFINE closed == CloseSocket(net, socket)
<1>1. /\ closed \in [Conns -> NetType]
      /\ \A d \in Conns : /\ closed[d].up = net[d].up
                          /\ closed[d].open = (net[d].open /\ d # socket)
                          /\ d # socket => closed[d] = net[d]
  BY CloseSocketNet DEF ClientTypeOK
<1>2. \A d \in Conns : ~closed[d].open
  BY <1>1 DEF OneOpen
<1>3. net' = [closed EXCEPT ![c] = [closed[c] EXCEPT !.open = TRUE]]
  OBVIOUS
<1> HIDE DEF closed
<1>4. /\ [closed[c] EXCEPT !.open = TRUE] \in NetType
      /\ [closed[c] EXCEPT !.open = TRUE].open = TRUE
      /\ [closed[c] EXCEPT !.open = TRUE].up = closed[c].up
      /\ [closed[c] EXCEPT !.open = TRUE].down = closed[c].down
  <2>1. closed[c] \in NetType
    BY <1>1
  <2>2. QED
    BY <2>1 DEF NetType
<1> DEFINE new == [closed[c] EXCEPT !.open = TRUE]
<1>5. /\ new \in NetType /\ new.open = TRUE /\ new.up = closed[c].up
      /\ new.down = closed[c].down /\ net' = [closed EXCEPT ![c] = new]
  BY <1>3, <1>4
<1> HIDE DEF new
<1>6. QED
  BY ZenonT(60), <1>1, <1>2, <1>5

LEMMA ConnectLocks ==
  ASSUME ClientTypeOK, LockInv, NEW t \in Senders, Connect(t)
  PROVE  ClientTypeOK' /\ LockInv'
<1>1. PICK result \in Results :
        /\ CreateClientSocket(result) /\ result.ok
        /\ net' = [CloseSocket(net, socket) EXCEPT ![opened + result.made].open = TRUE]
        /\ EntersFlight(t, opened + result.made)
  BY DEF Connect
<1>2. /\ at[t] = "open" /\ should_close' = FALSE
      /\ keep_alive' = keep_alive /\ sent' = sent /\ executed' = executed
  BY DEF Connect, NeedsConnection
<1> DEFINE c == opened + result.made
<1>3. opened \in Nat
  BY DEF ClientTypeOK
<1>4. /\ result.made \in Nat /\ result.made > 0
      /\ opened' = c /\ opened' \in Nat /\ opened' <= MaxConns
  BY <1>1, <1>3, ConnectedSocketExists
<1>5. c \in Conns /\ c <= opened'
  BY <1>3, <1>4 DEF Conns
<1>6. /\ net' = [CloseSocket(net, socket) EXCEPT ![c].open = TRUE]
      /\ EntersFlight(t, c)
  BY <1>1
<1> HIDE DEF c
<1>7. OneOpen
  BY DEF LockInv
<1>8. /\ net' \in [Conns -> NetType] /\ net'[c].open
      /\ \A d \in Conns : net'[d].open => d = c
  BY <1>5, <1>6, <1>7, ReplacedSocket
<1>9. QED
  BY <1>2, <1>4, <1>5, <1>6, <1>8, EnterLocks

(* send() returns, with no request in flight.                              *)
LEMMA ReturnLocks ==
  ASSUME ClientTypeOK, LockInv, NEW t \in Senders, at[t] # "idle", Returns(t),
         in_flight' = 0, keep_alive' = keep_alive, should_close' \in BOOLEAN,
         should_close' => socket' = NoSocket,
         sent' = sent, executed' = executed, outcome' = outcome,
         opened' \in Nat, opened <= opened', opened' <= MaxConns,
         \/ net' = net /\ socket' = socket
         \/ net' = CloseSocket(net, socket) /\ socket' = NoSocket
  PROVE  ClientTypeOK' /\ LockInv'
<1>1. \A u \in Senders : at'[u] = "idle"
  BY OneSender DEF Returns, ClientTypeOK
<1>2. /\ net' \in [Conns -> NetType] /\ socket' \in Conns \cup {NoSocket}
      /\ OneOpen'
  <2>1. CASE net' = net /\ socket' = socket
    BY <2>1 DEF ClientTypeOK, LockInv, OneOpen, Conns
  <2>2. CASE net' = CloseSocket(net, socket) /\ socket' = NoSocket
    <3>1. net' \in [Conns -> NetType]
      BY <2>2, CloseSocketNet DEF ClientTypeOK
    <3>2. \A d \in Conns : ~net'[d].open
      BY <2>2, CloseSocketNet DEF ClientTypeOK, LockInv, OneOpen
    <3>3. QED
      BY <2>2, <3>1, <3>2 DEF OneOpen
  <2>3. QED
    BY <2>1, <2>2
<1>3. ClientTypeOK'
  BY <1>2 DEF Returns, ClientTypeOK, Steps
<1>4. Turns' /\ Counted' /\ OwnSocket' /\ FlagHeeded' /\ Begun'
  BY <1>1, ClientAssumption DEF Returns, Turns, Counted, OwnSocket, FlagHeeded,
     Begun, InFlight, UsesSocket
<1>5. QED
  BY <1>2, <1>3, <1>4 DEF LockInv

LEMMA ConnectFailsLocks ==
  ASSUME ClientTypeOK, LockInv, NEW t \in Senders, ConnectFails(t)
  PROVE  ClientTypeOK' /\ LockInv'
<1>1. PICK result \in Results : CreateClientSocket(result)
  BY DEF ConnectFails
<1>2. /\ at[t] = "open" /\ should_close' = FALSE /\ Returns(t)
      /\ net' = CloseSocket(net, socket) /\ socket' = NoSocket
      /\ UNCHANGED <<keep_alive, in_flight, from_thread, sent, executed, outcome>>
  BY DEF ConnectFails, NeedsConnection
<1>3. opened \in Nat
  BY DEF ClientTypeOK
<1>4. opened' \in Nat /\ opened <= opened' /\ opened' <= MaxConns
  BY <1>1, <1>3, ConnectedSocketExists
<1>5. in_flight' = 0
  BY <1>2, OneSender DEF LockInv, Counted, InFlight, UsesSocket
<1>6. QED
  BY <1>2, <1>4, <1>5, ReturnLocks

LEMMA FinishLocks ==
  ASSUME ClientTypeOK, LockInv, NEW t \in Senders, Finish(t)
  PROVE  ClientTypeOK' /\ LockInv'
<1>1. /\ at[t] \in InFlight /\ at[t] # "idle" /\ Returns(t)
      /\ in_flight' = in_flight - 1
      /\ UNCHANGED <<keep_alive, should_close, opened, sent, executed, outcome>>
      /\ \/ net' = net /\ socket' = socket
         \/ net' = CloseSocket(net, socket) /\ socket' = NoSocket
  BY DEF Finish, InFlight
<1>2. in_flight = 1
  BY <1>1 DEF LockInv, Counted
<1>3. should_close' => socket' = NoSocket
  BY DEF Finish, ClosesWhenDone
<1>4. in_flight' = 0 /\ should_close' \in BOOLEAN /\ opened' \in Nat /\ opened' <= MaxConns
      /\ opened <= opened'
  BY <1>1, <1>2 DEF ClientTypeOK
<1>5. QED
  BY <1>1, <1>3, <1>4, ReturnLocks

(* A step of a request in flight, from one part of it to the next.         *)
LEMMA ProgressLocks ==
  ASSUME ClientTypeOK, LockInv, NEW t \in Senders, NEW next \in InFlight,
         at[t] \in UsesSocket, at' = [at EXCEPT ![t] = next],
         UNCHANGED <<keep_alive, request_mutex, in_flight, should_close, sock,
                     opened, sent, executed>>,
         outcome' \in [Sends -> Sends \cup {Unanswered}],
         net' \in [Conns -> NetType],
         \/ socket' = socket /\ \A d \in Conns : net'[d].open = net[d].open
         \/ /\ next \notin UsesSocket /\ socket' = NoSocket
            /\ \A d \in Conns : ~net'[d].open
  PROVE  ClientTypeOK' /\ LockInv'
<1>1. /\ at[t] \in InFlight /\ at[t] # "idle" /\ next # "idle"
  BY DEF InFlight, UsesSocket
<1>2. in_flight = 1
  BY <1>1 DEF LockInv, Counted
<1>3. \A u \in Senders : u # t => at[u] = "idle" /\ at'[u] = "idle"
  BY <1>1, OneSender DEF ClientTypeOK
<1>4. at'[t] = next
  BY DEF ClientTypeOK
<1>5. ClientTypeOK'
  BY DEF ClientTypeOK, Steps, InFlight, UsesSocket
<1>6. Turns' /\ Begun'
  BY <1>1, <1>3, <1>4 DEF LockInv, Turns, Begun
<1>7. Counted'
  BY <1>2, <1>4 DEF Counted
<1>8. OwnSocket'
  BY <1>3, <1>4 DEF LockInv, OwnSocket, UsesSocket
<1>9. OneOpen' /\ FlagHeeded'
  BY <1>2 DEF LockInv, OneOpen, FlagHeeded, ClientTypeOK
<1>10. QED
  BY <1>5, <1>6, <1>7, <1>8, <1>9 DEF LockInv

LEMMA PartsOf ==
  ASSUME NEW s \in Seq(PartType), s # <<>>
  PROVE  /\ Head(s) \in PartType /\ Tail(s) \in Seq(PartType)
         /\ Len(s) > 0 /\ Head(s) = s[1]
  OBVIOUS

(* The use of a connection by a request.                                   *)
LEMMA WriteLocks ==
  ASSUME ClientTypeOK, LockInv, NEW t \in Senders, Write(t)
  PROVE  ClientTypeOK' /\ LockInv'
<1>1. at[t] = "write" /\ sock[t] = socket /\ socket \in Conns /\ sent \in Sends
  BY DEF Write, LockInv, OwnSocket, UsesSocket, ClientTypeOK, Begun, Sends
<1>2. net[socket] \in NetType /\ Append(net[socket].up, sent) \in Seq(Sends)
  BY <1>1 DEF ClientTypeOK, NetType
<1> DEFINE new == [net[socket] EXCEPT !.up = Append(@, sent)]
<1>3. new \in NetType /\ new.open = net[socket].open
  BY <1>2 DEF NetType
<1>4. net' = net \/ net' = [net EXCEPT ![socket] = new]
  BY <1>1 DEF Write
<1> HIDE DEF new
<1>5. /\ net' \in [Conns -> NetType] /\ \A d \in Conns : net'[d].open = net[d].open
  BY <1>1, <1>3, <1>4 DEF ClientTypeOK
<1>6. /\ at' = [at EXCEPT ![t] = "status"] /\ UNCHANGED <<object, sock, opened, sent, executed, outcome>>
  BY DEF Write
<1>7. /\ UNCHANGED <<keep_alive, request_mutex, in_flight, should_close, sock, opened, sent, executed>>
      /\ socket' = socket /\ outcome' \in [Sends -> Sends \cup {Unanswered}]
  BY <1>6 DEF object, ClientTypeOK
<1>8. "status" \in InFlight /\ at[t] \in UsesSocket
  BY <1>1 DEF InFlight, UsesSocket
<1>9. QED
  BY <1>5, <1>6, <1>7, <1>8, ProgressLocks

(* Reading the next part of an answer.                                     *)
LEMMA ReadNet ==
  ASSUME ClientTypeOK, NEW c \in Conns, net[c].down # <<>>
  PROVE  LET read == [net EXCEPT ![c].down = Tail(@)] IN
         /\ read \in [Conns -> NetType]
         /\ read[c].down = Tail(net[c].down)
         /\ \A d \in Conns : /\ read[d].open = net[d].open
                             /\ read[d].up = net[d].up
                             /\ d # c => read[d] = net[d]
<1>1. net[c] \in NetType /\ net[c].down \in Seq(PartType)
  BY DEF ClientTypeOK, NetType
<1>2. Tail(net[c].down) \in Seq(PartType)
  BY <1>1, PartsOf
<1> DEFINE new == [net[c] EXCEPT !.down = Tail(@)]
<1>3. new \in NetType /\ new.open = net[c].open /\ new.up = net[c].up /\ new.down = Tail(net[c].down)
  BY <1>1, <1>2 DEF NetType
<1>4. [net EXCEPT ![c].down = Tail(@)] = [net EXCEPT ![c] = new]
  OBVIOUS
<1> HIDE DEF new
<1>5. QED
  BY <1>3, <1>4 DEF ClientTypeOK

LEMMA ReadResponseLineLocks ==
  ASSUME ClientTypeOK, LockInv, NEW t \in Senders, ReadResponseLine(t)
  PROVE  ClientTypeOK' /\ LockInv'
<1>1. PICK next \in {"status", "content", "failed"} : Read(t, "status", next)
  BY DEF ReadResponseLine
<1>2. /\ at[t] = "status" /\ net[sock[t]].down # <<>>
      /\ net' = [net EXCEPT ![sock[t]].down = Tail(@)]
      /\ at' = [at EXCEPT ![t] = next]
  BY <1>1 DEF Read
<1>3. /\ UNCHANGED <<keep_alive, request_mutex, in_flight, should_close, sock, opened, sent, executed>>
      /\ socket' = socket /\ outcome' = outcome
  BY DEF ReadResponseLine, object
<1>4. sock[t] \in Conns /\ next \in InFlight /\ at[t] \in UsesSocket
  BY <1>2 DEF LockInv, OwnSocket, UsesSocket, ClientTypeOK, InFlight
<1>5. net' \in [Conns -> NetType] /\ \A d \in Conns : net'[d].open = net[d].open
  BY <1>2, <1>4, ReadNet
<1>6. outcome' \in [Sends -> Sends \cup {Unanswered}]
  BY <1>3 DEF ClientTypeOK
<1>7. QED
  BY <1>2, <1>3, <1>4, <1>5, <1>6, ProgressLocks

LEMMA ReadContentLocks ==
  ASSUME ClientTypeOK, LockInv, NEW t \in Senders, ReadContent(t)
  PROVE  ClientTypeOK' /\ LockInv'
<1> DEFINE c == sock[t]
           part == Head(net[c].down)
           read == [net EXCEPT ![c].down = Tail(@)]
<1>1. /\ at[t] = "content" /\ net[c].down # <<>>
      /\ outcome' = [outcome EXCEPT ![sent] = part.of]
      /\ at' = [at EXCEPT ![t] = "done"]
      /\ HandleRequest(part, read)
      /\ UNCHANGED <<keep_alive, request_mutex, in_flight, from_thread, should_close,
                     sock, opened, sent, executed>>
  BY DEF ReadContent
<1>2. c = socket /\ c \in Conns /\ at[t] \in UsesSocket /\ "done" \in InFlight \ UsesSocket
  BY <1>1 DEF LockInv, OwnSocket, UsesSocket, ClientTypeOK, InFlight
<1>3. net[c].down \in Seq(PartType)
  BY <1>2 DEF ClientTypeOK, NetType
<1>4. part \in PartType
  BY <1>1, <1>3, PartsOf
<1>5. read \in [Conns -> NetType] /\ \A d \in Conns : read[d].open = net[d].open
  BY <1>1, <1>2, ReadNet
<1>6. outcome' \in [Sends -> Sends \cup {Unanswered}]
  BY <1>1, <1>4 DEF ClientTypeOK, PartType
<1> HIDE DEF read, part, c
<1>7. CASE net' = read /\ socket' = socket
  BY <1>1, <1>2, <1>5, <1>6, <1>7, ProgressLocks
<1>8. CASE net' = CloseSocket(read, socket) /\ socket' = NoSocket
  <2>1. socket \in Conns \cup {NoSocket}
    BY DEF ClientTypeOK
  <2>2. /\ net' \in [Conns -> NetType]
        /\ \A d \in Conns : net'[d].open = (read[d].open /\ d # socket)
    BY <1>5, <1>8, <2>1, CloseSocketNet
  <2>3. \A d \in Conns : ~net'[d].open
    BY <1>5, <2>2 DEF LockInv, OneOpen
  <2>4. QED
    BY <1>1, <1>2, <1>6, <1>8, <2>2, <2>3, ProgressLocks
<1>9. QED
  BY <1>1, <1>7, <1>8 DEF HandleRequest

LEMMA FailLocks ==
  ASSUME ClientTypeOK, LockInv, NEW t \in Senders, Fail(t)
  PROVE  ClientTypeOK' /\ LockInv'
<1>1. /\ at[t] \in UsesSocket /\ at' = [at EXCEPT ![t] = "failed"]
      /\ UNCHANGED <<object, sock, opened, net, sent, executed, outcome>>
  BY DEF Fail, CutShort, UsesSocket
<1>2. "failed" \in InFlight
  BY DEF InFlight
<1>3. /\ UNCHANGED <<keep_alive, request_mutex, in_flight, should_close, sock, opened, sent, executed>>
      /\ socket' = socket /\ outcome' \in [Sends -> Sends \cup {Unanswered}]
      /\ net' \in [Conns -> NetType] /\ \A d \in Conns : net'[d].open = net[d].open
  BY <1>1 DEF object, ClientTypeOK
<1>4. QED
  BY <1>1, <1>2, <1>3, ProgressLocks

-----------------------------------------------------------------------------
(* Steps of others than the sender.                                        *)

LEMMA OthersLocks ==
  ASSUME ClientTypeOK, LockInv,
         UNCHANGED <<keep_alive, request_mutex, in_flight, at, sock, opened, sent, outcome>>,
         executed' \in [Sends -> Nat], should_close' \in BOOLEAN,
         in_flight = 0 => should_close' = should_close,
         net' \in [Conns -> NetType],
         \/ socket' = socket /\ \A d \in Conns : net'[d].open = net[d].open
         \/ in_flight = 0 /\ socket' = NoSocket /\ \A d \in Conns : ~net'[d].open
  PROVE  ClientTypeOK' /\ LockInv'
<1>1. ClientTypeOK'
  BY DEF ClientTypeOK
<1>2. in_flight = 0 => \A t \in Senders : at[t] \notin UsesSocket
  BY DEF LockInv, Counted, InFlight
<1>3. Turns' /\ Counted' /\ Begun'
  BY DEF LockInv, Turns, Counted, Begun
<1>4. OwnSocket'
  BY <1>2 DEF LockInv, OwnSocket
<1>5. OneOpen'
  BY DEF LockInv, OneOpen, ClientTypeOK
<1>6. FlagHeeded'
  BY DEF LockInv, FlagHeeded
<1>7. QED
  BY <1>1, <1>3, <1>4, <1>5, <1>6 DEF LockInv

LEMMA StopLocks ==
  ASSUME ClientTypeOK, LockInv, Stop
  PROVE  ClientTypeOK' /\ LockInv'
<1>1. /\ UNCHANGED <<keep_alive, request_mutex, in_flight, at, sock, opened, sent, outcome>>
      /\ executed' \in [Sends -> Nat] /\ net \in [Conns -> NetType]
      /\ socket \in Conns \cup {NoSocket}
  BY DEF Stop, ClientTypeOK
<1>2. CASE in_flight > 0
  <2>1. net' = ShutdownSocket(net, socket) /\ should_close' = TRUE /\ socket' = socket
    BY <1>2 DEF Stop
  <2>2. net' \in [Conns -> NetType] /\ \A d \in Conns : net'[d].open = net[d].open
    BY <1>1, <2>1, ShutdownSocketNet
  <2>3. in_flight # 0
    BY <1>2 DEF ClientTypeOK
  <2>4. QED
    BY <1>1, <2>1, <2>2, <2>3, OthersLocks
<1>3. CASE ~(in_flight > 0)
  <2>1. net' = CloseSocket(net, socket) /\ socket' = NoSocket /\ should_close' = should_close
    BY <1>3 DEF Stop
  <2>2. net' \in [Conns -> NetType] /\ \A d \in Conns : ~net'[d].open
    BY <1>1, <2>1, CloseSocketNet DEF LockInv, OneOpen
  <2>3. in_flight = 0 /\ should_close' \in BOOLEAN
    BY <1>3, <2>1 DEF ClientTypeOK
  <2>4. QED
    BY <1>1, <2>1, <2>2, <2>3, OthersLocks
<1>4. QED
  BY <1>2, <1>3

LEMMA PeerClosesNet ==
  ASSUME ClientTypeOK, NEW c \in Conns, PeerCloses(c)
  PROVE  /\ net' \in [Conns -> NetType] /\ c <= opened
         /\ net'[c].up = <<>> /\ net'[c].down = net[c].down /\ net'[c].open = net[c].open
         /\ \A d \in Conns : d # c => net'[d] = net[d]
<1>1. net[c] \in NetType /\ <<>> \in Seq(Sends)
  BY EmptySeq DEF ClientTypeOK
<1> DEFINE new == [net[c] EXCEPT !.fin = TRUE, !.up = <<>>]
<1>2. new \in NetType /\ new.up = <<>> /\ new.down = net[c].down /\ new.open = net[c].open
  BY <1>1 DEF NetType
<1>3. net' = [net EXCEPT ![c] = new] /\ c <= opened
  BY DEF PeerCloses
<1> HIDE DEF new
<1>4. QED
  BY <1>2, <1>3 DEF ClientTypeOK

LEMMA PeerClosesLocks ==
  ASSUME ClientTypeOK, LockInv, NEW c \in Conns, PeerCloses(c)
  PROVE  ClientTypeOK' /\ LockInv'
<1>1. net' \in [Conns -> NetType] /\ \A d \in Conns : net'[d].open = net[d].open
  BY PeerClosesNet
<1>2. /\ UNCHANGED <<keep_alive, request_mutex, in_flight, at, sock, opened, sent, outcome>>
      /\ executed' = executed /\ should_close' = should_close /\ socket' = socket
  BY DEF PeerCloses, object
<1>3. executed' \in [Sends -> Nat] /\ should_close' \in BOOLEAN
  BY <1>2 DEF ClientTypeOK
<1>4. QED
  BY <1>1, <1>2, <1>3, OthersLocks

(* The parts of an answer belong to one request, its content comes last.   *)
AnswerTo(s, r) ==
  \A i \in 1 .. Len(s) : /\ s[i].of = r
                         /\ s[i].what = "content" => i = Len(s)

LEMMA OnePart ==
  ASSUME NEW r, NEW p \in PartType, p.of = r, p.what # "content"
  PROVE  <<p>> \in Seq(PartType) /\ AnswerTo(<<p>>, r)
<1>1. <<p>> \in Seq(PartType) /\ Len(<<p>>) = 1 /\ <<p>>[1] = p
  OBVIOUS
<1>2. QED
  BY <1>1 DEF AnswerTo

LEMMA TwoParts ==
  ASSUME NEW r, NEW p \in PartType, NEW q \in PartType,
         p.of = r, p.what # "content", q.of = r
  PROVE  <<p, q>> \in Seq(PartType) /\ AnswerTo(<<p, q>>, r)
<1> DEFINE s == <<p, q>>
<1>1. s \in Seq(PartType) /\ Len(s) = 2 /\ s[1] = p /\ s[2] = q
  OBVIOUS
<1> HIDE DEF s
<1>2. s \in Seq(PartType) /\ AnswerTo(s, r)
  BY <1>1 DEF AnswerTo
<1>3. QED
  BY <1>2 DEF s

LEMMA ThreeParts ==
  ASSUME NEW r, NEW p \in PartType, NEW q \in PartType, NEW w \in PartType,
         p.of = r, p.what # "content", q.of = r, q.what # "content", w.of = r
  PROVE  <<p>> \o <<q, w>> \in Seq(PartType) /\ AnswerTo(<<p>> \o <<q, w>>, r)
<1> DEFINE first == <<p>>
           rest == <<q, w>>
           s == first \o rest
<1>1. /\ first \in Seq(PartType) /\ Len(first) = 1 /\ first[1] = p
      /\ rest \in Seq(PartType) /\ Len(rest) = 2 /\ rest[1] = q /\ rest[2] = w
  OBVIOUS
<1> HIDE DEF first, rest
<1>2. /\ s \in Seq(PartType) /\ Len(s) = 3
      /\ s[1] = p /\ s[2] = q /\ s[3] = w
  <2>1. /\ s \in Seq(PartType) /\ Len(s) = Len(first) + Len(rest)
        /\ \A i \in 1 .. Len(first) + Len(rest) :
             s[i] = IF i <= Len(first) THEN first[i] ELSE rest[i - Len(first)]
    BY <1>1, ConcatProperties
  <2> HIDE DEF s
  <2>2. s[1] = first[1] /\ s[2] = rest[1] /\ s[3] = rest[2]
    BY <1>1, <2>1
  <2>3. QED
    BY <1>1, <2>1, <2>2
<1> HIDE DEF s
<1>3. s \in Seq(PartType) /\ AnswerTo(s, r)
  BY <1>2 DEF AnswerTo
<1>4. QED
  BY <1>3 DEF s, first, rest

LEMMA AnswersAre ==
  ASSUME NEW r \in Sends, NEW answer \in Answers(r)
  PROVE  answer \in Seq(PartType) /\ AnswerTo(answer, r)
<1> DEFINE HT == Part("head", r, TRUE)
           HF == Part("head", r, FALSE)
           CT == Part("content", r, TRUE)
           CF == Part("content", r, FALSE)
           K  == Part("continue", r, FALSE)
<1>1. /\ HT \in PartType /\ HT.of = r /\ HT.what = "head"
      /\ HF \in PartType /\ HF.of = r /\ HF.what = "head"
      /\ CT \in PartType /\ CT.of = r /\ CF \in PartType /\ CF.of = r
      /\ K \in PartType /\ K.of = r /\ K.what = "continue"
  BY DEF Part, PartType
<1>2. \/ answer = <<HT, CT>> \/ answer = <<HF, CF>>
      \/ answer = <<K>> \o <<HF, CF>> \/ answer = <<HF>> \/ answer = <<>>
  BY Zenon DEF Answers
<1> HIDE DEF HT, HF, CT, CF, K
<1>3. CASE answer = <<HT, CT>>
  BY <1>1, <1>3, TwoParts
<1>4. CASE answer = <<HF, CF>>
  BY <1>1, <1>4, TwoParts
<1>5. CASE answer = <<K>> \o <<HF, CF>>
  BY <1>1, <1>5, ThreeParts
<1>6. CASE answer = <<HF>>
  BY <1>1, <1>6, OnePart
<1>7. CASE answer = <<>>
  BY <1>7, EmptySeq DEF AnswerTo
<1>8. QED
  BY <1>2, <1>3, <1>4, <1>5, <1>6, <1>7

(* What serving one request does to a connection.                          *)
LEMMA ServeNet ==
  ASSUME ClientTypeOK, NEW c \in Conns, Serve(c)
  PROVE  LET r == Head(net[c].up) IN
         /\ r \in Sends /\ net[c].up # <<>> /\ r = net[c].up[1]
         /\ net' \in [Conns -> NetType]
         /\ net'[c].up = Tail(net[c].up)
         /\ net'[c].open = net[c].open
         /\ \E answer \in Seq(PartType) :
              AnswerTo(answer, r) /\ net'[c].down = IF net[c].open THEN net[c].down \o answer
                                                    ELSE net[c].down
         /\ \A d \in Conns : d # c => net'[d] = net[d]
         /\ executed' = [executed EXCEPT ![r] = @ + 1]
         /\ executed' \in [Sends -> Nat]
         /\ UNCHANGED <<object, at, sock, opened, sent, outcome>>
<1> DEFINE r == Head(net[c].up)
<1>1. net[c] \in NetType /\ net[c].up \in Seq(Sends) /\ net[c].down \in Seq(PartType) /\ net[c].up # <<>>
  BY DEF Serve, ClientTypeOK, NetType
<1>2. r \in Sends /\ Tail(net[c].up) \in Seq(Sends) /\ r = net[c].up[1]
  BY <1>1
<1>3. /\ executed' = [executed EXCEPT ![r] = @ + 1]
      /\ UNCHANGED <<object, at, sock, opened, sent, outcome>>
  BY DEF Serve
<1>4. PICK answer \in Answers(r) :
        net' = [net EXCEPT
            ![c].up = Tail(@),
            ![c].down = IF net[c].open THEN @ \o answer ELSE @,
            ![c].fin = answer = <<>> \/ Last(answer).what # "content" \/ Last(answer).closing]
  BY Zenon DEF Serve
<1>5. answer \in Seq(PartType) /\ AnswerTo(answer, r)
  BY <1>2, AnswersAre
<1> DEFINE down == IF net[c].open THEN net[c].down \o answer ELSE net[c].down
           fin == answer = <<>> \/ Last(answer).what # "content" \/ Last(answer).closing
           new == [net[c] EXCEPT !.up = Tail(@), !.down = down, !.fin = fin]
<1>6. down \in Seq(PartType)
  BY <1>1, <1>5
<1>7. fin \in BOOLEAN
  OBVIOUS
<1>8. net' = [net EXCEPT ![c] = new]
  BY <1>4
<1> HIDE DEF r, down, fin
<1>9. /\ new \in NetType /\ new.up = Tail(net[c].up) /\ new.open = net[c].open
      /\ new.down = down
  BY <1>1, <1>2, <1>6, <1>7 DEF NetType
<1> HIDE DEF new
<1>10. executed' \in [Sends -> Nat]
  BY <1>2, <1>3 DEF ClientTypeOK
<1>11. /\ net' \in [Conns -> NetType] /\ net'[c] = new
       /\ \A d \in Conns : d # c => net'[d] = net[d]
  BY <1>8, <1>9 DEF ClientTypeOK
<1>12. QED
  BY <1>1, <1>2, <1>3, <1>5, <1>9, <1>10, <1>11 DEF r, down

LEMMA ServeLocks ==
  ASSUME ClientTypeOK, LockInv, NEW c \in Conns, Serve(c)
  PROVE  ClientTypeOK' /\ LockInv'
<1>1. /\ net' \in [Conns -> NetType] /\ \A d \in Conns : net'[d].open = net[d].open
      /\ executed' \in [Sends -> Nat]
      /\ UNCHANGED <<object, at, sock, opened, sent, outcome>>
  BY ServeNet
<1>2. /\ UNCHANGED <<keep_alive, request_mutex, in_flight, at, sock, opened, sent, outcome>>
      /\ should_close' = should_close /\ socket' = socket /\ should_close' \in BOOLEAN
  BY <1>1 DEF object, ClientTypeOK
<1>3. QED
  BY <1>1, <1>2, OthersLocks

LEMMA UnchangedLocks ==
  ASSUME ClientTypeOK, LockInv, UNCHANGED clientVars
  PROVE  ClientTypeOK' /\ LockInv'
BY DEF ClientTypeOK, LockInv, Turns, Counted, OwnSocket, OneOpen, FlagHeeded, Begun,
   clientVars, object

LEMMA LocksStep ==
  ASSUME ClientTypeOK, LockInv, [ClientNext]_clientVars
  PROVE  ClientTypeOK' /\ LockInv'
<1>1. CASE UNCHANGED clientVars
  BY <1>1, UnchangedLocks
<1>2. ASSUME NEW t \in Senders, SenderStep(t) PROVE ClientTypeOK' /\ LockInv'
  BY <1>2, SendLocks, ReuseLocks, ConnectLocks, ConnectFailsLocks, WriteLocks,
     ReadResponseLineLocks, ReadContentLocks, FailLocks, FinishLocks DEF SenderStep
<1>3. CASE Stop
  BY <1>3, StopLocks
<1>4. ASSUME NEW c \in Conns, Serve(c) \/ PeerCloses(c) PROVE ClientTypeOK' /\ LockInv'
  BY <1>4, ServeLocks, PeerClosesLocks
<1>5. QED
  BY <1>1, <1>2, <1>3, <1>4 DEF ClientNext, AllSent

LEMMA Locks == ClientSpec => [](ClientTypeOK /\ LockInv)
<1>1. ClientInit => ClientTypeOK /\ LockInv
  BY ClientInitially
<1>2. (ClientTypeOK /\ LockInv) /\ [ClientNext]_clientVars => (ClientTypeOK /\ LockInv)'
  BY LocksStep
<1>3. QED
  BY <1>1, <1>2, PTL DEF ClientSpec

(* The descriptor a thread reads and writes is the client's socket and is  *)
(* open, for any number of threads, requests, sockets and addresses: stop  *)
(* closes nothing that is in use.                                          *)
THEOREM ClientSocketStaysOpen == ClientSpec => []SocketInUseStaysOpen
<1>1. ClientTypeOK /\ LockInv => SocketInUseStaysOpen
  BY DEF LockInv, OwnSocket, OneOpen, UsesSocket, SocketInUseStaysOpen
<1>2. QED
  BY <1>1, Locks, PTL

(* The client keeps one descriptor at most, and none once a stop has been  *)
(* carried out.                                                            *)
THEOREM ClientLeaksNoSocket == ClientSpec => []StoppedMeansClosed
<1>1. ClientTypeOK /\ LockInv => StoppedMeansClosed
  BY DEF LockInv, OneOpen, FlagHeeded, StoppedMeansClosed
<1>2. QED
  BY <1>1, Locks, PTL

-----------------------------------------------------------------------------
(* What is on the connections.  A socket that is kept between two requests *)
(* is clean: the last request was answered and its answer read to the end. *)
(* So whatever arrives on it next answers the request that is written      *)
(* next.  Answers that come too late are on sockets that were closed.      *)

Spare == \A c \in Conns : c > opened => net[c] = Fresh

Waits(c, r) == net[c].up # <<>> /\ net[c].up[1] = r

OneWaits ==
  \A c \in Conns : net[c].up # <<>> => /\ Len(net[c].up) = 1
                                       /\ net[c].up[1] <= sent
                                       /\ executed[net[c].up[1]] = 0

NoTwin == \A c, d \in Conns : \A r \in Sends : Waits(c, r) /\ Waits(d, r) => c = d

Once == \A r \in Sends : executed[r] <= 1 /\ (r > sent => executed[r] = 0)

NewYet ==
  \A t \in Senders : at[t] \in {"open", "write"} =>
    executed[sent] = 0 /\ \A c \in Conns : ~Waits(c, sent)

Clean(c) == net[c].up = <<>> /\ net[c].down = <<>>

CleanSocket ==
  /\ \A t \in Senders : at[t] \notin {"status", "content", "failed"}
  /\ socket # NoSocket
  => Clean(socket)

OwnAnswer ==
  \A t \in Senders :
    /\ at[t] \in {"status", "content"} => AnswerTo(net[socket].down, sent)
    /\ at[t] = "status" /\ net[socket].up # <<>> =>
         net[socket].up[1] = sent /\ net[socket].down = <<>>
    /\ at[t] = "content" => net[socket].up = <<>>

WireInv == Spare /\ OneWaits /\ NoTwin /\ Once /\ NewYet /\ CleanSocket /\ OwnAnswer /\ AnswerIsOwn

BothInv == ClientTypeOK /\ LockInv /\ WireInv

LEMMA WireInitially == ClientInit => WireInv
<1> SUFFICES ASSUME ClientInit PROVE WireInv
  OBVIOUS
<1>1. \A c \in Conns : net[c] = Fresh /\ net[c].up = <<>>
  BY DEF ClientInit, Fresh
<1>2. Spare /\ OneWaits /\ NoTwin
  BY <1>1 DEF Spare, OneWaits, NoTwin, Waits
<1>3. Once /\ AnswerIsOwn
  BY DEF ClientInit, Once, AnswerIsOwn
<1>4. NewYet /\ CleanSocket /\ OwnAnswer
  BY DEF ClientInit, NewYet, CleanSocket, OwnAnswer
<1>5. QED
  BY <1>2, <1>3, <1>4 DEF WireInv

(* The requests under way and the counts of those executed are untouched.  *)
LEMMA SameRequests ==
  ASSUME ClientTypeOK, OneWaits, NoTwin, Once, AnswerIsOwn,
         sent' = sent, executed' = executed, outcome' = outcome,
         \A c \in Conns : net'[c].up = net[c].up
  PROVE  OneWaits' /\ NoTwin' /\ Once' /\ AnswerIsOwn'
BY DEF OneWaits, NoTwin, Once, AnswerIsOwn, Waits

LEMMA SendWire ==
  ASSUME BothInv, NEW t \in Senders, Send(t)
  PROVE  WireInv'
<1>1. /\ \A u \in Senders : at[u] = "idle"
      /\ \A u \in Senders : at'[u] = IF u = t THEN "open" ELSE "idle"
  BY ClientAssumption DEF Send, BothInv, LockInv, Turns, ClientTypeOK
<1>2. /\ sent' = sent + 1 /\ sent \in Nat /\ net' = net /\ executed' = executed
      /\ socket' = socket /\ opened' = opened /\ outcome' = outcome /\ sent' \in Sends
  BY ClientAssumption DEF Send, BothInv, ClientTypeOK, Sends
<1>3. Spare' /\ NoTwin' /\ AnswerIsOwn'
  BY <1>2 DEF BothInv, WireInv, Spare, NoTwin, Waits, AnswerIsOwn
<1>4. \A c \in Conns : net[c].up # <<>> => net[c].up[1] \in Sends
  BY DEF BothInv, ClientTypeOK, NetType
<1>5. OneWaits'
  BY <1>2, <1>4 DEF BothInv, WireInv, OneWaits, Sends
<1>6. Once'
  BY <1>2 DEF BothInv, WireInv, Once, Sends
<1>7. NewYet'
  <2>1. executed[sent + 1] = 0
    BY <1>2 DEF BothInv, WireInv, Once
  <2>2. \A c \in Conns : ~Waits(c, sent + 1)
    BY <1>2, <1>4 DEF BothInv, WireInv, OneWaits, Waits, Sends
  <2>3. QED
    BY <1>2, <2>1, <2>2 DEF NewYet, Waits
<1>8. CleanSocket' /\ OwnAnswer'
  BY <1>1, <1>2 DEF BothInv, WireInv, CleanSocket, OwnAnswer, Clean
<1>9. QED
  BY <1>3, <1>5, <1>6, <1>7, <1>8 DEF WireInv

LEMMA ReuseWire ==
  ASSUME BothInv, NEW t \in Senders, Reuse(t)
  PROVE  WireInv'
<1>1. /\ at[t] = "open" /\ at' = [at EXCEPT ![t] = "write"] /\ socket' = socket
      /\ net' = net /\ opened' = opened /\ sent' = sent /\ executed' = executed
      /\ outcome' = outcome
  BY DEF Reuse, EntersFlight
<1>2. /\ \A u \in Senders : u # t => at[u] = "idle"
      /\ \A u \in Senders : at'[u] = IF u = t THEN "write" ELSE "idle"
  BY <1>1, OneSender DEF BothInv, ClientTypeOK
<1>3. Spare' /\ OneWaits' /\ NoTwin' /\ Once' /\ AnswerIsOwn'
  BY <1>1 DEF BothInv, WireInv, Spare, OneWaits, NoTwin, Waits, Once, AnswerIsOwn
<1>4. NewYet'
  BY <1>1, <1>2 DEF BothInv, WireInv, NewYet, Waits
<1>5. CleanSocket' /\ OwnAnswer'
  BY <1>1, <1>2 DEF BothInv, WireInv, CleanSocket, OwnAnswer, Clean
<1>6. QED
  BY <1>3, <1>4, <1>5 DEF WireInv

LEMMA ConnectWire ==
  ASSUME BothInv, NEW t \in Senders, Connect(t)
  PROVE  WireInv'
<1>1. PICK result \in Results :
        /\ CreateClientSocket(result) /\ result.ok
        /\ net' = [CloseSocket(net, socket) EXCEPT ![opened + result.made].open = TRUE]
        /\ EntersFlight(t, opened + result.made)
  BY DEF Connect
<1> DEFINE c == opened + result.made
<1>2. opened \in Nat
  BY DEF BothInv, ClientTypeOK
<1>3. /\ result.made \in Nat /\ result.made > 0
      /\ opened' = c /\ opened' \in Nat /\ opened' <= MaxConns
  BY <1>1, <1>2, ConnectedSocketExists
<1>4. c \in Conns /\ c > opened /\ c # socket /\ c # NoSocket
  BY <1>2, <1>3 DEF Conns, BothInv, LockInv, OneOpen, NoSocket
<1>5. /\ net' = [CloseSocket(net, socket) EXCEPT ![c].open = TRUE]
      /\ at[t] = "open" /\ at' = [at EXCEPT ![t] = "write"] /\ socket' = c
      /\ sent' = sent /\ executed' = executed /\ outcome' = outcome
  BY <1>1 DEF Connect, NeedsConnection, EntersFlight
<1> HIDE DEF c
<1>6. /\ net'[c].up = net[c].up /\ net'[c].down = net[c].down
      /\ \A d \in Conns : /\ net'[d].up = net[d].up
                          /\ d # c /\ d # socket => net'[d] = net[d]
  BY <1>4, <1>5, ReplacedSocket DEF BothInv, LockInv
<1>7. net[c] = Fresh
  BY <1>4 DEF BothInv, WireInv, Spare
<1>8. net'[c].up = <<>> /\ net'[c].down = <<>>
  BY <1>6, <1>7 DEF Fresh
<1>9. Spare'
  <2>1. ASSUME NEW d \in Conns, d > opened' PROVE net'[d] = Fresh
    <3>1. d > opened /\ d # c /\ d # socket
      BY <1>2, <1>3, <1>4, <2>1 DEF Conns, BothInv, LockInv, OneOpen, NoSocket
    <3>2. QED
      BY <1>6, <3>1 DEF BothInv, WireInv, Spare
  <2>2. QED
    BY <2>1 DEF Spare
<1>10. OneWaits' /\ NoTwin' /\ Once' /\ AnswerIsOwn'
  BY <1>5, <1>6, SameRequests DEF BothInv, WireInv
<1>11. /\ \A u \in Senders : u # t => at[u] = "idle"
       /\ \A u \in Senders : at'[u] = IF u = t THEN "write" ELSE "idle"
  BY <1>5, OneSender DEF BothInv, ClientTypeOK
<1>12. NewYet'
  BY <1>5, <1>6, <1>11 DEF BothInv, WireInv, NewYet, Waits
<1>13. CleanSocket' /\ OwnAnswer'
  BY <1>5, <1>8, <1>11 DEF CleanSocket, OwnAnswer, Clean
<1>14. QED
  BY <1>9, <1>10, <1>12, <1>13 DEF WireInv

(* send() returns: the socket is gone, or as it was and clean.             *)
LEMMA ReturnWire ==
  ASSUME BothInv, NEW t \in Senders, at[t] # "idle", Returns(t),
         sent' = sent, executed' = executed, outcome' = outcome,
         opened' \in Nat, opened <= opened',
         \/ net' = net /\ socket' = socket /\ at[t] \notin {"status", "content", "failed"}
         \/ net' = CloseSocket(net, socket) /\ socket' = NoSocket
  PROVE  WireInv'
<1>1. \A u \in Senders : at'[u] = "idle" /\ (u # t => at[u] = "idle")
  BY OneSender DEF Returns, BothInv, ClientTypeOK
<1>2. \A c \in Conns : net'[c].up = net[c].up /\ (c # socket => net'[c] = net[c])
  BY CloseSocketNet DEF BothInv, ClientTypeOK
<1>3. Spare'
  <2>1. ASSUME NEW d \in Conns, d > opened' PROVE net'[d] = Fresh
    <3>1. d > opened /\ d # socket
      BY <2>1 DEF Conns, BothInv, LockInv, OneOpen, NoSocket, ClientTypeOK
    <3>2. QED
      BY <1>2, <3>1 DEF BothInv, WireInv, Spare
  <2>2. QED
    BY <2>1 DEF Spare
<1>4. OneWaits' /\ NoTwin' /\ Once' /\ AnswerIsOwn'
  BY <1>2, SameRequests DEF BothInv, WireInv
<1>5. NewYet' /\ OwnAnswer'
  BY <1>1 DEF NewYet, OwnAnswer
<1>6. CleanSocket'
  BY <1>1 DEF BothInv, WireInv, CleanSocket, Clean
<1>7. QED
  BY <1>3, <1>4, <1>5, <1>6 DEF WireInv

LEMMA ConnectFailsWire ==
  ASSUME BothInv, NEW t \in Senders, ConnectFails(t)
  PROVE  WireInv'
<1>1. PICK result \in Results : CreateClientSocket(result)
  BY DEF ConnectFails
<1>2. opened \in Nat
  BY DEF BothInv, ClientTypeOK
<1>3. opened' \in Nat /\ opened <= opened'
  BY <1>1, <1>2, ConnectedSocketExists
<1>4. /\ at[t] # "idle" /\ Returns(t)
      /\ net' = CloseSocket(net, socket) /\ socket' = NoSocket
      /\ sent' = sent /\ executed' = executed /\ outcome' = outcome
  BY DEF ConnectFails, NeedsConnection
<1>5. QED
  BY <1>3, <1>4, ReturnWire

LEMMA FinishWire ==
  ASSUME BothInv, NEW t \in Senders, Finish(t)
  PROVE  WireInv'
<1>1. /\ at[t] # "idle" /\ Returns(t)
      /\ sent' = sent /\ executed' = executed /\ outcome' = outcome /\ opened' = opened
  BY DEF Finish
<1>2. \/ net' = net /\ socket' = socket /\ at[t] \notin {"status", "content", "failed"}
      \/ net' = CloseSocket(net, socket) /\ socket' = NoSocket
  BY DEF Finish, ClosesWhenDone
<1>3. opened' \in Nat /\ opened <= opened'
  BY <1>1 DEF BothInv, ClientTypeOK
<1>4. QED
  BY <1>1, <1>2, <1>3, ReturnWire

(* The thread whose request is in flight is the only one that is not idle. *)
LEMMA Phase ==
  ASSUME BothInv, NEW t \in Senders, NEW next, at[t] # "idle",
         at' = [at EXCEPT ![t] = next]
  PROVE  \A u \in Senders : /\ u # t => at[u] = "idle"
                            /\ at'[u] = IF u = t THEN next ELSE "idle"
BY OneSender DEF BothInv, ClientTypeOK

LEMMA WriteWire ==
  ASSUME BothInv, NEW t \in Senders, Write(t)
  PROVE  WireInv'
<1>1. at[t] = "write" /\ at' = [at EXCEPT ![t] = "status"]
  BY DEF Write
<1>2. /\ sock[t] = socket /\ socket \in Conns /\ socket # NoSocket
      /\ socket <= opened /\ sent \in Sends
  BY <1>1 DEF BothInv, LockInv, OwnSocket, OneOpen, UsesSocket, ClientTypeOK, Begun, Sends
<1>3. /\ UNCHANGED <<sock, opened, sent, executed, outcome>> /\ socket' = socket
  BY DEF Write, object
<1>4. \A u \in Senders : /\ u # t => at[u] = "idle"
                         /\ at'[u] = IF u = t THEN "status" ELSE "idle"
  BY <1>1, Phase
<1>5. net[socket].up = <<>> /\ net[socket].down = <<>>
  BY <1>1, <1>2, <1>4 DEF BothInv, WireInv, CleanSocket, Clean
<1>6. executed[sent] = 0 /\ \A c \in Conns : ~Waits(c, sent)
  BY <1>1 DEF BothInv, WireInv, NewYet
<1>7. /\ \A d \in Conns : d # socket => net'[d] = net[d]
      /\ net'[socket].down = <<>>
      /\ \/ net'[socket].up = <<>>
         \/ /\ net'[socket].up # <<>> /\ Len(net'[socket].up) = 1
            /\ net'[socket].up[1] = sent
  <2>1. CASE net' = net
    BY <1>5, <2>1
  <2>2. CASE net' = [net EXCEPT ![socket].up = Append(@, sent)]
    <3>1. net[socket] \in NetType
      BY <1>2 DEF BothInv, ClientTypeOK
    <3>2. /\ net'[socket].up = Append(<<>>, sent) /\ net'[socket].down = <<>>
          /\ \A d \in Conns : d # socket => net'[d] = net[d]
      BY <1>2, <1>5, <2>2, <3>1 DEF BothInv, ClientTypeOK, NetType
    <3>3. /\ Append(<<>>, sent) # <<>> /\ Len(Append(<<>>, sent)) = 1
          /\ Append(<<>>, sent)[1] = sent
      OBVIOUS
    <3>4. QED
      BY <3>2, <3>3
  <2>3. QED
    BY <1>2, <2>1, <2>2 DEF Write
<1>8. Spare'
  BY <1>2, <1>3, <1>7 DEF BothInv, WireInv, Spare, Conns, ClientTypeOK
<1>9. OneWaits'
  BY <1>2, <1>3, <1>6, <1>7 DEF BothInv, WireInv, OneWaits, Sends
<1>10. NoTwin'
  BY <1>2, <1>3, <1>6, <1>7 DEF BothInv, WireInv, NoTwin, Waits
<1>11. Once' /\ AnswerIsOwn'
  BY <1>3 DEF BothInv, WireInv, Once, AnswerIsOwn
<1>12. NewYet' /\ CleanSocket'
  BY <1>4 DEF NewYet, CleanSocket
<1>13. OwnAnswer'
  BY <1>3, <1>4, <1>7 DEF OwnAnswer, AnswerTo
<1>14. QED
  BY <1>8, <1>9, <1>10, <1>11, <1>12, <1>13 DEF WireInv

(* Reading goes through an answer in order.                                *)
LEMMA AnswerRead ==
  ASSUME NEW s \in Seq(PartType), s # <<>>, NEW r, AnswerTo(s, r)
  PROVE  /\ Head(s).of = r
         /\ AnswerTo(Tail(s), r)
         /\ Head(s).what = "content" => Tail(s) = <<>>
<1> DEFINE n == Len(s)
           rest == Tail(s)
           m == Len(rest)
<1>1. /\ n \in Nat /\ n > 0 /\ Head(s) = s[1] /\ m \in Nat /\ n = m + 1
      /\ rest \in Seq(PartType)
      /\ \A i \in 1 .. m : rest[i] = s[i + 1]
  OBVIOUS
<1>2. \A i \in 1 .. n : s[i].of = r /\ (s[i].what = "content" => i = n)
  BY DEF AnswerTo
<1>3. m = 0 => rest = <<>>
  BY <1>1, EmptySeq
<1> HIDE DEF n, m, rest
<1>4. \A i \in 1 .. m : rest[i].of = r /\ (rest[i].what = "content" => i = m)
  <2>1. \A i \in 1 .. m : i + 1 \in 1 .. n /\ (i + 1 = n => i = m)
    BY <1>1
  <2>2. QED
    BY SMTT(60), <1>1, <1>2, <2>1
<1>5. s[1].of = r /\ (s[1].what = "content" => m = 0)
  <2>1. 1 \in 1 .. n /\ (1 = n => m = 0)
    BY <1>1
  <2>2. QED
    BY <1>2, <2>1
<1>6. AnswerTo(rest, r)
  BY <1>4 DEF AnswerTo, m
<1>7. QED
  BY <1>1, <1>3, <1>5, <1>6 DEF rest

LEMMA ReadResponseLineWire ==
  ASSUME BothInv, NEW t \in Senders, ReadResponseLine(t)
  PROVE  WireInv'
<1>1. PICK next \in {"status", "content", "failed"} : Read(t, "status", next)
  BY DEF ReadResponseLine
<1>2. /\ at[t] = "status" /\ net[sock[t]].down # <<>>
      /\ net' = [net EXCEPT ![sock[t]].down = Tail(@)]
      /\ at' = [at EXCEPT ![t] = next]
  BY <1>1 DEF Read
<1>3. /\ UNCHANGED <<sock, opened, sent, executed, outcome>> /\ socket' = socket
  BY DEF ReadResponseLine, object
<1>4. sock[t] = socket /\ socket \in Conns /\ socket <= opened
  BY <1>2 DEF BothInv, LockInv, OwnSocket, OneOpen, UsesSocket, ClientTypeOK
<1>5. \A u \in Senders : /\ u # t => at[u] = "idle"
                         /\ at'[u] = IF u = t THEN next ELSE "idle"
  BY <1>2, Phase
<1>6. /\ net'[socket].down = Tail(net[socket].down)
      /\ \A d \in Conns : /\ net'[d].up = net[d].up
                          /\ d # socket => net'[d] = net[d]
  BY <1>2, <1>4, ReadNet DEF BothInv
<1>7. /\ AnswerTo(net[socket].down, sent) /\ net[socket].down # <<>>
      /\ net[socket].up = <<>>
  BY <1>2, <1>4 DEF BothInv, WireInv, OwnAnswer
<1>8. net[socket].down \in Seq(PartType)
  BY <1>4 DEF BothInv, ClientTypeOK, NetType
<1>9. AnswerTo(net'[socket].down, sent)
  BY <1>6, <1>7, <1>8, AnswerRead
<1>10. Spare'
  BY <1>3, <1>4, <1>6 DEF BothInv, WireInv, Spare, Conns, ClientTypeOK
<1>11. OneWaits' /\ NoTwin' /\ Once' /\ AnswerIsOwn'
  BY <1>3, <1>6, SameRequests DEF BothInv, WireInv
<1>12. NewYet' /\ CleanSocket'
  BY <1>5 DEF NewYet, CleanSocket
<1>13. OwnAnswer'
  BY <1>3, <1>4, <1>5, <1>6, <1>7, <1>9 DEF OwnAnswer
<1>14. QED
  BY <1>10, <1>11, <1>12, <1>13 DEF WireInv

LEMMA ReadContentWire ==
  ASSUME BothInv, NEW t \in Senders, ReadContent(t)
  PROVE  WireInv'
<1> DEFINE part == Head(net[socket].down)
           read == [net EXCEPT ![socket].down = Tail(@)]
<1>1. at[t] = "content" /\ at' = [at EXCEPT ![t] = "done"]
  BY DEF ReadContent
<1>2. sock[t] = socket /\ socket \in Conns /\ socket <= opened
  BY <1>1 DEF BothInv, LockInv, OwnSocket, OneOpen, UsesSocket, ClientTypeOK
<1>3. /\ net[socket].down # <<>> /\ part.what = "content"
      /\ outcome' = [outcome EXCEPT ![sent] = part.of]
      /\ HandleRequest(part, read)
      /\ sent' = sent /\ opened' = opened /\ executed' = executed
  BY <1>2 DEF ReadContent
<1>4. \A u \in Senders : /\ u # t => at[u] = "idle"
                         /\ at'[u] = IF u = t THEN "done" ELSE "idle"
  BY <1>1, Phase
<1>5. /\ read \in [Conns -> NetType]
      /\ read[socket].down = Tail(net[socket].down)
      /\ \A d \in Conns : /\ read[d].up = net[d].up
                          /\ d # socket => read[d] = net[d]
  BY <1>2, <1>3, ReadNet DEF BothInv
<1>6. AnswerTo(net[socket].down, sent) /\ net[socket].up = <<>>
  BY <1>1 DEF BothInv, WireInv, OwnAnswer
<1>7. net[socket].down \in Seq(PartType)
  BY <1>2 DEF BothInv, ClientTypeOK, NetType
<1>8. part.of = sent /\ read[socket].down = <<>> /\ read[socket].up = <<>>
  BY <1>3, <1>5, <1>6, <1>7, AnswerRead
<1>9. AnswerIsOwn'
  BY <1>3, <1>8 DEF BothInv, WireInv, AnswerIsOwn, ClientTypeOK
<1> HIDE DEF part, read
<1>10. \/ net' = read /\ socket' = socket
       \/ net' = CloseSocket(read, socket) /\ socket' = NoSocket
  BY <1>3 DEF HandleRequest
<1>11. \A d \in Conns : net'[d].up = net[d].up /\ (d # socket => net'[d] = net[d])
  BY <1>2, <1>5, <1>10, CloseSocketNet
<1>12. Spare'
  BY <1>2, <1>3, <1>11 DEF BothInv, WireInv, Spare, Conns, ClientTypeOK
<1>13. OneWaits' /\ NoTwin' /\ Once'
  BY <1>3, <1>11 DEF BothInv, WireInv, OneWaits, NoTwin, Waits, Once
<1>14. NewYet' /\ OwnAnswer'
  BY <1>4 DEF NewYet, OwnAnswer
<1>15. CleanSocket'
  BY <1>8, <1>10 DEF CleanSocket, Clean
<1>16. QED
  BY <1>9, <1>12, <1>13, <1>14, <1>15 DEF WireInv

LEMMA FailWire ==
  ASSUME BothInv, NEW t \in Senders, Fail(t)
  PROVE  WireInv'
<1>1. /\ at[t] # "idle" /\ at' = [at EXCEPT ![t] = "failed"]
      /\ UNCHANGED <<object, sock, opened, net, sent, executed, outcome>>
  BY DEF Fail, CutShort
<1>2. \A u \in Senders : /\ u # t => at[u] = "idle"
                         /\ at'[u] = IF u = t THEN "failed" ELSE "idle"
  BY <1>1, Phase
<1>3. Spare' /\ OneWaits' /\ NoTwin' /\ Once' /\ AnswerIsOwn'
  BY <1>1 DEF BothInv, WireInv, Spare, OneWaits, NoTwin, Waits, Once, AnswerIsOwn
<1>4. NewYet' /\ CleanSocket' /\ OwnAnswer'
  BY <1>2 DEF NewYet, CleanSocket, OwnAnswer
<1>5. QED
  BY <1>3, <1>4 DEF WireInv

LEMMA StopWire ==
  ASSUME BothInv, Stop
  PROVE  WireInv'
<1>1. /\ UNCHANGED <<at, sock, opened, sent, executed, outcome>>
      /\ net \in [Conns -> NetType] /\ socket \in Conns \cup {NoSocket}
      /\ in_flight \in Nat
  BY DEF Stop, BothInv, ClientTypeOK
<1>2. \/ /\ in_flight > 0 /\ net' = ShutdownSocket(net, socket) /\ socket' = socket
      \/ /\ in_flight = 0 /\ net' = CloseSocket(net, socket) /\ socket' = NoSocket
  BY <1>1 DEF Stop
<1>3. \A d \in Conns : net'[d].up = net[d].up /\ (d # socket => net'[d] = net[d])
  BY <1>1, <1>2, ShutdownSocketNet, CloseSocketNet
<1>4. \A d \in Conns : d > opened => d # socket
  BY DEF BothInv, LockInv, OneOpen, Conns, NoSocket, ClientTypeOK
<1>5. Spare'
  BY <1>1, <1>3, <1>4 DEF BothInv, WireInv, Spare
<1>6. OneWaits' /\ NoTwin' /\ Once' /\ AnswerIsOwn'
  BY <1>1, <1>3, SameRequests DEF BothInv, WireInv
<1>7. NewYet'
  BY <1>1, <1>3 DEF BothInv, WireInv, NewYet, Waits
<1>8. CASE in_flight > 0
  <2>1. net' = ShutdownSocket(net, socket) /\ socket' = socket
    BY <1>2, <1>8
  <2>2. \A d \in Conns : net'[d].up = net[d].up /\ net'[d].down = net[d].down
    BY <1>1, <2>1, ShutdownSocketNet
  <2>3. \A u \in Senders : at[u] \in {"status", "content"} => socket \in Conns
    BY DEF BothInv, LockInv, OwnSocket, UsesSocket, ClientTypeOK
  <2>4. OwnAnswer'
    BY <1>1, <2>1, <2>2, <2>3 DEF BothInv, WireInv, OwnAnswer
  <2>5. CleanSocket'
    BY <1>1, <2>1, <2>2 DEF BothInv, WireInv, CleanSocket, Clean
  <2>6. QED
    BY <1>5, <1>6, <1>7, <2>4, <2>5 DEF WireInv
<1>9. CASE in_flight = 0
  <2>1. socket' = NoSocket
    BY <1>2, <1>9
  <2>2. \A u \in Senders : at[u] \notin {"status", "content"}
    BY <1>9 DEF BothInv, LockInv, Counted, InFlight, UsesSocket
  <2>3. OwnAnswer' /\ CleanSocket'
    BY <1>1, <2>1, <2>2 DEF OwnAnswer, CleanSocket
  <2>4. QED
    BY <1>5, <1>6, <1>7, <2>3 DEF WireInv
<1>10. QED
  BY <1>2, <1>8, <1>9

(* The server executes the one request that waits on a connection.         *)
LEMMA ServeWire ==
  ASSUME BothInv, NEW c \in Conns, Serve(c)
  PROVE  WireInv'
<1> DEFINE r == net[c].up[1]
<1>1. /\ net[c].up # <<>> /\ Head(net[c].up) = r /\ r \in Sends
      /\ net' \in [Conns -> NetType]
      /\ net'[c].up = Tail(net[c].up)
      /\ \E answer \in Seq(PartType) :
           AnswerTo(answer, r) /\ net'[c].down = IF net[c].open THEN net[c].down \o answer
                                                 ELSE net[c].down
      /\ \A d \in Conns : d # c => net'[d] = net[d]
      /\ executed' = [executed EXCEPT ![r] = @ + 1]
      /\ UNCHANGED <<object, at, sock, opened, sent, outcome>>
  BY ServeNet DEF BothInv
<1>2. socket' = socket
  BY <1>1 DEF object
<1>3. Len(net[c].up) = 1 /\ r <= sent /\ executed[r] = 0
  BY <1>1 DEF BothInv, WireInv, OneWaits
<1>4. net[c].up \in Seq(Sends) /\ executed \in [Sends -> Nat] /\ sent \in Nat
      /\ opened \in Nat /\ net[c].down \in Seq(PartType)
  BY DEF BothInv, ClientTypeOK, NetType
<1>5. net'[c].up = <<>>
  <2>1. Tail(net[c].up) \in Seq(Sends) /\ Len(Tail(net[c].up)) = 0
    BY <1>1, <1>3, <1>4
  <2>2. QED
    BY <1>1, <2>1, EmptySeq
<1>6. Waits(c, r)
  BY <1>1 DEF Waits
<1> HIDE DEF r
<1>7. \A q \in Sends : executed'[q] = IF q = r THEN 1 ELSE executed[q]
  BY <1>1, <1>3, <1>4
<1>8. \A d \in Conns : d # c => ~Waits(d, r)
  BY <1>1, <1>6 DEF BothInv, WireInv, NoTwin
<1>9. Spare'
  <2>1. c <= opened
    <3>1. Fresh.up = <<>>
      BY DEF Fresh
    <3>2. ~(c > opened)
      BY <1>1, <3>1 DEF BothInv, WireInv, Spare
    <3>3. c \in Nat
      BY DEF Conns
    <3>4. QED
      BY <1>4, <3>2, <3>3
  <2>2. ASSUME NEW d \in Conns, d > opened' PROVE net'[d] = Fresh
    <3>1. d # c /\ d > opened
      BY <1>1, <1>4, <2>1, <2>2 DEF Conns
    <3>2. QED
      BY <1>1, <3>1 DEF BothInv, WireInv, Spare
  <2>3. QED
    BY <2>2 DEF Spare
<1>10. OneWaits'
  <2>1. ASSUME NEW d \in Conns, net'[d].up # <<>>
        PROVE  /\ Len(net'[d].up) = 1 /\ net'[d].up[1] <= sent'
               /\ executed'[net'[d].up[1]] = 0
    <3>1. d # c /\ net'[d] = net[d] /\ net[d].up # <<>>
      BY <1>1, <1>5, <2>1
    <3>2. net[d].up \in Seq(Sends)
      BY DEF BothInv, ClientTypeOK, NetType
    <3>3. Len(net[d].up) = 1 /\ net[d].up[1] <= sent /\ executed[net[d].up[1]] = 0
      BY <3>1 DEF BothInv, WireInv, OneWaits
    <3>4. net[d].up[1] \in Sends
      BY <3>2, <3>3
    <3>5. net[d].up[1] # r
      BY <1>8, <3>1 DEF Waits
    <3>6. QED
      BY <1>1, <1>7, <3>1, <3>3, <3>4, <3>5
  <2>2. QED
    BY <2>1 DEF OneWaits
<1>11. NoTwin'
  BY <1>1, <1>5 DEF BothInv, WireInv, NoTwin, Waits
<1>12. Once'
  BY <1>1, <1>3, <1>4, <1>7 DEF BothInv, WireInv, Once, Sends
<1>13. NewYet'
  <2>1. ASSUME NEW t \in Senders, at[t] \in {"open", "write"}
        PROVE  executed'[sent] = 0 /\ \A d \in Conns : ~Waits(d, sent)'
    <3>1. executed[sent] = 0 /\ \A d \in Conns : ~Waits(d, sent)
      BY <2>1 DEF BothInv, WireInv, NewYet
    <3>2. sent \in Sends
      BY <1>4, <2>1 DEF BothInv, LockInv, Begun, ClientTypeOK, Sends
    <3>3. sent # r
      BY <1>6, <3>1
    <3>4. QED
      BY <1>1, <1>5, <1>7, <3>1, <3>2, <3>3 DEF Waits
  <2>2. QED
    BY <1>1, <2>1 DEF NewYet, Waits
<1>14. CleanSocket'
  <2>1. CASE c = socket
    BY <1>1, <1>2, <2>1 DEF BothInv, WireInv, CleanSocket, Clean
  <2>2. CASE c # socket
    <3>1. socket # NoSocket => net'[socket] = net[socket]
      BY <1>1, <2>2 DEF BothInv, ClientTypeOK
    <3>2. QED
      BY <1>1, <1>2, <3>1 DEF BothInv, WireInv, CleanSocket, Clean
  <2>3. QED
    BY <2>1, <2>2
<1>15. OwnAnswer'
  <2>1. ASSUME NEW t \in Senders, at[t] \in {"status", "content"}
        PROVE  /\ AnswerTo(net'[socket].down, sent)
               /\ net'[socket].up # <<>> => /\ at[t] # "content"
                                            /\ net'[socket].up[1] = sent
                                            /\ net'[socket].down = <<>>
    <3>1. /\ AnswerTo(net[socket].down, sent) /\ socket \in Conns
          /\ net[socket].up # <<>> => /\ at[t] # "content"
                                      /\ net[socket].up[1] = sent
                                      /\ net[socket].down = <<>>
      BY <2>1 DEF BothInv, WireInv, OwnAnswer, LockInv, OwnSocket, UsesSocket, ClientTypeOK
    <3>2. CASE c # socket
      BY <1>1, <3>1, <3>2
    <3>3. CASE c = socket
      <4>1. net[c].down = <<>> /\ r = sent
        BY <1>1, <3>1, <3>3 DEF r
      <4>2. PICK answer \in Seq(PartType) :
              /\ AnswerTo(answer, r)
              /\ net'[c].down = IF net[c].open THEN net[c].down \o answer ELSE net[c].down
        BY <1>1
      <4>3. <<>> \o answer = answer
        BY ConcatEmptySeq
      <4>4. net'[c].down = answer \/ net'[c].down = net[c].down
        BY <4>1, <4>2, <4>3
      <4>5. AnswerTo(net'[c].down, sent)
        BY <3>1, <3>3, <4>1, <4>2, <4>4
      <4>6. QED
        BY <1>5, <3>3, <4>5
    <3>4. QED
      BY <3>2, <3>3
  <2>2. QED
    BY <1>1, <1>2, <2>1 DEF OwnAnswer
<1>16. AnswerIsOwn'
  BY <1>1 DEF BothInv, WireInv, AnswerIsOwn
<1>17. QED
  BY <1>9, <1>10, <1>11, <1>12, <1>13, <1>14, <1>15, <1>16 DEF WireInv

LEMMA PeerClosesWire ==
  ASSUME BothInv, NEW c \in Conns, PeerCloses(c)
  PROVE  WireInv'
<1>1. /\ c <= opened /\ net'[c].up = <<>> /\ net'[c].down = net[c].down
      /\ \A d \in Conns : d # c => net'[d] = net[d]
  BY PeerClosesNet DEF BothInv
<1>2. UNCHANGED <<at, sock, opened, sent, executed, outcome>> /\ socket' = socket
  BY DEF PeerCloses, object
<1>3. Spare'
  BY <1>1, <1>2 DEF BothInv, WireInv, Spare, Conns, ClientTypeOK
<1>4. OneWaits' /\ NoTwin' /\ NewYet'
  BY <1>1, <1>2 DEF BothInv, WireInv, OneWaits, NoTwin, NewYet, Waits
<1>5. Once' /\ AnswerIsOwn'
  BY <1>2 DEF BothInv, WireInv, Once, AnswerIsOwn
<1>6. socket # NoSocket =>
        /\ net'[socket].down = net[socket].down
        /\ net'[socket].up = net[socket].up \/ net'[socket].up = <<>>
  BY <1>1 DEF BothInv, ClientTypeOK
<1>7. CleanSocket'
  BY <1>2, <1>6 DEF BothInv, WireInv, CleanSocket, Clean
<1>8. OwnAnswer'
  <2>1. \A t \in Senders : at[t] \in {"status", "content"} => socket # NoSocket
    BY DEF BothInv, LockInv, OwnSocket, UsesSocket
  <2>2. QED
    BY <1>2, <1>6, <2>1 DEF BothInv, WireInv, OwnAnswer
<1>9. QED
  BY <1>3, <1>4, <1>5, <1>7, <1>8 DEF WireInv

LEMMA UnchangedWire ==
  ASSUME BothInv, UNCHANGED clientVars
  PROVE  WireInv'
BY DEF BothInv, WireInv, Spare, OneWaits, NoTwin, Waits, Once, NewYet, CleanSocket, Clean,
   OwnAnswer, AnswerIsOwn, clientVars, object

LEMMA WireStep ==
  ASSUME BothInv, [ClientNext]_clientVars
  PROVE  WireInv'
<1>1. CASE UNCHANGED clientVars
  BY <1>1, UnchangedWire
<1>2. ASSUME NEW t \in Senders, SenderStep(t) PROVE WireInv'
  BY <1>2, SendWire, ReuseWire, ConnectWire, ConnectFailsWire, WriteWire,
     ReadResponseLineWire, ReadContentWire, FailWire, FinishWire DEF SenderStep
<1>3. CASE Stop
  BY <1>3, StopWire
<1>4. ASSUME NEW c \in Conns, Serve(c) \/ PeerCloses(c) PROVE WireInv'
  BY <1>4, ServeWire, PeerClosesWire
<1>5. QED
  BY <1>1, <1>2, <1>3, <1>4 DEF ClientNext, AllSent

LEMMA WiresClean == ClientSpec => []BothInv
<1>1. ClientInit => BothInv
  BY ClientInitially, WireInitially DEF BothInv
<1>2. BothInv /\ [ClientNext]_clientVars => BothInv'
  BY LocksStep, WireStep DEF BothInv
<1>3. QED
  BY <1>1, <1>2, PTL DEF ClientSpec

(* An answer that send returns is the answer to its own request, however   *)
(* late, cut short or repeated others are on the sockets of the client.    *)
THEOREM ClientAnswerIsOwn == ClientSpec => []AnswerIsOwn
<1>1. BothInv => AnswerIsOwn
  BY DEF BothInv, WireInv
<1>2. QED
  BY <1>1, WiresClean, PTL

(* The server executes no request twice: send does not repeat one.         *)
THEOREM ClientExecutesAtMostOnce == ClientSpec => []ExecutedAtMostOnce
<1>1. BothInv => ExecutedAtMostOnce
  BY DEF BothInv, WireInv, Once, ExecutedAtMostOnce
<1>2. QED
  BY <1>1, WiresClean, PTL
=============================================================================
