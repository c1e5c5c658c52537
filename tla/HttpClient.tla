----------------------------- MODULE HttpClient -----------------------------
(***************************************************************************)
(* httplib::ClientImpl: one client object, used by several threads, over   *)
(* the connections it opens to a server.  request_mutex_ serialises the    *)
(* requests; socket_mutex_ guards the socket, the count of requests in     *)
(* flight and the "close it when done" flag, and is held for short blocks, *)
(* each of which is one action.  Between the blocks the sending thread     *)
(* writes and reads without a lock, on the descriptor it copied, while     *)
(* other threads may call stop().                                          *)
(*                                                                         *)
(* A request is the number of its send().  A connection carries requests   *)
(* up and parts of answers down, and both ends may close it at any moment. *)
(***************************************************************************)
EXTENDS Naturals, Sequences, FiniteSets, SequencesExt

CONSTANTS Senders, Nobody, KeepAlives,
          MaxSends,     \* bound: requests sent in a behaviour
          MaxConns,     \* bound: sockets created in a behaviour
          Addresses     \* bound: addresses the server's host resolves to

ASSUME ClientAssumption == /\ Nobody \notin Senders
                           /\ KeepAlives \subseteq BOOLEAN
                           /\ MaxSends \in Nat /\ MaxConns \in Nat
                           /\ Addresses \in Nat

Sends == 1 .. MaxSends
Conns == 1 .. MaxConns
NoSocket == 0

VARIABLES
  keep_alive,     \* keep_alive_: chosen by the owner before the first request
  request_mutex,  \* the thread in send(), or Nobody
  socket,         \* socket_.sock
  in_flight,      \* socket_requests_in_flight_
  from_thread,    \* socket_requests_are_from_thread_
  should_close,   \* socket_should_be_closed_when_request_is_done_
  at,             \* where each thread is in send()
  sock,           \* the descriptor the thread's SocketStream holds
  opened,         \* sockets created so far
  net,            \* the connections
  sent,           \* requests begun so far
  executed,       \* how often the server has executed each request
  outcome         \* the request whose answer each send() has returned

object == <<keep_alive, request_mutex, socket, in_flight, from_thread, should_close>>
clientVars == <<object, at, sock, opened, net, sent, executed, outcome>>

Unanswered == 0
Fresh == [up |-> <<>>, down |-> <<>>, shut |-> FALSE, fin |-> FALSE, open |-> FALSE]

Part(what, of, closing) == [what |-> what, of |-> of, closing |-> closing]

ClientInit ==
  /\ keep_alive \in KeepAlives
  /\ request_mutex = Nobody
  /\ socket = NoSocket /\ in_flight = 0
  /\ from_thread = Nobody /\ should_close = FALSE
  /\ at = [t \in Senders |-> "idle"]
  /\ sock = [t \in Senders |-> NoSocket]
  /\ opened = 0
  /\ net = [c \in Conns |-> Fresh]
  /\ sent = 0
  /\ executed = [r \in Sends |-> 0]
  /\ outcome = [r \in Sends |-> Unanswered]

(* detail::is_socket_alive: nothing to read is alive, the end of the       *)
(* stream is not, and waiting data is.                                     *)
IsSocketAlive(c) == net[c].down # <<>> \/ ~(net[c].fin \/ net[c].shut)

(* shutdown_socket and close_socket, on the client's side of c.            *)
ShutdownSocket(conns, c) ==
  IF c = NoSocket THEN conns ELSE [conns EXCEPT ![c].shut = TRUE]
CloseSocket(conns, c) ==
  IF c = NoSocket THEN conns
  ELSE [conns EXCEPT ![c].shut = TRUE, ![c].open = FALSE, ![c].down = <<>>]

(***************************************************************************)
(* send() takes request_mutex_.                                            *)
(***************************************************************************)
Send(t) ==
  /\ at[t] = "idle" /\ request_mutex = Nobody /\ sent < MaxSends
  /\ request_mutex' = t
  /\ sent' = sent + 1
  /\ at' = [at EXCEPT ![t] = "open"]
  /\ UNCHANGED <<keep_alive, socket, in_flight, from_thread, should_close,
                 sock, opened, net, executed, outcome>>

Returns(t) ==
  /\ at' = [at EXCEPT ![t] = "idle"]
  /\ sock' = [sock EXCEPT ![t] = NoSocket]
  /\ request_mutex' = Nobody

(* send_'s first block, under socket_mutex_: reuse the connection if it is *)
(* alive, else replace it; connecting can fail, and then send() returns.   *)
EntersFlight(t, c) ==
  /\ socket' = c
  /\ in_flight' = in_flight + 1
  /\ from_thread' = t
  /\ sock' = [sock EXCEPT ![t] = c]
  /\ at' = [at EXCEPT ![t] = "write"]
  /\ UNCHANGED <<request_mutex, outcome>>

Reuse(t) ==
  /\ at[t] = "open" /\ socket # NoSocket /\ IsSocketAlive(socket)
  /\ should_close' = FALSE
  /\ EntersFlight(t, socket)
  /\ UNCHANGED <<keep_alive, opened, net, sent, executed>>

NeedsConnection(t) ==
  /\ at[t] = "open"
  /\ socket # NoSocket => ~IsSocketAlive(socket)
  /\ should_close' = FALSE

(* detail::create_socket: a socket for each candidate address in turn,     *)
(* until connect succeeds or runs into the connection time-out; the others *)
(* are closed again.  tries is what became of the addresses it came to.    *)
Tries == {"no socket", "refused", "timeout", "connected"}

Attempts ==
  {tries \in UNION {[1 .. n -> Tries] : n \in 0 .. Addresses} :
     \A i \in 1 .. Len(tries) - 1 : tries[i] \in {"no socket", "refused"}}

CreateSocket(tries) ==
  [made |-> Cardinality({i \in DOMAIN tries : tries[i] # "no socket"}),
   ok |-> Len(tries) > 0 /\ tries[Len(tries)] = "connected"]

(* create_client_socket at the addresses the host resolves to, none if     *)
(* that fails.                                                             *)
CreateClientSocket(result) ==
  /\ \E tries \in Attempts : result = CreateSocket(tries)
  /\ opened + result.made <= MaxConns
  /\ opened' = opened + result.made

Results == [made : 0 .. Addresses, ok : BOOLEAN]

Connect(t) ==
  /\ NeedsConnection(t)
  /\ \E result \in Results :
       /\ CreateClientSocket(result) /\ result.ok
       /\ net' = [CloseSocket(net, socket) EXCEPT ![opened + result.made].open = TRUE]
       /\ EntersFlight(t, opened + result.made)
  /\ UNCHANGED <<keep_alive, sent, executed>>

ConnectFails(t) ==
  /\ NeedsConnection(t)
  /\ \E result \in Results : CreateClientSocket(result) /\ ~result.ok
  /\ net' = CloseSocket(net, socket)
  /\ socket' = NoSocket
  /\ Returns(t)
  /\ UNCHANGED <<keep_alive, in_flight, from_thread, sent, executed, outcome>>

(***************************************************************************)
(* process_request, without a lock: write the request, skip 100 Continue,  *)
(* read the head, read the content.  What the peer has closed may or may   *)
(* not be noticed by the write.                                            *)
(***************************************************************************)
Write(t) ==
  /\ at[t] = "write" /\ ~net[sock[t]].shut
  /\ net' = IF net[sock[t]].fin THEN net
            ELSE [net EXCEPT ![sock[t]].up = Append(@, sent)]
  /\ at' = [at EXCEPT ![t] = "status"]
  /\ UNCHANGED <<object, sock, opened, sent, executed, outcome>>

Read(t, phase, next) ==
  /\ at[t] = phase
  /\ net[sock[t]].down # <<>>
  /\ net' = [net EXCEPT ![sock[t]].down = Tail(@)]
  /\ at' = [at EXCEPT ![t] = next]

ReadResponseLine(t) ==
  LET part == Head(net[sock[t]].down) IN
  /\ \/ Read(t, "status", "status") /\ part.what = "continue"
     \/ Read(t, "status", "content") /\ part.what = "head"
     \/ Read(t, "status", "failed") /\ part.what = "content"
  /\ UNCHANGED <<object, sock, opened, sent, executed, outcome>>

(* handle_request closes the connection at once if the answer asked for it *)
(* or is one of HTTP/1.0.                                                  *)
HandleRequest(part, rest) ==
  IF part.closing
  THEN net' = CloseSocket(rest, socket) /\ socket' = NoSocket
  ELSE net' = rest /\ UNCHANGED socket

(* The content completes the answer.                                       *)
ReadContent(t) ==
  LET c == sock[t]
      part == Head(net[c].down)
  IN
  /\ at[t] = "content" /\ net[c].down # <<>> /\ part.what = "content"
  /\ outcome' = [outcome EXCEPT ![sent] = part.of]
  /\ at' = [at EXCEPT ![t] = "done"]
  /\ HandleRequest(part, [net EXCEPT ![c].down = Tail(@)])
  /\ UNCHANGED <<keep_alive, request_mutex, in_flight, from_thread, should_close,
                 sock, opened, sent, executed>>

(* A write that fails, a read that times out or meets the end: Error::Read *)
(* or Error::Write, and send() does not try again (only                    *)
(* SSLPeerCouldBeClosed_ is retried, which needs SSL).                     *)
CutShort(t) ==
  \/ at[t] = "write"
  \/ at[t] \in {"status", "content"} /\ net[sock[t]].down = <<>>

MutantFail(t) ==
  /\ CutShort(t)
  /\ at' = [at EXCEPT ![t] = "open"]
  /\ in_flight' = in_flight - 1
  /\ from_thread' = Nobody
  /\ net' = CloseSocket(net, socket)
  /\ socket' = NoSocket
  /\ UNCHANGED <<keep_alive, request_mutex, should_close, sock, opened, sent,
                 executed, outcome>>

Fail(t) ==
  /\ CutShort(t)
  /\ at' = [at EXCEPT ![t] = "failed"]
  /\ UNCHANGED <<object, sock, opened, net, sent, executed, outcome>>

(* send_'s scope_exit, under socket_mutex_, then send() returns.           *)
MutantClosesWhenDone(t) == should_close \/ ~keep_alive

MutantIgnoresFlag(t) == ~keep_alive \/ at[t] = "failed"

ClosesWhenDone(t) == should_close \/ ~keep_alive \/ at[t] = "failed"

Finish(t) ==
  /\ at[t] \in {"done", "failed"}
  /\ in_flight' = in_flight - 1
  /\ from_thread' = IF in_flight = 1 THEN Nobody ELSE from_thread
  /\ IF ClosesWhenDone(t)
     THEN net' = CloseSocket(net, socket) /\ socket' = NoSocket
     ELSE UNCHANGED <<net, socket>>
  /\ Returns(t)
  /\ UNCHANGED <<keep_alive, should_close, opened, sent, executed, outcome>>

(***************************************************************************)
(* stop(), called by any thread at any moment.                             *)
(***************************************************************************)
MutantStop ==
  /\ net' = CloseSocket(net, socket)
  /\ socket' = NoSocket
  /\ UNCHANGED <<keep_alive, request_mutex, in_flight, from_thread, should_close,
                 at, sock, opened, sent, executed, outcome>>

Stop ==
  /\ IF in_flight > 0
     THEN /\ net' = ShutdownSocket(net, socket)
          /\ should_close' = TRUE
          /\ UNCHANGED socket
     ELSE /\ net' = CloseSocket(net, socket)
          /\ socket' = NoSocket
          /\ UNCHANGED should_close
  /\ UNCHANGED <<keep_alive, request_mutex, in_flight, from_thread,
                 at, sock, opened, sent, executed, outcome>>

(***************************************************************************)
(* The server: it executes the requests of a connection in order and       *)
(* answers each once (HttpServer's AnswersMatchRequests), perhaps after a  *)
(* 100 Continue; it may close before, within or after an answer, and its   *)
(* answer may come after the client has given up.                          *)
(***************************************************************************)
Answers(r) ==
  LET whole(closing) == <<Part("head", r, closing), Part("content", r, closing)>> IN
  {whole(TRUE), whole(FALSE), <<Part("continue", r, FALSE)>> \o whole(FALSE),
   <<Part("head", r, FALSE)>>, <<>>}

Serve(c) ==
  /\ net[c].up # <<>> /\ ~net[c].fin
  /\ LET r == Head(net[c].up) IN
     /\ executed' = [executed EXCEPT ![r] = @ + 1]
     /\ \E answer \in Answers(r):
          net' = [net EXCEPT
            ![c].up = Tail(@),
            ![c].down = IF net[c].open THEN @ \o answer ELSE @,
            ![c].fin = answer = <<>> \/ Last(answer).what # "content" \/ Last(answer).closing]
  /\ UNCHANGED <<object, at, sock, opened, sent, outcome>>

PeerCloses(c) ==
  /\ c <= opened /\ ~net[c].fin
  /\ net' = [net EXCEPT ![c].fin = TRUE, ![c].up = <<>>]
  /\ UNCHANGED <<object, at, sock, opened, sent, executed, outcome>>

SenderStep(t) ==
  \/ Send(t) \/ Reuse(t) \/ Connect(t) \/ ConnectFails(t)
  \/ Write(t) \/ ReadResponseLine(t) \/ ReadContent(t) \/ Fail(t) \/ Finish(t)

AllSent == /\ sent = MaxSends /\ \A t \in Senders: at[t] = "idle"
           /\ UNCHANGED clientVars

ClientNext ==
  \/ \E t \in Senders: SenderStep(t)
  \/ Stop
  \/ \E c \in Conns: Serve(c) \/ PeerCloses(c)
  \/ AllSent

ClientSpec == ClientInit /\ [][ClientNext]_clientVars

-----------------------------------------------------------------------------
(* A send() that succeeds returns the answer to its own request: an answer *)
(* that comes after its request was given up is never read by the next     *)
(* one, whatever is kept alive, stopped, closed or late.                   *)
AnswerIsOwn == \A r \in Sends: outcome[r] \in {Unanswered, r}

(* A request is executed at most once for one send(): a POST the client    *)
(* reports as failed may have been stored, but never twice.                *)
ExecutedAtMostOnce == \A r \in Sends: executed[r] <= 1

(* The descriptor a thread writes to or reads from is the client's socket  *)
(* and is open: neither stop() nor another request closes it under the     *)
(* thread (the assertion of close_socket).                                 *)
SocketInUseStaysOpen ==
  \A t \in Senders: at[t] \in {"write", "status", "content"} =>
    sock[t] = socket /\ net[sock[t]].open

(* The client leaks no connection: whatever it gave up, replaced or could  *)
(* not connect is closed, and after stop() it keeps none: at once if it is *)
(* idle, otherwise as soon as the request in flight is over.               *)
StoppedMeansClosed ==
  /\ \A c \in Conns : net[c].open => c = socket
  /\ should_close /\ in_flight = 0 => socket = NoSocket
=============================================================================
