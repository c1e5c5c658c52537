----------------------------- MODULE HttpServer -----------------------------
(***************************************************************************)
(* httplib::Server as main runs it: one thread that listens, a pool whose  *)
(* jobs are the accepted connections, keep-alive on each of them, and the  *)
(* shutdown that must come before main deletes the cache and the pool of   *)
(* database connections.  What a handler does is KVServer's; here it runs  *)
(* and returns.  Clients, the kernel's listen queue and the thread that    *)
(* may call stop() are the environment.                                    *)
(***************************************************************************)
EXTENDS ThreadPool, HttpRequest

CONSTANTS Requests,      \* connection -> the requests its client may send
          MaxRequests,   \* connection -> how many of them it sends
          KeepAliveMax   \* keep_alive_max_count_

ASSUME ServerAssumption ==
  /\ Requests \in [Tasks -> SUBSET Request]
  /\ MaxRequests \in [Tasks -> Nat] /\ KeepAliveMax \in Nat \ {0}

Conns == Tasks           \* the closure enqueued for a connection is its job

VARIABLES
  main,            \* where main is: "start", "loop" (svr_sock_ is tested),
                   \* "accept", "drain", "returned" from listen, "deleted"
  svr_sock,        \* svr_sock_ # INVALID_SOCKET
  fd,              \* the listening descriptor is open
  ret,             \* the local of listen_internal
  is_running, is_decommissioned,
  stopper,         \* a thread in stop(): "no", "exchanged", "done"
  conn,            \* "new", "backlog", "accepted", "closed" by the server
  peer,            \* the client's end of the connection: "up" or "gone"
  unsent,          \* what the client has still to send of its last request
  inbox,           \* what the server has not read
  heard,           \* bytes came that decide nothing yet
  sent,            \* the requests the client sent, or began to send
  outbox,          \* the answers it was sent
  at,              \* the step of the connection's job
  left,            \* count in process_server_socket_core
  current,         \* what process_request found
  orderly          \* the client waited for each answer before the next
                   \* request and let no time-out pass within one (ghost)

listenVars == <<main, svr_sock, fd, ret, is_running, is_decommissioned, stopper>>
clientVars == <<conn, peer, unsent, inbox, heard, sent, outbox, orderly>>
jobVars == <<at, left, current>>
serverVars == <<poolVars, listenVars, clientVars, jobVars>>

Nothing == Outcome(0, "none", <<>>, FALSE, Nobody)

ServerInit ==
  /\ PoolInit
  /\ main = "start" /\ svr_sock = FALSE /\ fd = FALSE /\ ret = TRUE
  /\ is_running = FALSE /\ is_decommissioned = FALSE /\ stopper = "no"
  /\ conn = [c \in Conns |-> "new"]
  /\ peer = [c \in Conns |-> "up"]
  /\ unsent = [c \in Conns |-> <<>>]
  /\ inbox = [c \in Conns |-> <<>>]
  /\ heard = [c \in Conns |-> FALSE]
  /\ sent = [c \in Conns |-> <<>>]
  /\ outbox = [c \in Conns |-> <<>>]
  /\ at = [c \in Conns |-> "poll0"]
  /\ left = [c \in Conns |-> KeepAliveMax]
  /\ current = [c \in Conns |-> Nothing]
  /\ orderly = [c \in Conns |-> TRUE]
-----------------------------------------------------------------------------
(* The listening thread.                                                   *)

(* bind_to_port, then listen_internal up to its loop; on failure listen    *)
(* returns false at once.                                                  *)
Bind ==
  /\ main = "start"
  /\ \/ /\ main' = "loop" /\ svr_sock' = TRUE /\ fd' = TRUE
        /\ is_running' = TRUE /\ UNCHANGED is_decommissioned
     \/ /\ main' = "returned" /\ is_decommissioned' = TRUE
        /\ UNCHANGED <<svr_sock, fd, is_running>>
  /\ UNCHANGED <<ret, stopper, poolVars, clientVars, jobVars>>

(* while (svr_sock_ != INVALID_SOCKET)                                     *)
TestSocket ==
  /\ main = "loop" /\ caller = "free"
  /\ main' = IF svr_sock THEN "accept" ELSE "drain"
  /\ UNCHANGED <<svr_sock, fd, ret, is_running, is_decommissioned, stopper>>
  /\ UNCHANGED <<poolVars, clientVars, jobVars>>

(* accept returns a connection; it becomes a job, or is closed when the    *)
(* queue is full.  EMFILE, EINTR and EAGAIN only go round the loop.        *)
Accept(c) ==
  /\ main = "accept" /\ fd /\ conn[c] = "backlog"
  /\ main' = "loop"
  /\ \/ Enqueue(c) /\ conn' = [conn EXCEPT ![c] = "accepted"]
     \/ Full /\ conn' = [conn EXCEPT ![c] = "closed"] /\ UNCHANGED poolVars
  /\ UNCHANGED <<svr_sock, fd, ret, is_running, is_decommissioned, stopper>>
  /\ UNCHANGED <<peer, unsent, inbox, heard, sent, outbox, orderly, jobVars>>

(* Any other error: the descriptor is closed but svr_sock_ keeps its       *)
(* number.  After stop() the error is expected.                            *)
AcceptFails ==
  /\ main = "accept"
  /\ main' = "drain"
  /\ IF svr_sock THEN fd' = FALSE /\ ret' = FALSE ELSE ~fd /\ UNCHANGED <<fd, ret>>
  /\ UNCHANGED <<svr_sock, is_running, is_decommissioned, stopper>>
  /\ UNCHANGED <<poolVars, clientVars, jobVars>>

(* task_queue->shutdown(), in the steps of ThreadPool.                     *)
Drain ==
  /\ main = "drain" /\ Shutdown
  /\ UNCHANGED <<listenVars, clientVars, jobVars>>

PoolCallerStep ==
  /\ CallerStep
  /\ UNCHANGED <<listenVars, clientVars, jobVars>>

ListenReturns ==
  /\ main = "drain" /\ caller = "joined"
  /\ main' = "returned"
  /\ is_decommissioned' = ~ret /\ is_running' = FALSE
  /\ UNCHANGED <<svr_sock, fd, ret, stopper, poolVars, clientVars, jobVars>>

(* delete cache; delete dbPool; return 0.                                  *)
Cleanup ==
  /\ main = "returned" /\ main' = "deleted"
  /\ UNCHANGED <<svr_sock, fd, ret, is_running, is_decommissioned, stopper>>
  /\ UNCHANGED <<poolVars, clientVars, jobVars>>

(* stop(): svr_sock_ is exchanged first, the descriptor closed after.      *)
Stop ==
  /\ stopper = "no" /\ is_running
  /\ svr_sock' = FALSE /\ stopper' = "exchanged"
  /\ UNCHANGED <<main, fd, ret, is_running, is_decommissioned>>
  /\ UNCHANGED <<poolVars, clientVars, jobVars>>

StopCloses ==
  /\ stopper = "exchanged" /\ stopper' = "done"
  /\ fd' = FALSE /\ is_decommissioned' = FALSE
  /\ UNCHANGED <<main, svr_sock, ret, is_running>>
  /\ UNCHANGED <<poolVars, clientVars, jobVars>>

ListenerStep ==
  Bind \/ TestSocket \/ Drain \/ PoolCallerStep \/ ListenReturns \/ Cleanup
-----------------------------------------------------------------------------
(* The job of a connection: process_and_close_socket on worker w.          *)

Works(w, c, step) ==
  /\ worker[w] = "running" /\ fn[w] = c /\ at[c] = step
  /\ UNCHANGED <<poolVars, listenVars>>

Arrived(c) == inbox[c] # <<>> \/ heard[c] \/ peer[c] = "gone"

(* keep_alive: the first select does not look at svr_sock_.                *)
FirstPoll(w, c) ==
  /\ Works(w, c, "poll0")
  /\ at' = [at EXCEPT ![c] = IF Arrived(c) THEN "read" ELSE "poll"]
  /\ UNCHANGED <<clientVars, left, current>>

(* Its loop leaves when the server stops or the client lets the time-out   *)
(* pass, and goes on when there is something to read.                      *)
MutantPoll(w, c) ==                \* mutant: no keep-alive time-out
  /\ Works(w, c, "poll")
  /\ at' = [at EXCEPT ![c] = IF ~svr_sock THEN "close"
                             ELSE IF Arrived(c) THEN "read" ELSE "poll"]
  /\ UNCHANGED <<clientVars, left, current>>
Poll(w, c) ==
  /\ Works(w, c, "poll")
  /\ at' = [at EXCEPT ![c] = IF svr_sock /\ Arrived(c) THEN "read" ELSE "close"]
  /\ UNCHANGED <<clientVars, left, current>>

(* What process_request makes of what has arrived.  As long as that is not *)
(* a whole request it reads on, until the client has gone, or for as long  *)
(* as the time-out of one read: bytes that decide nothing begin it anew.   *)
Endings(c) ==
  IF ~StillReading(inbox[c]) THEN {"closed"}      \* whatever comes after it
  ELSE IF peer[c] = "gone" THEN {"closed", "silent"}
  ELSE IF heard[c] THEN {} ELSE {"silent"}

(* What SocketStream had read ahead is gone with it when the next request  *)
(* gets a stream of its own.                                               *)
Consume(c, found) ==
  \E n \in 0 .. Len(inbox[c]) :
    /\ n + Len(found.rest) >= Len(inbox[c]) /\ (n = 0 => inbox[c] = <<>>)
    /\ inbox' = [inbox EXCEPT ![c] = From(@, n + 1)]

(* process_request up to the handler.                                      *)
MutantReadRequest(w, c) ==         \* mutant: connection_closed is forgotten
  /\ Works(w, c, "read")
  /\ \E ending \in Endings(c) : \E found \in Outcomes(inbox[c], ending) :
       /\ Consume(c, found)
       /\ current' = [current EXCEPT ![c] = [found EXCEPT !.rest = <<>>, !.closed = FALSE]]
       /\ at' = [at EXCEPT ![c] = IF found.status = 0 THEN "close"
                                  ELSE IF found.runs # "none" THEN "handler"
                                  ELSE "write"]
  /\ heard' = [heard EXCEPT ![c] = FALSE]
  /\ orderly' = [orderly EXCEPT ![c] =
                   @ /\ (StillReading(inbox[c]) => unsent[c] = <<>>)]
  /\ UNCHANGED <<conn, peer, unsent, sent, outbox, left>>
ReadRequest(w, c) ==
  /\ Works(w, c, "read")
  /\ \E ending \in Endings(c) : \E found \in Outcomes(inbox[c], ending) :
       /\ Consume(c, found)
       /\ current' = [current EXCEPT ![c] = [found EXCEPT !.rest = <<>>]]
       /\ at' = [at EXCEPT ![c] = IF found.status = 0 THEN "close"
                                  ELSE IF found.runs # "none" THEN "handler"
                                  ELSE "write"]
  /\ heard' = [heard EXCEPT ![c] = FALSE]
  /\ orderly' = [orderly EXCEPT ![c] =
                   @ /\ (StillReading(inbox[c]) => unsent[c] = <<>>)]
  /\ UNCHANGED <<conn, peer, unsent, sent, outbox, left>>

(* A read returns with such bytes, and the next one waits as long again.   *)
ReadOn(w, c) ==
  /\ Works(w, c, "read")
  /\ StillReading(inbox[c]) /\ heard[c]
  /\ heard' = [heard EXCEPT ![c] = FALSE]
  /\ UNCHANGED <<conn, peer, unsent, inbox, sent, outbox, orderly, jobVars>>

(* The handler returns, or throws and is answered for; its status, or 500, *)
(* makes no difference here.                                               *)
Handle(w, c) ==
  /\ Works(w, c, "handler")
  /\ at' = [at EXCEPT ![c] = "write"]
  /\ UNCHANGED <<clientVars, left, current>>

(* write_response, and what process_server_socket_core makes of it: a      *)
(* write to a client that has gone may fail or pass unnoticed.             *)
Announced(c) == left[c] = 1 \/ current[c].announce

Loops(c) == ~current[c].closed /\ left[c] > 1

WriteAnswer(w, c) ==
  /\ Works(w, c, "write")
  /\ outbox' = [outbox EXCEPT ![c] =
       IF peer[c] = "gone" THEN @
       ELSE Append(@, [id |-> current[c].id, status |-> current[c].status,
                       close |-> Announced(c)])]
  /\ \E ok \in IF peer[c] = "gone" THEN BOOLEAN ELSE {TRUE} :
       at' = [at EXCEPT ![c] = IF ok /\ Loops(c) THEN "poll0" ELSE "close"]
  /\ left' = [left EXCEPT ![c] = @ - 1]
  /\ current' = [current EXCEPT ![c] = Nothing]
  /\ UNCHANGED <<conn, peer, unsent, inbox, heard, sent, orderly>>

(* shutdown_socket, close_socket: what was not read is dropped, and the    *)
(* worker goes back to the queue.                                          *)
CloseSocket(w, c) ==
  /\ worker[w] = "running" /\ fn[w] = c /\ at[c] = "close"
  /\ conn' = [conn EXCEPT ![c] = "closed"]
  /\ inbox' = [inbox EXCEPT ![c] = <<>>]
  /\ unsent' = [unsent EXCEPT ![c] = <<>>]
  /\ heard' = [heard EXCEPT ![c] = FALSE]
  /\ left' = [left EXCEPT ![c] = KeepAliveMax]
  /\ current' = [current EXCEPT ![c] = Nothing]
  /\ JobDone(w)
  /\ UNCHANGED <<listenVars, peer, sent, outbox, orderly, at>>

JobStep(w, c) ==
  \/ FirstPoll(w, c) \/ Poll(w, c) \/ ReadRequest(w, c) \/ ReadOn(w, c)
  \/ Handle(w, c) \/ WriteAnswer(w, c) \/ CloseSocket(w, c)

PoolWorkerStep(w) ==
  WorkerStep(w) /\ UNCHANGED <<listenVars, clientVars, jobVars>>

WorkerWakes(w) ==
  WakeSpuriously(w) /\ UNCHANGED <<listenVars, clientVars, jobVars>>
-----------------------------------------------------------------------------
(* The clients; what they do on a connection the server has closed is not  *)
(* followed.                                                               *)

Connect(c) ==
  /\ fd /\ conn[c] = "new"
  /\ conn' = [conn EXCEPT ![c] = "backlog"]
  /\ UNCHANGED <<poolVars, listenVars, jobVars>>
  /\ UNCHANGED <<peer, unsent, inbox, heard, sent, outbox, orderly>>

InUse(c) == conn[c] \in {"backlog", "accepted"} /\ peer[c] = "up"

(* The next request is written, be the last one answered or not.           *)
Send(c, r) ==
  /\ InUse(c) /\ unsent[c] = <<>> /\ Len(sent[c]) < MaxRequests[c]
  /\ unsent' = [unsent EXCEPT ![c] = Message([r EXCEPT !.id = Len(sent[c]) + 1])]
  /\ sent' = [sent EXCEPT ![c] = Append(@, r)]
  /\ orderly' = [orderly EXCEPT ![c] = @ /\ Len(outbox[c]) = Len(sent[c])]
  /\ UNCHANGED <<poolVars, listenVars, conn, peer, inbox, heard, outbox, jobVars>>

(* It arrives in pieces, at any pace.                                      *)
Transmit(c) ==
  /\ InUse(c)
  /\ \E k \in 1..Len(unsent[c]) :
       /\ inbox' = [inbox EXCEPT ![c] = @ \o SubSeq(unsent[c], 1, k)]
       /\ unsent' = [unsent EXCEPT ![c] = From(@, k + 1)]
  /\ UNCHANGED <<poolVars, listenVars, conn, peer, heard, sent, outbox, orderly, jobVars>>

(* Bytes of a body that do not get the server any further: some of a body  *)
(* longer than the model's, a part of a line, a trailer line nobody        *)
(* declared.  Nothing in the server bounds their number.                   *)
Drip(c) ==
  /\ InUse(c) /\ ~heard[c]
  /\ unsent[c] # <<>> /\ Head(unsent[c])[1] \notin {"line", "head"}
  /\ heard' = [heard EXCEPT ![c] = TRUE]
  /\ UNCHANGED <<poolVars, listenVars, jobVars>>
  /\ UNCHANGED <<conn, peer, unsent, inbox, sent, outbox, orderly>>

(* The client closes, or is lost, maybe in the middle of a request.        *)
Leave(c) ==
  /\ InUse(c)
  /\ peer' = [peer EXCEPT ![c] = "gone"]
  /\ unsent' = [unsent EXCEPT ![c] = <<>>]
  /\ heard' = [heard EXCEPT ![c] = FALSE]
  /\ UNCHANGED <<poolVars, listenVars, conn, inbox, sent, outbox, orderly, jobVars>>
-----------------------------------------------------------------------------
ServerNext ==
  \/ ListenerStep \/ AcceptFails \/ Stop \/ StopCloses
  \/ \E w \in Workers : PoolWorkerStep(w) \/ WorkerWakes(w)
  \/ \E w \in Workers, c \in Conns : JobStep(w, c)
  \/ \E c \in Conns : Accept(c) \/ Connect(c) \/ Transmit(c) \/ Drip(c) \/ Leave(c)
  \/ \E c \in Conns : \E r \in Requests[c] : Send(c, r)

ServerSpec == ServerInit /\ [][ServerNext]_serverVars

(* Every thread of the server runs on: the listening thread between two    *)
(* accepts, the caller of stop(), and the workers, each of whose waits for *)
(* a client has a time-out and whose handlers return.                      *)
FairServerSpec ==
  /\ ServerSpec
  /\ WF_serverVars(ListenerStep) /\ WF_serverVars(StopCloses)
  /\ WF_serverVars(AcceptFails /\ ~svr_sock)
  /\ \A w \in Workers :
       WF_serverVars(PoolWorkerStep(w) \/ \E c \in Conns : JobStep(w, c))
-----------------------------------------------------------------------------
(* No handler runs once main has deleted the cache and the database pool   *)
(* it uses.                                                                *)
HandlersUseLiveState ==
  main = "deleted" => \A w \in Workers, c \in Conns :
                        ~(worker[w] = "running" /\ fn[w] = c)

(* When listen returns every connection it accepted has been closed.       *)
ReturnClosesConnections ==
  main \in {"returned", "deleted"} => \A c \in Conns : conn[c] # "accepted"

(* Requests as this repository's clients send them: the body, if there is  *)
(* one, has a Content-Length.  (A DELETE whose body comes in chunks is     *)
(* answered with the body unread, which is then taken for the next         *)
(* request.)                                                               *)
Plain(r) ==
  /\ r.flaws = {}
  /\ r.framing = Counted(Len(r.body)) \/ (r.framing = ToTheEnd /\ r.body = <<>>)

(* No request is answered twice, nor after a later one, whatever a client  *)
(* sends and however its requests run into each other.  And as long as it  *)
(* carried only plain requests, each sent after the last answer and each   *)
(* without a pause as long as the time-out, the n-th answer is the one to  *)
(* the n-th request, whichever of them were refused, had bodies nobody     *)
(* wanted or met a route that does not exist.                              *)
AnswersMatchRequests ==
  \A c \in Conns :
    /\ \A i, j \in DOMAIN outbox[c] :
         i < j /\ outbox[c][i].id # 0 /\ outbox[c][j].id # 0
           => outbox[c][i].id < outbox[c][j].id
    /\ orderly[c] /\ (\A i \in DOMAIN sent[c] : Plain(sent[c][i]))
         => \A i \in DOMAIN outbox[c] : outbox[c][i].id = i

(* A connection is given up by the answer that says so: none exceeds the   *)
(* limit of keep-alive, the one that reaches it says close, and no answer  *)
(* follows one with Connection: close unless that one is a 400 or a 414.   *)
(* Some of these two kinds are sent before process_request looks at the    *)
(* header, and do not close: a bad header line, a header section cut off   *)
(* by the time-out, a target that is too long.                             *)
ClosingAnswerIsLast ==
  \A c \in Conns :
    /\ Len(outbox[c]) <= KeepAliveMax
    /\ \A i \in DOMAIN outbox[c] :
         /\ outbox[c][i].close => i = Len(outbox[c]) \/ outbox[c][i].status \in {400, 414}
         /\ i = KeepAliveMax => outbox[c][i].close

(* The pool implements the queue of jobs the server expects, and keeps no  *)
(* idle worker from a waiting connection.                                  *)
Queue == INSTANCE TaskQueue WITH
  Tasks <- Conns, Width <- Cardinality(Workers),
  pending <- jobs, active <- {fn[w] : w \in Running},
  state <- IF ~shutdown THEN "open"
           ELSE IF caller = "joined" THEN "closed" ELSE "closing"

ImplementsTaskQueue == Queue!FairTaskSpec

(* A client holds a worker for as long as it keeps on sending bytes of one *)
(* body, but no longer: if but one client less than there are workers do   *)
(* so without end, every other accepted connection is closed in the end,   *)
(* however its client behaves; time-outs and the keep-alive limit see to   *)
(* that.                                                                   *)
AcceptedIsClosed ==
  \A endless \in {S \in SUBSET Conns : Cardinality(S) = Cardinality(Workers) - 1} :
    (\A c \in Conns \ endless : <>[][~Drip(c)]_serverVars)
      => \A c \in Conns \ endless : conn[c] = "accepted" ~> conn[c] = "closed"

(* stop(), and an accept that fails for good, make listen return, unless a *)
(* client keeps on sending bytes of one body.                              *)
StopReturns ==
  (\A c \in Conns : <>[][~Drip(c)]_serverVars)
    => (main # "start" /\ (~svr_sock \/ main = "drain")) ~> main = "deleted"
=============================================================================
