---------------------------- MODULE MCHttpServer ----------------------------
(* Instances of HttpServer for TLC.                                        *)
EXTENDS HttpServer

CONSTANTS w1, w2, c1, c2

(* An update; a create that closes but has an encoding the server does not *)
(* support.                                                                *)
R(method, path, connection, framing, body, flaws) ==
  [id |-> 0, method |-> method, path |-> path, version |-> "HTTP/1.1",
   connection |-> connection, framing |-> framing, body |-> body,
   form |-> body # <<>>, flaws |-> flaws]

Update == R("PUT", "/api/data", "none", Counted(1), <<1>>, {})
Mixed == {Update, R("POST", "/api/data", "close", Counted(1), <<1>>, {"encoding"})}

(* One client that writes in these ways, twice, or once in the first of    *)
(* them, and one that connects and says nothing.                           *)
MCRequests == [c \in Conns |-> Mixed]
MCTwice == [c \in Conns |-> IF c = c1 THEN 2 ELSE 0]

MCOneRequest == [c \in Conns |-> {Update}]
MCOnce == [c \in Conns |-> IF c = c1 THEN 1 ELSE 0]

WorkerSymmetry == Permutations(Workers)
=============================================================================
