----------------------------- MODULE HttpRequest -----------------------------
(***************************************************************************)
(* httplib::Server::process_request as a function of what is on the        *)
(* connection: which answer a request gets, whether a handler runs, what   *)
(* is left unread, and whether the connection may be used again.           *)
(* A request on the wire is its request line, its header section and the   *)
(* units of its body.  When it is not all there, reading it comes to an    *)
(* end because the client's end is "closed", or because the client stays   *)
(* "silent" for the read time-out (or the connection fails).               *)
(***************************************************************************)
EXTENDS BodyFraming

CONSTANTS FormMax  \* CPPHTTPLIB_FORM_URL_ENCODED_PAYLOAD_MAX_LENGTH

ASSUME FormAssumption == FormMax \in Nat

(* A request: its place in the client's sequence of requests, method and   *)
(* route, version, Connection header, framing and body, whether the body   *)
(* is a form, and what is wrong with it.                                   *)
Request ==
  [id : Nat, method : STRING, path : STRING, version : STRING, connection : STRING,
   framing : {Chunked, ToTheEnd} \cup ({"length"} \X Nat), body : Seq(Nat),
   form : BOOLEAN,
   flaws : SUBSET {"line", "header", "target", "accept", "range", "encoding"}]

Line(r) == <<"line", r>>
Head_ == <<"head", 0>>
Message(r) ==
  <<Line(r), Head_>> \o
  (IF r.framing = Chunked THEN Chunk(r.body) \o LastChunk(<<>>)
   ELSE WriteData(r.body))

(* svr.Post, Get, Put and Delete in main register one handler each; HEAD   *)
(* is dispatched on the handlers of GET.                                   *)
Routes ==
  [POST |-> "handle_create", GET |-> "handle_read", HEAD |-> "handle_read",
   PUT |-> "handle_update", DELETE |-> "handle_delete"]
Dispatched == DOMAIN Routes \cup {"OPTIONS", "PATCH"}
Route(r) == IF r.method \in DOMAIN Routes /\ r.path = "/api/data"
            THEN Routes[r.method] ELSE "none"

MutantExpectContent(r) ==          \* mutant: PUT is forgotten
  r.method \in {"POST", "PATCH", "DELETE"} \/ r.framing = Chunked
ExpectContent(r) ==
  \/ r.method \in {"POST", "PUT", "PATCH", "DELETE"}
  \/ r.framing = Chunked
  \/ r.framing[1] = "length" /\ r.framing[2] > 0

(* What process_request makes of the wire: the status (0 when it returns   *)
(* without an answer, 200 until the handler says otherwise), the handler   *)
(* it runs, the unread rest, connection_closed, and which request it was.  *)
Outcome(status, runs, rest, closed, r) ==
  [status |-> status, runs |-> runs, rest |-> rest, closed |-> closed,
   announce |-> r.connection = "close", id |-> r.id]

Nobody == [id |-> 0, connection |-> "none"]

(* The place of the next end of a line, or the one after the last.         *)
LineEnd(wire) ==
  CHOOSE k \in 1..(Len(wire) + 1) : /\ AllBytes(SubSeq(wire, 1, k - 1))
                                    /\ k > Len(wire) \/ wire[k][1] # "byte"

(* Bytes where a request line should be: getline reads through the next    *)
(* end of line, and parse_request_line refuses what it got.                *)
Garbage(wire, ending) ==
  IF AllBytes(wire) /\ ending = "silent" THEN Outcome(0, "none", <<>>, FALSE, Nobody)
  ELSE Outcome(400, "none", From(wire, LineEnd(wire) + 1), FALSE, Nobody)

ConnectionClosed(r) ==
  \/ r.connection = "close"
  \/ r.version = "HTTP/1.0" /\ r.connection # "Keep-Alive"

(* prepare_content_receiver: gzip, deflate, br and zstd are not compiled   *)
(* in, and such content is refused before any of it is read; an encoding   *)
(* of another name goes to the handler as it is.                           *)
PrepareContentReceiver(r) == "encoding" \notin r.flaws

(* read_content of Server: the body, and the limit on forms.               *)
Unread(r) == r.method = "DELETE" /\ r.framing[1] # "length"

ReadContent(r, wire, ending) ==
  LET read == ReadBody(r.framing, wire)
      cut == r.framing = ToTheEnd /\ ending = "silent"
  IN  CASE Unread(r) -> [status |-> 200, rest |-> wire]
        [] ~Unread(r) /\ ~PrepareContentReceiver(r) -> [status |-> 415, rest |-> wire]
        [] ~Unread(r) /\ PrepareContentReceiver(r) ->
             [status |-> CASE read.outcome = "PayloadTooLarge" -> 413
                           [] read.outcome = "Error" -> 400
                           [] read.outcome = "Success" ->
                                IF cut THEN 400
                                ELSE IF r.form /\ Len(read.body) > FormMax
                                THEN 413 ELSE 200,
              rest |-> read.rest]

(* routing: read the body when one is expected, then the method's handler. *)
Routing(r, wire, ending) ==
  LET content == IF ExpectContent(r) THEN ReadContent(r, wire, ending)
                 ELSE [status |-> 200, rest |-> wire]
      end(status, runs) ==
        Outcome(status, runs, content.rest, ConnectionClosed(r), r)
  IN  CASE content.status # 200 -> end(content.status, "none")
        [] content.status = 200 /\ r.method \notin Dispatched -> end(400, "none")
        [] content.status = 200 /\ r.method \in Dispatched ->
             end(IF Route(r) = "none" THEN 404 ELSE 200, Route(r))

(* The checks in the order process_request makes them.  Header lines after *)
(* a refused one stay on the connection; a target that is too long makes   *)
(* it read a second header section, through the next line that is none.    *)
Process(wire, ending) ==
  IF wire = <<>> THEN Outcome(0, "none", <<>>, FALSE, Nobody)
  ELSE IF ~IsUnit(wire, "line") THEN Garbage(wire, ending)
  ELSE LET r == Head(wire)[2]
           rest == From(wire, 3)
           headless == [Nobody EXCEPT !.id = r.id]
       IN CASE "line" \in r.flaws ->
                 Outcome(400, "none", Tail(wire), FALSE, headless)
            [] "line" \notin r.flaws /\ ~IsUnit(Tail(wire), "head") ->
                 Outcome(400, "none", <<>>, FALSE, headless)
            [] "line" \notin r.flaws /\ IsUnit(Tail(wire), "head") ->
                 IF "header" \in r.flaws
                 THEN Outcome(400, "none", Tail(wire), FALSE, r)
                 ELSE IF "target" \in r.flaws
                 THEN Outcome(414, "none", From(rest, LineEnd(rest) + 1), FALSE, r)
                 ELSE IF "accept" \in r.flaws
                 THEN Outcome(400, "none", rest, ConnectionClosed(r), r)
                 ELSE IF "range" \in r.flaws
                 THEN Outcome(416, "none", rest, ConnectionClosed(r), r)
                 ELSE Routing(r, rest, ending)

(* Of a header section that is not all there the Connection header may be  *)
(* among the lines that were read.                                         *)
Outcomes(wire, ending) ==
  {Process(wire, ending)} \cup
  (IF IsUnit(wire, "line") /\ "line" \notin Head(wire)[2].flaws /\ Len(wire) = 1
   THEN {Outcome(400, "none", <<>>, FALSE, Head(wire)[2])} ELSE {})

(* process_request has read so much and waits for more: for the end of a   *)
(* line, for the header section, for the rest of the body.                 *)
StillReading(wire) ==
  \/ AllBytes(wire)
  \/ /\ IsUnit(wire, "line")
     /\ LET r == Head(wire)[2]
            rest == From(wire, 3)
        IN  /\ "line" \notin r.flaws
            /\ \/ Len(wire) = 1
               \/ r.flaws \cap {"header", "target"} = {"target"} /\ AllBytes(rest)
               \/ /\ r.flaws = {}
                  /\ ExpectContent(r) /\ ~Unread(r)
                  /\ Awaits(r.framing, rest)
=============================================================================
