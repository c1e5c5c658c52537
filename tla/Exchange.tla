------------------------------ MODULE Exchange ------------------------------
(***************************************************************************)
(* One request and its answer, from what the caller and the handler hand   *)
(* over to what the other side makes of it: ClientImpl::write_request      *)
(* against Server::process_request, and Server::write_response_core        *)
(* against ClientImpl::process_request.  Each side learns the framing from *)
(* the header fields only.                                                 *)
(***************************************************************************)
EXTENDS HttpRequest

(* Header fields, a multimap: pairs in the order of their insertion.       *)
Has(fields, name) == \E i \in DOMAIN fields : fields[i][1] = name
ValueOf(fields, name) == SelectSeq(fields, LAMBDA f : f[1] = name)[1][2]
With(fields, name, value) == Append(fields, <<name, value>>)
Unless(fields, name, value) ==
  IF Has(fields, name) THEN fields ELSE With(fields, name, value)

(* read_content's choice of the loop, and the test for a closing message.  *)
FramingOf(fields) ==
  IF Has(fields, "Transfer-Encoding") THEN Chunked
  ELSE IF Has(fields, "Content-Length") THEN Counted(ValueOf(fields, "Content-Length"))
  ELSE ToTheEnd
ConnectionOf(fields) == IF Has(fields, "Connection") THEN ValueOf(fields, "Connection") ELSE "none"

(* The content of a message, in the pieces its source gives: a string, a   *)
(* provider of a known length, one that is sent in chunks, one that ends   *)
(* with the connection.                                                    *)
Content(m) == FlattenSeq(m.pieces)
IsText(m) == m.source = "text" /\ Content(m) # <<>>

(* What the client's functions hand over, whichever of their overloads is  *)
(* called.  Parameters become a string that is a form; form data becomes a *)
(* string, or chunks when some of it has a provider.                       *)
Ask(method, source, pieces, form) ==
  [method |-> method, source |-> source, pieces |-> pieces, form |-> form]

GetCalls == {Ask("GET", "text", <<>>, FALSE)}
HeadCalls == {Ask("HEAD", "text", <<>>, FALSE)}
OptionsCalls == {Ask("OPTIONS", "text", <<>>, FALSE)}
DeleteCalls(pieces) == {Ask("DELETE", "text", pieces, form) : form \in BOOLEAN}

Uploads(method, pieces) ==
  {Ask(method, "text", pieces, form) : form \in BOOLEAN} \cup
  {Ask(method, source, pieces, FALSE) : source \in {"counted", "chunked"}}
PostCalls(pieces) == Uploads("POST", pieces)
PutCalls(pieces) == Uploads("PUT", pieces)
PatchCalls(pieces) == Uploads("PATCH", pieces)

(* send_with_content_provider, then the fields write_request adds to the   *)
(* caller's own; those that say nothing of the framing are left out.       *)
RequestFields(call) ==
  LET asked == IF call.source = "chunked"
               THEN With(call.own, "Transfer-Encoding", "chunked") ELSE call.own
      closing == IF call.closing THEN Unless(asked, "Connection", "close") ELSE asked
  IN  IF IsText(call) \/ call.source = "counted"
      THEN Unless(closing, "Content-Length", Len(Content(call)))
      ELSE IF call.source = "text" /\ call.method \in {"POST", "PUT", "PATCH"}
      THEN With(closing, "Content-Length", 0)
      ELSE closing

(* write_content_with_provider of either side, and a string as it is.      *)
ContentWritten(m) ==
  IF m.source = "chunked" THEN WriteChunked(m.pieces, <<>>) ELSE WriteData(Content(m))

RequestRead(call) ==
  [id |-> 1, method |-> call.method, path |-> call.path, version |-> "HTTP/1.1",
   connection |-> ConnectionOf(RequestFields(call)),
   framing |-> FramingOf(RequestFields(call)),
   body |-> Content(call), form |-> call.form, flaws |-> {}]

WriteRequest(call) == <<Line(RequestRead(call)), Head_>> \o ContentWritten(call)

(* set_content and the three ways to set a content provider; one for no    *)
(* bytes at all is dropped.                                                *)
HasProvider(answer) ==
  \/ answer.source \in {"chunked", "unsized"}
  \/ answer.source = "counted" /\ Content(answer) # <<>>

(* apply_ranges without ranges, which only an answer of a handler reaches, *)
(* and the fields write_response_core adds.                                *)
AnswerFields(answer, closing) ==
  LET length == Len(Content(answer))
      sized == IF answer.routed /\ answer.source = "chunked"
               THEN With(<<>>, "Transfer-Encoding", "chunked")
               ELSE IF answer.routed /\ answer.source # "unsized" /\ length > 0
               THEN With(<<>>, "Content-Length", length)
               ELSE <<>>
      connected == IF closing THEN With(sized, "Connection", "close")
                   ELSE With(sized, "Keep-Alive", "timeout")
  IN  IF ~HasProvider(answer) /\ length = 0 THEN Unless(connected, "Content-Length", 0)
      ELSE connected

WriteResponse(method, answer) ==
  IF method = "HEAD" THEN <<>> ELSE ContentWritten(answer)

(* process_request of the client, once it has the header section.          *)
ReadResponse(method, answer, fields, wire) ==
  IF answer.status \in {204, 304} \/ method = "HEAD"
  THEN Result("Success", <<>>, wire)
  ELSE ReadBody(FramingOf(fields), wire)
-----------------------------------------------------------------------------
(* Whatever way a caller hands over a body, the server reads that body and *)
(* not a unit of what follows it, and closes when it was asked to; a body  *)
(* beyond a limit is refused, and skipped when its length was announced.   *)
RequestArrives(call, following) ==
  LET wire == WriteRequest(call) \o following
      out == Process(wire, "silent")
      length == Len(Content(call))
      kept == length <= PayloadMax /\ (call.form => length <= FormMax)
  IN  /\ out.closed = (ConnectionOf(RequestFields(call)) = "close")
      /\ (call.closing /\ ~Has(call.own, "Connection")) => out.closed
      /\ kept => /\ out.status = IF Route(RequestRead(call)) = "none" THEN 404 ELSE 200
                 /\ ExpectContent(RequestRead(call)) /\ length > 0 =>
                      ReadBody(FramingOf(RequestFields(call)), From(wire, 3)).body = Content(call)
      /\ ~kept => out.status = 413
      /\ (kept \/ call.source # "chunked") => out.rest = following

(* Whatever a handler answers with, the client is given that content and   *)
(* reads nothing of the next answer.  Three ways of answering are beyond   *)
(* that: content under a status that has none, content of a handler that   *)
(* then threw, and content that only the end of the connection delimits.   *)
AnswerArrives(method, answer, closing, following) ==
  LET fields == AnswerFields(answer, closing)
      delimited == FramingOf(fields) # ToTheEnd \/ method = "HEAD"
      wire == WriteResponse(method, answer) \o (IF delimited THEN following ELSE <<>>)
      read == ReadResponse(method, answer, fields, wire)
      empty == WriteResponse(method, answer) = <<>>
      announced == answer.routed /\ answer.status \notin {204, 304}
  IN  empty \/ announced =>
        /\ read.outcome = "Success"
        /\ read.body = IF method = "HEAD" THEN <<>> ELSE Content(answer)
        /\ delimited => read.rest = following
=============================================================================
