---------------------------- MODULE StreamReader ----------------------------
(***************************************************************************)
(* httplib::detail::SocketStream under the loops that read a body.  recv   *)
(* hands out any non-empty piece of what has arrived, SocketStream keeps   *)
(* what a small read did not take, and a time-out or an early end of the   *)
(* connection may come at any unit and within any line.                    *)
(***************************************************************************)
EXTENDS Integers, BodyFraming

CONSTANTS Bodies,     \* the bodies that may be sent, sequences of values
          Trailers,   \* the trailer sections that may follow a chunked body
          Following,  \* the units of a message that follows on the connection
          ReadBuff,   \* read_buff_size_ of SocketStream
          RecvBuf,    \* CPPHTTPLIB_RECV_BUFSIZ
          Radix       \* of the digits of a chunk's size, 16

ASSUME BufferAssumption == ReadBuff \in Nat \ {0} /\ RecvBuf \in Nat \ {0}

ASSUME RadixAssumption == Radix \in Nat \ {0, 1}

ASSUME SequencesAssumption ==
  /\ \A b \in Bodies : b \in Seq(Range(b))
  /\ \A t \in Trailers :
       /\ t \in Seq(Range(t))
       /\ \A f \in Range(t) : f \in [size : Nat, declared : BOOLEAN]
  /\ Following \in Seq(Range(Following))

(* A size line holds a number, in what follows too.                        *)
ASSUME SizesAssumption == \A x \in Range(Following) : x[1] = "size" => x[2] \in Nat

VARIABLES
  content,   \* the body the sender was asked to send
  framing,   \* how it is framed
  wire,      \* what the sender got onto the connection, whole or cut short
  net,       \* the part of it recv has not returned yet
  ending,    \* what follows it: the peer "closed", or is "silent" for good
  torn,      \* the line it closed in the middle of, as far as it got, or <<>>
  buf,       \* read_buff_ from read_buff_off_ up to read_buff_content_size_
  at,        \* which loop of the reader runs, or its result
  need,      \* what is left of the counted body or of the current chunk
  fieldCount,  \* trailer_header_count
  body       \* what the receiver was given

streamVars == <<content, framing, wire, net, ending, torn, buf, at, need, fieldCount, body>>

(* The ways to cut a body into the pieces a content provider writes, each  *)
(* given by where its pieces end.                                          *)
Ends(m, n) ==
  {e \in [0..m -> 0..n] : e[0] = 0 /\ e[m] = n /\ \A i \in 1..m : e[i - 1] < e[i]}
CutAt(s, m, e) == [i \in 1..m |-> SubSeq(s, e[i - 1] + 1, e[i])]
Cuts(s) == UNION {{CutAt(s, m, e) : e \in Ends(m, Len(s))} : m \in 0..Len(s)}

Encodings(s) ==
  {<<Counted(Len(s)), WriteData(s) \o Following>>, <<ToTheEnd, WriteData(s)>>} \cup
  {<<Chunked, WriteChunked(p, t) \o Following>> : p \in Cuts(s), t \in Trailers}

(* read_content chooses the loop; the first reads are still to come.       *)
Begin(f) ==
  IF f = Chunked THEN "size"
  ELSE IF f = ToTheEnd THEN "rest"
  ELSE IF f[2] > PayloadMax THEN "skip"
  ELSE IF f[2] > 0 THEN "counted" ELSE "Success"

(* At the end of a connection getline returns what it has of a line: the   *)
(* first digits of a size, a field that is too short, the CR of an empty   *)
(* line.  Nothing but its line end is missing of the size 0 of the last    *)
(* chunk, which is read like the whole line.  (A time-out within a line is *)
(* like one before it: getline returns nothing.)                           *)
Lone == Field([size |-> 1, declared |-> FALSE])
Torn(unit) ==
  CASE unit[1] = "size" ->
         {SizeLine(m) : m \in {d \in 1..unit[2] : \E j \in 0..unit[2] : d = unit[2] \div Radix^j}}
    [] unit[1] = "field" -> {Field([unit[2] EXCEPT !.size = s]) : s \in 1 .. unit[2].size - 1}
    [] unit[1] = "crlf" -> {Lone}
    [] OTHER -> {}

StreamInit ==
  /\ content \in Bodies
  /\ \E e \in Encodings(content) : \E k \in 0..Len(e[2]) :
       /\ framing = e[1] /\ wire = SubSeq(e[2], 1, k)
       /\ \/ ending \in {"closed", "silent"} /\ torn = <<>>
          \/ ending = "closed" /\ k < Len(e[2]) /\ \E u \in Torn(e[2][k + 1]) : torn = <<u>>
  /\ net = wire /\ buf = <<>> /\ body = <<>> /\ fieldCount = 0
  /\ at = Begin(framing)
  /\ need = framing[2]

Least(m, n) == IF m < n THEN m ELSE n

(* SocketStream::read(ptr, n): what it returns, the units at ptr, and what *)
(* it leaves in read_buff_ and in the socket.                              *)
Read(ret, got, kept, left) ==
  [ret |-> ret, got |-> got, buf |-> kept, net |-> left]

FromBuffer(n) ==
  LET k == Least(n, Len(buf))
  IN  Read(k, SubSeq(buf, 1, k), From(buf, k + 1), net)

(* recv: some of what has arrived; select: nothing comes any more, because *)
(* the connection has ended or the time-out passed.                        *)
Recv(k) == SubSeq(net, 1, k)
SelectRead == IF ending = "closed" THEN 0 ELSE -1

MutantFromRecv(n, k) ==            \* mutant: read_buff_off_ stays 0
  LET some == Recv(k)
  IN  Read(Least(n, k), SubSeq(some, 1, Least(n, k)),
           IF k > n THEN some ELSE <<>>, From(net, k + 1))
FromRecv(n, k) ==
  LET some == Recv(k)
  IN  Read(Least(n, k), SubSeq(some, 1, Least(n, k)), From(some, n + 1),
           From(net, k + 1))

Reads(n) ==
  IF buf # <<>> THEN {FromBuffer(n)}
  ELSE IF net = <<>>
       THEN {Read(SelectRead, <<>>, <<>>, <<>>)}
       ELSE {FromRecv(n, k) :
               k \in 1..Least(Len(net), IF n < ReadBuff THEN ReadBuff ELSE n)}

Take(r) == buf' = r.buf /\ net' = r.net

(* One getline, by what its first read returns: the line, the torn one at  *)
(* the end of the connection, or none.                                     *)
LineOf(r) == IF r.ret > 0 THEN r.got ELSE torn

GetLine(r, next) ==
  /\ Take(r)
  /\ at' = IF LineOf(r) = <<>> THEN "Error" ELSE next
  /\ UNCHANGED <<content, framing, wire, ending, torn, fieldCount, body>>

ReadSize ==
  /\ at = "size"
  /\ \E r \in Reads(1) :
       LET line == LineOf(r)
           n == line[1][2]
       IN  /\ GetLine(r, IF line[1][1] # "size" THEN "Error"
                         ELSE IF n = 0 THEN "trailer"
                         ELSE IF Len(body) + n > PayloadMax THEN "PayloadTooLarge"
                         ELSE "chunk")
           /\ need' = IF line # <<>> THEN n ELSE need

(* The loops of read_content_with_length: the whole body, or one chunk.    *)
MutantReadCounted ==               \* mutant: a short read ends the loop
  /\ at \in {"counted", "chunk"}
  /\ \E r \in Reads(Least(need, RecvBuf)) :
       /\ Take(r)
       /\ body' = body \o Values(r.got)
       /\ need' = need - Len(r.got)
       /\ at' = IF r.ret <= 0 THEN "Error"
                ELSE IF at = "chunk" THEN "crlf" ELSE "Success"
  /\ UNCHANGED <<content, framing, wire, ending, torn, fieldCount>>
ReadCounted ==
  /\ at \in {"counted", "chunk"}
  /\ \E r \in Reads(Least(need, RecvBuf)) :
       /\ Take(r)
       /\ body' = body \o Values(r.got)
       /\ need' = need - Len(r.got)
       /\ at' = IF r.ret <= 0 THEN "Error"
                ELSE IF need' > 0 THEN at
                ELSE IF at = "chunk" THEN "crlf" ELSE "Success"
  /\ UNCHANGED <<content, framing, wire, ending, torn, fieldCount>>

(* skip_content_with_length, then 413.                                     *)
Skip ==
  /\ at = "skip"
  /\ \E r \in Reads(Least(need, RecvBuf)) :
       /\ Take(r)
       /\ need' = need - Len(r.got)
       /\ at' = IF r.ret <= 0 \/ need' = 0 THEN "PayloadTooLarge" ELSE at
  /\ UNCHANGED <<content, framing, wire, ending, torn, fieldCount, body>>

ReadChunkEnd ==
  /\ at = "crlf"
  /\ \E r \in Reads(1) : GetLine(r, IF LineOf(r)[1] = Crlf THEN "size" ELSE "Error")
  /\ UNCHANGED need

(* The first line after the last chunk may be missing, a later one not;    *)
(* one that getline gives up on counts as missing, and what is left of it  *)
(* stays.  After a torn line the next one is missing.                      *)
ReadTrailer ==
  /\ at \in {"trailer", "fields"}
  /\ \E r \in Reads(1) :
       LET line == LineOf(r)
           given == line # <<>> /\ ~OverLong(line[1])
           field == given /\ line[1] # Crlf
           tolerable == line[1][2].size <= FieldMax /\ fieldCount < FieldsMax
       IN  /\ \/ given /\ Take(r)
              \/ ~given /\ UNCHANGED <<buf, net>>
           /\ at' = IF ~given /\ at = "fields" THEN "Error"
                    ELSE IF ~field THEN "Success"
                    ELSE IF ~tolerable \/ r.ret <= 0 THEN "Error"
                    ELSE "fields"
           /\ fieldCount' = IF at' = "fields" /\ line[1][2].declared THEN fieldCount + 1 ELSE fieldCount
  /\ UNCHANGED <<content, framing, wire, ending, torn, need, body>>

(* read_content_without_length: only the end of the connection ends it.    *)
ReadRest ==
  /\ at = "rest"
  /\ \E r \in Reads(RecvBuf) :
       /\ Take(r)
       /\ at' = IF r.ret = 0 THEN "Success"
                ELSE IF r.ret < 0 THEN "Error"
                ELSE IF Len(body) + r.ret > PayloadMax THEN "PayloadTooLarge"
                ELSE at
       /\ body' = IF at' = "rest" THEN body \o Values(r.got) ELSE body
  /\ UNCHANGED <<content, framing, wire, ending, torn, fieldCount, need>>

StreamNext ==
  ReadSize \/ ReadCounted \/ Skip \/ ReadChunkEnd \/ ReadTrailer \/ ReadRest

StreamSpec == StreamInit /\ [][StreamNext]_streamVars
-----------------------------------------------------------------------------
Done == at \in {"Success", "PayloadTooLarge", "Error"}

(* However recv cuts the stream up and whatever SocketStream buffers       *)
(* between a line and the data that follows it, the loops reach the result *)
(* that the framing gives the whole stream, when that ends between lines.  *)
ReadersAgreeWithFraming ==
  Done /\ torn = <<>> => LET whole == ReadBody(framing, wire) IN
    /\ ending = "closed" \/ framing # ToTheEnd => at = whole.outcome
    /\ at = "Success" => body = whole.body

(* A body that is cut short, be it within a line, is never taken for the   *)
(* whole one: success means the receiver was given exactly what the sender *)
(* framed, and the next message on the connection is untouched, unless a   *)
(* trailer line nobody can read is left before it.                         *)
SuccessMeansWhole ==
  at = "Success" /\ framing # ToTheEnd =>
    /\ body = content
    /\ \/ IsPrefix(buf \o net, Following)
       \/ buf \o net # <<>> /\ OverLong(Head(buf \o net))
=============================================================================
