----------------------------- MODULE BodyFraming -----------------------------
(***************************************************************************)
(* How httplib puts a message body on a connection and reads it back:      *)
(* counted by Content-Length, in chunks, or up to the end of the           *)
(* connection.  The wire is a sequence of units: a body byte, or a line of *)
(* the framing.  A "size" line is one strtoul reads a number from, less    *)
(* than ULONG_MAX; the writers here write no other in its place.  A line   *)
(* that is not all there is a matter of StreamReader.                      *)
(***************************************************************************)
EXTENDS Naturals, Sequences, SequencesExt, FiniteSets

CONSTANTS PayloadMax,  \* payload_max_length_ of the reading side
          LineMax,     \* CPPHTTPLIB_MAX_LINE_LENGTH, of any line
          FieldMax,    \* CPPHTTPLIB_HEADER_MAX_LENGTH, of a trailer field
          FieldsMax    \* CPPHTTPLIB_HEADER_MAX_COUNT, of trailer fields kept

ASSUME PayloadAssumption == PayloadMax \in Nat

ASSUME LinesAssumption ==
  LineMax \in Nat /\ FieldMax \in Nat /\ FieldsMax \in Nat /\ FieldMax <= LineMax

Byte(x) == <<"byte", x>>
SizeLine(n) == <<"size", n>>
Crlf == <<"crlf", 0>>

(* A trailer field: the size of its line, and whether the Trailer header   *)
(* declares it, so that it is kept.                                        *)
Field(f) == <<"field", f>>

IsUnit(wire, kind) == wire # <<>> /\ Head(wire)[1] = kind
AllBytes(wire) == \A i \in DOMAIN wire : wire[i][1] = "byte"
Values(wire) == [i \in DOMAIN wire |-> wire[i][2]]
From(wire, i) == SubSeq(wire, i, Len(wire))

(* write_data, and write_content when the provider has it all.             *)
WriteData(body) == [i \in DOMAIN body |-> Byte(body[i])]

(* data_sink.write: the empty write ends the loop and emits nothing.       *)
Chunk(piece) ==
  IF piece = <<>> THEN <<>>
  ELSE <<SizeLine(Len(piece))>> \o WriteData(piece) \o <<Crlf>>

LastChunk(trailers) ==
  <<SizeLine(0)>> \o [i \in DOMAIN trailers |-> Field(trailers[i])] \o <<Crlf>>

WriteChunked(pieces, trailers) ==
  FlattenSeq([i \in DOMAIN pieces |-> Chunk(pieces[i])]) \o LastChunk(trailers)

Result(outcome, body, rest) ==
  [outcome |-> outcome, body |-> body, rest |-> rest]

ReadContentWithLength(wire, n) ==
  IF Len(wire) < n \/ ~AllBytes(SubSeq(wire, 1, n))
  THEN Result("Error", <<>>, <<>>)
  ELSE Result("Success", Values(SubSeq(wire, 1, n)), From(wire, n + 1))

ReadContentWithoutLength(wire) ==
  IF Len(wire) > PayloadMax THEN Result("PayloadTooLarge", <<>>, <<>>)
  ELSE Result("Success", Values(wire), <<>>)

(* getline gives up on such a line.                                        *)
OverLong(unit) == unit[1] = "field" /\ unit[2].size > LineMax

(* trailer_header_count after k lines, and the limits checked at line i.   *)
Declared(fields, k) == Cardinality({i \in 1..k : fields[i][2].declared})
Tolerable(fields, i) == fields[i][2].size <= FieldMax /\ Declared(fields, i - 1) < FieldsMax

(* The trailer section up to its empty line.  Its absence is tolerated,    *)
(* and a first line that getline gives up on passes for its absence; what  *)
(* is left of that line is a line still.                                   *)
SkipTrailers(wire) ==
  LET n == CHOOSE k \in 0..Len(wire) :
             /\ \A i \in 1..k : wire[i][1] = "field"
             /\ k = Len(wire) \/ wire[k + 1][1] # "field"
  IN  IF wire # <<>> /\ OverLong(Head(wire)) THEN [found |-> TRUE, rest |-> wire]
      ELSE [found |-> \/ wire = <<>>
                      \/ /\ IsUnit(From(wire, n + 1), "crlf")
                         /\ \A i \in 1..n : Tolerable(wire, i),
            rest |-> From(wire, n + 2)]

(* What a chunk and the result of what follows it make together.           *)
Followed(data, others) ==
  Result(others.outcome,
         IF others.outcome = "Success" THEN data \o others.body ELSE <<>>, others.rest)

(* The chunks from place i on, when got bytes of the body were read; after *)
(* gives the same for later places.                                        *)
ChunksFrom(wire, after, i, got) ==
  LET n == wire[i][2]
      data == ReadContentWithLength(From(wire, i + 1), n)
      trailer == SkipTrailers(From(wire, i + 1))
  IN IF ~IsUnit(From(wire, i), "size") THEN Result("Error", <<>>, <<>>)
     ELSE IF n = 0
          THEN IF trailer.found THEN Result("Success", <<>>, trailer.rest)
               ELSE Result("Error", <<>>, <<>>)
     ELSE IF got + n > PayloadMax
          THEN Result("PayloadTooLarge", <<>>, From(wire, i + 1))
     ELSE IF data.outcome # "Success" \/ ~IsUnit(data.rest, "crlf")
          THEN Result("Error", <<>>, <<>>)
     ELSE Followed(data.body, after[i + n + 2][got + n])

ReadContentChunked(wire) ==
  LET from[i \in 1 .. Len(wire) + 1] ==
        [got \in 0 .. PayloadMax |-> ChunksFrom(wire, from, i, got)]
  IN  from[1][0]

(* The framing a header section announces: Transfer-Encoding wins, then    *)
(* Content-Length, and without either the body ends with the connection.   *)
(* A body that is announced too long is skipped, not kept.                 *)
Counted(n) == <<"length", n>>
Chunked == <<"chunked", 0>>
ToTheEnd == <<"close", 0>>

ReadBody(framing, wire) ==
  IF framing = Chunked THEN ReadContentChunked(wire)
  ELSE IF framing = ToTheEnd THEN ReadContentWithoutLength(wire)
  ELSE IF framing[2] > PayloadMax
       THEN Result("PayloadTooLarge", <<>>, From(wire, framing[2] + 1))
  ELSE ReadContentWithLength(wire, framing[2])

(* The reader has read so much and waits for more.  What is written above  *)
(* has no line that is out of place: a chunked body is in error only       *)
(* because it is not all there.                                            *)
Awaits(framing, wire) ==
  IF framing = Chunked
    THEN LET read == ReadContentChunked(wire) IN
         \/ read.outcome = "Error"
         \/ read.outcome = "Success" /\ read.rest = <<>> /\ Last(wire) # Crlf
  ELSE IF framing = ToTheEnd THEN Len(wire) <= PayloadMax
  ELSE Len(wire) < framing[2]
=============================================================================
