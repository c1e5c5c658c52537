------------------------------- MODULE MCWire -------------------------------
(***************************************************************************)
(* Instances for TLC of everything that turns values into bytes and back:  *)
(* the readers of a body, the parser of a form, and, as single cases, the  *)
(* codecs of parameters, targets and ranges.  One of them runs in each     *)
(* behaviour; the others rest in one fixed state.                          *)
(***************************************************************************)
EXTENDS StreamReader, FormDataParser, HeaderFields, ByteRanges, AcceptHeader, Exchange

VARIABLE case   \* a case of another codec

MCBodies == {[i \in 1..n |-> i] : n \in 0..5}
(* Fields of every kind in the first places: kept or not, at either limit  *)
(* of the length, beyond it.                                               *)
MCField(n, d) == [size |-> n, declared |-> d]
MCTrailers ==
  {<<>>, <<MCField(5, FALSE)>>, <<MCField(3, FALSE), MCField(4, FALSE)>>,
   <<MCField(3, FALSE), MCField(5, FALSE)>>, <<MCField(2, TRUE), MCField(3, FALSE)>>,
   <<MCField(2, FALSE), MCField(2, TRUE)>>, <<MCField(4, TRUE)>>}
MCUndecoded == {<<76>>}
MCFollowing == <<<<"line", "next">>, <<"line", "message">>>>

Texts(symbols, least, most) == UNION {[1..n -> symbols] : n \in least..most}

FormSymbols == {"x", "cr", "lf", "-"}
MCForms == {<<c>> : c \in Texts(FormSymbols, 0, 3) \cup {<<"cr", "lf", "-", "-">>, <<"cr", "lf", "-", "-", "x", "B">>}}
           \cup {<<c, d>> : c, d \in Texts(FormSymbols, 0, 1)}
           \cup {<<c, <<>>, d>> : c, d \in Texts({"lf"}, 0, 1)}

(* a 4 A blank + % & = # and a byte above 127                              *)
Bytes == {97, 52, 65, SPACE, PLUS, PERCENT, AMP, EQUALS, HASH, 233}
KeyValue(k, v) == [n \in {k, <<107>>} |-> IF n = k THEN <<v>> ELSE <<<<>>, <<PLUS>>>>]

Cases ==
  {<<"params", KeyValue(k, v)>> : k \in Texts(Bytes, 1, 1), v \in Texts(Bytes, 0, 3)}
  \cup {<<"target", p, q>> : p \in Texts({97, SPACE, PLUS, EQUALS, 233}, 1, 2),
                             q \in Texts({97, 52, SPACE, PLUS, PERCENT, AMP, EQUALS}, 0, 3)}
  \cup {<<"fields", <<<<n, v>>>>>> :
           n \in {<<>>, <<107>>, <<76>>, <<107, COLON>>, <<107, SPACE>>},
           v \in Texts({97, SPACE, 13, 10, COLON, PERCENT, 52, 233}, 0, 3) \cup
                 {<<PERCENT, 52, 49, SPACE, 97>>, <<97, SPACE, SPACE, SPACE, SPACE, 97>>}}
  \cup {<<"fields", fs>> : fs \in Texts({<<<<107>>, <<>>>>, <<<<107>>, <<97, COLON>>>>, <<<<76>>, <<13, 10>>>>}, 2, 4)}

MCRangeRequests ==
  [ranges : Texts((-1..2) \X (-1..2), 1, 3), len : {2}] \cup
  [ranges : Texts({<<-1, 2>>, <<0, 0>>, <<0, -1>>, <<1, 2>>, <<1, 3>>, <<2, 9>>}, 1, 5), len : {4}]

Pieces == UNION {Cuts(b) : b \in Bodies}
Asked ==
  GetCalls \cup HeadCalls \cup OptionsCalls \cup
  UNION {PostCalls(p) \cup PutCalls(p) \cup PatchCalls(p) \cup DeleteCalls(p) : p \in Pieces}
Own(asked) ==
  {<<>>, <<<<"Connection", "close">>>>, <<<<"Connection", "keep-alive">>>>,
   <<<<"Content-Length", Len(Content(asked))>>>>}
Calls ==
  UNION {{asked @@ [path |-> p, own |-> o, closing |-> c] :
            p \in {"/api/data", "/kv"}, o \in Own(asked), c \in BOOLEAN} : asked \in Asked}

Replies ==
  [status : {200, 204, 304, 404, 500}, routed : BOOLEAN,
   source : {"text", "counted", "chunked", "unsized"},
   pieces : {p \in Pieces : Len(FlattenSeq(p)) <= PayloadMax}]

AcceptPieces ==
  {<<Nothing, NoQuality>>, <<Blank, NoQuality>>, <<"slashless", NoQuality>>} \cup
  (MediaTypes \X ({NoQuality, Unreadable, NaN} \cup {Quarters(n) : n \in {-1, 0, 2, 4, 5}}))
Preferences == MediaTypes \X {NoQuality, Quarters(0), Quarters(2), Quarters(4)}

MoreCases ==
  {<<"request", c>> : c \in Calls}
  \cup {<<"answer", m, a, closing>> : m \in {"GET", "HEAD", "POST"}, a \in Replies, closing \in BOOLEAN}
  \cup {<<"accept", h>> : h \in Texts(AcceptPieces, 0, 3) \cup Texts(Preferences, 4, 4)}
NoCase == <<"none">>

StreamRests ==
  /\ content = <<>> /\ framing = Counted(0) /\ wire = <<>> /\ net = <<>> /\ ending = "closed"
  /\ torn = <<>> /\ buf = <<>> /\ at = "rests" /\ need = 0 /\ fieldCount = 0 /\ body = <<>>
FormRests ==
  /\ items = <<>> /\ lines = <<>> /\ coming = <<>> /\ held = <<>> /\ parsing = FALSE
  /\ state = "rests" /\ is_valid = TRUE /\ refused = FALSE /\ form = <<>>

WireInit ==
  \/ StreamInit /\ FormRests /\ ranged = NoRanges /\ case = NoCase
  \/ StreamRests /\ FormInit /\ ranged = NoRanges /\ case = NoCase
  \/ StreamRests /\ FormRests /\ RangedInit /\ case = NoCase
  \/ StreamRests /\ FormRests /\ ranged = NoRanges /\ case \in Cases \cup MoreCases

WireNext ==
  \/ StreamNext /\ UNCHANGED <<formVars, ranged, case>>
  \/ FormNext /\ UNCHANGED <<streamVars, ranged, case>>

WireSpec == WireInit /\ [][WireNext]_<<streamVars, formVars, ranged, case>>
-----------------------------------------------------------------------------
(* What one side writes is what the other reads, for each case: the        *)
(* properties of UrlEncoding on parameters and targets, of HeaderFields on *)
(* a header section, of Exchange on a whole request and a whole answer, of *)
(* AcceptHeader on an Accept header.                                       *)
EncodedArrives ==
  CASE case[1] = "params" -> ParamsArrive(case[2])
    [] case[1] = "target" -> TargetArrives(case[2], case[3])
    [] case[1] = "fields" -> FieldsArrive(case[2], <<97>> \o CRLF)
    [] case[1] = "request" -> RequestArrives(case[2], Following)
    [] case[1] = "answer" -> AnswerArrives(case[2], case[3], case[4], Following)
    [] case[1] = "accept" -> AcceptOrdered(case[2])
    [] OTHER -> TRUE
=============================================================================
