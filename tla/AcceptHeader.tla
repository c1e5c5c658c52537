---------------------------- MODULE AcceptHeader ----------------------------
(***************************************************************************)
(* detail::parse_accept_header, which process_request runs before it looks *)
(* at the route of a request: the media types that an Accept header lists, *)
(* the preferred ones first.  A header is the sequence of what stands      *)
(* between its commas, pairs of a media type and of what follows "q=".     *)
(***************************************************************************)
EXTENDS Integers, Sequences, SequencesExt

CONSTANTS MediaTypes  \* media types as "a/b", and "*"

(* What is no media type: nothing at all between two commas, only white    *)
(* space, or a name that is empty or has no slash (any other string).      *)
Nothing == "nothing"
Blank == "blank"

(* The quality: none given, one that is empty or no number to std::stod,   *)
(* one that std::stod reads as not-a-number, or a number in quarters.      *)
NoQuality == <<"none", 0>>
Unreadable == <<"unreadable", 0>>
NaN == <<"nan", 0>>
Quarters(n) == <<"number", n>>
One == 4

QualityOf(entry) == IF entry[2] = NoQuality THEN Quarters(One) ELSE entry[2]

(* The range test, two comparisons, lets not-a-number through.             *)
InRange(q) == q = NaN \/ q \in {Quarters(n) : n \in 0 .. One}

(* The header as a whole is searched for commas with nothing between them, *)
(* at its ends or next to each other; split passes over a blank piece.     *)
EntriesOf(header) == SelectSeq(header, LAMBDA x : x[1] # Blank)
Refused(header) ==
  \E i \in DOMAIN header :
    \/ header[i][1] = Nothing
    \/ /\ header[i][1] # Blank
       /\ header[i][1] \notin MediaTypes \/ ~InRange(QualityOf(header[i]))

(* The comparison that std::sort is given, for the places of two entries.  *)
Before(entries, i, j) ==
  LET p == QualityOf(entries[i])
      q == QualityOf(entries[j])
  IN  IF p = q THEN i < j ELSE p[2] > q[2]

(* Next to not-a-number the comparison is no order, and std::sort may      *)
(* leave the entries in any order.                                         *)
Sortings(entries) ==
  IF \E i \in DOMAIN entries : QualityOf(entries[i]) = NaN
  THEN SetToSeqs(DOMAIN entries)
  ELSE {SetToSortSeq(DOMAIN entries, LAMBDA i, j : Before(entries, i, j))}

ParseAcceptHeader(header) ==
  IF Refused(header) THEN {[ok |-> FALSE, types |-> <<>>]}
  ELSE LET entries == EntriesOf(header)
       IN  {[ok |-> TRUE, types |-> [n \in DOMAIN s |-> entries[s[n]][1]]] :
              s \in Sortings(entries)}
-----------------------------------------------------------------------------
(* The types of the entries with the same quality stay in the order of the *)
(* header, those of a higher quality come before, none is lost, doubled or *)
(* invented; a quality that is not a number costs the order only.          *)
AcceptOrdered(header) ==
  LET entries == EntriesOf(header)
      level(n) == SelectSeq(entries, LAMBDA x : QualityOf(x) = Quarters(n))
      levels == FlattenSeq([n \in 1 .. One + 1 |-> level(One + 1 - n)])
      count(s, t) == Len(SelectSeq(s, LAMBDA x : x = t))
      typesOf(s) == [i \in DOMAIN s |-> s[i][1]]
      numbers == \A i \in DOMAIN entries : QualityOf(entries[i]) # NaN
  IN  \A parsed \in ParseAcceptHeader(header) :
        parsed.ok =>
          /\ numbers => parsed.types = typesOf(levels)
          /\ \A t \in MediaTypes : count(parsed.types, t) = count(typesOf(entries), t)
          /\ Len(parsed.types) = Len(entries)
=============================================================================
