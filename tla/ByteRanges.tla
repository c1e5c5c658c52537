----------------------------- MODULE ByteRanges -----------------------------
(***************************************************************************)
(* Requests for parts of an answer: httplib's Range header, which every    *)
(* handler's answer is subject to without the handler knowing.  A range is *)
(* a pair of positions, Missing (-1) where the header leaves one out.      *)
(***************************************************************************)
EXTENDS Integers, Sequences, FiniteSets, FiniteSetsExt, SequencesExt

CONSTANTS
  RANGE_MAX_COUNT,   \* CPPHTTPLIB_RANGE_MAX_COUNT
  RangeRequests      \* records of the ranges asked for and the length of the answer

VARIABLE ranged      \* a request for parts

Missing == -1
NoRanges == [ranges |-> <<>>, len |-> 0]   \* no Range header

(* Positions are naturals or missing (the grammar of the header).          *)
ASSUME RangesAssumption ==
  \A asked \in RangeRequests :
    /\ asked.ranges \in Seq((Nat \cup {Missing}) \X (Nat \cup {Missing}))
    /\ asked.len \in Nat

(* parse_range_header, on the pairs between the commas.                    *)
ParseRangeHeader(ranges) ==
  /\ ranges # <<>>
  /\ \A i \in DOMAIN ranges :
       LET r == ranges[i] IN
       /\ r # <<Missing, Missing>>
       /\ Missing \in {r[1], r[2]} \/ r[1] <= r[2]

(* A range in terms of an answer of len bytes: a suffix, an open or an     *)
(* overlong end.                                                           *)
Absolute(r, len) ==
  LET suffix == r[1] = Missing
      first == IF suffix THEN len - r[2] ELSE r[1]
      last == IF suffix THEN len - 1 ELSE r[2]
  IN  <<first, IF last = Missing \/ last >= len THEN len - 1 ELSE last>>

Within(r, len) == 0 <= r[1] /\ r[1] <= r[2] /\ r[2] < len
Overlap(r, s) == ~(r[2] < s[1] \/ r[1] > s[2])

(* range_error: too many ranges, one outside of the answer, or more than   *)
(* two that overlap an earlier one.                                        *)
RangeError(ranges, len) ==
  LET rs == [i \in DOMAIN ranges |-> Absolute(ranges[i], len)] IN
  \/ Len(rs) > RANGE_MAX_COUNT
  \/ \E i \in DOMAIN rs : ~Within(rs[i], len)
  \/ Cardinality({i \in DOMAIN rs : \E j \in 1 .. i - 1 : Overlap(rs[i], rs[j])}) > 2

(* std::sort by the first position leaves the order of equal ones open.    *)
SortedByFirst(rs) ==
  {s \in {[i \in DOMAIN rs |-> rs[p[i]]] : p \in {q \in [DOMAIN rs -> DOMAIN rs] :
             \A i, j \in DOMAIN rs : q[i] = q[j] => i = j}} :
     \A i \in 1 .. Len(s) - 1 : s[i][1] <= s[i + 1][1]}

(* coalesce_ranges on sorted ranges: one that overlaps or touches the last *)
(* and is not the same extends it.                                         *)
MutantMerged(rs, r) ==              \* mutant: the end is overwritten
  IF rs # <<>> /\ r[1] <= Last(rs)[2] + 1 /\ r # Last(rs)
  THEN [rs EXCEPT ![Len(rs)] = <<@[1], r[2]>>]
  ELSE Append(rs, r)

Merged(rs, r) ==
  IF rs # <<>> /\ r[1] <= Last(rs)[2] + 1 /\ r # Last(rs)
  THEN [rs EXCEPT ![Len(rs)] = <<@[1], Max({@[2], r[2]})>>]
  ELSE Append(rs, r)

Coalesced(rs) ==
  LET after[n \in 0 .. Len(rs)] == IF n = 0 THEN <<>> ELSE Merged(after[n - 1], rs[n])
  IN  after[Len(rs)]

CoalesceRanges(ranges, len) ==
  LET rs == [i \in DOMAIN ranges |-> Absolute(ranges[i], len)]
  IN  IF Len(ranges) <= 1 THEN {rs} ELSE {Coalesced(s) : s \in SortedByFirst(rs)}

(* apply_ranges: one part by get_range_offset_and_length, or several as    *)
(* multipart/byteranges.                                                   *)
ApplyRanges(ranges, len) ==
  {[status |-> 206, parts |-> rs] : rs \in CoalesceRanges(ranges, len)}

(* process_request's end for a request for ranges of an answer a handler   *)
(* has made: refused at the header, refused at the answer, or cut.         *)
Answers(ranges, len) ==
  IF ~ParseRangeHeader(ranges) \/ RangeError(ranges, len)
  THEN {[status |-> 416, parts |-> <<>>]}
  ELSE ApplyRanges(ranges, len)

(* The bytes of an answer, and the same with the parts they are sent in.   *)
BytesOf(rs) == UNION {rs[i][1] .. rs[i][2] : i \in DOMAIN rs}
BytesSent(rs) == UNION {{i} \X (rs[i][1] .. rs[i][2]) : i \in DOMAIN rs}

RangedInit == ranged \in RangeRequests
-----------------------------------------------------------------------------
(* Whatever ranges are asked for, in whatever order and overlap, an answer *)
(* 206 holds exactly the bytes asked for, cuts only within the answer (the *)
(* assertions of get_range_offset_and_length), and is at most three times  *)
(* as long as the whole.                                                   *)
RangesAnswered(ranges, len) ==
  \A a \in Answers(ranges, len) :
    a.status = 206 =>
      /\ BytesOf(a.parts) = BytesOf([i \in DOMAIN ranges |-> Absolute(ranges[i], len)])
      /\ \A i \in DOMAIN a.parts : Within(a.parts[i], len)
      /\ Cardinality(BytesSent(a.parts)) <= 3 * len

PartsArrive == ranged # NoRanges => RangesAnswered(ranged.ranges, ranged.len)
=============================================================================
