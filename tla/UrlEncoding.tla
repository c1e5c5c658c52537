---------------------------- MODULE UrlEncoding ----------------------------
(***************************************************************************)
(* How httplib carries a path and parameters: the client's encoding of the *)
(* request target and of a form body, and the server's decoding of both.   *)
(* A string is a sequence of byte values; parameters (a multimap) are a    *)
(* function from names to the sequence of their values.                    *)
(***************************************************************************)
EXTENDS Integers, Sequences, SequencesExt

TAB == 9
SPACE == 32
HASH == 35
PERCENT == 37
AMP == 38
PLUS == 43
EQUALS == 61
QUESTION == 63
SmallU == 117

Digits == 48 .. 57
Letters == 65 .. 90 \cup 97 .. 122
HexDigits == Digits \cup 65 .. 70 \cup 97 .. 102

(* The number that s, a sequence of hexadecimal digits, stands for.        *)
FromHex(s) ==
  FoldLeft(LAMBDA n, c : 16 * n + (IF c \in Digits THEN c - 48 ELSE (c - 55) % 32), 0, s)
AllHex(s) == s # <<>> /\ \A i \in DOMAIN s : s[i] \in HexDigits
Upper(n) == IF n < 10 THEN 48 + n ELSE 55 + n
Escaped(c) == <<PERCENT, Upper(c \div 16), Upper(c % 16)>>

Mapped(s, op(_)) == FlattenSeq([i \in DOMAIN s |-> op(s[i])])

(***************************************************************************)
(* The encoders.                                                           *)
(***************************************************************************)
QuerySafe == Digits \cup Letters \cup
  {45, 46, 95, 126,                                \* - . _ ~
   33, 36, 39, 40, 41, 42, 44, 59,                 \* ! $ ' ( ) * , ;
   58, 64, 47, QUESTION}                           \* : @ / ?

MutantEncodeQueryComponent(s) ==    \* mutant: '+' taken for a safe character
  Mapped(s, LAMBDA c : IF c \in QuerySafe \cup {PLUS} THEN <<c>>
                       ELSE IF c = SPACE THEN <<PLUS>> ELSE Escaped(c))

EncodeQueryComponent(s) ==
  Mapped(s, LAMBDA c : IF c \in QuerySafe THEN <<c>>
                       ELSE IF c = SPACE THEN <<PLUS>> ELSE Escaped(c))

EncodePath(s) ==
  Mapped(s, LAMBDA c : IF c \in {SPACE, PLUS, 13, 10, 39, 44, 59} \cup 128 .. 255
                       THEN Escaped(c) ELSE <<c>>)

(* params_to_query_str, the names in any order.                            *)
Joined(s, glue) ==
  FoldLeft(LAMBDA made, piece : IF made = <<>> THEN piece ELSE made \o glue \o piece, <<>>, s)

ParamsToQueryStr(params) ==
  LET pairs(k) == [i \in DOMAIN params[k] |->
        EncodeQueryComponent(k) \o <<EQUALS>> \o EncodeQueryComponent(params[k][i])]
  IN  Joined(FlattenSeq([i \in DOMAIN SetToSeq(DOMAIN params) |->
                           pairs(SetToSeq(DOMAIN params)[i])]), <<AMP>>)

(***************************************************************************)
(* The decoders: a recursive function of the place reached.  strtoul takes *)
(* two hexadecimal digits, but also a blank or a sign and one of them.     *)
(***************************************************************************)
Strtoul2(a, b) ==
  IF {a, b} \subseteq HexDigits THEN FromHex(<<a, b>>)
  ELSE IF b \in HexDigits /\ a \in {SPACE, PLUS} \cup 9 .. 13 THEN FromHex(<<b>>)
  ELSE IF b \in HexDigits /\ a = 45 THEN (256 - FromHex(<<b>>)) % 256
  ELSE -1

DecodeQueryComponent(s) ==
  LET from[i \in 1 .. Len(s) + 3] ==
        IF i > Len(s) THEN <<>>
        ELSE IF s[i] = PERCENT /\ i + 2 <= Len(s) /\ Strtoul2(s[i + 1], s[i + 2]) # -1
             THEN <<Strtoul2(s[i + 1], s[i + 2])>> \o from[i + 3]
        ELSE <<IF s[i] = PLUS THEN SPACE ELSE s[i]>> \o from[i + 1]
  IN  from[1]

Utf8(code) ==
  IF code < 128 THEN <<code>>
  ELSE IF code < 2048 THEN <<192 + code \div 64, 128 + (code % 64)>>
  ELSE IF code \in 55296 .. 57343 THEN <<>>
  ELSE <<224 + code \div 4096, 128 + ((code \div 64) % 64), 128 + (code % 64)>>

DecodePathComponent(s) ==
  LET unicode(i) == SubSeq(s, i + 2, i + 5)
      byte(i) == SubSeq(s, i + 1, i + 2)
      from[i \in 1 .. Len(s) + 6] ==
        IF i > Len(s) THEN <<>>
        ELSE IF s[i] = PERCENT /\ i + 5 <= Len(s) /\ s[i + 1] = SmallU /\ AllHex(unicode(i))
             THEN Utf8(FromHex(unicode(i))) \o from[i + 6]
        ELSE IF s[i] = PERCENT /\ i + 2 <= Len(s) /\ s[i + 1] # SmallU /\ AllHex(byte(i))
             THEN <<FromHex(byte(i))>> \o from[i + 3]
        ELSE <<s[i]>> \o from[i + 1]
  IN  from[1]

(* detail::divide: what precedes the first d, and what follows it.         *)
Divide(s, d) ==
  LET i == SelectInSeq(s, LAMBDA c : c = d)
  IN  IF i = 0 THEN <<s, <<>>>> ELSE <<SubSeq(s, 1, i - 1), SubSeq(s, i + 1, Len(s))>>

(* detail::split: the pieces between the d's, trimmed, the empty ones left out. *)
Trimmed(s) ==
  LET solid == {i \in DOMAIN s : s[i] \notin {SPACE, TAB}}
      first == CHOOSE i \in solid : \A j \in solid : i <= j
      last == CHOOSE i \in solid : \A j \in solid : i >= j
  IN  IF solid = {} THEN <<>> ELSE SubSeq(s, first, last)

Split(s, d) ==
  LET cuts == SetToSortSeq({i \in DOMAIN s : s[i] = d} \cup {0, Len(s) + 1}, <)
      pieces == [n \in 1 .. Len(cuts) - 1 |-> Trimmed(SubSeq(s, cuts[n] + 1, cuts[n + 1] - 1))]
  IN  SelectSeq(pieces, LAMBDA p : p # <<>>)

(* parse_query_text: pairs that occur again are ignored, so are pairs      *)
(* without a name.                                                         *)
Distinct(s) ==
  FoldLeft(LAMBDA made, e : IF e \in ToSet(made) THEN made ELSE Append(made, e), <<>>, s)

ParseQueryText(text) ==
  LET named == SelectSeq(Distinct(Split(text, AMP)), LAMBDA p : Divide(p, EQUALS)[1] # <<>>)
      name(p) == DecodeQueryComponent(Divide(p, EQUALS)[1])
      value(p) == DecodeQueryComponent(Divide(p, EQUALS)[2])
      of(k) == SelectSeq(named, LAMBDA p : name(p) = k)
  IN  [k \in {name(p) : p \in ToSet(named)} |-> [i \in DOMAIN of(k) |-> value(of(k)[i])]]

(***************************************************************************)
(* The request target: the client parses the query it was given and writes *)
(* it anew; the server drops a fragment and divides the target.            *)
(***************************************************************************)
WrittenTarget(path, query) ==
  LET params == ParseQueryText(query) IN
  EncodePath(path) \o
    IF DOMAIN params = {} THEN <<>> ELSE <<QUESTION>> \o ParamsToQueryStr(params)

ParsedTarget(target) ==
  LET parts == Divide(Divide(target, HASH)[1], QUESTION)
  IN  [path |-> DecodePathComponent(parts[1]), params |-> ParseQueryText(parts[2])]
-----------------------------------------------------------------------------
(* What the caller of Post gives as parameters is what the handler finds,  *)
(* whatever bytes they are made of (a pair that occurs twice arrives once).*)
ParamsArrive(params) == ParseQueryText(ParamsToQueryStr(params)) = params

(* A path and a query reach the server with the meaning they have in the   *)
(* request's path as the caller wrote it, although the client takes the    *)
(* query apart and encodes it anew.                                        *)
TargetArrives(path, query) ==
  ParsedTarget(WrittenTarget(path, query)) = [path |-> path, params |-> ParseQueryText(query)]
=============================================================================
