----------------------------- MODULE WireProofs -----------------------------
(***************************************************************************)
(* The readers of a body, for every body, every way to cut it into chunks, *)
(* every way recv cuts the stream, and every size of the buffers; the      *)
(* parser of a form, for every form and every way its body is cut; the     *)
(* parts of an answer, for every ranges asked for; the components of a     *)
(* query string, for every string of octets.                               *)
(***************************************************************************)
EXTENDS StreamReader, FormDataParser, ByteRanges, UrlEncoding, SequenceTheorems,
        FiniteSetTheorems, WellFoundedInduction, TLAPS

(* The part of a sequence between two places.                              *)
LEMMA SubOf ==
  ASSUME NEW S, NEW s \in Seq(S), NEW a \in Nat \ {0}, NEW b \in 0 .. Len(s)
  PROVE  /\ SubSeq(s, a, b) \in Seq(S)
         /\ Len(SubSeq(s, a, b)) = IF a <= b THEN b - a + 1 ELSE 0
         /\ \A i \in 1 .. Len(SubSeq(s, a, b)) : SubSeq(s, a, b)[i] = s[a + i - 1]
<1>1. \A i \in a .. b : s[i] \in S
  BY ElementOfSeq, LenProperties
<1>2. a \in Int /\ b \in Int
  BY LenProperties
<1>3. /\ SubSeq(s, a, b) \in Seq(S)
      /\ Len(SubSeq(s, a, b)) = IF a <= b THEN b - a + 1 ELSE 0
      /\ \A i \in 1 .. b - a + 1 : SubSeq(s, a, b)[i] = s[a + i - 1]
  BY <1>1, <1>2, SubSeqProperties
<1>4. QED
  BY <1>2, <1>3

LEMMA FromOf ==
  ASSUME NEW S, NEW s \in Seq(S), NEW a \in 1 .. Len(s) + 1
  PROVE  /\ From(s, a) \in Seq(S)
         /\ Len(From(s, a)) = Len(s) - a + 1
         /\ \A i \in 1 .. Len(s) - a + 1 : From(s, a)[i] = s[a + i - 1]
<1>1. Len(s) \in Nat
  BY LenProperties
<1>2. a \in Nat \ {0} /\ Len(s) \in 0 .. Len(s)
  BY <1>1
<1>3. /\ SubSeq(s, a, Len(s)) \in Seq(S)
      /\ Len(SubSeq(s, a, Len(s))) = IF a <= Len(s) THEN Len(s) - a + 1 ELSE 0
      /\ \A i \in 1 .. Len(SubSeq(s, a, Len(s))) : SubSeq(s, a, Len(s))[i] = s[a + i - 1]
  BY <1>2, SubOf
<1>4. QED
  BY <1>1, <1>3 DEF From

(* What follows what in a concatenation.                                   *)
LEMMA ConcatAt ==
  ASSUME NEW U, NEW v \in Seq(U), NEW w \in Seq(U)
  PROVE  /\ v \o w \in Seq(U) /\ Len(v \o w) = Len(v) + Len(w)
         /\ \A i \in 1 .. Len(v) : (v \o w)[i] = v[i]
         /\ \A i \in 1 .. Len(w) : (v \o w)[Len(v) + i] = w[i]
<1>1. Len(v) \in Nat /\ Len(w) \in Nat
  BY LenProperties
<1>2. PICK x : x = v \o w
  OBVIOUS
<1>3. /\ x \in Seq(U) /\ Len(x) = Len(v) + Len(w)
      /\ \A i \in 1 .. Len(v) + Len(w) : x[i] = IF i <= Len(v) THEN v[i] ELSE w[i - Len(v)]
  BY <1>2, ConcatProperties
<1>4. PICK m, n : m = Len(v) /\ n = Len(w)
  OBVIOUS
<1>5. \A i \in 1 .. m : x[i] = v[i]
  BY <1>1, <1>3, <1>4
<1>6. \A i \in 1 .. n : x[m + i] = w[i]
  <2>1. ASSUME NEW i \in 1 .. n PROVE x[m + i] = w[i]
    <3>1. m + i \in 1 .. m + n /\ ~ (m + i <= m) /\ m + i - m = i
      BY <1>1, <1>4
    <3>2. QED
      BY <1>3, <1>4, <3>1
  <2>2. QED
    BY <2>1
<1>7. QED
  BY <1>2, <1>3, <1>4, <1>5, <1>6

-----------------------------------------------------------------------------
(* SocketStream under one read: what it returns is the next part of the    *)
(* wire, and what it keeps is the rest.                                    *)
Units == Range(wire)
Pos == Len(wire) - Len(buf) - Len(net)

Buffered ==
  /\ wire \in Seq(Units) /\ buf \in Seq(Units) /\ net \in Seq(Units)
  /\ Pos \in Nat
  /\ \A i \in 1 .. Len(buf) : buf[i] = wire[Pos + i]
  /\ \A i \in 1 .. Len(net) : net[i] = wire[Pos + Len(buf) + i]

(* What a read of at most n units may return.                              *)
Delivered(r, n) ==
  /\ r.ret \in Int /\ r.got \in Seq(Units)
  /\ r.ret <= 0 => r.ret = SelectRead /\ r.got = <<>> /\ Pos = Len(wire) /\ Pos' = Pos
  /\ r.ret > 0 => /\ r.ret <= n /\ Len(r.got) = r.ret
                  /\ Pos + r.ret <= Len(wire) /\ Pos' = Pos + r.ret
                  /\ \A i \in 1 .. r.ret : r.got[i] = wire[Pos + i]

LEMMA ReadFromBuffer ==
  ASSUME Buffered, UNCHANGED wire, NEW n \in Nat \ {0}, buf # <<>>,
         NEW r, r = FromBuffer(n), Take(r)
  PROVE  Delivered(r, n) /\ Buffered'
<1> DEFINE k == Least(n, Len(buf))
<1>1. Len(wire) \in Nat /\ Len(buf) \in Nat \ {0} /\ Len(net) \in Nat
  BY LenProperties, EmptySeq DEF Buffered
<1>2. k \in 1 .. Len(buf) /\ k <= n /\ k \in 0 .. Len(buf) /\ k + 1 \in 1 .. Len(buf) + 1
  BY <1>1 DEF Least
<1>3. /\ r.ret = k /\ r.got = SubSeq(buf, 1, k) /\ r.buf = From(buf, k + 1) /\ r.net = net
  BY DEF FromBuffer, Read
<1> HIDE DEF k
<1>4. /\ r.got \in Seq(Units) /\ Len(r.got) = k
      /\ \A i \in 1 .. k : r.got[i] = buf[i]
  <2>1. /\ r.got \in Seq(Units)
        /\ Len(r.got) = IF 1 <= k THEN k - 1 + 1 ELSE 0
        /\ \A i \in 1 .. Len(r.got) : r.got[i] = buf[1 + i - 1]
    BY <1>2, <1>3, SubOf DEF Buffered
  <2>2. QED
    BY <1>2, <2>1
<1>5. /\ buf' \in Seq(Units) /\ Len(buf') = Len(buf) - k
      /\ \A i \in 1 .. Len(buf) - k : buf'[i] = buf[k + i]
  <2>1. /\ From(buf, k + 1) \in Seq(Units)
        /\ Len(From(buf, k + 1)) = Len(buf) - (k + 1) + 1
        /\ \A i \in 1 .. Len(buf) - (k + 1) + 1 : From(buf, k + 1)[i] = buf[k + 1 + i - 1]
    BY <1>2, FromOf DEF Buffered
  <2>2. buf' = From(buf, k + 1)
    BY <1>3 DEF Take
  <2>3. QED
    BY <1>1, <1>2, <2>1, <2>2
<1>6. net' = net /\ wire' = wire /\ Units' = Units
  BY <1>3 DEF Take, Units
<1>7. Pos' = Pos + k /\ Pos + k <= Len(wire)
  BY <1>1, <1>2, <1>5, <1>6 DEF Pos
<1>8. Delivered(r, n)
  BY <1>1, <1>2, <1>3, <1>4, <1>7 DEF Delivered, Buffered
<1>9. Buffered'
  <2>1. ASSUME NEW i \in 1 .. Len(buf') PROVE buf'[i] = wire[Pos + k + i]
    <3>1. i \in 1 .. Len(buf) - k
      BY <1>5
    <3>2. k + i \in 1 .. Len(buf)
      BY <1>1, <1>2, <3>1
    <3>3. buf'[i] = buf[k + i]
      BY <1>5, <3>1
    <3>4. buf[k + i] = wire[Pos + (k + i)]
      BY <3>2 DEF Buffered
    <3>5. Pos + (k + i) = Pos + k + i
      BY <1>2, <3>1 DEF Buffered
    <3>6. QED
      BY <3>3, <3>4, <3>5
  <2>2. \A i \in 1 .. Len(net) : net[i] = wire[Pos + k + Len(buf') + i]
    BY <1>1, <1>2, <1>5 DEF Buffered
  <2>3. Pos + k \in Nat
    BY <1>2 DEF Buffered
  <2>4. QED
    BY <1>5, <1>6, <1>7, <2>1, <2>2, <2>3 DEF Buffered
<1>10. QED
  BY <1>8, <1>9

LEMMA ReadFromRecv ==
  ASSUME Buffered, UNCHANGED wire, NEW n \in Nat \ {0}, buf = <<>>,
         NEW k \in 1 .. Len(net), NEW r, r = FromRecv(n, k), Take(r)
  PROVE  Delivered(r, n) /\ Buffered'
<1> DEFINE some == Recv(k)
           l == Least(n, k)
<1>1. Len(wire) \in Nat /\ Len(buf) = 0 /\ Len(net) \in Nat /\ k \in 0 .. Len(net)
  BY LenProperties, EmptySeq DEF Buffered
<1>2. /\ some \in Seq(Units) /\ Len(some) = k
      /\ \A i \in 1 .. k : some[i] = net[i]
  <2>1. /\ some \in Seq(Units)
        /\ Len(some) = IF 1 <= k THEN k - 1 + 1 ELSE 0
        /\ \A i \in 1 .. Len(some) : some[i] = net[1 + i - 1]
    BY <1>1, SubOf DEF Buffered, Recv
  <2>2. QED
    BY <1>1, <2>1
<1>3. l \in 1 .. k /\ l <= n /\ l \in 0 .. k
  BY DEF Least
<1>4. /\ r.ret = l /\ r.got = SubSeq(some, 1, l) /\ r.buf = From(some, n + 1)
      /\ r.net = From(net, k + 1)
  BY DEF FromRecv, Read
<1>a. n < k => l = n
  BY DEF Least
<1>b. n >= k => l = k
  BY DEF Least
<1> HIDE DEF some, l
<1>5. /\ r.got \in Seq(Units) /\ Len(r.got) = l
      /\ \A i \in 1 .. l : r.got[i] = net[i]
  <2>1. /\ r.got \in Seq(Units)
        /\ Len(r.got) = IF 1 <= l THEN l - 1 + 1 ELSE 0
        /\ \A i \in 1 .. Len(r.got) : r.got[i] = some[1 + i - 1]
    BY <1>2, <1>3, <1>4, SubOf
  <2>2. QED
    BY <1>1, <1>2, <1>3, <2>1
<1>6. /\ buf' \in Seq(Units) /\ Len(buf') = k - l
      /\ \A i \in 1 .. k - l : buf'[i] = net[l + i]
  <2>1. buf' = SubSeq(some, n + 1, Len(some))
    BY <1>4 DEF Take, From
  <2>2. /\ buf' \in Seq(Units)
        /\ Len(buf') = IF n + 1 <= k THEN k - (n + 1) + 1 ELSE 0
        /\ \A i \in 1 .. Len(buf') : buf'[i] = some[n + 1 + i - 1]
    BY <1>2, <2>1, SubOf
  <2>3. Len(buf') = k - l
    BY <1>a, <1>b, <2>2
  <2>4. ASSUME NEW i \in 1 .. k - l PROVE buf'[i] = net[l + i]
    <3>1. n < k /\ l = n
      BY <1>a, <1>b, <2>4
    <3>2. buf'[i] = some[n + i] /\ n + i \in 1 .. k
      BY <2>2, <2>3, <3>1
    <3>3. QED
      BY <1>2, <3>1, <3>2
  <2>5. QED
    BY <2>2, <2>3, <2>4
<1>7. /\ net' \in Seq(Units) /\ Len(net') = Len(net) - k
      /\ \A i \in 1 .. Len(net) - k : net'[i] = net[k + i]
  <2>1. k + 1 \in 1 .. Len(net) + 1
    BY <1>1
  <2>2. /\ From(net, k + 1) \in Seq(Units)
        /\ Len(From(net, k + 1)) = Len(net) - (k + 1) + 1
        /\ \A i \in 1 .. Len(net) - (k + 1) + 1 : From(net, k + 1)[i] = net[k + 1 + i - 1]
    BY <2>1, FromOf DEF Buffered
  <2>3. net' = From(net, k + 1)
    BY <1>4 DEF Take
  <2>4. QED
    BY <1>1, <2>2, <2>3
<1>8. wire' = wire /\ Units' = Units
  BY DEF Units
<1>9. Pos' = Pos + l /\ Pos + l <= Len(wire)
  BY <1>1, <1>3, <1>6, <1>7, <1>8 DEF Pos
<1>c. \A i \in 1 .. Len(net) : net[i] = wire[Pos + i]
  BY <1>1 DEF Buffered
<1>10. Delivered(r, n)
  BY <1>1, <1>3, <1>4, <1>5, <1>9, <1>c DEF Delivered, Buffered
<1>11. Buffered'
  <2>1. ASSUME NEW i \in 1 .. Len(buf') PROVE buf'[i] = wire[Pos + l + i]
    <3>1. i \in 1 .. k - l /\ buf'[i] = net[l + i]
      BY <1>6
    <3>2. l + i \in 1 .. Len(net)
      BY <1>1, <1>3, <3>1
    <3>3. net[l + i] = wire[Pos + (l + i)] /\ Pos \in Nat
      BY <1>c, <3>2 DEF Buffered
    <3>4. Pos + (l + i) = Pos + l + i
      BY <1>1, <1>3, <3>1, <3>3
    <3>5. QED
      BY <3>1, <3>3, <3>4
  <2>2. \A i \in 1 .. Len(net') : net'[i] = wire[Pos + l + Len(buf') + i]
    <3>1. ASSUME NEW i \in 1 .. Len(net) - k
          PROVE  net'[i] = wire[Pos + l + (k - l) + i]
      <4>1. net'[i] = net[k + i] /\ k + i \in 1 .. Len(net)
        BY <1>1, <1>7
      <4>2. Pos + l + (k - l) + i = Pos + (k + i)
        BY <1>1, <1>3 DEF Buffered
      <4>3. QED
        BY <1>c, <4>1, <4>2
    <3>2. QED
      BY <1>6, <1>7, <3>1
  <2>3. Pos + l \in Nat
    BY <1>3 DEF Buffered
  <2>4. QED
    BY <1>6, <1>7, <1>8, <1>9, <2>1, <2>2, <2>3 DEF Buffered
<1>12. QED
  BY <1>10, <1>11

LEMMA ReadDelivers ==
  ASSUME Buffered, UNCHANGED wire, NEW n \in Nat \ {0}, NEW r \in Reads(n), Take(r)
  PROVE  Delivered(r, n) /\ Buffered'
<1>1. CASE buf # <<>>
  <2>1. r = FromBuffer(n)
    BY <1>1 DEF Reads
  <2>2. QED
    BY <1>1, <2>1, ReadFromBuffer
<1>2. CASE buf = <<>> /\ net = <<>>
  <2>1. r = Read(SelectRead, <<>>, <<>>, <<>>)
    BY <1>2 DEF Reads
  <2>2. /\ r.ret = SelectRead /\ r.got = <<>> /\ r.buf = <<>> /\ r.net = <<>>
    BY <2>1 DEF Read
  <2>3. UNCHANGED <<wire, buf, net>>
    BY <1>2, <2>2 DEF Take
  <2>4. Pos = Len(wire) /\ Pos' = Pos
    BY <1>2, <2>3, LenProperties, EmptySeq DEF Pos, Buffered
  <2>5. SelectRead \in Int /\ SelectRead <= 0 /\ <<>> \in Seq(Units)
    BY DEF SelectRead
  <2>6. QED
    BY <2>2, <2>3, <2>4, <2>5 DEF Delivered, Buffered, Pos, Units
<1>3. CASE buf = <<>> /\ net # <<>>
  <2>1. Len(net) \in Nat \ {0}
    BY <1>3, EmptySeq DEF Buffered
  <2>2. PICK k \in 1 .. Least(Len(net), IF n < ReadBuff THEN ReadBuff ELSE n) :
               r = FromRecv(n, k)
    BY <1>3 DEF Reads
  <2>3. k \in 1 .. Len(net)
    BY <2>1, <2>2, BufferAssumption DEF Least
  <2>4. QED
    BY <1>3, <2>2, <2>3, ReadFromRecv
<1>4. QED
  BY <1>1, <1>2, <1>3
-----------------------------------------------------------------------------
(* Induction over the naturals, for a set instead of a predicate: what is  *)
(* proved of recursive functions below rests on it.                        *)
Below == {p \in Nat \X Nat : p[1] < p[2]}

LEMMA BelowWellFounded == IsWellFoundedOn(Below, Nat)
<1>1. Below = OpToRel(<, Nat)
  BY DEF OpToRel, Below
<1>2. QED
  BY <1>1, NatLessThanWellFounded

LEMMA LeastOf ==
  ASSUME NEW T, T \subseteq Nat, T # {}
  PROVE  \E x \in T : \A y \in T : x <= y
<1>1. PICK x \in T : \A y \in T : ~ (<<y, x>> \in Below)
  BY BelowWellFounded, WFMin
<1>2. ASSUME NEW y \in T PROVE x <= y
  <2>1. <<y, x>> \notin Below /\ x \in Nat /\ y \in Nat
    BY <1>1
  <2>2. <<y, x>> \in Nat \X Nat /\ <<y, x>>[1] = y /\ <<y, x>>[2] = x
    BY <2>1
  <2>3. ~ (y < x)
    BY <2>1, <2>2 DEF Below
  <2>4. QED
    BY <2>1, <2>3
<1>3. QED
  BY <1>1, <1>2

LEMMA Induction ==
  ASSUME NEW P, P \subseteq Nat, 0 \in P, \A n \in P : n + 1 \in P
  PROVE  P = Nat
<1>1. SUFFICES ASSUME Nat \ P # {} PROVE FALSE
  OBVIOUS
<1>2. PICK x \in Nat \ P : \A y \in Nat \ P : x <= y
  BY <1>1, LeastOf
<1>3. x # 0 /\ x - 1 \in Nat /\ x - 1 \in P
  BY <1>2
<1>4. QED
  BY <1>2, <1>3

-----------------------------------------------------------------------------
(* FlattenSeq's recursion has a solution, and it is what one expects.      *)
LEMMA FlattenExists ==
  ASSUME NEW s, NEW n \in Nat
  PROVE  \E g : g = [i \in 1 .. n |-> IF i = 1 THEN s[i] ELSE g[i - 1] \o s[i]]
<1> DEFINE P == {m \in Nat :
                   \E g : g = [i \in 1 .. m |-> IF i = 1 THEN s[i] ELSE g[i - 1] \o s[i]]}
<1>1. 0 \in P
  <2> DEFINE g == [i \in 1 .. 0 |-> s[i]]
  <2>1. g = [i \in 1 .. 0 |-> IF i = 1 THEN s[i] ELSE g[i - 1] \o s[i]]
    OBVIOUS
  <2>2. QED
    BY <2>1
<1>2. ASSUME NEW m \in P PROVE m + 1 \in P
  <2>1. PICK g : g = [i \in 1 .. m |-> IF i = 1 THEN s[i] ELSE g[i - 1] \o s[i]]
    OBVIOUS
  <2> DEFINE h == [i \in 1 .. m + 1 |->
                     IF i \in 1 .. m THEN g[i] ELSE IF i = 1 THEN s[i] ELSE g[m] \o s[i]]
             hh == [i \in 1 .. m + 1 |-> IF i = 1 THEN s[i] ELSE h[i - 1] \o s[i]]
  <2>2. ASSUME NEW i \in 1 .. m + 1 PROVE h[i] = hh[i]
    <3>1. CASE i \in 1 .. m /\ i = 1
      BY <2>1, <3>1
    <3>2. CASE i \in 1 .. m /\ i # 1
      <4>1. i - 1 \in 1 .. m
        BY <3>2
      <4>2. h[i] = g[i] /\ h[i - 1] = g[i - 1]
        BY <3>2, <4>1
      <4>3. g[i] = g[i - 1] \o s[i]
        BY <2>1, <3>2
      <4>4. QED
        BY <3>2, <4>2, <4>3
    <3>3. CASE i \notin 1 .. m
      BY <3>3
    <3>4. QED
      BY <3>1, <3>2, <3>3
  <2>3. h = hh
    BY <2>2
  <2>4. \E f : f = [i \in 1 .. m + 1 |-> IF i = 1 THEN s[i] ELSE f[i - 1] \o s[i]]
    <3> HIDE DEF h
    <3>1. QED
      BY <2>3 DEF hh
  <2>5. m + 1 \in Nat
    OBVIOUS
  <2>6. QED
    BY <2>4, <2>5
<1>3. P = Nat
  <2> HIDE DEF P
  <2>1. P \subseteq Nat
    BY DEF P
  <2>2. QED
    BY <1>1, <1>2, <2>1, Induction
<1>4. QED
  BY <1>3

Flattening(s, n) ==
  CHOOSE g : g = [i \in 1 .. n |-> IF i = 1 THEN s[i] ELSE g[i - 1] \o s[i]]

IsFlattening(g, s, n) ==
  /\ FlattenSeq(s) = g[n] /\ g[1] = s[1]
  /\ \A i \in 2 .. n : g[i] = g[i - 1] \o s[i]

LEMMA FlattenIs ==
  ASSUME NEW s, NEW n, n \in Nat \ {0}, n = Len(s)
  PROVE  IsFlattening(Flattening(s, n), s, n)
<1> DEFINE g == Flattening(s, n)
<1>1. g = [i \in 1 .. n |-> IF i = 1 THEN s[i] ELSE g[i - 1] \o s[i]]
  BY FlattenExists, Zenon DEF Flattening
<1>2. FlattenSeq(s) = g[n]
  BY DEF FlattenSeq, Flattening
<1> HIDE DEF g
<1>3. \A i \in 1 .. n : g[i] = IF i = 1 THEN s[i] ELSE g[i - 1] \o s[i]
  BY <1>1, Zenon
<1>a. g[1] = s[1]
  BY <1>3
<1>b. ASSUME NEW i \in 2 .. n PROVE g[i] = g[i - 1] \o s[i]
  <2>1. i \in 1 .. n /\ i # 1
    OBVIOUS
  <2>2. QED
    BY <1>3, <2>1
<1>4. QED
  <2>1. \A i \in 2 .. n : g[i] = g[i - 1] \o s[i]
    BY <1>b
  <2>2. IsFlattening(g, s, n)
    BY <1>2, <1>a, <2>1, Zenon DEF IsFlattening
  <2>3. QED
    BY <2>2 DEF g
-----------------------------------------------------------------------------
(* What the writers put on the wire.                                       *)
AnyUnit(S, T) ==
  ({"byte"} \X S) \cup ({"size"} \X Nat) \cup {Crlf} \cup ({"field"} \X T) \cup Range(Following)

LEMMA UnitsAre ==
  ASSUME NEW S, NEW T
  PROVE  /\ \A x \in S : Byte(x) \in AnyUnit(S, T)
         /\ \A n \in Nat : SizeLine(n) \in AnyUnit(S, T)
         /\ \A t \in T : Field(t) \in AnyUnit(S, T)
         /\ Crlf \in AnyUnit(S, T)
  BY DEF AnyUnit, Byte, SizeLine, Field

LEMMA WriteDataOf ==
  ASSUME NEW S, NEW T, NEW s \in Seq(S)
  PROVE  /\ WriteData(s) \in Seq(AnyUnit(S, T)) /\ Len(WriteData(s)) = Len(s)
         /\ \A i \in 1 .. Len(s) : WriteData(s)[i] = Byte(s[i])
<1>1. Len(s) \in Nat /\ DOMAIN s = 1 .. Len(s)
  BY LenProperties
<1>2. \A i \in 1 .. Len(s) : Byte(s[i]) \in AnyUnit(S, T)
  BY ElementOfSeq, UnitsAre
<1>3. WriteData(s) = [i \in 1 .. Len(s) |-> Byte(s[i])]
  BY <1>1 DEF WriteData
<1>4. WriteData(s) \in Seq(AnyUnit(S, T))
  BY <1>1, <1>2, <1>3
<1>5. QED
  BY <1>1, <1>3, <1>4

(* A chunk holds the units of c from a to b between its two lines.         *)
ChunkFor(c, a, b) == Chunk(SubSeq(c, a + 1, b))
IsChunk(ch, c, a, b) ==
  /\ Len(ch) = b - a + 2
  /\ ch[1] = SizeLine(b - a)
  /\ \A x \in 1 .. b - a : ch[1 + x] = Byte(c[a + x])
  /\ ch[b - a + 2] = Crlf

LEMMA ChunkOf ==
  ASSUME NEW S, NEW T, NEW c \in Seq(S), NEW a \in Nat, NEW b \in 0 .. Len(c), a < b
  PROVE  /\ ChunkFor(c, a, b) \in Seq(AnyUnit(S, T))
         /\ IsChunk(ChunkFor(c, a, b), c, a, b)
<1> DEFINE U == AnyUnit(S, T)
           p == SubSeq(c, a + 1, b)
           d == WriteData(p)
<1>1. /\ p \in Seq(S) /\ Len(p) = b - a
      /\ \A x \in 1 .. b - a : p[x] = c[a + x]
  <2>1. /\ p \in Seq(S)
        /\ Len(p) = IF a + 1 <= b THEN b - (a + 1) + 1 ELSE 0
        /\ \A x \in 1 .. Len(p) : p[x] = c[a + 1 + x - 1]
    BY SubOf
  <2>2. Len(p) = b - a
    BY <2>1, LenProperties
  <2>3. QED
    BY <2>1, <2>2
<1>2. p # <<>> /\ b - a \in Nat \ {0}
  BY <1>1, EmptySeq, LenProperties
<1> HIDE DEF p
<1>3. /\ d \in Seq(U) /\ Len(d) = b - a
      /\ \A x \in 1 .. b - a : d[x] = Byte(c[a + x])
  <2>1. /\ d \in Seq(U) /\ Len(d) = Len(p)
        /\ \A x \in 1 .. Len(p) : d[x] = Byte(p[x])
    BY ZenonT(60), <1>1, WriteDataOf
  <2> HIDE DEF d
  <2>2. QED
    BY <1>1, <2>1
<1> HIDE DEF d
<1> DEFINE f == <<SizeLine(b - a)>>
<1>4. /\ f \in Seq(U) /\ Len(f) = 1 /\ f[1] = SizeLine(b - a)
      /\ <<Crlf>> \in Seq(U) /\ Len(<<Crlf>>) = 1
  BY <1>2, UnitsAre
<1>5. Chunk(p) = f \o d \o <<Crlf>>
  BY <1>1, <1>2 DEF Chunk, d
<1> HIDE DEF U, f
<1> DEFINE l == f \o d
<1>6. /\ l \in Seq(U) /\ Len(l) = b - a + 1
      /\ l[1] = SizeLine(b - a)
      /\ \A x \in 1 .. b - a : l[1 + x] = Byte(c[a + x])
  <2>1. /\ l \in Seq(U) /\ Len(l) = Len(f) + Len(d)
        /\ \A i \in 1 .. Len(f) + Len(d) : l[i] = IF i <= Len(f) THEN f[i] ELSE d[i - Len(f)]
    BY <1>3, <1>4, ConcatProperties
  <2> HIDE DEF l
  <2>2. QED
    BY <1>2, <1>3, <1>4, <2>1
<1> HIDE DEF l
<1>7. /\ l \o <<Crlf>> \in Seq(U) /\ Len(l \o <<Crlf>>) = b - a + 2
      /\ \A i \in 1 .. b - a + 2 :
           (l \o <<Crlf>>)[i] = IF i <= b - a + 1 THEN l[i] ELSE <<Crlf>>[i - (b - a + 1)]
  <2>1. /\ l \o <<Crlf>> \in Seq(U) /\ Len(l \o <<Crlf>>) = Len(l) + Len(<<Crlf>>)
        /\ \A i \in 1 .. Len(l) + Len(<<Crlf>>) :
             (l \o <<Crlf>>)[i] = IF i <= Len(l) THEN l[i] ELSE <<Crlf>>[i - Len(l)]
    BY <1>4, <1>6, ConcatProperties
  <2>2. Len(l) + Len(<<Crlf>>) = b - a + 2
    BY <1>2, <1>4, <1>6
  <2>3. QED
    BY <1>6, <2>1, <2>2
<1>8. Chunk(p) = l \o <<Crlf>>
  BY <1>5 DEF l
<1>a. PICK ch : ch = l \o <<Crlf>> /\ ch = ChunkFor(c, a, b)
  BY <1>8 DEF p, ChunkFor
<1>9. ch \in Seq(U) /\ Len(ch) = b - a + 2
  BY <1>7, <1>a
<1>10. ch[1] = SizeLine(b - a) /\ \A x \in 1 .. b - a : ch[1 + x] = Byte(c[a + x])
  BY <1>2, <1>6, <1>7, <1>a
<1>11. ch[b - a + 2] = Crlf
  BY <1>2, <1>7, <1>a
<1>12. QED
  BY <1>9, <1>10, <1>11, <1>a DEF U, IsChunk

(* A chunk laid out in w after its first p units.                          *)
LaidAt(w, p, c, a, b) ==
  /\ w[p + 1] = SizeLine(b - a)
  /\ \A x \in 1 .. b - a : w[p + 1 + x] = Byte(c[a + x])
  /\ w[p + (b - a + 2)] = Crlf

LEMMA LaidStays ==
  ASSUME NEW U, NEW v \in Seq(U), NEW w \in Seq(U), NEW c,
         NEW p \in Nat, NEW a \in Nat, NEW b \in Nat, a < b,
         p + (b - a + 2) <= Len(v), LaidAt(v, p, c, a, b)
  PROVE  LaidAt(v \o w, p, c, a, b)
<1>1. PICK x : x = v \o w
  OBVIOUS
<1>2. \A i \in 1 .. Len(v) : x[i] = v[i]
  BY <1>1, ConcatAt
<1>3. Len(v) \in Nat
  BY LenProperties
<1>4. PICK d : d = b - a /\ d \in Nat \ {0}
  OBVIOUS
<1>5. /\ p + 1 \in 1 .. Len(v) /\ p + (d + 2) \in 1 .. Len(v)
      /\ \A y \in 1 .. d : p + 1 + y \in 1 .. Len(v)
  BY <1>3, <1>4
<1>6. LaidAt(x, p, c, a, b)
  BY <1>2, <1>4, <1>5 DEF LaidAt
<1>7. QED
  BY <1>1, <1>6

LEMMA LaidJoins ==
  ASSUME NEW U, NEW v \in Seq(U), NEW ch \in Seq(U), NEW c,
         NEW a \in Nat, NEW b \in Nat, a < b, IsChunk(ch, c, a, b)
  PROVE  /\ Len(v \o ch) = Len(v) + (b - a + 2)
         /\ LaidAt(v \o ch, Len(v), c, a, b)
<1>1. PICK x, p : x = v \o ch /\ p = Len(v)
  OBVIOUS
<1>2. PICK d : d = b - a /\ d \in Nat \ {0}
  OBVIOUS
<1>3. /\ Len(ch) = d + 2 /\ ch[1] = SizeLine(d) /\ ch[d + 2] = Crlf
      /\ \A y \in 1 .. d : ch[1 + y] = Byte(c[a + y])
  BY <1>2 DEF IsChunk
<1>4. Len(x) = p + Len(ch) /\ \A i \in 1 .. Len(ch) : x[p + i] = ch[i]
  BY <1>1, ConcatAt
<1>5. p \in Nat
  BY <1>1, LenProperties
<1>6. Len(x) = p + (d + 2)
  BY <1>3, <1>4
<1>7. x[p + 1] = SizeLine(d)
  BY <1>2, <1>3, <1>4
<1>8. x[p + (d + 2)] = Crlf
  BY <1>2, <1>3, <1>4
<1>9. ASSUME NEW y \in 1 .. d PROVE x[p + 1 + y] = Byte(c[a + y])
  <2>1. 1 + y \in 1 .. d + 2 /\ p + (1 + y) = p + 1 + y
    BY <1>2, <1>5
  <2>2. QED
    BY <1>3, <1>4, <2>1
<1>10. LaidAt(x, p, c, a, b)
  BY <1>2, <1>7, <1>8, <1>9 DEF LaidAt
<1>11. QED
  BY <1>1, <1>2, <1>6, <1>10

(* The first k chunks laid out one after the other: the units before the   *)
(* j-th one are the data of its predecessors and two lines for each.       *)
Mark(e, j) == e[j] + 2 * j

Row(U, c, e, w, k) ==
  /\ w \in Seq(U) /\ Len(w) = Mark(e, k)
  /\ \A j \in 1 .. k : LaidAt(w, Mark(e, j - 1), c, e[j - 1], e[j])

LEMMA EndsGrow ==
  ASSUME NEW m \in Nat, NEW n \in Nat, NEW e \in Ends(m, n)
  PROVE  \A j \in 0 .. m : e[j] \in 0 .. n /\ \A i \in 0 .. j : e[i] <= e[j]
<1> DEFINE P == {j \in Nat : j <= m => \A i \in 0 .. j : e[i] <= e[j]}
<1>1. e \in [0 .. m -> 0 .. n] /\ \A i \in 1 .. m : e[i - 1] < e[i]
  BY DEF Ends
<1>2. 0 \in P
  BY <1>1
<1>3. ASSUME NEW j \in P PROVE j + 1 \in P
  <2>1. SUFFICES ASSUME j + 1 <= m, NEW i \in 0 .. j + 1 PROVE e[i] <= e[j + 1]
    OBVIOUS
  <2>2. e[j + 1 - 1] < e[j + 1] /\ e[j] \in 0 .. n /\ e[j + 1] \in 0 .. n /\ e[i] \in 0 .. n
    BY <1>1, <2>1
  <2>3. i \in 0 .. j => e[i] <= e[j]
    BY <2>1
  <2>4. QED
    BY <2>2, <2>3
<1>4. P = Nat
  <2>1. P \subseteq Nat
    OBVIOUS
  <2> HIDE DEF P
  <2>2. QED
    BY <1>2, <1>3, <2>1, Induction
<1>5. ASSUME NEW j \in 0 .. m PROVE e[j] \in 0 .. n /\ \A i \in 0 .. j : e[i] <= e[j]
  <2>1. j \in P
    BY <1>4
  <2>2. QED
    BY <1>1, <2>1
<1>6. QED
  BY <1>5

LEMMA EndsStep ==
  ASSUME NEW m \in Nat, NEW n \in Nat, NEW e \in Ends(m, n), NEW j \in 1 .. m
  PROVE  /\ e[j - 1] \in Nat /\ e[j] \in 0 .. n /\ e[j - 1] < e[j]
         /\ e[0] = 0 /\ e[m] = n
  BY DEF Ends

LEMMA RowGrows ==
  ASSUME NEW U, NEW c, NEW m \in Nat, NEW n \in Nat, NEW e \in Ends(m, n),
         NEW k \in Nat, k < m, NEW v, Row(U, c, e, v, k),
         NEW ch \in Seq(U), IsChunk(ch, c, e[k], e[k + 1])
  PROVE  Row(U, c, e, v \o ch, k + 1)
<1>1. v \in Seq(U) /\ Len(v) = Mark(e, k)
  BY DEF Row
<1>2. PICK a, b : a = e[k] /\ b = e[k + 1]
  OBVIOUS
<1>3. k + 1 \in 1 .. m /\ k + 1 - 1 = k
  OBVIOUS
<1>4. a \in Nat /\ b \in Nat /\ a < b
  BY SMTT(60), <1>2, <1>3, EndsStep
<1>5. IsChunk(ch, c, a, b)
  BY <1>2
<1>6. /\ Len(v \o ch) = Len(v) + (b - a + 2)
      /\ LaidAt(v \o ch, Len(v), c, a, b)
  BY <1>1, <1>4, <1>5, LaidJoins
<1>7. Mark(e, k) = a + 2 * k /\ Mark(e, k + 1) = b + 2 * (k + 1)
  BY <1>2 DEF Mark
<1>8. PICK w : w = v \o ch
  OBVIOUS
<1>9. w \in Seq(U) /\ Len(w) = Mark(e, k + 1)
  <2>1. w \in Seq(U)
    BY <1>1, <1>8, ConcatAt
  <2>2. Len(w) = a + 2 * k + (b - a + 2)
    BY <1>1, <1>6, <1>7, <1>8
  <2>3. QED
    BY <1>4, <1>7, <2>1, <2>2
<1>10. ASSUME NEW j \in 1 .. k PROVE LaidAt(w, Mark(e, j - 1), c, e[j - 1], e[j])
  <2>1. PICK p, f, g : p = Mark(e, j - 1) /\ f = e[j - 1] /\ g = e[j]
    OBVIOUS
  <2>2. j \in 1 .. m
    OBVIOUS
  <2>3. f \in Nat /\ g \in Nat /\ f < g /\ g <= a
    <3>1. j \in 0 .. k /\ k \in 0 .. m
      OBVIOUS
    <3>2. e[j] <= e[k]
      BY <3>1, EndsGrow
    <3>3. QED
      BY <1>2, <2>1, <2>2, <3>2, EndsStep
  <2>4. p = f + 2 * (j - 1)
    BY <2>1 DEF Mark
  <2>5. p \in Nat /\ p + (g - f + 2) <= Len(v)
    BY <1>1, <1>4, <1>7, <2>3, <2>4
  <2>6. LaidAt(v, p, c, f, g)
    BY <2>1 DEF Row
  <2>7. LaidAt(v \o ch, p, c, f, g)
    BY <1>1, <2>3, <2>5, <2>6, LaidStays
  <2>8. QED
    BY <1>8, <2>1, <2>7
<1>11. LaidAt(w, Mark(e, k), c, e[k], e[k + 1])
  BY <1>1, <1>2, <1>6, <1>8
<1>12. \A j \in 1 .. k + 1 : LaidAt(w, Mark(e, j - 1), c, e[j - 1], e[j])
  <2>1. ASSUME NEW j \in 1 .. k + 1 PROVE LaidAt(w, Mark(e, j - 1), c, e[j - 1], e[j])
    <3>1. CASE j = k + 1
      BY <1>3, <1>11, <3>1
    <3>2. CASE j # k + 1
      <4>1. j \in 1 .. k
        BY <3>2
      <4>2. QED
        BY <1>10, <4>1
    <3>3. QED
      BY <3>1, <3>2
  <2>2. QED
    BY <2>1
<1>13. Row(U, c, e, w, k + 1)
  BY <1>9, <1>12 DEF Row
<1>14. QED
  BY <1>8, <1>13

(* What data_sink.write puts on the wire for a body cut at e.              *)
Chunks(c, m, e) == [i \in 1 .. m |-> ChunkFor(c, e[i - 1], e[i])]

LEMMA ChunksLaid ==
  ASSUME NEW S, NEW T, NEW c \in Seq(S), NEW m \in Nat, NEW e \in Ends(m, Len(c))
  PROVE  Row(AnyUnit(S, T), c, e, FlattenSeq(Chunks(c, m, e)), m)
<1>a. PICK s : s = Chunks(c, m, e)
  OBVIOUS
<1>b. PICK g : g = Flattening(s, m)
  OBVIOUS
<1>c. PICK U : U = AnyUnit(S, T)
  OBVIOUS
<1>d. PICK n : n = Len(c)
  OBVIOUS
<1>e. n \in Nat /\ e \in Ends(m, n)
  BY <1>d, LenProperties
<1>1. ASSUME NEW k \in Nat, k < m
      PROVE  s[k + 1] \in Seq(U) /\ IsChunk(s[k + 1], c, e[k], e[k + 1])
  <2>1. k + 1 \in 1 .. m /\ k + 1 - 1 = k
    BY <1>1
  <2>2. e[k] \in Nat /\ e[k + 1] \in 0 .. n /\ e[k] < e[k + 1]
    BY <1>e, <2>1, EndsStep
  <2>3. s[k + 1] = ChunkFor(c, e[k], e[k + 1])
    BY <1>a, <2>1 DEF Chunks
  <2>4. QED
    BY <1>c, <1>d, <2>2, <2>3, ChunkOf
<1>2. Row(U, c, e, <<>>, 0)
  <2>1. <<>> \in Seq(U) /\ Len(<<>>) = 0
    OBVIOUS
  <2>2. e[0] = 0
    BY <1>e DEF Ends
  <2>3. Mark(e, 0) = 0
    BY <2>2 DEF Mark
  <2>4. QED
    BY <2>1, <2>3 DEF Row
<1>3. Len(s) = m
  BY <1>a DEF Chunks
<1>4. CASE m = 0
  <2>1. s = <<>>
    BY <1>4, <1>a DEF Chunks
  <2>2. FlattenSeq(s) = <<>>
    BY <2>1 DEF FlattenSeq
  <2>3. QED
    BY <1>2, <1>4, <1>a, <1>c, <2>2
<1>5. CASE m # 0
  <2>1. /\ FlattenSeq(s) = g[m]
        /\ g[1] = s[1] /\ \A k \in 2 .. m : g[k] = g[k - 1] \o s[k]
    <3>1. m \in Nat \ {0} /\ m = Len(s)
      BY <1>3, <1>5
    <3>2. IsFlattening(Flattening(s, m), s, m)
      BY <3>1, FlattenIs
    <3>3. QED
      BY <1>b, <3>2 DEF IsFlattening
  <2>a. ASSUME NEW k \in Nat, k # 0, k + 1 <= m PROVE g[k + 1] = g[k] \o s[k + 1]
    <3>1. \A x \in 2 .. m : g[x] = g[x - 1] \o s[x]
      BY <2>1
    <3>2. PICK x, y : x = k + 1 /\ y = x - 1
      OBVIOUS
    <3>3. x \in 2 .. m /\ y = k
      BY <2>a, <3>2
    <3>4. g[x] = g[y] \o s[x]
      BY <3>1, <3>2, <3>3, Zenon
    <3>5. QED
      BY <3>2, <3>3, <3>4
  <2> DEFINE P == {k \in Nat : k + 1 <= m => Row(U, c, e, g[k + 1], k + 1)}
  <2>2. 0 \in P
    <3>a. 0 \in Nat /\ 0 < m /\ 0 + 1 = 1
      BY <1>5
    <3>1. s[1] \in Seq(U) /\ IsChunk(s[1], c, e[0], e[0 + 1])
      BY <1>1, <3>a
    <3>2. Row(U, c, e, <<>> \o s[1], 0 + 1)
      BY <1>2, <1>e, <3>a, <3>1, RowGrows
    <3>3. <<>> \o s[1] = s[1]
      BY <3>1, ConcatEmptySeq
    <3>4. QED
      BY <2>1, <3>2, <3>3
  <2>3. ASSUME NEW k \in P PROVE k + 1 \in P
    <3>1. SUFFICES ASSUME k + 1 + 1 <= m PROVE Row(U, c, e, g[k + 1 + 1], k + 1 + 1)
      OBVIOUS
    <3>2. PICK l : l = k + 1
      OBVIOUS
    <3>3. l \in Nat /\ l < m /\ l + 1 \in 2 .. m /\ l + 1 - 1 = l
      BY <3>1, <3>2
    <3>4. Row(U, c, e, g[l], l)
      BY <3>1, <3>2
    <3>5. s[l + 1] \in Seq(U) /\ IsChunk(s[l + 1], c, e[l], e[l + 1])
      BY <1>1, <3>3
    <3>6. Row(U, c, e, g[l] \o s[l + 1], l + 1)
      BY <1>e, <3>3, <3>4, <3>5, RowGrows
    <3>7. g[l + 1] = g[l] \o s[l + 1]
      <4>1. l # 0 /\ l + 1 <= m
        BY <3>3
      <4>2. QED
        BY <2>a, <3>3, <4>1
    <3>8. QED
      BY <3>2, <3>6, <3>7
  <2>4. P = Nat
    <3>1. P \subseteq Nat
      OBVIOUS
    <3> HIDE DEF P
    <3>2. QED
      BY <2>2, <2>3, <3>1, Induction
  <2>5. m - 1 \in P /\ m - 1 + 1 = m
    <3>1. m - 1 \in Nat /\ m - 1 + 1 = m
      BY <1>5
    <3> HIDE DEF P
    <3>2. QED
      BY <2>4, <3>1
  <2>6. Row(U, c, e, g[m], m)
    BY <2>5
  <2>7. QED
    BY <1>a, <1>c, <2>1, <2>6
<1>6. QED
  BY <1>4, <1>5

(* The whole of a chunked body and what follows it on the connection.      *)
Layout(w, c, m, e, t, f) ==
  /\ Len(w) = Mark(e, m) + Len(t) + 2 + Len(f)
  /\ \A j \in 1 .. m : LaidAt(w, Mark(e, j - 1), c, e[j - 1], e[j])
  /\ w[Mark(e, m) + 1] = SizeLine(0)
  /\ \A x \in 1 .. Len(t) : w[Mark(e, m) + 1 + x] = Field(t[x])
  /\ w[Mark(e, m) + Len(t) + 2] = Crlf
  /\ \A x \in 1 .. Len(f) : w[Mark(e, m) + Len(t) + 2 + x] = f[x]

LEMMA LastChunkOf ==
  ASSUME NEW S, NEW T, NEW t \in Seq(T)
  PROVE  /\ LastChunk(t) \in Seq(AnyUnit(S, T)) /\ Len(LastChunk(t)) = Len(t) + 2
         /\ LastChunk(t)[1] = SizeLine(0)
         /\ \A x \in 1 .. Len(t) : LastChunk(t)[1 + x] = Field(t[x])
         /\ LastChunk(t)[Len(t) + 2] = Crlf
<1>1. PICK U : U = AnyUnit(S, T)
  OBVIOUS
<1>2. PICK n : n = Len(t)
  OBVIOUS
<1>3. n \in Nat /\ DOMAIN t = 1 .. n
  BY <1>2, LenProperties
<1>4. PICK d : d = [i \in 1 .. n |-> Field(t[i])]
  OBVIOUS
<1>5. \A i \in 1 .. n : Field(t[i]) \in U
  BY <1>1, <1>2, ElementOfSeq, UnitsAre
<1>6. d \in Seq(U) /\ Len(d) = n /\ \A i \in 1 .. n : d[i] = Field(t[i])
  BY <1>3, <1>4, <1>5
<1>7. PICK f, l : f = <<SizeLine(0)>> /\ l = <<Crlf>>
  OBVIOUS
<1>8. /\ f \in Seq(U) /\ Len(f) = 1 /\ f[1] = SizeLine(0)
      /\ l \in Seq(U) /\ Len(l) = 1 /\ l[1] = Crlf
  <2>1. SizeLine(0) \in U /\ Crlf \in U
    BY <1>1, UnitsAre
  <2>2. QED
    BY <1>7, <2>1
<1>9. LastChunk(t) = (f \o d) \o l
  BY <1>3, <1>4, <1>7 DEF LastChunk
<1>10. PICK v : v = f \o d
  OBVIOUS
<1>11. /\ v \in Seq(U) /\ Len(v) = 1 + n /\ v[1] = SizeLine(0)
       /\ \A x \in 1 .. n : v[1 + x] = Field(t[x])
  <2>1. /\ v \in Seq(U) /\ Len(v) = Len(f) + Len(d)
        /\ \A i \in 1 .. Len(f) : v[i] = f[i]
        /\ \A i \in 1 .. Len(d) : v[Len(f) + i] = d[i]
    <3>1. f \in Seq(U) /\ d \in Seq(U)
      BY <1>6, <1>8
    <3>2. /\ f \o d \in Seq(U) /\ Len(f \o d) = Len(f) + Len(d)
          /\ \A i \in 1 .. Len(f) : (f \o d)[i] = f[i]
          /\ \A i \in 1 .. Len(d) : (f \o d)[Len(f) + i] = d[i]
      BY <3>1, ConcatAt
    <3>3. QED
      BY <1>10, <3>2
  <2>2. v \in Seq(U) /\ Len(v) = 1 + n
    BY <1>6, <1>8, <2>1
  <2>3. v[1] = SizeLine(0)
    BY <1>8, <2>1
  <2>4. ASSUME NEW x \in 1 .. n PROVE v[1 + x] = Field(t[x])
    <3>1. v[Len(f) + x] = d[x]
      BY <1>6, <2>1
    <3>2. d[x] = Field(t[x])
      BY <1>6
    <3>3. Len(f) = 1
      BY <1>8
    <3>4. QED
      BY <3>1, <3>2, <3>3
  <2>5. QED
    BY <2>2, <2>3, <2>4
<1>12. PICK w : w = v \o l
  OBVIOUS
<1>13. /\ w \in Seq(U) /\ Len(w) = 1 + n + 1
       /\ \A i \in 1 .. 1 + n : w[i] = v[i]
       /\ \A i \in 1 .. 1 : w[1 + n + i] = l[i]
  <2>1. /\ w \in Seq(U) /\ Len(w) = Len(v) + Len(l)
        /\ \A i \in 1 .. Len(v) : w[i] = v[i]
        /\ \A i \in 1 .. Len(l) : w[Len(v) + i] = l[i]
    <3>1. v \in Seq(U) /\ l \in Seq(U)
      BY <1>8, <1>11
    <3>2. /\ v \o l \in Seq(U) /\ Len(v \o l) = Len(v) + Len(l)
          /\ \A i \in 1 .. Len(v) : (v \o l)[i] = v[i]
          /\ \A i \in 1 .. Len(l) : (v \o l)[Len(v) + i] = l[i]
      BY <3>1, ConcatAt
    <3>3. QED
      BY <1>12, <3>2
  <2>2. QED
    BY <1>8, <1>11, <2>1
<1>14. /\ w \in Seq(U) /\ Len(w) = n + 2 /\ w[1] = SizeLine(0)
       /\ w[n + 2] = Crlf
  BY <1>3, <1>8, <1>11, <1>13
<1>15. ASSUME NEW x \in 1 .. n PROVE w[1 + x] = Field(t[x])
  <2>1. 1 + x \in 1 .. 1 + n
    BY <1>3
  <2>2. QED
    BY <1>11, <1>13, <2>1
<1>16. w = LastChunk(t)
  BY <1>9, <1>10, <1>12
<1>17. QED
  BY <1>1, <1>2, <1>14, <1>15, <1>16

LEMMA FollowingUnits ==
  ASSUME NEW S, NEW T
  PROVE  Following \in Seq(AnyUnit(S, T))
<1>1. PICK U, f : U = AnyUnit(S, T) /\ f = Following
  OBVIOUS
<1>2. Range(f) \subseteq U
  BY <1>1 DEF AnyUnit
<1>3. f \in Seq(Range(f))
  BY <1>1, SequencesAssumption
<1>4. \A i \in 1 .. Len(f) : f[i] \in U
  BY <1>2, <1>3, ElementOfSeq
<1>5. f = [i \in 1 .. Len(f) |-> f[i]] /\ Len(f) \in Nat
  BY <1>3, LenProperties
<1>6. QED
  BY <1>1, <1>4, <1>5

LEMMA ChunkedLayout ==
  ASSUME NEW S, NEW T, NEW c \in Seq(S), NEW t \in Seq(T),
         NEW m \in Nat, NEW e \in Ends(m, Len(c)),
         NEW w, w = WriteChunked(CutAt(c, m, e), t) \o Following
  PROVE  w \in Seq(AnyUnit(S, T)) /\ Layout(w, c, m, e, t, Following)
<1>1. PICK U : U = AnyUnit(S, T)
  OBVIOUS
<1>2. PICK r, l, f : r = FlattenSeq(Chunks(c, m, e)) /\ l = LastChunk(t) /\ f = Following
  OBVIOUS
<1>3. Row(U, c, e, r, m)
  BY <1>1, <1>2, ChunksLaid
<1>4. PICK n, k, q : n = Len(t) /\ k = Mark(e, m) /\ q = Len(f)
  OBVIOUS
<1>5. n \in Nat /\ k \in Nat /\ q \in Nat
  <2>1. Len(c) \in Nat /\ n \in Nat /\ q \in Nat
    BY <1>2, <1>4, LenProperties, SequencesAssumption
  <2>2. e[m] \in Nat
    BY <2>1 DEF Ends
  <2>3. QED
    BY <1>4, <2>1, <2>2 DEF Mark
<1>6. /\ l \in Seq(U) /\ Len(l) = n + 2
      /\ l[1] = SizeLine(0) /\ l[n + 2] = Crlf
      /\ \A x \in 1 .. n : l[1 + x] = Field(t[x])
  BY <1>1, <1>2, <1>4, LastChunkOf
<1>7. f \in Seq(U)
  BY <1>1, <1>2, FollowingUnits
<1>8. w = (r \o l) \o f
  <2>1. [i \in DOMAIN CutAt(c, m, e) |-> Chunk(CutAt(c, m, e)[i])] = Chunks(c, m, e)
    BY DEF CutAt, Chunks, ChunkFor
  <2>2. WriteChunked(CutAt(c, m, e), t) = r \o l
    BY <1>2, <2>1 DEF WriteChunked
  <2>3. QED
    BY <1>2, <2>2
<1>9. r \in Seq(U) /\ Len(r) = k
  BY <1>3, <1>4 DEF Row
<1>10. PICK v : v = r \o l
  OBVIOUS
<1>11. /\ v \in Seq(U) /\ Len(v) = k + (n + 2)
       /\ \A i \in 1 .. n + 2 : v[k + i] = l[i]
  <2>1. /\ r \o l \in Seq(U) /\ Len(r \o l) = Len(r) + Len(l)
        /\ \A i \in 1 .. Len(l) : (r \o l)[Len(r) + i] = l[i]
    <3>1. r \in Seq(U) /\ l \in Seq(U)
      BY <1>6, <1>9
    <3>2. QED
      BY <3>1, ConcatAt
  <2>2. QED
    BY <1>6, <1>9, <1>10, <2>1
<1>12. /\ w \in Seq(U) /\ Len(w) = k + (n + 2) + q
       /\ \A i \in 1 .. k + (n + 2) : w[i] = v[i]
       /\ \A i \in 1 .. q : w[k + (n + 2) + i] = f[i]
  <2>1. /\ v \o f \in Seq(U) /\ Len(v \o f) = Len(v) + Len(f)
        /\ \A i \in 1 .. Len(v) : (v \o f)[i] = v[i]
        /\ \A i \in 1 .. Len(f) : (v \o f)[Len(v) + i] = f[i]
    <3>1. v \in Seq(U) /\ f \in Seq(U)
      BY <1>7, <1>11
    <3>2. QED
      BY <3>1, ConcatAt
  <2>2. w = v \o f
    BY <1>8, <1>10
  <2>3. QED
    BY <1>4, <1>11, <2>1, <2>2
<1>13. \A i \in 1 .. n + 2 : w[k + i] = l[i]
  <2>1. ASSUME NEW i \in 1 .. n + 2 PROVE w[k + i] = l[i]
    <3>1. k + i \in 1 .. k + (n + 2)
      BY <1>5
    <3>2. QED
      BY <1>11, <1>12, <3>1
  <2>2. QED
    BY <2>1
<1>14. w[k + 1] = SizeLine(0)
  <2>1. 1 \in 1 .. n + 2
    BY <1>5
  <2>2. QED
    BY <1>6, <1>13, <2>1
<1>15. w[k + n + 2] = Crlf
  <2>1. n + 2 \in 1 .. n + 2 /\ k + (n + 2) = k + n + 2
    BY <1>5
  <2>2. QED
    BY <1>6, <1>13, <2>1
<1>16. ASSUME NEW x \in 1 .. n PROVE w[k + 1 + x] = Field(t[x])
  <2>1. 1 + x \in 1 .. n + 2 /\ k + (1 + x) = k + 1 + x
    BY <1>5
  <2>2. QED
    BY <1>6, <1>13, <2>1
<1>17. Len(w) = k + n + 2 + q /\ \A x \in 1 .. q : w[k + n + 2 + x] = f[x]
  <2>1. k + (n + 2) + q = k + n + 2 + q /\ k + (n + 2) = k + n + 2
    BY <1>5
  <2>2. QED
    BY <1>12, <2>1
<1>18. ASSUME NEW j \in 1 .. m PROVE LaidAt(w, Mark(e, j - 1), c, e[j - 1], e[j])
  <2>1. PICK p, a, b : p = Mark(e, j - 1) /\ a = e[j - 1] /\ b = e[j]
    OBVIOUS
  <2>2. Len(c) \in Nat
    BY LenProperties
  <2>3. a \in Nat /\ b \in Nat /\ a < b
    BY <2>1, <2>2, EndsStep
  <2>4. b <= e[m] /\ e[m] \in Nat
    <3>1. j \in 0 .. m /\ m \in 0 .. m
      OBVIOUS
    <3>2. QED
      BY <2>1, <2>2, <3>1, EndsGrow
  <2>5. p = a + 2 * (j - 1) /\ k = e[m] + 2 * m
    BY <1>4, <2>1 DEF Mark
  <2>6. p \in Nat /\ p + (b - a + 2) <= k
    BY <2>3, <2>4, <2>5
  <2>7. LaidAt(r, p, c, a, b)
    BY <1>3, <2>1 DEF Row
  <2>8. LaidAt(r \o l, p, c, a, b)
    BY <1>6, <1>9, <2>3, <2>6, <2>7, LaidStays
  <2>9. p + (b - a + 2) <= Len(v)
    <3>1. p + (b - a + 2) \in Nat
      BY <2>3, <2>6
    <3>2. QED
      BY SMTT(60), <1>5, <1>11, <2>6, <3>1
  <2>a. LaidAt(v, p, c, a, b)
    BY <1>10, <2>8
  <2>10. LaidAt(v \o f, p, c, a, b)
    BY <1>7, <1>11, <2>3, <2>6, <2>9, <2>a, LaidStays
  <2>11. QED
    BY <1>8, <1>10, <2>1, <2>10
<1>19. Layout(w, c, m, e, t, f)
  BY <1>4, <1>14, <1>15, <1>16, <1>17, <1>18 DEF Layout
<1>20. QED
  BY <1>1, <1>2, <1>12, <1>19
(* The invariant.  What was sent is the encoding, perhaps cut short, what  *)
(* the receiver was given is the start of the content, and a result other  *)
(* than success has its reason on the wire.                                *)
TornIs ==
  torn = <<>> \/ \E u : torn = <<u>> /\ u # Crlf /\ (u[1] = "size" => u[2] \in Nat \ {0})

Given ==
  /\ body \in Seq(Range(content)) /\ Len(body) <= Len(content)
  /\ \A i \in 1 .. Len(body) : body[i] = content[i]

CountedWire ==
  /\ Len(wire) <= Len(content) + Len(Following)
  /\ \A i \in 1 .. Len(content) : i <= Len(wire) => wire[i] = Byte(content[i])
  /\ \A i \in 1 .. Len(Following) :
       Len(content) + i <= Len(wire) => wire[Len(content) + i] = Following[i]

(* Where the reader of a counted body is when its loop is at "at".         *)
CountedPlace ==
  /\ framing = Counted(Len(content)) /\ CountedWire
  /\ at \in {"counted", "skip", "Success", "PayloadTooLarge", "Error"}
  /\ at \in {"counted", "Success", "Error"} => Len(content) <= PayloadMax
  /\ at \in {"skip", "PayloadTooLarge"} => Len(content) > PayloadMax
  /\ at = "counted" => /\ need \in 1 .. Len(content)
                       /\ Len(body) = Len(content) - need /\ Pos = Len(body)
  /\ at = "skip" => need \in 1 .. Len(content)
  /\ at = "Success" => Len(body) = Len(content) /\ Pos = Len(content)
  /\ at = "Error" => Len(wire) < Len(content)

(* Where the reader of a body that ends with the connection is.            *)
RestPlace ==
  /\ framing = ToTheEnd /\ Len(wire) <= Len(content)
  /\ \A i \in 1 .. Len(wire) : wire[i] = Byte(content[i])
  /\ at \in {"rest", "Success", "PayloadTooLarge", "Error"}
  /\ at = "rest" => Pos = Len(body) /\ Len(body) <= PayloadMax
  /\ at = "Success" => /\ Len(body) = Len(wire) /\ Len(wire) <= PayloadMax
                       /\ ending = "closed"
  /\ at = "PayloadTooLarge" => Len(wire) > PayloadMax
  /\ at = "Error" => ending # "closed"

ChunkedWire(m, e, t) ==
  /\ Len(wire) <= Mark(e, m) + Len(t) + 2 + Len(Following)
  /\ \A j \in 1 .. m :
       /\ Mark(e, j - 1) + 1 <= Len(wire) =>
            wire[Mark(e, j - 1) + 1] = SizeLine(e[j] - e[j - 1])
       /\ \A x \in 1 .. e[j] - e[j - 1] : Mark(e, j - 1) + 1 + x <= Len(wire) =>
            wire[Mark(e, j - 1) + 1 + x] = Byte(content[e[j - 1] + x])
       /\ Mark(e, j) <= Len(wire) => wire[Mark(e, j)] = Crlf
  /\ Mark(e, m) + 1 <= Len(wire) => wire[Mark(e, m) + 1] = SizeLine(0)
  /\ \A x \in 1 .. Len(t) : Mark(e, m) + 1 + x <= Len(wire) =>
       wire[Mark(e, m) + 1 + x] = Field(t[x])
  /\ Mark(e, m) + Len(t) + 2 <= Len(wire) => wire[Mark(e, m) + Len(t) + 2] = Crlf
  /\ \A x \in 1 .. Len(Following) : Mark(e, m) + Len(t) + 2 + x <= Len(wire) =>
       wire[Mark(e, m) + Len(t) + 2 + x] = Following[x]

(* The units of a trailer section, and a first one that getline gives up   *)
(* on and that has come.                                                   *)
TrailerUnits(t) == [x \in 1 .. Len(t) |-> Field(t[x])]
LongFirst(m, e, t) ==
  Len(t) > 0 /\ OverLong(Field(t[1])) /\ Mark(e, m) + 2 <= Len(wire)

(* Where the reader of a body in chunks is: on the size line after j of    *)
(* them, in the data of the j-th one with need units left or of the one    *)
(* that a torn line announced, on the line that ends it, or q lines into   *)
(* the trailer section.                                                    *)
AfterChunks(m, e) ==
  \E j \in 0 .. m : /\ Pos = Mark(e, j) /\ Len(body) = e[j] /\ e[j] <= PayloadMax
InChunk(m, e) ==
  \E j \in 1 .. m : /\ need \in 1 .. e[j] - e[j - 1] /\ e[j] <= PayloadMax
                    /\ Pos = Mark(e, j) - 1 - need /\ Len(body) = e[j] - need
TornChunk == torn # <<>> /\ Pos = Len(wire) /\ need \in Nat \ {0}
EndOfChunk(m, e) ==
  \E j \in 1 .. m : Pos = Mark(e, j) - 1 /\ Len(body) = e[j] /\ e[j] <= PayloadMax
InTrailer(m, e, t) ==
  /\ Len(body) = Len(content) /\ Len(content) <= PayloadMax
  /\ \E q \in 0 .. Len(t) :
       /\ Pos = Mark(e, m) + 1 + q /\ (at = "trailer" <=> q = 0)
       /\ fieldCount = Declared(TrailerUnits(t), q)
       /\ \A x \in 1 .. q : Tolerable(TrailerUnits(t), x)
AllRead(m, e, t) ==
  /\ Len(body) = Len(content) /\ Len(content) <= PayloadMax
  /\ \/ /\ Pos = Mark(e, m) + Len(t) + 2
        /\ \A x \in 1 .. Len(t) : Tolerable(TrailerUnits(t), x)
     \/ Pos = Mark(e, m) + 1 /\ (Pos = Len(wire) \/ LongFirst(m, e, t))

(* Where the wire ends when it ends in the size line after j chunks, in    *)
(* the chunk that follows, or in the trailer section past its first line,  *)
(* and what makes a trailer line intolerable when the first one is read.   *)
EndsAt(m, e, t, j) ==
  \/ Len(wire) = Mark(e, j)
  \/ j < m /\ e[j + 1] <= PayloadMax /\ Len(wire) < Mark(e, j + 1)
  \/ j = m /\ Mark(e, m) + 1 < Len(wire) /\ Len(wire) < Mark(e, m) + Len(t) + 2
     /\ ~OverLong(Field(t[1]))
BrokenOff(m, e, t) ==
  \E j \in 0 .. m : e[j] <= PayloadMax /\ Mark(e, j) <= Len(wire) /\ EndsAt(m, e, t, j)
BadTrailer(m, e, t) ==
  /\ Len(content) <= PayloadMax /\ Len(t) > 0 /\ ~OverLong(Field(t[1]))
  /\ \E q \in 1 .. Len(t) :
       Mark(e, m) + 1 + q <= Len(wire) /\ ~Tolerable(TrailerUnits(t), q)
TooMuch(m, e) ==
  \E j \in 1 .. m : /\ e[j - 1] <= PayloadMax /\ PayloadMax < e[j]
                    /\ Mark(e, j - 1) + 1 <= Len(wire)

ChunkedPlace(m, e, t) ==
  /\ ChunkedWire(m, e, t)
  /\ at \in {"size", "chunk", "crlf", "trailer", "fields",
             "Success", "PayloadTooLarge", "Error"}
  /\ at \in {"size", "chunk", "crlf"} => fieldCount = 0
  /\ at = "size" => AfterChunks(m, e)
  /\ at = "chunk" => InChunk(m, e) \/ TornChunk
  /\ at = "crlf" => EndOfChunk(m, e)
  /\ at \in {"trailer", "fields"} => InTrailer(m, e, t)
  /\ at = "Success" => AllRead(m, e, t)
  /\ at = "PayloadTooLarge" => TooMuch(m, e) \/ torn # <<>>
  /\ at = "Error" => BrokenOff(m, e, t) \/ BadTrailer(m, e, t) \/ torn # <<>>

SomeChunks ==
  \E t \in Trailers, m \in 0 .. Len(content) :
    \E e \in Ends(m, Len(content)) : ChunkedPlace(m, e, t)

StreamInv ==
  /\ content \in Bodies /\ Buffered /\ Given /\ TornIs
  /\ CountedPlace \/ RestPlace \/ (framing = Chunked /\ SomeChunks)

LEMMA InRange ==
  ASSUME NEW S, NEW s \in Seq(S)
  PROVE  s \in Seq(Range(s))
<1>1. s = [i \in 1 .. Len(s) |-> s[i]] /\ Len(s) \in Nat /\ DOMAIN s = 1 .. Len(s)
  BY LenProperties
<1>2. \A i \in 1 .. Len(s) : s[i] \in Range(s)
  BY <1>1 DEF Range
<1>3. QED
  BY <1>1, <1>2

LEMMA WireIsCut ==
  ASSUME NEW U, NEW w \in Seq(U), NEW k \in 0 .. Len(w),
         wire = SubSeq(w, 1, k), net = wire, buf = <<>>
  PROVE  /\ Buffered /\ Pos = 0 /\ Len(wire) = k /\ k <= Len(w)
         /\ \A i \in 1 .. Len(w) : i <= Len(wire) => wire[i] = w[i]
<1>1. Len(w) \in Nat
  BY LenProperties
<1>2. /\ wire \in Seq(U) /\ Len(wire) = k /\ \A i \in 1 .. k : wire[i] = w[i]
  <2>1. /\ SubSeq(w, 1, k) \in Seq(U)
        /\ Len(SubSeq(w, 1, k)) = IF 1 <= k THEN k - 1 + 1 ELSE 0
        /\ \A i \in 1 .. Len(SubSeq(w, 1, k)) : SubSeq(w, 1, k)[i] = w[1 + i - 1]
    BY SubOf
  <2>2. Len(wire) = k
    BY <1>1, <2>1
  <2>3. QED
    BY <1>1, <2>1, <2>2
<1>3. wire \in Seq(Units)
  BY <1>2, InRange DEF Units
<1>4. buf \in Seq(Units) /\ Len(buf) = 0
  OBVIOUS
<1>5. Pos = 0
  BY <1>1, <1>2, <1>4 DEF Pos
<1>6. Buffered
  BY <1>2, <1>3, <1>4, <1>5 DEF Buffered
<1>7. QED
  BY <1>1, <1>2, <1>5, <1>6

LEMMA ContentIs ==
  ASSUME content \in Bodies
  PROVE  content \in Seq(Range(content)) /\ Len(content) \in Nat
BY SequencesAssumption, LenProperties

LEMMA CountedInit ==
  ASSUME StreamInit, TornIs, framing = Counted(Len(content)),
         NEW k \in 0 .. Len(WriteData(content) \o Following),
         wire = SubSeq(WriteData(content) \o Following, 1, k)
  PROVE  StreamInv
<1>1. /\ content \in Bodies /\ net = wire /\ buf = <<>> /\ body = <<>>
      /\ at = Begin(framing) /\ need = framing[2]
  BY DEF StreamInit
<1>2. PICK S, T, n : S = Range(content) /\ T = {} /\ n = Len(content)
  OBVIOUS
<1>3. content \in Seq(S) /\ n \in Nat
  BY <1>1, <1>2, ContentIs
<1>4. PICK U : U = AnyUnit(S, T)
  OBVIOUS
<1>5. PICK d, f : d = WriteData(content) /\ f = Following
  OBVIOUS
<1>6. /\ d \in Seq(U) /\ Len(d) = n /\ \A i \in 1 .. n : d[i] = Byte(content[i])
  BY <1>2, <1>3, <1>4, <1>5, WriteDataOf
<1>7. f \in Seq(U) /\ Len(f) \in Nat
  BY <1>4, <1>5, FollowingUnits, LenProperties
<1>8. PICK w : w = d \o f
  OBVIOUS
<1>9. /\ w \in Seq(U) /\ Len(w) = n + Len(f)
      /\ \A i \in 1 .. n : w[i] = Byte(content[i])
      /\ \A i \in 1 .. Len(f) : w[n + i] = f[i]
  <2>1. /\ d \o f \in Seq(U) /\ Len(d \o f) = Len(d) + Len(f)
        /\ \A i \in 1 .. Len(d) : (d \o f)[i] = d[i]
        /\ \A i \in 1 .. Len(f) : (d \o f)[Len(d) + i] = f[i]
    <3>1. d \in Seq(U) /\ f \in Seq(U)
      BY <1>6, <1>7
    <3>2. QED
      BY <3>1, ConcatAt
  <2>2. QED
    BY <1>6, <1>8, <2>1
<1>10. k \in 0 .. Len(w) /\ wire = SubSeq(w, 1, k)
  BY <1>5, <1>8
<1>11. /\ Buffered /\ Pos = 0 /\ Len(wire) = k /\ k <= Len(w)
       /\ \A i \in 1 .. Len(w) : i <= Len(wire) => wire[i] = w[i]
  BY <1>1, <1>9, <1>10, WireIsCut
<1>12. CountedWire
  <2>1. Len(wire) <= n + Len(f)
    BY <1>9, <1>11
  <2>2. ASSUME NEW i \in 1 .. n, i <= Len(wire) PROVE wire[i] = Byte(content[i])
    <3>1. i \in 1 .. Len(w)
      BY <1>3, <1>7, <1>9
    <3>2. QED
      BY <1>9, <1>11, <2>2, <3>1
  <2>3. ASSUME NEW i \in 1 .. Len(f), n + i <= Len(wire) PROVE wire[n + i] = f[i]
    <3>1. n + i \in 1 .. Len(w)
      BY <1>3, <1>7, <1>9
    <3>2. QED
      BY <1>9, <1>11, <2>3, <3>1
  <2>4. QED
    BY <1>2, <1>5, <2>1, <2>2, <2>3 DEF CountedWire
<1>13. body \in Seq(Range(content)) /\ Len(body) = 0
  BY <1>1
<1>14. Given
  BY <1>2, <1>3, <1>13 DEF Given
<1>15. framing # Chunked /\ framing # ToTheEnd /\ framing[2] = n
  BY <1>2 DEF Counted, Chunked, ToTheEnd
<1>16. CountedPlace
  <2>1. at = IF n > PayloadMax THEN "skip" ELSE IF n > 0 THEN "counted" ELSE "Success"
    BY <1>1, <1>15 DEF Begin
  <2>2. need = n /\ PayloadMax \in Nat
    BY <1>1, <1>15, PayloadAssumption
  <2>3. CASE n > PayloadMax
    <3>1. at = "skip" /\ n \in 1 .. n
      BY <1>3, <2>1, <2>2, <2>3
    <3>2. QED
      BY <1>2, <1>12, <2>2, <2>3, <3>1 DEF CountedPlace
  <2>4. CASE ~ (n > PayloadMax) /\ n > 0
    <3>1. at = "counted" /\ n \in 1 .. n /\ 0 = n - n /\ n <= PayloadMax
      BY <1>3, <2>1, <2>2, <2>4
    <3>2. QED
      BY <1>2, <1>11, <1>12, <1>13, <2>2, <3>1 DEF CountedPlace
  <2>5. CASE ~ (n > PayloadMax) /\ ~ (n > 0)
    <3>1. at = "Success" /\ n = 0 /\ n <= PayloadMax
      BY <1>3, <2>1, <2>2, <2>5
    <3>2. QED
      BY <1>2, <1>11, <1>12, <1>13, <3>1 DEF CountedPlace
  <2>6. QED
    BY <2>3, <2>4, <2>5
<1>17. QED
  BY <1>1, <1>11, <1>14, <1>16 DEF StreamInv

LEMMA RestInit ==
  ASSUME StreamInit, TornIs, framing = ToTheEnd,
         NEW k \in 0 .. Len(WriteData(content)), wire = SubSeq(WriteData(content), 1, k)
  PROVE  StreamInv
<1>1. /\ content \in Bodies /\ net = wire /\ buf = <<>> /\ body = <<>> /\ at = Begin(framing)
  BY DEF StreamInit
<1>2. PICK S, T, n : S = Range(content) /\ T = {} /\ n = Len(content)
  OBVIOUS
<1>3. content \in Seq(S) /\ n \in Nat
  BY <1>1, <1>2, ContentIs
<1>4. PICK U, d : U = AnyUnit(S, T) /\ d = WriteData(content)
  OBVIOUS
<1>5. d \in Seq(U) /\ Len(d) = n /\ \A i \in 1 .. n : d[i] = Byte(content[i])
  BY <1>2, <1>3, <1>4, WriteDataOf
<1>6. k \in 0 .. Len(d) /\ wire = SubSeq(d, 1, k)
  BY <1>4
<1>7. /\ Buffered /\ Pos = 0 /\ Len(wire) = k /\ k <= Len(d)
      /\ \A i \in 1 .. Len(d) : i <= Len(wire) => wire[i] = d[i]
  BY <1>1, <1>5, <1>6, WireIsCut
<1>8. body \in Seq(Range(content)) /\ Len(body) = 0
  BY <1>1
<1>9. Given
  BY <1>2, <1>3, <1>8 DEF Given
<1>10. at = "rest"
  BY <1>1 DEF Begin, ToTheEnd, Chunked
<1>11. \A i \in 1 .. Len(wire) : wire[i] = Byte(content[i])
  BY <1>3, <1>5, <1>7
<1>12. RestPlace
  BY <1>2, <1>5, <1>7, <1>8, <1>10, <1>11, PayloadAssumption DEF RestPlace
<1>13. QED
  BY <1>1, <1>7, <1>9, <1>12 DEF StreamInv

(* Being laid out in the encoding, and cut: the invariant's ChunkedWire.   *)
LEMMA CutLayout ==
  ASSUME content \in Bodies, NEW m \in Nat, NEW e \in Ends(m, Len(content)), NEW t,
         Len(t) \in Nat, NEW w, Len(w) \in Nat, Len(Following) \in Nat,
         Layout(w, content, m, e, t, Following),
         Len(wire) <= Len(w), Len(wire) \in Nat,
         \A i \in 1 .. Len(w) : i <= Len(wire) => wire[i] = w[i]
  PROVE  ChunkedWire(m, e, t)
<1>1. PICK n, k, l, q : n = Len(t) /\ k = Mark(e, m) /\ l = Len(wire) /\ q = Len(Following)
  OBVIOUS
<1>2. Len(content) \in Nat
  BY ContentIs
<1>3. e[m] \in Nat /\ k = e[m] + 2 * m
  BY <1>1, <1>2 DEF Ends, Mark
<1>4. n \in Nat /\ k \in Nat /\ l \in Nat /\ q \in Nat
  BY <1>1, <1>3
<1>5. Len(w) = k + n + 2 + q
  BY <1>1 DEF Layout
<1>6. \A i \in Nat : 1 <= i /\ i <= l => wire[i] = w[i]
  <2>1. ASSUME NEW i \in Nat, 1 <= i, i <= l PROVE wire[i] = w[i]
    <3>1. i \in 1 .. Len(w)
      BY <1>1, <2>1
    <3>2. QED
      BY <1>1, <2>1, <3>1
  <2>2. QED
    BY <2>1
<1>7. l <= k + n + 2 + q
  BY <1>1, <1>5
<1>8. ASSUME NEW j \in 1 .. m
      PROVE  /\ Mark(e, j - 1) + 1 <= l =>
                  wire[Mark(e, j - 1) + 1] = SizeLine(e[j] - e[j - 1])
             /\ \A x \in 1 .. e[j] - e[j - 1] : Mark(e, j - 1) + 1 + x <= l =>
                  wire[Mark(e, j - 1) + 1 + x] = Byte(content[e[j - 1] + x])
             /\ Mark(e, j) <= l => wire[Mark(e, j)] = Crlf
  <2>1. PICK p, a, b : p = Mark(e, j - 1) /\ a = e[j - 1] /\ b = e[j]
    OBVIOUS
  <2>2. a \in Nat /\ b \in Nat /\ a < b
    <3>1. PICK z : z = Len(content)
      OBVIOUS
    <3>2. z \in Nat /\ e \in Ends(m, z)
      BY <1>2, <3>1
    <3>3. QED
      BY <2>1, <3>2, EndsStep
  <2>3. p = a + 2 * (j - 1) /\ Mark(e, j) = b + 2 * j
    BY <2>1 DEF Mark
  <2>4. p \in Nat /\ Mark(e, j) = p + (b - a + 2)
    BY <2>2, <2>3
  <2>5. LaidAt(w, p, content, a, b)
    BY <2>1 DEF Layout
  <2>6. ASSUME p + 1 <= l PROVE wire[p + 1] = SizeLine(b - a)
    <3>1. wire[p + 1] = w[p + 1]
      BY <1>6, <2>4, <2>6
    <3>2. QED
      BY <2>5, <3>1 DEF LaidAt
  <2>7. ASSUME NEW x \in 1 .. b - a, p + 1 + x <= l
        PROVE  wire[p + 1 + x] = Byte(content[a + x])
    <3>1. wire[p + 1 + x] = w[p + 1 + x]
      BY SMTT(60), <1>6, <2>4, <2>7
    <3>2. QED
      BY <2>5, <3>1 DEF LaidAt
  <2>8. ASSUME p + (b - a + 2) <= l PROVE wire[p + (b - a + 2)] = Crlf
    <3>1. wire[p + (b - a + 2)] = w[p + (b - a + 2)]
      BY SMTT(60), <1>6, <2>2, <2>4, <2>8
    <3>2. QED
      BY <2>5, <3>1 DEF LaidAt
  <2>9. QED
    BY <2>1, <2>4, <2>6, <2>7, <2>8
<1>9. ASSUME k + 1 <= l PROVE wire[k + 1] = SizeLine(0)
  <2>1. w[k + 1] = SizeLine(0)
    BY <1>1 DEF Layout
  <2>2. QED
    BY <1>4, <1>6, <1>9, <2>1
<1>10. ASSUME NEW x \in 1 .. n, k + 1 + x <= l PROVE wire[k + 1 + x] = Field(t[x])
  <2>1. w[k + 1 + x] = Field(t[x])
    BY <1>1 DEF Layout
  <2>2. k + 1 + x \in Nat /\ 1 <= k + 1 + x
    BY <1>4
  <2>3. QED
    BY <1>6, <1>10, <2>1, <2>2
<1>11. ASSUME k + n + 2 <= l PROVE wire[k + n + 2] = Crlf
  <2>1. w[k + n + 2] = Crlf
    BY <1>1 DEF Layout
  <2>2. k + n + 2 \in Nat /\ 1 <= k + n + 2
    BY <1>4
  <2>3. QED
    BY <1>6, <1>11, <2>1, <2>2
<1>12. ASSUME NEW x \in 1 .. q, k + n + 2 + x <= l PROVE wire[k + n + 2 + x] = Following[x]
  <2>1. w[k + n + 2 + x] = Following[x]
    BY <1>1 DEF Layout
  <2>2. k + n + 2 + x \in Nat /\ 1 <= k + n + 2 + x
    BY <1>4
  <2>3. QED
    BY <1>6, <1>12, <2>1, <2>2
<1>13. QED
  BY <1>1, <1>7, <1>8, <1>9, <1>10, <1>11, <1>12 DEF ChunkedWire

LEMMA ChunkedInit ==
  ASSUME StreamInit, TornIs, framing = Chunked,
         NEW t \in Trailers, NEW m \in 0 .. Len(content), NEW e \in Ends(m, Len(content)),
         NEW w, w = WriteChunked(CutAt(content, m, e), t) \o Following,
         NEW k \in 0 .. Len(w), wire = SubSeq(w, 1, k)
  PROVE  StreamInv
<1>1. /\ content \in Bodies /\ net = wire /\ buf = <<>> /\ body = <<>>
      /\ at = Begin(framing) /\ fieldCount = 0
  BY DEF StreamInit
<1>2. content \in Seq(Range(content)) /\ Len(content) \in Nat
  BY <1>1, ContentIs
<1>3. t \in Seq(Range(t)) /\ Following \in Seq(Range(Following)) /\ m \in Nat
  BY <1>2, SequencesAssumption
<1>4. PICK U : U = AnyUnit(Range(content), Range(t))
  OBVIOUS
<1>5. w \in Seq(U) /\ Layout(w, content, m, e, t, Following)
  BY <1>2, <1>3, <1>4, ChunkedLayout
<1>6. /\ Buffered /\ Pos = 0 /\ Len(wire) = k /\ k <= Len(w)
      /\ \A i \in 1 .. Len(w) : i <= Len(wire) => wire[i] = w[i]
  BY <1>1, <1>5, WireIsCut
<1>7. /\ Len(t) \in Nat /\ Len(w) \in Nat /\ Len(Following) \in Nat
      /\ Len(wire) \in Nat /\ Len(wire) <= Len(w)
  BY <1>3, <1>5, <1>6, LenProperties
<1>8. ChunkedWire(m, e, t)
  BY <1>1, <1>3, <1>5, <1>6, <1>7, CutLayout
<1>9. body \in Seq(Range(content)) /\ Len(body) = 0
  BY <1>1
<1>10. Given
  BY <1>2, <1>9 DEF Given
<1>11. at = "size"
  BY <1>1 DEF Begin
<1>12. AfterChunks(m, e)
  <2>1. e[0] = 0 /\ Mark(e, 0) = 0 /\ 0 \in 0 .. m
    BY <1>3 DEF Ends, Mark
  <2>2. e[0] <= PayloadMax
    BY <2>1, PayloadAssumption
  <2>3. QED
    BY <1>6, <1>9, <2>1, <2>2 DEF AfterChunks
<1>13. ChunkedPlace(m, e, t)
  BY <1>1, <1>8, <1>11, <1>12 DEF ChunkedPlace
<1>14. QED
  BY <1>1, <1>6, <1>10, <1>13 DEF StreamInv, SomeChunks

LEMMA TornStarts ==
  ASSUME NEW unit, NEW u \in Torn(unit)
  PROVE  u # Crlf /\ (u[1] = "size" => u[2] \in Nat \ {0})
<1>1. CASE unit[1] = "size"
  <2>1. PICK k \in 1 .. unit[2] : u = SizeLine(k)
    BY <1>1 DEF Torn
  <2>2. k \in Nat \ {0}
    BY <2>1
  <2>3. u[1] = "size" /\ u[2] = k /\ Crlf[1] = "crlf"
    BY <2>1 DEF SizeLine, Crlf
  <2>4. QED
    BY <2>2, <2>3
<1>2. CASE unit[1] = "field"
  <2>1. PICK f : u = Field(f)
    BY <1>2 DEF Torn
  <2>2. u[1] = "field" /\ Crlf[1] = "crlf"
    BY <2>1 DEF Field, Crlf
  <2>3. QED
    BY <2>2
<1>3. CASE unit[1] = "crlf"
  <2>1. u = Lone
    BY <1>3 DEF Torn
  <2>2. u[1] = "field" /\ Crlf[1] = "crlf"
    BY <2>1 DEF Lone, Field, Crlf
  <2>3. QED
    BY <2>2
<1>4. QED
  BY <1>1, <1>2, <1>3 DEF Torn

LEMMA StreamStarts == StreamInit => StreamInv
<1>1. SUFFICES ASSUME StreamInit PROVE StreamInv
  OBVIOUS
<1>a. TornIs
  <2>1. \/ torn = <<>>
        \/ \E unit : \E u \in Torn(unit) : torn = <<u>>
    BY <1>1 DEF StreamInit
  <2>2. QED
    BY <2>1, TornStarts DEF TornIs
<1>2. PICK s \in Encodings(content) : \E k \in 0 .. Len(s[2]) :
               framing = s[1] /\ wire = SubSeq(s[2], 1, k)
  BY <1>1 DEF StreamInit
<1>3. PICK k \in 0 .. Len(s[2]) : framing = s[1] /\ wire = SubSeq(s[2], 1, k)
  BY <1>2
<1>4. CASE s = <<Counted(Len(content)), WriteData(content) \o Following>>
  <2>1. s[1] = Counted(Len(content)) /\ s[2] = WriteData(content) \o Following
    BY <1>4
  <2>2. QED
    BY <1>1, <1>a, <1>3, <2>1, CountedInit
<1>5. CASE s = <<ToTheEnd, WriteData(content)>>
  <2>1. s[1] = ToTheEnd /\ s[2] = WriteData(content)
    BY <1>5
  <2>2. QED
    BY <1>1, <1>a, <1>3, <2>1, RestInit
<1>6. ASSUME NEW p \in Cuts(content), NEW t \in Trailers,
             s = <<Chunked, WriteChunked(p, t) \o Following>>
      PROVE  StreamInv
  <2>1. PICK m \in 0 .. Len(content) : p \in {CutAt(content, m, e) : e \in Ends(m, Len(content))}
    BY <1>6 DEF Cuts
  <2>2. PICK e \in Ends(m, Len(content)) : p = CutAt(content, m, e)
    BY <2>1
  <2>3. PICK w : w = s[2]
    OBVIOUS
  <2>4. s[1] = Chunked /\ w = WriteChunked(CutAt(content, m, e), t) \o Following
    BY <1>6, <2>2, <2>3
  <2>5. framing = Chunked /\ k \in 0 .. Len(w) /\ wire = SubSeq(w, 1, k)
    BY <1>3, <2>3, <2>4
  <2>6. QED
    BY <1>1, <1>a, <2>4, <2>5, ChunkedInit
<1> DEFINE inChunks ==
      {<<Chunked, WriteChunked(p, t) \o Following>> : p \in Cuts(content), t \in Trailers}
<1>8. \/ s = <<Counted(Len(content)), WriteData(content) \o Following>>
      \/ s = <<ToTheEnd, WriteData(content)>>
      \/ s \in inChunks
  BY SMTT(60) DEF Encodings
<1>9. CASE s \in inChunks
  <2>1. PICK p \in Cuts(content), t \in Trailers : s = <<Chunked, WriteChunked(p, t) \o Following>>
    BY <1>9
  <2>2. QED
    BY <1>6, <2>1
<1> HIDE DEF inChunks
<1>10. QED
  BY <1>4, <1>5, <1>8, <1>9

-----------------------------------------------------------------------------
LEMMA Kept == StreamNext => UNCHANGED <<content, framing, wire, ending, torn>>
BY DEF StreamNext, ReadSize, ReadCounted, Skip, ReadChunkEnd, ReadTrailer, ReadRest, GetLine

(* What a line reader's read returns.                                      *)
LEMMA NextLine ==
  ASSUME Buffered, NEW r \in Reads(1)
  PROVE  /\ r.ret \in Int
         /\ r.ret > 0 => r.got # <<>> /\ r.got[1] = wire[Pos + 1] /\ Pos + 1 <= Len(wire)
         /\ r.ret <= 0 => Pos = Len(wire)
<1>1. /\ Len(wire) \in Nat /\ Len(buf) \in Nat /\ Len(net) \in Nat /\ Pos \in Nat
      /\ Pos = Len(wire) - Len(buf) - Len(net)
  BY LenProperties DEF Buffered, Pos
<1>2. ASSUME NEW s \in Seq(Units), s # <<>>
      PROVE  SubSeq(s, 1, 1) # <<>> /\ SubSeq(s, 1, 1)[1] = s[1]
  <2>1. Len(s) \in Nat \ {0}
    BY <1>2, LenProperties, EmptySeq
  <2>2. 1 \in 0 .. Len(s)
    BY <2>1
  <2>3. /\ SubSeq(s, 1, 1) \in Seq(Units)
        /\ Len(SubSeq(s, 1, 1)) = IF 1 <= 1 THEN 1 - 1 + 1 ELSE 0
        /\ \A i \in 1 .. Len(SubSeq(s, 1, 1)) : SubSeq(s, 1, 1)[i] = s[1 + i - 1]
    BY <2>2, SubOf
  <2>4. Len(SubSeq(s, 1, 1)) = 1
    BY <2>3
  <2>5. \A i \in {1} : SubSeq(s, 1, 1)[i] = s[i]
    BY <2>3, <2>4
  <2>6. SubSeq(s, 1, 1)[1] = s[1]
    BY <2>5
  <2>7. SubSeq(s, 1, 1) # <<>>
    <3>1. PICK k : k = 1
      OBVIOUS
    <3>2. Len(SubSeq(s, 1, 1)) = k /\ k \in Nat \ {0}
      BY <2>4, <3>1
    <3>3. QED
      BY <3>2
  <2>8. QED
    BY <2>6, <2>7
<1>3. CASE buf # <<>>
  <2>1. r = FromBuffer(1) /\ Len(buf) \in Nat \ {0}
    BY <1>3, <1>1, EmptySeq DEF Reads, Buffered
  <2>2. Least(1, Len(buf)) = 1
    <3>1. PICK k : k = Len(buf)
      OBVIOUS
    <3>2. k \in Nat \ {0}
      BY <2>1, <3>1
    <3>3. Least(1, k) = 1
      BY <3>2 DEF Least
    <3>4. QED
      BY <3>1, <3>3
  <2>3. r.ret = 1 /\ r.got = SubSeq(buf, 1, 1)
    <3>1. FromBuffer(1).ret = Least(1, Len(buf))
      BY DEF FromBuffer, Read
    <3>2. FromBuffer(1).got = SubSeq(buf, 1, Least(1, Len(buf)))
      BY DEF FromBuffer, Read
    <3>3. QED
      BY <2>1, <2>2, <3>1, <3>2
  <2>4. r.got # <<>> /\ r.got[1] = buf[1]
    BY <1>2, <1>3, <2>3 DEF Buffered
  <2>5. 1 \in 1 .. Len(buf)
    BY <2>1
  <2>6. buf[1] = wire[Pos + 1] /\ Pos + 1 <= Len(wire)
    BY <1>1, <2>1, <2>5 DEF Buffered
  <2>7. QED
    BY <2>3, <2>4, <2>6
<1>4. CASE buf = <<>> /\ net = <<>>
  <2>1. r = Read(SelectRead, <<>>, <<>>, <<>>)
    BY <1>4 DEF Reads
  <2>2. r.ret \in Int /\ r.ret <= 0
    BY <2>1 DEF Read, SelectRead
  <2>3. Len(buf) = 0 /\ Len(net) = 0
    BY <1>4
  <2>4. QED
    BY <1>1, <2>2, <2>3
<1>5. CASE buf = <<>> /\ net # <<>>
  <2>1. Len(net) \in Nat \ {0} /\ Len(buf) = 0
    BY <1>5, <1>1, EmptySeq DEF Buffered
  <2>2. PICK k \in 1 .. Least(Len(net), IF 1 < ReadBuff THEN ReadBuff ELSE 1) : r = FromRecv(1, k)
    BY <1>5 DEF Reads
  <2>3. k \in 1 .. Len(net) /\ k \in 0 .. Len(net)
    BY <2>1, <2>2, BufferAssumption DEF Least
  <2>4. Least(1, k) = 1
    BY <2>3 DEF Least
  <2>5. r.ret = 1 /\ r.got = SubSeq(Recv(k), 1, 1)
    BY <2>2, <2>4 DEF FromRecv, Read
  <2>6. /\ Recv(k) \in Seq(Units) /\ Recv(k) # <<>> /\ Recv(k)[1] = net[1]
    <3>1. /\ SubSeq(net, 1, k) \in Seq(Units)
          /\ Len(SubSeq(net, 1, k)) = IF 1 <= k THEN k - 1 + 1 ELSE 0
          /\ \A i \in 1 .. Len(SubSeq(net, 1, k)) : SubSeq(net, 1, k)[i] = net[1 + i - 1]
      BY <2>3, SubOf DEF Buffered
    <3>2. Len(SubSeq(net, 1, k)) = k
      BY <2>3, <3>1
    <3>3. 1 \in 1 .. Len(SubSeq(net, 1, k)) /\ 1 + 1 - 1 = 1
      BY <2>3, <3>2
    <3>4. SubSeq(net, 1, k)[1] = net[1 + 1 - 1]
      BY <3>1, <3>3
    <3>5. SubSeq(net, 1, k) # <<>>
      BY <2>3, <3>2
    <3>6. QED
      BY <3>1, <3>3, <3>4, <3>5 DEF Recv
  <2>7. r.got # <<>> /\ r.got[1] = net[1]
    BY <1>2, <2>5, <2>6
  <2>8. 1 \in 1 .. Len(net)
    BY <2>1
  <2>9. net[1] = wire[Pos + Len(buf) + 1] /\ Pos + Len(buf) + 1 = Pos + 1 /\ Pos + 1 <= Len(wire)
    BY <1>1, <2>1, <2>8 DEF Buffered
  <2>10. QED
    BY <2>5, <2>7, <2>9
<1>6. QED
  BY <1>3, <1>4, <1>5

(* A line reader's read.                                                   *)
LEMMA NextUnit ==
  ASSUME Buffered, UNCHANGED wire, NEW r \in Reads(1), Take(r)
  PROVE  /\ Buffered' /\ r.ret \in Int /\ Pos \in Nat /\ Len(wire) \in Nat
         /\ r.ret > 0 => r.got[1] = wire[Pos + 1] /\ Pos + 1 <= Len(wire) /\ Pos' = Pos + 1
         /\ r.ret <= 0 => Pos = Len(wire) /\ Pos' = Pos
<1>1. Delivered(r, 1) /\ Buffered'
  BY ReadDelivers
<1>2. Pos \in Nat /\ Len(wire) \in Nat
  BY LenProperties DEF Buffered
<1>3. ASSUME r.ret > 0
      PROVE  r.got[1] = wire[Pos + 1] /\ Pos + 1 <= Len(wire) /\ Pos' = Pos + 1
  <2>1. r.ret = 1
    BY <1>1, <1>3 DEF Delivered
  <2>2. 1 \in 1 .. r.ret
    BY <2>1
  <2>3. QED
    BY <1>1, <1>3, <2>1, <2>2 DEF Delivered
<1>4. QED
  BY <1>1, <1>2, <1>3 DEF Delivered

(* The torn line is there when no other is.                                *)
LEMMA TornLine ==
  ASSUME TornIs
  PROVE  /\ torn # <<>> => /\ torn[1] # Crlf
                           /\ torn[1][1] = "size" => torn[1][2] \in Nat \ {0}
<1>1. SUFFICES ASSUME torn # <<>>
               PROVE  torn[1] # Crlf /\ (torn[1][1] = "size" => torn[1][2] \in Nat \ {0})
  OBVIOUS
<1>2. PICK u : torn = <<u>> /\ u # Crlf /\ (u[1] = "size" => u[2] \in Nat \ {0})
  BY <1>1 DEF TornIs
<1>3. torn[1] = u
  BY <1>2
<1>4. QED
  BY <1>2, <1>3

LEMMA InChunks ==
  ASSUME StreamInv, at \in {"size", "chunk", "crlf", "trailer", "fields"}
  PROVE  /\ content \in Bodies /\ Buffered /\ Given /\ TornIs
         /\ framing = Chunked /\ SomeChunks
BY DEF StreamInv, CountedPlace, RestPlace

LEMMA ChunksGoOn ==
  ASSUME content \in Bodies, framing = Chunked, UNCHANGED <<content, framing, wire, torn>>,
         Buffered', Given', TornIs, at' \in {"size", "chunk", "crlf"} => fieldCount' = 0,
         NEW t \in Trailers, NEW m \in 0 .. Len(content), NEW e \in Ends(m, Len(content)),
         ChunkedWire(m, e, t),
         \/ at' = "size" /\ AfterChunks(m, e)'
         \/ at' = "chunk" /\ (InChunk(m, e)' \/ TornChunk')
         \/ at' = "crlf" /\ EndOfChunk(m, e)'
         \/ at' \in {"trailer", "fields"} /\ InTrailer(m, e, t)'
         \/ at' = "Success" /\ AllRead(m, e, t)'
         \/ at' = "PayloadTooLarge" /\ (TooMuch(m, e) \/ torn # <<>>)
         \/ at' = "Error" /\ (BrokenOff(m, e, t) \/ BadTrailer(m, e, t) \/ torn # <<>>)
  PROVE  StreamInv'
<1>1. ChunkedWire(m, e, t)'
  BY DEF ChunkedWire
<1>a. TooMuch(m, e)' <=> TooMuch(m, e)
  BY DEF TooMuch
<1>b. BrokenOff(m, e, t)' <=> BrokenOff(m, e, t)
  BY DEF BrokenOff, EndsAt
<1>c. BadTrailer(m, e, t)' <=> BadTrailer(m, e, t)
  BY DEF BadTrailer
<1>2. ChunkedPlace(m, e, t)'
  BY <1>1, <1>a, <1>b, <1>c DEF ChunkedPlace
<1>3. SomeChunks'
  BY <1>2 DEF SomeChunks
<1>4. TornIs'
  BY DEF TornIs
<1>5. QED
  BY <1>3, <1>4 DEF StreamInv

LEMMA SizeStep ==
  ASSUME StreamInv, ReadSize
  PROVE  StreamInv'
<1>1. at = "size" /\ UNCHANGED <<content, framing, wire, torn, fieldCount, body>>
  BY DEF ReadSize, GetLine
<1>2. /\ content \in Bodies /\ Buffered /\ Given /\ TornIs
      /\ framing = Chunked /\ SomeChunks
  BY <1>1, InChunks
<1>3. PICK t \in Trailers, m \in 0 .. Len(content) :
        \E e \in Ends(m, Len(content)) : ChunkedPlace(m, e, t)
  BY <1>2 DEF SomeChunks
<1>4. PICK e \in Ends(m, Len(content)) : ChunkedPlace(m, e, t)
  BY <1>3
<1>5. PICK r \in Reads(1) :
        /\ Take(r)
        /\ at' = IF LineOf(r) = <<>> THEN "Error"
                 ELSE IF LineOf(r)[1][1] # "size" THEN "Error"
                 ELSE IF LineOf(r)[1][2] = 0 THEN "trailer"
                 ELSE IF Len(body) + LineOf(r)[1][2] > PayloadMax THEN "PayloadTooLarge"
                 ELSE "chunk"
        /\ need' = IF LineOf(r) # <<>> THEN LineOf(r)[1][2] ELSE need
  BY DEF ReadSize, GetLine
<1>6. /\ Buffered' /\ r.ret \in Int /\ Pos \in Nat /\ Len(wire) \in Nat
      /\ r.ret > 0 => r.got[1] = wire[Pos + 1] /\ Pos + 1 <= Len(wire) /\ Pos' = Pos + 1
  BY <1>1, <1>2, <1>5, NextUnit
<1>7. Given'
  BY <1>1, <1>2 DEF Given
<1>8. ChunkedWire(m, e, t) /\ AfterChunks(m, e) /\ fieldCount = 0 /\ fieldCount' = 0
  BY <1>1, <1>4 DEF ChunkedPlace
<1>9. SUFFICES \/ at' = "chunk" /\ (InChunk(m, e)' \/ TornChunk')
               \/ at' = "trailer" /\ InTrailer(m, e, t)'
               \/ at' = "PayloadTooLarge" /\ (TooMuch(m, e) \/ torn # <<>>)
               \/ at' = "Error" /\ (BrokenOff(m, e, t) \/ torn # <<>>)
  BY <1>1, <1>2, <1>6, <1>7, <1>8, ChunksGoOn
<1>a. r.ret <= 0 => Pos = Len(wire) /\ Pos' = Pos
  BY <1>1, <1>2, <1>5, NextUnit
<1>b. r.ret > 0 => r.got # <<>>
  BY <1>2, NextLine
<1>c. CASE r.ret <= 0 /\ torn # <<>>
  <2>1. LineOf(r) = torn
    BY <1>6, <1>c DEF LineOf
  <2>2. torn[1][1] = "size" => torn[1][2] \in Nat \ {0}
    BY <1>2, <1>c, TornLine
  <2>3. CASE torn[1][1] # "size"
    BY <1>5, <1>c, <2>1, <2>3
  <2>4. CASE torn[1][1] = "size"
    <3>1. torn[1][2] \in Nat \ {0} /\ torn[1][2] # 0
      BY <2>2, <2>4
    <3>2. need' = torn[1][2] /\ at' \in {"PayloadTooLarge", "chunk"}
      BY <1>5, <1>c, <2>1, <2>4, <3>1
    <3>3. TornChunk'
      BY <1>1, <1>a, <1>c, <3>1, <3>2 DEF TornChunk
    <3>4. QED
      BY <1>c, <3>2, <3>3
  <2>5. QED
    BY <2>3, <2>4
<1>10. CASE r.ret <= 0 /\ torn = <<>>
  <2>a. LineOf(r) = <<>>
    BY <1>6, <1>10 DEF LineOf
  <2>1. PICK j \in 0 .. m : Pos = Mark(e, j) /\ e[j] <= PayloadMax
    BY <1>8 DEF AfterChunks
  <2>2. Len(wire) = Mark(e, j) /\ Mark(e, j) <= Len(wire)
    BY <1>6, <1>10, <1>a, <2>1
  <2>3. BrokenOff(m, e, t)
    BY <2>1, <2>2 DEF BrokenOff, EndsAt
  <2>4. QED
    BY <1>5, <2>a, <2>3
<1>11. CASE r.ret > 0
  <2>1. PICK j \in 0 .. m : Pos = Mark(e, j) /\ Len(body) = e[j] /\ e[j] <= PayloadMax
    BY <1>8 DEF AfterChunks
  <2>2. PICK z : z = Len(content)
    OBVIOUS
  <2>3. z \in Nat /\ m \in Nat /\ e \in Ends(m, z)
    BY <1>2, <2>2, ContentIs
  <2>a. LineOf(r) = r.got /\ r.got # <<>>
    BY <1>b, <1>11 DEF LineOf
  <2>4. PICK u : u = r.got[1]
    OBVIOUS
  <2>5. u = wire[Mark(e, j) + 1] /\ Mark(e, j) + 1 <= Len(wire) /\ Pos' = Mark(e, j) + 1
    BY <1>6, <1>11, <2>1, <2>4
  <2>6. /\ at' = IF u[1] # "size" THEN "Error"
                 ELSE IF u[2] = 0 THEN "trailer"
                 ELSE IF Len(body) + u[2] > PayloadMax THEN "PayloadTooLarge"
                 ELSE "chunk"
        /\ need' = u[2]
    BY <1>5, <2>a, <2>4
  <2>7. CASE j = m
    <3>1. u = SizeLine(0)
      BY <1>8, <2>5, <2>7 DEF ChunkedWire
    <3>2. u[1] = "size" /\ u[2] = 0
      BY <3>1 DEF SizeLine
    <3>3. at' = "trailer"
      BY <2>6, <3>2
    <3>4. Len(body') = Len(content')
      <4>1. e[m] = z
        BY <2>3 DEF Ends
      <4>2. QED
        BY <1>1, <2>1, <2>2, <2>7, <4>1
    <3>5. InTrailer(m, e, t)'
      <4>1. Len(t) \in Nat
        BY SequencesAssumption, LenProperties
      <4>2. Mark(e, m) + 1 = Mark(e, m) + 1 + 0
        BY <1>6, <2>1, <2>7
      <4>3. 0 \in 0 .. Len(t) /\ Pos' = Mark(e, m) + 1 + 0
        BY <2>5, <2>7, <4>1, <4>2
      <4>5. Len(content') <= PayloadMax
        BY <1>1, <2>1, <3>4
      <4>6. fieldCount' = Declared(TrailerUnits(t), 0)
        <5>1. {i \in 1 .. 0 : TrailerUnits(t)[i][2].declared} = {}
          OBVIOUS
        <5>2. QED
          BY <1>8, <5>1, FS_EmptySet DEF Declared
      <4>7. \A x \in 1 .. 0 : Tolerable(TrailerUnits(t), x)
        OBVIOUS
      <4>4. QED
        BY <3>3, <3>4, <4>3, <4>5, <4>6, <4>7 DEF InTrailer
    <3>6. QED
      BY <3>3, <3>5
  <2>8. CASE j # m
    <3>1. PICK i, a, b : i = j + 1 /\ a = e[j] /\ b = e[j + 1]
      OBVIOUS
    <3>2. i \in 1 .. m /\ i - 1 = j
      BY <2>8, <3>1
    <3>3. a \in Nat /\ b \in Nat /\ a < b /\ a = e[i - 1] /\ b = e[i]
      <4>1. e[i - 1] \in Nat /\ e[i] \in 0 .. z /\ e[i - 1] < e[i]
        BY <2>3, <3>2, EndsStep
      <4>2. a = e[i - 1] /\ b = e[i]
        BY <3>1, <3>2
      <4>3. QED
        BY <2>3, <4>1, <4>2
    <3>4. u = SizeLine(b - a)
      <4>1. Mark(e, i - 1) + 1 <= Len(wire) => wire[Mark(e, i - 1) + 1] = SizeLine(e[i] - e[i - 1])
        BY <1>8, <3>2 DEF ChunkedWire
      <4>2. QED
        BY <2>5, <3>2, <3>3, <4>1
    <3>5. u[1] = "size" /\ u[2] = b - a
      BY <3>4 DEF SizeLine
    <3>6. need' = b - a /\ at' = IF b > PayloadMax THEN "PayloadTooLarge" ELSE "chunk"
      <4>1. Len(body) + u[2] = b
        BY <2>1, <3>1, <3>3, <3>5
      <4>2. QED
        BY <2>6, <3>3, <3>5, <4>1
    <3>a. CASE b > PayloadMax
      <4>1. /\ e[i - 1] <= PayloadMax /\ PayloadMax < e[i]
            /\ Mark(e, i - 1) + 1 <= Len(wire)
        BY <2>1, <2>5, <3>2, <3>3, <3>a, PayloadAssumption
      <4>2. TooMuch(m, e)
        BY <3>2, <4>1 DEF TooMuch
      <4>3. QED
        BY <3>6, <3>a, <4>2
    <3>7. Mark(e, j) = a + 2 * j /\ Mark(e, i) = b + 2 * i
      BY <3>1, <3>3 DEF Mark
    <3>8. Pos' = Mark(e, i) - 1 - need'
      <4>1. a + 2 * j + 1 = b + 2 * i - 1 - (b - a)
        BY SMTT(60), <3>1, <3>3
      <4>2. QED
        <5>1. Pos' = a + 2 * j + 1
          BY <2>5, <3>7
        <5>2. Mark(e, i) - 1 - need' = b + 2 * i - 1 - (b - a)
          BY SMTT(60), <3>2, <3>3, <3>6, <3>7
        <5>3. QED
          BY <4>1, <5>1, <5>2
    <3>9. Len(body') = e[i] - need'
      BY <1>1, <2>1, <3>1, <3>3, <3>6
    <3>10. need' \in 1 .. e[i] - e[i - 1]
      BY <3>3, <3>6
    <3>b. CASE ~ (b > PayloadMax)
      <4>1. e[i] <= PayloadMax
        BY <3>3, <3>b, PayloadAssumption
      <4>2. InChunk(m, e)'
        BY <3>2, <3>8, <3>9, <3>10, <4>1 DEF InChunk
      <4>3. QED
        BY <3>6, <3>b, <4>2
    <3>11. QED
      BY <3>a, <3>b
  <2>9. QED
    BY <2>7, <2>8
<1>12. QED
  BY <1>6, <1>c, <1>10, <1>11

LEMMA ChunkEndStep ==
  ASSUME StreamInv, ReadChunkEnd
  PROVE  StreamInv'
<1>1. at = "crlf" /\ UNCHANGED <<content, framing, wire, torn, fieldCount, body>>
  BY DEF ReadChunkEnd, GetLine
<1>2. /\ content \in Bodies /\ Buffered /\ Given /\ TornIs
      /\ framing = Chunked /\ SomeChunks
  BY <1>1, InChunks
<1>3. PICK t \in Trailers, m \in 0 .. Len(content) :
        \E e \in Ends(m, Len(content)) : ChunkedPlace(m, e, t)
  BY <1>2 DEF SomeChunks
<1>4. PICK e \in Ends(m, Len(content)) : ChunkedPlace(m, e, t)
  BY <1>3
<1>5. PICK r \in Reads(1) :
        /\ Take(r)
        /\ at' = IF LineOf(r) = <<>> THEN "Error"
                 ELSE IF LineOf(r)[1] = Crlf THEN "size" ELSE "Error"
  BY DEF ReadChunkEnd, GetLine
<1>6. /\ Buffered' /\ r.ret \in Int /\ Pos \in Nat /\ Len(wire) \in Nat
      /\ r.ret > 0 => r.got[1] = wire[Pos + 1] /\ Pos + 1 <= Len(wire) /\ Pos' = Pos + 1
      /\ r.ret <= 0 => Pos = Len(wire)
  BY <1>1, <1>2, <1>5, NextUnit
<1>7. Given'
  BY <1>1, <1>2 DEF Given
<1>8. ChunkedWire(m, e, t) /\ EndOfChunk(m, e) /\ fieldCount = 0 /\ fieldCount' = 0
  BY <1>1, <1>4 DEF ChunkedPlace
<1>9. SUFFICES \/ at' = "size" /\ AfterChunks(m, e)'
               \/ at' = "Error" /\ (BrokenOff(m, e, t) \/ torn # <<>>)
  BY <1>1, <1>2, <1>6, <1>7, <1>8, ChunksGoOn
<1>a. PICK j \in 1 .. m : Pos = Mark(e, j) - 1 /\ Len(body) = e[j] /\ e[j] <= PayloadMax
  BY <1>8 DEF EndOfChunk
<1>b. PICK z : z = Len(content)
  OBVIOUS
<1>c. z \in Nat /\ m \in Nat /\ e \in Ends(m, z)
  BY <1>2, <1>b, ContentIs
<1>d. e[j - 1] \in Nat /\ e[j] \in 0 .. z /\ e[j - 1] < e[j]
  BY <1>c, EndsStep
<1>e. Mark(e, j - 1) = e[j - 1] + 2 * (j - 1) /\ Mark(e, j) = e[j] + 2 * j
  BY DEF Mark
<1>f. Mark(e, j) \in Int /\ Mark(e, j - 1) \in Int
  BY <1>c, <1>d, <1>e
<1>g. CASE r.ret <= 0 /\ torn # <<>>
  <2>1. LineOf(r) = torn /\ torn[1] # Crlf
    BY <1>2, <1>6, <1>g, TornLine DEF LineOf
  <2>2. QED
    BY <1>5, <1>g, <2>1
<1>10. CASE r.ret > 0
  <2>a. LineOf(r) = r.got /\ r.got # <<>>
    BY <1>2, <1>10, NextLine DEF LineOf
  <2>1. Pos + 1 = Mark(e, j)
    BY <1>6, <1>a, <1>f
  <2>2. wire[Mark(e, j)] = Crlf
    BY <1>6, <1>8, <1>10, <2>1 DEF ChunkedWire
  <2>3. at' = "size"
    BY <1>5, <1>6, <1>10, <2>a, <2>1, <2>2
  <2>4. Pos' = Mark(e, j) /\ Len(body') = e[j] /\ j \in 0 .. m
    BY <1>1, <1>6, <1>10, <1>a, <1>c, <2>1
  <2>5. QED
    BY <1>a, <2>3, <2>4 DEF AfterChunks
<1>11. CASE r.ret <= 0 /\ torn = <<>>
  <2>a. LineOf(r) = <<>>
    BY <1>6, <1>11 DEF LineOf
  <2>1. PICK i : i = j - 1
    OBVIOUS
  <2>2. i \in 0 .. m /\ i < m /\ i + 1 = j
    BY <1>c, <2>1
  <2>3. Len(wire) = Mark(e, j) - 1
    BY <1>6, <1>11, <1>a
  <2>4. Mark(e, i) <= Len(wire) /\ Len(wire) < Mark(e, i + 1)
    <3>1. PICK x, y : x = e[j - 1] /\ y = e[j]
      OBVIOUS
    <3>2. Mark(e, i) = x + 2 * (j - 1) /\ Mark(e, i + 1) = y + 2 * j
      BY <1>e, <2>1, <2>2, <3>1
    <3>3. x \in Nat /\ y \in Nat /\ x < y /\ Len(wire) = y + 2 * j - 1
      BY <1>c, <1>d, <1>e, <2>3, <3>1
    <3>4. QED
      BY <1>c, <3>2, <3>3
  <2>5. e[i] <= PayloadMax /\ e[i + 1] <= PayloadMax
    BY <1>a, <1>c, <1>d, <2>1, <2>2, PayloadAssumption
  <2>6. BrokenOff(m, e, t)
    BY <2>2, <2>4, <2>5 DEF BrokenOff, EndsAt
  <2>7. QED
    BY <1>5, <2>a, <2>6
<1>12. QED
  BY <1>6, <1>g, <1>10, <1>11

(* The count of the trailer fields that were declared, line by line.       *)
LEMMA DeclaredStep ==
  ASSUME NEW v, NEW x \in Nat \ {0}
  PROVE  /\ Declared(v, x - 1) \in Nat
         /\ v[x][2].declared => Declared(v, x) = Declared(v, x - 1) + 1
         /\ ~v[x][2].declared => Declared(v, x) = Declared(v, x - 1)
<1>1. PICK A, B : /\ A = {i \in 1 .. x : v[i][2].declared}
                  /\ B = {i \in 1 .. x - 1 : v[i][2].declared}
  OBVIOUS
<1>2. x - 1 \in Nat /\ x \notin B /\ B \subseteq 1 .. x - 1
  BY <1>1
<1>3. IsFiniteSet(B) /\ Cardinality(B) \in Nat
  <2>1. IsFiniteSet(1 .. x - 1)
    BY <1>2, FS_Interval
  <2>2. QED
    BY <1>2, <2>1, FS_Subset, FS_CardinalityType
<1>4. ASSUME v[x][2].declared PROVE Cardinality(A) = Cardinality(B) + 1
  <2>1. A = B \cup {x}
    BY <1>1, <1>4
  <2>2. QED
    BY <1>2, <1>3, <2>1, FS_AddElement
<1>5. ASSUME ~v[x][2].declared PROVE A = B
  BY <1>1, <1>5
<1>6. Declared(v, x - 1) = Cardinality(B) /\ Declared(v, x) = Cardinality(A)
  BY <1>1 DEF Declared
<1>7. QED
  BY <1>3, <1>4, <1>5, <1>6

LEMMA TrailerUnit ==
  ASSUME NEW t \in Trailers, NEW x \in 1 .. Len(t)
  PROVE  /\ TrailerUnits(t)[x] = Field(t[x]) /\ Field(t[x])[2] = t[x]
         /\ Field(t[x]) # Crlf /\ t[x].size \in Nat
         /\ OverLong(Field(t[x])) <=> t[x].size > LineMax
<1>1. t \in Seq(Range(t))
  BY SequencesAssumption
<1>2. t[x] \in Range(t)
  BY <1>1, ElementOfSeq
<1>3. t[x] \in [size : Nat, declared : BOOLEAN]
  BY <1>2, SequencesAssumption
<1>4. t[x].size \in Nat
  BY <1>3
<1>5. PICK f : f = t[x]
  OBVIOUS
<1>6. Field(f)[1] = "field" /\ Field(f)[2] = f /\ Crlf[1] = "crlf"
  BY DEF Field, Crlf
<1>7. Field(f) # Crlf
  BY <1>6
<1>8. OverLong(Field(f)) <=> f.size > LineMax
  BY <1>6 DEF OverLong
<1>9. TrailerUnits(t)[x] = Field(f)
  BY <1>5 DEF TrailerUnits
<1>10. QED
  BY <1>4, <1>5, <1>6, <1>7, <1>8, <1>9

(* A tolerable line is one that getline reads.                             *)
LEMMA TolerableRead ==
  ASSUME NEW t \in Trailers, NEW x \in 1 .. Len(t), Tolerable(TrailerUnits(t), x)
  PROVE  ~OverLong(Field(t[x]))
<1>1. PICK s : s = t[x].size
  OBVIOUS
<1>2. s \in Nat /\ (OverLong(Field(t[x])) <=> s > LineMax)
  BY <1>1, TrailerUnit
<1>3. s <= FieldMax
  BY <1>1, TrailerUnit DEF Tolerable
<1>4. QED
  BY <1>2, <1>3, LinesAssumption

(* A line that the trailer section's reader gets.                          *)
GivenLine(line) == line # <<>> /\ ~OverLong(line[1])

LEMMA TrailerStep ==
  ASSUME StreamInv, ReadTrailer
  PROVE  StreamInv'
<1>1. /\ at \in {"trailer", "fields"}
      /\ UNCHANGED <<content, framing, wire, torn, body>>
  BY DEF ReadTrailer
<1>2. /\ content \in Bodies /\ Buffered /\ Given /\ TornIs
      /\ framing = Chunked /\ SomeChunks
  BY <1>1, InChunks
<1>3. PICK t \in Trailers, m \in 0 .. Len(content) :
        \E e \in Ends(m, Len(content)) : ChunkedPlace(m, e, t)
  BY <1>2 DEF SomeChunks
<1>4. PICK e \in Ends(m, Len(content)) : ChunkedPlace(m, e, t)
  BY <1>3
<1>5. PICK r \in Reads(1) :
        /\ GivenLine(LineOf(r)) => Take(r)
        /\ ~GivenLine(LineOf(r)) => UNCHANGED <<buf, net>>
        /\ at' = IF ~GivenLine(LineOf(r)) /\ at = "fields" THEN "Error"
                 ELSE IF ~GivenLine(LineOf(r)) \/ LineOf(r)[1] = Crlf THEN "Success"
                 ELSE IF \/ ~(LineOf(r)[1][2].size <= FieldMax)
                         \/ ~(fieldCount < FieldsMax) \/ r.ret <= 0 THEN "Error"
                 ELSE "fields"
        /\ fieldCount' = IF at' = "fields" /\ LineOf(r)[1][2].declared THEN fieldCount + 1
                         ELSE fieldCount
  BY DEF ReadTrailer, GivenLine
<1>6. /\ r.ret \in Int /\ Pos \in Nat /\ Len(wire) \in Nat
      /\ r.ret > 0 => r.got # <<>> /\ r.got[1] = wire[Pos + 1] /\ Pos + 1 <= Len(wire)
      /\ r.ret <= 0 => Pos = Len(wire)
  BY <1>2, NextLine, LenProperties DEF Buffered
<1>7. ASSUME ~GivenLine(LineOf(r)) PROVE Buffered' /\ Pos' = Pos
  BY <1>1, <1>2, <1>5, <1>7 DEF Buffered, Pos, Units
<1>8. ASSUME GivenLine(LineOf(r)), r.ret > 0 PROVE Buffered' /\ Pos' = Pos + 1
  BY <1>1, <1>2, <1>5, <1>8, NextUnit
<1>g. ASSUME GivenLine(LineOf(r)) PROVE Buffered'
  BY <1>1, <1>2, <1>5, <1>g, NextUnit
<1>h. Given'
  BY <1>1, <1>2 DEF Given
<1>i. ChunkedWire(m, e, t) /\ InTrailer(m, e, t)
  BY <1>1, <1>4 DEF ChunkedPlace
<1>9. SUFFICES \/ at' = "fields" /\ InTrailer(m, e, t)'
               \/ at' = "Success" /\ AllRead(m, e, t)'
               \/ at' = "Error" /\ (BrokenOff(m, e, t) \/ BadTrailer(m, e, t) \/ torn # <<>>)
  BY <1>1, <1>2, <1>7, <1>g, <1>h, <1>i, ChunksGoOn
<1>10. Len(body') = Len(content') /\ Len(content') <= PayloadMax
  BY <1>1, <1>i DEF InTrailer
<1>a. PICK q \in 0 .. Len(t) :
        /\ Pos = Mark(e, m) + 1 + q /\ (at = "trailer" <=> q = 0)
        /\ fieldCount = Declared(TrailerUnits(t), q)
        /\ \A x \in 1 .. q : Tolerable(TrailerUnits(t), x)
  BY <1>i DEF InTrailer
<1>b. PICK k, n : k = Mark(e, m) /\ n = Len(t)
  OBVIOUS
<1>c. PICK z : z = Len(content)
  OBVIOUS
<1>d. z \in Nat /\ m \in Nat /\ e \in Ends(m, z)
  BY <1>2, <1>c, ContentIs
<1>e. n \in Nat /\ Len(t) \in Nat
  BY <1>b, SequencesAssumption, LenProperties
<1>f. e[m] = z /\ k \in Nat
  <2>1. e[m] = z
    BY <1>d DEF Ends
  <2>2. k = z + 2 * m
    BY <1>b, <2>1 DEF Mark
  <2>3. QED
    BY <1>d, <2>1, <2>2
<1>j. at = "fields" <=> q # 0
  BY <1>1, <1>a
<1>k. ASSUME q # 0 PROVE Len(t) > 0 /\ ~OverLong(Field(t[1]))
  <2>1. Len(t) > 0 /\ 1 \in 1 .. Len(t) /\ 1 \in 1 .. q
    BY <1>a, <1>e, <1>k
  <2>2. QED
    BY <1>a, <2>1, TolerableRead
<1>l. ASSUME r.ret <= 0, ~GivenLine(LineOf(r)), q = 0
      PROVE  at' = "Success" /\ AllRead(m, e, t)'
  <2>1. at' = "Success"
    BY <1>5, <1>j, <1>l
  <2>2. Pos' = Mark(e, m) + 1 /\ Pos' = Len(wire')
    BY <1>1, <1>6, <1>7, <1>a, <1>b, <1>f, <1>l
  <2>3. QED
    BY <1>10, <2>1, <2>2 DEF AllRead
<1>11. CASE r.ret <= 0 /\ torn = <<>>
  <2>1. LineOf(r) = <<>>
    BY <1>6, <1>11 DEF LineOf
  <2>2. ~GivenLine(LineOf(r))
    BY <2>1 DEF GivenLine
  <2>3. CASE q # 0
    <3>1. at' = "Error"
      BY <1>5, <1>j, <2>2, <2>3
    <3>2. /\ Mark(e, m) + 1 < Len(wire) /\ Len(wire) < Mark(e, m) + Len(t) + 2
          /\ Mark(e, m) <= Len(wire)
      <4>1. Len(wire) = k + 1 + q /\ q \in 0 .. n
        BY <1>6, <1>11, <1>a, <1>b
      <4>2. k + 1 < k + 1 + q /\ k + 1 + q < k + n + 2 /\ k <= k + 1 + q
        BY <1>e, <1>f, <2>3, <4>1
      <4>3. QED
        BY <1>b, <4>1, <4>2
    <3>3. e[m] <= PayloadMax /\ m \in 0 .. m
      BY <1>1, <1>10, <1>c, <1>d, <1>f
    <3>4. BrokenOff(m, e, t)
      BY <1>k, <2>3, <3>2, <3>3 DEF BrokenOff, EndsAt
    <3>5. QED
      BY <3>1, <3>4
  <2>4. QED
    BY <1>11, <1>l, <2>2, <2>3
<1>12. CASE r.ret <= 0 /\ torn # <<>>
  <2>1. LineOf(r) = torn /\ torn[1] # Crlf
    BY <1>2, <1>6, <1>12, TornLine DEF LineOf
  <2>2. CASE ~GivenLine(LineOf(r)) /\ q = 0
    BY <1>12, <1>l, <2>2
  <2>3. CASE ~GivenLine(LineOf(r)) /\ q # 0
    BY <1>5, <1>12, <1>j, <2>3
  <2>4. CASE GivenLine(LineOf(r))
    BY <1>5, <1>12, <2>1, <2>4
  <2>5. QED
    BY <2>2, <2>3, <2>4
<1>13. CASE r.ret > 0
  <2>1. PICK u : u = r.got[1]
    OBVIOUS
  <2>2. /\ LineOf(r) = r.got /\ LineOf(r)[1] = u
        /\ u = wire[k + 1 + q + 1] /\ k + 1 + q + 1 <= Len(wire)
        /\ GivenLine(LineOf(r)) <=> ~OverLong(u)
    <3>1. LineOf(r) = r.got
      BY <1>13 DEF LineOf
    <3>2. Pos = k + 1 + q
      BY <1>a, <1>b
    <3>3. u = wire[k + 1 + q + 1] /\ k + 1 + q + 1 <= Len(wire) /\ r.got # <<>>
      BY <1>6, <1>13, <2>1, <3>2
    <3>4. GivenLine(r.got) <=> ~OverLong(u)
      BY <2>1, <3>3 DEF GivenLine
    <3>5. QED
      BY <2>1, <3>1, <3>3, <3>4
  <2>3. CASE q = n
    <3>1. k + 1 + q + 1 = k + n + 2
      BY <1>e, <1>f, <2>3
    <3>2. u = Crlf
      BY <1>b, <1>i, <2>2, <3>1 DEF ChunkedWire
    <3>3. ~OverLong(u)
      BY <3>2 DEF OverLong, Crlf
    <3>4. at' = "Success"
      BY <1>5, <2>2, <3>2, <3>3
    <3>5. Pos' = k + 1 + q + 1
      BY <1>8, <1>13, <1>a, <1>b, <2>2, <3>3
    <3>6. Pos' = Mark(e, m) + Len(t) + 2
      BY <1>b, <3>1, <3>5
    <3>7. \A x \in 1 .. Len(t) : Tolerable(TrailerUnits(t), x)
      BY <1>a, <1>b, <2>3
    <3>8. QED
      BY <1>10, <3>4, <3>6, <3>7 DEF AllRead
  <2>4. CASE q # n
    <3>1. PICK x : x = q + 1
      OBVIOUS
    <3>2. /\ x \in 1 .. n /\ x \in 0 .. n /\ k + 1 + q + 1 = k + 1 + x
          /\ x \in Nat \ {0} /\ x - 1 = q
      BY <1>a, <1>b, <1>e, <1>f, <2>4, <3>1
    <3>3. u = Field(t[x]) /\ x \in 1 .. Len(t)
      BY <1>b, <1>i, <2>2, <3>2 DEF ChunkedWire
    <3>4. /\ TrailerUnits(t)[x] = u /\ u[2] = t[x] /\ u # Crlf /\ t[x].size \in Nat
          /\ OverLong(u) <=> t[x].size > LineMax
      BY <3>3, TrailerUnit
    <3>5. Mark(e, m) + 1 + x <= Len(wire)
      BY <1>b, <2>2, <3>2
    <3>6. Tolerable(TrailerUnits(t), x) <=> u[2].size <= FieldMax /\ fieldCount < FieldsMax
      BY <1>a, <3>2, <3>4 DEF Tolerable
    <3>7. ASSUME ~Tolerable(TrailerUnits(t), x), ~OverLong(Field(t[1]))
          PROVE  BadTrailer(m, e, t)
      <4>1. Len(t) > 0
        BY <1>e, <3>3
      <4>2. QED
        BY <1>1, <1>10, <3>3, <3>5, <3>7, <4>1 DEF BadTrailer
    <3>8. CASE OverLong(u) /\ q = 0
      <4>1. at' = "Success" /\ Pos' = Pos
        BY <1>5, <1>7, <1>j, <2>2, <3>8
      <4>2. x = 1 /\ Len(t) > 0 /\ Mark(e, m) + 2 <= Len(wire) /\ Pos = Mark(e, m) + 1
        BY <1>a, <1>b, <1>e, <1>f, <3>1, <3>2, <3>5, <3>8
      <4>3. LongFirst(m, e, t)'
        BY <1>1, <3>3, <3>8, <4>2 DEF LongFirst
      <4>4. QED
        BY <1>10, <4>1, <4>2, <4>3 DEF AllRead
    <3>9. CASE OverLong(u) /\ q # 0
      <4>1. at' = "Error"
        BY <1>5, <1>j, <2>2, <3>9
      <4>2. ~Tolerable(TrailerUnits(t), x)
        BY <3>3, <3>9, TolerableRead
      <4>3. QED
        BY <1>k, <3>7, <3>9, <4>1, <4>2
    <3>10. ASSUME ~OverLong(u) PROVE ~OverLong(Field(t[1])) /\ GivenLine(LineOf(r))
      <4>1. q = 0 => x = 1
        BY <3>1
      <4>2. QED
        BY <1>k, <2>2, <3>3, <3>10, <4>1
    <3>11. CASE ~OverLong(u) /\ ~Tolerable(TrailerUnits(t), x)
      <4>1. at' = "Error"
        BY <1>5, <2>2, <3>4, <3>6, <3>10, <3>11
      <4>2. QED
        BY <3>7, <3>10, <3>11, <4>1
    <3>12. CASE ~OverLong(u) /\ Tolerable(TrailerUnits(t), x)
      <4>1. u[2].size <= FieldMax /\ fieldCount < FieldsMax /\ GivenLine(LineOf(r))
        BY <3>6, <3>10, <3>12
      <4>2. /\ at' = "fields"
            /\ fieldCount' = IF u[2].declared THEN fieldCount + 1 ELSE fieldCount
        BY <1>5, <1>13, <1>6, <2>2, <3>4, <4>1
      <4>3. Pos' = Mark(e, m) + 1 + x
        BY <1>8, <1>13, <1>a, <1>b, <3>2, <4>1
      <4>4. fieldCount' = Declared(TrailerUnits(t), x)
        <5>1. /\ u[2].declared => Declared(TrailerUnits(t), x) = fieldCount + 1
              /\ ~u[2].declared => Declared(TrailerUnits(t), x) = fieldCount
          BY <1>a, <3>2, <3>4, DeclaredStep
        <5>2. QED
          BY <4>2, <5>1
      <4>5. \A y \in 1 .. x : Tolerable(TrailerUnits(t), y)
        BY <1>a, <3>1, <3>2, <3>12
      <4>6. at' # "trailer" /\ x # 0 /\ x \in 0 .. Len(t)
        BY <1>b, <3>2, <4>2
      <4>7. QED
        BY <1>10, <4>2, <4>3, <4>4, <4>5, <4>6 DEF InTrailer
    <3>13. QED
      BY <3>8, <3>9, <3>11, <3>12
  <2>5. QED
    BY <2>3, <2>4
<1>14. QED
  BY <1>6, <1>11, <1>12, <1>13

(* A piece of the data read is appended where it belongs.                  *)
LEMMA GivenGrows ==
  ASSUME content \in Bodies, Given, content' = content,
         NEW U, NEW got \in Seq(U), NEW p \in Nat, NEW q \in Nat,
         Len(body) = p, Len(got) = q, p + q <= Len(content),
         \A i \in 1 .. q : got[i] = Byte(content[p + i]),
         body' = body \o Values(got)
  PROVE  Given' /\ Len(body') = p + q
<1>1. PICK S, c, n : S = Range(content) /\ c = content /\ n = Len(content)
  OBVIOUS
<1>2. c \in Seq(S) /\ n \in Nat /\ n = Len(c)
  BY <1>1, ContentIs
<1>3. PICK v : v = Values(got)
  OBVIOUS
<1>4. v = [i \in 1 .. q |-> got[i][2]]
  BY <1>3, LenProperties DEF Values
<1>5. ASSUME NEW i \in 1 .. q PROVE v[i] = c[p + i] /\ c[p + i] \in S
  <2>1. got[i] = Byte(c[p + i])
    BY <1>1
  <2>2. got[i][2] = c[p + i]
    BY <2>1 DEF Byte
  <2>3. p + i \in 1 .. Len(c)
    BY <1>1, <1>2
  <2>4. c[p + i] \in S
    BY <1>2, <2>3, ElementOfSeq
  <2>5. QED
    BY <1>4, <2>2, <2>4
<1>6. v \in Seq(S) /\ Len(v) = q
  BY <1>4, <1>5
<1>7. PICK b, w : b = body /\ w = body'
  OBVIOUS
<1>8. b \in Seq(S) /\ Len(b) = p /\ \A i \in 1 .. p : b[i] = c[i]
  BY <1>1, <1>7 DEF Given
<1>9. /\ w \in Seq(S) /\ Len(w) = p + q
      /\ \A i \in 1 .. p : w[i] = b[i]
      /\ \A i \in 1 .. q : w[p + i] = v[i]
  <2>1. /\ b \o v \in Seq(S) /\ Len(b \o v) = Len(b) + Len(v)
        /\ \A i \in 1 .. Len(b) : (b \o v)[i] = b[i]
        /\ \A i \in 1 .. Len(v) : (b \o v)[Len(b) + i] = v[i]
    <3>1. b \in Seq(S) /\ v \in Seq(S)
      BY <1>6, <1>8
    <3>2. QED
      BY <3>1, ConcatAt
  <2>2. w = b \o v
    BY <1>3, <1>7
  <2>3. QED
    BY <1>6, <1>8, <2>1, <2>2
<1>10. ASSUME NEW i \in 1 .. p + q PROVE w[i] = c[i]
  <2>1. CASE i <= p
    <3>1. i \in 1 .. p
      BY <2>1
    <3>2. QED
      BY <1>8, <1>9, <3>1
  <2>2. CASE ~ (i <= p)
    <3>1. PICK x : x = i - p
      OBVIOUS
    <3>2. x \in 1 .. q /\ i = p + x
      BY <2>2, <3>1
    <3>3. QED
      BY <1>5, <1>9, <3>2
  <2>3. QED
    BY <2>1, <2>2
<1>11. /\ body' \in Seq(Range(content')) /\ Len(body') <= Len(content')
       /\ \A i \in 1 .. Len(body') : body'[i] = content'[i]
  BY <1>1, <1>7, <1>9, <1>10
<1>12. QED
  BY <1>7, <1>9, <1>11 DEF Given

(* A read of the data takes at most what is needed.                        *)
LEMMA DataRead ==
  ASSUME Buffered, UNCHANGED wire, need \in Nat \ {0},
         NEW r \in Reads(Least(need, RecvBuf)), Take(r)
  PROVE  /\ Buffered' /\ r.ret \in Int /\ r.got \in Seq(Units)
         /\ Pos \in Nat /\ Len(wire) \in Nat
         /\ r.ret <= 0 => r.got = <<>> /\ Pos = Len(wire)
         /\ r.ret > 0 => /\ r.ret <= need /\ Len(r.got) = r.ret
                         /\ Pos + r.ret <= Len(wire) /\ Pos' = Pos + r.ret
                         /\ \A i \in 1 .. r.ret : r.got[i] = wire[Pos + i]
<1>1. PICK n : n = Least(need, RecvBuf)
  OBVIOUS
<1>2. n \in Nat \ {0} /\ n <= need
  BY <1>1, BufferAssumption DEF Least
<1>3. Delivered(r, n) /\ Buffered'
  BY <1>1, <1>2, ReadDelivers
<1>4. Pos \in Nat /\ Len(wire) \in Nat
  BY LenProperties DEF Buffered
<1>5. r.ret > 0 => r.ret <= need
  BY <1>2, <1>3 DEF Delivered
<1>6. QED
  BY <1>3, <1>4, <1>5 DEF Delivered

LEMMA ChunkStep ==
  ASSUME StreamInv, at = "chunk", ReadCounted
  PROVE  StreamInv'
<1>1. UNCHANGED <<content, framing, wire, torn, fieldCount>>
  BY DEF ReadCounted
<1>2. /\ content \in Bodies /\ Buffered /\ Given /\ TornIs
      /\ framing = Chunked /\ SomeChunks
  BY <1>1, InChunks
<1>3. PICK t \in Trailers, m \in 0 .. Len(content) :
        \E e \in Ends(m, Len(content)) : ChunkedPlace(m, e, t)
  BY <1>2 DEF SomeChunks
<1>4. PICK e \in Ends(m, Len(content)) : ChunkedPlace(m, e, t)
  BY <1>3
<1>5. PICK r \in Reads(Least(need, RecvBuf)) :
        /\ Take(r)
        /\ body' = body \o Values(r.got)
        /\ need' = need - Len(r.got)
        /\ at' = IF r.ret <= 0 THEN "Error" ELSE IF need' > 0 THEN "chunk" ELSE "crlf"
  BY DEF ReadCounted
<1>6. ChunkedWire(m, e, t) /\ (InChunk(m, e) \/ TornChunk) /\ fieldCount' = 0
  BY <1>1, <1>4 DEF ChunkedPlace
<1>7. CASE TornChunk
  <2>1. need \in Nat \ {0} /\ Pos = Len(wire) /\ torn # <<>>
    BY <1>7 DEF TornChunk
  <2>2. /\ Buffered' /\ r.ret \in Int /\ Pos \in Nat /\ Len(wire) \in Nat
        /\ r.ret <= 0 => r.got = <<>>
        /\ r.ret > 0 => Pos + r.ret <= Len(wire)
    BY <1>1, <1>2, <1>5, <2>1, DataRead
  <2>3. r.ret <= 0
    BY <2>1, <2>2
  <2>4. at' = "Error" /\ body' = body \o Values(<<>>)
    BY <1>5, <2>2, <2>3
  <2>5. Given'
    <3>1. PICK p : p = Len(body)
      OBVIOUS
    <3>2. p \in Nat /\ p + 0 <= Len(content) /\ Len(content) \in Nat
      BY <1>2, <3>1, ContentIs, LenProperties DEF Given
    <3>3. <<>> \in Seq(Units) /\ Len(<<>>) = 0 /\ 0 \in Nat
      BY EmptySeq
    <3>4. \A i \in 1 .. 0 : <<>>[i] = Byte(content[p + i])
      OBVIOUS
    <3>5. PICK U, got, q : U = Units /\ got = <<>> /\ q = 0
      OBVIOUS
    <3>6. /\ got \in Seq(U) /\ p \in Nat /\ q \in Nat /\ Len(got) = q /\ Len(body) = p
          /\ p + q <= Len(content) /\ \A i \in 1 .. q : got[i] = Byte(content[p + i])
          /\ body' = body \o Values(got)
      BY <2>4, <3>1, <3>2, <3>3, <3>4, <3>5
    <3>7. QED
      BY <1>1, <1>2, <3>6, GivenGrows
  <2>6. QED
    BY <1>1, <1>2, <1>6, <2>1, <2>2, <2>4, <2>5, ChunksGoOn
<1>8. CASE InChunk(m, e)
  <2>7. PICK j \in 1 .. m : /\ need \in 1 .. e[j] - e[j - 1] /\ e[j] <= PayloadMax
                            /\ Pos = Mark(e, j) - 1 - need /\ Len(body) = e[j] - need
    BY <1>8 DEF InChunk
  <2>8. PICK a, b, d, p : a = e[j - 1] /\ b = e[j] /\ d = need /\ p = Len(body)
    OBVIOUS
  <2>9. PICK z : z = Len(content)
    OBVIOUS
  <2>10. z \in Nat /\ m \in Nat /\ e \in Ends(m, z)
    BY <1>2, <2>9, ContentIs
  <2>11. a \in Nat /\ b \in 0 .. z /\ a < b
    BY <2>8, <2>10, EndsStep
  <2>12. d \in 1 .. b - a /\ p = b - d /\ p \in Nat
    BY <2>7, <2>8, <2>10, <2>11
  <2>13. Mark(e, j - 1) = a + 2 * (j - 1) /\ Mark(e, j) = b + 2 * j
    BY <2>8 DEF Mark
  <2>14. need \in Nat \ {0}
    BY <2>8, <2>12
  <2>15. /\ Buffered' /\ r.ret \in Int /\ r.got \in Seq(Units)
         /\ r.ret <= 0 => r.got = <<>>
         /\ r.ret > 0 => /\ r.ret <= need /\ Len(r.got) = r.ret
                         /\ Pos + r.ret <= Len(wire) /\ Pos' = Pos + r.ret
                         /\ \A i \in 1 .. r.ret : r.got[i] = wire[Pos + i]
         /\ Pos \in Nat /\ Len(wire) \in Nat
         /\ r.ret <= 0 => Pos = Len(wire)
    BY <1>1, <1>2, <1>5, <2>14, DataRead
  <2>16. PICK q : q = Len(r.got)
    OBVIOUS
  <2>17. q \in Nat /\ q <= d /\ (r.ret > 0 => q = r.ret)
    <3>1. CASE r.ret <= 0
      BY <2>12, <2>15, <2>16, <3>1
    <3>2. CASE r.ret > 0
      BY <2>8, <2>15, <2>16, <3>2
    <3>3. QED
      BY <2>15, <3>1, <3>2
  <2>18. ASSUME NEW i \in 1 .. q PROVE r.got[i] = Byte(content[p + i])
    <3>1. r.ret > 0 /\ q = r.ret
      BY <2>15, <2>16, <2>17
    <3>2. r.got[i] = wire[Pos + i] /\ Pos + i <= Len(wire)
      BY <2>15, <3>1
    <3>3. PICK x : x = b - a - d + i
      OBVIOUS
    <3>4. x \in 1 .. b - a /\ a + x = p + i
      BY <2>11, <2>12, <2>17, <3>3
    <3>5. Pos + i = Mark(e, j - 1) + 1 + x
      <4>1. b + 2 * j - 1 - d + i = a + 2 * (j - 1) + 1 + (b - a - d + i)
        BY <2>11, <2>12
      <4>2. QED
        <5>1. Pos = b + 2 * j - 1 - d
          BY SMTT(60), <2>7, <2>8, <2>11, <2>12, <2>13
        <5>2. QED
          BY <2>13, <3>3, <4>1, <5>1
    <3>6. wire[Mark(e, j - 1) + 1 + x] = Byte(content[e[j - 1] + x])
      <4>1. \A y \in 1 .. e[j] - e[j - 1] : Mark(e, j - 1) + 1 + y <= Len(wire) =>
               wire[Mark(e, j - 1) + 1 + y] = Byte(content[e[j - 1] + y])
        BY <1>6 DEF ChunkedWire
      <4>2. QED
        BY <2>8, <3>2, <3>4, <3>5, <4>1
    <3>7. QED
      BY <2>8, <3>2, <3>4, <3>5, <3>6
  <2>19. p + q <= Len(content)
    BY <2>9, <2>11, <2>12, <2>17
  <2>20. Given' /\ Len(body') = p + q
    BY <1>1, <1>2, <1>5, <2>8, <2>12, <2>15, <2>16, <2>17, <2>18, <2>19, GivenGrows
  <2>21. SUFFICES \/ at' = "chunk" /\ InChunk(m, e)'
                  \/ at' = "crlf" /\ EndOfChunk(m, e)'
                  \/ at' = "Error" /\ BrokenOff(m, e, t)
    BY <1>1, <1>2, <1>6, <2>15, <2>20, ChunksGoOn
  <2>22. CASE r.ret <= 0
    <3>1. PICK i : i = j - 1
      OBVIOUS
    <3>2. i \in 0 .. m /\ i < m /\ i + 1 = j
      BY <2>10, <3>1
    <3>3. Mark(e, i) <= Len(wire) /\ Len(wire) < Mark(e, i + 1)
      <4>1. Len(wire) = b + 2 * j - 1 - d
        BY SMTT(60), <2>7, <2>8, <2>11, <2>12, <2>13, <2>15, <2>22
      <4>2. Mark(e, i) = a + 2 * (j - 1) /\ Mark(e, i + 1) = b + 2 * j
        BY <2>13, <3>1, <3>2
      <4>3. QED
        BY <2>10, <2>11, <2>12, <4>1, <4>2
    <3>4. e[i] <= PayloadMax /\ e[i + 1] <= PayloadMax
      BY <2>7, <2>8, <2>10, <2>11, <3>1, <3>2, PayloadAssumption
    <3>5. BrokenOff(m, e, t)
      BY <3>2, <3>3, <3>4 DEF BrokenOff, EndsAt
    <3>6. QED
      BY <1>5, <2>22, <3>5
  <2>23. CASE r.ret > 0
    <3>1. need' = d - q /\ Pos' = b + 2 * j - 1 - d + q
      <4>1. need' = d - q /\ Pos' = Pos + q
        BY <1>5, <2>8, <2>15, <2>16, <2>17, <2>23
      <4>2. Pos = b + 2 * j - 1 - d
        BY SMTT(60), <2>7, <2>8, <2>11, <2>12, <2>13
      <4>3. QED
        BY <4>1, <4>2
    <3>2. q > 0
      BY <2>15, <2>17, <2>23
    <3>3. CASE d - q > 0
      <4>1. at' = "chunk"
        BY SMTT(60), <1>5, <2>15, <2>23, <3>1, <3>3
      <4>2. need' \in 1 .. e[j] - e[j - 1]
        <5>1. d - q \in 1 .. b - a
          BY <2>11, <2>12, <2>17, <3>3
        <5>2. QED
          BY <2>8, <3>1, <5>1
      <4>3. Pos' = Mark(e, j) - 1 - need'
        <5>1. b + 2 * j - 1 - d + q = b + 2 * j - 1 - (d - q)
          BY <2>11, <2>12, <2>17
        <5>2. QED
          BY <2>11, <2>12, <2>13, <2>17, <3>1, <5>1
      <4>4. Len(body') = e[j] - need'
        <5>1. b - d + q = b - (d - q)
          BY <2>11, <2>12, <2>17
        <5>2. QED
          BY <2>8, <2>12, <2>20, <3>1, <5>1
      <4>5. QED
        BY <2>7, <4>1, <4>2, <4>3, <4>4 DEF InChunk
    <3>4. CASE ~ (d - q > 0)
      <4>1. d = q
        BY <2>12, <2>17, <3>4
      <4>2. at' = "crlf"
        BY <1>5, <2>15, <2>23, <3>1, <3>4
      <4>3. Pos' = Mark(e, j) - 1
        <5>1. b + 2 * j - 1 - d + q = b + 2 * j - 1
          BY <2>11, <2>12, <2>17, <4>1
        <5>2. QED
          BY <2>11, <2>12, <2>13, <2>17, <3>1, <5>1
      <4>4. Len(body') = e[j]
        BY <2>8, <2>11, <2>12, <2>17, <2>20, <4>1
      <4>5. QED
        BY <2>7, <4>2, <4>3, <4>4 DEF EndOfChunk
    <3>5. QED
      BY <3>3, <3>4
  <2>24. QED
    BY <2>15, <2>22, <2>23
<1>9. QED
  BY <1>6, <1>7, <1>8

LEMMA InCounted ==
  ASSUME StreamInv, at \in {"counted", "skip"}
  PROVE  content \in Bodies /\ Buffered /\ Given /\ TornIs /\ CountedPlace
BY DEF StreamInv, SomeChunks, ChunkedPlace, RestPlace

LEMMA CountedGoesOn ==
  ASSUME content \in Bodies, TornIs, UNCHANGED <<content, framing, wire, torn>>,
         framing = Counted(Len(content)), CountedWire, Buffered', Given',
         \/ /\ at' = "counted" /\ need' \in 1 .. Len(content) /\ Len(content) <= PayloadMax
            /\ Len(body') = Len(content) - need' /\ Pos' = Len(body')
         \/ /\ at' = "skip" /\ need' \in 1 .. Len(content) /\ Len(content) > PayloadMax
         \/ /\ at' = "Success" /\ Len(content) <= PayloadMax
            /\ Len(body') = Len(content) /\ Pos' = Len(content)
         \/ at' = "PayloadTooLarge" /\ Len(content) > PayloadMax
         \/ at' = "Error" /\ Len(content) <= PayloadMax /\ Len(wire) < Len(content)
  PROVE  StreamInv'
<1>1. CountedWire'
  BY DEF CountedWire
<1>2. CountedPlace'
  BY <1>1 DEF CountedPlace
<1>3. TornIs'
  BY DEF TornIs
<1>4. QED
  BY <1>2, <1>3 DEF StreamInv

LEMMA CountedStep ==
  ASSUME StreamInv, at = "counted", ReadCounted
  PROVE  StreamInv'
<1>1. UNCHANGED <<content, framing, wire, torn>>
  BY DEF ReadCounted
<1>2. content \in Bodies /\ Buffered /\ Given /\ TornIs /\ CountedPlace
  BY InCounted
<1>3. PICK r \in Reads(Least(need, RecvBuf)) :
        /\ Take(r)
        /\ body' = body \o Values(r.got)
        /\ need' = need - Len(r.got)
        /\ at' = IF r.ret <= 0 THEN "Error" ELSE IF need' > 0 THEN "counted" ELSE "Success"
  BY DEF ReadCounted
<1>4. PICK n, d, p : n = Len(content) /\ d = need /\ p = Len(body)
  OBVIOUS
<1>5. n \in Nat
  BY <1>2, <1>4, ContentIs
<1>6. /\ d \in 1 .. n /\ p = n - d /\ Pos = p /\ framing = Counted(n) /\ CountedWire
      /\ n <= PayloadMax
  BY <1>2, <1>4 DEF CountedPlace
<1>7. p \in Nat /\ need \in Nat \ {0}
  BY <1>4, <1>5, <1>6
<1>8. /\ Buffered' /\ r.ret \in Int /\ r.got \in Seq(Units)
      /\ r.ret <= 0 => r.got = <<>>
      /\ r.ret > 0 => /\ r.ret <= need /\ Len(r.got) = r.ret
                      /\ Pos + r.ret <= Len(wire) /\ Pos' = Pos + r.ret
                      /\ \A i \in 1 .. r.ret : r.got[i] = wire[Pos + i]
      /\ Len(wire) \in Nat /\ (r.ret <= 0 => Pos = Len(wire))
  BY <1>1, <1>2, <1>3, <1>7, DataRead
<1>9. PICK q : q = Len(r.got)
  OBVIOUS
<1>10. q \in Nat /\ q <= d /\ (r.ret > 0 => q = r.ret)
  <2>1. CASE r.ret <= 0
    BY <1>6, <1>8, <1>9, <2>1
  <2>2. CASE r.ret > 0
    BY <1>4, <1>8, <1>9, <2>2
  <2>3. QED
    BY <1>8, <2>1, <2>2
<1>11. ASSUME NEW i \in 1 .. q PROVE r.got[i] = Byte(content[p + i])
  <2>1. r.ret > 0 /\ q = r.ret
    BY <1>8, <1>9, <1>10
  <2>2. r.got[i] = wire[p + i] /\ p + i <= Len(wire)
    BY <1>6, <1>7, <1>8, <2>1
  <2>3. p + i \in 1 .. n
    BY <1>5, <1>6, <1>10
  <2>4. QED
    BY <1>4, <1>6, <2>2, <2>3 DEF CountedWire
<1>12. p + q <= Len(content)
  BY <1>4, <1>5, <1>6, <1>10
<1>13. Given' /\ Len(body') = p + q
  BY ZenonT(60), <1>1, <1>2, <1>3, <1>4, <1>7, <1>8, <1>9, <1>10, <1>11, <1>12, GivenGrows
<1>14. SUFFICES \/ /\ at' = "counted" /\ need' \in 1 .. n
                   /\ Len(body') = n - need' /\ Pos' = Len(body')
                \/ at' = "Success" /\ Len(body') = n /\ Pos' = n
                \/ at' = "Error" /\ Len(wire) < n
  BY <1>1, <1>2, <1>4, <1>6, <1>8, <1>13, CountedGoesOn
<1>15. CASE r.ret <= 0
  <2>1. Len(wire) < n
    BY <1>5, <1>6, <1>8, <1>15
  <2>2. QED
    BY <1>3, <1>15, <2>1
<1>16. CASE r.ret > 0
  <2>1. need' = d - q
    BY <1>3, <1>4, <1>9
  <2>2. Pos' = p + q /\ q > 0
    BY <1>6, <1>8, <1>10, <1>16
  <2>3. CASE d - q > 0
    <3>1. at' = "counted" /\ need' \in 1 .. n /\ p + q = n - (d - q)
      BY SMTT(60), <1>3, <1>5, <1>6, <1>8, <1>10, <1>16, <2>1, <2>3
    <3>2. QED
      BY <1>13, <2>1, <2>2, <3>1
  <2>4. CASE ~ (d - q > 0)
    <3>1. at' = "Success" /\ p + q = n
      BY <1>3, <1>5, <1>6, <1>8, <1>10, <1>16, <2>1, <2>4
    <3>2. QED
      BY <1>13, <2>2, <3>1
  <2>5. QED
    BY <2>3, <2>4
<1>17. QED
  BY <1>8, <1>15, <1>16

LEMMA SkipStep ==
  ASSUME StreamInv, Skip
  PROVE  StreamInv'
<1>1. at = "skip" /\ UNCHANGED <<content, framing, wire, torn, body>>
  BY DEF Skip
<1>2. content \in Bodies /\ Buffered /\ Given /\ TornIs /\ CountedPlace
  BY <1>1, InCounted
<1>3. PICK r \in Reads(Least(need, RecvBuf)) :
        /\ Take(r)
        /\ need' = need - Len(r.got)
        /\ at' = IF r.ret <= 0 \/ need' = 0 THEN "PayloadTooLarge" ELSE "skip"
  BY <1>1 DEF Skip
<1>4. PICK n, d : n = Len(content) /\ d = need
  OBVIOUS
<1>5. n \in Nat
  BY <1>2, <1>4, ContentIs
<1>6. d \in 1 .. n /\ framing = Counted(n) /\ CountedWire /\ n > PayloadMax
  BY <1>1, <1>2, <1>4 DEF CountedPlace
<1>7. need \in Nat \ {0}
  BY <1>4, <1>5, <1>6
<1>8. /\ Buffered' /\ r.ret \in Int
      /\ r.ret > 0 => r.ret <= need /\ Len(r.got) = r.ret
  BY <1>1, <1>2, <1>3, <1>7, DataRead
<1>9. Given'
  BY <1>1, <1>2 DEF Given
<1>10. SUFFICES \/ at' = "skip" /\ need' \in 1 .. n
                \/ at' = "PayloadTooLarge"
  BY <1>1, <1>2, <1>4, <1>6, <1>8, <1>9, CountedGoesOn
<1>11. CASE r.ret <= 0
  BY <1>3, <1>11
<1>12. CASE r.ret > 0
  <2>1. PICK q : q = r.ret
    OBVIOUS
  <2>2. need' = d - q /\ q \in 1 .. d
    BY <1>3, <1>4, <1>6, <1>8, <1>12, <2>1
  <2>3. d - q = 0 \/ d - q \in 1 .. n
    BY <1>5, <1>6, <2>2
  <2>4. QED
    BY <1>3, <1>12, <2>2, <2>3
<1>13. QED
  BY <1>8, <1>11, <1>12

LEMMA RestStep ==
  ASSUME StreamInv, ReadRest
  PROVE  StreamInv'
<1>1. at = "rest" /\ UNCHANGED <<content, framing, wire, ending, torn, need>>
  BY DEF ReadRest
<1>2. content \in Bodies /\ Buffered /\ Given /\ TornIs /\ TornIs' /\ RestPlace
  BY <1>1 DEF StreamInv, CountedPlace, SomeChunks, ChunkedPlace, TornIs
<1>3. PICK r \in Reads(RecvBuf) :
        /\ Take(r)
        /\ at' = IF r.ret = 0 THEN "Success"
                 ELSE IF r.ret < 0 THEN "Error"
                 ELSE IF Len(body) + r.ret > PayloadMax THEN "PayloadTooLarge"
                 ELSE "rest"
        /\ body' = IF at' = "rest" THEN body \o Values(r.got) ELSE body
  BY <1>1 DEF ReadRest
<1>4. Delivered(r, RecvBuf) /\ Buffered'
  BY <1>1, <1>2, <1>3, ReadDelivers, BufferAssumption
<1>5. PICK p, l, n : p = Len(body) /\ l = Len(wire) /\ n = Len(content)
  OBVIOUS
<1>6. l \in Nat /\ n \in Nat /\ p \in Nat
  BY <1>2, <1>5, ContentIs, LenProperties DEF Buffered, Given
<1>7. /\ Pos = p /\ p <= PayloadMax /\ l <= n /\ framing = ToTheEnd
      /\ \A i \in 1 .. l : wire[i] = Byte(content[i])
  BY <1>1, <1>2, <1>5 DEF RestPlace
<1>8. CASE r.ret <= 0
  <2>1. r.ret = SelectRead /\ Pos = l
    BY <1>4, <1>5, <1>8 DEF Delivered
  <2>2. Len(body) = Len(wire) /\ Len(wire) <= PayloadMax /\ body' = body
    BY <1>3, <1>5, <1>7, <1>8, <2>1, <1>4 DEF Delivered
  <2>3. \/ at' = "Success" /\ ending' = "closed"
        \/ at' = "Error" /\ ending' # "closed"
    BY <1>1, <1>3, <1>8, <2>1 DEF SelectRead
  <2>4. Given' /\ RestPlace'
    BY <1>1, <1>2, <1>7, <2>2, <2>3 DEF Given, RestPlace
  <2>5. QED
    BY <1>1, <1>2, <1>4, <2>4 DEF StreamInv
<1>9. CASE r.ret > 0
  <2>1. PICK q : q = r.ret
    OBVIOUS
  <2>2. /\ q \in Nat \ {0} /\ Len(r.got) = q /\ r.got \in Seq(Units)
        /\ p + q <= l /\ Pos' = p + q
        /\ \A i \in 1 .. q : r.got[i] = wire[p + i]
    BY <1>4, <1>5, <1>7, <1>9, <2>1 DEF Delivered
  <2>3. CASE p + q > PayloadMax
    <3>1. at' = "PayloadTooLarge" /\ body' = body
      BY <1>3, <1>5, <1>9, <2>1, <2>2, <2>3
    <3>2. Len(wire) > PayloadMax
      BY <1>5, <1>6, <2>2, <2>3, PayloadAssumption
    <3>3. Given' /\ RestPlace'
      BY <1>1, <1>2, <1>7, <3>1, <3>2 DEF Given, RestPlace
    <3>4. QED
      BY <1>1, <1>2, <1>4, <3>3 DEF StreamInv
  <2>4. CASE ~ (p + q > PayloadMax)
    <3>1. at' = "rest" /\ body' = body \o Values(r.got)
      BY <1>3, <1>5, <1>9, <2>1, <2>2, <2>4
    <3>2. ASSUME NEW i \in 1 .. q PROVE r.got[i] = Byte(content[p + i])
      <4>1. p + i \in 1 .. l
        BY <1>6, <2>2
      <4>2. QED
        BY <1>7, <2>2, <4>1
    <3>3. p + q <= Len(content)
      BY <1>5, <1>6, <1>7, <2>2
    <3>4. Given' /\ Len(body') = p + q
      BY <1>1, <1>2, <1>5, <1>6, <2>2, <3>1, <3>2, <3>3, GivenGrows
    <3>5. p + q <= PayloadMax
      BY <1>6, <2>2, <2>4, PayloadAssumption
    <3>6. RestPlace'
      BY <1>1, <1>5, <1>7, <2>2, <3>1, <3>4, <3>5 DEF RestPlace
    <3>7. QED
      BY <1>1, <1>2, <1>4, <3>4, <3>6 DEF StreamInv
  <2>5. QED
    BY <2>3, <2>4
<1>10. QED
  BY <1>4, <1>8, <1>9 DEF Delivered

LEMMA StreamSteps == StreamInv /\ [StreamNext]_streamVars => StreamInv'
<1>1. SUFFICES ASSUME StreamInv, [StreamNext]_streamVars PROVE StreamInv'
  OBVIOUS
<1>2. CASE UNCHANGED streamVars
  <2>1. UNCHANGED <<content, framing, wire, net, ending, torn, buf, at, need, fieldCount, body>>
    BY <1>2 DEF streamVars
  <2>2. content' \in Bodies /\ Buffered' /\ Given' /\ TornIs'
    BY <1>1, <2>1 DEF StreamInv, Buffered, Units, Pos, Given, TornIs
  <2>3. CASE CountedPlace
    BY <2>1, <2>2, <2>3 DEF StreamInv, CountedPlace, CountedWire, Pos
  <2>4. CASE RestPlace
    BY <2>1, <2>2, <2>4 DEF StreamInv, RestPlace, Pos
  <2>5. CASE framing = Chunked /\ SomeChunks
    <3>1. PICK t \in Trailers, m \in 0 .. Len(content) :
            \E e \in Ends(m, Len(content)) : ChunkedPlace(m, e, t)
      BY <2>5 DEF SomeChunks
    <3>2. PICK e \in Ends(m, Len(content)) : ChunkedPlace(m, e, t)
      BY <3>1
    <3>3. ChunkedWire(m, e, t)' <=> ChunkedWire(m, e, t)
      BY <2>1 DEF ChunkedWire
    <3>4. /\ AfterChunks(m, e)' <=> AfterChunks(m, e)
          /\ InChunk(m, e)' <=> InChunk(m, e)
          /\ TornChunk' <=> TornChunk
          /\ EndOfChunk(m, e)' <=> EndOfChunk(m, e)
      BY <2>1 DEF AfterChunks, InChunk, TornChunk, EndOfChunk, Pos
    <3>5. /\ InTrailer(m, e, t)' <=> InTrailer(m, e, t)
          /\ AllRead(m, e, t)' <=> AllRead(m, e, t)
      BY <2>1 DEF InTrailer, AllRead, LongFirst, Pos
    <3>6. /\ TooMuch(m, e)' <=> TooMuch(m, e)
          /\ BrokenOff(m, e, t)' <=> BrokenOff(m, e, t)
          /\ BadTrailer(m, e, t)' <=> BadTrailer(m, e, t)
      BY <2>1 DEF TooMuch, BrokenOff, EndsAt, BadTrailer
    <3>7. ChunkedPlace(m, e, t)'
      BY <2>1, <3>2, <3>3, <3>4, <3>5, <3>6 DEF ChunkedPlace
    <3>8. framing' = Chunked /\ SomeChunks'
      BY <2>1, <2>5, <3>7 DEF SomeChunks
    <3>9. QED
      BY <2>2, <3>8 DEF StreamInv
  <2>6. QED
    BY <1>1, <2>3, <2>4, <2>5 DEF StreamInv
<1>3. CASE ReadSize
  BY <1>1, <1>3, SizeStep
<1>4. CASE ReadCounted
  <2>1. at = "counted" \/ at = "chunk"
    BY <1>4 DEF ReadCounted
  <2>2. QED
    BY <1>1, <1>4, <2>1, CountedStep, ChunkStep
<1>5. CASE Skip
  BY <1>1, <1>5, SkipStep
<1>6. CASE ReadChunkEnd
  BY <1>1, <1>6, ChunkEndStep
<1>7. CASE ReadTrailer
  BY <1>1, <1>7, TrailerStep
<1>8. CASE ReadRest
  BY <1>1, <1>8, RestStep
<1>9. QED
  BY <1>1, <1>2, <1>3, <1>4, <1>5, <1>6, <1>7, <1>8 DEF StreamNext

(* What SocketStream still holds is the wire from Pos on.                  *)
LEMMA RestIs ==
  ASSUME Buffered
  PROVE  /\ buf \o net \in Seq(Units) /\ Len(buf \o net) = Len(wire) - Pos
         /\ Pos \in Nat /\ Len(wire) \in Nat /\ Pos <= Len(wire)
         /\ \A i \in 1 .. Len(wire) - Pos : (buf \o net)[i] = wire[Pos + i]
<1>1. PICK b, n, l, w : b = buf /\ n = net /\ l = Len(wire) /\ w = buf \o net
  OBVIOUS
<1>2. PICK x, y : x = Len(b) /\ y = Len(n)
  OBVIOUS
<1>3. b \in Seq(Units) /\ n \in Seq(Units) /\ l \in Nat /\ x \in Nat /\ y \in Nat
  BY <1>1, <1>2, LenProperties DEF Buffered
<1>4. /\ w \in Seq(Units) /\ Len(w) = x + y
      /\ \A i \in 1 .. x : w[i] = b[i]
      /\ \A i \in 1 .. y : w[x + i] = n[i]
  <2>1. /\ b \o n \in Seq(Units) /\ Len(b \o n) = Len(b) + Len(n)
        /\ \A i \in 1 .. Len(b) : (b \o n)[i] = b[i]
        /\ \A i \in 1 .. Len(n) : (b \o n)[Len(b) + i] = n[i]
    BY <1>3, ConcatAt
  <2>2. w = b \o n
    BY <1>1
  <2>3. QED
    BY <1>2, <2>1, <2>2
<1>5. Pos \in Nat /\ Pos = l - x - y
  BY <1>1, <1>2 DEF Pos, Buffered
<1>6. PICK p : p = Pos
  OBVIOUS
<1>7. p \in Nat /\ l - p = x + y /\ p <= l
  BY <1>3, <1>5, <1>6
<1>8. ASSUME NEW i \in 1 .. x + y PROVE w[i] = wire[p + i]
  <2>1. CASE i <= x
    <3>1. i \in 1 .. x
      BY <1>3, <2>1
    <3>2. b[i] = wire[p + i]
      BY <1>1, <1>2, <1>6, <3>1 DEF Buffered
    <3>3. QED
      BY <1>4, <3>1, <3>2
  <2>2. CASE ~ (i <= x)
    <3>1. PICK j : j = i - x
      OBVIOUS
    <3>2. j \in 1 .. y /\ i = x + j
      BY <1>3, <2>2, <3>1
    <3>3. n[j] = wire[p + x + j]
      BY <1>1, <1>2, <1>6, <3>2 DEF Buffered
    <3>4. p + x + j = p + i
      BY <1>3, <1>7, <3>2
    <3>5. QED
      BY <1>4, <3>2, <3>3, <3>4
  <2>3. QED
    BY <2>1, <2>2
<1>9. QED
  BY <1>1, <1>3, <1>4, <1>6, <1>7, <1>8

LEMMA StartOf ==
  ASSUME NEW S, NEW s \in Seq(S), NEW l \in 0 .. Len(s)
  PROVE  SubSeq(s, 1, l) = [i \in 1 .. l |-> s[i]]
<1>1. PICK a : a = SubSeq(s, 1, l)
  OBVIOUS
<1>2. Len(s) \in Nat
  BY LenProperties
<1>3. /\ a \in Seq(S) /\ Len(a) = l
      /\ \A i \in 1 .. l : a[i] = s[i]
  <2>1. /\ SubSeq(s, 1, l) \in Seq(S)
        /\ Len(SubSeq(s, 1, l)) = IF 1 <= l THEN l - 1 + 1 ELSE 0
        /\ \A i \in 1 .. Len(SubSeq(s, 1, l)) : SubSeq(s, 1, l)[i] = s[1 + i - 1]
    BY SubOf
  <2>2. Len(a) = l
    BY <1>1, <1>2, <2>1
  <2>3. QED
    BY <1>1, <1>2, <2>1, <2>2
<1>4. a = [i \in 1 .. l |-> a[i]]
  BY <1>3
<1>5. QED
  BY <1>1, <1>3, <1>4

(* What is left is the start of what follows when it begins at n.          *)
LEMMA RestFollows ==
  ASSUME Buffered, NEW n \in Nat, Pos = n, Len(wire) <= n + Len(Following),
         \A i \in 1 .. Len(Following) : n + i <= Len(wire) => wire[n + i] = Following[i]
  PROVE  IsPrefix(buf \o net, Following)
<1>1. PICK s, f, l : s = buf \o net /\ f = Following /\ l = Len(wire) - n
  OBVIOUS
<1>2. /\ s \in Seq(Units) /\ Len(s) = l /\ l \in Nat /\ Len(wire) \in Nat
      /\ \A i \in 1 .. l : s[i] = wire[n + i]
  BY <1>1, RestIs
<1>3. f \in Seq(Range(f)) /\ Len(f) \in Nat
  BY <1>1, SequencesAssumption, LenProperties
<1>4. l <= Len(f)
  BY <1>1, <1>2, <1>3
<1>5. ASSUME NEW i \in 1 .. l PROVE s[i] = f[i]
  <2>1. i \in 1 .. Len(f) /\ n + i <= Len(wire)
    BY <1>1, <1>2, <1>3, <1>4
  <2>2. QED
    BY <1>1, <1>2, <2>1
<1>6. SubSeq(s, 1, l) = SubSeq(f, 1, l)
  <2>1. SubSeq(s, 1, l) = [i \in 1 .. l |-> s[i]]
    <3>1. s \in Seq(Units) /\ l \in 0 .. Len(s)
      BY <1>2
    <3>2. QED
      BY <3>1, StartOf
  <2>2. SubSeq(f, 1, l) = [i \in 1 .. l |-> f[i]]
    <3>1. f \in Seq(Range(f)) /\ l \in 0 .. Len(f)
      BY <1>2, <1>3, <1>4
    <3>2. QED
      BY <3>1, StartOf
  <2>3. QED
    BY <1>5, <2>1, <2>2
<1>7. QED
  BY <1>1, <1>2, <1>4, <1>6 DEF IsPrefix

LEMMA WholeIsGiven ==
  ASSUME content \in Bodies, Given, Len(body) = Len(content)
  PROVE  body = content
<1>1. content \in Seq(Range(content)) /\ Len(content) \in Nat
  BY ContentIs
<1>2. body = [i \in 1 .. Len(content) |-> body[i]] /\ content = [i \in 1 .. Len(content) |-> content[i]]
  BY <1>1, LenProperties DEF Given
<1>3. \A i \in 1 .. Len(content) : body[i] = content[i]
  BY DEF Given
<1>4. QED
  BY <1>2, <1>3

LEMMA InvGivesWhole == StreamInv => SuccessMeansWhole
<1>1. SUFFICES ASSUME StreamInv, at = "Success", framing # ToTheEnd
               PROVE  /\ body = content
                      /\ \/ IsPrefix(buf \o net, Following)
                         \/ buf \o net # <<>> /\ OverLong(Head(buf \o net))
  BY DEF SuccessMeansWhole
<1>2. content \in Bodies /\ Buffered /\ Given
  BY <1>1 DEF StreamInv
<1>3. Len(content) \in Nat /\ Len(Following) \in Nat /\ Len(wire) \in Nat
  BY <1>2, ContentIs, SequencesAssumption, LenProperties DEF Buffered
<1>4. CASE CountedPlace
  <2>1. Len(body) = Len(content) /\ Pos = Len(content) /\ CountedWire
    BY <1>1, <1>4 DEF CountedPlace
  <2>2. body = content
    BY <1>2, <2>1, WholeIsGiven
  <2>3. PICK n : n = Len(content)
    OBVIOUS
  <2>4. /\ n \in Nat /\ Pos = n /\ Len(wire) <= n + Len(Following)
        /\ \A i \in 1 .. Len(Following) : n + i <= Len(wire) => wire[n + i] = Following[i]
    BY <1>3, <2>1, <2>3 DEF CountedWire
  <2>5. QED
    BY <1>2, <2>2, <2>4, RestFollows
<1>5. CASE SomeChunks
  <2>1. PICK t \in Trailers, m \in 0 .. Len(content) :
          \E e \in Ends(m, Len(content)) : ChunkedPlace(m, e, t)
    BY <1>5 DEF SomeChunks
  <2>2. PICK e \in Ends(m, Len(content)) : ChunkedPlace(m, e, t)
    BY <2>1
  <2>3. ChunkedWire(m, e, t) /\ AllRead(m, e, t)
    BY <1>1, <2>2 DEF ChunkedPlace
  <2>4. body = content
    BY <1>2, <2>3, WholeIsGiven DEF AllRead
  <2>5. PICK n : n = Mark(e, m) + Len(t) + 2
    OBVIOUS
  <2>6. n \in Nat
    <3>1. PICK z : z = Len(content)
      OBVIOUS
    <3>2. z \in Nat /\ m \in Nat /\ e \in Ends(m, z)
      BY <1>3, <3>1
    <3>3. e[m] \in Nat
      BY <3>2 DEF Ends
    <3>4. Mark(e, m) \in Nat
      BY <3>2, <3>3 DEF Mark
    <3>5. Len(t) \in Nat
      BY SequencesAssumption, LenProperties
    <3>6. QED
      BY <2>5, <3>4, <3>5
  <2>a. Mark(e, m) \in Nat
    <3>1. PICK z : z = Len(content)
      OBVIOUS
    <3>2. z \in Nat /\ m \in Nat /\ e \in Ends(m, z)
      BY <1>3, <3>1
    <3>3. e[m] \in Nat
      BY <3>2 DEF Ends
    <3>4. QED
      BY <3>2, <3>3 DEF Mark
  <2>7. CASE Pos = n
    <3>1. /\ Len(wire) <= n + Len(Following)
          /\ \A i \in 1 .. Len(Following) : n + i <= Len(wire) => wire[n + i] = Following[i]
      BY <2>3, <2>5 DEF ChunkedWire
    <3>2. QED
      BY <1>2, <2>4, <2>6, <2>7, <3>1, RestFollows
  <2>8. CASE Pos = Len(wire) /\ Pos = Mark(e, m) + 1
    <3>1. PICK l : l = Len(wire)
      OBVIOUS
    <3>a. Pos = l
      BY <2>8, <3>1, Zenon
    <3>b. l \in Nat /\ Len(wire) <= l + Len(Following)
      BY <1>3, <3>1
    <3>2. l \in Nat /\ Pos = l /\ Len(wire) <= l + Len(Following)
      BY <3>a, <3>b
    <3>3. \A i \in 1 .. Len(Following) : l + i <= Len(wire) => wire[l + i] = Following[i]
      BY <1>3, <3>1
    <3>4. QED
      BY <1>2, <2>4, <3>2, <3>3, RestFollows
  <2>9. CASE Pos = Mark(e, m) + 1 /\ LongFirst(m, e, t)
    <3>1. PICK x, rest : x = Pos /\ rest = buf \o net
      OBVIOUS
    <3>2. /\ rest \in Seq(Units) /\ Len(rest) = Len(wire) - x
          /\ x \in Nat /\ x <= Len(wire)
          /\ \A i \in 1 .. Len(wire) - x : rest[i] = wire[x + i]
      BY <1>2, <3>1, RestIs
    <3>3. x = Mark(e, m) + 1 /\ Mark(e, m) + 2 <= Len(wire)
      BY <2>9, <3>1 DEF LongFirst
    <3>4. PICK k : k = Mark(e, m)
      OBVIOUS
    <3>5. k \in Int /\ x = k + 1 /\ k + 2 <= Len(wire)
      BY <3>2, <3>3, <3>4, <2>a
    <3>6. 1 \in 1 .. Len(wire) - x /\ x + 1 = k + 1 + 1
      BY <1>3, <3>2, <3>5
    <3>7. rest[1] = wire[k + 1 + 1] /\ k + 1 + 1 <= Len(wire)
      BY <3>2, <3>5, <3>6
    <3>8. 1 \in 1 .. Len(t)
      <4>1. Len(t) \in Nat /\ Len(t) > 0
        BY <2>9, SequencesAssumption, LenProperties DEF LongFirst
      <4>2. QED
        BY <4>1
    <3>9. wire[k + 1 + 1] = Field(t[1])
      BY <2>3, <3>4, <3>7, <3>8 DEF ChunkedWire
    <3>10. rest # <<>>
      <4>1. Len(rest) \in Nat \ {0}
        BY <1>3, <3>2, <3>6
      <4>2. QED
        BY <4>1
    <3>11. Head(rest) = rest[1]
      BY <3>2, <3>10
    <3>12. OverLong(Head(rest))
      BY <2>9, <3>7, <3>9, <3>11 DEF LongFirst
    <3>13. QED
      BY <2>4, <3>1, <3>10, <3>12
  <2>10. QED
    BY <2>3, <2>5, <2>7, <2>8, <2>9 DEF AllRead
<1>6. QED
  BY <1>1, <1>4, <1>5 DEF StreamInv, RestPlace

(* A body that is cut short, between lines or within one, is never taken   *)
(* for the whole one, whatever the body, its chunks, the trailer, the      *)
(* limits of its lines, the sizes of the buffers and the pieces recv       *)
(* returns: success means the receiver was given exactly what the sender   *)
(* framed, and the next message on the connection is untouched, unless a   *)
(* trailer line that getline gives up on is left before it.                *)
THEOREM SuccessIsTheWholeBody == StreamSpec => []SuccessMeansWhole
<1>1. QED
  BY StreamStarts, StreamSteps, InvGivesWhole, PTL DEF StreamSpec

-----------------------------------------------------------------------------
(* Every length on the wire is one.                                        *)
Sized(w) == \A i \in 1 .. Len(w) : w[i][1] = "size" => w[i][2] \in Nat

Chunking(w) ==
  CHOOSE f : f = [i \in 1 .. Len(w) + 1 |->
                    [got \in 0 .. PayloadMax |-> ChunksFrom(w, f, i, got)]]

LEMMA ChunkingIs ==
  ASSUME NEW w
  PROVE  ReadContentChunked(w) = Chunking(w)[1][0]
BY DEF ReadContentChunked, Chunking

LEMMA UnitAt ==
  ASSUME NEW U, NEW w \in Seq(U), NEW i \in 1 .. Len(w) + 1, NEW k
  PROVE  IsUnit(From(w, i), k) <=> i <= Len(w) /\ w[i][1] = k
<1>1. PICK v : v = From(w, i)
  OBVIOUS
<1>2. /\ v \in Seq(U) /\ Len(v) = Len(w) - i + 1
      /\ \A x \in 1 .. Len(w) - i + 1 : v[x] = w[i + x - 1]
  BY <1>1, FromOf
<1>3. PICK l : l = Len(w)
  OBVIOUS
<1>4. l \in Nat /\ i \in 1 .. l + 1
  BY <1>3, LenProperties
<1>5. CASE i <= l
  <2>1. v # <<>> /\ Head(v) = v[1] /\ v[1] = w[i]
    BY <1>2, <1>3, <1>4, <1>5
  <2>2. QED
    BY <1>1, <1>3, <1>5, <2>1 DEF IsUnit
<1>6. CASE ~ (i <= l)
  <2>1. v = <<>>
    BY <1>2, <1>3, <1>4, <1>6
  <2>2. QED
    BY <1>1, <1>3, <1>6, <2>1 DEF IsUnit
<1>7. QED
  BY <1>5, <1>6

(* A whole chunk is followed by more of the wire.                          *)
LEMMA ChunkFits ==
  ASSUME NEW U, NEW w \in Seq(U), NEW i \in 1 .. Len(w), NEW n \in Nat,
         NEW data, data = ReadContentWithLength(From(w, i + 1), n),
         data.outcome = "Success", IsUnit(data.rest, "crlf")
  PROVE  i + n + 1 <= Len(w)
<1>1. PICK v : v = From(w, i + 1)
  OBVIOUS
<1>2. PICK l : l = Len(w)
  OBVIOUS
<1>3. l \in Nat /\ i \in 1 .. l /\ i + 1 \in 1 .. l + 1
  BY <1>2, LenProperties
<1>4. v \in Seq(U) /\ Len(v) = l - i
  <2>1. v \in Seq(U) /\ Len(v) = l - (i + 1) + 1
    BY <1>1, <1>2, <1>3, FromOf
  <2>2. QED
    BY <1>3, <2>1
<1>5. Len(v) >= n /\ data.rest = From(v, n + 1)
  BY <1>1 DEF ReadContentWithLength, Result
<1>6. n + 1 \in 1 .. Len(v) + 1
  BY <1>3, <1>4, <1>5
<1>7. n + 1 <= Len(v)
  BY <1>4, <1>5, <1>6, UnitAt
<1>8. QED
  BY <1>2, <1>3, <1>4, <1>7

(* What a place comes to, by what is on the wire there.                    *)
ChunkData(w, i) == ReadContentWithLength(From(w, i + 1), w[i][2])
IsWhole(w, i) == ChunkData(w, i).outcome = "Success" /\ IsUnit(ChunkData(w, i).rest, "crlf")
Broken == Result("Error", <<>>, <<>>)

LEMMA NoSizeLine ==
  ASSUME NEW w, NEW f, NEW i, NEW got, ~IsUnit(From(w, i), "size")
  PROVE  ChunksFrom(w, f, i, got) = Broken
BY DEF ChunksFrom, Broken

TrailerResult(w, i) ==
  IF SkipTrailers(From(w, i + 1)).found
  THEN Result("Success", <<>>, SkipTrailers(From(w, i + 1)).rest) ELSE Broken

LEMMA LastSizeLine ==
  ASSUME NEW w, NEW f, NEW i, NEW got, IsUnit(From(w, i), "size"), w[i][2] = 0
  PROVE  ChunksFrom(w, f, i, got) = TrailerResult(w, i)
BY DEF ChunksFrom, Broken, TrailerResult

LEMMA LongSizeLine ==
  ASSUME NEW w, NEW f, NEW i, NEW got, IsUnit(From(w, i), "size"), w[i][2] # 0,
         got + w[i][2] > PayloadMax
  PROVE  ChunksFrom(w, f, i, got) = Result("PayloadTooLarge", <<>>, From(w, i + 1))
BY DEF ChunksFrom

LEMMA BrokenChunk ==
  ASSUME NEW w, NEW f, NEW i, NEW got, IsUnit(From(w, i), "size"), w[i][2] # 0,
         ~ (got + w[i][2] > PayloadMax), ~IsWhole(w, i)
  PROVE  ChunksFrom(w, f, i, got) = Broken
BY DEF ChunksFrom, Broken, IsWhole, ChunkData

LEMMA WholeChunk ==
  ASSUME NEW w, NEW f, NEW i, NEW got, IsUnit(From(w, i), "size"), w[i][2] # 0,
         ~ (got + w[i][2] > PayloadMax), IsWhole(w, i)
  PROVE  ChunksFrom(w, f, i, got) =
           Followed(ChunkData(w, i).body, f[i + w[i][2] + 2][got + w[i][2]])
BY DEF ChunksFrom, IsWhole, ChunkData

Place(w, f, i) == [got \in 0 .. PayloadMax |-> ChunksFrom(w, f, i, got)]

(* A place depends on the later ones only.                                 *)
LEMMA PlaceLater ==
  ASSUME NEW U, NEW w \in Seq(U), Sized(w), NEW i \in 1 .. Len(w) + 1, NEW f, NEW g,
         \A a \in i + 1 .. Len(w) + 1 : f[a] = g[a]
  PROVE  Place(w, f, i) = Place(w, g, i)
<1>1. SUFFICES ASSUME NEW got \in 0 .. PayloadMax
               PROVE  ChunksFrom(w, f, i, got) = ChunksFrom(w, g, i, got)
  BY DEF Place
<1>2. got \in Nat
  BY PayloadAssumption
<1>3. CASE ~IsUnit(From(w, i), "size")
  BY <1>3 DEF ChunksFrom
<1>4. CASE IsUnit(From(w, i), "size")
  <2>1. i <= Len(w) /\ w[i][1] = "size"
    BY <1>4, UnitAt
  <2>2. PICK n, l : n = w[i][2] /\ l = Len(w)
    OBVIOUS
  <2>a. l \in Nat /\ i \in 1 .. l
    BY <2>1, <2>2, LenProperties
  <2>b. i \in 1 .. Len(w)
    BY <2>2, <2>a
  <2>c. w[i][2] \in Nat
    BY <2>1, <2>b DEF Sized
  <2>3. n \in Nat /\ l \in Nat /\ i \in 1 .. l
    BY <2>2, <2>a, <2>c
  <2>4. CASE n = 0
    <3>1. w[i][2] = 0
      BY <2>2, <2>4
    <3>2. QED
      BY <1>4, <3>1, LastSizeLine
  <2>5. CASE n # 0 /\ got + n > PayloadMax
    BY <1>4, <2>2, <2>5, LongSizeLine
  <2>6. CASE n # 0 /\ ~ (got + n > PayloadMax) /\ ~IsWhole(w, i)
    BY <1>4, <2>2, <2>6, BrokenChunk
  <2>7. CASE n # 0 /\ ~ (got + n > PayloadMax) /\ IsWhole(w, i)
    <3>1. i + n + 1 <= Len(w)
      <4>1. PICK data : data = ReadContentWithLength(From(w, i + 1), n)
        OBVIOUS
      <4>2. data.outcome = "Success" /\ IsUnit(data.rest, "crlf")
        BY <2>2, <2>7, <4>1 DEF IsWhole, ChunkData
      <4>3. i \in 1 .. Len(w)
        BY <2>2, <2>3
      <4>4. QED
        BY <2>3, <4>1, <4>2, <4>3, ChunkFits
    <3>2. PICK x, y : x = i + n + 2 /\ y = got + n
      OBVIOUS
    <3>3. x \in i + 1 .. Len(w) + 1
      <4>1. i + n + 1 <= l
        BY <2>2, <3>1
      <4>2. x \in i + 1 .. l + 1
        BY <2>3, <3>2, <4>1
      <4>3. QED
        BY <2>2, <4>2
    <3>4. f[x] = g[x]
      BY <3>3
    <3>5. /\ ChunksFrom(w, f, i, got) = Followed(ChunkData(w, i).body, f[x][y])
          /\ ChunksFrom(w, g, i, got) = Followed(ChunkData(w, i).body, g[x][y])
      BY <1>4, <2>2, <2>7, <3>2, WholeChunk
    <3>6. QED
      BY <3>4, <3>5
  <2>8. QED
    BY <2>4, <2>5, <2>6, <2>7
<1>5. QED
  BY <1>3, <1>4

(* From its last k places to all of them.                                  *)
Solves(g, w, k) ==
  /\ g = [i \in 1 .. Len(w) + 1 |-> g[i]]
  /\ \A i \in 1 .. Len(w) + 1 : Len(w) + 1 < i + k => g[i] = Place(w, g, i)

LEMMA SolvesMore ==
  ASSUME NEW U, NEW w \in Seq(U), Sized(w), NEW k \in Nat, NEW g, Solves(g, w, k)
  PROVE  \E h : Solves(h, w, k + 1)
<1>1. PICK l : l = Len(w)
  OBVIOUS
<1>2. l \in Nat
  BY <1>1, LenProperties
<1>3. CASE k > l
  <2>1. \A i \in 1 .. l + 1 : l + 1 < i + k
    BY <1>2, <1>3
  <2>2. \A i \in 1 .. l + 1 : g[i] = Place(w, g, i)
    BY <1>1, <2>1 DEF Solves
  <2>3. Solves(g, w, k + 1)
    BY <1>1, <2>2 DEF Solves
  <2>4. QED
    BY <2>3
<1>4. CASE ~ (k > l)
  <2>1. PICK p : p = l + 1 - k
    OBVIOUS
  <2>2. p \in 1 .. l + 1
    BY <1>2, <1>4, <2>1
  <2>3. PICK h : h = [i \in 1 .. l + 1 |-> IF i = p THEN Place(w, g, p) ELSE g[i]]
    OBVIOUS
  <2>4. /\ h[p] = Place(w, g, p) /\ \A i \in 1 .. l + 1 : i # p => h[i] = g[i]
        /\ h = [i \in 1 .. l + 1 |-> h[i]]
    BY <2>2, <2>3
  <2>5. ASSUME NEW i \in 1 .. l + 1, l + 1 < i + (k + 1) PROVE h[i] = Place(w, h, i)
    <3>1. p <= i
      BY <1>2, <2>1, <2>5
    <3>2. \A a \in i + 1 .. Len(w) + 1 : g[a] = h[a]
      <4>1. ASSUME NEW a \in i + 1 .. l + 1 PROVE g[a] = h[a]
        <5>1. a \in 1 .. l + 1 /\ a # p
          BY <1>2, <2>2, <3>1
        <5>2. QED
          BY <2>4, <5>1
      <4>2. QED
        BY <1>1, <4>1
    <3>3. Place(w, g, i) = Place(w, h, i)
      BY <1>1, <3>2, PlaceLater
    <3>4. CASE i = p
      BY <2>4, <3>3, <3>4
    <3>5. CASE i # p
      <4>1. l + 1 < i + k
        BY <1>2, <2>1, <3>1, <3>5
      <4>2. g[i] = Place(w, g, i)
        BY <1>1, <4>1 DEF Solves
      <4>3. QED
        BY <2>4, <3>3, <3>5, <4>2
    <3>6. QED
      BY <3>4, <3>5
  <2>6. Solves(h, w, k + 1)
    BY <1>1, <2>4, <2>5 DEF Solves
  <2>7. QED
    BY <2>6
<1>5. QED
  BY <1>3, <1>4

LEMMA ChunkingExists ==
  ASSUME NEW U, NEW w \in Seq(U), Sized(w)
  PROVE  Solves(Chunking(w), w, Len(w) + 1)
<1> DEFINE P == {k \in Nat : \E g : Solves(g, w, k)}
<1>1. PICK l : l = Len(w)
  OBVIOUS
<1>2. l \in Nat
  BY <1>1, LenProperties
<1>3. 0 \in P
  <2>1. PICK g : g = [i \in 1 .. l + 1 |-> 0]
    OBVIOUS
  <2>2. g = [i \in 1 .. l + 1 |-> g[i]]
    BY <2>1
  <2>3. \A i \in 1 .. l + 1 : ~ (l + 1 < i + 0)
    BY <1>2
  <2>4. Solves(g, w, 0)
    BY <1>1, <2>2, <2>3 DEF Solves
  <2>5. QED
    BY <2>4
<1>4. ASSUME NEW k \in P PROVE k + 1 \in P
  <2>1. PICK g : Solves(g, w, k)
    OBVIOUS
  <2>2. \E h : Solves(h, w, k + 1)
    BY <2>1, SolvesMore
  <2>3. QED
    BY <2>2
<1>5. P = Nat
  <2>1. P \subseteq Nat
    OBVIOUS
  <2> HIDE DEF P
  <2>2. QED
    BY <1>3, <1>4, <2>1, Induction
<1>6. l + 1 \in P
  <2> HIDE DEF P
  <2>1. QED
    BY <1>2, <1>5
<1>7. PICK g : Solves(g, w, l + 1)
  BY <1>6
<1>8. \A i \in 1 .. l + 1 : g[i] = Place(w, g, i)
  BY <1>1, <1>2, <1>7 DEF Solves
<1>9. g = [i \in 1 .. l + 1 |-> Place(w, g, i)]
  BY <1>1, <1>7, <1>8 DEF Solves
<1>10. Chunking(w) = CHOOSE f : f = [i \in 1 .. l + 1 |-> Place(w, f, i)]
  BY <1>1 DEF Chunking, Place
<1>11. PICK f : f = Chunking(w)
  OBVIOUS
<1>12. f = [i \in 1 .. l + 1 |-> Place(w, f, i)]
  BY <1>9, <1>10, <1>11
<1>13. \A i \in 1 .. l + 1 : f[i] = Place(w, f, i)
  BY <1>12, Zenon
<1>a. f = [i \in 1 .. l + 1 |-> f[i]]
  BY <1>12, <1>13
<1>14. Solves(f, w, l + 1)
  BY <1>1, <1>13, <1>a DEF Solves
<1>15. QED
  BY <1>1, <1>11, <1>14

(* The chunks from one place on.                                           *)
LEMMA ChunkingAt ==
  ASSUME NEW U, NEW w \in Seq(U), Sized(w),
         NEW i \in 1 .. Len(w) + 1, NEW got \in 0 .. PayloadMax
  PROVE  Chunking(w)[i][got] = ChunksFrom(w, Chunking(w), i, got)
<1>1. PICK l, f : l = Len(w) /\ f = Chunking(w)
  OBVIOUS
<1>2. l \in Nat /\ i \in 1 .. l + 1 /\ Solves(f, w, l + 1)
  BY <1>1, LenProperties, ChunkingExists
<1>3. l + 1 < i + (l + 1)
  BY <1>2
<1>4. f[i] = Place(w, f, i)
  BY <1>1, <1>2, <1>3 DEF Solves
<1>5. QED
  BY <1>1, <1>4 DEF Place

(* A part of a sequence, unit by unit.                                     *)
LEMMA PieceOf ==
  ASSUME NEW S, NEW s \in Seq(S), NEW a \in Nat, NEW n \in Nat, a + n <= Len(s)
  PROVE  SubSeq(s, a + 1, a + n) = [x \in 1 .. n |-> s[a + x]]
<1>1. PICK p, c, b : c = a + 1 /\ b = a + n /\ p = SubSeq(s, c, b)
  OBVIOUS
<1>2. Len(s) \in Nat
  BY LenProperties
<1>3. c \in Nat \ {0} /\ b \in 0 .. Len(s)
  BY <1>1, <1>2
<1>4. /\ p \in Seq(S)
      /\ Len(p) = IF a + 1 <= b THEN b - (a + 1) + 1 ELSE 0
      /\ \A x \in 1 .. Len(p) : p[x] = s[a + 1 + x - 1]
  <2>1. /\ SubSeq(s, c, b) \in Seq(S)
        /\ Len(SubSeq(s, c, b)) = IF c <= b THEN b - c + 1 ELSE 0
        /\ \A x \in 1 .. Len(SubSeq(s, c, b)) : SubSeq(s, c, b)[x] = s[c + x - 1]
    BY <1>3, SubOf, SMTT(30)
  <2>2. QED
    BY <1>1, <2>1
<1>5. Len(p) = n
  <2>1. PICK l : l = Len(p)
    OBVIOUS
  <2>2. l = (IF a + 1 <= b THEN b - (a + 1) + 1 ELSE 0) /\ b = a + n
    BY <1>1, <1>4, <2>1
  <2>3. l = n
    BY <2>2
  <2>4. QED
    BY <2>1, <2>3
<1>6. \A x \in 1 .. n : p[x] = s[a + x]
  BY <1>4, <1>5
<1>7. p = [x \in 1 .. n |-> p[x]]
  BY <1>4, <1>5
<1>8. QED
  BY <1>1, <1>6, <1>7

(* Data that is all there is read whole.                                   *)
LEMMA DataOnWire ==
  ASSUME NEW U, NEW v \in Seq(U), NEW S, NEW c \in Seq(S), NEW a \in Nat, NEW n \in Nat,
         n <= Len(v), a + n <= Len(c), \A x \in 1 .. n : v[x] = Byte(c[a + x])
  PROVE  ReadContentWithLength(v, n) =
           Result("Success", SubSeq(c, a + 1, a + n), From(v, n + 1))
<1>1. PICK d, l : d = SubSeq(v, 1, n) /\ l = Len(v)
  OBVIOUS
<1>2. l \in Nat /\ n <= l
  BY <1>1, LenProperties
<1>3. d = [x \in 1 .. n |-> v[x]]
  <2>1. SubSeq(v, 0 + 1, 0 + n) = [x \in 1 .. n |-> v[0 + x]]
    BY PieceOf
  <2>2. 0 + 1 = 1 /\ 0 + n = n /\ \A x \in 1 .. n : 0 + x = x
    OBVIOUS
  <2>3. QED
    BY <1>1, <2>1, <2>2
<1>4. DOMAIN d = 1 .. n /\ \A x \in 1 .. n : d[x] = Byte(c[a + x])
  BY <1>3
<1>5. AllBytes(d)
  BY <1>4 DEF AllBytes, Byte
<1>6. Values(d) = [x \in 1 .. n |-> c[a + x]]
  BY <1>4 DEF Values, Byte
<1>7. Values(d) = SubSeq(c, a + 1, a + n)
  BY <1>6, PieceOf
<1>8. ~ (Len(v) < n)
  BY <1>1, <1>2
<1>9. QED
  BY <1>1, <1>5, <1>7, <1>8 DEF ReadContentWithLength

LEMMA DataMissing ==
  ASSUME NEW v, NEW n, Len(v) < n
  PROVE  ReadContentWithLength(v, n) = Broken
BY DEF ReadContentWithLength, Broken

(* The places of a body in chunks.                                         *)
LEMMA MarksOf ==
  ASSUME content \in Bodies, NEW m \in 0 .. Len(content), NEW e \in Ends(m, Len(content)),
         NEW j \in 1 .. m
  PROVE  /\ m \in Nat /\ Len(content) \in Nat
         /\ e[j - 1] \in Nat /\ e[j] \in Nat /\ e[j - 1] < e[j] /\ e[j] <= Len(content)
         /\ Mark(e, j - 1) \in Nat /\ Mark(e, j) = Mark(e, j - 1) + (e[j] - e[j - 1]) + 2
<1>1. PICK z : z = Len(content)
  OBVIOUS
<1>2. z \in Nat /\ m \in Nat /\ e \in Ends(m, z)
  BY <1>1, ContentIs
<1>3. PICK a, b : a = e[j - 1] /\ b = e[j]
  OBVIOUS
<1>4. a \in Nat /\ b \in 0 .. z /\ a < b
  BY <1>2, <1>3, EndsStep
<1>5. Mark(e, j - 1) = a + 2 * (j - 1) /\ Mark(e, j) = b + 2 * j
  BY <1>3 DEF Mark
<1>6. a + 2 * (j - 1) \in Nat /\ b + 2 * j = a + 2 * (j - 1) + (b - a) + 2
  BY <1>2, <1>4
<1>7. b \in Nat /\ b <= z
  BY <1>2, <1>4
<1>8. QED
  BY <1>1, <1>2, <1>3, <1>4, <1>5, <1>6, <1>7

LEMMA SizeLineAt ==
  ASSUME NEW i, NEW n, wire \in Seq(Units), i \in 1 .. Len(wire), wire[i] = SizeLine(n)
  PROVE  IsUnit(From(wire, i), "size") /\ wire[i][2] = n
<1>1. wire[i][1] = "size" /\ wire[i][2] = n
  BY DEF SizeLine
<1>2. Len(wire) \in Nat
  BY LenProperties
<1>3. i \in 1 .. Len(wire) + 1 /\ i <= Len(wire)
  BY <1>2
<1>4. QED
  BY <1>1, <1>3, UnitAt

(* A whole chunk is read as one.                                           *)
LEMMA ChunkRead ==
  ASSUME content \in Bodies, wire \in Seq(Units), NEW t,
         NEW m \in 0 .. Len(content), NEW e \in Ends(m, Len(content)),
         ChunkedWire(m, e, t), NEW j \in 1 .. m, Mark(e, j) <= Len(wire),
         NEW i, i = Mark(e, j - 1) + 1
  PROVE  /\ IsUnit(From(wire, i), "size") /\ wire[i][2] = e[j] - e[j - 1]
         /\ IsWhole(wire, i)
         /\ ChunkData(wire, i).body = SubSeq(content, e[j - 1] + 1, e[j])
<1>1. PICK a, b, k, l, n : /\ a = e[j - 1] /\ b = e[j] /\ k = Mark(e, j - 1)
                           /\ l = Len(wire) /\ n = b - a
  OBVIOUS
<1>2. /\ a \in Nat /\ b \in Nat /\ a < b /\ b <= Len(content)
      /\ k \in Nat /\ Mark(e, j) = k + n + 2 /\ Len(content) \in Nat
  BY <1>1, MarksOf
<1>d. Len(wire) \in Nat
  BY LenProperties
<1>a. l \in Nat /\ i = k + 1
  BY <1>1, <1>d
<1>e. n = b - a /\ a \in Nat /\ b \in Nat /\ a < b
  BY <1>1, <1>2
<1>b. n \in Nat \ {0} /\ a + n = b
  BY <1>e
<1>c. k + n + 2 <= l
  BY <1>1, <1>2
<1>3. /\ l \in Nat /\ n \in Nat \ {0} /\ i = k + 1 /\ k + n + 2 <= l
      /\ i \in 1 .. l /\ i + 1 \in 1 .. l + 1
  BY <1>2, <1>a, <1>b, <1>c
<1>f. l \in Nat /\ i \in Nat /\ n \in Nat
  BY <1>3
<1>4. /\ wire[i] = SizeLine(n)
      /\ \A x \in 1 .. n : wire[k + 1 + x] = Byte(content[a + x])
      /\ wire[k + n + 2] = Crlf
  <2>a. k + 1 <= l
    BY <1>2, <1>3
  <2>1. Mark(e, j - 1) + 1 <= Len(wire)
    BY <1>1, <2>a
  <2>2. wire[i] = SizeLine(n)
    BY <1>1, <2>1 DEF ChunkedWire
  <2>3. wire[k + n + 2] = Crlf
    BY <1>1, <1>2 DEF ChunkedWire
  <2>4. ASSUME NEW x \in 1 .. n PROVE wire[k + 1 + x] = Byte(content[a + x])
    <3>1. k + 1 + x <= l
      BY <1>2, <1>3
    <3>2. QED
      BY <1>1, <3>1 DEF ChunkedWire
  <2>5. QED
    BY <2>2, <2>3, <2>4
<1>5. IsUnit(From(wire, i), "size") /\ wire[i][2] = n
  <2>1. i \in 1 .. Len(wire)
    BY <1>1, <1>3
  <2>2. QED
    BY <1>4, <2>1, SizeLineAt
<1>6. PICK v : v = From(wire, i + 1)
  OBVIOUS
<1>7. /\ v \in Seq(Units) /\ Len(v) = l - i
      /\ \A x \in 1 .. l - i : v[x] = wire[i + x]
  <2>1. i + 1 \in 1 .. Len(wire) + 1
    BY <1>1, <1>3
  <2>2. /\ v \in Seq(Units) /\ Len(v) = Len(wire) - (i + 1) + 1
        /\ \A x \in 1 .. Len(wire) - (i + 1) + 1 : v[x] = wire[i + 1 + x - 1]
    BY <1>6, <2>1, FromOf
  <2>3. l - (i + 1) + 1 = l - i /\ \A x \in 1 .. l - i : i + 1 + x - 1 = i + x
    BY <1>f
  <2>4. QED
    BY <1>1, <2>2, <2>3
<1>8. n + 1 <= l - i
  <2>1. k \in Nat
    BY <1>2
  <2>2. i = k + 1 /\ k + n + 2 <= l
    BY <1>3
  <2>3. QED
    BY <1>f, <2>1, <2>2
<1>9. ASSUME NEW x \in 1 .. n PROVE v[x] = Byte(content[a + x])
  <2>1. x \in 1 .. l - i
    BY <1>f, <1>8
  <2>2. v[x] = wire[k + 1 + x]
    <3>1. v[x] = wire[i + x]
      BY <1>7, <2>1
    <3>2. QED
      BY <1>3, <3>1
  <2>3. QED
    BY <1>4, <2>2
<1>10. ReadContentWithLength(v, n) = Result("Success", SubSeq(content, a + 1, b), From(v, n + 1))
  <2>1. content \in Seq(Range(content))
    BY ContentIs
  <2>2. n \in Nat /\ n <= l - i
    BY <1>f, <1>8
  <2>3. n <= Len(v) /\ a + n <= Len(content)
    BY <1>2, <1>7, <1>b, <2>2
  <2>4. ReadContentWithLength(v, n) = Result("Success", SubSeq(content, a + 1, a + n), From(v, n + 1))
    BY <1>2, <1>7, <1>9, <2>1, <2>2, <2>3, DataOnWire
  <2>5. QED
    BY <1>b, <2>4
<1>11. IsUnit(From(v, n + 1), "crlf")
  <2>a. n + 1 \in 1 .. l - i + 1 /\ n + 1 <= l - i
    BY <1>f, <1>8
  <2>1. n + 1 \in 1 .. Len(v) + 1 /\ n + 1 <= Len(v)
    BY <1>7, <2>a
  <2>b. n + 1 \in 1 .. l - i
    BY <1>f, <1>8
  <2>2. v[n + 1] = wire[i + (n + 1)]
    BY <1>7, <2>b
  <2>3. i + (n + 1) = k + n + 2
    BY <1>2, <1>3
  <2>4. v[n + 1][1] = "crlf"
    BY <1>4, <2>2, <2>3 DEF Crlf
  <2>5. QED
    BY <1>7, <2>1, <2>4, UnitAt
<1>12. ChunkData(wire, i) = Result("Success", SubSeq(content, a + 1, b), From(v, n + 1))
  BY <1>5, <1>6, <1>10 DEF ChunkData
<1>13. IsWhole(wire, i) /\ ChunkData(wire, i).body = SubSeq(content, a + 1, b)
  BY <1>11, <1>12 DEF IsWhole, Result
<1>14. QED
  BY <1>1, <1>5, <1>13

(* What the places of a body in chunks come to, back from the one where it *)
(* ends: later chunks only add their data.                                 *)
Ended(o, a, b, rest) ==
  Result(o, IF o = "Success" THEN SubSeq(content, a + 1, b) ELSE <<>>, rest)

EndedAt(e, j, b, o, rest) ==
  Chunking(wire)[Mark(e, j) + 1][e[j]] = Ended(o, e[j], b, rest)

LEMMA ChunkBack ==
  ASSUME content \in Bodies, wire \in Seq(Units), Sized(wire), NEW t,
         NEW m \in 0 .. Len(content), NEW e \in Ends(m, Len(content)),
         ChunkedWire(m, e, t), NEW j \in 1 .. m,
         Mark(e, j) <= Len(wire), e[j] <= PayloadMax,
         NEW b \in Nat, e[j] <= b, b <= Len(content), NEW o, NEW rest,
         EndedAt(e, j, b, o, rest)
  PROVE  EndedAt(e, j - 1, b, o, rest)
<1>1. PICK f, i, a, c, n : /\ f = Chunking(wire) /\ i = Mark(e, j - 1) + 1
                           /\ a = e[j - 1] /\ c = e[j] /\ n = c - a
  OBVIOUS
<1>a. PICK k, l, z : k = Mark(e, j - 1) /\ l = Len(wire) /\ z = Len(content)
  OBVIOUS
<1>2. /\ a \in Nat /\ c \in Nat /\ a < c /\ c <= z /\ z \in Nat
      /\ k \in Nat /\ Mark(e, j) = k + (c - a) + 2
  BY <1>1, <1>a, MarksOf
<1>3. Len(wire) \in Nat
  BY LenProperties
<1>4. k + (c - a) + 2 <= l /\ l \in Nat /\ i = k + 1 /\ c <= PayloadMax /\ n = c - a
  BY <1>1, <1>2, <1>3, <1>a
<1>5. i \in 1 .. l + 1 /\ a \in 0 .. PayloadMax /\ n \in Nat \ {0} /\ a + n = c
  <2>1. n \in Nat \ {0} /\ a + n = c
    BY <1>2, <1>4
  <2>2. i \in 1 .. l + 1
    BY <1>2, <1>4
  <2>3. a \in 0 .. PayloadMax
    BY <1>2, <1>4, PayloadAssumption
  <2>4. QED
    BY <2>1, <2>2, <2>3
<1>6. i + n + 2 = Mark(e, j) + 1
  <2>1. k + 1 + (c - a) + 2 = k + (c - a) + 2 + 1
    BY <1>2
  <2>2. QED
    BY <1>2, <1>4, <2>1
<1>7. /\ IsUnit(From(wire, i), "size") /\ wire[i][2] = n /\ IsWhole(wire, i)
      /\ ChunkData(wire, i).body = SubSeq(content, a + 1, c)
  BY <1>1, ChunkRead
<1>8. f[i][a] = ChunksFrom(wire, f, i, a)
  BY <1>1, <1>5, <1>a, ChunkingAt
<1>9. ChunksFrom(wire, f, i, a) = Followed(SubSeq(content, a + 1, c), f[i + n + 2][c])
  <2>1. wire[i][2] # 0 /\ a + wire[i][2] = c /\ i + wire[i][2] + 2 = i + n + 2
    BY <1>5, <1>7
  <2>2. ~ (c > PayloadMax)
    BY <1>2, <1>4, PayloadAssumption
  <2>3. ChunksFrom(wire, f, i, a) =
          Followed(ChunkData(wire, i).body, f[i + wire[i][2] + 2][a + wire[i][2]])
    BY <1>7, <2>1, <2>2, WholeChunk
  <2>4. QED
    BY <1>7, <2>1, <2>3
<1>10. f[i + n + 2][c] = Ended(o, c, b, rest)
  BY <1>1, <1>6 DEF EndedAt
<1>11. SubSeq(content, a + 1, c) \o SubSeq(content, c + 1, b) = SubSeq(content, a + 1, b)
  <2>1. content \in Seq(Range(content))
    BY ContentIs
  <2>2. b <= z /\ c <= b
    BY <1>1, <1>a
  <2>3. a + 1 \in 1 .. z + 1 /\ c \in (a + 1) - 1 .. z /\ b \in c .. z
    BY <1>2, <2>2
  <2>4. QED
    BY <1>a, <2>1, <2>3, ConcatAdjacentSubSeq
<1>12. f[i][a] = Followed(SubSeq(content, a + 1, c), Ended(o, c, b, rest))
  BY <1>8, <1>9, <1>10
<1>13. f[i][a] = Ended(o, a, b, rest)
  <2>1. CASE o = "Success"
    BY <1>11, <1>12, <2>1 DEF Followed, Ended, Result
  <2>2. CASE o # "Success"
    BY <1>12, <2>2 DEF Followed, Ended, Result
  <2>3. QED
    BY <2>1, <2>2
<1>14. QED
  BY <1>1, <1>13 DEF EndedAt

LEMMA ChunksBack ==
  ASSUME content \in Bodies, wire \in Seq(Units), Sized(wire), NEW t,
         NEW m \in 0 .. Len(content), NEW e \in Ends(m, Len(content)),
         ChunkedWire(m, e, t), NEW k \in 0 .. m,
         Mark(e, k) <= Len(wire), e[k] <= PayloadMax, NEW o, NEW rest,
         Chunking(wire)[Mark(e, k) + 1][e[k]] = Result(o, <<>>, rest)
  PROVE  ReadContentChunked(wire) = Ended(o, 0, e[k], rest)
<1>1. PICK f, b, z : f = Chunking(wire) /\ b = e[k] /\ z = Len(content)
  OBVIOUS
<1>2. z \in Nat /\ m \in Nat /\ e \in Ends(m, z) /\ k \in 0 .. m
  BY <1>1, ContentIs
<1>3. b \in 0 .. z /\ \A j \in 0 .. k : e[j] \in Nat /\ e[j] <= b
  <2>1. \A j \in 0 .. m : e[j] \in 0 .. z /\ \A i \in 0 .. j : e[i] <= e[j]
    BY <1>2, EndsGrow
  <2>2. QED
    BY <1>1, <1>2, <2>1
<1> DEFINE P == {d \in Nat : d <= k => EndedAt(e, k - d, b, o, rest)}
<1>4. 0 \in P
  <2>1. k - 0 = k
    BY <1>2
  <2>2. SubSeq(content, b + 1, b) = <<>>
    <3>1. b + 1 \in Int /\ b \in Int /\ b < b + 1
      BY <1>2, <1>3
    <3>2. QED
      BY <3>1, SubSeqEmpty
  <2>3. Ended(o, b, b, rest) = Result(o, <<>>, rest)
    BY <2>2 DEF Ended
  <2>4. EndedAt(e, k - 0, b, o, rest)
    BY <1>1, <2>1, <2>3 DEF EndedAt
  <2>5. QED
    BY <2>4
<1>5. ASSUME NEW d \in P PROVE d + 1 \in P
  <2>1. SUFFICES ASSUME d + 1 <= k
                 PROVE  EndedAt(e, k - (d + 1), b, o, rest)
    OBVIOUS
  <2>2. PICK j : j = k - d
    OBVIOUS
  <2>3. j \in 1 .. m /\ j \in 0 .. k /\ j - 1 = k - (d + 1) /\ d <= k
    BY <1>2, <2>1, <2>2
  <2>4. EndedAt(e, j, b, o, rest)
    BY <2>2, <2>3
  <2>5. e[j] <= b /\ b <= Len(content) /\ b \in Nat
    BY <1>1, <1>2, <1>3, <2>3
  <2>6. e[j] <= PayloadMax
    <3>1. e[j] \in Nat /\ b <= PayloadMax
      BY <1>1, <1>3, <2>3
    <3>2. QED
      BY <1>2, <1>3, <2>5, <3>1, PayloadAssumption
  <2>7. Mark(e, j) <= Len(wire)
    <3>1. PICK x, l : x = e[j] /\ l = Len(wire)
      OBVIOUS
    <3>2. x \in Nat /\ x <= b /\ b \in Nat /\ l \in Nat
      BY <1>3, <2>3, <2>5, <3>1, LenProperties
    <3>3. Mark(e, j) = x + 2 * j /\ Mark(e, k) = b + 2 * k
      BY <1>1, <3>1 DEF Mark
    <3>4. b + 2 * k <= l
      BY <3>1, <3>3
    <3>5. x + 2 * j <= l
      BY <1>2, <2>3, <3>2, <3>4
    <3>6. QED
      BY <3>1, <3>3, <3>5
  <2>8. EndedAt(e, j - 1, b, o, rest)
    <3>1. j \in 1 .. m
      BY <2>3
    <3> HIDE DEF P
    <3>2. QED
      BY <2>4, <2>5, <2>6, <2>7, <3>1, ChunkBack
  <2>9. QED
    BY <2>3, <2>8
<1>6. P = Nat
  <2>1. P \subseteq Nat
    OBVIOUS
  <2> HIDE DEF P
  <2>2. QED
    BY <1>4, <1>5, <2>1, Induction
<1>7. EndedAt(e, 0, b, o, rest)
  <2>1. k \in P
    <3> HIDE DEF P
    <3>1. QED
      BY <1>2, <1>6
  <2>2. k - k = 0 /\ k <= k
    BY <1>2
  <2>3. EndedAt(e, k - k, b, o, rest)
    BY <2>1, <2>2
  <2>4. QED
    BY <2>2, <2>3
<1>8. e[0] = 0 /\ Mark(e, 0) + 1 = 1
  BY <1>2 DEF Ends, Mark
<1>9. f[1][0] = Ended(o, 0, b, rest)
  BY <1>1, <1>7, <1>8 DEF EndedAt
<1>10. QED
  BY <1>1, <1>9, ChunkingIs

(* The ways a body in chunks ends.                                         *)
LEMMA LineMissing ==
  ASSUME wire \in Seq(Units), Sized(wire), NEW k \in Nat, Len(wire) = k,
         NEW got \in 0 .. PayloadMax
  PROVE  Chunking(wire)[k + 1][got] = Broken
<1>1. k + 1 \in 1 .. Len(wire) + 1 /\ ~ (k + 1 <= Len(wire))
  OBVIOUS
<1>2. ~IsUnit(From(wire, k + 1), "size")
  BY <1>1, UnitAt
<1>3. Chunking(wire)[k + 1][got] = ChunksFrom(wire, Chunking(wire), k + 1, got)
  BY <1>1, ChunkingAt
<1>4. QED
  BY <1>2, <1>3, NoSizeLine

(* The size line of the j-th chunk.                                        *)
Announced(e, j, i) ==
  /\ IsUnit(From(wire, i), "size") /\ wire[i][2] = e[j] - e[j - 1]
  /\ wire[i][2] \in Nat \ {0} /\ e[j - 1] + wire[i][2] = e[j] /\ e[j] \in Nat
  /\ i \in 1 .. Len(wire) /\ Len(wire) \in Nat
  /\ Chunking(wire)[i][e[j - 1]] = ChunksFrom(wire, Chunking(wire), i, e[j - 1])

LEMMA ChunkLine ==
  ASSUME content \in Bodies, wire \in Seq(Units), Sized(wire), NEW t,
         NEW m \in 0 .. Len(content), NEW e \in Ends(m, Len(content)),
         ChunkedWire(m, e, t), NEW j \in 1 .. m,
         Mark(e, j - 1) + 1 <= Len(wire), e[j - 1] <= PayloadMax
  PROVE  Announced(e, j, Mark(e, j - 1) + 1)
<1>1. PICK a, b, k, l, n, i : /\ a = e[j - 1] /\ b = e[j] /\ k = Mark(e, j - 1)
                              /\ l = Len(wire) /\ n = b - a /\ i = Mark(e, j - 1) + 1
  OBVIOUS
<1>2. a \in Nat /\ b \in Nat /\ a < b /\ k \in Nat
  BY <1>1, MarksOf
<1>3. Len(wire) \in Nat
  BY LenProperties
<1>a. l \in Nat /\ i = k + 1 /\ i <= l /\ a <= PayloadMax /\ n = b - a
  BY <1>1, <1>3
<1>4. i \in 1 .. l /\ i \in 1 .. l + 1
  BY <1>2, <1>a
<1>b. n \in Nat \ {0} /\ a + n = b
  BY <1>2, <1>a
<1>c. a \in 0 .. PayloadMax
  BY <1>2, <1>a, PayloadAssumption
<1>5. wire[i] = SizeLine(n)
  <2>2. wire[Mark(e, j - 1) + 1] = SizeLine(e[j] - e[j - 1])
    BY DEF ChunkedWire
  <2>3. QED
    BY <1>1, <2>2
<1>6. IsUnit(From(wire, i), "size") /\ wire[i][2] = n
  BY <1>1, <1>4, <1>5, SizeLineAt
<1>7. Chunking(wire)[i][a] = ChunksFrom(wire, Chunking(wire), i, a)
  BY <1>1, <1>4, <1>c, ChunkingAt
<1>8. i \in 1 .. Len(wire)
  BY <1>1, <1>4
<1>9. wire[i][2] \in Nat \ {0} /\ a + wire[i][2] = b
  BY <1>6, <1>b
<1>10. QED
  BY <1>1, <1>2, <1>3, <1>6, <1>7, <1>8, <1>9 DEF Announced

LEMMA ChunkCutShort ==
  ASSUME content \in Bodies, wire \in Seq(Units), Sized(wire), NEW t,
         NEW m \in 0 .. Len(content), NEW e \in Ends(m, Len(content)),
         ChunkedWire(m, e, t), NEW j \in 1 .. m, e[j] <= PayloadMax,
         Mark(e, j - 1) + 1 <= Len(wire), Len(wire) < Mark(e, j)
  PROVE  Chunking(wire)[Mark(e, j - 1) + 1][e[j - 1]] = Broken
<1>1. PICK a, b, i : a = e[j - 1] /\ b = e[j] /\ i = Mark(e, j - 1) + 1
  OBVIOUS
<1>2. a \in Nat /\ b \in Nat /\ a < b /\ i - 1 \in Nat /\ Mark(e, j) = (i - 1) + (b - a) + 2
  <2>1. /\ e[j - 1] \in Nat /\ e[j] \in Nat /\ e[j - 1] < e[j] /\ Mark(e, j - 1) \in Nat
        /\ Mark(e, j) = Mark(e, j - 1) + (e[j] - e[j - 1]) + 2
    BY MarksOf
  <2>2. i - 1 = Mark(e, j - 1)
    BY <1>1, <2>1
  <2>3. QED
    BY <1>1, <2>1, <2>2
<1>a. b <= PayloadMax
  BY <1>1
<1>3. a <= PayloadMax /\ ~ (b > PayloadMax)
  BY <1>2, <1>a, PayloadAssumption
<1>b. e[j - 1] <= PayloadMax
  BY <1>1, <1>3
<1>4. PICK n : n = wire[i][2]
  OBVIOUS
<1>5. /\ IsUnit(From(wire, i), "size") /\ n = b - a
      /\ n \in Nat \ {0} /\ a + n = b /\ i \in 1 .. Len(wire) /\ Len(wire) \in Nat
      /\ Chunking(wire)[i][a] = ChunksFrom(wire, Chunking(wire), i, a)
  <2>1. Announced(e, j, i)
    BY <1>1, <1>b, ChunkLine
  <2>2. QED
    BY <1>1, <1>4, <2>1 DEF Announced
<1>6. ~IsWhole(wire, i)
  <2>1. SUFFICES ASSUME IsWhole(wire, i) PROVE FALSE
    OBVIOUS
  <2>2. PICK data : data = ReadContentWithLength(From(wire, i + 1), n)
    OBVIOUS
  <2>3. data.outcome = "Success" /\ IsUnit(data.rest, "crlf")
    BY <1>4, <2>1, <2>2 DEF IsWhole, ChunkData
  <2>4. n \in Nat
    BY <1>5
  <2>5. i + n + 1 <= Len(wire)
    BY <1>5, <2>2, <2>3, <2>4, ChunkFits
  <2>6. PICK l, k : l = Len(wire) /\ k = Mark(e, j)
    OBVIOUS
  <2>7. l < k /\ k = (i - 1) + (b - a) + 2 /\ i + n + 1 <= l
    BY <1>2, <2>5, <2>6
  <2>8. l \in Nat /\ i \in Nat /\ n = b - a
    BY <1>5, <2>6
  <2>9. QED
    BY <1>2, <2>7, <2>8
<1>7. ChunksFrom(wire, Chunking(wire), i, a) = Broken
  <2>1. wire[i][2] # 0 /\ ~ (a + wire[i][2] > PayloadMax)
    BY <1>3, <1>4, <1>5
  <2>2. QED
    BY <1>5, <1>6, <2>1, BrokenChunk
<1>8. QED
  BY <1>1, <1>5, <1>7

LEMMA ChunkTooLong ==
  ASSUME content \in Bodies, wire \in Seq(Units), Sized(wire), NEW t,
         NEW m \in 0 .. Len(content), NEW e \in Ends(m, Len(content)),
         ChunkedWire(m, e, t), NEW j \in 1 .. m,
         e[j - 1] <= PayloadMax, PayloadMax < e[j], Mark(e, j - 1) + 1 <= Len(wire)
  PROVE  \E rest : Chunking(wire)[Mark(e, j - 1) + 1][e[j - 1]] =
                     Result("PayloadTooLarge", <<>>, rest)
<1>1. PICK i, a, b : i = Mark(e, j - 1) + 1 /\ a = e[j - 1] /\ b = e[j]
  OBVIOUS
<1>2. /\ IsUnit(From(wire, i), "size")
      /\ wire[i][2] \in Nat \ {0} /\ a + wire[i][2] = b /\ b \in Nat
      /\ Chunking(wire)[i][a] = ChunksFrom(wire, Chunking(wire), i, a)
  <2>1. Announced(e, j, i)
    BY <1>1, ChunkLine
  <2>2. QED
    BY <1>1, <2>1 DEF Announced
<1>3. b > PayloadMax
  BY <1>1, <1>2, PayloadAssumption
<1>4. a + wire[i][2] > PayloadMax /\ wire[i][2] # 0
  BY <1>2, <1>3
<1>5. ChunksFrom(wire, Chunking(wire), i, a) = Result("PayloadTooLarge", <<>>, From(wire, i + 1))
  BY <1>2, <1>4, LongSizeLine
<1>6. QED
  BY <1>1, <1>2, <1>5

(* Whether a trailer line is tolerable depends on the lines up to it.      *)
LEMMA TolerableSame ==
  ASSUME NEW v, NEW g, NEW x \in Nat \ {0}, \A y \in 1 .. x : v[y] = g[y]
  PROVE  Tolerable(v, x) <=> Tolerable(g, x)
<1>1. v[x] = g[x]
  OBVIOUS
<1>2. {y \in 1 .. x - 1 : v[y][2].declared} = {y \in 1 .. x - 1 : g[y][2].declared}
  <2>1. \A y \in 1 .. x - 1 : v[y] = g[y]
    OBVIOUS
  <2>2. QED
    BY <2>1
<1>3. QED
  BY <1>1, <1>2 DEF Tolerable, Declared

(* What the trailer section comes to: missing, cut short or whole.         *)
LEMMA TrailersAre ==
  ASSUME NEW U, NEW v \in Seq(U), NEW n \in Nat, NEW g,
         \A x \in 1 .. n : x <= Len(v) => v[x] = g[x] /\ v[x][1] = "field",
         n + 1 <= Len(v) => v[n + 1][1] = "crlf"
  PROVE  SkipTrailers(v).found <=>
           \/ Len(v) = 0
           \/ OverLong(v[1])
           \/ n < Len(v) /\ \A x \in 1 .. n : Tolerable(g, x)
<1>1. PICK l : l = Len(v)
  OBVIOUS
<1>2. l \in Nat
  BY <1>1, LenProperties
<1> DEFINE Fits(k) == /\ \A i \in 1 .. k : v[i][1] = "field"
                      /\ k = l \/ v[k + 1][1] # "field"
<1>3. PICK q : q = CHOOSE k \in 0 .. l : Fits(k)
  OBVIOUS
<1>4. PICK s : s = IF n < l THEN n ELSE l
  OBVIOUS
<1>5. s \in 0 .. l /\ s <= n /\ (n < l => s = n) /\ (~ (n < l) => s = l)
  BY <1>2, <1>4
<1>6. Fits(s)
  <2>1. ASSUME NEW i \in 1 .. s PROVE v[i][1] = "field"
    <3>1. i \in 1 .. n /\ i <= l
      BY <1>2, <1>5
    <3>2. QED
      BY <1>1, <3>1
  <2>2. s = l \/ v[s + 1][1] # "field"
    <3>1. CASE n < l
      <4>1. n + 1 <= l
        BY <1>2, <3>1
      <4>2. v[n + 1][1] = "crlf"
        BY <1>1, <4>1
      <4>3. QED
        BY <1>5, <3>1, <4>2
    <3>2. CASE ~ (n < l)
      BY <1>5, <3>2
    <3>3. QED
      BY <3>1, <3>2
  <2>3. QED
    BY <2>1, <2>2
<1>7. ASSUME NEW k \in 0 .. l, Fits(k) PROVE k = s
  <2>1. CASE k < s
    <3>1. k + 1 \in 1 .. n /\ k + 1 <= l /\ k # l
      BY <1>2, <1>5, <2>1
    <3>2. v[k + 1][1] = "field"
      BY <1>1, <3>1
    <3>3. QED
      BY <1>7, <3>1, <3>2
  <2>2. CASE s < k
    <3>1. n < l /\ s = n /\ n + 1 <= l /\ n + 1 \in 1 .. k
      BY <1>2, <1>5, <2>2
    <3>2. v[n + 1][1] = "crlf"
      BY <1>1, <3>1
    <3>3. v[n + 1][1] = "field"
      BY <1>7, <3>1
    <3>4. QED
      BY <3>2, <3>3
  <2>3. QED
    BY <1>5, <2>1, <2>2
<1>8. q = s
  <2> HIDE DEF Fits
  <2>1. q \in 0 .. l /\ Fits(q)
    BY <1>3, <1>5, <1>6
  <2>2. QED
    BY <1>7, <2>1
<1>9. PICK long, whole : /\ long = (v # <<>> /\ OverLong(Head(v)))
                         /\ whole = (\/ v = <<>>
                                     \/ /\ IsUnit(From(v, q + 1), "crlf")
                                        /\ \A i \in 1 .. q : Tolerable(v, i))
  OBVIOUS
<1>a. SkipTrailers(v) = IF long THEN [found |-> TRUE, rest |-> v]
                        ELSE [found |-> whole, rest |-> From(v, q + 2)]
  BY <1>1, <1>3, <1>9 DEF SkipTrailers
<1>b. v # <<>> => Head(v) = v[1]
  OBVIOUS
<1>c. SkipTrailers(v).found <=> long \/ whole
  <2>1. CASE long
    <3>1. SkipTrailers(v) = [found |-> TRUE, rest |-> v]
      BY <1>a, <2>1
    <3>2. SkipTrailers(v).found = TRUE
      BY <3>1
    <3>3. QED
      BY <2>1, <3>2, Zenon
  <2>2. CASE ~long
    <3>1. SkipTrailers(v) = [found |-> whole, rest |-> From(v, q + 2)]
      BY <1>a, <2>2
    <3>2. SkipTrailers(v).found = whole
      BY <3>1
    <3>3. QED
      BY <2>2, <3>2, Zenon
  <2>3. QED
    BY <2>1, <2>2
<1>10. SkipTrailers(v).found <=>
         \/ v = <<>> \/ OverLong(v[1])
         \/ IsUnit(From(v, s + 1), "crlf") /\ \A i \in 1 .. s : Tolerable(v, i)
  BY <1>8, <1>9, <1>b, <1>c, Zenon
<1>11. v = <<>> <=> l = 0
  BY <1>1, EmptySeq
<1>12. IsUnit(From(v, s + 1), "crlf") <=> s + 1 <= l /\ v[s + 1][1] = "crlf"
  <2>1. s + 1 \in 1 .. Len(v) + 1
    BY <1>1, <1>2, <1>5
  <2>2. QED
    BY <1>1, <2>1, UnitAt
<1>13. s + 1 <= l /\ v[s + 1][1] = "crlf" <=> n < l
  <2>1. CASE n < l
    <3>1. s + 1 <= l /\ n + 1 <= l /\ s = n
      BY <1>2, <1>5, <2>1
    <3>2. QED
      BY <1>1, <2>1, <3>1
  <2>2. CASE ~ (n < l)
    <3>1. ~ (s + 1 <= l)
      BY <1>2, <1>5, <2>2
    <3>2. QED
      BY <2>2, <3>1
  <2>3. QED
    BY <2>1, <2>2
<1>14. ASSUME n < l
       PROVE  (\A i \in 1 .. s : Tolerable(v, i)) <=> \A x \in 1 .. n : Tolerable(g, x)
  <2>1. s = n
    BY <1>5, <1>14
  <2>2. ASSUME NEW x \in 1 .. n PROVE Tolerable(v, x) <=> Tolerable(g, x)
    <3>1. x \in Nat \ {0}
      OBVIOUS
    <3>2. ASSUME NEW y \in 1 .. x PROVE v[y] = g[y]
      <4>1. y \in 1 .. n /\ y <= l
        BY <1>2, <1>14
      <4>2. QED
        BY <1>1, <4>1
    <3>3. QED
      BY <3>1, <3>2, TolerableSame
  <2>3. QED
    BY <2>1, <2>2
<1>15. QED
  BY <1>1, <1>10, <1>11, <1>12, <1>13, <1>14

(* The lengths on the wire are numbers.                                    *)
LEMMA UnitSized ==
  ASSUME NEW S, NEW T, NEW x \in AnyUnit(S, T), x[1] = "size"
  PROVE  x[2] \in Nat
<1>1. CASE x \in {"byte"} \X S
  <2>1. x[1] = "byte"
    BY <1>1
  <2>2. QED
    BY <2>1
<1>2. CASE x \in {"size"} \X Nat
  BY <1>2
<1>3. CASE x = Crlf
  <2>1. x[1] = "crlf"
    BY <1>3 DEF Crlf
  <2>2. QED
    BY <2>1
<1>4. CASE x \in {"field"} \X T
  <2>1. x[1] = "field"
    BY <1>4
  <2>2. QED
    BY <2>1
<1>5. CASE x \in Range(Following)
  BY <1>5, SizesAssumption
<1>6. QED
  BY <1>1, <1>2, <1>3, <1>4, <1>5 DEF AnyUnit

LEMMA CutSized ==
  ASSUME NEW S, NEW T, NEW w \in Seq(AnyUnit(S, T)), NEW k \in 0 .. Len(w),
         wire = SubSeq(w, 1, k), net = wire, buf = <<>>
  PROVE  Sized(wire)
<1>1. PICK U : U = AnyUnit(S, T)
  OBVIOUS
<1>2. w \in Seq(U)
  BY <1>1
<1>3. /\ Len(wire) = k /\ k <= Len(w)
      /\ \A i \in 1 .. Len(w) : i <= Len(wire) => wire[i] = w[i]
  BY <1>2, WireIsCut
<1>4. Len(w) \in Nat
  BY <1>2, LenProperties
<1>5. ASSUME NEW i \in 1 .. Len(wire), wire[i][1] = "size" PROVE wire[i][2] \in Nat
  <2>1. i \in 1 .. Len(w) /\ i <= Len(wire)
    BY <1>3, <1>4
  <2>2. w[i] \in U /\ wire[i] = w[i]
    BY <1>2, <1>3, <2>1, ElementOfSeq
  <2>3. PICK x : x = wire[i]
    OBVIOUS
  <2>4. x \in AnyUnit(S, T) /\ x[1] = "size"
    BY <1>1, <1>5, <2>2, <2>3
  <2>5. QED
    BY <2>3, <2>4, UnitSized
<1>6. QED
  BY <1>5 DEF Sized

LEMMA StartsSized == StreamInit => Sized(wire)
<1>1. SUFFICES ASSUME StreamInit PROVE Sized(wire)
  OBVIOUS
<1>2. content \in Bodies /\ net = wire /\ buf = <<>>
  BY <1>1 DEF StreamInit
<1>3. content \in Seq(Range(content)) /\ Len(content) \in Nat
  BY <1>2, ContentIs
<1>4. PICK s \in Encodings(content) : \E k \in 0 .. Len(s[2]) :
               framing = s[1] /\ wire = SubSeq(s[2], 1, k)
  BY <1>1 DEF StreamInit
<1>5. PICK k, w : w = s[2] /\ k \in 0 .. Len(w) /\ wire = SubSeq(w, 1, k)
  BY <1>4
<1>6. SUFFICES \E S, T : w \in Seq(AnyUnit(S, T))
  BY <1>2, <1>5, CutSized
<1>7. WriteData(content) \in Seq(AnyUnit(Range(content), {}))
  BY <1>3, WriteDataOf
<1>8. CASE s = <<Counted(Len(content)), WriteData(content) \o Following>>
  <2>1. w = WriteData(content) \o Following
    BY <1>5, <1>8
  <2>2. Following \in Seq(AnyUnit(Range(content), {}))
    BY FollowingUnits
  <2>3. w \in Seq(AnyUnit(Range(content), {}))
    BY <1>7, <2>1, <2>2, ConcatAt
  <2>4. QED
    BY <2>3
<1>9. CASE s = <<ToTheEnd, WriteData(content)>>
  <2>1. w = WriteData(content)
    BY <1>5, <1>9
  <2>2. QED
    BY <1>7, <2>1
<1> DEFINE inChunks ==
      {<<Chunked, WriteChunked(p, t) \o Following>> : p \in Cuts(content), t \in Trailers}
<1>10. CASE s \in inChunks
  <2>1. PICK p \in Cuts(content), t \in Trailers : s = <<Chunked, WriteChunked(p, t) \o Following>>
    BY <1>10
  <2>2. PICK m \in 0 .. Len(content) : p \in {CutAt(content, m, e) : e \in Ends(m, Len(content))}
    BY DEF Cuts
  <2>3. PICK e \in Ends(m, Len(content)) : p = CutAt(content, m, e)
    BY <2>2
  <2>4. w = WriteChunked(CutAt(content, m, e), t) \o Following
    BY <1>5, <2>1, <2>3
  <2>5. t \in Seq(Range(t)) /\ m \in Nat
    BY <1>3, SequencesAssumption
  <2>6. w \in Seq(AnyUnit(Range(content), Range(t)))
    BY <1>3, <2>4, <2>5, ChunkedLayout
  <2>7. QED
    BY <2>6
<1>11. \/ s = <<Counted(Len(content)), WriteData(content) \o Following>>
       \/ s = <<ToTheEnd, WriteData(content)>>
       \/ s \in inChunks
  BY SMTT(60) DEF Encodings
<1> HIDE DEF inChunks
<1>12. QED
  BY <1>8, <1>9, <1>10, <1>11

LEMMA StaysSized == Sized(wire) /\ [StreamNext]_streamVars => Sized(wire)'
<1>1. SUFFICES ASSUME Sized(wire), [StreamNext]_streamVars PROVE Sized(wire')
  BY DEF Sized
<1>2. wire' = wire
  BY <1>1, Kept DEF streamVars
<1>3. QED
  BY <1>1, <1>2

(* The last size line: what follows is the trailer section.                *)
LEMMA LastLine ==
  ASSUME content \in Bodies, wire \in Seq(Units), Sized(wire), NEW t, Len(t) \in Nat,
         NEW m \in 0 .. Len(content), NEW e \in Ends(m, Len(content)),
         ChunkedWire(m, e, t), e[m] <= PayloadMax, NEW k, k = Mark(e, m) + 1,
         k <= Len(wire)
  PROVE  /\ Chunking(wire)[k][e[m]] = TrailerResult(wire, k)
         /\ SkipTrailers(From(wire, k + 1)).found <=>
              \/ Len(wire) = k
              \/ LongFirst(m, e, t)
              \/ k + Len(t) < Len(wire) /\ \A x \in 1 .. Len(t) : Tolerable(TrailerUnits(t), x)
<1>1. PICK z, l, n, a, v : /\ z = Len(content) /\ l = Len(wire) /\ n = Len(t)
                           /\ a = e[m] /\ v = From(wire, k + 1)
  OBVIOUS
<1>2. z \in Nat /\ m \in Nat /\ e \in Ends(m, z)
  BY <1>1, ContentIs
<1>3. a \in Nat /\ Mark(e, m) = a + 2 * m /\ a <= PayloadMax
  BY <1>1, <1>2 DEF Ends, Mark
<1>4. k \in Nat \ {0} /\ l \in Nat /\ n \in Nat /\ k <= l
  BY <1>1, <1>2, <1>3, LenProperties
<1>5. wire[k] = SizeLine(0)
  BY DEF ChunkedWire
<1>6. IsUnit(From(wire, k), "size") /\ wire[k][2] = 0
  <2>1. k \in 1 .. l
    BY <1>4
  <2>2. QED
    BY <1>1, <1>5, <2>1, SizeLineAt
<1>7. Chunking(wire)[k][a] = ChunksFrom(wire, Chunking(wire), k, a)
  <2>1. a \in 0 .. PayloadMax
    BY <1>3, PayloadAssumption
  <2>2. k \in 1 .. l + 1
    BY <1>4
  <2>3. QED
    BY <1>1, <2>1, <2>2, ChunkingAt
<1>8. Chunking(wire)[k][a] = TrailerResult(wire, k)
  BY <1>6, <1>7, LastSizeLine
<1>9. /\ v \in Seq(Units) /\ Len(v) = l - k
      /\ \A x \in 1 .. l - k : v[x] = wire[k + x]
  <2>1. k + 1 \in 1 .. l + 1
    BY <1>4
  <2>2. /\ v \in Seq(Units) /\ Len(v) = l - (k + 1) + 1
        /\ \A x \in 1 .. l - (k + 1) + 1 : v[x] = wire[k + 1 + x - 1]
    BY <1>1, <2>1, FromOf
  <2>3. l - (k + 1) + 1 = l - k
    BY <1>4
  <2>4. ASSUME NEW x \in 1 .. l - k PROVE v[x] = wire[k + x]
    <3>1. k + 1 + x - 1 = k + x /\ x \in 1 .. l - (k + 1) + 1
      BY <1>4
    <3>2. QED
      BY <2>2, <3>1
  <2>5. QED
    BY <2>2, <2>3, <2>4
<1>10. ASSUME NEW x \in 1 .. n, x <= Len(v)
       PROVE  v[x] = TrailerUnits(t)[x] /\ v[x][1] = "field" /\ v[x] = Field(t[x])
  <2>1. x \in 1 .. l - k /\ k + x <= l
    BY <1>4, <1>9, <1>10
  <2>2. v[x] = wire[k + x]
    BY <1>9, <2>1
  <2>3. wire[k + x] = Field(t[x])
    BY <1>1, <2>1 DEF ChunkedWire
  <2>4. TrailerUnits(t)[x] = Field(t[x])
    BY <1>1 DEF TrailerUnits
  <2>5. QED
    BY <2>2, <2>3, <2>4 DEF Field
<1>11. ASSUME n + 1 <= Len(v) PROVE v[n + 1][1] = "crlf"
  <2>1. n + 1 \in 1 .. l - k /\ k + (n + 1) <= l /\ k + (n + 1) = Mark(e, m) + n + 2
    <3>1. k = a + 2 * m + 1
      BY <1>3
    <3>2. a + 2 * m + 1 + (n + 1) = a + 2 * m + n + 2
      BY <1>2, <1>3, <1>4
    <3>3. n + 1 \in 1 .. l - k /\ k + (n + 1) <= l
      BY <1>4, <1>9, <1>11
    <3>4. QED
      BY <1>3, <3>1, <3>2, <3>3
  <2>2. v[n + 1] = wire[k + (n + 1)]
    BY <1>9, <2>1
  <2>3. wire[Mark(e, m) + n + 2] = Crlf
    <3>1. Mark(e, m) + n + 2 <= l
      BY <2>1
    <3>2. QED
      BY <1>1, <3>1 DEF ChunkedWire
  <2>4. QED
    BY <2>1, <2>2, <2>3 DEF Crlf
<1>12. PICK g : g = TrailerUnits(t)
  OBVIOUS
<1>13. SkipTrailers(v).found <=>
         \/ Len(v) = 0
         \/ OverLong(v[1])
         \/ n < Len(v) /\ \A x \in 1 .. n : Tolerable(g, x)
  <2>1. \A x \in 1 .. n : x <= Len(v) => v[x] = g[x] /\ v[x][1] = "field"
    BY <1>10, <1>12
  <2>2. QED
    BY <1>4, <1>9, <1>11, <2>1, TrailersAre
<1>14. (Len(v) = 0 <=> l = k) /\ (n < Len(v) <=> k + n < l)
  BY <1>4, <1>9
<1>15. ASSUME Len(v) # 0 PROVE OverLong(v[1]) <=> LongFirst(m, e, t)
  <2>1. 1 <= Len(v) /\ Len(v) \in Nat /\ k + 1 <= l
    BY <1>4, <1>9, <1>15
  <2>2. Mark(e, m) + 2 <= l
    <3>1. Mark(e, m) + 2 = k + 1
      BY <1>3
    <3>2. QED
      BY <2>1, <3>1
  <2>3. CASE n = 0
    <3>1. v[0 + 1][1] = "crlf" /\ 0 + 1 = 1
      BY <1>11, <2>1, <2>3
    <3>2. QED
      BY <1>1, <2>3, <3>1 DEF OverLong, LongFirst
  <2>4. CASE n # 0
    <3>1. 1 \in 1 .. n /\ n > 0
      BY <1>4, <2>4
    <3>2. v[1] = Field(t[1])
      BY <1>10, <2>1, <3>1
    <3>3. QED
      BY <1>1, <2>2, <3>1, <3>2 DEF LongFirst
  <2>5. QED
    BY <2>3, <2>4
<1>16. ASSUME Len(v) = 0 PROVE ~LongFirst(m, e, t)
  <2>1. l = k /\ k = Mark(e, m) + 1 /\ Mark(e, m) \in Nat
    BY <1>3, <1>14, <1>16
  <2>2. ~ (Mark(e, m) + 2 <= l)
    BY <2>1
  <2>3. QED
    BY <1>1, <2>2 DEF LongFirst
<1>17. QED
  BY <1>1, <1>8, <1>12, <1>13, <1>14, <1>15, <1>16

(* The three results of a body in chunks.                                  *)
LEMMA ChunkedTooLong ==
  ASSUME content \in Bodies, wire \in Seq(Units), Sized(wire), NEW t,
         NEW m \in 0 .. Len(content), NEW e \in Ends(m, Len(content)),
         ChunkedWire(m, e, t), TooMuch(m, e)
  PROVE  ReadContentChunked(wire).outcome = "PayloadTooLarge"
<1>1. PICK j \in 1 .. m : /\ e[j - 1] <= PayloadMax /\ PayloadMax < e[j]
                          /\ Mark(e, j - 1) + 1 <= Len(wire)
  BY DEF TooMuch
<1>2. PICK rest : Chunking(wire)[Mark(e, j - 1) + 1][e[j - 1]] =
                     Result("PayloadTooLarge", <<>>, rest)
  BY <1>1, ChunkTooLong
<1>3. PICK k : k = j - 1
  OBVIOUS
<1>4. k \in 0 .. m /\ Mark(e, k) \in Nat
  <2>1. m \in Nat /\ Mark(e, j - 1) \in Nat
    BY MarksOf
  <2>2. QED
    BY <1>3, <2>1
<1>5. Mark(e, k) <= Len(wire) /\ e[k] <= PayloadMax
  <2>1. PICK x, l : x = Mark(e, k) /\ l = Len(wire)
    OBVIOUS
  <2>2. x \in Nat /\ l \in Nat /\ x + 1 <= l
    BY <1>1, <1>3, <1>4, <2>1, LenProperties
  <2>3. x <= l
    BY <2>2
  <2>4. QED
    BY <1>1, <1>3, <2>1, <2>3
<1>6. Chunking(wire)[Mark(e, k) + 1][e[k]] = Result("PayloadTooLarge", <<>>, rest)
  BY <1>2, <1>3
<1>7. ReadContentChunked(wire) = Ended("PayloadTooLarge", 0, e[k], rest)
  BY <1>4, <1>5, <1>6, ChunksBack
<1>8. QED
  BY <1>7 DEF Ended, Result

LEMMA ChunkedCutShort ==
  ASSUME content \in Bodies, wire \in Seq(Units), Sized(wire), NEW t, Len(t) \in Nat,
         NEW m \in 0 .. Len(content), NEW e \in Ends(m, Len(content)),
         ChunkedWire(m, e, t), BrokenOff(m, e, t)
  PROVE  ReadContentChunked(wire).outcome = "Error"
<1>1. PICK j \in 0 .. m : /\ e[j] <= PayloadMax /\ Mark(e, j) <= Len(wire)
                          /\ EndsAt(m, e, t, j)
  BY DEF BrokenOff
<1>2. PICK z, a, k, l : z = Len(content) /\ a = e[j] /\ k = Mark(e, j) /\ l = Len(wire)
  OBVIOUS
<1>3. z \in Nat /\ m \in Nat /\ e \in Ends(m, z) /\ l \in Nat
  BY <1>2, ContentIs, LenProperties
<1>4. a \in Nat /\ k \in Nat /\ k <= l /\ a <= PayloadMax
  <2>1. a \in 0 .. z
    BY <1>2, <1>3, EndsGrow
  <2>2. k = a + 2 * j
    BY <1>2 DEF Mark
  <2>3. QED
    BY <1>1, <1>2, <1>3, <2>1, <2>2
<1>5. Chunking(wire)[k + 1][a] = Broken
  <2>1. CASE l = k
    <3>1. a \in 0 .. PayloadMax
      BY <1>4, PayloadAssumption
    <3>2. QED
      BY <1>2, <1>4, <2>1, <3>1, LineMissing
  <2>2. CASE l # k /\ j < m /\ e[j + 1] <= PayloadMax /\ l < Mark(e, j + 1)
    <3>1. PICK i : i = j + 1
      OBVIOUS
    <3>2. i \in 1 .. m /\ i - 1 = j
      BY <1>3, <2>2, <3>1
    <3>3. k + 1 <= l
      BY <1>3, <1>4, <2>2
    <3>4. e[i] <= PayloadMax /\ Mark(e, i - 1) + 1 <= Len(wire) /\ Len(wire) < Mark(e, i)
      BY <1>2, <2>2, <3>1, <3>2, <3>3
    <3>5. Chunking(wire)[Mark(e, i - 1) + 1][e[i - 1]] = Broken
      BY <3>2, <3>4, ChunkCutShort
    <3>6. QED
      BY <1>2, <3>2, <3>5
  <2>3. CASE /\ j = m /\ Mark(e, m) + 1 < l /\ l < Mark(e, m) + Len(t) + 2
             /\ ~OverLong(Field(t[1]))
    <3>1. PICK x, n : x = k + 1 /\ n = Len(t)
      OBVIOUS
    <3>2. x \in Nat /\ n \in Nat /\ x < l /\ l < k + n + 2
      BY <1>2, <1>4, <2>3, <3>1
    <3>3. x <= l /\ l # x /\ ~ (x + n < l)
      BY <1>3, <1>4, <3>1, <3>2
    <3>4. /\ Chunking(wire)[x][e[m]] = TrailerResult(wire, x)
          /\ SkipTrailers(From(wire, x + 1)).found <=>
               \/ Len(wire) = x
               \/ LongFirst(m, e, t)
               \/ /\ x + Len(t) < Len(wire)
                  /\ \A y \in 1 .. Len(t) : Tolerable(TrailerUnits(t), y)
      <4>1. e[m] <= PayloadMax /\ x = Mark(e, m) + 1 /\ x <= Len(wire)
        BY <1>1, <1>2, <2>3, <3>1, <3>3
      <4>2. QED
        BY <4>1, LastLine
    <3>5. ~ SkipTrailers(From(wire, x + 1)).found
      BY <1>2, <2>3, <3>1, <3>3, <3>4 DEF LongFirst
    <3>6. QED
      BY <1>2, <2>3, <3>1, <3>4, <3>5 DEF TrailerResult
  <2>4. QED
    BY <1>1, <1>2, <2>1, <2>2, <2>3 DEF EndsAt
<1>6. Chunking(wire)[Mark(e, j) + 1][e[j]] = Result("Error", <<>>, <<>>)
  BY <1>2, <1>5 DEF Broken
<1>7. ReadContentChunked(wire) = Ended("Error", 0, e[j], <<>>)
  BY <1>1, <1>6, ChunksBack
<1>8. QED
  BY <1>7 DEF Ended, Result

LEMMA ChunkedBadTrailer ==
  ASSUME content \in Bodies, wire \in Seq(Units), Sized(wire), NEW t, Len(t) \in Nat,
         NEW m \in 0 .. Len(content), NEW e \in Ends(m, Len(content)),
         ChunkedWire(m, e, t), BadTrailer(m, e, t)
  PROVE  ReadContentChunked(wire).outcome = "Error"
<1>1. PICK q \in 1 .. Len(t) :
        Mark(e, m) + 1 + q <= Len(wire) /\ ~Tolerable(TrailerUnits(t), q)
  BY DEF BadTrailer
<1>2. PICK z, k, l : z = Len(content) /\ k = Mark(e, m) + 1 /\ l = Len(wire)
  OBVIOUS
<1>3. z \in Nat /\ m \in Nat /\ e \in Ends(m, z) /\ l \in Nat
  BY <1>2, ContentIs, LenProperties
<1>4. e[m] = z /\ Mark(e, m) = z + 2 * m /\ e[m] <= PayloadMax
  BY <1>2, <1>3 DEF Ends, Mark, BadTrailer
<1>5. k \in Nat /\ k + q <= l /\ q \in Nat \ {0}
  BY <1>1, <1>2, <1>3, <1>4
<1>6. k <= l /\ k # l
  BY <1>3, <1>5
<1>7. /\ Chunking(wire)[k][e[m]] = TrailerResult(wire, k)
      /\ SkipTrailers(From(wire, k + 1)).found <=>
           \/ Len(wire) = k
           \/ LongFirst(m, e, t)
           \/ k + Len(t) < Len(wire) /\ \A x \in 1 .. Len(t) : Tolerable(TrailerUnits(t), x)
  BY <1>2, <1>4, <1>6, LastLine
<1>8. ~SkipTrailers(From(wire, k + 1)).found
  BY <1>1, <1>2, <1>6, <1>7 DEF LongFirst, BadTrailer
<1>9. Chunking(wire)[Mark(e, m) + 1][e[m]] = Result("Error", <<>>, <<>>)
  BY <1>2, <1>7, <1>8 DEF TrailerResult, Broken
<1>10. Mark(e, m) <= Len(wire) /\ m \in 0 .. m
  BY <1>2, <1>3, <1>4, <1>6
<1>11. ReadContentChunked(wire) = Ended("Error", 0, e[m], <<>>)
  BY <1>4, <1>9, <1>10, ChunksBack
<1>12. QED
  BY <1>11 DEF Ended, Result

LEMMA ChunkedWhole ==
  ASSUME content \in Bodies, Buffered, Sized(wire), NEW t, Len(t) \in Nat,
         NEW m \in 0 .. Len(content), NEW e \in Ends(m, Len(content)),
         ChunkedWire(m, e, t), AllRead(m, e, t)
  PROVE  /\ ReadContentChunked(wire).outcome = "Success"
         /\ ReadContentChunked(wire).body = content
<1>1. PICK z, a, k, l, n : /\ z = Len(content) /\ a = e[m] /\ k = Mark(e, m) + 1
                           /\ l = Len(wire) /\ n = Len(t)
  OBVIOUS
<1>2. /\ z \in Nat /\ m \in Nat /\ e \in Ends(m, z) /\ l \in Nat /\ n \in Nat
      /\ wire \in Seq(Units) /\ Pos \in Nat /\ Pos <= l
  BY <1>1, ContentIs, LenProperties, RestIs DEF Buffered
<1>3. a = z /\ e[0] = 0
  BY <1>1, <1>2 DEF Ends
<1>4. Mark(e, m) = z + 2 * m
  BY <1>1, <1>3 DEF Mark
<1>5. k \in Nat /\ k = z + 2 * m + 1 /\ z <= PayloadMax
  BY <1>1, <1>2, <1>4 DEF AllRead
<1>a. PICK whole : whole = \A x \in 1 .. Len(t) : Tolerable(TrailerUnits(t), x)
  OBVIOUS
<1>6. (Pos = k + n + 1 /\ whole) \/ (Pos = k /\ (Pos = l \/ LongFirst(m, e, t)))
  <2>1. (Pos = Mark(e, m) + n + 2 /\ whole) \/ (Pos = k /\ (Pos = l \/ LongFirst(m, e, t)))
    BY <1>1, <1>a DEF AllRead
  <2>2. Mark(e, m) + n + 2 = k + n + 1
    BY <1>2, <1>4, <1>5
  <2>3. QED
    BY <2>1, <2>2
<1>7. k <= l /\ (l = k \/ LongFirst(m, e, t) \/ (k + n < l /\ whole))
  <2>1. PICK p : p = Pos
    OBVIOUS
  <2>2. /\ p \in Nat /\ p <= l
        /\ (p = k + n + 1 /\ whole) \/ (p = k /\ (p = l \/ LongFirst(m, e, t)))
    BY <1>2, <1>6, <2>1
  <2>3. QED
    BY <1>2, <1>5, <2>2
<1>8. /\ Chunking(wire)[k][e[m]] = TrailerResult(wire, k)
      /\ SkipTrailers(From(wire, k + 1)).found <=>
           \/ Len(wire) = k
           \/ LongFirst(m, e, t)
           \/ k + Len(t) < Len(wire) /\ \A x \in 1 .. Len(t) : Tolerable(TrailerUnits(t), x)
  <2>1. e[m] <= PayloadMax /\ k <= Len(wire)
    BY <1>1, <1>3, <1>5, <1>7
  <2>2. QED
    BY <1>1, <1>2, <2>1, LastLine
<1>9. PICK rest : Chunking(wire)[k][e[m]] = Result("Success", <<>>, rest)
  BY <1>1, <1>7, <1>8, <1>a DEF TrailerResult
<1>10. ReadContentChunked(wire) = Ended("Success", 0, e[m], rest)
  <2>1. m \in 0 .. m /\ e[m] <= PayloadMax
    BY <1>1, <1>2, <1>3, <1>5
  <2>2. Mark(e, m) <= Len(wire)
    <3>1. z + 2 * m <= l
      BY <1>2, <1>5, <1>7
    <3>2. QED
      BY <1>1, <1>4, <3>1
  <2>3. Chunking(wire)[Mark(e, m) + 1][e[m]] = Result("Success", <<>>, rest)
    BY <1>1, <1>9
  <2>4. QED
    BY <1>2, <2>1, <2>2, <2>3, ChunksBack
<1>11. SubSeq(content, 0 + 1, e[m]) = content
  <2>1. content \in Seq(Range(content))
    BY ContentIs
  <2>2. SubSeq(content, 1, Len(content)) = content
    BY <2>1, SubSeqFull
  <2>3. e[m] = Len(content) /\ 0 + 1 = 1
    BY <1>1, <1>3
  <2>4. QED
    BY <2>2, <2>3
<1>12. QED
  BY <1>10, <1>11 DEF Ended, Result

(* What the framing gives the wire is what the reader came to.             *)
LEMMA ChunkedAgrees ==
  ASSUME content \in Bodies, Buffered, Given, Sized(wire), framing = Chunked, SomeChunks,
         Done, torn = <<>>
  PROVE  ReadersAgreeWithFraming
<1>1. PICK t \in Trailers, m \in 0 .. Len(content) :
        \E e \in Ends(m, Len(content)) : ChunkedPlace(m, e, t)
  BY DEF SomeChunks
<1>2. PICK e \in Ends(m, Len(content)) : ChunkedPlace(m, e, t)
  BY <1>1
<1>3. ChunkedWire(m, e, t) /\ wire \in Seq(Units) /\ Len(t) \in Nat
  BY <1>2, SequencesAssumption, LenProperties DEF ChunkedPlace, Buffered
<1>4. PICK whole : whole = ReadContentChunked(wire)
  OBVIOUS
<1>5. ReadBody(framing, wire) = whole
  BY <1>4 DEF ReadBody
<1>6. at = whole.outcome /\ (at = "Success" => body = whole.body)
  <2>1. CASE at = "Success"
    <3>1. AllRead(m, e, t)
      BY <1>2, <2>1 DEF ChunkedPlace
    <3>2. body = content
      BY <3>1, WholeIsGiven DEF AllRead
    <3>3. whole.outcome = "Success" /\ whole.body = content
      BY <1>3, <1>4, <3>1, ChunkedWhole
    <3>4. QED
      BY <2>1, <3>2, <3>3
  <2>2. CASE at = "PayloadTooLarge"
    <3>1. TooMuch(m, e)
      BY <1>2, <2>2 DEF ChunkedPlace
    <3>2. QED
      BY <1>3, <1>4, <2>2, <3>1, ChunkedTooLong
  <2>3. CASE at = "Error"
    <3>1. BrokenOff(m, e, t) \/ BadTrailer(m, e, t)
      BY <1>2, <2>3 DEF ChunkedPlace
    <3>2. QED
      BY <1>3, <1>4, <2>3, <3>1, ChunkedCutShort, ChunkedBadTrailer
  <2>4. QED
    BY <2>1, <2>2, <2>3 DEF Done
<1>7. QED
  BY <1>5, <1>6 DEF ReadersAgreeWithFraming

LEMMA CountedAgrees ==
  ASSUME content \in Bodies, Buffered, Given, CountedPlace, Done
  PROVE  ReadersAgreeWithFraming
<1>1. PICK n, l : n = Len(content) /\ l = Len(wire)
  OBVIOUS
<1>2. /\ content \in Seq(Range(content)) /\ n \in Nat /\ wire \in Seq(Units) /\ l \in Nat
      /\ Pos \in Nat /\ Pos <= l
  BY <1>1, ContentIs, LenProperties, RestIs DEF Buffered
<1>3. framing = Counted(n) /\ CountedWire
  BY <1>1 DEF CountedPlace
<1>4. framing # Chunked /\ framing # ToTheEnd /\ framing[2] = n
  BY <1>3 DEF Counted, Chunked, ToTheEnd
<1>5. PICK whole : whole = ReadBody(framing, wire)
  OBVIOUS
<1>6. whole = IF n > PayloadMax
              THEN Result("PayloadTooLarge", <<>>, From(wire, n + 1))
              ELSE ReadContentWithLength(wire, n)
  BY <1>4, <1>5 DEF ReadBody
<1>7. at = whole.outcome /\ (at = "Success" => body = whole.body)
  <2>1. CASE at = "Success"
    <3>1. n <= PayloadMax /\ Len(body) = n /\ Pos = n
      BY <1>1, <2>1 DEF CountedPlace
    <3>2. body = content
      BY <1>1, <3>1, WholeIsGiven
    <3>3. n <= l
      BY <1>2, <3>1
    <3>4. ASSUME NEW x \in 1 .. n PROVE wire[x] = Byte(content[0 + x])
      <4>1. x <= l /\ 0 + x = x
        BY <1>2, <3>3
      <4>2. QED
        BY <1>1, <1>3, <4>1 DEF CountedWire
    <3>5. ReadContentWithLength(wire, n) =
            Result("Success", SubSeq(content, 0 + 1, 0 + n), From(wire, n + 1))
      <4>1. n <= Len(wire) /\ 0 + n <= Len(content) /\ 0 \in Nat
        BY <1>1, <1>2, <3>3
      <4>2. QED
        BY <1>2, <3>4, <4>1, DataOnWire
    <3>6. SubSeq(content, 0 + 1, 0 + n) = content
      <4>1. SubSeq(content, 1, Len(content)) = content
        BY <1>2, SubSeqFull
      <4>2. 0 + 1 = 1 /\ 0 + n = Len(content)
        BY <1>1, <1>2
      <4>3. QED
        BY <4>1, <4>2
    <3>7. ~ (n > PayloadMax)
      BY <1>2, <3>1, PayloadAssumption
    <3>8. QED
      BY <1>6, <2>1, <3>2, <3>5, <3>6, <3>7 DEF Result
  <2>2. CASE at = "PayloadTooLarge"
    <3>1. n > PayloadMax
      BY <1>1, <2>2 DEF CountedPlace
    <3>2. QED
      BY <1>6, <2>2, <3>1 DEF Result
  <2>3. CASE at = "Error"
    <3>1. n <= PayloadMax /\ Len(wire) < n
      BY <1>1, <2>3 DEF CountedPlace
    <3>2. ~ (n > PayloadMax)
      BY <1>2, <3>1, PayloadAssumption
    <3>3. ReadContentWithLength(wire, n) = Broken
      BY <3>1, DataMissing
    <3>4. QED
      BY <1>6, <2>3, <3>2, <3>3 DEF Broken, Result
  <2>4. QED
    BY <2>1, <2>2, <2>3 DEF Done
<1>8. QED
  BY <1>5, <1>7 DEF ReadersAgreeWithFraming

LEMMA RestAgrees ==
  ASSUME content \in Bodies, Buffered, Given, RestPlace, Done
  PROVE  ReadersAgreeWithFraming
<1>1. PICK l : l = Len(wire)
  OBVIOUS
<1>2. wire \in Seq(Units) /\ l \in Nat /\ DOMAIN wire = 1 .. l
  BY <1>1, LenProperties DEF Buffered
<1>3. framing = ToTheEnd /\ framing # Chunked
  BY DEF RestPlace, ToTheEnd, Chunked
<1>4. PICK whole : whole = ReadBody(framing, wire)
  OBVIOUS
<1>5. whole = IF l > PayloadMax THEN Result("PayloadTooLarge", <<>>, <<>>)
              ELSE Result("Success", Values(wire), <<>>)
  BY <1>1, <1>3, <1>4 DEF ReadBody, ReadContentWithoutLength
<1>6. (ending = "closed" => at = whole.outcome) /\ (at = "Success" => body = whole.body)
  <2>1. CASE at = "Success"
    <3>1. Len(body) = l /\ l <= PayloadMax
      BY <1>1, <2>1 DEF RestPlace
    <3>2. ~ (l > PayloadMax)
      BY <1>2, <3>1, PayloadAssumption
    <3>3. body = [i \in 1 .. l |-> body[i]]
      BY <3>1, LenProperties DEF Given
    <3>4. ASSUME NEW i \in 1 .. l PROVE body[i] = wire[i][2]
      <4>1. body[i] = content[i]
        BY <3>1 DEF Given
      <4>2. wire[i] = Byte(content[i])
        BY <1>1 DEF RestPlace
      <4>3. QED
        BY <4>1, <4>2 DEF Byte
    <3>5. Values(wire) = [i \in 1 .. l |-> wire[i][2]]
      BY <1>2 DEF Values
    <3>6. body = Values(wire)
      BY <3>3, <3>4, <3>5
    <3>7. QED
      BY <1>5, <2>1, <3>2, <3>6 DEF Result
  <2>2. CASE at = "PayloadTooLarge"
    <3>1. l > PayloadMax
      BY <1>1, <2>2 DEF RestPlace
    <3>2. QED
      BY <1>5, <2>2, <3>1 DEF Result
  <2>3. CASE at = "Error"
    BY <2>3 DEF RestPlace
  <2>4. QED
    BY <2>1, <2>2, <2>3 DEF Done
<1>7. QED
  BY <1>3, <1>4, <1>6 DEF ReadersAgreeWithFraming

LEMMA InvAgrees == StreamInv /\ Sized(wire) => ReadersAgreeWithFraming
<1>1. SUFFICES ASSUME StreamInv, Sized(wire), Done, torn = <<>>
               PROVE  ReadersAgreeWithFraming
  BY DEF ReadersAgreeWithFraming
<1>2. content \in Bodies /\ Buffered /\ Given
  BY <1>1 DEF StreamInv
<1>3. CASE CountedPlace
  BY <1>1, <1>2, <1>3, CountedAgrees
<1>4. CASE RestPlace
  BY <1>1, <1>2, <1>4, RestAgrees
<1>5. CASE framing = Chunked /\ SomeChunks
  BY <1>1, <1>2, <1>5, ChunkedAgrees
<1>6. QED
  BY <1>1, <1>3, <1>4, <1>5 DEF StreamInv

(* However recv cuts the stream up, whatever SocketStream buffers between  *)
(* a line and the data that follows it, and wherever the connection breaks *)
(* off between lines, the loops reach the result the framing gives the     *)
(* whole stream, for every body, every way to cut it into chunks, every    *)
(* trailer and every limit of its lines.                                   *)
THEOREM ReadersAgree == StreamSpec => []ReadersAgreeWithFraming
<1>1. QED
  BY StreamStarts, StreamSteps, StartsSized, StaysSized, InvAgrees, PTL DEF StreamSpec

-----------------------------------------------------------------------------
(* Words in a sequence of bytes.                                           *)
WordAt(w, b, word) == \A x \in 1 .. Len(word) : w[b + x] = word[x]

LEMMA WordStays ==
  ASSUME NEW U, NEW v \in Seq(U), NEW w \in Seq(U), NEW V, NEW word \in Seq(V), NEW b \in Nat,
         WordAt(v, b, word), b + Len(word) <= Len(v)
  PROVE  WordAt(v \o w, b, word)
<1>1. PICK l, m : l = Len(v) /\ m = Len(word)
  OBVIOUS
<1>2. l \in Nat /\ m \in Nat /\ b + m <= l
  BY <1>1, LenProperties
<1>3. \A i \in 1 .. l : (v \o w)[i] = v[i]
  BY <1>1, ConcatAt
<1>4. ASSUME NEW x \in 1 .. m PROVE (v \o w)[b + x] = word[x]
  <2>1. b + x \in 1 .. l
    BY <1>2
  <2>2. QED
    BY <1>1, <1>3, <2>1 DEF WordAt
<1>5. QED
  BY <1>1, <1>4 DEF WordAt

LEMMA WordAdded ==
  ASSUME NEW U, NEW v \in Seq(U), NEW w \in Seq(U), NEW b, b = Len(v)
  PROVE  WordAt(v \o w, b, w)
BY ConcatAt DEF WordAt

LEMMA WordWithin ==
  ASSUME NEW w, NEW b \in Nat, NEW V, NEW word \in Seq(V), WordAt(w, b, word),
         NEW d \in Nat, NEW T, NEW part \in Seq(T), WordAt(word, d, part),
         d + Len(part) <= Len(word), NEW e, e = b + d
  PROVE  WordAt(w, e, part)
<1>1. PICK m, n : m = Len(word) /\ n = Len(part)
  OBVIOUS
<1>2. m \in Nat /\ n \in Nat /\ d + n <= m
  BY <1>1, LenProperties
<1>3. ASSUME NEW x \in 1 .. n PROVE w[e + x] = part[x]
  <2>1. d + x \in 1 .. m /\ e + x = b + (d + x)
    BY <1>2
  <2>2. w[b + (d + x)] = word[d + x] /\ word[d + x] = part[x]
    BY <1>1, <2>1 DEF WordAt
  <2>3. QED
    BY <2>1, <2>2
<1>4. QED
  BY <1>1, <1>3 DEF WordAt

(* What x is when it is v and then w.                                      *)
IsJoin(x, U, v, m, w, n) ==
  /\ x \in Seq(U) /\ Len(x) = m + n
  /\ \A i \in 1 .. m : x[i] = v[i]
  /\ \A i \in 1 .. n : x[m + i] = w[i]

LEMMA JoinOf ==
  ASSUME NEW U, NEW v \in Seq(U), NEW w \in Seq(U)
  PROVE  IsJoin(v \o w, U, v, Len(v), w, Len(w))
BY ConcatAt DEF IsJoin

LEMMA JoinIs ==
  ASSUME NEW U, NEW v \in Seq(U), NEW w \in Seq(U), NEW m, NEW n, NEW x,
         x = v \o w, Len(v) = m, Len(w) = n
  PROVE  IsJoin(x, U, v, m, w, n)
<1>1. IsJoin(v \o w, U, v, Len(v), w, Len(w))
  BY JoinOf
<1>2. QED
  BY <1>1

(* The words of the format.                                                *)
Marks == {CR, LF, "-", "B", "H"}

LEMMA CrlfIs == crlf \in Seq(Marks) /\ Len(crlf) = 2 /\ crlf[1] = CR /\ crlf[2] = LF
<1>1. CR \in Marks /\ LF \in Marks
  BY DEF Marks
<1>2. QED
  BY <1>1 DEF crlf

LEMMA DashIs == dash \in Seq(Marks) /\ Len(dash) = 2 /\ dash[1] = "-" /\ dash[2] = "-"
<1>1. "-" \in Marks
  BY DEF Marks
<1>2. QED
  BY <1>1 DEF dash

LEMMA OneIs ==
  ASSUME NEW b \in Marks
  PROVE  <<b>> \in Seq(Marks) /\ Len(<<b>>) = 1 /\ <<b>>[1] = b
OBVIOUS

LEMMA LettersAre == "B" \in Marks /\ "H" \in Marks
BY DEF Marks

LEMMA OpeningIs ==
  /\ dash_boundary_crlf \in Seq(Marks) /\ Len(dash_boundary_crlf) = 5
  /\ dash_boundary_crlf[1] = "-" /\ dash_boundary_crlf[2] = "-" /\ dash_boundary_crlf[3] = "B"
  /\ dash_boundary_crlf[4] = CR /\ dash_boundary_crlf[5] = LF
<1>1. PICK b : b = <<"B">>
  OBVIOUS
<1>2. b \in Seq(Marks) /\ Len(b) = 1 /\ b[1] = "B"
  BY <1>1, LettersAre, OneIs
<1>3. PICK v : v = dash \o b
  OBVIOUS
<1>4. v \in Seq(Marks) /\ Len(v) = 3 /\ v[1] = "-" /\ v[2] = "-" /\ v[3] = "B"
  <2>1. IsJoin(v, Marks, dash, 2, b, 1)
    BY <1>2, <1>3, DashIs, JoinIs
  <2>2. QED
    BY <1>2, <2>1, DashIs DEF IsJoin
<1>5. PICK w : w = v \o crlf
  OBVIOUS
<1>6. /\ w \in Seq(Marks) /\ Len(w) = 5 /\ w[1] = "-" /\ w[2] = "-" /\ w[3] = "B"
      /\ w[4] = CR /\ w[5] = LF
  <2>1. IsJoin(w, Marks, v, 3, crlf, 2)
    BY <1>4, <1>5, CrlfIs, JoinIs
  <2>2. QED
    BY <1>4, <2>1, CrlfIs DEF IsJoin
<1>7. w = dash_boundary_crlf
  BY <1>1, <1>3, <1>5 DEF dash_boundary_crlf
<1>8. QED
  BY <1>6, <1>7

LEMMA DelimiterIs ==
  /\ crlf_dash_boundary \in Seq(Marks) /\ Len(crlf_dash_boundary) = 5
  /\ crlf_dash_boundary[1] = CR /\ crlf_dash_boundary[2] = LF
  /\ crlf_dash_boundary[3] = "-" /\ crlf_dash_boundary[4] = "-" /\ crlf_dash_boundary[5] = "B"
<1>1. PICK b : b = <<"B">>
  OBVIOUS
<1>2. b \in Seq(Marks) /\ Len(b) = 1 /\ b[1] = "B"
  BY <1>1, LettersAre, OneIs
<1>3. PICK v : v = crlf \o dash
  OBVIOUS
<1>4. v \in Seq(Marks) /\ Len(v) = 4 /\ v[1] = CR /\ v[2] = LF /\ v[3] = "-" /\ v[4] = "-"
  <2>1. IsJoin(v, Marks, crlf, 2, dash, 2)
    BY <1>3, DashIs, CrlfIs, JoinIs
  <2>2. QED
    BY <2>1, DashIs, CrlfIs DEF IsJoin
<1>5. PICK w : w = v \o b
  OBVIOUS
<1>6. /\ w \in Seq(Marks) /\ Len(w) = 5 /\ w[1] = CR /\ w[2] = LF /\ w[3] = "-" /\ w[4] = "-"
      /\ w[5] = "B"
  <2>1. IsJoin(w, Marks, v, 4, b, 1)
    BY <1>2, <1>4, <1>5, JoinIs
  <2>2. QED
    BY <1>2, <1>4, <2>1 DEF IsJoin
<1>7. w = crlf_dash_boundary
  BY <1>1, <1>3, <1>5 DEF crlf_dash_boundary
<1>8. QED
  BY <1>6, <1>7

(* An item of a form.                                                      *)
ItemHolds(item, b, c) ==
  /\ WordAt(item, b, dash_boundary_crlf) /\ item[b + 6] = "H"
  /\ WordAt(item, b + 6, crlf) /\ WordAt(item, b + 8, crlf)
  /\ WordAt(item, b + 10, c) /\ WordAt(item, b + 10 + Len(c), crlf)

LEMMA ItemIs ==
  ASSUME NEW U, Marks \subseteq U, NEW c \in Seq(U)
  PROVE  /\ SerializedItem(c) \in Seq(U) /\ Len(SerializedItem(c)) = Len(c) + 12
         /\ ItemHolds(SerializedItem(c), 0, c)
<1>1. PICK h, n : h = <<"H">> /\ n = Len(c)
  OBVIOUS
<1>a. h \in Seq(Marks) /\ Len(h) = 1 /\ h[1] = "H"
  BY <1>1, LettersAre, OneIs
<1>2. /\ dash_boundary_crlf \in Seq(U) /\ crlf \in Seq(U) /\ h \in Seq(U) /\ n \in Nat
      /\ Len(dash_boundary_crlf) = 5 /\ Len(crlf) = 2 /\ Len(h) = 1 /\ h[1] = "H"
  <2>1. \A s \in Seq(Marks) : s \in Seq(U)
    OBVIOUS
  <2>2. QED
    BY <1>1, <1>a, <2>1, OpeningIs, CrlfIs, LenProperties
<1>3. PICK x : x = dash_boundary_crlf \o h
  OBVIOUS
<1>4. x \in Seq(U) /\ Len(x) = 6 /\ WordAt(x, 0, dash_boundary_crlf) /\ x[0 + 6] = "H"
  <2>1. IsJoin(x, U, dash_boundary_crlf, 5, h, 1)
    BY <1>2, <1>3, JoinIs
  <2>2. WordAt(x, 0, dash_boundary_crlf)
    BY <1>2, <2>1 DEF WordAt, IsJoin
  <2>3. QED
    BY <1>2, <2>1, <2>2 DEF IsJoin
<1>5. PICK y : y = x \o crlf
  OBVIOUS
<1>6. /\ y \in Seq(U) /\ Len(y) = 8 /\ WordAt(y, 0, dash_boundary_crlf) /\ y[0 + 6] = "H"
      /\ WordAt(y, 6, crlf)
  <2>1. IsJoin(y, U, x, 6, crlf, 2)
    BY <1>2, <1>4, <1>5, JoinIs
  <2>2. WordAt(y, 0, dash_boundary_crlf)
    BY <1>2, <1>4, <1>5, WordStays
  <2>3. WordAt(y, 6, crlf)
    BY <1>2, <1>4, <1>5, WordAdded
  <2>4. QED
    BY <1>4, <2>1, <2>2, <2>3 DEF IsJoin
<1>7. PICK z : z = y \o crlf
  OBVIOUS
<1>8. /\ z \in Seq(U) /\ Len(z) = 10 /\ WordAt(z, 0, dash_boundary_crlf) /\ z[0 + 6] = "H"
      /\ WordAt(z, 6, crlf) /\ WordAt(z, 8, crlf)
  <2>1. IsJoin(z, U, y, 8, crlf, 2)
    BY <1>2, <1>6, <1>7, JoinIs
  <2>2. WordAt(z, 0, dash_boundary_crlf)
    BY <1>2, <1>6, <1>7, WordStays
  <2>3. WordAt(z, 6, crlf)
    <3>1. 6 + Len(crlf) <= Len(y) /\ 6 \in Nat
      BY <1>2, <1>6
    <3>2. QED
      BY <1>2, <1>6, <1>7, <3>1, WordStays
  <2>4. WordAt(z, 8, crlf)
    BY <1>2, <1>6, <1>7, WordAdded
  <2>5. QED
    BY <1>6, <2>1, <2>2, <2>3, <2>4 DEF IsJoin
<1>9. PICK u : u = z \o c
  OBVIOUS
<1>10. /\ u \in Seq(U) /\ Len(u) = 10 + n /\ WordAt(u, 0, dash_boundary_crlf) /\ u[0 + 6] = "H"
       /\ WordAt(u, 6, crlf) /\ WordAt(u, 8, crlf) /\ WordAt(u, 10, c)
  <2>1. IsJoin(u, U, z, 10, c, n)
    BY <1>1, <1>8, <1>9, JoinIs
  <2>2. WordAt(u, 0, dash_boundary_crlf)
    BY <1>2, <1>8, <1>9, WordStays
  <2>3. WordAt(u, 6, crlf) /\ WordAt(u, 8, crlf)
    <3>1. 6 + Len(crlf) <= Len(z) /\ 8 + Len(crlf) <= Len(z) /\ 6 \in Nat /\ 8 \in Nat
      BY <1>2, <1>8
    <3>2. WordAt(u, 6, crlf)
      BY <1>2, <1>8, <1>9, <3>1, WordStays
    <3>3. WordAt(u, 8, crlf)
      BY <1>2, <1>8, <1>9, <3>1, WordStays
    <3>4. QED
      BY <3>2, <3>3
  <2>4. WordAt(u, 10, c)
    BY <1>8, <1>9, WordAdded
  <2>5. QED
    BY <1>8, <2>1, <2>2, <2>3, <2>4 DEF IsJoin
<1>11. PICK i : i = u \o crlf
  OBVIOUS
<1>12. i = SerializedItem(c)
  BY <1>1, <1>3, <1>5, <1>7, <1>9, <1>11 DEF SerializedItem
<1>13. /\ i \in Seq(U) /\ Len(i) = n + 12 /\ i[0 + 6] = "H"
  <2>1. IsJoin(i, U, u, 10 + n, crlf, 2)
    BY <1>2, <1>10, <1>11, JoinIs
  <2>2. QED
    BY <1>2, <1>10, <2>1 DEF IsJoin
<1>14. WordAt(i, 0, dash_boundary_crlf) /\ WordAt(i, 6, crlf) /\ WordAt(i, 8, crlf)
  <2>1. /\ 0 + Len(dash_boundary_crlf) <= Len(u) /\ 6 + Len(crlf) <= Len(u)
        /\ 8 + Len(crlf) <= Len(u)
    BY <1>2, <1>10
  <2>2. 0 \in Nat /\ 6 \in Nat /\ 8 \in Nat
    OBVIOUS
  <2>3. WordAt(i, 0, dash_boundary_crlf)
    BY <1>2, <1>10, <1>11, <2>1, <2>2, WordStays
  <2>4. WordAt(i, 6, crlf)
    BY <1>2, <1>10, <1>11, <2>1, <2>2, WordStays
  <2>5. WordAt(i, 8, crlf)
    BY <1>2, <1>10, <1>11, <2>1, <2>2, WordStays
  <2>6. QED
    BY <2>3, <2>4, <2>5
<1>15. WordAt(i, 10, c)
  BY <1>1, <1>2, <1>10, <1>11, WordStays
<1>16. WordAt(i, 10 + n, crlf)
  BY <1>2, <1>10, <1>11, WordAdded
<1>17. QED
  BY <1>1, <1>12, <1>13, <1>14, <1>15, <1>16 DEF ItemHolds

LEMMA ItemInWhole ==
  ASSUME NEW U, Marks \subseteq U, NEW c \in Seq(U), NEW w, NEW b \in Nat,
         WordAt(w, b, SerializedItem(c))
  PROVE  ItemHolds(w, b, c)
<1>1. PICK i, n : i = SerializedItem(c) /\ n = Len(c)
  OBVIOUS
<1>2. i \in Seq(U) /\ Len(i) = n + 12 /\ ItemHolds(i, 0, c) /\ n \in Nat /\ WordAt(w, b, i)
  BY <1>1, ItemIs, LenProperties
<1>3. /\ WordAt(i, 0, dash_boundary_crlf) /\ i[6] = "H"
      /\ WordAt(i, 6, crlf) /\ WordAt(i, 8, crlf) /\ WordAt(i, 10, c) /\ WordAt(i, 10 + n, crlf)
  BY <1>1, <1>2 DEF ItemHolds
<1>4. w[b + 6] = "H"
  <2>1. 6 \in 1 .. Len(i)
    BY <1>2
  <2>2. w[b + 6] = i[6]
    BY <1>2, <2>1 DEF WordAt
  <2>3. QED
    BY <1>3, <2>2
<1>5. WordAt(w, b, dash_boundary_crlf)
  <2>1. 0 + 5 <= Len(i) /\ b = b + 0
    BY <1>2
  <2>2. QED
    BY <1>2, <1>3, <2>1, OpeningIs, WordWithin
<1>6. WordAt(w, b + 6, crlf)
  <2>1. 6 + 2 <= Len(i)
    BY <1>2
  <2>2. QED
    BY <1>2, <1>3, <2>1, CrlfIs, WordWithin
<1>7. WordAt(w, b + 8, crlf)
  <2>1. 8 + 2 <= Len(i)
    BY <1>2
  <2>2. QED
    BY <1>2, <1>3, <2>1, CrlfIs, WordWithin
<1>8. WordAt(w, b + 10, c)
  <2>1. 10 + n <= Len(i)
    BY <1>2
  <2>2. QED
    BY <1>1, <1>2, <1>3, <2>1, WordWithin
<1>9. WordAt(w, b + 10 + n, crlf)
  <2>1. 10 + n + 2 <= Len(i) /\ b + 10 + n = b + (10 + n) /\ 10 + n \in Nat
    BY <1>2
  <2>2. QED
    BY <1>2, <1>3, <2>1, CrlfIs, WordWithin
<1>10. QED
  BY <1>1, <1>4, <1>5, <1>6, <1>7, <1>8, <1>9 DEF ItemHolds

LEMMA FinishIs ==
  /\ SerializedFinish \in Seq(Marks) /\ Len(SerializedFinish) = 7
  /\ SerializedFinish[1] = "-" /\ SerializedFinish[2] = "-" /\ SerializedFinish[3] = "B"
  /\ SerializedFinish[4] = "-" /\ SerializedFinish[5] = "-"
  /\ SerializedFinish[6] = CR /\ SerializedFinish[7] = LF
<1>1. PICK b : b = <<"B">>
  OBVIOUS
<1>2. b \in Seq(Marks) /\ Len(b) = 1 /\ b[1] = "B"
  BY <1>1, LettersAre, OneIs
<1>3. PICK x : x = dash \o b
  OBVIOUS
<1>4. x \in Seq(Marks) /\ Len(x) = 3 /\ x[1] = "-" /\ x[2] = "-" /\ x[3] = "B"
  <2>1. IsJoin(x, Marks, dash, 2, b, 1)
    BY <1>2, <1>3, DashIs, JoinIs
  <2>2. QED
    BY <1>2, <2>1, DashIs DEF IsJoin
<1>5. PICK y : y = x \o dash
  OBVIOUS
<1>6. /\ y \in Seq(Marks) /\ Len(y) = 5 /\ y[1] = "-" /\ y[2] = "-" /\ y[3] = "B"
      /\ y[4] = "-" /\ y[5] = "-"
  <2>1. IsJoin(y, Marks, x, 3, dash, 2)
    BY <1>4, <1>5, DashIs, JoinIs
  <2>2. QED
    BY <1>4, <2>1, DashIs DEF IsJoin
<1>7. PICK z : z = y \o crlf
  OBVIOUS
<1>8. /\ z \in Seq(Marks) /\ Len(z) = 7 /\ z[1] = "-" /\ z[2] = "-" /\ z[3] = "B"
      /\ z[4] = "-" /\ z[5] = "-" /\ z[6] = CR /\ z[7] = LF
  <2>1. IsJoin(z, Marks, y, 5, crlf, 2)
    BY <1>6, <1>7, CrlfIs, JoinIs
  <2>2. QED
    BY <1>6, <2>1, CrlfIs DEF IsJoin
<1>9. z = SerializedFinish
  BY <1>1, <1>3, <1>5, <1>7 DEF SerializedFinish
<1>10. QED
  BY <1>8, <1>9

(* The items of a form one after the other; p[k] is where the k-th ends.   *)
ItemLaid(s, p, v, j) ==
  /\ p[j - 1] \in Nat /\ p[j] \in Nat /\ p[j] = p[j - 1] + Len(s[j]) + 12 /\ p[j] <= Len(v)
  /\ WordAt(v, p[j - 1], SerializedItem(s[j]))

LEMMA ItemLaidStays ==
  ASSUME NEW U, Marks \subseteq U, NEW s, NEW p, NEW j, s[j] \in Seq(U),
         NEW v \in Seq(U), NEW w \in Seq(U), ItemLaid(s, p, v, j)
  PROVE  ItemLaid(s, p, v \o w, j)
<1>1. PICK i, a, c, l : i = SerializedItem(s[j]) /\ a = p[j - 1] /\ c = s[j] /\ l = Len(v)
  OBVIOUS
<1>2. i \in Seq(U) /\ Len(i) = Len(c) + 12 /\ Len(c) \in Nat /\ l \in Nat
  BY <1>1, ItemIs, LenProperties
<1>3. a \in Nat /\ p[j] = a + Len(c) + 12 /\ p[j] <= l /\ WordAt(v, a, i) /\ p[j] \in Nat
  BY <1>1 DEF ItemLaid
<1>4. a + Len(i) <= Len(v)
  BY <1>1, <1>2, <1>3
<1>5. WordAt(v \o w, a, i)
  BY <1>2, <1>3, <1>4, WordStays
<1>6. p[j] <= Len(v \o w)
  <2>1. Len(v \o w) = l + Len(w) /\ Len(w) \in Nat
    BY <1>1, ConcatAt, LenProperties
  <2>2. QED
    BY <1>2, <1>3, <2>1
<1>7. QED
  BY <1>1, <1>3, <1>5, <1>6 DEF ItemLaid

FormRow(U, s, p, v, k) ==
  v \in Seq(U) /\ Len(v) = p[k] /\ \A j \in 1 .. k : ItemLaid(s, p, v, j)

LEMMA FormRowGrows ==
  ASSUME NEW U, Marks \subseteq U, NEW s, NEW k \in Nat, \A j \in 1 .. k + 1 : s[j] \in Seq(U),
         NEW p, NEW v, FormRow(U, s, p, v, k), NEW x, x = v \o SerializedItem(s[k + 1]),
         p[k + 1] = Len(x)
  PROVE  FormRow(U, s, p, x, k + 1)
<1>1. PICK i, c, a : i = SerializedItem(s[k + 1]) /\ c = s[k + 1] /\ a = p[k]
  OBVIOUS
<1>2. c \in Seq(U) /\ i \in Seq(U) /\ Len(i) = Len(c) + 12 /\ Len(c) \in Nat
  <2>1. k + 1 \in 1 .. k + 1
    OBVIOUS
  <2>2. c \in Seq(U)
    BY <1>1, <2>1
  <2>3. QED
    BY <1>1, <2>2, ItemIs, LenProperties
<1>3. v \in Seq(U) /\ Len(v) = a /\ a \in Nat
  BY <1>1, LenProperties DEF FormRow
<1>4. x = v \o i
  BY <1>1
<1>5. x \in Seq(U) /\ Len(x) = a + (Len(c) + 12)
  <2>1. v \o i \in Seq(U) /\ Len(v \o i) = Len(v) + Len(i)
    BY <1>2, <1>3, ConcatAt
  <2>2. QED
    BY <1>2, <1>3, <1>4, <2>1
<1>6. WordAt(x, a, i)
  BY <1>2, <1>3, <1>4, WordAdded
<1>7. ItemLaid(s, p, x, k + 1)
  <2>1. k + 1 - 1 = k
    OBVIOUS
  <2>2. p[k + 1] \in Nat /\ p[k + 1] = a + Len(c) + 12 /\ p[k + 1] <= Len(x)
    BY <1>2, <1>3, <1>5
  <2>3. QED
    BY <1>1, <1>3, <1>6, <2>1, <2>2 DEF ItemLaid
<1>8. ASSUME NEW j \in 1 .. k PROVE ItemLaid(s, p, x, j)
  <2>1. j \in 1 .. k + 1 /\ ItemLaid(s, p, v, j)
    BY DEF FormRow
  <2>2. s[j] \in Seq(U)
    BY <2>1
  <2>3. ItemLaid(s, p, v \o i, j)
    BY <1>2, <1>3, <2>1, <2>2, ItemLaidStays
  <2>4. QED
    BY <1>4, <2>3
<1>9. ASSUME NEW j \in 1 .. k + 1 PROVE ItemLaid(s, p, x, j)
  <2>1. j \in 1 .. k \/ j = k + 1
    OBVIOUS
  <2>2. QED
    BY <1>7, <1>8, <2>1
<1>10. QED
  BY <1>5, <1>9 DEF FormRow

Ending(g, n) == [k \in 0 .. n |-> IF k = 0 THEN 0 ELSE Len(g[k])]

LEMMA ItemsLaid ==
  ASSUME NEW U, Marks \subseteq U, NEW n \in Nat \ {0}, NEW s, Len(s) = n, DOMAIN s = 1 .. n,
         \A j \in 1 .. n : s[j] \in Seq(U)
  PROVE  \E p : /\ p[0] = 0
                /\ FormRow(U, s, p, FlattenSeq([i \in DOMAIN s |-> SerializedItem(s[i])]), n)
<1>1. PICK t : t = [i \in 1 .. n |-> SerializedItem(s[i])]
  OBVIOUS
<1>2. Len(t) = n
  BY <1>1
<1>3. PICK g : g = Flattening(t, n)
  OBVIOUS
<1>4. IsFlattening(g, t, n)
  BY <1>2, <1>3, FlattenIs
<1>5. PICK p : p = Ending(g, n)
  OBVIOUS
<1>6. p[0] = 0 /\ \A k \in 1 .. n : p[k] = Len(g[k])
  BY <1>5 DEF Ending
<1> DEFINE P == {k \in Nat : k + 1 <= n => FormRow(U, s, p, g[k + 1], k + 1)}
<1>7. 0 \in P
  <2>1. PICK i, c : i = SerializedItem(s[1]) /\ c = s[1]
    OBVIOUS
  <2>2. 1 \in 1 .. n /\ c \in Seq(U)
    BY <2>1
  <2>3. i \in Seq(U) /\ Len(i) = Len(c) + 12 /\ Len(c) \in Nat
    BY <2>1, <2>2, ItemIs, LenProperties
  <2>4. g[1] = i /\ p[1] = Len(i)
    BY <1>1, <1>4, <1>6, <2>1, <2>2 DEF IsFlattening
  <2>5. WordAt(i, 0, i)
    BY DEF WordAt
  <2>6. ItemLaid(s, p, i, 1)
    <3>1. p[1] = 0 + Len(c) + 12 /\ p[1] <= Len(i) /\ p[1] \in Nat
      BY <2>3, <2>4
    <3>2. 1 - 1 = 0 /\ p[0] = 0
      BY <1>6
    <3>3. p[1 - 1] = 0 /\ p[1 - 1] \in Nat
      BY <3>2
    <3>4. WordAt(i, p[1 - 1], SerializedItem(s[1]))
      BY <2>1, <2>5, <3>3
    <3>5. p[1] = p[1 - 1] + Len(s[1]) + 12
      BY <2>1, <3>1, <3>3
    <3>6. QED
      BY <3>1, <3>3, <3>4, <3>5 DEF ItemLaid
  <2>7. FormRow(U, s, p, g[1], 1)
    <3>1. ASSUME NEW j \in 1 .. 1 PROVE ItemLaid(s, p, i, j)
      <4>1. j = 1
        OBVIOUS
      <4>2. QED
        BY <2>6, <4>1
    <3>2. FormRow(U, s, p, i, 1)
      BY <2>3, <2>4, <3>1 DEF FormRow
    <3>3. QED
      BY <2>4, <3>2
  <2>8. FormRow(U, s, p, g[0 + 1], 0 + 1)
    BY <2>7
  <2>9. QED
    BY <2>8
<1>8. ASSUME NEW k \in P PROVE k + 1 \in P
  <2>1. SUFFICES ASSUME k + 1 + 1 <= n PROVE FormRow(U, s, p, g[k + 1 + 1], k + 1 + 1)
    OBVIOUS
  <2>2. PICK m : m = k + 1
    OBVIOUS
  <2>3. m \in Nat /\ m + 1 \in 2 .. n /\ m + 1 \in 1 .. n /\ m + 1 - 1 = m /\ k + 1 <= n
    BY <2>1, <2>2
  <2>4. FormRow(U, s, p, g[m], m)
    BY <2>2, <2>3
  <2>5. g[m + 1] = g[m] \o SerializedItem(s[m + 1])
    <3>1. PICK j : j = m + 1
      OBVIOUS
    <3>2. j \in 2 .. n /\ j \in 1 .. n /\ j - 1 = m
      BY <2>3, <3>1
    <3>3. g[j] = g[j - 1] \o t[j]
      BY <1>4, <3>2 DEF IsFlattening
    <3>4. t[j] = SerializedItem(s[j])
      BY <1>1, <3>2
    <3>5. QED
      BY <3>1, <3>2, <3>3, <3>4
  <2>6. p[m + 1] = Len(g[m + 1])
    BY <1>6, <2>3
  <2>7. \A j \in 1 .. m + 1 : s[j] \in Seq(U)
    BY <2>3
  <2>8. FormRow(U, s, p, g[m + 1], m + 1)
    BY <2>3, <2>4, <2>5, <2>6, <2>7, FormRowGrows
  <2>9. QED
    BY <2>2, <2>8
<1>9. P = Nat
  <2>1. P \subseteq Nat
    OBVIOUS
  <2> HIDE DEF P
  <2>2. QED
    BY <1>7, <1>8, <2>1, Induction
<1>10. FormRow(U, s, p, g[n], n)
  <2>1. PICK k : k = n - 1
    OBVIOUS
  <2>2. k \in Nat /\ k + 1 = n
    BY <2>1
  <2>3. k \in P
    <3> HIDE DEF P
    <3>1. QED
      BY <1>9, <2>2
  <2>4. FormRow(U, s, p, g[k + 1], k + 1)
    BY <2>2, <2>3
  <2>5. QED
    BY <2>2, <2>4
<1>11. FlattenSeq([i \in DOMAIN s |-> SerializedItem(s[i])]) = g[n]
  BY <1>1, <1>4 DEF IsFlattening
<1>12. QED
  BY <1>6, <1>10, <1>11

(* Where everything is in the body of a form.                              *)
ItemAt(w, s, p, k) ==
  /\ p[k - 1] \in Nat /\ p[k] \in Nat /\ p[k] = p[k - 1] + Len(s[k]) + 12
  /\ p[k] + 7 <= Len(w) /\ ItemHolds(w, p[k - 1], s[k])
  /\ WordAt(w, p[k - 1] + 10 + Len(s[k]), crlf_dash_boundary)
  /\ k < Len(s) => WordAt(w, p[k] + 3, crlf)

FormLaid(w, s, p) ==
  /\ p[0] = 0 /\ p[Len(s)] \in Nat /\ Len(w) = p[Len(s)] + 7
  /\ \A k \in 1 .. Len(s) : ItemAt(w, s, p, k)
  /\ WordAt(w, p[Len(s)] + 3, dash)

FormUnits(s) == Marks \cup UNION {Range(c) : c \in Range(s)}

LEMMA FormIs ==
  ASSUME NEW s \in Forms
  PROVE  /\ Len(s) \in Nat \ {0} /\ DOMAIN s = 1 .. Len(s) /\ s \in Seq(Range(s))
         /\ \A k \in 1 .. Len(s) :
              /\ s[k] \in Seq(FormUnits(s)) /\ s[k] \in Seq(Range(s[k])) /\ Len(s[k]) \in Nat
              /\ \A i \in 0 .. Len(s[k]) : ~StartsAt(s[k], i, crlf_dash_boundary)
<1>1. s # <<>> /\ s \in Seq(Range(s))
  BY FormsAssumption
<1>2. Len(s) \in Nat \ {0} /\ DOMAIN s = 1 .. Len(s)
  BY <1>1, LenProperties, EmptySeq
<1>3. ASSUME NEW k \in 1 .. Len(s)
      PROVE  /\ s[k] \in Seq(FormUnits(s)) /\ s[k] \in Seq(Range(s[k])) /\ Len(s[k]) \in Nat
             /\ \A i \in 0 .. Len(s[k]) : ~StartsAt(s[k], i, crlf_dash_boundary)
  <2>1. s[k] \in Range(s)
    BY <1>1, ElementOfSeq
  <2>2. PICK c : c = s[k]
    OBVIOUS
  <2>3. c \in Seq(Range(c)) /\ \A i \in 0 .. Len(c) : ~StartsAt(c, i, crlf_dash_boundary)
    BY <2>1, <2>2, FormsAssumption
  <2>4. Range(c) \subseteq FormUnits(s)
    BY <2>1, <2>2 DEF FormUnits
  <2>5. c \in Seq(FormUnits(s)) /\ Len(c) \in Nat
    BY <2>3, <2>4, LenProperties
  <2>6. QED
    BY <2>2, <2>3, <2>5
<1>4. QED
  BY <1>1, <1>2, <1>3

LEMMA DelimiterJoins ==
  ASSUME NEW w, NEW b \in Nat, NEW d, d = b + 2, WordAt(w, b, crlf),
         w[d + 1] = "-", w[d + 2] = "-", w[d + 3] = "B"
  PROVE  WordAt(w, b, crlf_dash_boundary)
<1>1. w[b + 1] = CR /\ w[b + 2] = LF
  BY CrlfIs DEF WordAt
<1>2. d + 1 = b + 3 /\ d + 2 = b + 4 /\ d + 3 = b + 5
  OBVIOUS
<1>3. w[b + 3] = "-" /\ w[b + 4] = "-" /\ w[b + 5] = "B"
  BY <1>2
<1>4. ASSUME NEW x \in 1 .. 5 PROVE w[b + x] = crlf_dash_boundary[x]
  <2>1. x = 1 \/ x = 2 \/ x = 3 \/ x = 4 \/ x = 5
    OBVIOUS
  <2>2. QED
    BY <1>1, <1>3, <2>1, DelimiterIs
<1>5. QED
  BY <1>4, DelimiterIs DEF WordAt

LEMMA SerializedLaid ==
  ASSUME NEW s \in Forms
  PROVE  Serialized(s) \in Seq(FormUnits(s)) /\ \E p : FormLaid(Serialized(s), s, p)
<1>1. PICK U, n, r, f, w : /\ U = FormUnits(s) /\ n = Len(s) /\ f = SerializedFinish
                           /\ r = FlattenSeq([i \in DOMAIN s |-> SerializedItem(s[i])])
                           /\ w = r \o f
  OBVIOUS
<1>2. /\ n \in Nat \ {0} /\ DOMAIN s = 1 .. n /\ \A k \in 1 .. n : s[k] \in Seq(U) /\ Len(s[k]) \in Nat
  BY <1>1, FormIs
<1>3. Marks \subseteq U
  BY <1>1 DEF FormUnits
<1>4. w = Serialized(s)
  BY <1>1 DEF Serialized
<1>5. PICK p : p[0] = 0 /\ FormRow(U, s, p, r, n)
  BY <1>1, <1>2, <1>3, ItemsLaid
<1>6. r \in Seq(U) /\ Len(r) = p[n] /\ p[n] \in Nat /\ \A k \in 1 .. n : ItemLaid(s, p, r, k)
  BY <1>5, LenProperties DEF FormRow
<1>7. f \in Seq(U) /\ Len(f) = 7
  <2>1. f \in Seq(Marks) /\ Len(f) = 7
    BY <1>1, FinishIs
  <2>2. QED
    BY <1>3, <2>1
<1>8. w \in Seq(U) /\ Len(w) = p[n] + 7
  <2>1. r \o f \in Seq(U) /\ Len(r \o f) = Len(r) + Len(f)
    BY <1>6, <1>7, ConcatAt
  <2>2. QED
    BY <1>1, <1>6, <1>7, <2>1
<1>9. WordAt(w, p[n], f)
  BY <1>1, <1>6, <1>7, WordAdded
<1>10. ASSUME NEW k \in 1 .. n
       PROVE  /\ p[k - 1] \in Nat /\ p[k] \in Nat /\ p[k] = p[k - 1] + Len(s[k]) + 12
              /\ p[k] + 7 <= Len(w) /\ ItemHolds(w, p[k - 1], s[k])
  <2>1. ItemLaid(s, p, r, k)
    BY <1>6
  <2>2. ItemLaid(s, p, r \o f, k)
    BY <1>2, <1>3, <1>6, <1>7, <2>1, ItemLaidStays
  <2>3. /\ p[k - 1] \in Nat /\ p[k] \in Nat /\ p[k] = p[k - 1] + Len(s[k]) + 12
        /\ p[k] <= Len(r)
    BY <2>1 DEF ItemLaid
  <2>4. WordAt(w, p[k - 1], SerializedItem(s[k]))
    BY <1>1, <2>2 DEF ItemLaid
  <2>5. ItemHolds(w, p[k - 1], s[k])
    BY <1>2, <1>3, <2>3, <2>4, ItemInWhole
  <2>6. p[k] + 7 <= Len(w)
    BY <1>6, <1>8, <2>3
  <2>7. QED
    BY <2>3, <2>5, <2>6
<1>11. ASSUME NEW k \in 1 .. n
       PROVE  /\ w[p[k] + 1] = "-" /\ w[p[k] + 2] = "-" /\ w[p[k] + 3] = "B"
              /\ k < n => WordAt(w, p[k] + 3, crlf)
  <2>1. p[k] \in Nat
    BY <1>10
  <2>2. CASE k < n
    <3>1. PICK j : j = k + 1
      OBVIOUS
    <3>2. j \in 1 .. n /\ j - 1 = k
      BY <1>2, <2>2, <3>1
    <3>3. ItemHolds(w, p[j - 1], s[j])
      BY <1>10, <3>2
    <3>4. WordAt(w, p[k], dash_boundary_crlf)
      BY <3>2, <3>3 DEF ItemHolds
    <3>5. /\ w[p[k] + 1] = "-" /\ w[p[k] + 2] = "-" /\ w[p[k] + 3] = "B"
          /\ w[p[k] + 4] = CR /\ w[p[k] + 5] = LF
      BY <3>4, OpeningIs DEF WordAt
    <3>6. WordAt(w, p[k] + 3, crlf)
      <4>1. w[p[k] + 3 + 1] = CR /\ w[p[k] + 3 + 2] = LF
        <5>1. p[k] + 3 + 1 = p[k] + 4 /\ p[k] + 3 + 2 = p[k] + 5
          BY <2>1
        <5>2. QED
          BY <3>5, <5>1
      <4>2. ASSUME NEW x \in 1 .. 2 PROVE w[p[k] + 3 + x] = crlf[x]
        <5>1. x = 1 \/ x = 2
          OBVIOUS
        <5>2. QED
          BY <4>1, <5>1, CrlfIs
      <4>3. QED
        BY <4>2, CrlfIs DEF WordAt
    <3>7. QED
      BY <3>5, <3>6
  <2>3. CASE k = n
    <3>1. w[p[n] + 1] = f[1] /\ w[p[n] + 2] = f[2] /\ w[p[n] + 3] = f[3]
      BY <1>7, <1>9 DEF WordAt
    <3>2. f[1] = "-" /\ f[2] = "-" /\ f[3] = "B"
      BY <1>1, FinishIs
    <3>3. QED
      BY <1>2, <2>3, <3>1, <3>2
  <2>4. QED
    BY <1>2, <2>2, <2>3
<1>12. ASSUME NEW k \in 1 .. n PROVE ItemAt(w, s, p, k)
  <2>1. PICK b, a, m : b = p[k - 1] + 10 + Len(s[k]) /\ a = p[k - 1] /\ m = Len(s[k])
    OBVIOUS
  <2>2. a \in Nat /\ m \in Nat /\ p[k] = a + m + 12
    BY <1>2, <1>10, <2>1
  <2>a. b = a + 10 + m
    BY <2>1
  <2>b. a + m + 12 = a + 10 + m + 2
    BY <2>2
  <2>3. b \in Nat /\ p[k] = b + 2
    BY <2>2, <2>a, <2>b
  <2>4. WordAt(w, b, crlf)
    <3>1. ItemHolds(w, p[k - 1], s[k])
      BY <1>10
    <3>2. QED
      BY <2>1, <3>1 DEF ItemHolds
  <2>5. WordAt(w, b, crlf_dash_boundary)
    BY <1>11, <2>3, <2>4, DelimiterJoins
  <2>6. QED
    BY <1>1, <1>10, <1>11, <2>1, <2>5 DEF ItemAt
<1>13. WordAt(w, p[n] + 3, dash)
  <2>1. w[p[n] + 4] = "-" /\ w[p[n] + 5] = "-"
    <3>1. w[p[n] + 4] = f[4] /\ w[p[n] + 5] = f[5]
      BY <1>7, <1>9 DEF WordAt
    <3>2. QED
      BY <1>1, <3>1, FinishIs
  <2>2. ASSUME NEW x \in 1 .. 2 PROVE w[p[n] + 3 + x] = dash[x]
    <3>1. PICK q : q = p[n]
      OBVIOUS
    <3>2. q \in Nat /\ (x = 1 \/ x = 2)
      BY <1>6, <3>1
    <3>3. CASE x = 1
      <4>1. q + 3 + x = q + 4
        BY <3>2, <3>3
      <4>2. QED
        BY <2>1, <3>1, <3>3, <4>1, DashIs
    <3>4. CASE x = 2
      <4>1. q + 3 + x = q + 5
        BY <3>2, <3>4
      <4>2. QED
        BY <2>1, <3>1, <3>4, <4>1, DashIs
    <3>5. QED
      BY <3>2, <3>3, <3>4
  <2>3. QED
    BY <2>2, DashIs DEF WordAt
<1>14. FormLaid(w, s, p)
  BY <1>1, <1>5, <1>6, <1>8, <1>12, <1>13 DEF FormLaid
<1>15. QED
  BY <1>1, <1>4, <1>8, <1>14

-----------------------------------------------------------------------------
(* The parser's invariant.  What it holds and what is still to come are    *)
(* the end of the body; each state has its places in the body.             *)
Whole == Serialized(items)
FormPos == Len(Whole) - Len(held) - Len(coming)

Fed ==
  /\ held \in Seq(FormUnits(items)) /\ coming \in Seq(FormUnits(items))
  /\ FormPos \in Nat
  /\ \A i \in 1 .. Len(held) : held[i] = Whole[FormPos + i]
  /\ \A i \in 1 .. Len(coming) : coming[i] = Whole[FormPos + Len(held) + i]

Received(k) == SubSeq(items, 1, k)

InInitial == state = "initial" /\ form = <<>> /\ FormPos = 0
InHead(p) ==
  \E k \in 1 .. Len(items) :
    /\ form = Received(k - 1)
    /\ \/ state = "entry" /\ FormPos = p[k - 1] + 5
       \/ state = "headers" /\ FormPos = p[k - 1] + 5
       \/ /\ state = "headers" /\ FormPos = p[k - 1] + 8
          /\ lines[k] <= FormHeaderMax
InBody(p) ==
  /\ state = "body"
  /\ \E k \in 1 .. Len(items), q \in Nat :
       /\ q <= Len(items[k]) /\ FormPos = p[k - 1] + 10 + q
       /\ form = Append(Received(k - 1), SubSeq(items[k], 1, q))
InBoundary(p) ==
  state = "boundary" /\ \E k \in 1 .. Len(items) : form = Received(k) /\ FormPos = p[k] + 3
InEpilogue(p) ==
  /\ form = items /\ FormPos >= p[Len(items)] + 5
  /\ state = "boundary" \/ (state = "entry" /\ FormPos = Len(Whole))

FormPlace(p) ==
  \/ is_valid = TRUE /\ InEpilogue(p)
  \/ is_valid = FALSE /\ (InInitial \/ InHead(p) \/ InBody(p) \/ InBoundary(p))

FormInv ==
  /\ items \in Forms /\ Fed
  /\ \E p : FormLaid(Whole, items, p) /\ FormPlace(p)
  /\ ~parsing /\ ~is_valid => held = <<>> \/ coming # <<>> \/ refused

LEMMA FormGoesOn ==
  ASSUME items \in Forms, items' = items, NEW p, FormLaid(Whole, items, p), Fed', FormPlace(p)',
         ~parsing' /\ ~is_valid' => held' = <<>> \/ coming' # <<>> \/ refused'
  PROVE  FormInv'
<1>1. FormLaid(Whole', items', p)
  BY DEF Whole
<1>2. QED
  BY <1>1 DEF FormInv

LEMMA FedLengths ==
  ASSUME Fed, items \in Forms
  PROVE  /\ Len(held) \in Nat /\ Len(coming) \in Nat /\ FormPos \in Nat /\ Len(Whole) \in Nat
         /\ FormPos + Len(held) + Len(coming) = Len(Whole)
<1>1. Len(held) \in Nat /\ Len(coming) \in Nat /\ FormPos \in Nat
  BY LenProperties DEF Fed
<1>2. Len(Whole) \in Nat
  <2>1. Whole \in Seq(FormUnits(items))
    BY SerializedLaid DEF Whole
  <2>2. QED
    BY <2>1, LenProperties
<1>3. QED
  BY <1>1, <1>2 DEF FormPos

LEMMA StillToCome ==
  ASSUME Fed, items \in Forms, FormPos + Len(held) < Len(Whole)
  PROVE  coming # <<>>
<1>1. PICK n, l, b, h : n = Len(coming) /\ l = Len(Whole) /\ b = FormPos /\ h = Len(held)
  OBVIOUS
<1>2. n \in Nat /\ l \in Nat /\ b \in Nat /\ h \in Nat /\ b + h + n = l /\ b + h < l
  BY <1>1, FedLengths
<1>3. n # 0
  BY <1>2
<1>4. QED
  BY <1>1, <1>3

LEMMA DropOf ==
  ASSUME NEW U, NEW s \in Seq(U), NEW n \in 0 .. Len(s)
  PROVE  /\ Drop(s, n) \in Seq(U) /\ Len(Drop(s, n)) = Len(s) - n
         /\ \A i \in 1 .. Len(s) - n : Drop(s, n)[i] = s[n + i]
<1>1. PICK l, d : l = Len(s) /\ d = Drop(s, n)
  OBVIOUS
<1>2. l \in Nat /\ n \in Nat /\ n <= l
  BY <1>1, LenProperties
<1>3. d = From(s, n + 1)
  BY <1>1 DEF Drop, From
<1>4. n + 1 \in 1 .. Len(s) + 1
  BY <1>1, <1>2
<1>5. /\ d \in Seq(U) /\ Len(d) = l - (n + 1) + 1
      /\ \A i \in 1 .. l - (n + 1) + 1 : d[i] = s[n + 1 + i - 1]
  BY <1>1, <1>3, <1>4, FromOf
<1>6. l - (n + 1) + 1 = l - n
  BY <1>2
<1>7. ASSUME NEW i \in 1 .. l - n PROVE d[i] = s[n + i]
  <2>1. n + 1 + i - 1 = n + i
    BY <1>2
  <2>2. QED
    BY <1>5, <1>6, <2>1
<1>8. QED
  BY <1>1, <1>5, <1>6, <1>7

LEMMA Consumed ==
  ASSUME Fed, items \in Forms, NEW n \in 0 .. Len(held), held' = Drop(held, n),
         coming' = coming, items' = items
  PROVE  Fed' /\ FormPos' = FormPos + n
<1>1. PICK U, w, h, b, c, l : /\ U = FormUnits(items) /\ w = Whole /\ h = Len(held)
                              /\ b = FormPos /\ c = Len(coming) /\ l = Len(Whole)
  OBVIOUS
<1>2. h \in Nat /\ c \in Nat /\ b \in Nat /\ l \in Nat /\ b + h + c = l /\ n \in Nat /\ n <= h
  BY <1>1, FedLengths
<1>3. held \in Seq(U) /\ coming \in Seq(U)
  BY <1>1 DEF Fed
<1>4. /\ held' \in Seq(U) /\ Len(held') = h - n
      /\ \A i \in 1 .. h - n : held'[i] = held[n + i]
  BY <1>1, <1>3, DropOf
<1>5. Whole' = w /\ FormUnits(items') = U
  BY <1>1 DEF Whole
<1>6. FormPos' = l - (h - n) - c
  BY <1>1, <1>4, <1>5 DEF FormPos
<1>7. FormPos' = b + n /\ b + n \in Nat
  BY <1>2, <1>6
<1>8. ASSUME NEW i \in 1 .. h - n PROVE held'[i] = w[b + n + i]
  <2>1. n + i \in 1 .. h /\ b + (n + i) = b + n + i
    BY <1>2
  <2>2. held[n + i] = w[b + (n + i)]
    BY <1>1, <2>1 DEF Fed
  <2>3. QED
    BY <1>4, <2>1, <2>2
<1>9. ASSUME NEW i \in 1 .. c PROVE coming[i] = w[b + n + (h - n) + i]
  <2>1. b + n + (h - n) = b + h
    BY <1>2
  <2>2. coming[i] = w[b + h + i]
    BY <1>1 DEF Fed
  <2>3. QED
    BY <2>1, <2>2
<1>10. Fed'
  <2>1. held' \in Seq(FormUnits(items')) /\ coming' \in Seq(FormUnits(items')) /\ FormPos' \in Nat
    BY <1>3, <1>4, <1>5, <1>7
  <2>2. \A i \in 1 .. Len(held') : held'[i] = Whole'[FormPos' + i]
    BY <1>4, <1>5, <1>7, <1>8
  <2>3. \A i \in 1 .. Len(coming') : coming'[i] = Whole'[FormPos' + Len(held') + i]
    BY <1>1, <1>4, <1>5, <1>7, <1>9
  <2>4. QED
    BY <2>1, <2>2, <2>3 DEF Fed
<1>11. QED
  BY <1>1, <1>7, <1>10

LEMMA FedMore ==
  ASSUME Fed, items \in Forms, NEW n \in 1 .. Len(coming), Feed(n)
  PROVE  Fed' /\ FormPos' = FormPos
<1>1. PICK U, w, h, b, c, l : /\ U = FormUnits(items) /\ w = Whole /\ h = Len(held)
                              /\ b = FormPos /\ c = Len(coming) /\ l = Len(Whole)
  OBVIOUS
<1>2. h \in Nat /\ c \in Nat /\ b \in Nat /\ l \in Nat /\ b + h + c = l /\ n \in Nat /\ n <= c
  BY <1>1, FedLengths
<1>3. held \in Seq(U) /\ coming \in Seq(U)
  BY <1>1 DEF Fed
<1>4. PICK d : d = SubSeq(coming, 1, n)
  OBVIOUS
<1>5. held' = held \o d /\ coming' = Drop(coming, n) /\ items' = items
  BY <1>4 DEF Feed
<1>6. d \in Seq(U) /\ Len(d) = n /\ \A i \in 1 .. n : d[i] = coming[i]
  <2>1. n \in 0 .. Len(coming)
    BY <1>1, <1>2
  <2>2. SubSeq(coming, 1, n) = [i \in 1 .. n |-> coming[i]]
    BY <1>3, <2>1, StartOf
  <2>3. \A i \in 1 .. n : coming[i] \in U
    <3>1. \A i \in 1 .. n : i \in 1 .. Len(coming)
      BY <1>1, <1>2
    <3>2. QED
      BY <1>3, <3>1, ElementOfSeq
  <2>4. QED
    BY <1>2, <1>4, <2>2, <2>3
<1>7. IsJoin(held', U, held, h, d, n)
  BY <1>1, <1>3, <1>5, <1>6, JoinIs
<1>8. /\ coming' \in Seq(U) /\ Len(coming') = c - n
      /\ \A i \in 1 .. c - n : coming'[i] = coming[n + i]
  <2>1. n \in 0 .. Len(coming)
    BY <1>1, <1>2
  <2>2. QED
    BY <1>1, <1>3, <1>5, <2>1, DropOf
<1>9. Whole' = w /\ FormUnits(items') = U
  BY <1>1, <1>5 DEF Whole
<1>10. FormPos' = b
  <2>1. FormPos' = l - (h + n) - (c - n)
    BY <1>1, <1>7, <1>8, <1>9 DEF FormPos, IsJoin
  <2>2. QED
    BY <1>2, <2>1
<1>11. ASSUME NEW i \in 1 .. h + n PROVE held'[i] = w[b + i]
  <2>1. CASE i <= h
    <3>1. i \in 1 .. h
      BY <1>2, <2>1
    <3>2. QED
      BY <1>1, <1>7, <3>1 DEF IsJoin, Fed
  <2>2. CASE ~ (i <= h)
    <3>1. PICK j : j = i - h
      OBVIOUS
    <3>2. j \in 1 .. n /\ i = h + j /\ j \in 1 .. c /\ b + h + j = b + i
      BY <1>2, <2>2, <3>1
    <3>3. held'[i] = coming[j]
      BY <1>6, <1>7, <3>2 DEF IsJoin
    <3>4. coming[j] = w[b + h + j]
      BY <1>1, <3>2 DEF Fed
    <3>5. QED
      BY <3>2, <3>3, <3>4
  <2>3. QED
    BY <2>1, <2>2
<1>12. ASSUME NEW i \in 1 .. c - n PROVE coming'[i] = w[b + (h + n) + i]
  <2>1. n + i \in 1 .. c /\ b + h + (n + i) = b + (h + n) + i
    BY <1>2
  <2>2. coming[n + i] = w[b + h + (n + i)]
    BY <1>1, <2>1 DEF Fed
  <2>3. QED
    BY <1>8, <2>1, <2>2
<1>13. Fed'
  <2>1. held' \in Seq(FormUnits(items')) /\ coming' \in Seq(FormUnits(items')) /\ FormPos' \in Nat
    BY <1>2, <1>7, <1>8, <1>9, <1>10 DEF IsJoin
  <2>2. Len(held') = h + n
    BY <1>7 DEF IsJoin
  <2>3. \A i \in 1 .. Len(held') : held'[i] = Whole'[FormPos' + i]
    BY <1>9, <1>10, <1>11, <2>2
  <2>4. \A i \in 1 .. Len(coming') : coming'[i] = Whole'[FormPos' + Len(held') + i]
    BY <1>8, <1>9, <1>10, <1>12, <2>2
  <2>5. QED
    BY <2>1, <2>3, <2>4 DEF Fed
<1>14. QED
  BY <1>1, <1>10, <1>13

LEMMA FormStarts == FormInit => FormInv
<1>1. SUFFICES ASSUME FormInit PROVE FormInv
  OBVIOUS
<1>2. items \in Forms /\ coming = Whole /\ held = <<>> /\ state = "initial" /\ form = <<>>
      /\ is_valid = FALSE
  BY <1>1 DEF FormInit, Whole
<1>3. Whole \in Seq(FormUnits(items)) /\ \E p : FormLaid(Whole, items, p)
  BY <1>2, SerializedLaid DEF Whole
<1>4. Len(held) = 0 /\ held \in Seq(FormUnits(items)) /\ Len(Whole) \in Nat
  BY <1>2, <1>3, LenProperties
<1>5. FormPos = 0
  BY <1>2, <1>4 DEF FormPos
<1>6. Fed
  <2>1. \A i \in 1 .. Len(held) : held[i] = Whole[FormPos + i]
    BY <1>4
  <2>2. \A i \in 1 .. Len(coming) : coming[i] = Whole[FormPos + Len(held) + i]
    <3>1. ASSUME NEW i \in 1 .. Len(Whole) PROVE FormPos + Len(held) + i = i
      BY <1>4, <1>5
    <3>2. QED
      BY <1>2, <3>1
  <2>3. QED
    BY <1>2, <1>3, <1>4, <1>5, <2>1, <2>2 DEF Fed
<1>7. \A p : FormPlace(p)
  BY <1>2, <1>5 DEF FormPlace, InInitial
<1>8. QED
  BY <1>2, <1>3, <1>6, <1>7 DEF FormInv

(* What buf_find finds.                                                    *)
LEMMA FindFirst ==
  ASSUME NEW s, NEW word, Len(s) \in Nat, NEW i \in 0 .. Len(s), StartsAt(s, i, word),
         \A j \in 0 .. i - 1 : ~StartsAt(s, j, word)
  PROVE  Find(s, word) = i
<1> DEFINE places == {j \in 0 .. Len(s) : StartsAt(s, j, word)}
<1>1. i \in places
  OBVIOUS
<1>2. \A j \in places : i <= j
  <2>1. ASSUME NEW j \in places, ~(i <= j) PROVE FALSE
    <3>1. j \in 0 .. Len(s) /\ StartsAt(s, j, word)
      OBVIOUS
    <3>2. j \in 0 .. i - 1
      BY <2>1, <3>1
    <3>3. QED
      BY <3>1, <3>2
  <2>2. QED
    BY <2>1
<1>3. \A j \in places : j \in Nat
  OBVIOUS
<1>4. Find(s, word) = IF places = {} THEN Len(s)
                      ELSE CHOOSE k \in places : \A j \in places : k <= j
  BY DEF Find
<1> HIDE DEF places
<1>5. PICK f : f = CHOOSE k \in places : \A j \in places : k <= j
  OBVIOUS
<1>6. f \in places /\ \A j \in places : f <= j
  BY <1>1, <1>2, <1>5
<1>7. f \in Nat /\ f <= i /\ i <= f
  BY <1>1, <1>2, <1>3, <1>6
<1>8. Find(s, word) = f
  BY <1>1, <1>4, <1>5
<1>9. QED
  BY <1>7, <1>8

LEMMA FindNone ==
  ASSUME NEW s, NEW word, \A j \in 0 .. Len(s) : ~StartsAt(s, j, word)
  PROVE  Find(s, word) = Len(s)
BY DEF Find

LEMMA StartsIs ==
  ASSUME NEW U, NEW s \in Seq(U), NEW V, NEW word \in Seq(V), NEW i \in Nat
  PROVE  StartsAt(s, i, word) <=> i + Len(word) <= Len(s) /\ WordAt(s, i, word)
<1>1. PICK m, l, d : m = Len(word) /\ l = Len(s) /\ d = SubSeq(s, i + 1, i + m)
  OBVIOUS
<1>2. m \in Nat /\ l \in Nat
  BY <1>1, LenProperties
<1>3. ASSUME i + m <= l PROVE d = word <=> WordAt(s, i, word)
  <2>1. i + 1 \in 1 .. Len(s) + 1 /\ i + m \in i + 1 - 1 .. Len(s)
    BY <1>1, <1>2, <1>3
  <2>2. /\ d \in Seq(U) /\ Len(d) = i + m - (i + 1) + 1
        /\ \A x \in 1 .. i + m - (i + 1) + 1 : d[x] = s[i + 1 + x - 1]
    BY <1>1, <2>1, SubSeqProperties
  <2>3. i + m - (i + 1) + 1 = m /\ \A x \in 1 .. m : i + 1 + x - 1 = i + x
    BY <1>2
  <2>4. \A x \in 1 .. m : d[x] = s[i + x]
    BY <2>2, <2>3
  <2>5. d = word <=> \A x \in 1 .. m : d[x] = word[x]
    <3>1. Len(d) = Len(word) /\ Len(d) = m
      BY <1>1, <2>2, <2>3
    <3>2. ASSUME \A x \in 1 .. m : d[x] = word[x] PROVE d = word
      <4>1. d \in Seq(U \cup V) /\ word \in Seq(U \cup V)
        BY <2>2
      <4>2. QED
        BY <3>1, <3>2, <4>1, SeqEqual
    <3>3. QED
      BY <3>2
  <2>6. QED
    BY <1>1, <2>4, <2>5 DEF WordAt
<1>4. QED
  BY <1>1, <1>3 DEF StartsAt

LEMMA HeldStarts ==
  ASSUME Fed, items \in Forms, NEW V, NEW word \in Seq(V), NEW i \in Nat
  PROVE  StartsAt(held, i, word) <=> i + Len(word) <= Len(held) /\ WordAt(Whole, FormPos + i, word)
<1>1. PICK U, m, h, b, w : /\ U = FormUnits(items) /\ m = Len(word) /\ h = Len(held)
                           /\ b = FormPos /\ w = Whole
  OBVIOUS
<1>2. m \in Nat /\ h \in Nat /\ b \in Nat /\ held \in Seq(U)
  BY <1>1, FedLengths, LenProperties DEF Fed
<1>3. StartsAt(held, i, word) <=> i + m <= h /\ WordAt(held, i, word)
  BY <1>1, <1>2, StartsIs
<1>4. ASSUME i + m <= h, NEW x \in 1 .. m PROVE held[i + x] = w[b + i + x]
  <2>1. i + x \in 1 .. h /\ b + (i + x) = b + i + x
    BY <1>2, <1>4
  <2>2. held[i + x] = w[b + (i + x)]
    BY <1>1, <2>1 DEF Fed
  <2>3. QED
    BY <2>1, <2>2
<1>5. ASSUME i + m <= h PROVE WordAt(held, i, word) <=> WordAt(w, b + i, word)
  BY <1>1, <1>4, <1>5 DEF WordAt
<1>6. QED
  BY <1>1, <1>3, <1>5

(* The next occurrence of a word in the body, from what is held on.        *)
NextWord(word, m, i) ==
  /\ word \in Seq(Marks) /\ Len(word) = m /\ m \in Nat /\ i \in Nat
  /\ WordAt(Whole, FormPos + i, word)
  /\ \A j \in 0 .. i - 1 : ~WordAt(Whole, FormPos + j, word)

LEMMA FoundHere ==
  ASSUME Fed, items \in Forms, NEW word, NEW m, NEW i, NextWord(word, m, i), i + m <= Len(held)
  PROVE  Find(held, word) = i
<1>1. word \in Seq(Marks) /\ Len(word) = m /\ m \in Nat /\ i \in Nat
  BY DEF NextWord
<1>2. PICK h : h = Len(held)
  OBVIOUS
<1>3. h \in Nat /\ i + m <= h
  BY <1>2, FedLengths
<1>4. StartsAt(held, i, word)
  BY <1>1, HeldStarts DEF NextWord
<1>5. ASSUME NEW j \in 0 .. i - 1 PROVE ~StartsAt(held, j, word)
  <2>1. j \in Nat
    BY <1>1
  <2>2. QED
    BY <1>1, <2>1, HeldStarts DEF NextWord
<1>6. i \in 0 .. h
  BY <1>1, <1>3
<1>7. QED
  BY <1>2, <1>3, <1>4, <1>5, <1>6, FindFirst

LEMMA NotFoundYet ==
  ASSUME Fed, items \in Forms, NEW word, NEW m, NEW i, NextWord(word, m, i), ~(i + m <= Len(held))
  PROVE  Find(held, word) = Len(held)
<1>1. word \in Seq(Marks) /\ Len(word) = m /\ m \in Nat /\ i \in Nat
  BY DEF NextWord
<1>2. PICK h : h = Len(held)
  OBVIOUS
<1>3. h \in Nat /\ ~(i + m <= h)
  BY <1>2, FedLengths
<1>4. ASSUME NEW j \in 0 .. h, StartsAt(held, j, word) PROVE FALSE
  <2>1. j \in Nat
    BY <1>3
  <2>2. j + m <= h /\ WordAt(Whole, FormPos + j, word)
    BY <1>1, <1>2, <1>4, <2>1, HeldStarts
  <2>3. j \in 0 .. i - 1
    BY <1>1, <1>3, <2>1, <2>2
  <2>4. QED
    BY <2>2, <2>3 DEF NextWord
<1>5. QED
  BY <1>2, <1>4, FindNone

(* No delimiter begins in a content: it would be within the content, or    *)
(* overlap with the one after it, which has its only CR at its beginning.  *)
LEMMA ContentClean ==
  ASSUME NEW U, NEW c \in Seq(U), \A i \in 0 .. Len(c) : ~StartsAt(c, i, crlf_dash_boundary),
         NEW w, NEW b \in Nat, WordAt(w, b, c), WordAt(w, b + Len(c), crlf_dash_boundary),
         NEW j \in 0 .. Len(c) - 1
  PROVE  ~WordAt(w, b + j, crlf_dash_boundary)
<1>1. PICK n : n = Len(c)
  OBVIOUS
<1>2. n \in Nat /\ j \in Nat /\ j < n
  BY <1>1, LenProperties
<1>3. SUFFICES ASSUME WordAt(w, b + j, crlf_dash_boundary) PROVE FALSE
  OBVIOUS
<1>4. \A x \in 1 .. 5 : w[b + j + x] = crlf_dash_boundary[x]
  BY <1>3, DelimiterIs DEF WordAt
<1>5. \A x \in 1 .. 5 : w[b + n + x] = crlf_dash_boundary[x]
  BY <1>1, DelimiterIs DEF WordAt
<1>6. CASE j + 5 <= n
  <2>1. ASSUME NEW x \in 1 .. 5 PROVE c[j + x] = crlf_dash_boundary[x]
    <3>1. j + x \in 1 .. n /\ b + (j + x) = b + j + x
      BY <1>2, <1>6
    <3>2. w[b + (j + x)] = c[j + x]
      BY <1>1, <3>1 DEF WordAt
    <3>3. QED
      BY <1>4, <3>1, <3>2
  <2>2. WordAt(c, j, crlf_dash_boundary)
    BY <2>1, DelimiterIs DEF WordAt
  <2>3. StartsAt(c, j, crlf_dash_boundary)
    BY <1>1, <1>2, <1>6, <2>2, DelimiterIs, StartsIs
  <2>4. QED
    BY <1>1, <2>3
<1>7. CASE ~(j + 5 <= n)
  <2>1. PICK d : d = n - j
    OBVIOUS
  <2>2. d \in 1 .. 4 /\ d + 1 \in 2 .. 5 /\ d + 1 \in 1 .. 5 /\ b + j + (d + 1) = b + n + 1
    BY <1>2, <1>7, <2>1
  <2>3. w[b + n + 1] = CR
    BY <1>5, DelimiterIs
  <2>4. w[b + j + (d + 1)] = crlf_dash_boundary[d + 1]
    BY <1>4, <2>2
  <2>5. crlf_dash_boundary[d + 1] # CR
    <3>1. d + 1 = 2 \/ d + 1 = 3 \/ d + 1 = 4 \/ d + 1 = 5
      BY <2>2
    <3>2. LF # CR /\ "-" # CR /\ "B" # CR
      BY DEF LF, CR
    <3>3. QED
      BY <3>1, <3>2, DelimiterIs
  <2>6. QED
    BY <2>2, <2>3, <2>4, <2>5
<1>8. QED
  BY <1>6, <1>7

LEMMA FormPlaceStays ==
  ASSUME NEW p, FormPlace(p), FormPos' = FormPos,
         UNCHANGED <<items, lines, state, is_valid, form>>
  PROVE  FormPlace(p)'
BY DEF FormPlace, InInitial, InHead, InBody, InBoundary, InEpilogue, Received, Whole

LEMMA FormWaits ==
  ASSUME NEW p, items \in Forms, Fed, FormLaid(Whole, items, p), FormPlace(p),
         is_valid = TRUE \/ FormPos + Len(held) < Len(Whole),
         Waits, UNCHANGED <<items, lines, coming>>
  PROVE  FormInv'
<1>1. UNCHANGED <<held, state, is_valid, form, items, lines, coming>>
  BY DEF Waits
<1>2. FormPos' = FormPos
  BY <1>1 DEF FormPos, Whole
<1>3. Fed'
  BY <1>1, <1>2 DEF Fed, Whole
<1>4. FormPlace(p)'
  BY <1>1, <1>2, FormPlaceStays
<1>5. ~parsing' /\ ~is_valid' => held' = <<>> \/ coming' # <<>> \/ refused'
  <2>1. ~is_valid' => coming # <<>>
    BY <1>1, StillToCome
  <2>2. QED
    BY <1>1, <2>1
<1>6. QED
  BY <1>1, <1>3, <1>4, <1>5, FormGoesOn

LEMMA FormRefuses ==
  ASSUME NEW p, items \in Forms, Fed, FormLaid(Whole, items, p), FormPlace(p), is_valid = FALSE,
         Refuses, is_valid' = FALSE, UNCHANGED <<items, lines, coming>>
  PROVE  FormInv'
<1>1. UNCHANGED <<held, state, is_valid, form, items, lines, coming>> /\ refused' = TRUE
  BY DEF Refuses
<1>2. FormPos' = FormPos
  BY <1>1 DEF FormPos, Whole
<1>3. Fed'
  BY <1>1, <1>2 DEF Fed, Whole
<1>4. FormPlace(p)'
  BY <1>1, <1>2, FormPlaceStays
<1>5. QED
  BY <1>1, <1>3, <1>4, FormGoesOn

LEMMA FormFeeds ==
  ASSUME FormInv, NEW n \in 1 .. Len(coming), Feed(n)
  PROVE  FormInv'
<1>1. PICK p : FormLaid(Whole, items, p) /\ FormPlace(p)
  BY DEF FormInv
<1>2. items \in Forms /\ Fed
  BY DEF FormInv
<1>3. Fed' /\ FormPos' = FormPos
  BY <1>2, FedMore
<1>4. UNCHANGED <<items, lines, state, is_valid, form>> /\ parsing' = TRUE
  BY DEF Feed
<1>5. FormPlace(p)'
  BY <1>1, <1>3, <1>4, FormPlaceStays
<1>6. QED
  BY <1>1, <1>2, <1>3, <1>4, <1>5, FormGoesOn

(* The k-th item's places, as numbers.                                     *)
LEMMA ItemPlaces ==
  ASSUME items \in Forms, NEW p, FormLaid(Whole, items, p), NEW k \in 1 .. Len(items)
  PROVE  /\ p[k - 1] \in Nat /\ p[k] \in Nat /\ Len(items[k]) \in Nat /\ Len(Whole) \in Nat
         /\ p[k] = p[k - 1] + Len(items[k]) + 12 /\ p[k] + 7 <= Len(Whole)
         /\ ItemHolds(Whole, p[k - 1], items[k])
<1>1. ItemAt(Whole, items, p, k)
  BY DEF FormLaid
<1>2. Len(items[k]) \in Nat
  BY FormIs
<1>3. Len(Whole) \in Nat
  <2>1. Whole \in Seq(FormUnits(items))
    BY SerializedLaid DEF Whole
  <2>2. QED
    BY <2>1, LenProperties
<1>4. QED
  BY <1>1, <1>2, <1>3 DEF ItemAt

LEMMA NoneReceived ==
  ASSUME items \in Forms
  PROVE  Received(0) = <<>> /\ Received(Len(items)) = items
<1>1. items \in Seq(Range(items)) /\ Len(items) \in Nat
  BY FormIs
<1>2. SubSeq(items, 1, 0) = <<>>
  BY <1>1, SubSeqEmpty
<1>3. SubSeq(items, 1, Len(items)) = items
  BY <1>1, SubSeqFull
<1>4. QED
  BY <1>2, <1>3 DEF Received

LEMMA ReceivedIs ==
  ASSUME items \in Forms, NEW k \in 0 .. Len(items)
  PROVE  /\ Received(k) \in Seq(Seq(FormUnits(items))) /\ Len(Received(k)) = k
         /\ \A i \in 1 .. k : Received(k)[i] = items[i]
<1>1. PICK n, T, s, r : /\ n = Len(items) /\ T = Seq(FormUnits(items)) /\ s = items
                        /\ r = Received(k)
  OBVIOUS
<1>2. n \in Nat /\ k \in Nat /\ k <= n
  BY <1>1, FormIs
<1>3. s \in Seq(T)
  <2>1. s \in Seq(Range(s)) /\ DOMAIN s = 1 .. n /\ \A j \in 1 .. n : s[j] \in T
    BY <1>1, FormIs
  <2>2. QED
    BY <1>2, <2>1
<1>4. 1 \in 1 .. Len(s) + 1 /\ k \in 1 - 1 .. Len(s)
  BY <1>1, <1>2
<1>5. r = SubSeq(s, 1, k)
  BY <1>1 DEF Received
<1>6. r \in Seq(T) /\ Len(r) = k - 1 + 1 /\ \A i \in 1 .. k - 1 + 1 : r[i] = s[1 + i - 1]
  BY <1>3, <1>4, <1>5, SubSeqProperties
<1>7. k - 1 + 1 = k /\ \A i \in 1 .. k : 1 + i - 1 = i
  BY <1>2
<1>8. Len(r) = k /\ \A i \in 1 .. k : r[i] = s[i]
  BY <1>6, <1>7
<1>9. QED
  BY <1>1, <1>6, <1>8

LEMMA InitialSteps == FormInv /\ InitialBoundary => FormInv'
<1>1. SUFFICES ASSUME FormInv, InitialBoundary PROVE FormInv'
  OBVIOUS
<1>2. PICK p : FormLaid(Whole, items, p) /\ FormPlace(p)
  BY <1>1 DEF FormInv
<1>3. items \in Forms /\ Fed /\ state = "initial" /\ UNCHANGED <<items, lines, coming>>
  BY <1>1 DEF FormInv, InitialBoundary, In
<1>4. is_valid = FALSE /\ form = <<>> /\ FormPos = 0
  BY <1>2, <1>3 DEF FormPlace, InInitial, InHead, InBody, InBoundary, InEpilogue
<1>5. 1 \in 1 .. Len(items) /\ p[1 - 1] = 0
  BY <1>2, <1>3, FormIs DEF FormLaid
<1>6. ItemHolds(Whole, 0, items[1]) /\ 19 <= Len(Whole)
  <2>1. PICK a, e, m : a = p[1 - 1] /\ e = p[1] /\ m = Len(items[1])
    OBVIOUS
  <2>2. /\ a \in Nat /\ m \in Nat /\ Len(Whole) \in Nat /\ e = a + m + 12 /\ e + 7 <= Len(Whole)
        /\ ItemHolds(Whole, a, items[1])
    BY <1>2, <1>3, <1>5, <2>1, ItemPlaces
  <2>3. QED
    BY <1>5, <2>1, <2>2
<1>7. NextWord(dash_boundary_crlf, 5, 0)
  <2>1. FormPos + 0 = 0
    BY <1>4
  <2>2. WordAt(Whole, FormPos + 0, dash_boundary_crlf)
    BY <1>6, <2>1 DEF ItemHolds
  <2>3. QED
    BY <2>2, OpeningIs DEF NextWord
<1>8. PICK h : h = Len(held)
  OBVIOUS
<1>9. h \in Nat /\ Len(Whole) \in Nat
  BY <1>3, <1>8, FedLengths
<1>10. CASE 0 + 5 <= h
  <2>1. Find(held, dash_boundary_crlf) = 0
    BY <1>3, <1>7, <1>8, <1>10, FoundHere
  <2>2. Consumes(0 + Len(dash_boundary_crlf), "entry") /\ UNCHANGED <<is_valid, form>>
    <3>1. Find(held, dash_boundary_crlf) # Len(held)
      BY <1>8, <1>9, <1>10, <2>1
    <3>2. QED
      BY <1>1, <2>1, <3>1 DEF InitialBoundary
  <2>3. Consumes(5, "entry") /\ UNCHANGED <<is_valid, form>>
    <3>1. 0 + Len(dash_boundary_crlf) = 5
      BY OpeningIs
    <3>2. QED
      BY <2>2, <3>1
  <2>4. 5 \in 0 .. Len(held)
    BY <1>8, <1>9, <1>10
  <2>5. Fed' /\ FormPos' = FormPos + 5
    BY <1>3, <2>3, <2>4, Consumed DEF Consumes
  <2>6. InHead(p)'
    <3>1. form' = Received(1 - 1)
      BY <1>3, <1>4, <2>3, NoneReceived
    <3>2. form' = Received(1 - 1)'
      BY <1>3, <3>1 DEF Received
    <3>3. FormPos' = p[1 - 1] + 5 /\ 1 \in 1 .. Len(items') /\ state' = "entry"
      BY <1>3, <1>4, <1>5, <2>3, <2>5 DEF Consumes
    <3>4. QED
      BY <3>2, <3>3 DEF InHead
  <2>7. FormPlace(p)'
    BY <1>4, <2>3, <2>6 DEF FormPlace
  <2>8. ~parsing' => held' = <<>>
    BY <2>3 DEF Consumes
  <2>9. QED
    BY <1>2, <1>3, <2>5, <2>7, <2>8, FormGoesOn
<1>11. CASE ~(0 + 5 <= h)
  <2>1. Find(held, dash_boundary_crlf) = Len(held)
    BY <1>3, <1>7, <1>8, <1>11, NotFoundYet
  <2>2. Waits
    BY <1>1, <2>1 DEF InitialBoundary
  <2>3. FormPos + Len(held) < Len(Whole)
    BY <1>4, <1>6, <1>8, <1>9, <1>11
  <2>4. QED
    BY <1>2, <1>3, <2>2, <2>3, FormWaits
<1>12. QED
  BY <1>10, <1>11

LEMMA EntrySteps == FormInv /\ NewEntry => FormInv'
<1>1. SUFFICES ASSUME FormInv, NewEntry PROVE FormInv'
  OBVIOUS
<1>2. PICK p : FormLaid(Whole, items, p) /\ FormPlace(p)
  BY <1>1 DEF FormInv
<1>3. /\ items \in Forms /\ Fed /\ state = "entry" /\ held # <<>>
      /\ UNCHANGED <<items, lines, coming, is_valid, form>> /\ Consumes(0, "headers")
  BY <1>1 DEF FormInv, NewEntry, In
<1>4. PICK h, b, l, c : h = Len(held) /\ b = FormPos /\ l = Len(Whole) /\ c = Len(coming)
  OBVIOUS
<1>5. h \in Nat \ {0} /\ b \in Nat /\ l \in Nat /\ c \in Nat /\ b + h + c = l
  <2>1. held \in Seq(FormUnits(items))
    BY <1>3 DEF Fed
  <2>2. h # 0
    BY <1>3, <1>4, <2>1, EmptySeq
  <2>3. QED
    BY <1>3, <1>4, <2>2, FedLengths
<1>6. b # l
  BY <1>5
<1>7. is_valid = FALSE /\ InHead(p)
  BY <1>2, <1>3, <1>4, <1>6 DEF FormPlace, InInitial, InBody, InBoundary, InEpilogue
<1>8. PICK k \in 1 .. Len(items) : form = Received(k - 1) /\ FormPos = p[k - 1] + 5
  BY <1>3, <1>7 DEF InHead
<1>9. 0 \in 0 .. Len(held)
  BY <1>4, <1>5
<1>10. Fed' /\ FormPos' = FormPos + 0
  BY <1>3, <1>9, Consumed DEF Consumes
<1>11. FormPos' = p[k - 1] + 5
  BY <1>4, <1>5, <1>8, <1>10
<1>12. InHead(p)'
  <2>1. form' = Received(k - 1)' /\ k \in 1 .. Len(items') /\ state' = "headers"
    BY <1>3, <1>8 DEF Received, Consumes
  <2>2. QED
    BY <1>11, <2>1 DEF InHead
<1>13. FormPlace(p)'
  BY <1>3, <1>7, <1>12 DEF FormPlace
<1>14. ~parsing' => held' = <<>>
  BY <1>3 DEF Consumes
<1>15. QED
  BY <1>2, <1>3, <1>10, <1>13, <1>14, FormGoesOn

(* What the parser has let pass, and why it has refused the form.          *)
Measured == lines \in [1 .. Len(items) -> HeaderSizes]

FormLimits ==
  /\ Measured
  /\ \A i \in DOMAIN form : i <= FormItemsMax /\ lines[i] <= FormHeaderMax
  /\ refused => ~FormFits(FormHeaderMax - 1)

LEMMA LineIs ==
  ASSUME Measured, NEW k \in 1 .. Len(items)
  PROVE  lines[k] \in Nat /\ FormHeaderMax \in Nat \ {0} /\ FormItemsMax \in Nat
BY FormLimitsAssumption DEF Measured

(* The next unit of the body is the first of those the parser holds.       *)
LEMMA FirstHeld ==
  ASSUME Fed, items \in Forms, held # <<>>
  PROVE  Head(held) = Whole[FormPos + 1]
<1>1. held \in Seq(FormUnits(items))
  BY DEF Fed
<1>2. Len(held) \in Nat \ {0}
  BY <1>1, LenProperties, EmptySeq
<1>3. Head(held) = held[1] /\ 1 \in 1 .. Len(held)
  BY <1>1, <1>2
<1>4. QED
  BY <1>3 DEF Fed

(* The two lines of an item's header section, from its places.             *)
LEMMA LineAhead ==
  ASSUME items \in Forms, Fed, NEW p, FormLaid(Whole, items, p), NEW k \in 1 .. Len(items),
         FormPos = p[k - 1] + 5
  PROVE  NextWord(crlf, 2, 1) /\ (held # <<>> => Head(held) = "H")
<1>1. PICK a, b, w : a = p[k - 1] /\ b = FormPos /\ w = Whole
  OBVIOUS
<1>2. a \in Nat /\ ItemHolds(w, a, items[k]) /\ b = a + 5
  BY <1>1, ItemPlaces
<1>3. b + 1 = a + 6 /\ b + 0 = a + 5 /\ b + 0 + 1 = a + 6
  BY <1>2
<1>4. WordAt(w, b + 1, crlf)
  BY <1>2, <1>3 DEF ItemHolds
<1>5. w[a + 6] = "H" /\ "H" # CR
  BY <1>2 DEF ItemHolds, CR
<1>6. ~WordAt(w, b + 0, crlf)
  <2>1. SUFFICES ASSUME WordAt(w, b + 0, crlf) PROVE FALSE
    OBVIOUS
  <2>2. w[b + 0 + 1] = CR
    BY <2>1, CrlfIs DEF WordAt
  <2>3. QED
    BY <1>3, <1>5, <2>2
<1>7. \A j \in 0 .. 1 - 1 : j = 0
  OBVIOUS
<1>8. NextWord(crlf, 2, 1)
  BY <1>1, <1>4, <1>6, <1>7, CrlfIs DEF NextWord
<1>9. held # <<>> => Head(held) = "H"
  BY <1>1, <1>3, <1>5, FirstHeld
<1>10. QED
  BY <1>8, <1>9

LEMMA EmptyLineAhead ==
  ASSUME items \in Forms, Fed, NEW p, FormLaid(Whole, items, p), NEW k \in 1 .. Len(items),
         FormPos = p[k - 1] + 8
  PROVE  NextWord(crlf, 2, 0) /\ (held # <<>> => Head(held) = CR)
<1>1. PICK a, b, w : a = p[k - 1] /\ b = FormPos /\ w = Whole
  OBVIOUS
<1>2. a \in Nat /\ ItemHolds(w, a, items[k]) /\ b = a + 8
  BY <1>1, ItemPlaces
<1>3. b + 0 = a + 8 /\ b + 1 = a + 8 + 1
  BY <1>2
<1>4. WordAt(w, b + 0, crlf) /\ w[a + 8 + 1] = CR
  BY <1>2, <1>3, CrlfIs DEF ItemHolds, WordAt
<1>5. NextWord(crlf, 2, 0)
  BY <1>1, <1>4, CrlfIs DEF NextWord
<1>6. held # <<>> => Head(held) = CR
  BY <1>1, <1>3, <1>4, FirstHeld
<1>7. QED
  BY <1>5, <1>6

LEMMA HeaderSteps == FormInv /\ Measured /\ Headers => FormInv'
<1>1. SUFFICES ASSUME FormInv, Measured, Headers PROVE FormInv'
  OBVIOUS
<1>2. PICK p : FormLaid(Whole, items, p) /\ FormPlace(p)
  BY <1>1 DEF FormInv
<1>3. items \in Forms /\ Fed /\ state = "headers" /\ UNCHANGED <<items, lines, coming>>
  BY <1>1 DEF FormInv, Headers, In
<1>4. is_valid = FALSE /\ InHead(p)
  BY <1>2, <1>3 DEF FormPlace, InInitial, InBody, InBoundary, InEpilogue
<1>5. PICK k \in 1 .. Len(items) :
        /\ form = Received(k - 1)
        /\ FormPos = p[k - 1] + 5 \/ (FormPos = p[k - 1] + 8 /\ lines[k] <= FormHeaderMax)
  BY <1>3, <1>4 DEF InHead
<1>6. PICK a, e, m, h, l, b, w : /\ a = p[k - 1] /\ e = p[k] /\ m = Len(items[k]) /\ h = Len(held)
                                 /\ l = Len(Whole) /\ b = FormPos /\ w = Whole
  OBVIOUS
<1>7. /\ a \in Nat /\ m \in Nat /\ l \in Nat /\ e = a + m + 12 /\ e + 7 <= l
      /\ ItemHolds(w, a, items[k])
  BY <1>2, <1>3, <1>6, ItemPlaces
<1>8. h \in Nat /\ b \in Nat
  BY <1>3, <1>6, FedLengths
<1>12. CASE Refuses /\ is_valid' = FALSE
  BY <1>2, <1>3, <1>4, <1>12, FormRefuses
<1>a. SUFFICES ASSUME ~(Refuses /\ is_valid' = FALSE)
               PROVE  FormInv'
  BY <1>12
<1>b. /\ held # <<>> /\ Len(form) + 1 = k
      /\ ~(SizeBefore(Find(held, crlf)) > FormHeaderMax)
      /\ ~(Find(held, crlf) = 0 /\ Find(held, crlf) < Len(held) /\ Len(form) = FormItemsMax)
  <2>1. ~(SizeBefore(Find(held, crlf)) > FormHeaderMax)
    BY <1>1, <1>4, <1>a DEF Headers
  <2>2. ~(Find(held, crlf) = 0 /\ Find(held, crlf) < Len(held) /\ Len(form) = FormItemsMax)
    BY <1>1, <1>4, <1>a, <2>1 DEF Headers
  <2>3. k - 1 \in 0 .. Len(items) /\ k - 1 + 1 = k
    BY <1>3, FormIs
  <2>4. Len(form) = k - 1
    BY <1>3, <1>5, <2>3, ReceivedIs
  <2>5. held # <<>>
    BY <1>1 DEF Headers, In
  <2>6. QED
    BY <2>1, <2>2, <2>3, <2>4, <2>5
<1>9. CASE b = a + 5
  <2>1. NextWord(crlf, 2, 1)
    BY <1>2, <1>3, <1>6, <1>9, LineAhead
  <2>a. ~(SizeBefore(1) > FormHeaderMax) => lines[k] <= FormHeaderMax
    <3>1. Head(held) = "H"
      BY <1>2, <1>3, <1>6, <1>9, <1>b, LineAhead
    <3>2. SizeBefore(1) = lines[k] + (1 - 1)
      BY <1>b, <3>1 DEF SizeBefore
    <3>3. lines[k] \in Nat /\ FormHeaderMax \in Nat
      BY <1>1, LineIs
    <3>4. QED
      BY <3>2, <3>3
  <2>2. CASE 1 + 2 <= h
    <3>1. Find(held, crlf) = 1
      BY <1>3, <1>6, <2>1, <2>2, FoundHere
    <3>2. 1 # Len(held) /\ 1 # 0
      BY <1>6, <1>8, <2>2
    <3>3. Consumes(1 + Len(crlf), "headers") /\ UNCHANGED <<is_valid, form>>
      BY <1>1, <1>b, <3>1, <3>2 DEF Headers
    <3>a. lines[k] <= FormHeaderMax
      BY <1>b, <2>a, <3>1
    <3>4. 1 + Len(crlf) = 3 /\ 3 \in 0 .. Len(held)
      BY <1>6, <1>8, <2>2, CrlfIs
    <3>5. Consumes(3, "headers")
      BY <3>3, <3>4
    <3>6. Fed' /\ FormPos' = FormPos + 3
      BY <1>3, <3>4, <3>5, Consumed DEF Consumes
    <3>7. FormPos' = p[k - 1] + 8
      <4>1. b + 3 = a + 8
        BY <1>7, <1>9
      <4>2. QED
        BY <1>6, <3>6, <4>1
    <3>8. InHead(p)'
      <4>1. form' = Received(k - 1)' /\ k \in 1 .. Len(items') /\ state' = "headers"
        BY <1>3, <1>5, <3>3, <3>5 DEF Received, Consumes
      <4>2. QED
        BY <1>3, <3>7, <3>a, <4>1 DEF InHead
    <3>9. FormPlace(p)'
      BY <1>4, <3>3, <3>8 DEF FormPlace
    <3>10. ~parsing' => held' = <<>>
      BY <3>5 DEF Consumes
    <3>11. QED
      BY <1>2, <1>3, <3>6, <3>9, <3>10, FormGoesOn
  <2>3. CASE ~(1 + 2 <= h)
    <3>1. Find(held, crlf) = Len(held)
      BY <1>3, <1>6, <2>1, <2>3, NotFoundYet
    <3>2. Waits
      <4>1. ~(Len(held) < Len(held))
        BY <1>6, <1>8
      <4>2. QED
        BY <1>1, <1>b, <3>1, <4>1 DEF Headers
    <3>3. b + h < l
      BY <1>7, <1>8, <1>9, <2>3
    <3>4. QED
      BY <1>2, <1>3, <1>6, <3>2, <3>3, FormWaits
  <2>4. QED
    BY <2>2, <2>3
<1>10. CASE b = a + 8
  <2>1. NextWord(crlf, 2, 0)
    BY <1>2, <1>3, <1>6, <1>10, EmptyLineAhead
  <2>2. CASE 0 + 2 <= h
    <3>1. Find(held, crlf) = 0
      BY <1>3, <1>6, <2>1, <2>2, FoundHere
    <3>2. 0 # Len(held) /\ ~(0 < 0)
      BY <1>6, <1>8, <2>2
    <3>3. form' = Append(form, <<>>) /\ Consumes(Len(crlf), "body") /\ UNCHANGED is_valid
      BY <1>1, <1>b, <3>1, <3>2 DEF Headers
    <3>4. Len(crlf) = 2 /\ 2 \in 0 .. Len(held)
      BY <1>6, <1>8, <2>2, CrlfIs
    <3>5. Consumes(2, "body")
      BY <3>3, <3>4
    <3>6. Fed' /\ FormPos' = FormPos + 2
      BY <1>3, <3>4, <3>5, Consumed DEF Consumes
    <3>7. FormPos' = p[k - 1] + 10 + 0
      <4>1. b + 2 = a + 10 + 0
        BY <1>7, <1>10
      <4>2. QED
        BY <1>6, <3>6, <4>1
    <3>8. form' = Append(Received(k - 1), SubSeq(items[k], 1, 0))
      <4>1. items[k] \in Seq(FormUnits(items))
        BY <1>3, FormIs
      <4>2. SubSeq(items[k], 1, 0) = <<>>
        BY <4>1, SubSeqEmpty
      <4>3. QED
        BY <1>5, <3>3, <4>2
    <3>9. InBody(p)'
      <4>1. form' = Append(Received(k - 1)', SubSeq(items[k]', 1, 0)) /\ k \in 1 .. Len(items')
        BY <1>3, <3>8 DEF Received
      <4>2. state' = "body" /\ 0 \in Nat /\ 0 <= Len(items[k]')
        BY <1>3, <1>6, <1>7, <3>5 DEF Consumes
      <4>3. QED
        BY <3>7, <4>1, <4>2 DEF InBody
    <3>10. FormPlace(p)'
      BY <1>4, <3>3, <3>9 DEF FormPlace
    <3>11. ~parsing' => held' = <<>>
      BY <3>5 DEF Consumes
    <3>12. QED
      BY <1>2, <1>3, <3>6, <3>10, <3>11, FormGoesOn
  <2>3. CASE ~(0 + 2 <= h)
    <3>1. Find(held, crlf) = Len(held)
      BY <1>3, <1>6, <2>1, <2>3, NotFoundYet
    <3>2. Waits
      <4>1. ~(Len(held) < Len(held))
        BY <1>6, <1>8
      <4>2. QED
        BY <1>1, <1>b, <3>1, <4>1 DEF Headers
    <3>3. b + h < l
      BY <1>7, <1>8, <1>10, <2>3
    <3>4. QED
      BY <1>2, <1>3, <1>6, <3>2, <3>3, FormWaits
  <2>4. QED
    BY <2>2, <2>3
<1>11. QED
  BY <1>5, <1>6, <1>9, <1>10

(* What content_callback makes of the entry begun last.                    *)
LastExtended(g, s, data) == g = [s EXCEPT ![Len(s)] = @ \o data]

LEMMA LastGrows ==
  ASSUME NEW U, NEW r \in Seq(Seq(U)), NEW x \in Seq(U), NEW data \in Seq(U),
         NEW g, LastExtended(g, Append(r, x), data)
  PROVE  g = Append(r, x \o data)
<1>1. PICK n, s, y, T : n = Len(r) /\ s = Append(r, x) /\ y = x \o data /\ T = Seq(U)
  OBVIOUS
<1>a. r \in Seq(T) /\ x \in T /\ y \in T
  BY <1>1, ConcatAt
<1>2. n \in Nat /\ s \in Seq(T) /\ Len(s) = n + 1 /\ s[n + 1] = x /\ \A i \in 1 .. n : s[i] = r[i]
  BY <1>1, <1>a, AppendProperties, LenProperties
<1>3. DOMAIN s = 1 .. n + 1
  BY <1>2
<1>4. PICK t, u : t = [s EXCEPT ![n + 1] = y] /\ u = Append(r, y)
  OBVIOUS
<1>5. Len(u) = n + 1 /\ u \in Seq(T) /\ u[n + 1] = y /\ \A i \in 1 .. n : u[i] = r[i]
  BY <1>1, <1>4, <1>a, AppendProperties
<1>6. n + 1 \in 1 .. n + 1
  BY <1>2
<1>7. t \in Seq(T) /\ Len(t) = n + 1 /\ t[n + 1] = y /\ \A i \in 1 .. n : t[i] = s[i]
  BY <1>2, <1>3, <1>4, <1>6, <1>a
<1>8. ASSUME NEW i \in 1 .. n + 1 PROVE t[i] = u[i]
  <2>1. i \in 1 .. n \/ i = n + 1
    BY <1>2
  <2>2. QED
    BY <1>2, <1>5, <1>7, <2>1
<1>9. t = u
  BY <1>5, <1>7, <1>8, SeqEqual
<1>10. g = [s EXCEPT ![Len(s)] = s[Len(s)] \o data]
  BY <1>1 DEF LastExtended
<1>11. s[Len(s)] \o data = y /\ Len(s) = n + 1
  BY <1>1, <1>2
<1>12. g = t
  BY <1>4, <1>10, <1>11
<1>13. QED
  BY <1>1, <1>4, <1>9, <1>12

LEMMA ReceivesMore ==
  ASSUME items \in Forms, Fed, NEW p, FormLaid(Whole, items, p), NEW k \in 1 .. Len(items),
         NEW q \in Nat, FormPos = p[k - 1] + 10 + q,
         form = Append(Received(k - 1), SubSeq(items[k], 1, q)),
         NEW n \in 0 .. Len(held), q + n <= Len(items[k]), Receives(SubSeq(held, 1, n))
  PROVE  form' = Append(Received(k - 1), SubSeq(items[k], 1, q + n))
<1>1. PICK U, c, m, a, h, b, w : /\ U = FormUnits(items) /\ c = items[k] /\ m = Len(items[k])
                                 /\ a = p[k - 1] /\ h = Len(held) /\ b = FormPos /\ w = Whole
  OBVIOUS
<1>2. a \in Nat /\ m \in Nat /\ ItemHolds(w, a, c)
  BY <1>1, ItemPlaces
<1>3. h \in Nat /\ held \in Seq(U) /\ b \in Nat
  BY <1>1, FedLengths DEF Fed
<1>4. c \in Seq(U) /\ Len(c) = m
  BY <1>1, FormIs
<1>5. n \in Nat /\ n <= h /\ q + n <= m /\ b = a + 10 + q
  BY <1>1, <1>3
<1>6. PICK d : d = SubSeq(held, 1, n)
  OBVIOUS
<1>7. d \in Seq(U) /\ Len(d) = n /\ \A i \in 1 .. n : d[i] = held[i]
  <2>1. 1 \in 1 .. Len(held) + 1 /\ n \in 1 - 1 .. Len(held)
    BY <1>1, <1>3, <1>5
  <2>2. /\ d \in Seq(U) /\ Len(d) = n - 1 + 1
        /\ \A i \in 1 .. n - 1 + 1 : d[i] = held[1 + i - 1]
    BY <1>3, <1>6, <2>1, SubSeqProperties
  <2>3. n - 1 + 1 = n /\ \A i \in 1 .. n : 1 + i - 1 = i
    BY <1>5
  <2>4. QED
    BY <2>2, <2>3
<1>8. PICK f : f = SubSeq(c, q + 1, q + n)
  OBVIOUS
<1>9. f \in Seq(U) /\ Len(f) = n /\ \A i \in 1 .. n : f[i] = c[q + i]
  <2>1. q + 1 \in 1 .. Len(c) + 1 /\ q + n \in q + 1 - 1 .. Len(c)
    BY <1>2, <1>4, <1>5
  <2>2. /\ f \in Seq(U) /\ Len(f) = q + n - (q + 1) + 1
        /\ \A i \in 1 .. q + n - (q + 1) + 1 : f[i] = c[q + 1 + i - 1]
    BY <1>4, <1>8, <2>1, SubSeqProperties
  <2>3. q + n - (q + 1) + 1 = n /\ \A i \in 1 .. n : q + 1 + i - 1 = q + i
    BY <1>5
  <2>4. QED
    BY <2>2, <2>3
<1>10. ASSUME NEW i \in 1 .. n PROVE d[i] = f[i]
  <2>1. i \in 1 .. h /\ q + i \in 1 .. m /\ b + i = a + 10 + (q + i)
    BY <1>2, <1>3, <1>5
  <2>2. held[i] = w[b + i]
    BY <1>1, <2>1 DEF Fed
  <2>3. w[a + 10 + (q + i)] = c[q + i]
    BY <1>2, <1>4, <2>1 DEF ItemHolds, WordAt
  <2>4. QED
    BY <1>7, <1>9, <2>1, <2>2, <2>3
<1>11. d = f
  BY <1>7, <1>9, <1>10, SeqEqual
<1>12. PICK x, y : x = SubSeq(c, 1, q) /\ y = SubSeq(c, 1, q + n)
  OBVIOUS
<1>13. x \in Seq(U) /\ y \in Seq(U)
  <2>1. 1 \in 1 .. Len(c) + 1 /\ q \in 1 - 1 .. Len(c) /\ q + n \in 1 - 1 .. Len(c)
    BY <1>2, <1>4, <1>5
  <2>2. QED
    BY <1>4, <1>12, <2>1, SubSeqProperties
<1>14. y = x \o d
  <2>1. 1 \in 1 .. Len(c) + 1 /\ q \in 1 - 1 .. Len(c) /\ q + n \in q .. Len(c)
    BY <1>2, <1>4, <1>5
  <2>2. SubSeq(c, 1, q) \o SubSeq(c, q + 1, q + n) = SubSeq(c, 1, q + n)
    BY <1>4, <2>1, ConcatAdjacentSubSeq
  <2>3. QED
    BY <1>8, <1>11, <1>12, <2>2
<1>15. PICK r : r = Received(k - 1)
  OBVIOUS
<1>16. r \in Seq(Seq(U))
  <2>1. items \in Seq(Seq(U))
    <3>1. items \in Seq(Range(items)) /\ DOMAIN items = 1 .. Len(items)
      BY FormIs
    <3>2. \A j \in 1 .. Len(items) : items[j] \in Seq(U)
      BY <1>1, FormIs
    <3>3. Len(items) \in Nat
      BY FormIs
    <3>4. QED
      BY <3>1, <3>2, <3>3
  <2>2. Len(items) \in Nat
    BY FormIs
  <2>3. 1 \in 1 .. Len(items) + 1 /\ k - 1 \in 1 - 1 .. Len(items)
    BY <2>2
  <2>4. QED
    BY <1>15, <2>1, <2>3, SubSeqProperties DEF Received
<1>17. form = Append(r, x)
  BY <1>1, <1>12, <1>15
<1>18. LastExtended(form', form, d)
  BY <1>6 DEF Receives, LastExtended
<1>19. LastExtended(form', Append(r, x), d)
  BY <1>17, <1>18
<1>20. form' = Append(r, x \o d)
  BY <1>7, <1>13, <1>16, <1>19, LastGrows
<1>21. QED
  BY <1>1, <1>12, <1>14, <1>15, <1>20

LEMMA ReceivedAll ==
  ASSUME items \in Forms, NEW k \in 1 .. Len(items)
  PROVE  Append(Received(k - 1), SubSeq(items[k], 1, Len(items[k]))) = Received(k)
<1>1. items \in Seq(Range(items)) /\ Len(items) \in Nat /\ items[k] \in Seq(FormUnits(items))
  BY FormIs
<1>2. SubSeq(items[k], 1, Len(items[k])) = items[k]
  BY <1>1, SubSeqFull
<1>3. k \in Nat /\ k - 1 \in Nat /\ k <= Len(items)
  BY <1>1
<1>4. PICK T, n, s : T = Range(items) /\ n = Len(items) /\ s = items
  OBVIOUS
<1>5. s \in Seq(T) /\ n \in Nat /\ Len(s) = n
  BY <1>1, <1>4
<1>6. PICK r, t : r = SubSeq(s, 1, k - 1) /\ t = SubSeq(s, 1, k)
  OBVIOUS
<1>7. r \in Seq(T) /\ Len(r) = k - 1 /\ \A i \in 1 .. k - 1 : r[i] = s[i]
  <2>1. 1 \in 1 .. Len(s) + 1 /\ k - 1 \in 1 - 1 .. Len(s)
    BY <1>3, <1>4
  <2>2. /\ r \in Seq(T) /\ Len(r) = k - 1 - 1 + 1
        /\ \A i \in 1 .. k - 1 - 1 + 1 : r[i] = s[1 + i - 1]
    BY <1>5, <1>6, <2>1, SubSeqProperties
  <2>3. k - 1 - 1 + 1 = k - 1 /\ \A i \in 1 .. k - 1 : 1 + i - 1 = i
    BY <1>3
  <2>4. QED
    BY <2>2, <2>3
<1>8. t \in Seq(T) /\ Len(t) = k /\ \A i \in 1 .. k : t[i] = s[i]
  <2>1. 1 \in 1 .. Len(s) + 1 /\ k \in 1 - 1 .. Len(s)
    BY <1>3, <1>4
  <2>2. /\ t \in Seq(T) /\ Len(t) = k - 1 + 1
        /\ \A i \in 1 .. k - 1 + 1 : t[i] = s[1 + i - 1]
    BY <1>5, <1>6, <2>1, SubSeqProperties
  <2>3. k - 1 + 1 = k /\ \A i \in 1 .. k : 1 + i - 1 = i
    BY <1>3
  <2>4. QED
    BY <2>2, <2>3
<1>9. s[k] \in T
  BY <1>3, <1>4, <1>5, ElementOfSeq
<1>10. PICK u : u = Append(r, s[k])
  OBVIOUS
<1>11. u \in Seq(T) /\ Len(u) = k /\ u[k] = s[k] /\ \A i \in 1 .. k - 1 : u[i] = r[i]
  <2>1. k - 1 + 1 = k
    BY <1>3
  <2>2. QED
    BY <1>7, <1>9, <1>10, <2>1, AppendProperties
<1>12. ASSUME NEW i \in 1 .. k PROVE u[i] = t[i]
  <2>1. i \in 1 .. k - 1 \/ i = k
    BY <1>3
  <2>2. QED
    BY <1>7, <1>8, <1>11, <2>1
<1>13. u = t
  BY <1>8, <1>11, <1>12, SeqEqual
<1>14. QED
  BY <1>2, <1>4, <1>6, <1>10, <1>13 DEF Received

LEMMA BodySteps == FormInv /\ Body => FormInv'
<1>1. SUFFICES ASSUME FormInv, Body PROVE FormInv'
  OBVIOUS
<1>2. PICK p : FormLaid(Whole, items, p) /\ FormPlace(p)
  BY <1>1 DEF FormInv
<1>3. items \in Forms /\ Fed /\ state = "body" /\ UNCHANGED <<items, lines, coming>>
  BY <1>1 DEF FormInv, Body, In
<1>4. is_valid = FALSE /\ InBody(p)
  BY <1>2, <1>3 DEF FormPlace, InInitial, InHead, InBoundary, InEpilogue
<1>5. PICK k \in 1 .. Len(items), q \in Nat :
        /\ q <= Len(items[k]) /\ FormPos = p[k - 1] + 10 + q
        /\ form = Append(Received(k - 1), SubSeq(items[k], 1, q))
  BY <1>4 DEF InBody
<1>6. PICK a, e, m, h, l, b, w, d, c : /\ a = p[k - 1] /\ e = p[k] /\ m = Len(items[k])
                                       /\ h = Len(held) /\ l = Len(Whole) /\ b = FormPos
                                       /\ w = Whole /\ d = m - q /\ c = items[k]
  OBVIOUS
<1>7. /\ a \in Nat /\ m \in Nat /\ l \in Nat /\ e = a + m + 12 /\ e + 7 <= l
      /\ ItemHolds(w, a, items[k])
  BY <1>2, <1>3, <1>6, ItemPlaces
<1>8. h \in Nat /\ b \in Nat
  BY <1>3, <1>6, FedLengths
<1>9. b = a + 10 + q /\ q <= m /\ d \in Nat /\ q + d = m
  BY <1>5, <1>6, <1>7
<1>10. NextWord(crlf_dash_boundary, 5, d)
  <2>1. WordAt(w, a + 10, c)
    BY <1>6, <1>7 DEF ItemHolds
  <2>2. WordAt(w, a + 10 + m, crlf_dash_boundary)
    <3>1. ItemAt(w, items, p, k)
      BY <1>2, <1>6 DEF FormLaid
    <3>2. QED
      BY <1>6, <3>1 DEF ItemAt
  <2>3. /\ c \in Seq(FormUnits(items)) /\ Len(c) = m
        /\ \A i \in 0 .. Len(c) : ~StartsAt(c, i, crlf_dash_boundary)
    BY <1>3, <1>6, FormIs
  <2>4. a + 10 \in Nat
    BY <1>7
  <2>5. \A j \in 0 .. Len(c) - 1 : ~WordAt(w, a + 10 + j, crlf_dash_boundary)
    BY <2>1, <2>2, <2>3, <2>4, ContentClean
  <2>6. ASSUME NEW j \in 0 .. d - 1 PROVE ~WordAt(w, b + j, crlf_dash_boundary)
    <3>1. q + j \in 0 .. m - 1 /\ a + 10 + (q + j) = b + j
      BY <1>7, <1>9
    <3>2. QED
      BY <2>3, <2>5, <3>1
  <2>7. WordAt(w, b + d, crlf_dash_boundary)
    <3>1. b + d = a + 10 + m
      BY <1>7, <1>9
    <3>2. QED
      BY <2>2, <3>1
  <2>8. QED
    BY <1>6, <1>9, <2>6, <2>7, DelimiterIs DEF NextWord
<1>11. CASE d + 5 <= h
  <2>1. Find(held, crlf_dash_boundary) = d
    BY <1>3, <1>6, <1>10, <1>11, FoundHere
  <2>a. Len(held) = h /\ Len(crlf_dash_boundary) = 5
    BY <1>6, DelimiterIs
  <2>b. ~(h < 5) /\ d # h /\ d + 5 \in 0 .. h /\ d \in 0 .. h
    BY <1>8, <1>9, <1>11
  <2>2. ~(Len(held) < Len(crlf_dash_boundary)) /\ d # Len(held)
    BY <2>a, <2>b
  <2>3. /\ Receives(SubSeq(held, 1, d)) /\ Consumes(d + Len(crlf_dash_boundary), "boundary")
        /\ UNCHANGED is_valid
    BY <1>1, <2>1, <2>2 DEF Body
  <2>4. d + Len(crlf_dash_boundary) = d + 5 /\ d + 5 \in 0 .. Len(held) /\ d \in 0 .. Len(held)
    BY <2>a, <2>b
  <2>5. Consumes(d + 5, "boundary")
    BY <2>3, <2>4
  <2>6. Fed' /\ FormPos' = FormPos + (d + 5)
    BY <1>3, <2>4, <2>5, Consumed DEF Consumes
  <2>7. FormPos' = p[k] + 3
    <3>1. b + (d + 5) = e + 3
      BY <1>7, <1>9
    <3>2. QED
      BY <1>6, <2>6, <3>1
  <2>8. form' = Received(k)
    <3>1. q + d <= Len(items[k])
      BY <1>6, <1>7, <1>9
    <3>2. form' = Append(Received(k - 1), SubSeq(items[k], 1, q + d))
      BY <1>2, <1>3, <1>5, <2>3, <2>4, <3>1, ReceivesMore
    <3>3. QED
      BY <1>3, <1>6, <1>9, <3>2, ReceivedAll
  <2>9. InBoundary(p)'
    <3>1. form' = Received(k)' /\ k \in 1 .. Len(items') /\ state' = "boundary"
      BY <1>3, <2>5, <2>8 DEF Received, Consumes
    <3>2. QED
      BY <2>7, <3>1 DEF InBoundary
  <2>10. FormPlace(p)'
    BY <1>4, <2>3, <2>9 DEF FormPlace
  <2>11. ~parsing' => held' = <<>>
    BY <2>5 DEF Consumes
  <2>12. QED
    BY <1>2, <1>3, <2>6, <2>10, <2>11, FormGoesOn
<1>12. CASE ~(d + 5 <= h)
  <2>1. Find(held, crlf_dash_boundary) = Len(held)
    BY <1>3, <1>6, <1>10, <1>12, NotFoundYet
  <2>2. b + h < l
    BY <1>7, <1>8, <1>9, <1>12
  <2>3. CASE h < 5
    <3>1. Waits
      <4>1. ~(Len(held) < Len(held)) /\ ~(Len(held) >= Len(crlf_dash_boundary))
        BY <1>6, <1>8, <2>3, DelimiterIs
      <4>2. QED
        BY <1>1, <2>1, <4>1 DEF Body
    <3>2. QED
      BY <1>2, <1>3, <1>6, <2>2, <3>1, FormWaits
  <2>4. CASE ~(h < 5)
    <3>1. PICK n : n = h - 5
      OBVIOUS
    <3>2. n \in Nat /\ n \in 0 .. Len(held) /\ Flushed = n /\ q + n <= m
      <4>1. n \in Nat /\ n \in 0 .. h /\ q + n <= m
        BY <1>7, <1>8, <1>9, <1>12, <2>4, <3>1
      <4>2. Flushed = h - 5
        BY <1>6, DelimiterIs DEF Flushed
      <4>3. QED
        BY <1>6, <3>1, <4>1, <4>2
    <3>3. /\ Receives(SubSeq(held, 1, n)) /\ held' = Drop(held, n) /\ parsing' = FALSE
          /\ UNCHANGED <<state, is_valid>>
      <4>1. ~(Len(held) < Len(held)) /\ ~(Len(held) < Len(crlf_dash_boundary))
        BY <1>6, <1>8, <2>4, DelimiterIs
      <4>2. QED
        BY <1>1, <2>1, <3>2, <4>1 DEF Body
    <3>4. Fed' /\ FormPos' = FormPos + n
      BY <1>3, <3>2, <3>3, Consumed
    <3>5. FormPos' = p[k - 1] + 10 + (q + n) /\ q + n \in Nat
      <4>1. b + n = a + 10 + (q + n)
        BY <1>7, <1>9, <3>2
      <4>2. QED
        BY <1>6, <3>2, <3>4, <4>1
    <3>6. form' = Append(Received(k - 1), SubSeq(items[k], 1, q + n))
      <4>1. q + n <= Len(items[k])
        BY <1>6, <3>2
      <4>2. QED
        BY <1>2, <1>3, <1>5, <3>2, <3>3, <4>1, ReceivesMore
    <3>7. InBody(p)'
      <4>1. form' = Append(Received(k - 1)', SubSeq(items[k]', 1, q + n)) /\ k \in 1 .. Len(items')
        BY <1>3, <3>6 DEF Received
      <4>2. state' = "body" /\ q + n <= Len(items[k]')
        BY <1>3, <1>6, <3>2, <3>3
      <4>3. QED
        BY <3>5, <4>1, <4>2 DEF InBody
    <3>8. FormPlace(p)'
      BY <1>4, <3>3, <3>7 DEF FormPlace
    <3>9. coming' # <<>>
      BY <1>3, <1>6, <2>2, StillToCome
    <3>10. QED
      BY <1>2, <1>3, <3>4, <3>8, <3>9, FormGoesOn
  <2>5. QED
    BY <2>3, <2>4
<1>13. QED
  BY <1>11, <1>12

LEMMA NextItem ==
  ASSUME items \in Forms, Fed, NEW p, FormLaid(Whole, items, p), FormInv, is_valid = FALSE,
         InBoundary(p), Boundary
  PROVE  FormInv'
<1>1. PICK k \in 1 .. Len(items) : form = Received(k) /\ FormPos = p[k] + 3
  BY DEF InBoundary
<1>2. FormPlace(p) /\ UNCHANGED <<items, lines, coming>>
  BY DEF FormPlace, Boundary
<1>3. PICK e, h, l, b, w, n : /\ e = p[k] /\ h = Len(held) /\ l = Len(Whole) /\ b = FormPos
                              /\ w = Whole /\ n = Len(items)
  OBVIOUS
<1>4. e \in Nat /\ l \in Nat /\ e + 7 <= l /\ h \in Nat /\ b \in Nat /\ b = e + 3 /\ b + 0 = e + 3
  BY <1>1, <1>3, ItemPlaces, FedLengths
<1>5. n \in Nat \ {0} /\ k \in 1 .. n
  BY <1>3, FormIs
<1>6. StartsAt(held, 0, crlf) <=> 0 + 2 <= h /\ WordAt(w, b + 0, crlf)
  BY <1>3, CrlfIs, HeldStarts
<1>7. StartsAt(held, 0, dash) <=> 0 + 2 <= h /\ WordAt(w, b + 0, dash)
  BY <1>3, DashIs, HeldStarts
<1>8. ~(WordAt(w, b + 0, crlf) /\ WordAt(w, b + 0, dash))
  <2>1. SUFFICES ASSUME WordAt(w, b + 0, crlf), WordAt(w, b + 0, dash) PROVE FALSE
    OBVIOUS
  <2>2. w[b + 0 + 1] = CR
    BY <2>1, CrlfIs DEF WordAt
  <2>3. w[b + 0 + 1] = "-"
    BY <2>1, DashIs DEF WordAt
  <2>4. QED
    BY <2>2, <2>3 DEF CR
<1>9. CASE ~(0 + 2 <= h)
  <2>1. Waits
    <3>1. ~StartsAt(held, 0, crlf) /\ ~StartsAt(held, 0, dash)
      BY <1>6, <1>7, <1>9
    <3>2. QED
      BY <3>1 DEF Boundary
  <2>2. b + h < l
    BY <1>4, <1>9
  <2>3. QED
    BY <1>2, <1>3, <2>1, <2>2, FormWaits
<1>10. CASE 0 + 2 <= h /\ k < n
  <2>1. WordAt(w, b + 0, crlf)
    <3>1. ItemAt(w, items, p, k)
      BY <1>3 DEF FormLaid
    <3>2. WordAt(w, p[k] + 3, crlf)
      BY <1>3, <1>10, <3>1 DEF ItemAt
    <3>3. QED
      BY <1>3, <1>4, <3>2
  <2>2. StartsAt(held, 0, crlf) /\ ~StartsAt(held, 0, dash)
    BY <1>6, <1>7, <1>8, <1>10, <2>1
  <2>3. ~(Len(held) < Len(crlf))
    BY <1>3, <1>4, <1>10, CrlfIs
  <2>4. Consumes(Len(crlf), "entry") /\ UNCHANGED <<is_valid, form>>
    BY <2>2, <2>3 DEF Boundary
  <2>5. Len(crlf) = 2 /\ 2 \in 0 .. Len(held)
    BY <1>3, <1>4, <1>10, CrlfIs
  <2>6. Consumes(2, "entry")
    BY <2>4, <2>5
  <2>7. Fed' /\ FormPos' = FormPos + 2
    BY <1>2, <2>5, <2>6, Consumed DEF Consumes
  <2>8. PICK j : j = k + 1
    OBVIOUS
  <2>9. j \in 1 .. n /\ j - 1 = k
    BY <1>5, <1>10, <2>8
  <2>10. InHead(p)'
    <3>1. FormPos' = p[j - 1] + 5
      <4>1. b + 2 = e + 5
        BY <1>4
      <4>2. QED
        BY <1>3, <2>7, <2>9, <4>1
    <3>2. form' = Received(j - 1)' /\ j \in 1 .. Len(items') /\ state' = "entry"
      BY <1>1, <1>2, <1>3, <2>4, <2>6, <2>9 DEF Received, Consumes
    <3>3. QED
      BY <3>1, <3>2 DEF InHead
  <2>11. FormPlace(p)'
    BY <2>4, <2>10 DEF FormPlace
  <2>12. ~parsing' => held' = <<>>
    BY <2>6 DEF Consumes
  <2>13. QED
    BY <1>2, <2>7, <2>11, <2>12, FormGoesOn
<1>11. CASE 0 + 2 <= h /\ ~(k < n)
  <2>1. k = n
    BY <1>5, <1>11
  <2>2. WordAt(w, b + 0, dash)
    <3>1. WordAt(w, p[n] + 3, dash)
      BY <1>3 DEF FormLaid
    <3>2. QED
      BY <1>3, <1>4, <2>1, <3>1
  <2>3. ~StartsAt(held, 0, crlf) /\ StartsAt(held, 0, dash)
    BY <1>6, <1>7, <1>8, <1>11, <2>2
  <2>4. ~(Len(held) < Len(crlf))
    BY <1>3, <1>4, <1>11, CrlfIs
  <2>5. is_valid' = TRUE /\ Consumes(Len(held), "boundary") /\ UNCHANGED form
    BY <2>3, <2>4 DEF Boundary
  <2>6. Len(held) \in 0 .. Len(held)
    BY <1>3, <1>4
  <2>7. Fed' /\ FormPos' = FormPos + Len(held)
    BY <1>2, <2>5, <2>6, Consumed DEF Consumes
  <2>8. InEpilogue(p)'
    <3>1. FormPos' >= p[Len(items)] + 5
      <4>1. b + h >= e + 5
        BY <1>4, <1>11
      <4>2. QED
        BY <1>3, <2>1, <2>7, <4>1
    <3>2. form' = items'
      BY <1>1, <1>2, <1>3, <2>1, <2>5, NoneReceived
    <3>3. state' = "boundary"
      BY <2>5 DEF Consumes
    <3>4. QED
      BY <1>2, <3>1, <3>2, <3>3 DEF InEpilogue
  <2>9. FormPlace(p)'
    BY <2>5, <2>8 DEF FormPlace
  <2>10. ~parsing' => held' = <<>>
    BY <2>5 DEF Consumes
  <2>11. QED
    BY <1>2, <2>7, <2>9, <2>10, FormGoesOn
<1>12. QED
  BY <1>9, <1>10, <1>11

LEMMA Epilogue ==
  ASSUME items \in Forms, Fed, NEW p, FormLaid(Whole, items, p), is_valid = TRUE,
         InEpilogue(p), Boundary
  PROVE  FormInv'
<1>1. FormPlace(p) /\ UNCHANGED <<items, lines, coming>> /\ state = "boundary" /\ form = items
  BY DEF FormPlace, Boundary, In, InEpilogue
<1>2. PICK e, h, l, b, c : /\ e = p[Len(items)] /\ h = Len(held) /\ l = Len(Whole) /\ b = FormPos
                           /\ c = Len(coming)
  OBVIOUS
<1>3. /\ e \in Nat /\ l = e + 7 /\ h \in Nat /\ b \in Nat /\ c \in Nat /\ b >= e + 5
      /\ b + h + c = l
  BY <1>2, FedLengths DEF FormLaid, InEpilogue
<1>4. CASE Waits
  BY <1>1, <1>4, FormWaits
<1>5. CASE StartsAt(held, 0, crlf) /\ Consumes(Len(crlf), "entry") /\ UNCHANGED <<is_valid, form>>
  <2>1. 2 <= h
    <3>1. crlf \in Seq(Marks) /\ Len(crlf) = 2 /\ 0 \in Nat
      BY CrlfIs
    <3>2. 0 + Len(crlf) <= Len(held)
      BY <1>5, <3>1, HeldStarts
    <3>3. QED
      BY <1>2, <3>1, <3>2
  <2>2. Len(crlf) = 2 /\ 2 \in 0 .. Len(held)
    BY <1>2, <1>3, <2>1, CrlfIs
  <2>3. Consumes(2, "entry")
    BY <1>5, <2>2
  <2>4. Fed' /\ FormPos' = FormPos + 2
    BY <1>1, <2>2, <2>3, Consumed DEF Consumes
  <2>5. InEpilogue(p)'
    <3>1. b + 2 = l /\ l >= e + 5
      BY <1>3, <2>1
    <3>a. FormPos' = l /\ Whole' = Whole /\ items' = items
      BY <1>1, <1>2, <2>4, <3>1 DEF Whole
    <3>2. FormPos' = Len(Whole') /\ FormPos' >= p[Len(items')] + 5
      BY <1>2, <3>1, <3>a
    <3>3. form' = items' /\ state' = "entry"
      BY <1>1, <1>5, <2>3 DEF Consumes
    <3>4. QED
      BY <3>2, <3>3 DEF InEpilogue
  <2>6. FormPlace(p)'
    BY <1>5, <2>5 DEF FormPlace
  <2>7. ~parsing' => held' = <<>>
    BY <2>3 DEF Consumes
  <2>8. QED
    BY <1>1, <2>4, <2>6, <2>7, FormGoesOn
<1>6. CASE is_valid' = TRUE /\ Consumes(Len(held), "boundary") /\ UNCHANGED form
  <2>1. Len(held) \in 0 .. Len(held)
    BY <1>2, <1>3
  <2>2. Fed' /\ FormPos' = FormPos + Len(held)
    BY <1>1, <1>6, <2>1, Consumed DEF Consumes
  <2>3. InEpilogue(p)'
    <3>1. FormPos' >= p[Len(items)] + 5
      <4>1. b + h >= e + 5
        BY <1>3
      <4>2. QED
        BY <1>2, <2>2, <4>1
    <3>2. form' = items' /\ state' = "boundary"
      BY <1>1, <1>6 DEF Consumes
    <3>3. QED
      BY <1>1, <3>1, <3>2 DEF InEpilogue
  <2>4. FormPlace(p)'
    BY <1>6, <2>3 DEF FormPlace
  <2>5. ~parsing' => held' = <<>>
    BY <1>6 DEF Consumes
  <2>6. QED
    BY <1>1, <2>2, <2>4, <2>5, FormGoesOn
<1>7. QED
  BY <1>4, <1>5, <1>6 DEF Boundary

LEMMA BoundarySteps == FormInv /\ Boundary => FormInv'
<1>1. SUFFICES ASSUME FormInv, Boundary PROVE FormInv'
  OBVIOUS
<1>2. PICK p : FormLaid(Whole, items, p) /\ FormPlace(p)
  BY <1>1 DEF FormInv
<1>3. items \in Forms /\ Fed /\ state = "boundary"
  BY <1>1 DEF FormInv, Boundary, In
<1>4. (is_valid = TRUE /\ InEpilogue(p)) \/ (is_valid = FALSE /\ InBoundary(p))
  BY <1>2, <1>3 DEF FormPlace, InInitial, InHead, InBody
<1>5. QED
  BY <1>1, <1>2, <1>3, <1>4, Epilogue, NextItem

LEMMA FormSteps == FormInv /\ Measured /\ [FormNext]_formVars => FormInv'
<1>1. SUFFICES ASSUME FormInv, Measured, [FormNext]_formVars PROVE FormInv'
  OBVIOUS
<1>2. CASE UNCHANGED formVars
  <2>1. UNCHANGED <<items, lines, coming, held, parsing, state, is_valid, refused, form>>
    BY <1>2 DEF formVars
  <2>2. PICK p : FormLaid(Whole, items, p) /\ FormPlace(p)
    BY <1>1 DEF FormInv
  <2>3. FormPos' = FormPos
    BY <2>1 DEF FormPos, Whole
  <2>4. Fed'
    BY <1>1, <2>1, <2>3 DEF FormInv, Fed, Whole
  <2>5. FormPlace(p)'
    BY <2>1, <2>2, <2>3, FormPlaceStays
  <2>6. ~parsing' /\ ~is_valid' => held' = <<>> \/ coming' # <<>> \/ refused'
    BY <1>1, <2>1 DEF FormInv
  <2>7. items \in Forms
    BY <1>1 DEF FormInv
  <2>8. QED
    BY <2>1, <2>2, <2>4, <2>5, <2>6, <2>7, FormGoesOn
<1>3. CASE \E n \in 1 .. Len(coming) : Feed(n)
  BY <1>1, <1>3, FormFeeds
<1>4. QED
  BY <1>1, <1>2, <1>3, InitialSteps, EntrySteps, HeaderSteps, BodySteps, BoundarySteps
     DEF FormNext

(* A form is refused for its number of items or for a header line only,    *)
(* and no entry is begun beyond the limits.                                *)
LEMMA LimitsStay ==
  ASSUME FormLimits, UNCHANGED <<items, lines, refused>>, DOMAIN form' = DOMAIN form
  PROVE  FormLimits'
BY DEF FormLimits, Measured, FormFits

LEMMA LimitsRefuse ==
  ASSUME FormLimits, Refuses, UNCHANGED <<items, lines>>, ~FormFits(FormHeaderMax - 1)
  PROVE  FormLimits'
BY DEF FormLimits, Measured, FormFits, Refuses

LEMMA HeaderLimits == FormInv /\ FormLimits /\ Headers => FormLimits'
<1>1. SUFFICES ASSUME FormInv, FormLimits, Headers PROVE FormLimits'
  OBVIOUS
<1>2. PICK p : FormLaid(Whole, items, p) /\ FormPlace(p)
  BY <1>1 DEF FormInv
<1>3. /\ items \in Forms /\ Fed /\ state = "headers" /\ held # <<>>
      /\ UNCHANGED <<items, lines, coming>> /\ Measured
  BY <1>1 DEF FormInv, Headers, In, FormLimits
<1>4. is_valid = FALSE /\ InHead(p)
  BY <1>2, <1>3 DEF FormPlace, InInitial, InBody, InBoundary, InEpilogue
<1>5. PICK k \in 1 .. Len(items) :
        /\ form = Received(k - 1)
        /\ FormPos = p[k - 1] + 5 \/ (FormPos = p[k - 1] + 8 /\ lines[k] <= FormHeaderMax)
  BY <1>3, <1>4 DEF InHead
<1>6. PICK n, h, pos : n = Len(items) /\ h = Len(held) /\ pos = Find(held, crlf)
  OBVIOUS
<1>7. /\ n \in Nat /\ k \in 1 .. n /\ k - 1 \in 0 .. n /\ k - 1 + 1 = k /\ h \in Nat
      /\ lines[k] \in Nat /\ FormHeaderMax \in Nat \ {0} /\ FormItemsMax \in Nat
  BY <1>3, <1>6, FormIs, FedLengths, LineIs
<1>8. /\ form \in Seq(Seq(FormUnits(items))) /\ Len(form) = k - 1 /\ Len(form) + 1 = k
  BY <1>3, <1>5, <1>6, <1>7, ReceivedIs
<1>9. CASE FormPos = p[k - 1] + 5
  <2>1. NextWord(crlf, 2, 1) /\ Head(held) = "H"
    BY <1>2, <1>3, <1>9, LineAhead
  <2>2. pos > 0 /\ pos <= 2 /\ pos \in Nat
    <3>1. CASE 1 + 2 <= h
      <4>1. pos = 1
        BY <1>3, <1>6, <2>1, <3>1, FoundHere
      <4>2. QED
        BY <4>1
    <3>2. CASE ~(1 + 2 <= h)
      <4>1. pos = h
        BY <1>3, <1>6, <2>1, <3>2, NotFoundYet
      <4>2. h # 0
        BY <1>3, <1>6, EmptySeq DEF Fed
      <4>3. QED
        BY <1>7, <3>2, <4>1, <4>2
    <3>3. QED
      BY <3>1, <3>2
  <2>3. SizeBefore(pos) = lines[k] + (pos - 1) /\ pos # 0
    BY <1>8, <2>1, <2>2 DEF SizeBefore
  <2>4. CASE SizeBefore(pos) > FormHeaderMax
    <3>1. ~(lines[k] <= FormHeaderMax - 1)
      BY <1>7, <2>2, <2>3, <2>4
    <3>2. ~FormFits(FormHeaderMax - 1)
      BY <1>6, <1>7, <3>1 DEF FormFits
    <3>3. Refuses
      BY <1>1, <1>6, <2>4 DEF Headers
    <3>4. QED
      BY <1>1, <1>3, <3>2, <3>3, LimitsRefuse
  <2>5. CASE ~(SizeBefore(pos) > FormHeaderMax)
    <3>1. UNCHANGED <<refused, form>>
      BY <1>1, <1>6, <2>3, <2>5 DEF Headers, Waits, Consumes
    <3>2. QED
      BY <1>1, <1>3, <3>1, LimitsStay
  <2>6. QED
    BY <2>4, <2>5
<1>10. CASE FormPos = p[k - 1] + 8 /\ lines[k] <= FormHeaderMax
  <2>1. NextWord(crlf, 2, 0) /\ Head(held) = CR /\ CR # "H"
    BY <1>2, <1>3, <1>10, EmptyLineAhead DEF CR
  <2>2. pos \in 0 .. 1 /\ (pos = 0 \/ pos = h)
    <3>1. CASE 0 + 2 <= h
      <4>1. pos = 0
        BY <1>3, <1>6, <2>1, <3>1, FoundHere
      <4>2. QED
        BY <4>1
    <3>2. CASE ~(0 + 2 <= h)
      <4>1. pos = h
        BY <1>3, <1>6, <2>1, <3>2, NotFoundYet
      <4>2. QED
        BY <1>7, <3>2, <4>1
    <3>3. QED
      BY <3>1, <3>2
  <2>3. ~(SizeBefore(pos) > FormHeaderMax) /\ ~(0 < pos /\ pos < h)
    <3>1. SizeBefore(pos) = pos
      BY <2>1 DEF SizeBefore
    <3>2. QED
      BY <1>7, <2>2, <3>1
  <2>4. CASE UNCHANGED <<refused, form>>
    BY <1>1, <1>3, <2>4, LimitsStay
  <2>5. CASE ~UNCHANGED <<refused, form>>
    <3>1. \/ Len(form) = FormItemsMax /\ Refuses
          \/ Len(form) # FormItemsMax /\ form' = Append(form, <<>>) /\ UNCHANGED refused
      BY <1>1, <1>6, <2>3, <2>5 DEF Headers, Waits, Consumes
    <3>2. CASE Len(form) = FormItemsMax /\ Refuses
      <4>1. ~(n <= FormItemsMax)
        BY <1>7, <1>8, <3>2
      <4>2. QED
        BY <1>1, <1>3, <1>6, <3>2, <4>1, LimitsRefuse DEF FormFits
    <3>3. CASE Len(form) # FormItemsMax /\ form' = Append(form, <<>>) /\ UNCHANGED refused
      <4>1. DOMAIN form = 1 .. k - 1 /\ DOMAIN form' = 1 .. k
        <5>1. <<>> \in Seq(FormUnits(items))
          OBVIOUS
        <5>2. Len(form') = k /\ form' \in Seq(Seq(FormUnits(items)))
          BY <1>8, <3>3, <5>1, AppendProperties
        <5>3. QED
          BY <1>8, <5>2
      <4>2. k <= FormItemsMax
        <5>1. CASE k = 1
          <6>1. FormItemsMax # 0
            BY <1>7, <1>8, <3>3, <5>1
          <6>2. QED
            BY <1>7, <5>1, <6>1
        <5>2. CASE k # 1
          <6>1. k - 1 \in DOMAIN form
            BY <1>7, <4>1, <5>2
          <6>2. k - 1 <= FormItemsMax /\ k - 1 # FormItemsMax
            BY <1>1, <1>8, <3>3, <6>1 DEF FormLimits
          <6>3. QED
            BY <1>7, <6>2
        <5>3. QED
          BY <5>1, <5>2
      <4>3. ASSUME NEW i \in 1 .. k PROVE i <= FormItemsMax /\ lines[i] <= FormHeaderMax
        <5>1. CASE i = k
          BY <1>10, <4>2, <5>1
        <5>2. CASE i # k
          <6>1. i \in DOMAIN form
            BY <1>7, <4>1, <5>2
          <6>2. QED
            BY <1>1, <6>1 DEF FormLimits
        <5>3. QED
          BY <5>1, <5>2
      <4>4. UNCHANGED <<items, lines, refused>>
        BY <1>3, <3>3
      <4>5. QED
        BY <1>1, <4>1, <4>3, <4>4 DEF FormLimits, Measured, FormFits
    <3>4. QED
      BY <3>1, <3>2, <3>3
  <2>6. QED
    BY <2>4, <2>5
<1>11. QED
  BY <1>5, <1>9, <1>10

LEMMA LimitSteps == FormInv /\ FormLimits /\ [FormNext]_formVars => FormLimits'
<1>1. SUFFICES ASSUME FormInv, FormLimits, [FormNext]_formVars PROVE FormLimits'
  OBVIOUS
<1>2. CASE UNCHANGED formVars
  BY <1>1, <1>2, LimitsStay DEF formVars
<1>3. CASE \E n \in 1 .. Len(coming) : Feed(n)
  BY <1>1, <1>3, LimitsStay DEF Feed
<1>4. CASE InitialBoundary \/ NewEntry \/ Boundary
  <2>1. UNCHANGED <<items, lines, refused, form>>
    BY <1>4 DEF InitialBoundary, NewEntry, Boundary, Waits, Consumes
  <2>2. QED
    BY <1>1, <2>1, LimitsStay
<1>5. CASE Body
  <2>1. UNCHANGED <<items, lines, refused>>
    BY <1>5 DEF Body, Waits, Consumes
  <2>2. form' = form \/ \E data : Receives(data)
    BY <1>5 DEF Body, Waits
  <2>3. DOMAIN form' = DOMAIN form
    BY <2>2 DEF Receives
  <2>4. QED
    BY <1>1, <2>1, <2>3, LimitsStay
<1>6. CASE Headers
  BY <1>1, <1>6, HeaderLimits
<1>7. QED
  BY <1>1, <1>2, <1>3, <1>4, <1>5, <1>6 DEF FormNext

LEMMA StartIsPrefix ==
  ASSUME NEW U, NEW c \in Seq(U), NEW q \in Nat, q <= Len(c)
  PROVE  IsPrefix(SubSeq(c, 1, q), c)
<1>1. PICK x, n : x = SubSeq(c, 1, q) /\ n = Len(c)
  OBVIOUS
<1>2. n \in Nat /\ q <= n
  BY <1>1, LenProperties
<1>3. 1 \in 1 .. Len(c) + 1 /\ q \in 1 - 1 .. Len(c)
  BY <1>1, <1>2
<1>4. x \in Seq(U) /\ Len(x) = q - 1 + 1
  BY <1>1, <1>3, SubSeqProperties
<1>5. Len(x) = q
  BY <1>4
<1>6. SubSeq(x, 1, Len(x)) = x
  BY <1>4, SubSeqFull
<1>7. QED
  BY <1>1, <1>2, <1>5, <1>6 DEF IsPrefix

PartOfItems(f) ==
  Len(f) <= Len(items) /\ \A i \in DOMAIN f : IsPrefix(f[i], items[i])

LEMMA ReceivedPart ==
  ASSUME items \in Forms, NEW k \in 0 .. Len(items)
  PROVE  PartOfItems(Received(k))
<1>1. PICK n, r : n = Len(items) /\ r = Received(k)
  OBVIOUS
<1>2. n \in Nat /\ k \in 0 .. n
  BY <1>1, FormIs
<1>3. r \in Seq(Seq(FormUnits(items))) /\ Len(r) = k /\ \A i \in 1 .. k : r[i] = items[i]
  BY <1>1, ReceivedIs
<1>4. DOMAIN r = 1 .. k
  BY <1>3
<1>5. ASSUME NEW i \in 1 .. k PROVE IsPrefix(r[i], items[i])
  <2>1. i \in 1 .. Len(items)
    BY <1>1, <1>2
  <2>2. PICK c : c = items[i]
    OBVIOUS
  <2>3. c \in Seq(FormUnits(items)) /\ Len(c) \in Nat
    BY <2>1, <2>2, FormIs
  <2>4. SubSeq(c, 1, Len(c)) = c
    BY <2>3, SubSeqFull
  <2>5. IsPrefix(SubSeq(c, 1, Len(c)), c)
    <3>1. Len(c) <= Len(c)
      BY <2>3
    <3>2. QED
      BY <2>3, <3>1, StartIsPrefix
  <2>6. QED
    BY <1>3, <2>2, <2>4, <2>5
<1>6. Len(r) <= Len(items)
  BY <1>1, <1>2, <1>3
<1>7. QED
  BY <1>1, <1>4, <1>5, <1>6 DEF PartOfItems

LEMMA GrowingPart ==
  ASSUME items \in Forms, NEW k \in 1 .. Len(items), NEW q \in Nat, q <= Len(items[k])
  PROVE  PartOfItems(Append(Received(k - 1), SubSeq(items[k], 1, q)))
<1>1. PICK n, r, c, x, U, f : /\ n = Len(items) /\ r = Received(k - 1) /\ c = items[k]
                              /\ x = SubSeq(items[k], 1, q) /\ U = FormUnits(items)
                              /\ f = Append(r, x)
  OBVIOUS
<1>2. n \in Nat /\ k \in 1 .. n /\ k - 1 \in 0 .. n /\ k - 1 + 1 = k
  BY <1>1, FormIs
<1>3. r \in Seq(Seq(U)) /\ Len(r) = k - 1
  BY <1>1, <1>2, ReceivedIs
<1>4. PartOfItems(r)
  BY <1>1, <1>2, ReceivedPart
<1>5. c \in Seq(U) /\ q <= Len(c) /\ x = SubSeq(c, 1, q) /\ Len(c) \in Nat
  BY <1>1, FormIs
<1>6. x \in Seq(U)
  <2>1. 1 \in 1 .. Len(c) + 1 /\ q \in 1 - 1 .. Len(c)
    BY <1>5
  <2>2. QED
    BY <1>5, <2>1, SubSeqProperties
<1>7. IsPrefix(x, c)
  BY <1>5, StartIsPrefix
<1>8. /\ f \in Seq(Seq(U)) /\ Len(f) = k /\ f[k] = x /\ \A i \in 1 .. k - 1 : f[i] = r[i]
  BY <1>1, <1>2, <1>3, <1>6, AppendProperties
<1>9. DOMAIN f = 1 .. k /\ DOMAIN r = 1 .. k - 1
  BY <1>3, <1>8
<1>10. ASSUME NEW i \in 1 .. k PROVE IsPrefix(f[i], items[i])
  <2>1. CASE i = k
    BY <1>1, <1>7, <1>8, <2>1
  <2>2. CASE i # k
    <3>1. i \in 1 .. k - 1
      BY <1>2, <2>2
    <3>2. QED
      BY <1>4, <1>8, <1>9, <3>1 DEF PartOfItems
  <2>3. QED
    BY <2>1, <2>2
<1>11. Len(f) <= Len(items)
  BY <1>1, <1>2, <1>8
<1>12. QED
  BY <1>1, <1>9, <1>10, <1>11 DEF PartOfItems

LEMMA PlaceArrives ==
  ASSUME items \in Forms, Fed, NEW p, FormLaid(Whole, items, p), FormPlace(p)
  PROVE  PartOfItems(form)
<1>1. Len(items) \in Nat \ {0} /\ 0 \in 0 .. Len(items) /\ Len(items) \in 0 .. Len(items)
  BY FormIs
<1>2. CASE InInitial
  <2>1. form = Received(0)
    BY <1>2, NoneReceived DEF InInitial
  <2>2. QED
    BY <1>1, <2>1, ReceivedPart
<1>3. CASE InHead(p)
  <2>1. PICK k \in 1 .. Len(items) : form = Received(k - 1)
    BY <1>3 DEF InHead
  <2>2. k - 1 \in 0 .. Len(items)
    BY <1>1
  <2>3. QED
    BY <2>1, <2>2, ReceivedPart
<1>4. CASE InBody(p)
  BY <1>4, GrowingPart DEF InBody
<1>5. CASE InBoundary(p)
  <2>1. PICK k \in 1 .. Len(items) : form = Received(k)
    BY <1>5 DEF InBoundary
  <2>2. k \in 0 .. Len(items)
    BY <1>1
  <2>3. QED
    BY <2>1, <2>2, ReceivedPart
<1>6. CASE InEpilogue(p)
  <2>1. form = Received(Len(items))
    BY <1>6, NoneReceived DEF InEpilogue
  <2>2. QED
    BY <1>1, <2>1, ReceivedPart
<1>7. QED
  BY <1>2, <1>3, <1>4, <1>5, <1>6 DEF FormPlace

(* Before the epilogue there is always more of the body.                   *)
LEMMA NotAtTheEnd ==
  ASSUME items \in Forms, Fed, NEW p, FormLaid(Whole, items, p), FormPlace(p), is_valid = FALSE
  PROVE  FormPos < Len(Whole)
<1>1. \A k \in 1 .. Len(items) :
        /\ p[k - 1] \in Nat /\ p[k] \in Nat /\ Len(items[k]) \in Nat /\ Len(Whole) \in Nat
        /\ p[k] = p[k - 1] + Len(items[k]) + 12 /\ p[k] + 7 <= Len(Whole)
  BY ItemPlaces
<1>2. CASE InInitial
  <2>1. 1 \in 1 .. Len(items)
    BY FormIs
  <2>2. p[1] \in Nat /\ p[1] + 7 <= Len(Whole) /\ FormPos = 0 /\ Len(Whole) \in Nat
    BY <1>1, <1>2, <2>1 DEF InInitial
  <2>3. PICK e : e = p[1]
    OBVIOUS
  <2>4. QED
    BY <2>2, <2>3
<1>3. CASE InHead(p)
  <2>1. PICK k \in 1 .. Len(items) : FormPos = p[k - 1] + 5 \/ FormPos = p[k - 1] + 8
    BY <1>3 DEF InHead
  <2>2. PICK a, e, m : a = p[k - 1] /\ e = p[k] /\ m = Len(items[k])
    OBVIOUS
  <2>3. /\ a \in Nat /\ m \in Nat /\ Len(Whole) \in Nat /\ e = a + m + 12 /\ e + 7 <= Len(Whole)
        /\ FormPos = a + 5 \/ FormPos = a + 8
    BY <1>1, <2>1, <2>2
  <2>4. QED
    BY <2>3
<1>4. CASE InBody(p)
  <2>1. PICK k \in 1 .. Len(items), q \in Nat :
          q <= Len(items[k]) /\ FormPos = p[k - 1] + 10 + q
    BY <1>4 DEF InBody
  <2>2. PICK a, e, m : a = p[k - 1] /\ e = p[k] /\ m = Len(items[k])
    OBVIOUS
  <2>3. /\ a \in Nat /\ m \in Nat /\ Len(Whole) \in Nat /\ e = a + m + 12 /\ e + 7 <= Len(Whole)
        /\ FormPos = a + 10 + q /\ q <= m
    BY <1>1, <2>1, <2>2
  <2>4. QED
    BY <2>3
<1>5. CASE InBoundary(p)
  <2>1. PICK k \in 1 .. Len(items) : FormPos = p[k] + 3
    BY <1>5 DEF InBoundary
  <2>2. PICK e : e = p[k]
    OBVIOUS
  <2>3. e \in Nat /\ Len(Whole) \in Nat /\ e + 7 <= Len(Whole) /\ FormPos = e + 3
    BY <1>1, <2>1, <2>2
  <2>4. QED
    BY <2>3
<1>6. QED
  BY <1>2, <1>3, <1>4, <1>5 DEF FormPlace

LEMMA FormInvArrives == FormInv /\ FormLimits => FormArrives
<1>1. SUFFICES ASSUME FormInv, FormLimits PROVE FormArrives
  OBVIOUS
<1>2. PICK p : FormLaid(Whole, items, p) /\ FormPlace(p)
  BY <1>1 DEF FormInv
<1>3. items \in Forms /\ Fed
  BY <1>1 DEF FormInv
<1>4. PartOfItems(form)
  BY <1>2, <1>3, PlaceArrives
<1>5. ASSUME Finished, ~refused PROVE is_valid = TRUE
  <2>1. SUFFICES ASSUME is_valid = FALSE PROVE FALSE
    BY <1>2 DEF FormPlace
  <2>2. coming = <<>> /\ held = <<>>
    BY <1>1, <1>5, <2>1 DEF Finished, FormInv
  <2>3. FormPos + 0 + 0 = Len(Whole) /\ FormPos \in Nat /\ Len(Whole) \in Nat
    BY <1>3, <2>2, FedLengths
  <2>4. FormPos < Len(Whole)
    BY <1>2, <1>3, <2>1, NotAtTheEnd
  <2>5. QED
    BY <2>3, <2>4
<1>6. is_valid = TRUE => form = items
  BY <1>2 DEF FormPlace, InEpilogue
<1>7. form = items => FormFits(FormHeaderMax)
  <2>1. DOMAIN items = 1 .. Len(items) /\ Len(items) \in 1 .. Len(items)
    BY <1>3, FormIs
  <2>2. QED
    BY <1>1, <2>1 DEF FormLimits, FormFits
<1>8. refused => ~FormFits(FormHeaderMax - 1)
  BY <1>1 DEF FormLimits
<1>9. QED
  BY <1>4, <1>5, <1>6, <1>7, <1>8 DEF FormArrives, PartOfItems

(* However the body of a form is cut into pieces: what FormDataParser has  *)
(* handed on is never more than a part of each item; the body is refused   *)
(* only for its number of items or the length of a header line; and once   *)
(* it has been parsed to its end it is valid, within both limits, and the  *)
(* server's form is the one the client sent.                               *)
THEOREM FormArrivesWhole == FormSpec => []FormArrives
<1>1. FormInit => FormInv /\ FormLimits
  <2>1. FormInit => FormLimits
    BY DEF FormInit, FormLimits, Measured
  <2>2. QED
    BY <2>1, FormStarts
<1>2. FormInv /\ FormLimits /\ [FormNext]_formVars => (FormInv /\ FormLimits)'
  BY FormSteps, LimitSteps DEF FormLimits
<1>3. FormInv /\ FormLimits => FormArrives
  BY FormInvArrives
<1>4. QED
  BY <1>1, <1>2, <1>3, PTL DEF FormSpec

-----------------------------------------------------------------------------
(* Parts of an answer.  Which of the first n ranges of s cover a byte.     *)
Spans == Int \X Int

Covers(s, n, x) == {i \in 1 .. n : s[i][1] <= x /\ x <= s[i][2]}

LEMMA CoversFinite ==
  ASSUME NEW s, NEW n \in Nat, NEW x
  PROVE  IsFiniteSet(Covers(s, n, x)) /\ Cardinality(Covers(s, n, x)) \in Nat
<1>1. IsFiniteSet(1 .. n)
  BY FS_Interval
<1>2. Covers(s, n, x) \in SUBSET (1 .. n)
  BY DEF Covers
<1>3. QED
  BY <1>1, <1>2, FS_Subset, FS_CardinalityType

(* One more range covers a byte, or does not.                              *)
LEMMA CoversGrow ==
  ASSUME NEW s, NEW n \in Nat, NEW x
  PROVE  /\ s[n + 1][1] <= x /\ x <= s[n + 1][2] =>
              /\ Covers(s, n + 1, x) = Covers(s, n, x) \cup {n + 1}
              /\ Cardinality(Covers(s, n + 1, x)) = Cardinality(Covers(s, n, x)) + 1
         /\ ~(s[n + 1][1] <= x /\ x <= s[n + 1][2]) => Covers(s, n + 1, x) = Covers(s, n, x)
<1>1. \A i : i \in 1 .. n + 1 <=> i \in 1 .. n \/ i = n + 1
  OBVIOUS
<1>2. ASSUME s[n + 1][1] <= x /\ x <= s[n + 1][2]
      PROVE  /\ Covers(s, n + 1, x) = Covers(s, n, x) \cup {n + 1}
             /\ Cardinality(Covers(s, n + 1, x)) = Cardinality(Covers(s, n, x)) + 1
  <2>1. Covers(s, n + 1, x) = Covers(s, n, x) \cup {n + 1}
    BY <1>1, <1>2 DEF Covers
  <2>2. n + 1 \notin Covers(s, n, x)
    BY DEF Covers
  <2>3. Cardinality(Covers(s, n, x) \cup {n + 1}) = Cardinality(Covers(s, n, x)) + 1
    BY <2>2, CoversFinite, FS_AddElement
  <2>4. QED
    BY <2>1, <2>3
<1>3. ASSUME ~(s[n + 1][1] <= x /\ x <= s[n + 1][2])
      PROVE  Covers(s, n + 1, x) = Covers(s, n, x)
  BY <1>1, <1>3 DEF Covers
<1>4. QED
  BY <1>2, <1>3

Overlapping(rs) == {i \in DOMAIN rs : \E j \in 1 .. i - 1 : Overlap(rs[i], rs[j])}

(* If at most two ranges overlap an earlier one, no byte is in four.       *)
LEMMA CoversFew ==
  ASSUME NEW rs \in Seq(Spans), Cardinality(Overlapping(rs)) <= 2, NEW x \in Int
  PROVE  Cardinality(Covers(rs, Len(rs), x)) <= 3
<1>1. PICK n, o, v : n = Len(rs) /\ o = Covers(rs, Len(rs), x) /\ v = Overlapping(rs)
  OBVIOUS
<1>2. n \in Nat /\ DOMAIN rs = 1 .. n /\ \A i \in 1 .. n : rs[i] \in Spans
  BY <1>1, LenProperties, ElementOfSeq
<1>3. IsFiniteSet(o) /\ Cardinality(o) \in Nat
  BY <1>1, <1>2, CoversFinite
<1>4. IsFiniteSet(v) /\ Cardinality(v) \in Nat
  <2>1. IsFiniteSet(1 .. n) /\ v \in SUBSET (1 .. n)
    BY <1>1, <1>2, FS_Interval DEF Overlapping
  <2>2. QED
    BY <2>1, FS_Subset, FS_CardinalityType
<1>5. CASE o = {}
  BY <1>1, <1>5, FS_EmptySet
<1>6. CASE o # {}
  <2>1. o \subseteq Nat
    BY <1>1 DEF Covers
  <2>2. PICK m \in o : \A i \in o : m <= i
    BY <1>6, <2>1, LeastOf
  <2>3. ASSUME NEW i \in o \ {m} PROVE i \in v
    <3>1. /\ i \in 1 .. n /\ m \in 1 .. n /\ rs[i][1] <= x /\ x <= rs[i][2]
          /\ rs[m][1] <= x /\ x <= rs[m][2]
      BY <1>1, <2>2, <2>3 DEF Covers
    <3>2. m \in 1 .. i - 1
      BY <1>2, <2>2, <2>3, <3>1
    <3>3. Overlap(rs[i], rs[m])
      <4>1. PICK a, b, c, d : a = rs[i][1] /\ b = rs[i][2] /\ c = rs[m][1] /\ d = rs[m][2]
        OBVIOUS
      <4>2. a \in Int /\ b \in Int /\ c \in Int /\ d \in Int
        BY <1>2, <3>1, <4>1 DEF Spans
      <4>3. ~(b < c \/ a > d)
        BY <3>1, <4>1, <4>2
      <4>4. QED
        BY <4>1, <4>3 DEF Overlap
    <3>4. QED
      BY <1>1, <1>2, <3>1, <3>2, <3>3 DEF Overlapping
  <2>4. Cardinality(o \ {m}) <= Cardinality(v)
    BY <1>4, <2>3, FS_Subset
  <2>5. Cardinality(o \ {m}) = Cardinality(o) - 1
    BY <1>3, <2>2, FS_RemoveElement
  <2>6. Cardinality(v) <= 2
    BY <1>1
  <2>7. Cardinality(o) <= 3
    BY <1>3, <1>4, <2>4, <2>5, <2>6
  <2>8. QED
    BY <1>1, <2>7
<1>7. QED
  BY <1>5, <1>6

(* Another order covers the same.                                          *)
Ordering(p, n) == p \in [1 .. n -> 1 .. n] /\ \A i, j \in 1 .. n : p[i] = p[j] => i = j

LEMMA OrderingIsOnto ==
  ASSUME NEW n \in Nat, NEW p, Ordering(p, n), NEW k \in 1 .. n
  PROVE  \E i \in 1 .. n : p[i] = k
<1>1. IsFiniteSet(1 .. n)
  BY FS_Interval
<1>2. p \in Injection(1 .. n, 1 .. n)
  BY DEF Injection, IsInjective, Ordering
<1>3. p \in Surjection(1 .. n, 1 .. n)
  BY <1>1, <1>2, FS_Injection
<1>4. QED
  BY <1>3 DEF Surjection

LEMMA OrderedCovers ==
  ASSUME NEW n \in Nat, NEW p, Ordering(p, n), NEW rs, NEW s, \A i \in 1 .. n : s[i] = rs[p[i]],
         NEW x
  PROVE  /\ Cardinality(Covers(s, n, x)) <= Cardinality(Covers(rs, n, x))
         /\ Covers(s, n, x) = {} <=> Covers(rs, n, x) = {}
<1>1. \A i \in 1 .. n : p[i] \in 1 .. n
  BY DEF Ordering
<1>2. ASSUME NEW i \in Covers(s, n, x) PROVE i \in 1 .. n /\ p[i] \in Covers(rs, n, x)
  <2>1. i \in 1 .. n /\ s[i][1] <= x /\ x <= s[i][2] /\ s[i] = rs[p[i]] /\ p[i] \in 1 .. n
    BY <1>1 DEF Covers
  <2>2. QED
    BY <2>1 DEF Covers
<1>3. ASSUME NEW k \in Covers(rs, n, x) PROVE \E i \in 1 .. n : i \in Covers(s, n, x)
  <2>1. k \in 1 .. n /\ rs[k][1] <= x /\ x <= rs[k][2]
    BY DEF Covers
  <2>2. PICK i \in 1 .. n : p[i] = k
    BY <2>1, OrderingIsOnto
  <2>3. s[i] = rs[k]
    BY <2>2
  <2>4. QED
    BY <2>1, <2>3 DEF Covers
<1>4. Cardinality(Covers(s, n, x)) <= Cardinality(Covers(rs, n, x))
  <2>1. PICK f : f = [i \in Covers(s, n, x) |-> p[i]]
    OBVIOUS
  <2>2. f \in [Covers(s, n, x) -> Covers(rs, n, x)]
    BY <1>2, <2>1
  <2>3. \A i, j \in Covers(s, n, x) : f[i] = f[j] => i = j
    BY <1>2, <2>1 DEF Ordering
  <2>4. f \in Injection(Covers(s, n, x), Covers(rs, n, x))
    BY <2>2, <2>3 DEF Injection, IsInjective
  <2>5. QED
    BY <2>4, CoversFinite, FS_Injection
<1>5. QED
  BY <1>2, <1>3, <1>4

LEMMA CoalesceExists ==
  ASSUME NEW s, NEW n \in Nat
  PROVE  \E g : g = [i \in 0 .. n |-> IF i = 0 THEN <<>> ELSE Merged(g[i - 1], s[i])]
<1> DEFINE P == {m \in Nat :
                   \E g : g = [i \in 0 .. m |-> IF i = 0 THEN <<>> ELSE Merged(g[i - 1], s[i])]}
<1>1. 0 \in P
  <2> DEFINE g == [i \in 0 .. 0 |-> <<>>]
  <2>1. g = [i \in 0 .. 0 |-> IF i = 0 THEN <<>> ELSE Merged(g[i - 1], s[i])]
    <3>1. \A i \in 0 .. 0 : i = 0
      OBVIOUS
    <3>2. QED
      BY <3>1
  <2>2. QED
    BY <2>1
<1>2. ASSUME NEW m \in P PROVE m + 1 \in P
  <2>1. PICK g : g = [i \in 0 .. m |-> IF i = 0 THEN <<>> ELSE Merged(g[i - 1], s[i])]
    OBVIOUS
  <2> DEFINE h == [i \in 0 .. m + 1 |-> IF i \in 0 .. m THEN g[i] ELSE Merged(g[m], s[i])]
             hh == [i \in 0 .. m + 1 |-> IF i = 0 THEN <<>> ELSE Merged(h[i - 1], s[i])]
  <2>2. ASSUME NEW i \in 0 .. m + 1 PROVE h[i] = hh[i]
    <3>1. CASE i = 0
      BY <2>1, <3>1
    <3>2. CASE i \in 0 .. m /\ i # 0
      <4>1. i - 1 \in 0 .. m /\ i - 1 \in 0 .. m + 1
        BY <3>2
      <4>2. h[i] = g[i] /\ h[i - 1] = g[i - 1]
        BY <3>2, <4>1
      <4>3. g[i] = Merged(g[i - 1], s[i])
        BY <2>1, <3>2
      <4>4. QED
        BY <3>2, <4>2, <4>3
    <3>3. CASE i \notin 0 .. m
      <4>1. i = m + 1 /\ i - 1 = m /\ i - 1 \in 0 .. m /\ i - 1 \in 0 .. m + 1 /\ i # 0
        BY <3>3
      <4>2. h[i] = Merged(g[m], s[i]) /\ h[i - 1] = g[m]
        BY <3>3, <4>1
      <4>3. QED
        BY <4>1, <4>2
    <3>4. QED
      BY <3>1, <3>2, <3>3
  <2>3. h = hh
    BY <2>2
  <2>4. \E f : f = [i \in 0 .. m + 1 |-> IF i = 0 THEN <<>> ELSE Merged(f[i - 1], s[i])]
    <3> HIDE DEF h
    <3>1. QED
      BY <2>3 DEF hh
  <2>5. m + 1 \in Nat
    OBVIOUS
  <2>6. QED
    BY <2>4, <2>5
<1>3. P = Nat
  <2> HIDE DEF P
  <2>1. P \subseteq Nat
    BY DEF P
  <2>2. QED
    BY <1>1, <1>2, <2>1, Induction
<1>4. QED
  BY <1>3

Coalescing(s, n) ==
  CHOOSE g : g = [i \in 0 .. n |-> IF i = 0 THEN <<>> ELSE Merged(g[i - 1], s[i])]

LEMMA CoalescedIs ==
  ASSUME NEW s, NEW n \in Nat, n = Len(s)
  PROVE  \E g : Coalesced(s) = g[n] /\ g[0] = <<>> /\ \A i \in 1 .. n : g[i] = Merged(g[i - 1], s[i])
<1> DEFINE g == Coalescing(s, n)
<1>1. g = [i \in 0 .. n |-> IF i = 0 THEN <<>> ELSE Merged(g[i - 1], s[i])]
  BY CoalesceExists DEF Coalescing
<1>2. Coalesced(s) = g[n]
  BY DEF Coalesced, Coalescing
<1> HIDE DEF g
<1>3. \A i \in 0 .. n : g[i] = IF i = 0 THEN <<>> ELSE Merged(g[i - 1], s[i])
  BY <1>1, Zenon
<1>4. g[0] = <<>>
  <2>1. 0 \in 0 .. n
    OBVIOUS
  <2>2. QED
    BY <1>3, <2>1
<1>5. ASSUME NEW i \in 1 .. n PROVE g[i] = Merged(g[i - 1], s[i])
  <2>1. i \in 0 .. n /\ i # 0
    OBVIOUS
  <2>2. QED
    BY <1>3, <2>1
<1>6. QED
  BY <1>2, <1>4, <1>5

LEMMA LargerOf ==
  ASSUME NEW a \in Int, NEW b \in Int
  PROVE  Max({a, b}) = IF a >= b THEN a ELSE b
<1>1. PICK m : m = CHOOSE x \in {a, b} : \A y \in {a, b} : x >= y
  OBVIOUS
<1>2. \E x \in {a, b} : \A y \in {a, b} : x >= y
  <2>1. a >= b \/ b >= a
    OBVIOUS
  <2>2. a >= a /\ b >= b
    OBVIOUS
  <2>3. QED
    BY <2>1, <2>2
<1>3. m \in {a, b} /\ \A y \in {a, b} : m >= y
  BY <1>1, <1>2
<1>4. Max({a, b}) = m
  BY <1>1 DEF Max
<1>5. QED
  BY <1>3, <1>4

(* What the merged ranges q are of the first n of s, sorted.               *)
Counts(q, s, n) ==
  \A x \in Int :
    /\ Covers(q, Len(q), x) = {} <=> Covers(s, n, x) = {}
    /\ Cardinality(Covers(q, Len(q), x)) <= Cardinality(Covers(s, n, x))

MergedSoFar(q, s, n, len) ==
  /\ q \in Seq(Spans) /\ \A i \in 1 .. Len(q) : Within(q[i], len)
  /\ n > 0 => Len(q) > 0 /\ q[Len(q)][1] <= s[n][1]
  /\ Counts(q, s, n)

LEMMA AppendedRange ==
  ASSUME NEW len \in Nat, NEW s, NEW n \in Nat, NEW r \in Spans, s[n + 1] = r, Within(r, len),
         NEW q, MergedSoFar(q, s, n, len)
  PROVE  MergedSoFar(Append(q, r), s, n + 1, len)
<1>1. PICK k, t : k = Len(q) /\ t = Append(q, r)
  OBVIOUS
<1>2. k \in Nat /\ q \in Seq(Spans) /\ \A i \in 1 .. k : Within(q[i], len)
  BY <1>1, LenProperties DEF MergedSoFar
<1>3. t \in Seq(Spans) /\ Len(t) = k + 1 /\ t[k + 1] = r /\ \A i \in 1 .. k : t[i] = q[i]
  BY <1>1, <1>2, AppendProperties
<1>4. \A x : Covers(t, k, x) = Covers(q, k, x)
  BY <1>3 DEF Covers
<1>5. Counts(t, s, n + 1)
  <2>1. SUFFICES ASSUME NEW x \in Int
                 PROVE  /\ Covers(t, k + 1, x) = {} <=> Covers(s, n + 1, x) = {}
                        /\ Cardinality(Covers(t, k + 1, x)) <= Cardinality(Covers(s, n + 1, x))
    BY <1>3 DEF Counts
  <2>2. /\ Covers(t, k, x) = {} <=> Covers(s, n, x) = {}
        /\ Cardinality(Covers(t, k, x)) <= Cardinality(Covers(s, n, x))
    BY <1>1, <1>4 DEF MergedSoFar, Counts
  <2>3. Cardinality(Covers(t, k, x)) \in Nat /\ Cardinality(Covers(s, n, x)) \in Nat
    BY <1>2, CoversFinite
  <2>4. CASE r[1] <= x /\ x <= r[2]
    <3>1. /\ Covers(t, k + 1, x) = Covers(t, k, x) \cup {k + 1}
          /\ Cardinality(Covers(t, k + 1, x)) = Cardinality(Covers(t, k, x)) + 1
      BY <1>2, <1>3, <2>4, CoversGrow
    <3>2. /\ Covers(s, n + 1, x) = Covers(s, n, x) \cup {n + 1}
          /\ Cardinality(Covers(s, n + 1, x)) = Cardinality(Covers(s, n, x)) + 1
      BY <2>4, CoversGrow
    <3>3. Cardinality(Covers(t, k + 1, x)) <= Cardinality(Covers(s, n + 1, x))
      BY <2>2, <2>3, <3>1, <3>2
    <3>4. QED
      BY <3>1, <3>2, <3>3
  <2>5. CASE ~(r[1] <= x /\ x <= r[2])
    <3>1. Covers(t, k + 1, x) = Covers(t, k, x)
      BY <1>2, <1>3, <2>5, CoversGrow
    <3>2. Covers(s, n + 1, x) = Covers(s, n, x)
      BY <2>5, CoversGrow
    <3>3. QED
      BY <2>2, <3>1, <3>2
  <2>6. QED
    BY <2>4, <2>5
<1>6. Len(t) > 0 /\ t[Len(t)][1] <= s[n + 1][1]
  <2>1. r[1] \in Int
    BY DEF Spans
  <2>2. QED
    BY <1>2, <1>3, <2>1
<1>7. ASSUME NEW i \in 1 .. k + 1 PROVE Within(t[i], len)
  <2>1. i \in 1 .. k \/ i = k + 1
    BY <1>2
  <2>2. QED
    BY <1>2, <1>3, <2>1
<1>8. QED
  BY <1>1, <1>3, <1>5, <1>6, <1>7 DEF MergedSoFar

LEMMA PairParts ==
  \A a, m, e : e = <<a, m>> => e[1] = a /\ e[2] = m
OBVIOUS

LEMMA ExtendedRange ==
  ASSUME NEW len \in Nat, NEW s, NEW n \in Nat, NEW r \in Spans, s[n + 1] = r, Within(r, len),
         NEW q, MergedSoFar(q, s, n, len), NEW k, k = Len(q), k # 0,
         q[k][1] <= r[1], r[1] <= q[k][2] + 1,
         NEW t, t = [q EXCEPT ![k] = <<q[k][1], Max({q[k][2], r[2]})>>]
  PROVE  MergedSoFar(t, s, n + 1, len)
<1>1. k \in Nat \ {0} /\ q \in Seq(Spans) /\ \A i \in 1 .. k : Within(q[i], len)
  BY LenProperties DEF MergedSoFar
<1>2. DOMAIN q = 1 .. k /\ k \in 1 .. k
  BY <1>1
<1>3. PICK a, b, c, d, m : a = q[k][1] /\ b = q[k][2] /\ c = r[1] /\ d = r[2] /\ m = Max({b, d})
  OBVIOUS
<1>4. a \in Int /\ b \in Int /\ c \in Int /\ d \in Int
  <2>1. q[k] \in Spans
    BY <1>1, <1>2, ElementOfSeq
  <2>2. QED
    BY <1>3, <2>1 DEF Spans
<1>5. m = IF b >= d THEN b ELSE d
  BY <1>3, <1>4, LargerOf
<1>6. a <= c /\ c <= b + 1 /\ 0 <= a /\ a <= b /\ b < len /\ d < len
  BY <1>1, <1>2, <1>3 DEF Within
<1>7. t = [q EXCEPT ![k] = <<a, m>>]
  BY <1>3
<1>8. <<a, m>> \in Spans /\ Within(<<a, m>>, len)
  BY <1>4, <1>5, <1>6 DEF Spans, Within
<1>9. t \in Seq(Spans) /\ Len(t) = k /\ t[k] = <<a, m>> /\ \A i \in 1 .. k : i # k => t[i] = q[i]
  <2>1. PICK e, T : e = <<a, m>> /\ T = Spans
    OBVIOUS
  <2>2. t = [q EXCEPT ![k] = e] /\ e \in T /\ q \in Seq(T)
    BY <1>1, <1>7, <1>8, <2>1
  <2>3. t \in Seq(T) /\ Len(t) = k
    BY <1>1, <1>2, <2>2
  <2>4. t[k] = e /\ \A i \in 1 .. k : i # k => t[i] = q[i]
    BY <1>2, <2>2
  <2>5. QED
    BY <2>1, <2>3, <2>4
<1>10. ASSUME NEW x \in Int
       PROVE  /\ Covers(t, k, x) = {} <=> Covers(s, n + 1, x) = {}
              /\ Cardinality(Covers(t, k, x)) <= Cardinality(Covers(s, n + 1, x))
  <2>1. /\ Covers(q, k, x) = {} <=> Covers(s, n, x) = {}
        /\ Cardinality(Covers(q, k, x)) <= Cardinality(Covers(s, n, x))
    BY DEF MergedSoFar, Counts
  <2>2. /\ Cardinality(Covers(t, k, x)) \in Nat /\ Cardinality(Covers(s, n, x)) \in Nat
        /\ Cardinality(Covers(q, k, x)) \in Nat /\ IsFiniteSet(Covers(q, k, x))
    BY <1>1, CoversFinite
  <2>3. t[k][1] <= x /\ x <= t[k][2] <=> (a <= x /\ x <= b) \/ (c <= x /\ x <= d)
    <3>1. a <= x /\ x <= m <=> (a <= x /\ x <= b) \/ (c <= x /\ x <= d)
      BY <1>4, <1>5, <1>6
    <3>2. t[k][1] = a /\ t[k][2] = m
      <4>1. PICK e : e = t[k]
        OBVIOUS
      <4>2. e = <<a, m>>
        BY <1>9, <4>1
      <4>3. e[1] = a /\ e[2] = m
        BY <4>2, PairParts, Zenon
      <4>4. QED
        BY <4>1, <4>3, Zenon
    <3>3. QED
      BY <3>1, <3>2, Zenon
  <2>4. CASE c <= x /\ x <= d
    <3>1. Covers(t, k, x) = Covers(q, k, x) \cup {k}
      BY <1>2, <1>3, <1>9, <2>3, <2>4 DEF Covers
    <3>2. Cardinality(Covers(t, k, x)) <= Cardinality(Covers(q, k, x)) + 1
      <4>1. PICK o, e : o = Cardinality(Covers(q, k, x)) /\ e = Cardinality(Covers(q, k, x) \cup {k})
        OBVIOUS
      <4>2. o \in Nat /\ (e = o \/ e = o + 1)
        BY <2>2, <4>1, FS_AddElement
      <4>3. e <= o + 1
        BY <4>2
      <4>4. QED
        BY <3>1, <4>1, <4>3
    <3>3. /\ Covers(s, n + 1, x) = Covers(s, n, x) \cup {n + 1}
          /\ Cardinality(Covers(s, n + 1, x)) = Cardinality(Covers(s, n, x)) + 1
      BY <1>3, <2>4, CoversGrow
    <3>4. Cardinality(Covers(t, k, x)) <= Cardinality(Covers(s, n + 1, x))
      BY <2>1, <2>2, <3>2, <3>3
    <3>5. QED
      BY <3>1, <3>3, <3>4
  <2>5. CASE ~(c <= x /\ x <= d)
    <3>1. Covers(t, k, x) = Covers(q, k, x)
      BY <1>2, <1>3, <1>9, <2>3, <2>5 DEF Covers
    <3>2. Covers(s, n + 1, x) = Covers(s, n, x)
      BY <1>3, <2>5, CoversGrow
    <3>3. QED
      BY <2>1, <3>1, <3>2
  <2>6. QED
    BY <2>4, <2>5
<1>11. Counts(t, s, n + 1)
  BY <1>9, <1>10, ZenonT(60) DEF Counts
<1>12. Len(t) > 0 /\ t[Len(t)][1] <= s[n + 1][1]
  BY <1>1, <1>3, <1>4, <1>6, <1>9
<1>13. \A i \in 1 .. Len(t) : Within(t[i], len)
  BY <1>1, <1>8, <1>9
<1>14. QED
  BY <1>9, <1>11, <1>12, <1>13 DEF MergedSoFar

LEMMA MergedStep ==
  ASSUME NEW len \in Nat, NEW s, NEW n \in Nat, NEW r \in Spans, s[n + 1] = r, Within(r, len),
         n > 0 => s[n][1] <= r[1], NEW q, MergedSoFar(q, s, n, len), n > 0 => s[n][1] \in Int
  PROVE  MergedSoFar(Merged(q, r), s, n + 1, len)
<1>1. PICK k : k = Len(q)
  OBVIOUS
<1>2. k \in Nat /\ q \in Seq(Spans) /\ (q = <<>> <=> k = 0)
  BY <1>1, LenProperties, EmptySeq DEF MergedSoFar
<1>3. CASE q # <<>> /\ r[1] <= Last(q)[2] + 1 /\ r # Last(q)
  <2>1. Merged(q, r) = [q EXCEPT ![Len(q)] = <<@[1], Max({@[2], r[2]})>>]
    BY <1>3 DEF Merged
  <2>2. k \in 1 .. k /\ k # 0
    BY <1>2, <1>3
  <2>3. q[k] \in Spans
    BY <1>1, <1>2, <2>2, ElementOfSeq
  <2>4. Merged(q, r) = [q EXCEPT ![k] = <<q[k][1], Max({q[k][2], r[2]})>>]
    BY <1>1, <2>1
  <2>5. q[k][1] <= r[1]
    <3>1. n > 0
      <4>1. SUFFICES ASSUME ~(n > 0) PROVE FALSE
        OBVIOUS
      <4>2. Covers(s, n, q[k][1]) = {}
        <5>1. 1 .. n = {}
          BY <4>1
        <5>2. QED
          BY <5>1 DEF Covers
      <4>3. q[k][1] \in Int /\ q[k][1] <= q[k][1] /\ q[k][1] <= q[k][2]
        <5>1. Within(q[k], len)
          BY <1>1, <2>2 DEF MergedSoFar
        <5>2. q[k][1] \in Int
          BY <2>3 DEF Spans
        <5>3. QED
          BY <5>1, <5>2 DEF Within
      <4>4. k \in Covers(q, k, q[k][1])
        BY <2>2, <4>3 DEF Covers
      <4>5. Covers(q, Len(q), q[k][1]) = {} <=> Covers(s, n, q[k][1]) = {}
        BY <4>3 DEF MergedSoFar, Counts
      <4>6. QED
        BY <1>1, <4>2, <4>4, <4>5
    <3>2. PICK a, b, c : a = q[k][1] /\ b = s[n][1] /\ c = r[1]
      OBVIOUS
    <3>3. a \in Int /\ b \in Int /\ c \in Int /\ a <= b /\ b <= c
      BY <1>1, <2>3, <3>1, <3>2 DEF MergedSoFar, Spans
    <3>4. a <= c
      BY <3>3
    <3>5. QED
      BY <3>2, <3>4
  <2>6. r[1] <= q[k][2] + 1
    BY <1>1, <1>3 DEF Last
  <2>7. QED
    BY <1>1, <2>2, <2>4, <2>5, <2>6, ExtendedRange
<1>4. CASE ~(q # <<>> /\ r[1] <= Last(q)[2] + 1 /\ r # Last(q))
  <2>1. Merged(q, r) = Append(q, r)
    BY <1>4 DEF Merged
  <2>2. QED
    BY <2>1, AppendedRange
<1>5. QED
  BY <1>3, <1>4

SortedWithin(s, n, len) ==
  /\ s \in Seq(Spans) /\ Len(s) = n /\ \A i \in 1 .. n : Within(s[i], len)
  /\ \A i \in 1 .. n - 1 : s[i][1] <= s[i + 1][1]

LEMMA CoalescedSound ==
  ASSUME NEW len \in Nat, NEW n \in Nat, NEW s, SortedWithin(s, n, len)
  PROVE  MergedSoFar(Coalesced(s), s, n, len)
<1>1. /\ s \in Seq(Spans) /\ Len(s) = n /\ \A i \in 1 .. n : s[i] \in Spans /\ Within(s[i], len)
      /\ \A i \in 1 .. n - 1 : s[i][1] <= s[i + 1][1]
  BY ElementOfSeq DEF SortedWithin
<1>2. PICK g : /\ Coalesced(s) = g[n] /\ g[0] = <<>>
               /\ \A i \in 1 .. n : g[i] = Merged(g[i - 1], s[i])
  BY <1>1, CoalescedIs
<1> DEFINE P == {k \in Nat : k <= n => MergedSoFar(g[k], s, k, len)}
<1>3. 0 \in P
  <2>1. <<>> \in Seq(Spans) /\ Len(<<>>) = 0 /\ 1 .. 0 = {}
    OBVIOUS
  <2>2. \A x : Covers(<<>>, 0, x) = {} /\ Covers(s, 0, x) = {}
    BY <2>1 DEF Covers
  <2>3. Counts(<<>>, s, 0)
    <3>1. Cardinality({}) <= Cardinality({})
      BY FS_EmptySet
    <3>2. QED
      BY <2>1, <2>2, <3>1 DEF Counts
  <2>4. MergedSoFar(<<>>, s, 0, len)
    BY <2>1, <2>3 DEF MergedSoFar
  <2>5. QED
    BY <1>2, <2>4
<1>4. ASSUME NEW k \in P PROVE k + 1 \in P
  <2>1. SUFFICES ASSUME k + 1 <= n PROVE MergedSoFar(g[k + 1], s, k + 1, len)
    OBVIOUS
  <2>2. k \in Nat /\ k <= n /\ k + 1 \in 1 .. n /\ k + 1 - 1 = k
    BY <2>1
  <2>3. MergedSoFar(g[k], s, k, len)
    BY <2>2
  <2>4. PICK r : r = s[k + 1]
    OBVIOUS
  <2>5. r \in Spans /\ Within(r, len)
    BY <1>1, <2>2, <2>4
  <2>6. ASSUME k > 0 PROVE s[k][1] <= r[1] /\ s[k][1] \in Int
    <3>1. k \in 1 .. n - 1 /\ k \in 1 .. n
      BY <2>2, <2>6
    <3>2. QED
      BY <1>1, <2>4, <3>1 DEF Spans
  <2>7. g[k + 1] = Merged(g[k], r)
    BY <1>2, <2>2, <2>4
  <2>8. MergedSoFar(Merged(g[k], r), s, k + 1, len)
    BY <2>2, <2>3, <2>4, <2>5, <2>6, MergedStep
  <2>9. QED
    BY <2>7, <2>8
<1>5. P = Nat
  <2>1. P \subseteq Nat
    OBVIOUS
  <2> HIDE DEF P
  <2>2. QED
    BY <1>3, <1>4, <2>1, Induction
<1>6. n \in P
  <2> HIDE DEF P
  <2>1. QED
    BY <1>5
<1>7. n <= n
  OBVIOUS
<1>8. QED
  BY <1>2, <1>6, <1>7

(* Parts that cover no byte more than three times.                         *)
SentBelow(q, m) == {e \in (1 .. Len(q)) \X (0 .. m - 1) : e[1] \in Covers(q, Len(q), e[2])}

LEMMA SentBound ==
  ASSUME NEW q \in Seq(Spans), NEW len \in Nat, \A i \in 1 .. Len(q) : Within(q[i], len),
         \A x \in Int : Cardinality(Covers(q, Len(q), x)) <= 3
  PROVE  Cardinality(BytesSent(q)) <= 3 * len
<1>1. PICK k : k = Len(q)
  OBVIOUS
<1>2. k \in Nat /\ DOMAIN q = 1 .. k /\ \A i \in 1 .. k : q[i] \in Spans
  BY <1>1, LenProperties, ElementOfSeq
<1> DEFINE P == {m \in Nat : IsFiniteSet(SentBelow(q, m)) /\ Cardinality(SentBelow(q, m)) <= 3 * m}
<1>3. 0 \in P
  <2>1. SentBelow(q, 0) = {}
    BY DEF SentBelow
  <2>2. IsFiniteSet(SentBelow(q, 0)) /\ Cardinality(SentBelow(q, 0)) = 0
    BY <2>1, FS_EmptySet, Zenon
  <2> HIDE DEF SentBelow
  <2>3. Cardinality(SentBelow(q, 0)) <= 3 * 0
    BY <2>2
  <2>4. QED
    BY <2>2, <2>3
<1>4. ASSUME NEW m \in P PROVE m + 1 \in P
  <2>1. m \in Nat /\ m \in Int
    OBVIOUS
  <2>2. PICK s, c, a : s = SentBelow(q, m) /\ c = Covers(q, k, m) /\ a = c \X {m}
    OBVIOUS
  <2>3. IsFiniteSet(c) /\ Cardinality(c) \in Nat /\ Cardinality(c) <= 3
    BY <1>1, <1>2, <2>1, <2>2, CoversFinite
  <2>4. IsFiniteSet(a) /\ Cardinality(a) \in Nat /\ Cardinality(a) <= 3
    <3>1. IsFiniteSet({m}) /\ Cardinality({m}) = 1
      BY FS_Singleton
    <3>2. Cardinality(a) = Cardinality(c) * 1 /\ IsFiniteSet(a)
      BY <2>2, <2>3, <3>1, FS_Product
    <3>3. Cardinality(c) * 1 = Cardinality(c)
      BY <2>3
    <3>4. QED
      BY <2>3, <3>2, <3>3
  <2>5. IsFiniteSet(s) /\ Cardinality(s) \in Nat /\ Cardinality(s) <= 3 * m
    BY <2>2, FS_CardinalityType
  <2>6. SentBelow(q, m + 1) = s \cup a
    <3>1. \A y : y \in 0 .. m + 1 - 1 <=> y \in 0 .. m - 1 \/ y = m
      BY <2>1
    <3>2. \A e \in (1 .. k) \X (0 .. m + 1 - 1) : e[1] \in 1 .. k /\ e = <<e[1], e[2]>>
      OBVIOUS
    <3>3. c \subseteq 1 .. k
      BY <2>2 DEF Covers
    <3>4. SentBelow(q, m + 1) \subseteq s \cup a
      BY <1>1, <2>2, <3>1 DEF SentBelow
    <3>5. s \cup a \subseteq SentBelow(q, m + 1)
      BY <1>1, <2>2, <3>1, <3>3 DEF SentBelow
    <3>6. QED
      BY <3>4, <3>5
  <2>7. IsFiniteSet(s \cup a) /\ Cardinality(s \cup a) <= Cardinality(s) + Cardinality(a)
    <3>1. /\ IsFiniteSet(s \cup a)
          /\ Cardinality(s \cup a) = Cardinality(s) + Cardinality(a) - Cardinality(s \cap a)
      BY <2>4, <2>5, FS_Union
    <3>2. Cardinality(s \cap a) \in Nat
      BY <2>5, FS_Intersection, FS_CardinalityType
    <3>3. QED
      BY <2>4, <2>5, <3>1, <3>2
  <2>8. Cardinality(s \cup a) \in Nat
    BY <2>7, FS_CardinalityType
  <2>9. Cardinality(s \cup a) <= 3 * (m + 1)
    <3>1. PICK o, d, e : o = Cardinality(s) /\ d = Cardinality(a) /\ e = Cardinality(s \cup a)
      OBVIOUS
    <3>2. o \in Nat /\ o <= 3 * m
      BY <2>5, <3>1
    <3>3. d \in Nat /\ d <= 3
      BY <2>4, <3>1
    <3>4. e \in Nat /\ e <= o + d
      BY <2>7, <2>8, <3>1
    <3>5. e <= 3 * m + 3
      BY <2>1, <3>2, <3>3, <3>4
    <3>6. 3 * m + 3 = 3 * (m + 1)
      BY <2>1
    <3>7. QED
      BY <3>1, <3>5, <3>6
  <2>10. /\ IsFiniteSet(SentBelow(q, m + 1)) /\ Cardinality(SentBelow(q, m + 1)) <= 3 * (m + 1)
    BY <2>6, <2>7, <2>9, Zenon
  <2> HIDE DEF SentBelow
  <2>11. QED
    BY <2>1, <2>10
<1>5. P = Nat
  <2>1. P \subseteq Nat
    OBVIOUS
  <2> HIDE DEF P
  <2>2. QED
    BY <1>3, <1>4, <2>1, Induction
<1>6. len \in P
  <2> HIDE DEF P
  <2>1. QED
    BY <1>5
<1>7. BytesSent(q) = SentBelow(q, len)
  <2>1. ASSUME NEW i \in 1 .. k
        PROVE  /\ q[i][1] \in Int /\ q[i][2] \in Int /\ 0 <= q[i][1] /\ q[i][2] < len
               /\ \A x : x \in q[i][1] .. q[i][2] <=> x \in 0 .. len - 1 /\ i \in Covers(q, k, x)
    <3>1. q[i][1] \in Int /\ q[i][2] \in Int
      BY <1>2, <2>1 DEF Spans
    <3>2. 0 <= q[i][1] /\ q[i][2] < len
      BY <1>1, <2>1 DEF Within
    <3>3. QED
      BY <2>1, <3>1, <3>2 DEF Covers
  <2>2. ASSUME NEW e \in BytesSent(q) PROVE e \in SentBelow(q, len)
    <3>1. PICK i \in 1 .. k : e \in {i} \X (q[i][1] .. q[i][2])
      BY <1>2, <2>2 DEF BytesSent
    <3>2. PICK x : x \in q[i][1] .. q[i][2] /\ e = <<i, x>>
      BY <3>1
    <3>3. x \in 0 .. len - 1 /\ i \in Covers(q, k, x)
      BY <2>1, <3>2
    <3>4. QED
      BY <1>1, <3>2, <3>3 DEF SentBelow
  <2>3. ASSUME NEW e \in SentBelow(q, len) PROVE e \in BytesSent(q)
    <3>1. PICK i \in 1 .. k, x \in 0 .. len - 1 : e = <<i, x>> /\ i \in Covers(q, k, x)
      BY <1>1, <2>3 DEF SentBelow
    <3>2. x \in q[i][1] .. q[i][2]
      BY <2>1, <3>1
    <3>3. e \in {i} \X (q[i][1] .. q[i][2])
      BY <3>1, <3>2
    <3>4. QED
      BY <1>2, <3>3 DEF BytesSent
  <2>4. QED
    BY <2>2, <2>3
<1>8. QED
  BY <1>6, <1>7

(* The ranges asked for, where range_error lets them through.               *)
LEMMA AbsoluteSpans ==
  ASSUME NEW ranges \in Seq((Nat \cup {Missing}) \X (Nat \cup {Missing})), NEW len \in Nat,
         ~RangeError(ranges, len),
         NEW rs, rs = [i \in DOMAIN ranges |-> Absolute(ranges[i], len)]
  PROVE  /\ rs \in Seq(Spans) /\ Len(rs) = Len(ranges) /\ DOMAIN rs = 1 .. Len(ranges)
         /\ \A i \in 1 .. Len(rs) : Within(rs[i], len)
         /\ Cardinality(Overlapping(rs)) <= 2
<1>1. PICK n : n = Len(ranges)
  OBVIOUS
<1>2. n \in Nat /\ DOMAIN ranges = 1 .. n
  BY <1>1, LenProperties
<1>3. ASSUME NEW i \in 1 .. n PROVE Absolute(ranges[i], len) \in Spans
  <2>1. PICK r : r = ranges[i]
    OBVIOUS
  <2>2. r \in (Nat \cup {Missing}) \X (Nat \cup {Missing})
    BY <1>2, <2>1, ElementOfSeq
  <2>3. r[1] \in Int /\ r[2] \in Int
    BY <2>2 DEF Missing
  <2>4. PICK a, b : a = r[1] /\ b = r[2]
    OBVIOUS
  <2>5. PICK f : f = IF a = Missing THEN len - b ELSE a
    OBVIOUS
  <2>6. PICK g : g = IF a = Missing THEN len - 1 ELSE b
    OBVIOUS
  <2>7. PICK h : h = IF g = Missing \/ g >= len THEN len - 1 ELSE g
    OBVIOUS
  <2>8. f \in Int /\ g \in Int /\ h \in Int
    BY <2>3, <2>4, <2>5, <2>6, <2>7
  <2>9. Absolute(r, len) = <<f, h>>
    BY <2>4, <2>5, <2>6, <2>7 DEF Absolute
  <2>10. QED
    BY <2>1, <2>8, <2>9 DEF Spans
<1>4. rs = [i \in 1 .. n |-> Absolute(ranges[i], len)]
  BY <1>2
<1>5. rs \in [1 .. n -> Spans]
  BY <1>3, <1>4
<1>6. rs \in Seq(Spans) /\ Len(rs) = n /\ DOMAIN rs = 1 .. n
  BY <1>2, <1>5
<1>7. \A i \in 1 .. n : Within(rs[i], len)
  BY <1>6 DEF RangeError
<1>8. ~(Cardinality(Overlapping(rs)) > 2)
  BY DEF RangeError, Overlapping
<1>9. Cardinality(Overlapping(rs)) \in Nat
  <2>1. IsFiniteSet(1 .. n) /\ Overlapping(rs) \in SUBSET (1 .. n)
    BY <1>2, <1>6, FS_Interval DEF Overlapping
  <2>2. QED
    BY <2>1, FS_Subset, FS_CardinalityType
<1>10. Cardinality(Overlapping(rs)) <= 2
  <2>1. PICK c : c = Cardinality(Overlapping(rs))
    OBVIOUS
  <2>2. c \in Nat /\ ~(c > 2)
    BY <1>8, <1>9, <2>1
  <2>3. c <= 2
    BY <2>2
  <2>4. QED
    BY <2>1, <2>3
<1>11. QED
  BY <1>1, <1>6, <1>7, <1>10

(* A byte is of a sequence of ranges if one of them covers it.              *)
LEMMA BytesCovered ==
  ASSUME NEW q \in Seq(Spans), NEW x
  PROVE  x \in BytesOf(q) <=> x \in Int /\ Covers(q, Len(q), x) # {}
<1>1. PICK k : k = Len(q)
  OBVIOUS
<1>2. k \in Nat /\ DOMAIN q = 1 .. k
  BY <1>1, LenProperties
<1>3. ASSUME NEW i \in 1 .. k
      PROVE  x \in q[i][1] .. q[i][2] <=> x \in Int /\ q[i][1] <= x /\ x <= q[i][2]
  <2>1. q[i] \in Spans
    BY <1>1, <1>2, ElementOfSeq
  <2>2. q[i][1] \in Int /\ q[i][2] \in Int
    BY <2>1 DEF Spans
  <2>3. QED
    BY <2>2
<1>4. x \in BytesOf(q) <=> \E i \in 1 .. k : x \in q[i][1] .. q[i][2]
  BY <1>2 DEF BytesOf
<1>5. Covers(q, k, x) # {} <=> \E i \in 1 .. k : q[i][1] <= x /\ x <= q[i][2]
  BY DEF Covers
<1>6. QED
  BY <1>1, <1>3, <1>4, <1>5

(* What is sent of a sequence of ranges, each byte as seldom as is asked.   *)
Sends(q, rs, len) ==
  /\ BytesOf(q) = BytesOf(rs)
  /\ \A i \in DOMAIN q : Within(q[i], len)
  /\ Cardinality(BytesSent(q)) <= 3 * len

LEMMA SendsAsFew ==
  ASSUME NEW q \in Seq(Spans), NEW rs \in Seq(Spans), NEW len \in Nat,
         \A i \in 1 .. Len(q) : Within(q[i], len), Cardinality(Overlapping(rs)) <= 2,
         \A x \in Int : /\ Covers(q, Len(q), x) = {} <=> Covers(rs, Len(rs), x) = {}
                        /\ Cardinality(Covers(q, Len(q), x)) <= Cardinality(Covers(rs, Len(rs), x))
  PROVE  Sends(q, rs, len)
<1>1. Len(q) \in Nat /\ Len(rs) \in Nat /\ DOMAIN q = 1 .. Len(q)
  BY LenProperties
<1>2. BytesOf(q) = BytesOf(rs)
  <2>1. \A x : x \in BytesOf(q) <=> x \in BytesOf(rs)
    BY BytesCovered
  <2>2. QED
    BY <2>1
<1>3. ASSUME NEW x \in Int PROVE Cardinality(Covers(q, Len(q), x)) <= 3
  <2>1. PICK a, b : a = Cardinality(Covers(q, Len(q), x)) /\ b = Cardinality(Covers(rs, Len(rs), x))
    OBVIOUS
  <2>2. a \in Nat /\ b \in Nat
    BY <1>1, <2>1, CoversFinite
  <2>3. b <= 3
    BY <2>1, CoversFew
  <2>4. a <= b
    BY <2>1
  <2>5. a <= 3
    BY <2>2, <2>3, <2>4
  <2>6. QED
    BY <2>1, <2>5
<1>4. Cardinality(BytesSent(q)) <= 3 * len
  BY <1>3, SentBound
<1>5. QED
  BY <1>1, <1>2, <1>4 DEF Sends

(* coalesce_ranges on the sorted ranges.                                    *)
LEMMA CoalescedSends ==
  ASSUME NEW rs \in Seq(Spans), NEW len \in Nat, \A i \in 1 .. Len(rs) : Within(rs[i], len),
         Cardinality(Overlapping(rs)) <= 2, NEW s \in SortedByFirst(rs)
  PROVE  Sends(Coalesced(s), rs, len)
<1>1. PICK n : n = Len(rs)
  OBVIOUS
<1>2. n \in Nat /\ DOMAIN rs = 1 .. n /\ \A i \in 1 .. n : rs[i] \in Spans
  BY <1>1, LenProperties, ElementOfSeq
<1>3. PICK p \in [1 .. n -> 1 .. n] : /\ \A i, j \in 1 .. n : p[i] = p[j] => i = j
                                      /\ s = [i \in 1 .. n |-> rs[p[i]]]
  BY <1>2 DEF SortedByFirst
<1>4. \A i \in 1 .. Len(s) - 1 : s[i][1] <= s[i + 1][1]
  BY DEF SortedByFirst
<1>5. Ordering(p, n)
  BY <1>3 DEF Ordering
<1>6. \A i \in 1 .. n : s[i] = rs[p[i]] /\ p[i] \in 1 .. n
  BY <1>3
<1>7. s \in [1 .. n -> Spans]
  BY <1>2, <1>3, <1>6
<1>8. s \in Seq(Spans) /\ Len(s) = n
  BY <1>2, <1>7
<1>9. \A i \in 1 .. n : Within(s[i], len)
  BY <1>1, <1>6
<1>10. SortedWithin(s, n, len)
  BY <1>4, <1>8, <1>9 DEF SortedWithin
<1>11. PICK q : q = Coalesced(s)
  OBVIOUS
<1>12. MergedSoFar(q, s, n, len)
  BY <1>2, <1>10, <1>11, CoalescedSound
<1>13. q \in Seq(Spans) /\ \A i \in 1 .. Len(q) : Within(q[i], len)
  BY <1>12 DEF MergedSoFar
<1>14. ASSUME NEW x \in Int
       PROVE  /\ Covers(q, Len(q), x) = {} <=> Covers(rs, n, x) = {}
              /\ Cardinality(Covers(q, Len(q), x)) <= Cardinality(Covers(rs, n, x))
  <2>1. /\ Covers(q, Len(q), x) = {} <=> Covers(s, n, x) = {}
        /\ Cardinality(Covers(q, Len(q), x)) <= Cardinality(Covers(s, n, x))
    BY <1>12 DEF MergedSoFar, Counts
  <2>2. /\ Covers(s, n, x) = {} <=> Covers(rs, n, x) = {}
        /\ Cardinality(Covers(s, n, x)) <= Cardinality(Covers(rs, n, x))
    BY <1>2, <1>5, <1>6, OrderedCovers, ZenonT(60)
  <2>3. PICK a, b, c : /\ a = Cardinality(Covers(q, Len(q), x)) /\ b = Cardinality(Covers(s, n, x))
                       /\ c = Cardinality(Covers(rs, n, x))
    OBVIOUS
  <2>4. a \in Nat /\ b \in Nat /\ c \in Nat
    <3>1. Len(q) \in Nat
      BY <1>13, LenProperties
    <3>2. QED
      BY <1>2, <2>3, <3>1, CoversFinite
  <2>5. a <= b /\ b <= c
    BY <2>1, <2>2, <2>3
  <2>6. a <= c
    BY <2>4, <2>5
  <2>7. QED
    BY <2>1, <2>2, <2>3, <2>6
<1>15. Sends(q, rs, len)
  BY <1>1, <1>13, <1>14, SendsAsFew
<1>16. QED
  BY <1>11, <1>15

LEMMA RangesAlwaysAnswered ==
  ASSUME NEW ranges \in Seq((Nat \cup {Missing}) \X (Nat \cup {Missing})), NEW len \in Nat
  PROVE  RangesAnswered(ranges, len)
<1>1. SUFFICES ASSUME NEW a \in Answers(ranges, len), a.status = 206
               PROVE  Sends(a.parts, [i \in DOMAIN ranges |-> Absolute(ranges[i], len)], len)
  BY DEF RangesAnswered, Sends
<1>2. PICK rs : rs = [i \in DOMAIN ranges |-> Absolute(ranges[i], len)]
  OBVIOUS
<1>3. ~RangeError(ranges, len) /\ a \in ApplyRanges(ranges, len)
  <2>1. CASE ~ParseRangeHeader(ranges) \/ RangeError(ranges, len)
    <3>1. a = [status |-> 416, parts |-> <<>>]
      BY <2>1 DEF Answers
    <3>2. QED
      BY <1>1, <3>1
  <2>2. CASE ~(~ParseRangeHeader(ranges) \/ RangeError(ranges, len))
    BY <2>2 DEF Answers
  <2>3. QED
    BY <2>1, <2>2
<1>4. PICK q \in CoalesceRanges(ranges, len) : a = [status |-> 206, parts |-> q]
  BY <1>3 DEF ApplyRanges
<1>5. /\ rs \in Seq(Spans) /\ Len(rs) = Len(ranges)
      /\ \A i \in 1 .. Len(rs) : Within(rs[i], len)
      /\ Cardinality(Overlapping(rs)) <= 2
  BY <1>2, <1>3, AbsoluteSpans
<1>6. Sends(q, rs, len)
  <2>1. CASE Len(ranges) <= 1
    <3>1. q = rs
      BY <1>2, <1>4, <2>1 DEF CoalesceRanges
    <3>2. Sends(rs, rs, len)
      <4>1. \A x \in Int : /\ Covers(rs, Len(rs), x) = {} <=> Covers(rs, Len(rs), x) = {}
                           /\ Cardinality(Covers(rs, Len(rs), x)) <= Cardinality(Covers(rs, Len(rs), x))
        <5>1. Len(rs) \in Nat
          BY <1>5, LenProperties
        <5>2. \A x : Cardinality(Covers(rs, Len(rs), x)) \in Nat
          BY <5>1, CoversFinite
        <5>3. QED
          BY <5>2
      <4>2. QED
        BY <1>5, <4>1, SendsAsFew
    <3>3. QED
      BY <3>1, <3>2
  <2>2. CASE ~(Len(ranges) <= 1)
    <3>1. PICK s \in SortedByFirst(rs) : q = Coalesced(s)
      BY <1>2, <1>4, <2>2 DEF CoalesceRanges
    <3>2. QED
      BY <1>5, <3>1, CoalescedSends
  <2>3. QED
    BY <2>1, <2>2
<1>7. QED
  BY <1>2, <1>4, <1>6

(* Every request for parts of an answer, for every number of ranges, every  *)
(* length and every order and overlap of the ranges: an answer 206 (of      *)
(* range_error, std::sort and coalesce_ranges) holds exactly the bytes      *)
(* asked for, cuts only within the answer, and is at most three times as    *)
(* long as the whole.                                                       *)
THEOREM PartsOfEveryRequest == RangedInit => PartsArrive
<1>1. ASSUME RangedInit PROVE RangesAnswered(ranged.ranges, ranged.len)
  <2>1. /\ ranged.ranges \in Seq((Nat \cup {Missing}) \X (Nat \cup {Missing}))
        /\ ranged.len \in Nat
    BY <1>1, RangesAssumption DEF RangedInit
  <2>2. QED
    BY <2>1, RangesAlwaysAnswered
<1>2. QED
  BY <1>1 DEF PartsArrive
-----------------------------------------------------------------------------
(* A query component: what one byte becomes, and what is read of it.       *)
HexDigit(c) == IF c \in Digits THEN c - 48 ELSE (c - 55) % 32

HexFolded(t, f) ==
  f = [s \in SUBSET DOMAIN t |->
         IF s = {} THEN 0 ELSE 16 * f[s \ {Max(s)}] + HexDigit(t[Max(s)])]

LEMMA FromHexIs ==
  ASSUME NEW t, NEW g, HexFolded(t, g)
  PROVE  \E f : HexFolded(t, f) /\ FromHex(t) = f[DOMAIN t]
<1>1. FromHex(t) = (CHOOSE f : HexFolded(t, f))[DOMAIN t]
  BY DEF FromHex, FoldLeft, MapThenFoldSet, HexFolded, HexDigit
<1>2. HexFolded(t, CHOOSE f : HexFolded(t, f))
  OBVIOUS
<1>3. QED
  BY <1>1, <1>2

LEMMA MaxOf ==
  ASSUME NEW a \in Int
  PROVE  Max({a}) = a
<1>1. \A x \in {a} : (\A y \in {a} : x >= y) <=> x = a
  OBVIOUS
<1>2. a \in {a} /\ \A y \in {a} : a >= y
  OBVIOUS
<1>3. QED
  BY <1>1, <1>2 DEF Max

LEMMA TwoHexDigits ==
  ASSUME NEW a \in Nat, NEW b \in Nat
  PROVE  FromHex(<<a, b>>) = 16 * HexDigit(a) + HexDigit(b)
<1>1. PICK t : t = <<a, b>>
  OBVIOUS
<1>2. DOMAIN t = {1, 2} /\ t[1] = a /\ t[2] = b
  BY <1>1
<1>3. Max({1}) = 1 /\ Max({2}) = 2 /\ Max({1, 2}) = 2
  BY MaxOf, LargerOf
<1>4. PICK x, y : x = HexDigit(a) /\ y = HexDigit(b)
  OBVIOUS
<1>5. x \in Int /\ y \in Int
  BY <1>4 DEF HexDigit, Digits
<1>6. \A s \in SUBSET {1, 2} : s = {} \/ s = {1} \/ s = {2} \/ s = {1, 2}
  OBVIOUS
<1>7. /\ {1} # {2} /\ {1} # {} /\ {2} # {} /\ {1, 2} # {} /\ {1, 2} # {1} /\ {1, 2} # {2}
      /\ {1} \ {1} = {} /\ {2} \ {2} = {} /\ {1, 2} \ {2} = {1}
  OBVIOUS
<1>8. PICK g : g = [s \in SUBSET {1, 2} |-> IF s = {} THEN 0 ELSE IF s = {1} THEN 16 * 0 + x
                                         ELSE IF s = {2} THEN 16 * 0 + y ELSE 16 * (16 * 0 + x) + y]
  OBVIOUS
<1>9. g[{}] = 0 /\ g[{1}] = 16 * 0 + x /\ g[{2}] = 16 * 0 + y /\ g[{1, 2}] = 16 * (16 * 0 + x) + y
  BY <1>7, <1>8
<1>10. PICK h : h = [s \in SUBSET {1, 2} |->
                       IF s = {} THEN 0 ELSE 16 * g[s \ {Max(s)}] + HexDigit(t[Max(s)])]
  OBVIOUS
<1>11. ASSUME NEW s \in SUBSET {1, 2} PROVE g[s] = h[s]
  <2>1. h[s] = IF s = {} THEN 0 ELSE 16 * g[s \ {Max(s)}] + HexDigit(t[Max(s)])
    BY <1>10
  <2>2. CASE s = {}
    BY <1>9, <2>1, <2>2
  <2>3. CASE s = {1}
    <3>1. h[s] = 16 * g[{}] + HexDigit(t[1])
      BY <1>3, <1>7, <2>1, <2>3
    <3>2. QED
      BY <1>2, <1>4, <1>9, <2>3, <3>1
  <2>4. CASE s = {2}
    <3>1. h[s] = 16 * g[{}] + HexDigit(t[2])
      BY <1>3, <1>7, <2>1, <2>4
    <3>2. QED
      BY <1>2, <1>4, <1>9, <2>4, <3>1
  <2>5. CASE s = {1, 2}
    <3>1. h[s] = 16 * g[{1}] + HexDigit(t[2])
      BY <1>3, <1>7, <2>1, <2>5
    <3>2. QED
      BY <1>2, <1>4, <1>9, <2>5, <3>1
  <2>6. QED
    BY <1>6, <2>2, <2>3, <2>4, <2>5
<1>12. HexFolded(t, g)
  <2>1. g = h
    <3>1. g = [s \in SUBSET {1, 2} |-> g[s]] /\ h = [s \in SUBSET {1, 2} |-> h[s]]
      BY <1>8, <1>10
    <3>2. QED
      BY <1>11, <3>1
  <2>2. QED
    BY <1>2, <1>10, <2>1 DEF HexFolded
<1>13. PICK f : HexFolded(t, f) /\ FromHex(t) = f[DOMAIN t]
  BY <1>12, FromHexIs
<1>14. \A s \in SUBSET {1, 2} :
         f[s] = IF s = {} THEN 0 ELSE 16 * f[s \ {Max(s)}] + HexDigit(t[Max(s)])
  BY <1>2, <1>13, Zenon DEF HexFolded
<1>15. f[{}] = 0
  BY <1>14
<1>16. f[{1}] = 16 * f[{}] + HexDigit(t[1])
  BY <1>3, <1>7, <1>14
<1>17. f[{1, 2}] = 16 * f[{1}] + HexDigit(t[2])
  BY <1>3, <1>7, <1>14
<1>18. f[{1, 2}] = 16 * x + y
  BY <1>2, <1>4, <1>5, <1>15, <1>16, <1>17
<1>19. QED
  BY <1>1, <1>2, <1>4, <1>13, <1>18


Octets == 0 .. 255

LEMMA UpperIsHex ==
  ASSUME NEW n \in 0 .. 15
  PROVE  Upper(n) \in HexDigits /\ HexDigit(Upper(n)) = n /\ Upper(n) \in Octets
<1>1. CASE n < 10
  <2>1. Upper(n) = 48 + n /\ 48 + n \in 48 .. 57 /\ 48 + n - 48 = n
    BY <1>1 DEF Upper
  <2>2. QED
    BY <2>1 DEF HexDigits, HexDigit, Digits, Octets
<1>2. CASE ~(n < 10)
  <2>1. Upper(n) = 55 + n /\ 55 + n \in 65 .. 70 /\ 55 + n \notin 48 .. 57 /\ (55 + n - 55) % 32 = n
    BY <1>2 DEF Upper
  <2>2. QED
    BY <2>1 DEF HexDigits, HexDigit, Digits, Octets
<1>3. QED
  BY <1>1, <1>2

LEMMA EscapeIsRead ==
  ASSUME NEW c \in Octets
  PROVE  /\ Escaped(c) \in Seq(Octets) /\ Len(Escaped(c)) = 3 /\ Escaped(c)[1] = PERCENT
         /\ Strtoul2(Escaped(c)[2], Escaped(c)[3]) = c
<1>1. PICK h, l : h = c \div 16 /\ l = c % 16
  OBVIOUS
<1>2. h \in 0 .. 15 /\ l \in 0 .. 15 /\ c = 16 * h + l
  BY <1>1 DEF Octets
<1>3. PICK a, b : a = Upper(h) /\ b = Upper(l)
  OBVIOUS
<1>4. /\ a \in HexDigits /\ b \in HexDigits /\ a \in Octets /\ b \in Octets
      /\ HexDigit(a) = h /\ HexDigit(b) = l
  BY <1>2, <1>3, UpperIsHex
<1>5. Escaped(c) = <<PERCENT, a, b>>
  BY <1>1, <1>3 DEF Escaped
<1>6. FromHex(<<a, b>>) = 16 * h + l
  <2>1. a \in Nat /\ b \in Nat
    BY <1>4 DEF Octets
  <2>2. QED
    BY <1>4, <2>1, TwoHexDigits
<1>7. Strtoul2(a, b) = FromHex(<<a, b>>)
  BY <1>4 DEF Strtoul2
<1>8. Strtoul2(a, b) = c
  BY <1>2, <1>6, <1>7
<1>9. PERCENT \in Octets
  BY DEF PERCENT, Octets
<1>10. QED
  BY <1>4, <1>5, <1>8, <1>9

QueryPiece(c) ==
  IF c \in QuerySafe THEN <<c>> ELSE IF c = SPACE THEN <<PLUS>> ELSE Escaped(c)

(* A piece is one byte, none of them the percent sign, or an escape.       *)
LEMMA PieceIsRead ==
  ASSUME NEW c \in Octets
  PROVE  /\ QueryPiece(c) \in Seq(Octets)
         /\ \/ /\ Len(QueryPiece(c)) = 1 /\ QueryPiece(c)[1] # PERCENT
               /\ c = IF QueryPiece(c)[1] = PLUS THEN SPACE ELSE QueryPiece(c)[1]
            \/ /\ Len(QueryPiece(c)) = 3 /\ QueryPiece(c)[1] = PERCENT
               /\ Strtoul2(QueryPiece(c)[2], QueryPiece(c)[3]) = c
<1>1. CASE c \in QuerySafe
  <2>1. PERCENT \notin QuerySafe /\ PLUS \notin QuerySafe
    BY DEF PERCENT, PLUS, QUESTION, QuerySafe, Digits, Letters
  <2>2. QueryPiece(c) = <<c>> /\ c # PERCENT /\ c # PLUS
    BY <1>1, <2>1 DEF QueryPiece
  <2>3. QED
    BY <2>2
<1>2. CASE c \notin QuerySafe /\ c = SPACE
  <2>1. QueryPiece(c) = <<PLUS>> /\ PLUS # PERCENT /\ PLUS \in Octets
    BY <1>2 DEF QueryPiece, PLUS, PERCENT, Octets
  <2>2. QED
    BY <1>2, <2>1
<1>3. CASE c \notin QuerySafe /\ c # SPACE
  <2>1. QueryPiece(c) = Escaped(c)
    BY <1>3 DEF QueryPiece
  <2>2. QED
    BY <2>1, EscapeIsRead
<1>4. QED
  BY <1>1, <1>2, <1>3

-----------------------------------------------------------------------------
(* Where each of n pieces is in what FlattenSeq makes of them.             *)
PieceAt(t, p, v, j) ==
  /\ p[j - 1] \in Nat /\ p[j] \in Nat /\ p[j] = p[j - 1] + Len(t[j]) /\ p[j] <= Len(v)
  /\ WordAt(v, p[j - 1], t[j])

PiecesAt(U, t, p, v, k) ==
  v \in Seq(U) /\ Len(v) = p[k] /\ \A j \in 1 .. k : PieceAt(t, p, v, j)

LEMMA PiecesGrow ==
  ASSUME NEW U, NEW t, NEW k \in Nat, \A j \in 1 .. k + 1 : t[j] \in Seq(U),
         NEW p, NEW v, PiecesAt(U, t, p, v, k), NEW x, x = v \o t[k + 1], p[k + 1] = Len(x)
  PROVE  PiecesAt(U, t, p, x, k + 1)
<1>1. PICK i, a : i = t[k + 1] /\ a = p[k]
  OBVIOUS
<1>2. i \in Seq(U) /\ Len(i) \in Nat
  <2>1. k + 1 \in 1 .. k + 1
    OBVIOUS
  <2>2. QED
    BY <1>1, <2>1, LenProperties
<1>3. v \in Seq(U) /\ Len(v) = a /\ a \in Nat
  BY <1>1, LenProperties DEF PiecesAt
<1>4. x = v \o i
  BY <1>1
<1>5. x \in Seq(U) /\ Len(x) = a + Len(i)
  <2>1. v \o i \in Seq(U) /\ Len(v \o i) = Len(v) + Len(i)
    BY <1>2, <1>3, ConcatAt
  <2>2. QED
    BY <1>3, <1>4, <2>1
<1>6. WordAt(x, a, i)
  BY <1>2, <1>3, <1>4, WordAdded
<1>7. PieceAt(t, p, x, k + 1)
  <2>1. k + 1 - 1 = k
    OBVIOUS
  <2>2. p[k + 1] \in Nat /\ p[k + 1] = a + Len(i) /\ p[k + 1] <= Len(x)
    BY <1>2, <1>3, <1>5
  <2>3. QED
    BY <1>1, <1>3, <1>6, <2>1, <2>2 DEF PieceAt
<1>8. ASSUME NEW j \in 1 .. k PROVE PieceAt(t, p, x, j)
  <2>1. PICK b, q, w : b = p[j - 1] /\ q = p[j] /\ w = t[j]
    OBVIOUS
  <2>2. /\ b \in Nat /\ q \in Nat /\ q = b + Len(w) /\ q <= Len(v) /\ WordAt(v, b, w)
    BY <2>1 DEF PiecesAt, PieceAt
  <2>3. w \in Seq(U) /\ Len(w) \in Nat
    <3>1. j \in 1 .. k + 1
      OBVIOUS
    <3>2. QED
      BY <2>1, <3>1, LenProperties
  <2>4. WordAt(v \o i, b, w)
    BY <1>2, <1>3, <2>2, <2>3, WordStays
  <2>5. q <= Len(x)
    BY <1>2, <1>3, <1>5, <2>2
  <2>6. QED
    BY <1>4, <2>1, <2>2, <2>4, <2>5 DEF PieceAt
<1>9. ASSUME NEW j \in 1 .. k + 1 PROVE PieceAt(t, p, x, j)
  <2>1. j \in 1 .. k \/ j = k + 1
    OBVIOUS
  <2>2. QED
    BY <1>7, <1>8, <2>1
<1>10. QED
  BY <1>5, <1>9 DEF PiecesAt

LEMMA FlattenedAt ==
  ASSUME NEW U, NEW n \in Nat \ {0}, NEW t, Len(t) = n, \A j \in 1 .. n : t[j] \in Seq(U)
  PROVE  \E p : p[0] = 0 /\ PiecesAt(U, t, p, FlattenSeq(t), n)
<1>1. PICK g : g = Flattening(t, n)
  OBVIOUS
<1>2. IsFlattening(g, t, n)
  BY <1>1, FlattenIs
<1>3. PICK p : p = Ending(g, n)
  OBVIOUS
<1>4. p[0] = 0 /\ \A k \in 1 .. n : p[k] = Len(g[k])
  BY <1>3 DEF Ending
<1> DEFINE P == {k \in Nat : k + 1 <= n => PiecesAt(U, t, p, g[k + 1], k + 1)}
<1>5. 0 \in P
  <2>1. PICK i : i = t[1]
    OBVIOUS
  <2>2. i \in Seq(U) /\ Len(i) \in Nat /\ 1 \in 1 .. n
    BY <2>1, LenProperties
  <2>3. g[1] = i /\ p[1] = Len(i)
    BY <1>2, <1>4, <2>1, <2>2 DEF IsFlattening
  <2>4. WordAt(i, 0, i)
    BY DEF WordAt
  <2>5. 1 - 1 = 0
    OBVIOUS
  <2>6. PieceAt(t, p, i, 1)
    <3>1. p[1 - 1] = 0 /\ WordAt(i, p[1 - 1], t[1])
      BY <1>4, <2>1, <2>4, <2>5
    <3>2. p[1] \in Nat /\ p[1] = 0 + Len(t[1]) /\ p[1] <= Len(i)
      BY <2>1, <2>2, <2>3
    <3>3. QED
      BY <3>1, <3>2 DEF PieceAt
  <2>7. \A j \in 1 .. 1 : PieceAt(t, p, i, j)
    <3>1. \A j \in 1 .. 1 : j = 1
      OBVIOUS
    <3>2. QED
      BY <2>6, <3>1
  <2>8. PiecesAt(U, t, p, i, 1)
    BY <2>2, <2>3, <2>7 DEF PiecesAt
  <2>9. PiecesAt(U, t, p, g[0 + 1], 0 + 1)
    BY <2>3, <2>8
  <2>10. QED
    BY <2>9
<1>6. ASSUME NEW k \in P PROVE k + 1 \in P
  <2>1. SUFFICES ASSUME k + 1 + 1 <= n PROVE PiecesAt(U, t, p, g[k + 1 + 1], k + 1 + 1)
    OBVIOUS
  <2>2. PICK m : m = k + 1
    OBVIOUS
  <2>3. m \in Nat /\ m + 1 \in 2 .. n /\ m + 1 \in 1 .. n /\ m + 1 - 1 = m /\ k + 1 <= n
    BY <2>1, <2>2
  <2>4. PiecesAt(U, t, p, g[m], m)
    BY <2>2, <2>3
  <2>5. g[m + 1] = g[m] \o t[m + 1]
    <3>1. PICK j : j = m + 1
      OBVIOUS
    <3>2. j \in 2 .. n /\ j - 1 = m
      BY <2>3, <3>1
    <3>3. g[j] = g[j - 1] \o t[j]
      BY <1>2, <3>2 DEF IsFlattening
    <3>4. QED
      BY <3>1, <3>2, <3>3
  <2>6. p[m + 1] = Len(g[m + 1])
    BY <1>4, <2>3
  <2>7. \A j \in 1 .. m + 1 : t[j] \in Seq(U)
    BY <2>3
  <2>8. PiecesAt(U, t, p, g[m + 1], m + 1)
    BY <2>3, <2>4, <2>5, <2>6, <2>7, PiecesGrow
  <2>9. QED
    BY <2>2, <2>8
<1>7. P = Nat
  <2>1. P \subseteq Nat
    OBVIOUS
  <2> HIDE DEF P
  <2>2. QED
    BY <1>5, <1>6, <2>1, Induction
<1>8. PiecesAt(U, t, p, g[n], n)
  <2>1. PICK k : k = n - 1
    OBVIOUS
  <2>2. k \in Nat /\ k + 1 = n
    BY <2>1
  <2>3. k \in P
    <3> HIDE DEF P
    <3>1. QED
      BY <1>7, <2>2
  <2>4. PiecesAt(U, t, p, g[k + 1], k + 1)
    BY <2>2, <2>3
  <2>5. QED
    BY <2>2, <2>4
<1>9. FlattenSeq(t) = g[n]
  BY <1>2 DEF IsFlattening
<1>10. QED
  BY <1>4, <1>8, <1>9


(* The decoder: every place depends on later ones only.                    *)
DecodedAt(w, f, i) ==
  IF i > Len(w) THEN <<>>
  ELSE IF w[i] = PERCENT /\ i + 2 <= Len(w) /\ Strtoul2(w[i + 1], w[i + 2]) # -1
       THEN <<Strtoul2(w[i + 1], w[i + 2])>> \o f[i + 3]
  ELSE <<IF w[i] = PLUS THEN SPACE ELSE w[i]>> \o f[i + 1]

DecodesLast(g, w, k) ==
  /\ g = [i \in 1 .. Len(w) + 3 |-> g[i]]
  /\ \A i \in 1 .. Len(w) + 3 : Len(w) + 3 < i + k => g[i] = DecodedAt(w, g, i)

LEMMA DecodedLater ==
  ASSUME NEW w, Len(w) \in Nat, NEW i \in 1 .. Len(w) + 3, NEW f, NEW g,
         \A a \in i + 1 .. Len(w) + 3 : f[a] = g[a]
  PROVE  DecodedAt(w, f, i) = DecodedAt(w, g, i)
<1>1. CASE i > Len(w)
  BY <1>1 DEF DecodedAt
<1>2. CASE ~(i > Len(w))
  <2>1. i + 1 \in i + 1 .. Len(w) + 3 /\ i + 3 \in i + 1 .. Len(w) + 3
    BY <1>2
  <2>2. f[i + 1] = g[i + 1] /\ f[i + 3] = g[i + 3]
    BY <2>1
  <2>3. QED
    BY <2>2 DEF DecodedAt
<1>3. QED
  BY <1>1, <1>2

LEMMA DecodesMore ==
  ASSUME NEW w, Len(w) \in Nat, NEW k \in Nat, NEW g, DecodesLast(g, w, k)
  PROVE  \E h : DecodesLast(h, w, k + 1)
<1>1. PICK l : l = Len(w) + 3
  OBVIOUS
<1>2. l \in Nat \ {0}
  BY <1>1
<1>3. CASE k >= l
  <2>1. \A i \in 1 .. l : l < i + k
    BY <1>2, <1>3
  <2>2. \A i \in 1 .. l : g[i] = DecodedAt(w, g, i)
    BY <1>1, <2>1 DEF DecodesLast
  <2>3. DecodesLast(g, w, k + 1)
    BY <1>1, <2>2 DEF DecodesLast
  <2>4. QED
    BY <2>3
<1>4. CASE ~(k >= l)
  <2>1. PICK p : p = l - k
    OBVIOUS
  <2>2. p \in 1 .. l
    BY <1>2, <1>4, <2>1
  <2>3. PICK h : h = [i \in 1 .. l |-> IF i = p THEN DecodedAt(w, g, p) ELSE g[i]]
    OBVIOUS
  <2>4. /\ h[p] = DecodedAt(w, g, p) /\ \A i \in 1 .. l : i # p => h[i] = g[i]
        /\ h = [i \in 1 .. l |-> h[i]]
    BY <2>2, <2>3
  <2>5. ASSUME NEW i \in 1 .. l, l < i + (k + 1) PROVE h[i] = DecodedAt(w, h, i)
    <3>1. p <= i
      BY <1>2, <2>1, <2>5
    <3>2. ASSUME NEW a \in i + 1 .. l PROVE g[a] = h[a]
      <4>1. a \in 1 .. l /\ a # p
        BY <1>2, <2>2, <3>1
      <4>2. QED
        BY <2>4, <4>1
    <3>3. DecodedAt(w, g, i) = DecodedAt(w, h, i)
      BY <1>1, <3>2, DecodedLater
    <3>4. CASE i = p
      BY <2>4, <3>3, <3>4
    <3>5. CASE i # p
      <4>1. l < i + k
        BY <1>2, <2>1, <3>1, <3>5
      <4>2. g[i] = DecodedAt(w, g, i)
        BY <1>1, <4>1 DEF DecodesLast
      <4>3. QED
        BY <2>4, <3>3, <3>5, <4>2
    <3>6. QED
      BY <3>4, <3>5
  <2>6. DecodesLast(h, w, k + 1)
    BY <1>1, <2>4, <2>5 DEF DecodesLast
  <2>7. QED
    BY <2>6
<1>5. QED
  BY <1>3, <1>4

Decoding(w) == CHOOSE f : f = [i \in 1 .. Len(w) + 3 |-> DecodedAt(w, f, i)]

LEMMA DecodingIs ==
  ASSUME NEW w, Len(w) \in Nat
  PROVE  /\ DecodeQueryComponent(w) = Decoding(w)[1]
         /\ \A i \in 1 .. Len(w) + 3 : Decoding(w)[i] = DecodedAt(w, Decoding(w), i)
<1> DEFINE P == {k \in Nat : \E g : DecodesLast(g, w, k)}
<1>1. PICK l : l = Len(w) + 3
  OBVIOUS
<1>2. l \in Nat
  BY <1>1
<1>3. 0 \in P
  <2>1. PICK g : g = [i \in 1 .. l |-> 0]
    OBVIOUS
  <2>2. g = [i \in 1 .. l |-> g[i]]
    BY <2>1
  <2>3. \A i \in 1 .. l : ~(l < i + 0)
    BY <1>2
  <2>4. DecodesLast(g, w, 0)
    BY <1>1, <2>2, <2>3 DEF DecodesLast
  <2>5. QED
    BY <2>4
<1>4. ASSUME NEW k \in P PROVE k + 1 \in P
  <2>1. PICK g : DecodesLast(g, w, k)
    OBVIOUS
  <2>2. \E h : DecodesLast(h, w, k + 1)
    BY <2>1, DecodesMore
  <2>3. QED
    BY <2>2
<1>5. P = Nat
  <2>1. P \subseteq Nat
    OBVIOUS
  <2> HIDE DEF P
  <2>2. QED
    BY <1>3, <1>4, <2>1, Induction
<1>6. l \in P
  <2> HIDE DEF P
  <2>1. QED
    BY <1>2, <1>5
<1>7. PICK g : DecodesLast(g, w, l)
  BY <1>6
<1>8. \A i \in 1 .. l : g[i] = DecodedAt(w, g, i)
  BY <1>1, <1>2, <1>7 DEF DecodesLast
<1>9. g = [i \in 1 .. l |-> DecodedAt(w, g, i)]
  BY <1>1, <1>7, <1>8 DEF DecodesLast
<1>10. Decoding(w) = CHOOSE f : f = [i \in 1 .. l |-> DecodedAt(w, f, i)]
  BY <1>1 DEF Decoding
<1>11. PICK f : f = Decoding(w)
  OBVIOUS
<1>12. f = [i \in 1 .. l |-> DecodedAt(w, f, i)]
  BY <1>9, <1>10, <1>11
<1>13. \A i \in 1 .. l : f[i] = DecodedAt(w, f, i)
  BY <1>12, Zenon
<1>14. DecodeQueryComponent(w) = Decoding(w)[1]
  BY DEF DecodeQueryComponent, Decoding, DecodedAt
<1>15. QED
  BY <1>1, <1>11, <1>13, <1>14

(* One piece of the encoding is read as one byte.                          *)
PieceStands(w, c, b, q) ==
  /\ w \in Seq(Octets) /\ c \in Octets /\ b \in Nat /\ q = b + Len(QueryPiece(c))
  /\ q <= Len(w) /\ WordAt(w, b, QueryPiece(c))

LEMMA PieceDecoded ==
  ASSUME NEW w, NEW c, NEW b, NEW q, PieceStands(w, c, b, q)
  PROVE  Decoding(w)[b + 1] = <<c>> \o Decoding(w)[q + 1]
<1>a. /\ w \in Seq(Octets) /\ c \in Octets /\ b \in Nat /\ q = b + Len(QueryPiece(c))
      /\ q <= Len(w) /\ WordAt(w, b, QueryPiece(c))
  BY DEF PieceStands
<1>1. PICK x, f, l : x = QueryPiece(c) /\ f = Decoding(w) /\ l = Len(w)
  OBVIOUS
<1>2. l \in Nat
  BY <1>1, <1>a, LenProperties
<1>3. \/ /\ Len(x) = 1 /\ x[1] # PERCENT /\ c = IF x[1] = PLUS THEN SPACE ELSE x[1]
      \/ /\ Len(x) = 3 /\ x[1] = PERCENT /\ Strtoul2(x[2], x[3]) = c
  BY <1>1, <1>a, PieceIsRead
<1>4. b + 1 \in 1 .. l + 3 /\ ~(b + 1 > l) /\ q = b + Len(x) /\ q <= l
  BY <1>1, <1>2, <1>3, <1>a
<1>5. f[b + 1] = DecodedAt(w, f, b + 1)
  BY <1>1, <1>2, <1>4, <1>a, DecodingIs
<1>6. CASE Len(x) = 1 /\ x[1] # PERCENT /\ c = IF x[1] = PLUS THEN SPACE ELSE x[1]
  <2>1. w[b + 1] = x[1]
    <3>1. 1 \in 1 .. Len(x)
      BY <1>6
    <3>2. QED
      BY <1>1, <1>a, <3>1 DEF WordAt
  <2>2. q + 1 = b + 1 + 1
    BY <1>4, <1>6, <1>a
  <2>3. DecodedAt(w, f, b + 1) = <<IF w[b + 1] = PLUS THEN SPACE ELSE w[b + 1]>> \o f[b + 1 + 1]
    BY <1>1, <1>4, <1>6, <1>a, <2>1 DEF DecodedAt
  <2>4. QED
    BY <1>1, <1>5, <1>6, <2>1, <2>2, <2>3
<1>7. CASE Len(x) = 3 /\ x[1] = PERCENT /\ Strtoul2(x[2], x[3]) = c
  <2>1. w[b + 1] = x[1] /\ w[b + 2] = x[2] /\ w[b + 3] = x[3]
    <3>1. 1 \in 1 .. Len(x) /\ 2 \in 1 .. Len(x) /\ 3 \in 1 .. Len(x)
      BY <1>7
    <3>2. QED
      BY <1>1, <1>a, <3>1 DEF WordAt
  <2>2. q + 1 = b + 1 + 3 /\ b + 1 + 2 <= l /\ b + 1 + 1 = b + 2 /\ b + 1 + 2 = b + 3
    BY <1>2, <1>4, <1>7, <1>a
  <2>3. c # -1
    BY <1>a DEF Octets
  <2>4. Strtoul2(w[b + 1 + 1], w[b + 1 + 2]) = c
    BY <1>7, <2>1, <2>2
  <2>5. DecodedAt(w, f, b + 1) = <<Strtoul2(w[b + 1 + 1], w[b + 1 + 2])>> \o f[b + 1 + 3]
    BY <1>1, <1>4, <1>7, <1>a, <2>1, <2>2, <2>3, <2>4 DEF DecodedAt
  <2>6. QED
    BY <1>1, <1>5, <2>2, <2>4, <2>5
<1>8. QED
  BY <1>3, <1>6, <1>7

(* What is left of a sequence from a place on.                             *)
Joins(U, v, w, k, z) ==
  /\ z \in Seq(U) /\ Len(z) = k + Len(w)
  /\ \A i \in 1 .. k : z[i] = v[i]
  /\ \A i \in 1 .. Len(w) : z[k + i] = w[i]

LEMMA JoinedAt ==
  ASSUME NEW U, NEW v \in Seq(U), NEW w \in Seq(U)
  PROVE  Joins(U, v, w, Len(v), v \o w)
BY ConcatAt DEF Joins

LEMMA OneBefore ==
  ASSUME NEW S, NEW o, NEW x, NEW y, Joins(S, o, x, 1, y)
  PROVE  y \in Seq(S) /\ Len(y) = 1 + Len(x) /\ y[1] = o[1] /\ \A i \in 1 .. Len(x) : y[1 + i] = x[i]
BY DEF Joins

LEMMA OneMoreAhead ==
  ASSUME NEW S, NEW s \in Seq(S), NEW j \in 1 .. Len(s)
  PROVE  SubSeq(s, j, Len(s)) = <<s[j]>> \o SubSeq(s, j + 1, Len(s))
<1>1. PICK n : n = Len(s)
  OBVIOUS
<1>2. n \in Nat /\ j \in 1 .. n
  BY <1>1, LenProperties
<1>3. PICK a, x, y : a = SubSeq(s, j, n) /\ x = SubSeq(s, j + 1, n) /\ y = <<s[j]>> \o x
  OBVIOUS
<1>4. a \in Seq(S) /\ Len(a) = n - j + 1 /\ \A i \in 1 .. n - j + 1 : a[i] = s[j + i - 1]
  BY <1>1, <1>2, <1>3, SubOf
<1>5. x \in Seq(S) /\ Len(x) = n - j /\ \A i \in 1 .. n - j : x[i] = s[j + i]
  <2>1. j + 1 \in Nat \ {0} /\ n \in 0 .. n
    BY <1>2
  <2>2. x \in Seq(S) /\ Len(x) = (IF j + 1 <= n THEN n - (j + 1) + 1 ELSE 0)
        /\ \A i \in 1 .. Len(x) : x[i] = s[j + 1 + i - 1]
    BY <1>1, <1>3, <2>1, SubOf
  <2>3. Len(x) = n - j
    BY <1>2, <2>2
  <2>4. \A i \in 1 .. n - j : j + 1 + i - 1 = j + i
    BY <1>2
  <2>5. QED
    BY <2>2, <2>3, <2>4
<1>6. s[j] \in S
  BY <1>1, <1>2, ElementOfSeq
<1>7. y \in Seq(S) /\ Len(y) = n - j + 1 /\ y[1] = s[j] /\ \A i \in 1 .. n - j : y[1 + i] = x[i]
  <2>1. PICK o : o = <<s[j]>>
    OBVIOUS
  <2>2. o \in Seq(S) /\ Len(o) = 1 /\ o[1] = s[j]
    BY <1>6, <2>1
  <2>3. y = o \o x
    BY <1>3, <2>1
  <2>4. y \in Seq(S) /\ Len(y) = 1 + Len(x) /\ y[1] = o[1] /\ \A i \in 1 .. Len(x) : y[1 + i] = x[i]
    <3>1. o \in Seq(S) /\ x \in Seq(S)
      BY <1>5, <2>2
    <3>2. Joins(S, o, x, Len(o), o \o x)
      BY <3>1, JoinedAt
    <3>3. Joins(S, o, x, 1, y)
      BY <2>2, <2>3, <3>2
    <3>4. QED
      BY <3>3, OneBefore
  <2>5. Len(x) = n - j /\ 1 + (n - j) = n - j + 1
    BY <1>2, <1>5
  <2>6. Len(y) = n - j + 1
    BY <2>4, <2>5
  <2>7. y[1] = s[j]
    BY <2>2, <2>4
  <2>8. \A i \in 1 .. n - j : y[1 + i] = x[i]
    BY <2>4, <2>5
  <2>9. QED
    BY <2>4, <2>6, <2>7, <2>8
<1>8. ASSUME NEW i \in 1 .. n - j + 1 PROVE a[i] = y[i]
  <2>1. CASE i = 1
    <3>1. a[1] = s[j + 1 - 1] /\ j + 1 - 1 = j
      BY <1>2, <1>4, <2>1
    <3>2. QED
      BY <1>7, <2>1, <3>1
  <2>2. CASE i # 1
    <3>1. PICK k : k = i - 1
      OBVIOUS
    <3>2. k \in 1 .. n - j /\ i = 1 + k /\ j + i - 1 = j + k
      BY <1>2, <2>2, <3>1
    <3>3. y[i] = s[j + k]
      BY <1>5, <1>7, <3>2
    <3>4. a[i] = s[j + k]
      BY <1>4, <3>2
    <3>5. QED
      BY <3>3, <3>4
  <2>3. QED
    BY <2>1, <2>2
<1>9. a = y
  BY <1>4, <1>7, <1>8, SeqEqual
<1>10. QED
  BY <1>1, <1>3, <1>9

(* Decoding from the piece of each byte on gives the bytes from there on.  *)
LEMMA PiecesDecoded ==
  ASSUME NEW s \in Seq(Octets), NEW n, n = Len(s), NEW p, NEW t, t = [i \in 1 .. n |-> QueryPiece(s[i])],
         NEW w, PiecesAt(Octets, t, p, w, n), p[0] = 0, n # 0
  PROVE  Decoding(w)[1] = s
<1>1. n \in Nat /\ w \in Seq(Octets) /\ Len(w) \in Nat
  BY LenProperties DEF PiecesAt
<1> DEFINE P == {k \in Nat : k <= n => Decoding(w)[p[n - k] + 1] = SubSeq(s, n - k + 1, n)}
<1>2. 0 \in P
  <2>1. PICK l : l = Len(w)
    OBVIOUS
  <2>2. l + 1 \in 1 .. l + 3 /\ l + 1 > l
    BY <1>1, <2>1
  <2>3. Decoding(w)[l + 1] = <<>>
    BY <1>1, <2>1, <2>2, DecodingIs DEF DecodedAt
  <2>4. SubSeq(s, n + 1, n) = <<>>
    BY <1>1, SubSeqEmpty
  <2>5. p[n] = l
    BY <2>1 DEF PiecesAt
  <2>6. n - 0 = n
    BY <1>1
  <2>7. Decoding(w)[p[n - 0] + 1] = SubSeq(s, n - 0 + 1, n)
    BY <2>3, <2>4, <2>5, <2>6
  <2>8. QED
    BY <2>7
<1>3. ASSUME NEW k \in P PROVE k + 1 \in P
  <2>1. SUFFICES ASSUME k + 1 <= n
                 PROVE  Decoding(w)[p[n - (k + 1)] + 1] = SubSeq(s, n - (k + 1) + 1, n)
    OBVIOUS
  <2>2. PICK j : j = n - k
    OBVIOUS
  <2>3. k \in Nat /\ k <= n /\ j \in 1 .. n /\ n - (k + 1) = j - 1 /\ n - (k + 1) + 1 = j
    BY <1>1, <2>1, <2>2
  <2>4. Decoding(w)[p[j] + 1] = SubSeq(s, j + 1, n)
    BY <2>2, <2>3
  <2>5. PICK c, b, q : c = s[j] /\ b = p[j - 1] /\ q = p[j]
    OBVIOUS
  <2>6. c \in Octets
    <3>1. j \in 1 .. Len(s)
      BY <2>3
    <3>2. QED
      BY <2>5, <3>1, ElementOfSeq
  <2>7. t[j] = QueryPiece(c)
    BY <2>3, <2>5
  <2>8. b \in Nat /\ q = b + Len(QueryPiece(c)) /\ q <= Len(w) /\ WordAt(w, b, QueryPiece(c))
    BY <2>3, <2>5, <2>7 DEF PiecesAt, PieceAt
  <2>9. Decoding(w)[b + 1] = <<c>> \o Decoding(w)[q + 1]
    <3>1. PieceStands(w, c, b, q)
      BY <1>1, <2>6, <2>8 DEF PieceStands
    <3>2. QED
      BY <3>1, PieceDecoded
  <2>10. SubSeq(s, j, n) = <<c>> \o SubSeq(s, j + 1, n)
    BY <2>3, <2>5, OneMoreAhead
  <2>11. Decoding(w)[b + 1] = SubSeq(s, j, n)
    BY <2>4, <2>5, <2>9, <2>10
  <2>12. n - (k + 1) = j - 1 /\ n - (k + 1) + 1 = j
    BY <2>3
  <2>13. QED
    BY <2>5, <2>11, <2>12
<1>4. P = Nat
  <2>1. P \subseteq Nat
    OBVIOUS
  <2> HIDE DEF P
  <2>2. QED
    BY <1>2, <1>3, <2>1, Induction
<1>5. n \in P
  <2> HIDE DEF P
  <2>1. QED
    BY <1>1, <1>4
<1>6. n - n = 0 /\ n <= n
  BY <1>1
<1>7. Decoding(w)[p[0] + 1] = SubSeq(s, 0 + 1, n)
  BY <1>5, <1>6
<1>8. SubSeq(s, 1, n) = s
  BY SubSeqFull
<1>9. QED
  BY <1>7, <1>8

(* Whatever bytes a parameter's name or value is made of, what             *)
(* encode_query_component makes of them decode_query_component takes back: *)
(* no byte is lost, doubled or taken for another's escape.                 *)
THEOREM QueryComponentArrives ==
  \A s \in Seq(0 .. 255) : DecodeQueryComponent(EncodeQueryComponent(s)) = s
<1>1. SUFFICES ASSUME NEW s \in Seq(Octets) PROVE DecodeQueryComponent(EncodeQueryComponent(s)) = s
  BY DEF Octets
<1>2. PICK n, t, w : n = Len(s) /\ t = [i \in 1 .. n |-> QueryPiece(s[i])] /\ w = FlattenSeq(t)
  OBVIOUS
<1>3. n \in Nat /\ DOMAIN s = 1 .. n /\ \A i \in 1 .. n : s[i] \in Octets
  BY <1>2, LenProperties, ElementOfSeq
<1>4. EncodeQueryComponent(s) = w
  BY <1>2, <1>3 DEF EncodeQueryComponent, Mapped, QueryPiece
<1>5. CASE n = 0
  <2>1. s = <<>> /\ t = <<>>
    BY <1>2, <1>3, <1>5
  <2>2. w = <<>>
    BY <1>2, <2>1 DEF FlattenSeq
  <2>3. Len(w) = 0 /\ 1 \in 1 .. 0 + 3 /\ 1 > 0
    BY <2>2
  <2>a. PICK f : f = Decoding(w)
    OBVIOUS
  <2>b. f[1] = DecodedAt(w, f, 1)
    <3>1. Len(w) \in Nat /\ 1 \in 1 .. Len(w) + 3
      BY <2>3
    <3>2. QED
      BY <2>a, <3>1, DecodingIs
  <2>4. Decoding(w)[1] = <<>>
    BY <2>3, <2>a, <2>b DEF DecodedAt
  <2>5. DecodeQueryComponent(w) = <<>>
    BY <2>3, <2>4, DecodingIs
  <2>6. QED
    BY <1>4, <2>1, <2>5
<1>6. CASE n # 0
  <2>1. Len(t) = n /\ \A j \in 1 .. n : t[j] \in Seq(Octets)
    BY <1>2, <1>3, PieceIsRead
  <2>2. PICK p : p[0] = 0 /\ PiecesAt(Octets, t, p, w, n)
    BY <1>2, <1>3, <1>6, <2>1, FlattenedAt
  <2>3. Decoding(w)[1] = s
    BY <1>2, <1>6, <2>2, PiecesDecoded
  <2>4. Len(w) \in Nat
    BY <2>2, LenProperties DEF PiecesAt
  <2>5. DecodeQueryComponent(w) = s
    BY <2>3, <2>4, DecodingIs
  <2>6. QED
    BY <1>4, <2>5
<1>7. QED
  BY <1>5, <1>6

=============================================================================
