----------------------- MODULE ShardedLRUCacheProofs -----------------------
(***************************************************************************)
(* The cache's invariants and what its operations do to the cached values, *)
(* for every set of keys, hash function, number of shards and capacity.    *)
(***************************************************************************)
EXTENDS ShardedLRUCache, SequenceTheorems, TLAPS

LEMMA CapacityPositive == CapPerShard \in Nat /\ CapPerShard >= 1
<1>1. TotalCapacity \div NumShards \in Nat
  BY CacheAssumption
<1>2. QED
  BY <1>1 DEF CapPerShard

LEMMA HomeShard == \A k \in Keys : ShardIndex(k) \in Shards
  BY CacheAssumption DEF ShardIndex, Shards
-----------------------------------------------------------------------------
(* The operators on one shard.                                             *)

LEMMA PositionOf ==
  ASSUME NEW s \in Seq(Entry), NEW k \in Keys, Has(s, k)
  PROVE  /\ Position(s, k) \in 1 .. Len(s)
         /\ s[Position(s, k)].key = k /\ Findable(s, Position(s, k))
  BY DEF Has, Position

LEMMA ConsOf ==
  ASSUME NEW e \in Entry, NEW s \in Seq(Entry)
  PROVE  /\ Cons(e, s) \in Seq(Entry)
         /\ Len(Cons(e, s)) = Len(s) + 1
         /\ Cons(e, s)[1] = e
         /\ \A i \in 2 .. Len(s) + 1 : Cons(e, s)[i] = s[i - 1]
  BY DEF Cons

LEMMA RemoveAtOf ==
  ASSUME NEW S, NEW s \in Seq(S), NEW p \in 1 .. Len(s)
  PROVE  /\ RemoveAt(s, p) \in Seq(S)
         /\ Len(RemoveAt(s, p)) = Len(s) - 1
         /\ \A i \in 1 .. Len(s) - 1 :
              RemoveAt(s, p)[i] = IF i < p THEN s[i] ELSE s[i + 1]
<1> DEFINE l == SubSeq(s, 1, p - 1)
           r == SubSeq(s, p + 1, Len(s))
<1>1. /\ l \in Seq(S) /\ Len(l) = p - 1
      /\ \A i \in 1 .. p - 1 : l[i] = s[i]
  OBVIOUS
<1>2. /\ r \in Seq(S) /\ Len(r) = Len(s) - p
      /\ \A i \in 1 .. Len(s) - p : r[i] = s[p + i]
  OBVIOUS
<1>3. RemoveAt(s, p) = l \o r
  BY DEF RemoveAt
<1> HIDE DEF l, r
<1>4. /\ l \o r \in Seq(S) /\ Len(l \o r) = Len(l) + Len(r)
      /\ \A i \in 1 .. Len(l) + Len(r) :
           (l \o r)[i] = IF i <= Len(l) THEN l[i] ELSE r[i - Len(l)]
  BY <1>1, <1>2, ConcatProperties
<1>5. ASSUME NEW i \in 1 .. Len(s) - 1
      PROVE  (l \o r)[i] = IF i < p THEN s[i] ELSE s[i + 1]
  <2>1. i \in 1 .. Len(l) + Len(r)
    BY <1>1, <1>2
  <2>2. CASE i < p
    <3>1. i <= Len(l) /\ i \in 1 .. p - 1
      BY <1>1, <2>2
    <3>2. QED
      BY <1>1, <1>4, <2>1, <2>2, <3>1
  <2>3. CASE ~(i < p)
    <3>1. ~(i <= Len(l)) /\ i - Len(l) \in 1 .. Len(s) - p /\ p + (i - Len(l)) = i + 1
      BY <1>1, <2>3
    <3>2. QED
      BY <1>2, <1>4, <2>1, <2>3, <3>1
  <2>4. QED
    BY <2>2, <2>3
<1>6. QED
  BY <1>1, <1>2, <1>3, <1>4, <1>5

LEMMA WithoutOf ==
  ASSUME NEW s \in Seq(Entry), NEW k \in Keys, Has(s, k)
  PROVE  /\ Without(s, k) \in Seq(Entry)
         /\ Len(Without(s, k)) = Len(s) - 1
         /\ \A i \in 1 .. Len(s) - 1 :
              Without(s, k)[i] = IF i < Position(s, k) THEN s[i] ELSE s[i + 1]
<1> DEFINE p == Position(s, k)
<1>1. p \in 1 .. Len(s)
  BY PositionOf
<1> HIDE DEF p
<1>2. Without(s, k) = RemoveAt(s, p)
  BY DEF Without, p
<1>3. QED
  BY <1>1, <1>2, RemoveAtOf DEF p

LEMMA FrontOf ==
  ASSUME NEW s \in Seq(Entry), Len(s) > 0
  PROVE  /\ Front(s) \in Seq(Entry)
         /\ Len(Front(s)) = Len(s) - 1
         /\ \A i \in 1 .. Len(s) - 1 : Front(s)[i] = s[i]
<1> DEFINE n == Len(s) - 1
<1>1. n \in Nat /\ \A i \in 1 .. n : s[i] \in Entry
  BY LenProperties
<1> HIDE DEF n
<1>2. SubSeq(s, 1, n) \in Seq(Entry) /\ Len(SubSeq(s, 1, n)) = n
  BY <1>1, SubSeqProperties
<1>3. \A i \in 1 .. n : SubSeq(s, 1, n)[i] = s[i]
  BY <1>1, SubSeqProperties
<1>4. QED
  BY <1>2, <1>3 DEF Front, n
-----------------------------------------------------------------------------
(* What the operators do to the entries of a shard.                        *)

Holds(s, e) == e.val # Absent /\ \E i \in DOMAIN s : s[i] = e
Distinct(s) ==
  \A i, j \in DOMAIN s :
    Findable(s, i) /\ Findable(s, j) /\ s[i].key = s[j].key => i = j

LEMMA WithoutEntries ==
  ASSUME NEW s \in Seq(Entry), NEW k \in Keys, Has(s, k), Distinct(s)
  PROVE  /\ Distinct(Without(s, k))
         /\ \A e : Holds(Without(s, k), e) <=> Holds(s, e) /\ e.key # k
<1> DEFINE p == Position(s, k)
           w == Without(s, k)
           Old(i) == IF i < p THEN i ELSE i + 1
           New(i) == IF i < p THEN i ELSE i - 1
<1>1. /\ p \in 1 .. Len(s) /\ s[p].key = k /\ s[p].val # Absent
      /\ Len(s) \in Nat /\ DOMAIN s = 1 .. Len(s)
  BY PositionOf DEF Findable
<1>2. /\ w \in Seq(Entry) /\ Len(w) = Len(s) - 1
      /\ \A i \in 1 .. Len(s) - 1 : w[i] = IF i < p THEN s[i] ELSE s[i + 1]
  BY WithoutOf
<1>3. DOMAIN w = 1 .. Len(s) - 1
  BY <1>2
<1> HIDE DEF p, w
<1>4. \A i \in DOMAIN w : Old(i) \in DOMAIN s /\ Old(i) # p /\ w[i] = s[Old(i)]
  BY <1>1, <1>2, <1>3
<1>5. \A i, j \in DOMAIN w : Old(i) = Old(j) => i = j
  BY <1>1, <1>3
<1>6. \A i \in DOMAIN s : i # p => New(i) \in DOMAIN w /\ w[New(i)] = s[i]
  BY <1>1, <1>2, <1>3
<1> HIDE DEF Old, New
<1>7. Distinct(w)
  BY <1>4, <1>5 DEF Distinct, Findable
<1>8. \A e : Holds(w, e) => Holds(s, e) /\ e.key # k
  BY <1>1, <1>4 DEF Distinct, Holds, Findable
<1>9. \A e : Holds(s, e) /\ e.key # k => Holds(w, e)
  BY <1>1, <1>6 DEF Holds
<1>10. QED
  BY <1>7, <1>8, <1>9 DEF w

LEMMA ConsEntries ==
  ASSUME NEW e \in Entry, NEW s \in Seq(Entry), Distinct(s), ~Has(s, e.key)
  PROVE  /\ Distinct(Cons(e, s))
         /\ \A f : Holds(Cons(e, s), f) <=> (f = e /\ e.val # Absent) \/ Holds(s, f)
<1> DEFINE c == Cons(e, s)
<1>1. /\ c \in Seq(Entry) /\ Len(c) = Len(s) + 1 /\ c[1] = e
      /\ \A i \in 2 .. Len(s) + 1 : c[i] = s[i - 1]
  BY ConsOf
<1>2. Len(s) \in Nat /\ DOMAIN s = 1 .. Len(s) /\ DOMAIN c = 1 .. Len(s) + 1
  BY <1>1
<1> HIDE DEF c
<1>3. /\ \A i \in DOMAIN c : i = 1 \/ (i - 1 \in DOMAIN s /\ c[i] = s[i - 1])
      /\ \A i \in DOMAIN s : i + 1 \in DOMAIN c /\ c[i + 1] = s[i]
      /\ 1 \in DOMAIN c
  BY <1>1, <1>2
<1>4. \A i \in DOMAIN s : Findable(s, i) => s[i].key # e.key
  BY DEF Has
<1>5. Distinct(c)
  <2>1. SUFFICES ASSUME NEW i \in DOMAIN c, NEW j \in DOMAIN c, c[i].key = c[j].key,
                        c[i].val # Absent, c[j].val # Absent
                 PROVE  i = j
    BY DEF Distinct, Findable
  <2>2. CASE i = 1 \/ j = 1
    BY <1>1, <1>3, <1>4, <2>1, <2>2 DEF Findable
  <2>3. CASE i # 1 /\ j # 1
    <3>1. i - 1 = j - 1
      BY <1>3, <2>1, <2>3 DEF Distinct, Findable
    <3>2. QED
      BY <1>2, <3>1
  <2>4. QED
    BY <2>2, <2>3
<1>6. \A f : Holds(c, f) <=> (f = e /\ e.val # Absent) \/ Holds(s, f)
  BY ZenonT(60), <1>1, <1>3 DEF Holds
<1>7. QED
  BY <1>5, <1>6 DEF c

(* u is s without the index entry of k.                                    *)
IsUnindexed(u, s, k) ==
  /\ u \in Seq(Entry) /\ Len(u) = Len(s) /\ Distinct(u)
  /\ \A i \in DOMAIN s : /\ u[i].key = s[i].key
                         /\ Findable(u, i) <=> Findable(s, i) /\ s[i].key # k
                         /\ s[i].key # k => u[i] = s[i]
  /\ \A e : Holds(u, e) <=> Holds(s, e) /\ e.key # k

LEMMA UnindexedEntries ==
  ASSUME NEW s \in Seq(Entry), Distinct(s), NEW k \in Keys
  PROVE  IsUnindexed(Unindexed(s, k), s, k)
<1> DEFINE u == Unindexed(s, k)
           none == [key |-> k, val |-> Absent]
<1>1. Len(s) \in Nat /\ DOMAIN s = 1 .. Len(s) /\ \A i \in DOMAIN s : s[i] \in Entry
  BY LenProperties
<1>2. none \in Entry /\ none.key = k /\ none.val = Absent
  BY DEF Entry
<1>3. /\ DOMAIN u = 1 .. Len(s)
      /\ \A i \in DOMAIN s : u[i] = IF s[i].key = k THEN none ELSE s[i]
  BY <1>1 DEF Unindexed
<1>4. u = [i \in 1 .. Len(s) |-> IF s[i].key = k THEN none ELSE s[i]]
  BY <1>1 DEF Unindexed
<1> HIDE DEF u, none
<1>5. u \in Seq(Entry) /\ Len(u) = Len(s)
  BY <1>1, <1>2, <1>4
<1>6. ASSUME NEW i \in DOMAIN s
      PROVE  /\ u[i].key = s[i].key
             /\ Findable(u, i) <=> Findable(s, i) /\ s[i].key # k
             /\ s[i].key # k => u[i] = s[i]
  <2>1. CASE s[i].key = k
    <3>1. u[i] = none
      BY <1>3, <2>1
    <3>2. QED
      BY <1>2, <2>1, <3>1 DEF Findable
  <2>2. CASE s[i].key # k
    <3>1. u[i] = s[i]
      BY <1>3, <2>2
    <3>2. QED
      BY <2>2, <3>1 DEF Findable
  <2>3. QED
    BY <2>1, <2>2
<1>7. Distinct(u)
  <2>1. SUFFICES ASSUME NEW i \in DOMAIN u, NEW j \in DOMAIN u, Findable(u, i), Findable(u, j),
                        u[i].key = u[j].key
                 PROVE  i = j
    BY DEF Distinct
  <2>2. /\ i \in DOMAIN s /\ j \in DOMAIN s
    BY <1>1, <1>3
  <2>3. Findable(s, i) /\ Findable(s, j) /\ s[i].key = s[j].key
    BY <1>6, <2>1, <2>2
  <2>4. QED
    BY <2>2, <2>3 DEF Distinct
<1>8. ASSUME NEW e PROVE Holds(u, e) <=> Holds(s, e) /\ e.key # k
  <2>1. DOMAIN u = DOMAIN s
    BY <1>1, <1>3
  <2>2. ASSUME Holds(u, e) PROVE Holds(s, e) /\ e.key # k
    <3>1. PICK i \in DOMAIN s : u[i] = e /\ e.val # Absent
      BY <2>1, <2>2 DEF Holds
    <3>2. s[i].key # k
      BY <1>2, <1>3, <3>1
    <3>3. u[i] = s[i]
      BY <1>6, <3>2
    <3>4. QED
      BY <3>1, <3>2, <3>3 DEF Holds
  <2>3. ASSUME Holds(s, e), e.key # k PROVE Holds(u, e)
    <3>1. PICK i \in DOMAIN s : s[i] = e /\ e.val # Absent
      BY <2>3 DEF Holds
    <3>2. u[i] = s[i]
      BY <1>6, <2>3, <3>1
    <3>3. QED
      BY <2>1, <3>1, <3>2 DEF Holds
  <2>4. QED
    BY <2>2, <2>3
<1>9. \A i \in DOMAIN s : /\ u[i].key = s[i].key
                          /\ Findable(u, i) <=> Findable(s, i) /\ s[i].key # k
                          /\ s[i].key # k => u[i] = s[i]
  BY <1>6
<1>10. \A e : Holds(u, e) <=> Holds(s, e) /\ e.key # k
  BY <1>8
<1>11. IsUnindexed(u, s, k)
  BY Zenon, <1>5, <1>7, <1>9, <1>10 DEF IsUnindexed
<1>12. QED
  BY <1>11 DEF u

(* Eviction un-indexes whatever is found under the last node's key.        *)
LEMMA RoomEntries ==
  ASSUME NEW s \in Seq(Entry), Len(s) > 0, Distinct(s)
  PROVE  LET r == Unindexed(Front(s), Last(s).key) IN
         /\ r \in Seq(Entry) /\ Len(r) = Len(s) - 1 /\ Distinct(r)
         /\ Last(s) = s[Len(s)] /\ Last(s) \in Entry
         /\ \A i \in DOMAIN r : r[i].key = s[i].key
         /\ \A e : Holds(r, e) <=> Holds(s, e) /\ e.key # Last(s).key
<1> DEFINE n == Len(s)
           f == Front(s)
           k == Last(s).key
           r == Unindexed(f, k)
<1>1. n \in Nat /\ n > 0 /\ DOMAIN s = 1 .. n /\ \A i \in 1 .. n : s[i] \in Entry
  BY LenProperties
<1>2. /\ f \in Seq(Entry) /\ Len(f) = n - 1
      /\ \A i \in 1 .. n - 1 : f[i] = s[i]
  BY FrontOf
<1>3. DOMAIN f = 1 .. n - 1
  BY <1>2
<1>4. Last(s) = s[n] /\ s[n] \in Entry /\ k \in Keys
  <2>1. Last(s) = s[n] /\ n \in 1 .. n
    BY <1>1 DEF Last
  <2>2. s[n] \in Entry
    BY <1>1, <2>1
  <2>3. QED
    BY <2>1, <2>2 DEF Entry
<1>5. k = s[n].key
  BY <1>4
<1> HIDE DEF n, f, k
<1>6. /\ n \in DOMAIN s
      /\ \A i \in DOMAIN s : i # n => i \in DOMAIN f
      /\ \A i \in DOMAIN f : i \in DOMAIN s /\ i # n /\ f[i] = s[i]
  BY <1>1, <1>2, <1>3
<1>7. Distinct(f)
  BY <1>6 DEF Distinct, Findable
<1>8. /\ r \in Seq(Entry) /\ Len(r) = Len(f) /\ Distinct(r)
      /\ \A i \in DOMAIN f : r[i].key = f[i].key
      /\ \A e : Holds(r, e) <=> Holds(f, e) /\ e.key # k
  <2>1. IsUnindexed(r, f, k)
    BY <1>2, <1>4, <1>7, UnindexedEntries
  <2> HIDE DEF r
  <2>2. r \in Seq(Entry) /\ Len(r) = Len(f) /\ Distinct(r)
    BY Zenon, <2>1 DEF IsUnindexed
  <2>3. \A i \in DOMAIN f : r[i].key = f[i].key
    BY Zenon, <2>1 DEF IsUnindexed
  <2>4. \A e : Holds(r, e) <=> Holds(f, e) /\ e.key # k
    BY Zenon, <2>1 DEF IsUnindexed
  <2>5. QED
    BY <2>2, <2>3, <2>4
<1> HIDE DEF r
<1>9. DOMAIN r = 1 .. n - 1
  BY <1>2, <1>8
<1>10. \A i \in DOMAIN r : r[i].key = s[i].key
  BY <1>2, <1>3, <1>8, <1>9
<1>11. \A e : Holds(r, e) <=> Holds(s, e) /\ e.key # k
  BY <1>5, <1>6, <1>8 DEF Holds
<1>12. QED
  BY <1>2, <1>4, <1>8, <1>10, <1>11 DEF n, f, k, r

(* A list of distinct keys within the capacity.                            *)
Sound(s) == s \in Seq(Entry) /\ Len(s) <= CapPerShard /\ Distinct(s)

(* Eviction drops one entry at most, and none unless the shard is full.    *)
LEMMA WithRoomOf ==
  ASSUME NEW s, Sound(s)
  PROVE  /\ WithRoom(s) \in Seq(Entry) /\ Len(WithRoom(s)) < CapPerShard
         /\ Distinct(WithRoom(s))
         /\ \A i \in DOMAIN WithRoom(s) : i \in DOMAIN s /\ WithRoom(s)[i].key = s[i].key
         /\ \/ WithRoom(s) = s
            \/ /\ Len(s) >= CapPerShard /\ Len(s) \in DOMAIN s
               /\ \A e : Holds(WithRoom(s), e) <=> Holds(s, e) /\ e.key # s[Len(s)].key
<1>1. s \in Seq(Entry) /\ Len(s) \in Nat /\ Len(s) <= CapPerShard /\ Distinct(s)
  BY LenProperties DEF Sound
<1>2. CASE Len(s) >= CapPerShard
  <2>1. Len(s) > 0
    BY <1>1, <1>2, CapacityPositive
  <2> DEFINE r == WithRoom(s)
  <2>2. r = Unindexed(Front(s), Last(s).key)
    BY <1>2 DEF WithRoom
  <2>3. /\ r \in Seq(Entry) /\ Len(r) = Len(s) - 1 /\ Distinct(r)
        /\ \A i \in DOMAIN r : r[i].key = s[i].key
        /\ \A e : Holds(r, e) <=> Holds(s, e) /\ e.key # s[Len(s)].key
    BY <1>1, <2>1, <2>2, RoomEntries
  <2> HIDE DEF r
  <2>4. DOMAIN r = 1 .. Len(s) - 1 /\ DOMAIN s = 1 .. Len(s)
    BY <1>1, <2>3
  <2>5. Len(s) - 1 < CapPerShard /\ Len(s) \in DOMAIN s /\ \A i \in DOMAIN r : i \in DOMAIN s
    BY <1>1, <2>1, <2>4, CapacityPositive
  <2>6. QED
    BY <1>2, <2>3, <2>5 DEF r
<1>3. CASE ~(Len(s) >= CapPerShard)
  BY <1>1, <1>3, CapacityPositive DEF WithRoom
<1>4. QED
  BY <1>2, <1>3

(* Every node of the list belongs into shard h.                            *)
Homed(s, h) == \A i \in DOMAIN s : ShardIndex(s[i].key) = h

LEMMA WithoutHomed ==
  ASSUME NEW s \in Seq(Entry), NEW k \in Keys, Has(s, k), NEW h, Homed(s, h)
  PROVE  Homed(Without(s, k), h)
<1> DEFINE w == Without(s, k)
           p == Position(s, k)
<1>1. /\ w \in Seq(Entry) /\ Len(w) = Len(s) - 1
      /\ \A i \in 1 .. Len(s) - 1 : w[i] = IF i < p THEN s[i] ELSE s[i + 1]
  BY WithoutOf
<1>2. p \in 1 .. Len(s) /\ Len(s) \in Nat /\ DOMAIN s = 1 .. Len(s)
  BY PositionOf, LenProperties
<1> HIDE DEF w, p
<1>3. DOMAIN w = 1 .. Len(s) - 1
  BY <1>1
<1>4. ASSUME NEW i \in DOMAIN w PROVE \E j \in DOMAIN s : w[i] = s[j]
  <2>1. i \in DOMAIN s /\ i + 1 \in DOMAIN s /\ (w[i] = s[i] \/ w[i] = s[i + 1])
    BY <1>1, <1>2, <1>3
  <2>2. QED
    BY <2>1
<1>5. QED
  BY <1>4 DEF Homed, w

LEMMA ConsHomed ==
  ASSUME NEW s \in Seq(Entry), NEW e \in Entry, NEW h, Homed(s, h), ShardIndex(e.key) = h
  PROVE  Homed(Cons(e, s), h)
<1> DEFINE c == Cons(e, s)
<1>1. /\ c \in Seq(Entry) /\ Len(c) = Len(s) + 1 /\ c[1] = e
      /\ \A i \in 2 .. Len(s) + 1 : c[i] = s[i - 1]
  BY ConsOf
<1>2. Len(s) \in Nat /\ DOMAIN s = 1 .. Len(s) /\ DOMAIN c = 1 .. Len(s) + 1
  BY <1>1
<1> HIDE DEF c
<1>3. \A i \in DOMAIN c : c[i] = e \/ \E j \in DOMAIN s : c[i] = s[j]
  BY <1>1, <1>2
<1>4. QED
  BY <1>3 DEF Homed, c

(* put leaves the new pair and the others, all but one at most; that one   *)
(* is lost only for a key that was not there.                              *)
LEMMA StoredSound ==
  ASSUME NEW s, Sound(s), NEW k \in Keys, NEW v \in Values
  PROVE  /\ Sound(Stored(s, k, v))
         /\ \A h : Homed(s, h) /\ ShardIndex(k) = h => Homed(Stored(s, k, v), h)
         /\ \/ \A e : Holds(Stored(s, k, v), e)
                        <=> e = [key |-> k, val |-> v] \/ (Holds(s, e) /\ e.key # k)
            \/ /\ ~Has(s, k)
               /\ \E lost \in DOMAIN s :
                    \A e : Holds(Stored(s, k, v), e)
                              <=> \/ e = [key |-> k, val |-> v]
                                  \/ Holds(s, e) /\ e.key # s[lost].key
<1> DEFINE e0 == [key |-> k, val |-> v]
<1>1. e0 \in Entry /\ e0.key = k /\ e0.val # Absent
  BY CacheAssumption DEF Entry
<1> HIDE DEF e0
<1>2. CASE Has(s, k)
  <2> DEFINE w == Without(s, k)
  <2>1. /\ w \in Seq(Entry) /\ Len(w) = Len(s) - 1 /\ Distinct(w)
        /\ \A e : Holds(w, e) <=> Holds(s, e) /\ e.key # k
    BY <1>2, WithoutOf, WithoutEntries DEF Sound
  <2>2. Stored(s, k, v) = Cons(e0, w)
    BY <1>2 DEF Stored, e0
  <2> HIDE DEF w
  <2>3. ~Has(w, k)
    BY <2>1 DEF Holds, Has, Findable
  <2>4. Cons(e0, w) \in Seq(Entry) /\ Len(Cons(e0, w)) = Len(w) + 1
    BY <1>1, <2>1, ConsOf
  <2>5. /\ Distinct(Cons(e0, w))
        /\ \A e : Holds(Cons(e0, w), e) <=> e = e0 \/ Holds(w, e)
    BY <1>1, <2>1, <2>3, ConsEntries
  <2>6. Len(Cons(e0, w)) = Len(s)
    BY <2>1, <2>4, LenProperties DEF Sound
  <2>7. \A h : Homed(s, h) /\ ShardIndex(k) = h => Homed(Cons(e0, w), h)
    BY <1>1, <1>2, <2>1, WithoutHomed, ConsHomed DEF w, Sound
  <2>8. QED
    BY <1>1, <2>1, <2>2, <2>4, <2>5, <2>6, <2>7 DEF Sound, e0
<1>3. CASE ~Has(s, k)
  <2> DEFINE w == WithRoom(s)
  <2>1. /\ w \in Seq(Entry) /\ Len(w) < CapPerShard /\ Distinct(w)
        /\ \A i \in DOMAIN w : i \in DOMAIN s /\ w[i].key = s[i].key
        /\ \/ w = s
           \/ \E lost \in DOMAIN s :
                \A e : Holds(w, e) <=> Holds(s, e) /\ e.key # s[lost].key
    BY WithRoomOf
  <2>2. Stored(s, k, v) = Cons(e0, w)
    BY <1>3 DEF Stored, e0
  <2> HIDE DEF w
  <2>3. \A e : Holds(s, e) => e.key # k
    BY <1>3 DEF Holds, Has, Findable
  <2>4. ~Has(w, k)
    BY <2>1, <2>3 DEF Holds, Has, Findable
  <2>5. Cons(e0, w) \in Seq(Entry) /\ Len(Cons(e0, w)) = Len(w) + 1
    BY <1>1, <2>1, ConsOf
  <2>6. /\ Distinct(Cons(e0, w))
        /\ \A e : Holds(Cons(e0, w), e) <=> e = e0 \/ Holds(w, e)
    BY <1>1, <2>1, <2>4, ConsEntries
  <2>7. Len(w) + 1 <= CapPerShard
    BY <2>1, CapacityPositive, LenProperties
  <2>8. Sound(Cons(e0, w))
    BY <2>5, <2>6, <2>7 DEF Sound
  <2>9. \A h : Homed(s, h) /\ ShardIndex(k) = h => Homed(Cons(e0, w), h)
    <3>1. \A h : Homed(s, h) => Homed(w, h)
      BY <2>1 DEF Homed
    <3>2. QED
      BY <1>1, <2>1, <3>1, ConsHomed
  <2>10. CASE w = s
    BY <1>1, <2>2, <2>3, <2>6, <2>8, <2>9, <2>10 DEF e0
  <2>11. CASE \E lost \in DOMAIN s :
                \A e : Holds(w, e) <=> Holds(s, e) /\ e.key # s[lost].key
    <3>1. PICK lost \in DOMAIN s :
                 \A e : Holds(w, e) <=> Holds(s, e) /\ e.key # s[lost].key
      BY <2>11
    <3>2. \A e : Holds(Cons(e0, w), e) <=> e = e0 \/ (Holds(s, e) /\ e.key # s[lost].key)
      BY <1>1, <2>6, <3>1
    <3>3. QED
      BY <1>3, <2>2, <2>8, <2>9, <3>1, <3>2 DEF e0
  <2>12. QED
    BY <2>1, <2>10, <2>11
<1>4. QED
  BY <1>2, <1>3

(* A put that fails loses one key at most, and stores nothing.             *)
LEMMA FailedSound ==
  ASSUME NEW s, Sound(s), NEW k \in Keys, NEW u \in StoreFailures(s, k)
  PROVE  /\ Sound(u)
         /\ \A h : Homed(s, h) /\ ShardIndex(k) = h => Homed(u, h)
         /\ \/ \A e : Holds(u, e) <=> Holds(s, e)
            \/ /\ ~Has(s, k)
               /\ \E lost \in DOMAIN s :
                    \A e : Holds(u, e) <=> Holds(s, e) /\ e.key # s[lost].key
<1> DEFINE e0 == [key |-> k, val |-> Absent]
           w == WithRoom(s)
<1>1. e0 \in Entry /\ e0.key = k /\ e0.val = Absent
  BY DEF Entry
<1>2. CASE u = s
  BY <1>2
<1>3. CASE ~Has(s, k) /\ u \in {w, Cons(e0, w)}
  <2>1. /\ w \in Seq(Entry) /\ Len(w) < CapPerShard /\ Distinct(w)
        /\ \A i \in DOMAIN w : i \in DOMAIN s /\ w[i].key = s[i].key
        /\ \/ w = s
           \/ \E lost \in DOMAIN s :
                \A e : Holds(w, e) <=> Holds(s, e) /\ e.key # s[lost].key
    BY WithRoomOf
  <2> HIDE DEF w, e0
  <2>2. \A e : Holds(s, e) => e.key # k
    BY <1>3 DEF Holds, Has, Findable
  <2>3. ~Has(w, k)
    BY <2>1, <2>2 DEF Holds, Has, Findable
  <2>4. Cons(e0, w) \in Seq(Entry) /\ Len(Cons(e0, w)) = Len(w) + 1
    BY <1>1, <2>1, ConsOf
  <2>5. /\ Distinct(Cons(e0, w))
        /\ \A e : Holds(Cons(e0, w), e) <=> Holds(w, e)
    BY <1>1, <2>1, <2>3, ConsEntries
  <2>6. Len(w) \in Nat /\ Len(w) <= CapPerShard /\ Len(w) + 1 <= CapPerShard
    BY <2>1, CapacityPositive, LenProperties
  <2>7. Sound(u) /\ \A e : Holds(u, e) <=> Holds(w, e)
    BY <1>3, <2>1, <2>4, <2>5, <2>6 DEF Sound
  <2>8. \A h : Homed(s, h) /\ ShardIndex(k) = h => Homed(u, h)
    <3>1. \A h : Homed(s, h) => Homed(w, h)
      BY <2>1 DEF Homed
    <3>2. QED
      BY <1>1, <1>3, <2>1, <3>1, ConsHomed
  <2>9. QED
    BY <1>3, <2>1, <2>7, <2>8
<1>4. QED
  BY <1>2, <1>3 DEF StoreFailures

(* get moves an entry and changes none.                                    *)
LEMMA PromotedSound ==
  ASSUME NEW s, Sound(s), NEW k \in Keys, Has(s, k)
  PROVE  /\ Sound(Promoted(s, k))
         /\ \A h : Homed(s, h) => Homed(Promoted(s, k), h)
         /\ \A e : Holds(Promoted(s, k), e) <=> Holds(s, e)
<1> DEFINE w == Without(s, k)
           p == Position(s, k)
           e0 == s[p]
<1>1. p \in DOMAIN s /\ e0 \in Entry /\ e0.key = k /\ Holds(s, e0) /\ e0.val # Absent
  BY PositionOf, LenProperties DEF Sound, Holds, Findable
<1>2. /\ w \in Seq(Entry) /\ Len(w) = Len(s) - 1 /\ Distinct(w)
      /\ \A e : Holds(w, e) <=> Holds(s, e) /\ e.key # k
  BY WithoutOf, WithoutEntries DEF Sound
<1>3. Promoted(s, k) = Cons(e0, w)
  BY DEF Promoted
<1> HIDE DEF w, p
<1>4. ~Has(w, k) /\ \A e : Holds(s, e) /\ e.key = k => e = e0
  BY <1>1, <1>2 DEF Holds, Has, Sound, Distinct, Findable
<1>10. ASSUME NEW h, Homed(s, h) PROVE Homed(Cons(e0, w), h)
  BY <1>1, <1>2, <1>10, WithoutHomed, ConsHomed DEF w, Sound, Homed
<1> HIDE DEF e0
<1>5. Cons(e0, w) \in Seq(Entry) /\ Len(Cons(e0, w)) = Len(w) + 1
  BY <1>1, <1>2, ConsOf
<1>6. /\ Distinct(Cons(e0, w))
      /\ \A e : Holds(Cons(e0, w), e) <=> e = e0 \/ Holds(w, e)
  BY <1>1, <1>2, <1>4, ConsEntries
<1>7. Len(Cons(e0, w)) = Len(s)
  BY <1>2, <1>5, LenProperties DEF Sound
<1>8. \A e : Holds(Cons(e0, w), e) <=> Holds(s, e)
  BY <1>1, <1>2, <1>4, <1>6
<1>9. Sound(Cons(e0, w))
  BY <1>5, <1>6, <1>7 DEF Sound
<1>11. QED
  BY <1>3, <1>8, <1>9, <1>10

(* remove drops the key's entry, if there is one, and no other.            *)
LEMMA RemovedSound ==
  ASSUME NEW s, Sound(s), NEW k \in Keys
  PROVE  /\ Sound(Removed(s, k))
         /\ \A h : Homed(s, h) => Homed(Removed(s, k), h)
         /\ \A e : Holds(Removed(s, k), e) <=> Holds(s, e) /\ e.key # k
<1>1. CASE Has(s, k)
  <2>1. /\ Without(s, k) \in Seq(Entry) /\ Len(Without(s, k)) = Len(s) - 1
        /\ Distinct(Without(s, k))
        /\ \A e : Holds(Without(s, k), e) <=> Holds(s, e) /\ e.key # k
    BY <1>1, WithoutOf, WithoutEntries DEF Sound
  <2>2. Len(s) - 1 <= CapPerShard
    BY CapacityPositive, LenProperties DEF Sound
  <2>3. \A h : Homed(s, h) => Homed(Without(s, k), h)
    BY <1>1, WithoutHomed DEF Sound
  <2>4. QED
    BY <1>1, <2>1, <2>2, <2>3 DEF Removed, Sound
<1>2. CASE ~Has(s, k)
  BY <1>2 DEF Removed, Holds, Has, Findable
<1>3. QED
  BY <1>1, <1>2
-----------------------------------------------------------------------------
(* What a shard answers, in terms of the entries it holds.                 *)

LEMMA AnswerHeld ==
  ASSUME NEW s, Sound(s), NEW k \in Keys
  PROVE  /\ Has(s, k) => /\ ValueIn(s, k) \in Values
                         /\ Holds(s, [key |-> k, val |-> ValueIn(s, k)])
         /\ \A v : Holds(s, [key |-> k, val |-> v]) => Has(s, k) /\ ValueIn(s, k) = v
<1> DEFINE p == Position(s, k)
<1>1. s \in Seq(Entry) /\ DOMAIN s = 1 .. Len(s) /\ Distinct(s)
  BY DEF Sound
<1>2. ASSUME Has(s, k)
      PROVE  p \in DOMAIN s /\ s[p].key = k /\ s[p] \in Entry /\ Findable(s, p)
  BY <1>1, <1>2, PositionOf
<1>3. ASSUME Has(s, k)
      PROVE  s[p].val \in Values /\ s[p] = [key |-> k, val |-> s[p].val]
  BY <1>2, <1>3 DEF Entry, Findable
<1>4. ASSUME NEW v, Holds(s, [key |-> k, val |-> v])
      PROVE  Has(s, k) /\ s[p].val = v
  <2>1. PICK i \in DOMAIN s : s[i] = [key |-> k, val |-> v] /\ Findable(s, i)
    BY <1>4 DEF Holds, Findable
  <2>2. Has(s, k)
    BY <2>1 DEF Has
  <2>3. i = p
    BY <1>1, <1>2, <2>1, <2>2 DEF Distinct
  <2>4. QED
    BY <2>1, <2>2, <2>3
<1>5. ASSUME Has(s, k) PROVE Holds(s, [key |-> k, val |-> s[p].val])
  BY <1>2, <1>3, <1>5 DEF Holds, Findable
<1>6. QED
  BY <1>3, <1>4, <1>5 DEF ValueIn

(* Two shards that hold the same entries of a key answer it alike.         *)
LEMMA AnswerKept ==
  ASSUME NEW s, Sound(s), NEW u, Sound(u), NEW k \in Keys,
         \A v : Holds(u, [key |-> k, val |-> v]) <=> Holds(s, [key |-> k, val |-> v])
  PROVE  /\ Has(u, k) <=> Has(s, k)
         /\ Has(s, k) => ValueIn(u, k) = ValueIn(s, k)
  BY AnswerHeld
-----------------------------------------------------------------------------
(* The whole cache.                                                        *)

CacheInv == CacheTypeOK /\ ShardsWellFormed

LEMMA ShardSound ==
  ASSUME CacheInv, NEW h \in Shards
  PROVE  /\ Sound(shards[h]) /\ Homed(shards[h], h)
         /\ \A e : Holds(shards[h], e) => e \in Entry /\ ShardIndex(e.key) = h
<1>1. shards[h] \in Seq(Entry)
  BY DEF CacheInv, CacheTypeOK
<1>2. Sound(shards[h]) /\ Homed(shards[h], h)
  BY <1>1 DEF CacheInv, ShardsWellFormed, Sound, Distinct, Homed
<1>3. QED
  BY <1>1, <1>2 DEF Homed, Holds

(* An operation replaces the home shard of its key by a sound one whose    *)
(* nodes belong there.                                                     *)
LEMMA ShardReplaced ==
  ASSUME CacheInv, NEW h \in Shards, NEW s, Sound(s), Homed(s, h),
         shards' = [shards EXCEPT ![h] = s]
  PROVE  CacheInv' /\ shards'[h] = s /\ \A g \in Shards \ {h} : shards'[g] = shards[g]
<1>1. /\ shards' \in [Shards -> Seq(Entry)] /\ shards'[h] = s
      /\ \A g \in Shards \ {h} : shards'[g] = shards[g]
  BY DEF CacheInv, CacheTypeOK, Sound
<1>2. ASSUME NEW g \in Shards
      PROVE  /\ Len(shards'[g]) <= CapPerShard
             /\ Homed(shards'[g], g)
             /\ Distinct(shards'[g])
  <2>1. CASE g = h
    BY <1>1, <2>1 DEF Sound
  <2>2. CASE g # h
    BY <1>1, <2>2, ShardSound DEF Sound
  <2>3. QED
    BY <2>1, <2>2
<1>3. QED
  BY <1>1, <1>2 DEF CacheInv, CacheTypeOK, ShardsWellFormed, Homed, Distinct

(* The answer for key k is the same before and after a step.               *)
Same(k) ==
  /\ Cached(k)' <=> Cached(k)
  /\ Cached(k) => CachedValue(k)' = CachedValue(k)

LEMMA OtherShardSame ==
  ASSUME NEW k \in Keys, shards'[ShardIndex(k)] = shards[ShardIndex(k)]
  PROVE  Same(k)
  BY DEF Same, Cached, CachedValue

LEMMA HomeShardSame ==
  ASSUME CacheInv, NEW k \in Keys, Sound(shards'[ShardIndex(k)]),
         \A v : Holds(shards'[ShardIndex(k)], [key |-> k, val |-> v])
                  <=> Holds(shards[ShardIndex(k)], [key |-> k, val |-> v])
  PROVE  Same(k)
<1>1. Sound(shards[ShardIndex(k)])
  BY ShardSound, HomeShard
<1>2. QED
  BY <1>1, AnswerKept DEF Same, Cached, CachedValue

(* A lookup changes no answer.                                             *)
LEMMA GetStep ==
  ASSUME CacheInv, NEW k \in Keys, CacheGet(k)
  PROVE  CacheInv' /\ \A j \in Keys : Same(j)
<1> DEFINE h == ShardIndex(k)
           s == Promoted(shards[h], k)
<1>1. CASE Cached(k) /\ shards' = [shards EXCEPT ![h] = s]
  <2>1. h \in Shards /\ Sound(shards[h]) /\ Homed(shards[h], h)
    BY HomeShard, ShardSound
  <2>2. Sound(s) /\ Homed(s, h) /\ \A e : Holds(s, e) <=> Holds(shards[h], e)
    BY <1>1, <2>1, PromotedSound DEF Cached
  <2> HIDE DEF s, h
  <2>3. CacheInv' /\ shards'[h] = s /\ \A g \in Shards \ {h} : shards'[g] = shards[g]
    BY <1>1, <2>1, <2>2, ShardReplaced
  <2>4. ASSUME NEW j \in Keys PROVE Same(j)
    <3>1. CASE ShardIndex(j) = h
      BY <2>2, <2>3, <3>1, HomeShardSame
    <3>2. CASE ShardIndex(j) # h
      BY <2>3, <3>2, HomeShard, OtherShardSame
    <3>3. QED
      BY <3>1, <3>2
  <2>5. QED
    BY <2>3, <2>4
<1>2. CASE UNCHANGED shards
  BY <1>2 DEF CacheInv, CacheTypeOK, ShardsWellFormed, Same, Cached, CachedValue
<1>3. QED
  BY <1>1, <1>2 DEF CacheGet

(* A put is visible at once; every other answer stays, except that a key   *)
(* that was not cached may cost one other key its entry.                   *)
LEMMA PutStep ==
  ASSUME CacheInv, NEW k \in Keys, NEW v \in Values, CachePut(k, v)
  PROVE  /\ CacheInv'
         /\ Cached(k)' /\ CachedValue(k)' = v
         /\ \/ \A j \in Keys \ {k} : Same(j)
            \/ /\ ~Cached(k)
               /\ \E lost \in Keys \ {k} :
                    ~Cached(lost)' /\ \A j \in Keys \ {k, lost} : Same(j)
<1> DEFINE h == ShardIndex(k)
           s == Stored(shards[h], k, v)
           e0 == [key |-> k, val |-> v]
<1>1. h \in Shards /\ Sound(shards[h]) /\ Homed(shards[h], h)
  BY HomeShard, ShardSound
<1>2. /\ Sound(s) /\ Homed(s, h)
      /\ \/ \A e : Holds(s, e) <=> e = e0 \/ (Holds(shards[h], e) /\ e.key # k)
         \/ /\ ~Has(shards[h], k)
            /\ \E lost \in DOMAIN shards[h] :
                 \A e : Holds(s, e) <=>
                          e = e0 \/ (Holds(shards[h], e) /\ e.key # shards[h][lost].key)
  BY <1>1, StoredSound
<1>3. shards' = [shards EXCEPT ![h] = s]
  BY DEF CachePut
<1>4. Cached(k) <=> Has(shards[h], k)
  BY DEF Cached
<1>5. e0.key = k /\ ShardIndex(e0.key) = h
  OBVIOUS
<1> HIDE DEF s
<1>7. CacheInv' /\ shards'[h] = s /\ \A g \in Shards \ {h} : shards'[g] = shards[g]
  BY <1>1, <1>2, <1>3, ShardReplaced
<1>8. Cached(k)' /\ CachedValue(k)' = v
  <2>1. Holds(s, e0)
    BY <1>2
  <2>2. Has(s, k) /\ ValueIn(s, k) = v
    BY <1>2, <2>1, AnswerHeld
  <2>3. QED
    BY <1>7, <2>2 DEF Cached, CachedValue
<1>9. ASSUME NEW j \in Keys,
             \A w : ShardIndex(j) = h =>
                      (Holds(s, [key |-> j, val |-> w])
                         <=> Holds(shards[h], [key |-> j, val |-> w]))
      PROVE  Same(j)
  <2>1. CASE ShardIndex(j) = h
    BY <1>2, <1>7, <1>9, <2>1, HomeShardSame
  <2>2. CASE ShardIndex(j) # h
    BY <1>7, <2>2, HomeShard, OtherShardSame
  <2>3. QED
    BY <2>1, <2>2
<1>10. CASE \A e : Holds(s, e) <=> e = e0 \/ (Holds(shards[h], e) /\ e.key # k)
  <2>1. ASSUME NEW j \in Keys \ {k} PROVE Same(j)
    BY <1>5, <1>9, <1>10
  <2>2. QED
    BY <1>7, <1>8, <2>1
<1>11. CASE /\ ~Has(shards[h], k)
            /\ \E lost \in DOMAIN shards[h] :
                 \A e : Holds(s, e) <=>
                          e = e0 \/ (Holds(shards[h], e) /\ e.key # shards[h][lost].key)
  <2>1. PICK i \in DOMAIN shards[h] :
               \A e : Holds(s, e) <=>
                        e = e0 \/ (Holds(shards[h], e) /\ e.key # shards[h][i].key)
    BY <1>11
  <2>2. PICK lost \in Keys : lost = shards[h][i].key /\ ShardIndex(lost) = h
    <3>1. shards[h][i] \in Entry
      BY <1>1, LenProperties DEF Sound
    <3>2. QED
      BY <1>1, <3>1 DEF Homed, Entry
  <2>3. \A e : Holds(s, e) <=> e = e0 \/ (Holds(shards[h], e) /\ e.key # lost)
    BY <2>1, <2>2
  <2>4. CASE lost = k
    <3>1. \A e : Holds(s, e) <=> e = e0 \/ (Holds(shards[h], e) /\ e.key # k)
      BY <2>3, <2>4
    <3>2. ASSUME NEW j \in Keys \ {k} PROVE Same(j)
      BY <1>5, <1>9, <3>1
    <3>3. QED
      BY <1>7, <1>8, <3>2
  <2>5. CASE lost # k
    <3>1. ~Cached(lost)'
      <4>1. SUFFICES ASSUME Has(s, lost) PROVE FALSE
        BY <1>7, <2>2 DEF Cached
      <4>2. PICK e : e.key = lost /\ Holds(s, e)
        <5>1. Holds(s, [key |-> lost, val |-> ValueIn(s, lost)])
          BY <1>2, <2>2, <4>1, AnswerHeld
        <5>2. QED
          BY <5>1
      <4>3. QED
        BY <1>5, <2>3, <2>5, <4>2
    <3>2. ASSUME NEW j \in Keys \ {k, lost} PROVE Same(j)
      <4>1. ASSUME NEW x
            PROVE  Holds(s, [key |-> j, val |-> x])
                     <=> Holds(shards[h], [key |-> j, val |-> x])
        <5> DEFINE e == [key |-> j, val |-> x]
        <5>1. e.key = j /\ e # e0
          BY <1>5
        <5> HIDE DEF e, e0
        <5>2. Holds(s, e) <=> Holds(shards[h], e)
          BY <2>3, <5>1
        <5>3. QED
          BY <5>2 DEF e
      <4>2. QED
        BY <1>9, <4>1
    <3>3. QED
      BY <1>4, <1>7, <1>8, <1>11, <2>2, <2>5, <3>1, <3>2
  <2>6. QED
    BY <2>4, <2>5
<1>12. QED
  BY <1>2, <1>10, <1>11

(* A put that throws changes no answer, except that a key that was not     *)
(* cached may cost one other key its entry.                                *)
LEMMA PutFailsStep ==
  ASSUME CacheInv, NEW k \in Keys, CachePutFails(k)
  PROVE  /\ CacheInv'
         /\ \/ \A j \in Keys : Same(j)
            \/ /\ ~Cached(k)
               /\ \E lost \in Keys \ {k} :
                    ~Cached(lost)' /\ \A j \in Keys \ {lost} : Same(j)
<1> DEFINE h == ShardIndex(k)
<1>1. h \in Shards /\ Sound(shards[h]) /\ Homed(shards[h], h)
  BY HomeShard, ShardSound
<1>2. PICK s \in StoreFailures(shards[h], k) : shards' = [shards EXCEPT ![h] = s]
  BY DEF CachePutFails
<1>3. /\ Sound(s) /\ Homed(s, h)
      /\ \/ \A e : Holds(s, e) <=> Holds(shards[h], e)
         \/ /\ ~Has(shards[h], k)
            /\ \E lost \in DOMAIN shards[h] :
                 \A e : Holds(s, e) <=> Holds(shards[h], e) /\ e.key # shards[h][lost].key
  BY <1>1, FailedSound
<1>4. CacheInv' /\ shards'[h] = s /\ \A g \in Shards \ {h} : shards'[g] = shards[g]
  BY <1>1, <1>2, <1>3, ShardReplaced
<1>5. Cached(k) <=> Has(shards[h], k)
  BY DEF Cached
<1>6. ASSUME NEW j \in Keys,
             \A w : ShardIndex(j) = h =>
                      (Holds(s, [key |-> j, val |-> w])
                         <=> Holds(shards[h], [key |-> j, val |-> w]))
      PROVE  Same(j)
  <2>1. CASE ShardIndex(j) = h
    BY <1>3, <1>4, <1>6, <2>1, HomeShardSame
  <2>2. CASE ShardIndex(j) # h
    BY <1>4, <2>2, HomeShard, OtherShardSame
  <2>3. QED
    BY <2>1, <2>2
<1>7. CASE \A e : Holds(s, e) <=> Holds(shards[h], e)
  <2>1. ASSUME NEW j \in Keys PROVE Same(j)
    BY <1>6, <1>7
  <2>2. QED
    BY <1>4, <2>1
<1>8. CASE /\ ~Has(shards[h], k)
           /\ \E lost \in DOMAIN shards[h] :
                \A e : Holds(s, e) <=> Holds(shards[h], e) /\ e.key # shards[h][lost].key
  <2>1. PICK i \in DOMAIN shards[h] :
               \A e : Holds(s, e) <=> Holds(shards[h], e) /\ e.key # shards[h][i].key
    BY <1>8
  <2>2. PICK lost \in Keys : lost = shards[h][i].key /\ ShardIndex(lost) = h
    <3>1. shards[h][i] \in Entry
      BY <1>1, LenProperties DEF Sound
    <3>2. QED
      BY <1>1, <3>1 DEF Homed, Entry
  <2>3. \A e : Holds(s, e) <=> Holds(shards[h], e) /\ e.key # lost
    BY <2>1, <2>2
  <2>4. CASE lost = k
    <3>1. \A e : Holds(shards[h], e) => e.key # k
      BY <1>8 DEF Has, Holds, Findable
    <3>2. ASSUME NEW j \in Keys PROVE Same(j)
      BY <1>6, <2>3, <2>4, <3>1
    <3>3. QED
      BY <1>4, <3>2
  <2>5. CASE lost # k
    <3>1. ~Cached(lost)'
      <4>1. SUFFICES ASSUME Has(s, lost) PROVE FALSE
        BY <1>4, <2>2 DEF Cached
      <4>2. PICK e : e.key = lost /\ Holds(s, e)
        <5>1. Holds(s, [key |-> lost, val |-> ValueIn(s, lost)])
          BY <1>3, <2>2, <4>1, AnswerHeld
        <5>2. QED
          BY <5>1
      <4>3. QED
        BY <2>3, <4>2
    <3>2. ASSUME NEW j \in Keys \ {lost} PROVE Same(j)
      <4>1. ASSUME NEW x
            PROVE  Holds(s, [key |-> j, val |-> x])
                     <=> Holds(shards[h], [key |-> j, val |-> x])
        <5> DEFINE e == [key |-> j, val |-> x]
        <5>1. e.key = j
          OBVIOUS
        <5> HIDE DEF e
        <5>2. Holds(s, e) <=> Holds(shards[h], e)
          BY <2>3, <5>1
        <5>3. QED
          BY <5>2 DEF e
      <4>2. QED
        BY <1>6, <4>1
    <3>3. QED
      BY <1>4, <1>5, <1>8, <2>2, <2>5, <3>1, <3>2
  <2>6. QED
    BY <2>4, <2>5
<1>9. QED
  BY <1>3, <1>7, <1>8

(* A removed key is gone and no other answer changes.                      *)
LEMMA RemoveStep ==
  ASSUME CacheInv, NEW k \in Keys, CacheRemove(k)
  PROVE  CacheInv' /\ ~Cached(k)' /\ \A j \in Keys \ {k} : Same(j)
<1> DEFINE h == ShardIndex(k)
           s == Removed(shards[h], k)
<1>1. h \in Shards /\ Sound(shards[h]) /\ Homed(shards[h], h)
  BY HomeShard, ShardSound
<1>2. Sound(s) /\ Homed(s, h) /\ \A e : Holds(s, e) <=> Holds(shards[h], e) /\ e.key # k
  BY <1>1, RemovedSound
<1>3. shards' = [shards EXCEPT ![h] = s]
  BY DEF CacheRemove
<1> HIDE DEF s
<1>4. CacheInv' /\ shards'[h] = s /\ \A g \in Shards \ {h} : shards'[g] = shards[g]
  BY <1>1, <1>2, <1>3, ShardReplaced
<1>5. ~Cached(k)'
  <2>1. SUFFICES ASSUME Has(s, k) PROVE FALSE
    BY <1>4 DEF Cached
  <2>2. Holds(s, [key |-> k, val |-> ValueIn(s, k)])
    BY <1>2, <2>1, AnswerHeld
  <2>3. QED
    BY <1>2, <2>2
<1>6. ASSUME NEW j \in Keys \ {k} PROVE Same(j)
  <2>1. CASE ShardIndex(j) = h
    BY <1>2, <1>4, <2>1, HomeShardSame
  <2>2. CASE ShardIndex(j) # h
    BY <1>4, <2>2, HomeShard, OtherShardSame
  <2>3. QED
    BY <2>1, <2>2
<1>7. QED
  BY <1>4, <1>5, <1>6

LEMMA InitiallyEmpty == CacheInit => CacheInv /\ \A k \in Keys : ~Cached(k)
<1>1. SUFFICES ASSUME CacheInit PROVE CacheInv /\ \A k \in Keys : ~Cached(k)
  OBVIOUS
<1>2. /\ shards \in [Shards -> Seq(Entry)]
      /\ \A h \in Shards : shards[h] = <<>>
  BY <1>1 DEF CacheInit, EmptyShards
<1>3. CacheInv
  BY <1>2, CapacityPositive DEF CacheInv, CacheTypeOK, ShardsWellFormed
<1>4. QED
  BY <1>2, <1>3, HomeShard DEF Cached, Has
-----------------------------------------------------------------------------
LEMMA CacheInvariant == FailingCacheSpec => []CacheInv
<1>1. CacheInv /\ [FailingCacheNext]_shards => CacheInv'
  <2> SUFFICES ASSUME CacheInv, [FailingCacheNext]_shards PROVE CacheInv'
    OBVIOUS
  <2>1. CASE FailingCacheNext
    BY <2>1, GetStep, PutStep, PutFailsStep, RemoveStep DEF FailingCacheNext, CacheNext
  <2>2. CASE UNCHANGED shards
    BY <2>2 DEF CacheInv, CacheTypeOK, ShardsWellFormed
  <2>3. QED
    BY <2>1, <2>2
<1>2. QED
  BY <1>1, InitiallyEmpty, PTL DEF FailingCacheSpec

(* Each shard stays a sequence of pairs of a key and a value.              *)
THEOREM CacheTypeCorrect == FailingCacheSpec => []CacheTypeOK
<1>1. CacheInv => CacheTypeOK
  BY DEF CacheInv
<1>2. QED
  BY <1>1, CacheInvariant, PTL

(* Through every sequence of get, put and remove, with any allocation      *)
(* failing on the way, entries stay in the shard their key hashes to, keys *)
(* are found in one place at most and no shard outgrows its share of the   *)
(* capacity.                                                               *)
THEOREM ShardsStayWellFormed == FailingCacheSpec => []ShardsWellFormed
<1>1. CacheInv => ShardsWellFormed
  BY DEF CacheInv
<1>2. QED
  BY <1>1, CacheInvariant, PTL
=============================================================================
