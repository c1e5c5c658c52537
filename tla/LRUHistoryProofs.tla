-------------------------- MODULE LRUHistoryProofs --------------------------
(***************************************************************************)
(* The sharded cache implements a lossy map, and loses what was used       *)
(* longest ago, for every set of keys, hash function, number of shards and *)
(* capacity.                                                               *)
(***************************************************************************)
EXTENDS LRUHistory, ShardedLRUCacheProofs, FiniteSetTheorems

(* The map the cache stands for.                                           *)
Answers == [k \in Keys |-> Answer(k)]

LEMMA HistoryIsCache == HistorySpec => FailingCacheSpec
<1>1. HistoryInit => CacheInit
  BY DEF HistoryInit
<1>2. [HistoryNext]_historyVars => [FailingCacheNext]_shards
  BY DEF HistoryNext, historyVars, Get, Put, PutFails, Delete, CacheNext, FailingCacheNext
<1>3. QED
  BY <1>1, <1>2, PTL DEF HistorySpec, FailingCacheSpec

LEMMA HistoryCacheInv == HistorySpec => []CacheInv
  BY HistoryIsCache, CacheInvariant, PTL

(* A key that is cached has a value, and one that is not has none.         *)
LEMMA AnswerOf ==
  ASSUME CacheInv, NEW k \in Keys
  PROVE  Answer(k) \in Values \cup {Absent} /\ (Answer(k) = Absent <=> ~Cached(k))
<1>1. Cached(k) => CachedValue(k) \in Values
  BY ShardSound, HomeShard, AnswerHeld DEF Cached, CachedValue
<1>2. QED
  BY <1>1, CacheAssumption DEF Answer

LEMMA SameAnswer ==
  ASSUME NEW k \in Keys, Same(k)
  PROVE  Answer(k)' = Answer(k)
  BY DEF Same, Answer

LEMMA GetIsLookup ==
  ASSUME CacheInv, NEW k \in Keys, Get(k)
  PROVE  Abstract!Lookup(k)
<1>1. \A j \in Keys : Answer(j)' = Answer(j)
  BY GetStep, SameAnswer DEF Get
<1>2. Answers' = Answers
  BY <1>1 DEF Answers
<1>3. last' = <<"get", k, Answers[k]>>
  BY DEF Get, Answers
<1>4. QED
  BY <1>2, <1>3 DEF Abstract!Lookup, Answers

LEMMA PutIsStore ==
  ASSUME CacheInv, NEW k \in Keys, NEW v \in Values, Put(k, v)
  PROVE  Abstract!Store(k, v)
<1> DEFINE stored == [Answers EXCEPT ![k] = v]
<1>1. /\ Cached(k)' /\ CachedValue(k)' = v
      /\ \/ \A j \in Keys \ {k} : Same(j)
         \/ /\ ~Cached(k)
            /\ \E lost \in Keys \ {k} :
                 ~Cached(lost)' /\ \A j \in Keys \ {k, lost} : Same(j)
  BY PutStep DEF Put
<1>2. Answer(k)' = v
  BY <1>1 DEF Answer
<1>3. CASE \A j \in Keys \ {k} : Same(j)
  <2>1. \A j \in Keys : Answer(j)' = IF j = k THEN v ELSE Answer(j)
    BY <1>2, <1>3, SameAnswer
  <2>2. Answers' = stored
    BY <2>1 DEF Answers
  <2>3. QED
    BY <2>2 DEF Put, Abstract!Store, Answers
<1>4. CASE /\ ~Cached(k)
           /\ \E lost \in Keys \ {k} :
                ~Cached(lost)' /\ \A j \in Keys \ {k, lost} : Same(j)
  <2>1. PICK lost \in Keys \ {k} :
               ~Cached(lost)' /\ \A j \in Keys \ {k, lost} : Same(j)
    BY <1>4
  <2>2. Answer(lost)' = Absent
    BY <2>1 DEF Answer
  <2>3. \A j \in Keys : Answer(j)' = IF j = lost THEN Absent
                                     ELSE IF j = k THEN v ELSE Answer(j)
    BY <1>2, <2>1, <2>2, SameAnswer
  <2>4. Answers' = [stored EXCEPT ![lost] = Absent]
    BY <2>3 DEF Answers
  <2>5. Answers[k] = Absent
    BY <1>4 DEF Answers, Answer
  <2>6. QED
    BY <2>1, <2>4, <2>5 DEF Put, Abstract!Store, Answers
<1>5. QED
  BY <1>1, <1>3, <1>4

LEMMA PutFailsIsStoreFails ==
  ASSUME CacheInv, NEW k \in Keys, PutFails(k)
  PROVE  Abstract!StoreFails(k)
<1>1. \/ \A j \in Keys : Same(j)
      \/ /\ ~Cached(k)
         /\ \E lost \in Keys \ {k} :
              ~Cached(lost)' /\ \A j \in Keys \ {lost} : Same(j)
  BY PutFailsStep DEF PutFails
<1>2. CASE \A j \in Keys : Same(j)
  <2>1. \A j \in Keys : Answer(j)' = Answer(j)
    BY <1>2, SameAnswer
  <2>2. Answers' = Answers
    BY <2>1 DEF Answers
  <2>3. QED
    BY <2>2 DEF PutFails, Abstract!StoreFails, Answers
<1>3. CASE /\ ~Cached(k)
           /\ \E lost \in Keys \ {k} :
                ~Cached(lost)' /\ \A j \in Keys \ {lost} : Same(j)
  <2>1. PICK lost \in Keys \ {k} :
               ~Cached(lost)' /\ \A j \in Keys \ {lost} : Same(j)
    BY <1>3
  <2>2. Answer(lost)' = Absent
    BY <2>1 DEF Answer
  <2>3. \A j \in Keys : Answer(j)' = IF j = lost THEN Absent ELSE Answer(j)
    BY <2>1, <2>2, SameAnswer
  <2>4. Answers' = [Answers EXCEPT ![lost] = Absent]
    BY <2>3 DEF Answers
  <2>5. Answers[k] = Absent
    BY <1>3 DEF Answers, Answer
  <2>6. QED
    BY <2>1, <2>4, <2>5 DEF PutFails, Abstract!StoreFails, Answers
<1>4. QED
  BY <1>1, <1>2, <1>3

LEMMA DeleteIsForget ==
  ASSUME CacheInv, NEW k \in Keys, Delete(k)
  PROVE  Abstract!Forget(k)
<1>1. ~Cached(k)' /\ \A j \in Keys \ {k} : Same(j)
  BY RemoveStep DEF Delete
<1>2. \A j \in Keys : Answer(j)' = IF j = k THEN Absent ELSE Answer(j)
  BY <1>1, SameAnswer DEF Answer
<1>3. Answers' = [Answers EXCEPT ![k] = Absent]
  BY <1>2 DEF Answers
<1>4. QED
  BY <1>3 DEF Delete, Abstract!Forget, Answers

(* The sharded cache implements the lossy map: what get answers is what    *)
(* put stored last, and an eviction takes one other key, for a new one.    *)
THEOREM CacheImplementsLossyMap == HistorySpec => ImplementsLossyMap
<1>1. HistoryInit => Abstract!LossyInit
  <2>1. HistoryInit => \A k \in Keys : Answer(k) = Absent
    BY InitiallyEmpty DEF HistoryInit, Answer
  <2>2. QED
    BY <2>1 DEF HistoryInit, Abstract!LossyInit
<1>2. CacheInv /\ [HistoryNext]_historyVars => [Abstract!LossyNext]_<<Answers, last>>
  <2> SUFFICES ASSUME CacheInv, [HistoryNext]_historyVars
               PROVE  [Abstract!LossyNext]_<<Answers, last>>
    OBVIOUS
  <2>1. ASSUME NEW k \in Keys, Get(k) PROVE Abstract!LossyNext
    BY <2>1, GetIsLookup DEF Abstract!LossyNext
  <2>2. ASSUME NEW k \in Keys, NEW v \in Values, Put(k, v) PROVE Abstract!LossyNext
    BY <2>2, PutIsStore DEF Abstract!LossyNext
  <2>3. ASSUME NEW k \in Keys, Delete(k) PROVE Abstract!LossyNext
    BY <2>3, DeleteIsForget DEF Abstract!LossyNext
  <2>4. ASSUME NEW k \in Keys, PutFails(k) PROVE Abstract!LossyNext
    BY <2>4, PutFailsIsStoreFails DEF Abstract!LossyNext
  <2>5. CASE UNCHANGED historyVars
    BY <2>5 DEF historyVars, Answers, Answer, Cached, CachedValue
  <2>6. QED
    BY <2>1, <2>2, <2>3, <2>4, <2>5 DEF HistoryNext
<1>3. QED
  BY <1>1, <1>2, HistoryCacheInv, PTL
     DEF HistorySpec, ImplementsLossyMap, Abstract!LossySpec, Answers
-----------------------------------------------------------------------------
(* Ranks in a list without repetitions, when an element of it is dropped   *)
(* or a new one is put in front.                                           *)

RankIn(s, x) == CHOOSE i \in DOMAIN s : s[i] = x

LEMMA RankInIs ==
  ASSUME NEW S, NEW s \in Seq(S), IsInjective(s)
  PROVE  /\ \A i \in DOMAIN s : RankIn(s, s[i]) = i /\ s[i] \in ToSet(s)
         /\ \A x \in ToSet(s) : /\ RankIn(s, x) \in DOMAIN s /\ s[RankIn(s, x)] = x
                               /\ RankIn(s, x) \in Nat \ {0}
<1>1. ASSUME NEW x \in ToSet(s) PROVE RankIn(s, x) \in DOMAIN s /\ s[RankIn(s, x)] = x
  BY DEF RankIn, ToSet
<1>2. \A i \in DOMAIN s : s[i] \in ToSet(s)
  BY DEF ToSet
<1>3. \A i \in DOMAIN s : RankIn(s, s[i]) = i
  BY <1>1, <1>2 DEF IsInjective
<1>4. DOMAIN s = 1 .. Len(s) /\ Len(s) \in Nat
  BY LenProperties
<1>5. QED
  BY <1>1, <1>2, <1>3, <1>4

LEMMA DropRanks ==
  ASSUME NEW S, NEW s \in Seq(S), IsInjective(s), NEW k \in ToSet(s)
  PROVE  LET w == RemoveAt(s, RankIn(s, k)) IN
         /\ w \in Seq(S) /\ IsInjective(w) /\ ToSet(w) = ToSet(s) \ {k}
         /\ \A x, y \in ToSet(w) : RankIn(w, x) < RankIn(w, y) <=> RankIn(s, x) < RankIn(s, y)
<1> DEFINE p == RankIn(s, k)
           w == RemoveAt(s, p)
           Old(i) == IF i < p THEN i ELSE i + 1
           New(i) == IF i < p THEN i ELSE i - 1
<1>1. p \in 1 .. Len(s) /\ s[p] = k /\ DOMAIN s = 1 .. Len(s) /\ Len(s) \in Nat
  <2>1. DOMAIN s = 1 .. Len(s) /\ Len(s) \in Nat
    BY LenProperties
  <2>2. QED
    BY <2>1, RankInIs
<1> HIDE DEF p
<1>2. /\ w \in Seq(S) /\ Len(w) = Len(s) - 1
      /\ \A i \in 1 .. Len(s) - 1 : w[i] = IF i < p THEN s[i] ELSE s[i + 1]
  BY <1>1, RemoveAtOf
<1>3. DOMAIN w = 1 .. Len(s) - 1
  BY <1>2
<1> HIDE DEF w
<1>4. /\ \A i \in DOMAIN w : Old(i) \in DOMAIN s /\ Old(i) # p /\ w[i] = s[Old(i)]
      /\ \A i, j \in DOMAIN w : Old(i) = Old(j) => i = j
      /\ \A i \in DOMAIN s : i # p => New(i) \in DOMAIN w /\ w[New(i)] = s[i]
  BY <1>1, <1>2, <1>3
<1>5. \A i, j \in DOMAIN w : Old(i) < Old(j) <=> i < j
  BY <1>1, <1>3
<1> HIDE DEF Old, New
<1>6. IsInjective(w)
  BY <1>4 DEF IsInjective
<1>7. ToSet(w) = ToSet(s) \ {k}
  BY <1>1, <1>4 DEF ToSet, IsInjective
<1>8. \A x \in ToSet(w) : RankIn(w, x) \in DOMAIN w /\ w[RankIn(w, x)] = x
  BY <1>2, <1>6, RankInIs
<1>9. \A x \in ToSet(w) : RankIn(s, x) = Old(RankIn(w, x))
  <2>1. \A i \in DOMAIN s : RankIn(s, s[i]) = i
    BY RankInIs
  <2>2. QED
    BY <1>4, <1>8, <2>1
<1>10. \A x, y \in ToSet(w) : RankIn(w, x) < RankIn(w, y) <=> RankIn(s, x) < RankIn(s, y)
  BY <1>5, <1>8, <1>9
<1>11. QED
  BY <1>2, <1>6, <1>7, <1>10 DEF w, p

LEMMA ConsRanks ==
  ASSUME NEW S, NEW s \in Seq(S), IsInjective(s), NEW k \in S, k \notin ToSet(s)
  PROVE  LET q == Cons(k, s) IN
         /\ q \in Seq(S) /\ IsInjective(q) /\ ToSet(q) = ToSet(s) \cup {k}
         /\ RankIn(q, k) = 1 /\ \A x \in ToSet(s) : RankIn(q, x) = RankIn(s, x) + 1
<1> DEFINE q == Cons(k, s)
           Old(i) == i - 1
<1>1. /\ q \in Seq(S) /\ Len(q) = Len(s) + 1 /\ q[1] = k
      /\ \A i \in 2 .. Len(s) + 1 : q[i] = s[i - 1]
  <2>1. <<k>> \in Seq(S) /\ Len(<<k>>) = 1 /\ <<k>>[1] = k
    OBVIOUS
  <2>2. QED
    BY <2>1, ConcatProperties DEF Cons
<1>2. DOMAIN s = 1 .. Len(s) /\ DOMAIN q = 1 .. Len(s) + 1 /\ Len(s) \in Nat
  BY <1>1
<1> HIDE DEF q
<1>3. /\ 1 \in DOMAIN q /\ q[1] = k
      /\ \A i \in DOMAIN q : i = 1 \/ (Old(i) \in DOMAIN s /\ q[i] = s[Old(i)])
      /\ \A i, j \in DOMAIN q : Old(i) = Old(j) => i = j
      /\ \A i \in DOMAIN s : i + 1 \in DOMAIN q /\ q[i + 1] = s[i]
  BY <1>1, <1>2
<1> HIDE DEF Old
<1>4. \A i \in DOMAIN s : s[i] # k
  BY DEF ToSet
<1>5. IsInjective(q)
  BY <1>3, <1>4 DEF IsInjective
<1>6. ToSet(q) = ToSet(s) \cup {k}
  BY <1>3 DEF ToSet
<1>7. \A i \in DOMAIN q : RankIn(q, q[i]) = i
  BY <1>1, <1>5, RankInIs
<1>8. \A x \in ToSet(s) : RankIn(s, x) \in DOMAIN s /\ s[RankIn(s, x)] = x
  BY RankInIs
<1>9. RankIn(q, k) = 1 /\ \A x \in ToSet(s) : RankIn(q, x) = RankIn(s, x) + 1
  BY <1>3, <1>7, <1>8
<1>10. QED
  BY <1>1, <1>5, <1>6, <1>9 DEF q

(* A use of a key puts it before all others, and keeps their order.        *)
RecentOK == recent \in Seq(Keys) /\ IsInjective(recent)

LEMMA UsedRanks ==
  ASSUME RecentOK, NEW k \in Keys, Used(k)
  PROVE  /\ RecentOK' /\ ToSet(recent') = ToSet(recent) \cup {k}
         /\ \A x \in ToSet(recent) : Rank(x) \in Nat
         /\ \A x \in ToSet(recent) \ {k} : Rank(k)' < Rank(x)'
         /\ \A x, y \in ToSet(recent) \ {k} : Rank(x)' < Rank(y)' <=> Rank(x) < Rank(y)
<1> DEFINE w == IF k \in ToSet(recent) THEN RemoveAt(recent, RankIn(recent, k)) ELSE recent
<1>1. /\ w \in Seq(Keys) /\ IsInjective(w) /\ ToSet(w) = ToSet(recent) \ {k}
      /\ \A x, y \in ToSet(w) : RankIn(w, x) < RankIn(w, y)
                                  <=> RankIn(recent, x) < RankIn(recent, y)
  <2>1. CASE k \in ToSet(recent)
    BY <2>1, DropRanks DEF RecentOK
  <2>2. CASE k \notin ToSet(recent)
    BY <2>2 DEF RecentOK
  <2>3. QED
    BY <2>1, <2>2
<1>2. recent' = Cons(k, w)
  BY DEF Used, Rank, RankIn
<1> HIDE DEF w
<1> DEFINE q == Cons(k, w)
<1>3. /\ q \in Seq(Keys) /\ IsInjective(q) /\ ToSet(q) = ToSet(w) \cup {k}
      /\ RankIn(q, k) = 1 /\ \A x \in ToSet(w) : RankIn(q, x) = RankIn(w, x) + 1
  BY <1>1, ConsRanks
<1>4. /\ \A x \in ToSet(w) : RankIn(w, x) \in Nat \ {0}
      /\ \A x \in ToSet(recent) : RankIn(recent, x) \in Nat
  BY <1>1, RankInIs DEF RecentOK
<1>5. \A x : Rank(x) = RankIn(recent, x) /\ Rank(x)' = RankIn(q, x)
  BY <1>2 DEF Rank, RankIn
<1> HIDE DEF q
<1>6. \A x \in ToSet(w) : RankIn(q, k) < RankIn(q, x)
  BY <1>3, <1>4
<1>7. \A x, y \in ToSet(w) : RankIn(q, x) < RankIn(q, y) <=> RankIn(recent, x) < RankIn(recent, y)
  BY <1>1, <1>3, <1>4
<1>8. RecentOK' /\ ToSet(recent') = ToSet(recent) \cup {k}
  BY <1>1, <1>2, <1>3 DEF RecentOK, q
<1>9. QED
  BY <1>1, <1>4, <1>5, <1>6, <1>7, <1>8
-----------------------------------------------------------------------------
(* The order of a shard's entries under any ranking f of the keys.         *)

Found(s) == {i \in DOMAIN s : Findable(s, i)}
KeysOf(s) == {s[i].key : i \in Found(s)}
Sorted(s, f) == \A i, j \in Found(s) : i < j => f[s[i].key] < f[s[j].key]

LEMMA KeysHeld == \A s : \A x : x \in KeysOf(s) <=> \E e : Holds(s, e) /\ e.key = x
  BY DEF KeysOf, Holds, Found, Findable

LEMMA SortedWithout ==
  ASSUME NEW s \in Seq(Entry), NEW k \in Keys, Has(s, k), Distinct(s), NEW f, Sorted(s, f)
  PROVE  /\ Sorted(Without(s, k), f) /\ Without(s, k) \in Seq(Entry)
         /\ KeysOf(Without(s, k)) = KeysOf(s) \ {k}
<1> DEFINE p == Position(s, k)
           w == Without(s, k)
           Old(i) == IF i < p THEN i ELSE i + 1
<1>1. p \in 1 .. Len(s) /\ DOMAIN s = 1 .. Len(s) /\ Len(s) \in Nat
  BY PositionOf, LenProperties
<1>2. /\ w \in Seq(Entry) /\ Len(w) = Len(s) - 1
      /\ \A i \in 1 .. Len(s) - 1 : w[i] = IF i < p THEN s[i] ELSE s[i + 1]
  BY WithoutOf
<1>3. DOMAIN w = 1 .. Len(s) - 1
  BY <1>2
<1> HIDE DEF p, w
<1>4. /\ \A i \in DOMAIN w : Old(i) \in DOMAIN s /\ w[i] = s[Old(i)]
      /\ \A i, j \in DOMAIN w : i < j => Old(i) < Old(j)
  BY <1>1, <1>2, <1>3
<1> HIDE DEF Old
<1>5. Sorted(w, f)
  BY <1>4 DEF Sorted, Found, Findable
<1>6. \A e : Holds(w, e) <=> Holds(s, e) /\ e.key # k
  BY WithoutEntries DEF w
<1>7. KeysOf(w) = KeysOf(s) \ {k}
  <2>1. ASSUME NEW x PROVE x \in KeysOf(w) <=> x \in KeysOf(s) /\ x # k
    BY <1>6, KeysHeld
  <2>2. QED
    BY <2>1
<1>8. QED
  BY <1>2, <1>5, <1>7 DEF w

LEMMA SortedRoom ==
  ASSUME NEW s, Sound(s), NEW f, Sorted(s, f)
  PROVE  /\ Sorted(WithRoom(s), f) /\ WithRoom(s) \in Seq(Entry)
         /\ KeysOf(WithRoom(s)) \subseteq KeysOf(s)
         /\ \A x \in KeysOf(s) \ KeysOf(WithRoom(s)) :
              Len(s) >= CapPerShard /\ Len(s) \in DOMAIN s /\ x = s[Len(s)].key
<1>1. s \in Seq(Entry) /\ Distinct(s) /\ Len(s) \in Nat
  BY LenProperties DEF Sound
<1>2. CASE ~(Len(s) >= CapPerShard)
  BY <1>1, <1>2 DEF WithRoom
<1>3. CASE Len(s) >= CapPerShard
  <2> DEFINE z == Last(s).key
             w == Unindexed(Front(s), z)
  <2>1. Len(s) > 0 /\ WithRoom(s) = w
    BY <1>1, <1>3, CapacityPositive DEF WithRoom
  <2>2. /\ w \in Seq(Entry) /\ Last(s) = s[Len(s)]
        /\ \A e : Holds(w, e) <=> Holds(s, e) /\ e.key # z
    BY <1>1, <2>1, RoomEntries
  <2>3. /\ Len(Front(s)) = Len(s) - 1 /\ Front(s) \in Seq(Entry)
        /\ \A i \in 1 .. Len(s) - 1 : Front(s)[i] = s[i]
    BY <1>1, <2>1, FrontOf
  <2>4. /\ DOMAIN Front(s) = 1 .. Len(s) - 1 /\ DOMAIN s = 1 .. Len(s)
        /\ Len(s) \in DOMAIN s
    BY <1>1, <2>1, <2>3
  <2>5. /\ DOMAIN w = DOMAIN Front(s)
        /\ \A i \in DOMAIN w : w[i] = IF Front(s)[i].key = z THEN [key |-> z, val |-> Absent]
                                                             ELSE Front(s)[i]
    BY DEF Unindexed
  <2> HIDE DEF w
  <2>6. \A i \in Found(w) : i \in Found(s) /\ w[i] = s[i]
    <3>1. ASSUME NEW i \in DOMAIN w, w[i].val # Absent PROVE i \in DOMAIN s /\ w[i] = s[i]
      <4>1. i \in DOMAIN s /\ Front(s)[i] = s[i]
        BY <2>3, <2>4, <2>5, <1>1
      <4>2. Front(s)[i].key # z
        BY <2>5, <3>1
      <4>3. QED
        BY <2>5, <4>1, <4>2
    <3>2. QED
      BY <3>1 DEF Found, Findable
  <2>7. Sorted(w, f)
    BY <2>6 DEF Sorted
  <2> HIDE DEF z
  <2>8. ASSUME NEW x PROVE x \in KeysOf(w) <=> x \in KeysOf(s) /\ x # z
    BY <2>2, KeysHeld
  <2>9. KeysOf(w) = KeysOf(s) \ {z}
    BY <2>8
  <2>10. QED
    BY <1>3, <2>1, <2>2, <2>4, <2>7, <2>9 DEF z
<1>4. QED
  BY <1>2, <1>3

LEMMA ConsPlaces ==
  ASSUME NEW s \in Seq(Entry), NEW e \in Entry
  PROVE  LET c == Cons(e, s) IN
         /\ \A i \in DOMAIN c : i = 1 \/ (i > 1 /\ i - 1 \in DOMAIN s /\ c[i] = s[i - 1])
         /\ \A i \in DOMAIN s : i + 1 \in DOMAIN c /\ c[i + 1] = s[i]
         /\ 1 \in DOMAIN c /\ c[1] = e
         /\ c \in Seq(Entry) /\ \A i \in DOMAIN c : i \in Int
<1> DEFINE c == Cons(e, s)
<1>1. /\ c \in Seq(Entry) /\ Len(c) = Len(s) + 1 /\ c[1] = e
      /\ \A i \in 2 .. Len(s) + 1 : c[i] = s[i - 1]
  BY ConsOf
<1>2. Len(s) \in Nat /\ DOMAIN s = 1 .. Len(s) /\ DOMAIN c = 1 .. Len(s) + 1
  BY <1>1
<1> HIDE DEF c
<1>3. QED
  BY <1>1, <1>2 DEF c

LEMMA SortedCons ==
  ASSUME NEW s \in Seq(Entry), NEW e \in Entry, e.val # Absent, NEW f, Sorted(s, f),
         \A x \in KeysOf(s) : f[e.key] < f[x]
  PROVE  Sorted(Cons(e, s), f) /\ KeysOf(Cons(e, s)) = KeysOf(s) \cup {e.key}
<1> DEFINE c == Cons(e, s)
<1>1. /\ \A i \in DOMAIN c : i = 1 \/ (i > 1 /\ i - 1 \in DOMAIN s /\ c[i] = s[i - 1])
      /\ \A i \in DOMAIN s : i + 1 \in DOMAIN c /\ c[i + 1] = s[i]
      /\ 1 \in DOMAIN c /\ c[1] = e /\ \A i \in DOMAIN c : i \in Int
  BY ConsPlaces
<1> HIDE DEF c
<1>2. /\ \A i \in Found(c) : i = 1 \/ (i > 1 /\ i - 1 \in Found(s) /\ c[i] = s[i - 1])
      /\ \A i \in Found(s) : i + 1 \in Found(c) /\ c[i + 1] = s[i]
      /\ 1 \in Found(c) /\ c[1] = e /\ \A i \in Found(c) : i \in Int
  BY <1>1 DEF Found, Findable
<1>3. KeysOf(c) = KeysOf(s) \cup {e.key}
  BY <1>2 DEF KeysOf
<1>4. ASSUME NEW i \in Found(c), NEW j \in Found(c), i < j PROVE f[c[i].key] < f[c[j].key]
  <2>1. j > 1 /\ j - 1 \in Found(s) /\ c[j] = s[j - 1]
    BY <1>1, <1>2, <1>4
  <2>2. CASE i = 1
    BY <1>2, <2>1, <2>2 DEF KeysOf
  <2>3. CASE i # 1
    <3>1. i - 1 \in Found(s) /\ c[i] = s[i - 1] /\ i - 1 < j - 1
      BY <1>2, <1>4, <2>3
    <3>2. QED
      BY <2>1, <3>1 DEF Sorted
  <2>4. QED
    BY <2>2, <2>3
<1>5. Sorted(c, f)
  BY <1>4 DEF Sorted
<1>6. QED
  BY <1>3, <1>5 DEF c

(* A node the index does not know changes nothing of this.                 *)
LEMMA SortedOrphan ==
  ASSUME NEW s \in Seq(Entry), NEW e \in Entry, e.val = Absent, NEW f, Sorted(s, f)
  PROVE  Sorted(Cons(e, s), f) /\ KeysOf(Cons(e, s)) = KeysOf(s)
<1> DEFINE c == Cons(e, s)
<1>1. /\ \A i \in DOMAIN c : i = 1 \/ (i > 1 /\ i - 1 \in DOMAIN s /\ c[i] = s[i - 1])
      /\ \A i \in DOMAIN s : i + 1 \in DOMAIN c /\ c[i + 1] = s[i]
      /\ 1 \in DOMAIN c /\ c[1] = e /\ \A i \in DOMAIN c : i \in Int
  BY ConsPlaces
<1> HIDE DEF c
<1>2. /\ \A i \in Found(c) : i \in Int /\ i - 1 \in Found(s) /\ c[i] = s[i - 1]
      /\ \A i \in Found(s) : i + 1 \in Found(c) /\ c[i + 1] = s[i]
  BY <1>1 DEF Found, Findable
<1>3. KeysOf(c) = KeysOf(s)
  BY <1>2 DEF KeysOf
<1>4. ASSUME NEW i \in Found(c), NEW j \in Found(c), i < j PROVE f[c[i].key] < f[c[j].key]
  <2>1. i - 1 < j - 1
    BY <1>2, <1>4
  <2>2. QED
    BY <1>2, <2>1 DEF Sorted
<1>5. QED
  BY <1>3, <1>4 DEF c, Sorted

LEMMA SortedSame ==
  ASSUME NEW s, NEW f, NEW g, Sorted(s, f),
         \A x, y \in KeysOf(s) : f[x] < f[y] => g[x] < g[y]
  PROVE  Sorted(s, g)
  BY DEF Sorted, KeysOf

LEMMA KeysCounted ==
  ASSUME NEW s \in Seq(Entry), Distinct(s), Found(s) = DOMAIN s
  PROVE  IsFiniteSet(KeysOf(s)) /\ Cardinality(KeysOf(s)) = Len(s)
<1> DEFINE f == [i \in 1 .. Len(s) |-> s[i].key]
<1>1. Len(s) \in Nat /\ DOMAIN s = 1 .. Len(s)
  BY LenProperties
<1>2. f \in Bijection(1 .. Len(s), KeysOf(s))
  BY <1>1 DEF Bijection, Injection, Surjection, IsInjective, KeysOf, Distinct, Found
<1>3. ExistsBijection(1 .. Len(s), KeysOf(s))
  BY <1>2 DEF ExistsBijection
<1>4. QED
  BY <1>1, <1>3, FS_CountingElements, FS_NatBijection

LEMMA ToSetFinite ==
  ASSUME NEW S, NEW s \in Seq(S)
  PROVE  IsFiniteSet(ToSet(s))
<1>1. Len(s) \in Nat /\ s \in [1 .. Len(s) -> S] /\ DOMAIN s = 1 .. Len(s)
  BY LenProperties
<1>2. s \in Surjection(1 .. Len(s), ToSet(s))
  BY <1>1 DEF Surjection, ToSet
<1>3. IsFiniteSet(1 .. Len(s))
  BY <1>1, FS_Interval
<1>4. QED
  BY <1>2, <1>3, FS_Surjection
-----------------------------------------------------------------------------
(* Every cached key was used, and its shard lists it by its last use.      *)

Ranks == [x \in Keys |-> Rank(x)]

OrderInv ==
  /\ RecentOK
  /\ \A h \in Shards : KeysOf(shards[h]) \subseteq ToSet(recent) /\ Sorted(shards[h], Ranks)

LEMMA ShardKeys ==
  ASSUME CacheInv, NEW h \in Shards
  PROVE  /\ Sound(shards[h]) /\ shards[h] \in Seq(Entry) /\ Distinct(shards[h])
         /\ \A x \in KeysOf(shards[h]) : x \in Keys /\ ShardIndex(x) = h
<1>1. /\ Sound(shards[h])
      /\ \A e : Holds(shards[h], e) => e \in Entry /\ ShardIndex(e.key) = h
  BY ShardSound
<1>2. ASSUME NEW x \in KeysOf(shards[h]) PROVE x \in Keys /\ ShardIndex(x) = h
  <2>1. PICK e : Holds(shards[h], e) /\ e.key = x
    BY KeysHeld
  <2>2. QED
    BY <1>1, <2>1 DEF Entry
<1>3. QED
  BY <1>1, <1>2 DEF Sound

(* The list of the key's shard becomes the used entry and some of the      *)
(* others, in their order; the other lists stay.                           *)
LEMMA UsedOrder ==
  ASSUME CacheInv, OrderInv, NEW k \in Keys, Used(k), NEW w \in Seq(Entry), NEW e \in Entry,
         e.key = k, e.val # Absent, Sorted(w, Ranks), KeysOf(w) \subseteq KeysOf(shards[ShardIndex(k)]) \ {k},
         shards' = [shards EXCEPT ![ShardIndex(k)] = Cons(e, w)]
  PROVE  OrderInv'
<1> DEFINE h == ShardIndex(k)
           f == Ranks
           g == Ranks'
<1>1. /\ RecentOK' /\ ToSet(recent') = ToSet(recent) \cup {k}
      /\ \A x \in ToSet(recent) \ {k} : Rank(k)' < Rank(x)'
      /\ \A x, y \in ToSet(recent) \ {k} : Rank(x)' < Rank(y)' <=> Rank(x) < Rank(y)
  BY UsedRanks DEF OrderInv
<1>2. h \in Shards /\ \A i \in Shards : /\ shards'[i] = IF i = h THEN Cons(e, w) ELSE shards[i]
                                       /\ KeysOf(shards[i]) \subseteq Keys
  BY HomeShard, ShardKeys DEF CacheInv, CacheTypeOK
<1>3. /\ \A x \in Keys : f[x] = Rank(x) /\ g[x] = Rank(x)'
  BY DEF Ranks
<1> HIDE DEF f, g
<1>4. ASSUME NEW i \in Shards, NEW s, Sorted(s, f), KeysOf(s) \subseteq KeysOf(shards[i]) \ {k}
      PROVE  Sorted(s, g) /\ KeysOf(s) \subseteq ToSet(recent) \ {k}
  <2>1. KeysOf(s) \subseteq Keys /\ KeysOf(s) \subseteq ToSet(recent) \ {k}
    BY <1>2, <1>4 DEF OrderInv
  <2>2. \A x, y \in KeysOf(s) : f[x] < f[y] => g[x] < g[y]
    BY <1>1, <1>3, <2>1
  <2>3. QED
    BY <1>4, <2>1, <2>2, SortedSame
<1>5. Sorted(Cons(e, w), g) /\ KeysOf(Cons(e, w)) \subseteq ToSet(recent')
  <2>1. Sorted(w, g) /\ KeysOf(w) \subseteq ToSet(recent) \ {k}
    BY <1>2, <1>4 DEF f
  <2>2. KeysOf(w) \subseteq Keys
    BY <1>2
  <2>3. \A x \in KeysOf(w) : g[e.key] < g[x]
    BY <1>1, <1>3, <2>1, <2>2
  <2>4. Sorted(Cons(e, w), g) /\ KeysOf(Cons(e, w)) = KeysOf(w) \cup {e.key}
    BY <2>1, <2>3, SortedCons
  <2>5. QED
    BY <1>1, <2>1, <2>4
<1>6. ASSUME NEW i \in Shards, i # h
      PROVE  Sorted(shards[i], g) /\ KeysOf(shards[i]) \subseteq ToSet(recent')
  <2>1. KeysOf(shards[i]) \subseteq KeysOf(shards[i]) \ {k}
    BY <1>6, ShardKeys
  <2>2. Sorted(shards[i], f)
    BY DEF OrderInv, f
  <2>3. Sorted(shards[i], g) /\ KeysOf(shards[i]) \subseteq ToSet(recent) \ {k}
    BY <1>4, <2>1, <2>2
  <2>4. QED
    BY <1>1, <2>3
<1>7. \A i \in Shards : KeysOf(shards'[i]) \subseteq ToSet(recent') /\ Sorted(shards'[i], g)
  BY <1>2, <1>5, <1>6
<1>8. QED
  BY <1>1, <1>7 DEF OrderInv, g

LEMMA GetOrder ==
  ASSUME CacheInv, OrderInv, NEW k \in Keys, Get(k)
  PROVE  OrderInv'
<1> DEFINE h == ShardIndex(k)
           s == shards[h]
<1>1. h \in Shards /\ s \in Seq(Entry) /\ Distinct(s) /\ Sorted(s, Ranks)
  BY HomeShard, ShardKeys DEF OrderInv
<1>2. CASE Cached(k)
  <2>1. Has(s, k) /\ Used(k) /\ shards' = [shards EXCEPT ![h] = Promoted(s, k)]
    BY <1>2 DEF Get, CacheGet, Cached
  <2>2. /\ s[Position(s, k)] \in Entry /\ s[Position(s, k)].key = k
        /\ s[Position(s, k)].val # Absent
    BY <1>1, <2>1, PositionOf DEF Findable
  <2>3. /\ Sorted(Without(s, k), Ranks) /\ Without(s, k) \in Seq(Entry)
        /\ KeysOf(Without(s, k)) \subseteq KeysOf(s) \ {k}
    BY <1>1, <2>1, SortedWithout
  <2>4. QED
    BY <2>1, <2>2, <2>3, UsedOrder DEF Promoted
<1>3. CASE ~Cached(k)
  BY <1>3 DEF Get, CacheGet, OrderInv, RecentOK, Ranks, Rank
<1>4. QED
  BY <1>2, <1>3

(* What a put keeps of the list, and whom it evicts.                       *)
LEMMA KeptByPut ==
  ASSUME NEW s, Sound(s), NEW k \in Keys, NEW f, Sorted(s, f)
  PROVE  LET w == IF Has(s, k) THEN Without(s, k) ELSE WithRoom(s) IN
         /\ w \in Seq(Entry) /\ Sorted(w, f) /\ KeysOf(w) \subseteq KeysOf(s) \ {k}
         /\ \A x \in KeysOf(s) \ KeysOf(w) :
              x = k \/ /\ ~Has(s, k) /\ Len(s) >= CapPerShard
                       /\ Len(s) \in DOMAIN s /\ x = s[Len(s)].key
<1>1. s \in Seq(Entry) /\ Distinct(s)
  BY DEF Sound
<1>2. CASE Has(s, k)
  BY <1>1, <1>2, SortedWithout
<1>3. CASE ~Has(s, k)
  <2>1. k \notin KeysOf(s)
    BY <1>3 DEF KeysOf, Has, Found
  <2>2. QED
    BY <1>3, <2>1, SortedRoom
<1>4. QED
  BY <1>2, <1>3

LEMMA PutOrder ==
  ASSUME CacheInv, OrderInv, NEW k \in Keys, NEW v \in Values, Put(k, v)
  PROVE  OrderInv'
<1> DEFINE h == ShardIndex(k)
           s == shards[h]
           e == [key |-> k, val |-> v]
           w == IF Has(s, k) THEN Without(s, k) ELSE WithRoom(s)
<1>1. Sound(s) /\ Sorted(s, Ranks)
  BY HomeShard, ShardKeys DEF OrderInv
<1>2. w \in Seq(Entry) /\ Sorted(w, Ranks) /\ KeysOf(w) \subseteq KeysOf(s) \ {k}
  BY <1>1, KeptByPut
<1>3. Used(k) /\ shards' = [shards EXCEPT ![h] = Cons(e, w)]
  BY DEF Put, CachePut, Stored
<1>4. e \in Entry /\ e.key = k /\ e.val # Absent
  BY CacheAssumption DEF Entry
<1> HIDE DEF w, e
<1>5. QED
  BY <1>2, <1>3, <1>4, UsedOrder

LEMMA PutFailsOrder ==
  ASSUME CacheInv, OrderInv, NEW k \in Keys, PutFails(k)
  PROVE  OrderInv'
<1> DEFINE h == ShardIndex(k)
           s == shards[h]
           e == [key |-> k, val |-> Absent]
<1>1. h \in Shards /\ Sound(s) /\ s \in Seq(Entry) /\ Sorted(s, Ranks)
  BY HomeShard, ShardKeys DEF OrderInv
<1>2. PICK u \in StoreFailures(s, k) : shards' = [shards EXCEPT ![h] = u]
  BY DEF PutFails, CachePutFails
<1>3. Sorted(u, Ranks) /\ KeysOf(u) \subseteq KeysOf(s)
  <2>1. CASE u = s
    BY <1>1, <2>1
  <2>2. CASE u = WithRoom(s)
    BY <1>1, <2>2, SortedRoom
  <2>3. CASE u = Cons(e, WithRoom(s))
    <3>1. e \in Entry /\ e.val = Absent
      BY DEF Entry
    <3>2. /\ Sorted(WithRoom(s), Ranks) /\ WithRoom(s) \in Seq(Entry)
          /\ KeysOf(WithRoom(s)) \subseteq KeysOf(s)
      BY <1>1, SortedRoom
    <3> HIDE DEF e, s
    <3>3. QED
      BY <2>3, <3>1, <3>2, SortedOrphan
  <2>4. QED
    BY <1>2, <2>1, <2>2, <2>3 DEF StoreFailures
<1>4. recent' = recent
  BY DEF PutFails
<1>5. \A i \in Shards : shards'[i] = IF i = h THEN u ELSE shards[i]
  BY <1>2 DEF CacheInv, CacheTypeOK
<1>6. Ranks' = Ranks /\ RecentOK'
  BY <1>4 DEF Ranks, Rank, RecentOK, OrderInv
<1>7. \A i \in Shards : KeysOf(shards'[i]) \subseteq ToSet(recent) /\ Sorted(shards'[i], Ranks)
  BY <1>1, <1>3, <1>5 DEF OrderInv
<1>8. QED
  BY <1>4, <1>6, <1>7 DEF OrderInv

LEMMA DeleteOrder ==
  ASSUME CacheInv, OrderInv, NEW k \in Keys, Delete(k)
  PROVE  OrderInv'
<1> DEFINE h == ShardIndex(k)
           s == shards[h]
           w == Removed(s, k)
<1>1. h \in Shards /\ s \in Seq(Entry) /\ Distinct(s) /\ Sorted(s, Ranks)
  BY HomeShard, ShardKeys DEF OrderInv
<1>2. Sorted(w, Ranks) /\ KeysOf(w) \subseteq KeysOf(s)
  <2>1. CASE Has(s, k)
    BY <1>1, <2>1, SortedWithout DEF Removed
  <2>2. CASE ~Has(s, k)
    BY <1>1, <2>2 DEF Removed
  <2>3. QED
    BY <2>1, <2>2
<1>3. recent' = recent /\ shards' = [shards EXCEPT ![h] = w]
  BY DEF Delete, CacheRemove
<1> HIDE DEF w
<1>4. \A i \in Shards : shards'[i] = IF i = h THEN w ELSE shards[i]
  BY <1>3 DEF CacheInv, CacheTypeOK
<1>5. Ranks' = Ranks /\ RecentOK'
  BY <1>3 DEF Ranks, Rank, RecentOK, OrderInv
<1>6. \A i \in Shards : KeysOf(shards'[i]) \subseteq ToSet(recent) /\ Sorted(shards'[i], Ranks)
  BY <1>1, <1>2, <1>4 DEF OrderInv
<1>7. QED
  BY <1>3, <1>5, <1>6 DEF OrderInv

LEMMA OrderInitially == HistoryInit => OrderInv
<1> SUFFICES ASSUME HistoryInit PROVE OrderInv
  OBVIOUS
<1>1. \A h \in Shards : shards[h] = <<>>
  BY DEF HistoryInit, CacheInit, EmptyShards
<1>2. recent \in Seq(Keys) /\ IsInjective(recent)
  BY EmptySeq DEF HistoryInit, IsInjective
<1>3. KeysOf(<<>>) = {} /\ Sorted(<<>>, Ranks)
  BY DEF KeysOf, Sorted, Found
<1>4. QED
  BY <1>1, <1>2, <1>3 DEF OrderInv, RecentOK

LEMMA OrderStep ==
  ASSUME CacheInv, OrderInv, [HistoryNext]_historyVars
  PROVE  OrderInv'
<1>1. CASE UNCHANGED historyVars
  BY <1>1 DEF historyVars, OrderInv, RecentOK, Ranks, Rank
<1>2. QED
  BY <1>1, GetOrder, PutOrder, PutFailsOrder, DeleteOrder DEF HistoryNext

LEMMA OrderInvariant == HistorySpec => [](CacheInv /\ OrderInv)
<1>1. CacheInv /\ OrderInv /\ [HistoryNext]_historyVars => OrderInv'
  BY OrderStep
<1>2. QED
  BY OrderInitially, HistoryCacheInv, <1>1, PTL DEF HistorySpec

(* A shard's list is ordered by last use, for every hash function, number  *)
(* of shards and capacity and every sequence of operations.                *)
THEOREM ListIsOrderedByUse == HistorySpec => []OrderIsRecency
<1>1. ASSUME CacheInv, OrderInv PROVE OrderIsRecency
  <2> SUFFICES ASSUME NEW h \in Shards, NEW i \in DOMAIN shards[h], NEW j \in DOMAIN shards[h],
                      i < j, Findable(shards[h], i), Findable(shards[h], j)
               PROVE  Rank(shards[h][i].key) < Rank(shards[h][j].key)
    BY DEF OrderIsRecency
  <2>1. Ranks[shards[h][i].key] < Ranks[shards[h][j].key]
    BY <1>1 DEF OrderInv, Sorted, Found
  <2>2. shards[h][i].key \in Keys /\ shards[h][j].key \in Keys
    BY <1>1, ShardKeys DEF KeysOf, Found
  <2>3. QED
    BY <2>1, <2>2 DEF Ranks
<1>2. QED
  BY <1>1, OrderInvariant, PTL
-----------------------------------------------------------------------------
(* Until an allocation fails, a shard finds all of its nodes.              *)

AllFound(s) == \A i \in DOMAIN s : Findable(s, i)
NoOrphans == \A h \in Shards : AllFound(shards[h])

LEMMA WithoutFound ==
  ASSUME NEW s \in Seq(Entry), AllFound(s), NEW k \in Keys, Has(s, k)
  PROVE  AllFound(Without(s, k))
<1> DEFINE w == Without(s, k)
           p == Position(s, k)
<1>1. /\ w \in Seq(Entry) /\ Len(w) = Len(s) - 1
      /\ \A i \in 1 .. Len(s) - 1 : w[i] = IF i < p THEN s[i] ELSE s[i + 1]
  BY WithoutOf
<1>2. p \in 1 .. Len(s) /\ Len(s) \in Nat /\ DOMAIN s = 1 .. Len(s)
  BY PositionOf, LenProperties
<1> HIDE DEF w, p
<1>3. DOMAIN w = 1 .. Len(s) - 1
  BY <1>1, <1>2
<1>4. ASSUME NEW i \in DOMAIN w PROVE \E j \in DOMAIN s : w[i] = s[j]
  <2>1. CASE i < p
    <3>1. i \in DOMAIN s /\ w[i] = s[i]
      BY <1>1, <1>2, <1>3, <2>1
    <3>2. QED
      BY <3>1
  <2>2. CASE ~(i < p)
    <3>1. i + 1 \in DOMAIN s /\ w[i] = s[i + 1]
      BY <1>1, <1>2, <1>3, <2>2
    <3>2. QED
      BY <3>1
  <2>3. QED
    BY <2>1, <2>2
<1>5. QED
  BY <1>4 DEF AllFound, Findable, w

LEMMA RoomFound ==
  ASSUME NEW s, Sound(s), AllFound(s)
  PROVE  AllFound(WithRoom(s))
<1>1. s \in Seq(Entry) /\ Distinct(s) /\ Len(s) \in Nat /\ DOMAIN s = 1 .. Len(s)
  BY LenProperties DEF Sound
<1>2. CASE ~(Len(s) >= CapPerShard)
  BY <1>2 DEF WithRoom
<1>3. CASE Len(s) >= CapPerShard
  <2> DEFINE z == Last(s).key
             w == Unindexed(Front(s), z)
  <2>1. Len(s) > 0 /\ WithRoom(s) = w
    BY <1>1, <1>3, CapacityPositive DEF WithRoom
  <2>2. Last(s) = s[Len(s)]
    BY <1>1, <2>1, RoomEntries
  <2>3. /\ Len(Front(s)) = Len(s) - 1 /\ Front(s) \in Seq(Entry)
        /\ \A i \in 1 .. Len(s) - 1 : Front(s)[i] = s[i]
    BY <1>1, <2>1, FrontOf
  <2>4. DOMAIN Front(s) = 1 .. Len(s) - 1 /\ Len(s) \in DOMAIN s
    BY <1>1, <2>1, <2>3
  <2>5. /\ DOMAIN w = DOMAIN Front(s)
        /\ \A i \in DOMAIN w : w[i] = IF Front(s)[i].key = z THEN [key |-> z, val |-> Absent]
                                                             ELSE Front(s)[i]
    BY DEF Unindexed
  <2> HIDE DEF w
  <2>6. ASSUME NEW i \in DOMAIN w PROVE Findable(w, i)
    <3>1. i \in DOMAIN s /\ i # Len(s) /\ Front(s)[i] = s[i]
      BY <1>1, <2>3, <2>4, <2>5
    <3>2. s[i].key # s[Len(s)].key
      BY <1>1, <2>4, <3>1 DEF AllFound, Distinct
    <3>3. w[i] = s[i]
      BY <2>2, <2>5, <3>1, <3>2
    <3>4. QED
      BY <3>1, <3>3 DEF AllFound, Findable
  <2>7. QED
    BY <2>1, <2>6 DEF AllFound
<1>4. QED
  BY <1>2, <1>3

LEMMA ConsFound ==
  ASSUME NEW s \in Seq(Entry), AllFound(s), NEW e \in Entry, e.val # Absent
  PROVE  AllFound(Cons(e, s))
<1> DEFINE c == Cons(e, s)
<1>1. /\ \A i \in DOMAIN c : i = 1 \/ (i > 1 /\ i - 1 \in DOMAIN s /\ c[i] = s[i - 1])
      /\ c[1] = e
  BY ConsPlaces
<1> HIDE DEF c
<1>2. QED
  BY <1>1 DEF AllFound, Findable, c

LEMMA NoOrphansKept ==
  ASSUME CacheInv, NoOrphans, NEW h \in Shards, NEW u, AllFound(u),
         shards' = [shards EXCEPT ![h] = u]
  PROVE  NoOrphans'
<1>1. \A i \in Shards : shards'[i] = IF i = h THEN u ELSE shards[i]
  BY DEF CacheInv, CacheTypeOK
<1>2. \A i \in Shards : AllFound(shards'[i])
  BY <1>1 DEF NoOrphans
<1>3. QED
  BY <1>2 DEF NoOrphans

LEMMA NoOrphansStep ==
  ASSUME CacheInv, NoOrphans, NEW k \in Keys,
         \/ Get(k) \/ Delete(k) \/ \E v \in Values : Put(k, v)
  PROVE  NoOrphans'
<1> DEFINE h == ShardIndex(k)
           s == shards[h]
<1>1. h \in Shards /\ Sound(s) /\ s \in Seq(Entry) /\ AllFound(s)
  BY HomeShard, ShardKeys DEF NoOrphans
<1>2. Has(s, k) => /\ AllFound(Without(s, k)) /\ Without(s, k) \in Seq(Entry)
                   /\ s[Position(s, k)] \in Entry /\ s[Position(s, k)].val # Absent
  BY <1>1, WithoutFound, WithoutOf, PositionOf DEF Findable
<1>3. CASE Get(k)
  <2>1. CASE Cached(k)
    <3>1. Has(s, k) /\ shards' = [shards EXCEPT ![h] = Promoted(s, k)]
      BY <1>3, <2>1 DEF Get, CacheGet, Cached
    <3>2. AllFound(Promoted(s, k))
      BY <1>2, <3>1, ConsFound DEF Promoted
    <3>3. QED
      BY <1>1, <3>1, <3>2, NoOrphansKept
  <2>2. CASE ~Cached(k)
    BY <1>3, <2>2 DEF Get, CacheGet, NoOrphans
  <2>3. QED
    BY <2>1, <2>2
<1>4. CASE Delete(k)
  <2>1. shards' = [shards EXCEPT ![h] = Removed(s, k)]
    BY <1>4 DEF Delete, CacheRemove
  <2>2. AllFound(Removed(s, k))
    BY <1>1, <1>2 DEF Removed
  <2>3. QED
    BY <1>1, <2>1, <2>2, NoOrphansKept
<1>5. CASE \E v \in Values : Put(k, v)
  <2>1. PICK v \in Values : Put(k, v)
    BY <1>5
  <2> DEFINE e == [key |-> k, val |-> v]
             w == IF Has(s, k) THEN Without(s, k) ELSE WithRoom(s)
  <2>2. shards' = [shards EXCEPT ![h] = Cons(e, w)]
    BY <2>1 DEF Put, CachePut, Stored
  <2>3. e \in Entry /\ e.val # Absent
    BY CacheAssumption DEF Entry
  <2>4. w \in Seq(Entry) /\ AllFound(w)
    BY <1>1, <1>2, RoomFound, WithRoomOf
  <2> HIDE DEF e, w
  <2>5. AllFound(Cons(e, w))
    BY <2>3, <2>4, ConsFound
  <2>6. QED
    BY <1>1, <2>2, <2>5, NoOrphansKept
<1>6. QED
  BY <1>3, <1>4, <1>5
-----------------------------------------------------------------------------
(* Every key put and not removed was used, and is cached or crowded out.   *)

Kept(k) == Cached(k) \/ Cardinality(UsedSince(k)) >= CapPerShard

KeptInv == live \subseteq ToSet(recent) /\ \A k \in live : Kept(k)
LostInv == failed \/ (NoOrphans /\ KeptInv)

LEMMA UsedSinceFinite ==
  ASSUME RecentOK, NEW k
  PROVE  IsFiniteSet(UsedSince(k)) /\ Cardinality(UsedSince(k)) \in Nat
<1>1. IsFiniteSet(ToSet(recent))
  BY ToSetFinite DEF RecentOK
<1>2. UsedSince(k) \subseteq ToSet(recent)
  BY DEF UsedSince
<1>3. QED
  BY <1>1, <1>2, FS_Subset, FS_CardinalityType

(* The keys used since a key's last use only grow until its next.          *)
LEMMA SinceGrows ==
  ASSUME RecentOK, NEW k \in Keys, Used(k), NEW x \in ToSet(recent) \ {k}
  PROVE  /\ \A y \in UsedSince(x) : y \in UsedSince(x)'
         /\ Cardinality(UsedSince(x)) >= CapPerShard
              => Cardinality(UsedSince(x)') >= CapPerShard
<1>1. /\ RecentOK' /\ ToSet(recent') = ToSet(recent) \cup {k}
      /\ \A y \in ToSet(recent) \ {k} : Rank(k)' < Rank(y)'
      /\ \A y, z \in ToSet(recent) \ {k} : Rank(y)' < Rank(z)' <=> Rank(y) < Rank(z)
  BY UsedRanks
<1>2. UsedSince(x) \subseteq UsedSince(x)'
  <2> SUFFICES ASSUME NEW y \in UsedSince(x) PROVE y \in UsedSince(x)'
    OBVIOUS
  <2>1. y \in ToSet(recent) /\ ShardIndex(y) = ShardIndex(x) /\ Rank(y) < Rank(x)
    BY DEF UsedSince
  <2>2. Rank(y)' < Rank(x)'
    BY <1>1, <2>1
  <2>3. QED
    BY <1>1, <2>1, <2>2 DEF UsedSince
<1>3. IsFiniteSet(UsedSince(x)') /\ Cardinality(UsedSince(x)') \in Nat
  <2>1. IsFiniteSet(ToSet(recent'))
    BY <1>1, ToSetFinite DEF RecentOK
  <2>2. UsedSince(x)' \subseteq ToSet(recent')
    BY DEF UsedSince
  <2>3. QED
    BY <2>1, <2>2, FS_Subset, FS_CardinalityType
<1>4. Cardinality(UsedSince(x)) \in Nat
  BY UsedSinceFinite
<1> DEFINE A == UsedSince(x)
           B == UsedSince(x)'
<1> HIDE DEF A, B
<1>5. Cardinality(A) <= Cardinality(B)
  <2>1. A \subseteq B /\ IsFiniteSet(B)
    BY <1>2, <1>3 DEF A, B
  <2>2. QED
    BY <2>1, FS_Subset
<1>6. Cardinality(A) \in Nat /\ Cardinality(B) \in Nat
  BY <1>3, <1>4 DEF A, B
<1>7. Cardinality(A) >= CapPerShard => Cardinality(B) >= CapPerShard
  BY <1>5, <1>6, CapacityPositive
<1>8. QED
  BY <1>2, <1>7 DEF A, B

LEMMA HitKeeps ==
  ASSUME CacheInv, OrderInv, KeptInv, NEW k \in Keys, Get(k)
  PROVE  KeptInv'
<1>1. \A x \in Keys : Same(x)
  BY GetStep DEF Get
<1>2. CASE Cached(k)
  <2>1. Used(k) /\ live' = live
    BY <1>2 DEF Get
  <2>2. RecentOK /\ ToSet(recent') = ToSet(recent) \cup {k}
    BY <2>1, UsedRanks DEF OrderInv
  <2>3. ASSUME NEW x \in live PROVE Kept(x)'
    <3>1. x \in ToSet(recent) /\ Kept(x)
      BY DEF KeptInv
    <3>2. x \in Keys
      BY <2>2, <3>1 DEF RecentOK, ToSet
    <3>3. CASE Cached(x)
      BY <1>1, <3>2, <3>3 DEF Same, Kept
    <3>4. CASE ~Cached(x)
      <4>1. x # k /\ Cardinality(UsedSince(x)) >= CapPerShard
        BY <1>2, <3>1, <3>4 DEF Kept
      <4>2. QED
        BY <2>1, <2>2, <3>1, <4>1, SinceGrows DEF Kept
    <3>5. QED
      BY <3>3, <3>4
  <2>4. QED
    BY <2>1, <2>2, <2>3 DEF KeptInv
<1>3. CASE ~Cached(k)
  BY <1>3 DEF Get, CacheGet, KeptInv, Kept, Cached, UsedSince, Rank
<1>4. QED
  BY <1>2, <1>3

(* The entry a put evicts was used before every other entry of its shard,  *)
(* which is full.                                                          *)
LEMMA EvictedIsOldest ==
  ASSUME CacheInv, OrderInv, NoOrphans, NEW k \in Keys, NEW v \in Values, Put(k, v),
         NEW x \in Keys \ {k}, Cached(x), ~Cached(x)'
  PROVE  LET s == shards[ShardIndex(k)] IN
         /\ x \in KeysOf(s) /\ k \notin KeysOf(s) /\ Len(s) >= CapPerShard
         /\ ShardIndex(x) = ShardIndex(k)
         /\ \A y \in KeysOf(s) \ {x} : Rank(y) < Rank(x)
<1> DEFINE h == ShardIndex(k)
           s == shards[h]
           e == [key |-> k, val |-> v]
           w == IF Has(s, k) THEN Without(s, k) ELSE WithRoom(s)
<1>1. /\ h \in Shards /\ Sound(s) /\ s \in Seq(Entry) /\ Sorted(s, Ranks)
      /\ \A y \in KeysOf(s) : y \in Keys /\ ShardIndex(y) = h
  BY HomeShard, ShardKeys DEF OrderInv
<1>2. /\ w \in Seq(Entry)
      /\ \A y \in KeysOf(s) \ KeysOf(w) :
           y = k \/ /\ ~Has(s, k) /\ Len(s) >= CapPerShard
                    /\ Len(s) \in DOMAIN s /\ y = s[Len(s)].key
  BY <1>1, KeptByPut
<1>3. shards' = [shards EXCEPT ![h] = Cons(e, w)]
  BY DEF Put, CachePut, Stored
<1>4. e \in Entry
  BY DEF Entry
<1>13. Found(s) = DOMAIN s
  BY <1>1 DEF NoOrphans, AllFound, Found
<1> HIDE DEF w, e
<1>5. shards'[h] = Cons(e, w) /\ \A g \in Shards \ {h} : shards'[g] = shards[g]
  BY <1>1, <1>3 DEF CacheInv, CacheTypeOK
<1>6. ShardIndex(x) = h
  BY <1>5, HomeShard DEF Cached
<1>7. x \in KeysOf(s) /\ x \notin KeysOf(Cons(e, w))
  BY <1>5, <1>6 DEF Cached, Has, KeysOf, Found
<1>8. x \notin KeysOf(w)
  <2>1. \A y \in KeysOf(w) : y \in KeysOf(Cons(e, w))
    <3>1. /\ Len(Cons(e, w)) = Len(w) + 1 /\ Cons(e, w) \in Seq(Entry)
          /\ \A i \in 2 .. Len(w) + 1 : Cons(e, w)[i] = w[i - 1]
      BY <1>2, <1>4, ConsOf
    <3>2. \A i \in DOMAIN w : i + 1 \in DOMAIN Cons(e, w) /\ Cons(e, w)[i + 1] = w[i]
      BY <1>2, <3>1
    <3>3. QED
      BY <3>2 DEF KeysOf, Found, Findable
  <2>2. QED
    BY <1>7, <2>1
<1>9. /\ ~Has(s, k) /\ Len(s) >= CapPerShard /\ Len(s) \in DOMAIN s
      /\ x = s[Len(s)].key
  BY <1>2, <1>7, <1>8
<1>10. k \notin KeysOf(s)
  BY <1>9 DEF Has, KeysOf, Found
<1>11. ASSUME NEW y \in KeysOf(s) \ {x} PROVE Rank(y) < Rank(x)
  <2>1. PICK i \in Found(s) : s[i].key = y
    BY DEF KeysOf
  <2>2. i \in 1 .. Len(s) /\ Len(s) \in DOMAIN s /\ i # Len(s)
    BY <1>1, <1>9, <1>13, <2>1, LenProperties
  <2>3. i < Len(s)
    BY <1>1, <2>2
  <2>4. Ranks[y] < Ranks[x]
    BY <1>1, <1>9, <1>13, <2>1, <2>2, <2>3 DEF Sorted
  <2>5. QED
    BY <1>1, <2>4 DEF Ranks
<1>12. QED
  BY <1>6, <1>7, <1>9, <1>10, <1>11

(* The key of the put and the others of the full shard are the shard's     *)
(* worth of keys used since.                                               *)
LEMMA EvictedIsCrowded ==
  ASSUME CacheInv, OrderInv, NoOrphans, NEW k \in Keys, NEW v \in Values, Put(k, v),
         NEW x \in Keys \ {k}, Cached(x), ~Cached(x)'
  PROVE  Cardinality(UsedSince(x)') >= CapPerShard
<1> DEFINE h == ShardIndex(k)
           s == shards[h]
           K == KeysOf(s)
           A == (K \ {x}) \cup {k}
           B == UsedSince(x)'
<1>1. /\ x \in K /\ k \notin K /\ Len(s) >= CapPerShard /\ ShardIndex(x) = h
      /\ \A y \in K \ {x} : Rank(y) < Rank(x)
  BY EvictedIsOldest
<1>2. s \in Seq(Entry) /\ Distinct(s) /\ \A y \in K : ShardIndex(y) = h
  BY HomeShard, ShardKeys
<1>3. K \subseteq ToSet(recent)
  BY HomeShard DEF OrderInv
<1>4. IsFiniteSet(K) /\ Cardinality(K) = Len(s) /\ Len(s) \in Nat
  <2>1. Found(s) = DOMAIN s
    BY HomeShard DEF NoOrphans, AllFound, Found
  <2>2. QED
    BY <1>2, <2>1, KeysCounted
<1>5. /\ RecentOK' /\ ToSet(recent') = ToSet(recent) \cup {k}
      /\ \A y \in ToSet(recent) \ {k} : Rank(k)' < Rank(y)'
      /\ \A y, z \in ToSet(recent) \ {k} : Rank(y)' < Rank(z)' <=> Rank(y) < Rank(z)
  BY UsedRanks DEF OrderInv, Put
<1> HIDE DEF K
<1>6. ASSUME NEW y \in A
      PROVE  y \in ToSet(recent') /\ ShardIndex(y) = ShardIndex(x) /\ Rank(y)' < Rank(x)'
  <2>1. x \in ToSet(recent) \ {k}
    BY <1>1, <1>3
  <2>2. CASE y = k
    BY <1>1, <1>5, <2>1, <2>2
  <2>3. CASE y \in K \ {x}
    <3>1. y \in ToSet(recent) \ {k} /\ Rank(y) < Rank(x) /\ ShardIndex(y) = h
      BY <1>1, <1>2, <1>3, <2>3
    <3>2. QED
      BY <1>1, <1>5, <2>1, <3>1
  <2>4. QED
    BY <2>2, <2>3
<1>7. A \subseteq B
  BY <1>6 DEF UsedSince
<1>8. IsFiniteSet(B) /\ Cardinality(B) \in Nat
  <2>1. IsFiniteSet(ToSet(recent'))
    BY <1>5, ToSetFinite DEF RecentOK
  <2>2. B \subseteq ToSet(recent')
    BY DEF UsedSince
  <2>3. QED
    BY <2>1, <2>2, FS_Subset, FS_CardinalityType
<1> HIDE DEF B
<1>9. IsFiniteSet(A) /\ Cardinality(A) = Len(s)
  <2> DEFINE R == K \ {x}
  <2>1. IsFiniteSet(R) /\ Cardinality(R) = Cardinality(K) - 1
    BY <1>1, <1>4, FS_RemoveElement
  <2>2. k \notin R
    BY <1>1
  <2> HIDE DEF R
  <2>3. IsFiniteSet(R \cup {k}) /\ Cardinality(R \cup {k}) = Cardinality(R) + 1
    BY <2>1, <2>2, FS_AddElement
  <2>4. A = R \cup {k}
    BY DEF R
  <2>5. Cardinality(K) = Len(s) /\ Len(s) \in Nat
    BY <1>4 DEF K
  <2>6. QED
    BY <2>1, <2>3, <2>4, <2>5 DEF R
<1> HIDE DEF A
<1>10. Cardinality(A) <= Cardinality(B)
  <2>1. A \subseteq B /\ IsFiniteSet(B)
    BY <1>7, <1>8 DEF A, B
  <2>2. QED
    BY <2>1, FS_Subset
<1>11. Cardinality(A) >= CapPerShard /\ Cardinality(A) \in Nat /\ Cardinality(B) \in Nat
  BY <1>1, <1>4, <1>8, <1>9 DEF A, B
<1>12. Cardinality(B) >= CapPerShard
  BY <1>10, <1>11, CapacityPositive
<1>13. QED
  BY <1>12 DEF B

LEMMA PutKeeps ==
  ASSUME CacheInv, OrderInv, NoOrphans, KeptInv, NEW k \in Keys, NEW v \in Values, Put(k, v)
  PROVE  KeptInv'
<1>1. Used(k) /\ live' = live \cup {k} /\ RecentOK
  BY DEF Put, OrderInv
<1>2. ToSet(recent') = ToSet(recent) \cup {k}
  BY <1>1, UsedRanks
<1>3. Cached(k)'
  BY PutStep DEF Put
<1>4. ASSUME NEW x \in live \ {k} PROVE Kept(x)'
  <2>1. x \in ToSet(recent) /\ Kept(x)
    BY DEF KeptInv
  <2>2. x \in Keys
    BY <1>1, <2>1 DEF RecentOK, ToSet
  <2>3. CASE Cached(x)
    BY <2>2, <2>3, EvictedIsCrowded DEF Kept
  <2>4. CASE ~Cached(x)
    BY <1>1, <2>1, <2>4, SinceGrows DEF Kept
  <2>5. QED
    BY <2>3, <2>4
<1>5. live' \subseteq ToSet(recent')
  BY <1>1, <1>2 DEF KeptInv
<1>6. \A x \in live' : Kept(x)'
  BY <1>1, <1>3, <1>4 DEF Kept
<1>7. QED
  BY <1>5, <1>6 DEF KeptInv

LEMMA DeleteKeeps ==
  ASSUME CacheInv, OrderInv, KeptInv, NEW k \in Keys, Delete(k)
  PROVE  KeptInv'
<1>1. live' = live \ {k} /\ recent' = recent /\ \A x \in Keys \ {k} : Same(x)
  BY RemoveStep DEF Delete
<1>2. ASSUME NEW x \in live \ {k} PROVE Kept(x)'
  <2>1. x \in ToSet(recent) /\ Kept(x)
    BY DEF KeptInv
  <2>2. x \in Keys /\ Same(x)
    BY <1>1, <2>1 DEF OrderInv, RecentOK, ToSet
  <2>3. UsedSince(x)' = UsedSince(x)
    BY <1>1 DEF UsedSince, Rank
  <2>4. QED
    BY <2>1, <2>2, <2>3 DEF Kept, Same
<1>3. live' \subseteq ToSet(recent')
  BY <1>1 DEF KeptInv
<1>4. \A x \in live' : Kept(x)'
  BY <1>1, <1>2
<1>5. QED
  BY <1>3, <1>4 DEF KeptInv

LEMMA LostInvariant == HistorySpec => []LostInv
<1>1. HistoryInit => LostInv
  <2>1. HistoryInit => \A h \in Shards : shards[h] = <<>>
    BY DEF HistoryInit, CacheInit, EmptyShards
  <2>2. HistoryInit => NoOrphans
    BY <2>1 DEF NoOrphans, AllFound
  <2>3. QED
    BY <2>2 DEF HistoryInit, LostInv, KeptInv
<1>2. ASSUME CacheInv, OrderInv, LostInv, [HistoryNext]_historyVars PROVE LostInv'
  <2>1. CASE failed
    <3>1. failed'
      BY <1>2, <2>1 DEF HistoryNext, historyVars, Get, Put, PutFails, Delete
    <3>2. QED
      BY <3>1 DEF LostInv
  <2>2. CASE ~failed /\ UNCHANGED historyVars
    <3>1. NoOrphans /\ KeptInv
      BY <1>2, <2>2 DEF LostInv
    <3>2. NoOrphans'
      BY <2>2, <3>1 DEF historyVars, NoOrphans
    <3>3. KeptInv'
      BY <2>2, <3>1 DEF historyVars, KeptInv, Kept, Cached, UsedSince, Rank
    <3>4. QED
      BY <3>2, <3>3 DEF LostInv
  <2>3. CASE ~failed /\ HistoryNext
    <3>1. NoOrphans /\ KeptInv
      BY <1>2, <2>3 DEF LostInv
    <3>2. CASE \E k \in Keys : PutFails(k)
      BY <3>2 DEF PutFails, LostInv
    <3>3. ASSUME NEW k \in Keys, Get(k) \/ Delete(k) \/ \E v \in Values : Put(k, v)
          PROVE  LostInv'
      <4>1. NoOrphans'
        BY <1>2, <3>1, <3>3, NoOrphansStep
      <4>2. KeptInv'
        BY <1>2, <3>1, <3>3, HitKeeps, PutKeeps, DeleteKeeps
      <4>3. QED
        BY <4>1, <4>2 DEF LostInv
    <3>4. QED
      BY <2>3, <3>2, <3>3 DEF HistoryNext
  <2>4. QED
    BY <1>2, <2>1, <2>2, <2>3
<1>3. QED
  BY <1>1, <1>2, OrderInvariant, PTL DEF HistorySpec

(* An entry that was put and not removed is gone only if a shard's worth   *)
(* of other keys of its shard were used since its last use, or an          *)
(* allocation has failed.                                                  *)
THEOREM OnlyCrowdedEntriesAreLost == HistorySpec => []LostOnlyWhenCrowded
<1>1. LostInv => LostOnlyWhenCrowded
  BY DEF LostInv, KeptInv, Kept, LostOnlyWhenCrowded
<1>2. QED
  BY <1>1, LostInvariant, PTL
=============================================================================
