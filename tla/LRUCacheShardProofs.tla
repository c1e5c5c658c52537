------------------------ MODULE LRUCacheShardProofs ------------------------
(***************************************************************************)
(* The shard's list and index, statement by statement: for every set of    *)
(* threads, keys and values and every capacity they stay in agreement, and *)
(* the operations between lock and unlock are those of ShardedLRUCache.    *)
(***************************************************************************)
EXTENDS LRUCacheShard, SequenceTheorems, TLAPS

(* What push_front, erase and pop_back make of a list.                     *)
LEMMA ConsOf ==
  ASSUME NEW S, NEW s \in Seq(S), NEW e \in S
  PROVE  /\ Cons(e, s) \in Seq(S)
         /\ Len(Cons(e, s)) = Len(s) + 1
         /\ Cons(e, s)[1] = e
         /\ \A i \in 2 .. Len(s) + 1 : Cons(e, s)[i] = s[i - 1]
<1>1. <<e>> \in Seq(S) /\ Len(<<e>>) = 1 /\ <<e>>[1] = e
  OBVIOUS
<1>2. QED
  BY <1>1, ConcatProperties DEF Cons

(* The same, under a name: l is s, a sequence of elements of S, behind e.  *)
IsCons(l, e, s, S) ==
  /\ l \in Seq(S) /\ Len(l) = Len(s) + 1 /\ l[1] = e
  /\ \A i \in 2 .. Len(s) + 1 : l[i] = s[i - 1]

LEMMA ConsIs ==
  ASSUME NEW S, NEW s \in Seq(S), NEW e \in S
  PROVE  IsCons(Cons(e, s), e, s, S)
BY ConsOf DEF IsCons

LEMMA RemoveAtOf ==
  ASSUME NEW S, NEW s \in Seq(S), NEW p \in 1 .. Len(s)
  PROVE  /\ RemoveAt(s, p) \in Seq(S)
         /\ Len(RemoveAt(s, p)) = Len(s) - 1
         /\ \A i \in 1 .. Len(s) - 1 :
              RemoveAt(s, p)[i] = IF i < p THEN s[i] ELSE s[i + 1]
<1> DEFINE l == SubSeq(s, 1, p - 1)
           r == SubSeq(s, p + 1, Len(s))
<1>1. /\ l \in Seq(S) /\ Len(l) = p - 1
      /\ \A i \in 1 .. p - 1 : l[i] = s[i]
  OBVIOUS
<1>2. /\ r \in Seq(S) /\ Len(r) = Len(s) - p
      /\ \A i \in 1 .. Len(s) - p : r[i] = s[p + i]
  OBVIOUS
<1>3. RemoveAt(s, p) = l \o r
  BY DEF RemoveAt
<1> HIDE DEF l, r
<1>4. /\ l \o r \in Seq(S) /\ Len(l \o r) = Len(l) + Len(r)
      /\ \A i \in 1 .. Len(l) + Len(r) :
           (l \o r)[i] = IF i <= Len(l) THEN l[i] ELSE r[i - Len(l)]
  BY <1>1, <1>2, ConcatProperties
<1>5. ASSUME NEW i \in 1 .. Len(s) - 1
      PROVE  (l \o r)[i] = IF i < p THEN s[i] ELSE s[i + 1]
  <2>1. i \in 1 .. Len(l) + Len(r)
    BY <1>1, <1>2
  <2>2. CASE i < p
    <3>1. i <= Len(l) /\ i \in 1 .. p - 1
      BY <1>1, <2>2
    <3>2. QED
      BY <1>1, <1>4, <2>1, <2>2, <3>1
  <2>3. CASE ~(i < p)
    <3>1. ~(i <= Len(l)) /\ i - Len(l) \in 1 .. Len(s) - p /\ p + (i - Len(l)) = i + 1
      BY <1>1, <2>3
    <3>2. QED
      BY <1>2, <1>4, <2>1, <2>3, <3>1
  <2>4. QED
    BY <2>2, <2>3
<1>6. QED
  BY <1>1, <1>2, <1>3, <1>4, <1>5

LEMMA FrontOf ==
  ASSUME NEW S, NEW s \in Seq(S), s # <<>>
  PROVE  /\ Front(s) \in Seq(S)
         /\ Len(Front(s)) = Len(s) - 1
         /\ \A i \in 1 .. Len(s) - 1 : Front(s)[i] = s[i]
         /\ Len(s) \in 1 .. Len(s) /\ Last(s) = s[Len(s)]
<1> DEFINE n == Len(s) - 1
<1>1. n \in Nat /\ Len(s) \in 1 .. Len(s) /\ \A i \in 1 .. n : s[i] \in S
  BY LenProperties
<1> HIDE DEF n
<1>2. SubSeq(s, 1, n) \in Seq(S) /\ Len(SubSeq(s, 1, n)) = n
  BY <1>1, SubSeqProperties
<1>3. \A i \in 1 .. n : SubSeq(s, 1, n)[i] = s[i]
  BY <1>1, SubSeqProperties
<1>4. QED
  BY <1>1, <1>2, <1>3 DEF Front, Last, n

(* The nodes of the list after each of them.                               *)
LEMMA ConsNodes ==
  ASSUME NEW S, NEW s \in Seq(S), NEW n \in S, IsInjective(s), n \notin ToSet(s)
  PROVE  /\ IsInjective(Cons(n, s))
         /\ ToSet(Cons(n, s)) = ToSet(s) \cup {n}
<1> DEFINE c == Cons(n, s)
           Old(i) == i - 1
<1>1. /\ c \in Seq(S) /\ Len(c) = Len(s) + 1 /\ c[1] = n
      /\ \A i \in 2 .. Len(s) + 1 : c[i] = s[i - 1]
  <2>1. IsCons(c, n, s, S)
    BY ConsIs
  <2>2. QED
    BY <2>1 DEF IsCons
<1> HIDE DEF c
<1>2. DOMAIN s = 1 .. Len(s) /\ DOMAIN c = 1 .. Len(s) + 1 /\ Len(s) \in Nat
  BY <1>1
<1>3. /\ 1 \in DOMAIN c /\ c[1] = n
      /\ \A i \in DOMAIN c : i = 1 \/ (Old(i) \in DOMAIN s /\ c[i] = s[Old(i)])
      /\ \A i, j \in DOMAIN c : Old(i) = Old(j) => i = j
      /\ \A i \in DOMAIN s : i + 1 \in DOMAIN c /\ c[i + 1] = s[i]
  BY <1>1, <1>2
<1> HIDE DEF Old
<1>4. \A i \in DOMAIN s : s[i] # n
  BY DEF ToSet
<1>5. IsInjective(c)
  BY <1>3, <1>4 DEF IsInjective
<1>6. ToSet(c) = ToSet(s) \cup {n}
  BY <1>3 DEF ToSet
<1>7. QED
  BY <1>5, <1>6 DEF c

LEMMA RemoveAtNodes ==
  ASSUME NEW S, NEW s \in Seq(S), NEW p \in 1 .. Len(s), IsInjective(s)
  PROVE  /\ IsInjective(RemoveAt(s, p))
         /\ ToSet(RemoveAt(s, p)) = ToSet(s) \ {s[p]}
<1> DEFINE r == RemoveAt(s, p)
           Old(i) == IF i < p THEN i ELSE i + 1
           New(i) == IF i < p THEN i ELSE i - 1
<1>1. /\ r \in Seq(S) /\ Len(r) = Len(s) - 1
      /\ \A i \in 1 .. Len(s) - 1 : r[i] = IF i < p THEN s[i] ELSE s[i + 1]
  BY RemoveAtOf
<1>2. DOMAIN r = 1 .. Len(s) - 1 /\ DOMAIN s = 1 .. Len(s) /\ Len(s) \in Nat
  BY <1>1
<1> HIDE DEF r
<1>3. /\ \A i \in DOMAIN r : Old(i) \in DOMAIN s /\ Old(i) # p /\ r[i] = s[Old(i)]
      /\ \A i, j \in DOMAIN r : Old(i) = Old(j) => i = j
      /\ \A i \in DOMAIN s : i # p => New(i) \in DOMAIN r /\ r[New(i)] = s[i]
  BY <1>1, <1>2
<1> HIDE DEF Old, New
<1>4. IsInjective(r)
  BY <1>3 DEF IsInjective
<1>5. ToSet(r) = ToSet(s) \ {s[p]}
  BY <1>2, <1>3 DEF ToSet, IsInjective
<1>6. QED
  BY <1>4, <1>5 DEF r

LEMMA FrontNodes ==
  ASSUME NEW S, NEW s \in Seq(S), s # <<>>, IsInjective(s)
  PROVE  /\ IsInjective(Front(s))
         /\ ToSet(Front(s)) = ToSet(s) \ {Last(s)}
<1>1. /\ Front(s) \in Seq(S) /\ Len(Front(s)) = Len(s) - 1
      /\ \A i \in 1 .. Len(s) - 1 : Front(s)[i] = s[i]
      /\ Len(s) \in 1 .. Len(s) /\ Last(s) = s[Len(s)]
  BY FrontOf
<1>2. DOMAIN Front(s) = 1 .. Len(s) - 1 /\ DOMAIN s = 1 .. Len(s) /\ Len(s) \in Nat
  BY <1>1
<1>3. IsInjective(Front(s))
  BY <1>1, <1>2 DEF IsInjective
<1>4. ToSet(Front(s)) = ToSet(s) \ {Last(s)}
  BY <1>1, <1>2 DEF ToSet, IsInjective
<1>5. QED
  BY <1>3, <1>4

LEMMA SpliceNodes ==
  ASSUME NEW S, NEW s \in Seq(S), NEW p \in 1 .. Len(s), IsInjective(s)
  PROVE  /\ Cons(s[p], RemoveAt(s, p)) \in Seq(S)
         /\ Len(Cons(s[p], RemoveAt(s, p))) = Len(s)
         /\ IsInjective(Cons(s[p], RemoveAt(s, p)))
         /\ ToSet(Cons(s[p], RemoveAt(s, p))) = ToSet(s)
<1> DEFINE r == RemoveAt(s, p)
           n == s[p]
<1>1. n \in S /\ n \in ToSet(s) /\ Len(s) \in Nat
  BY DEF ToSet
<1>2. r \in Seq(S) /\ Len(r) = Len(s) - 1
  BY RemoveAtOf
<1>3. IsInjective(r) /\ ToSet(r) = ToSet(s) \ {n}
  BY RemoveAtNodes
<1> HIDE DEF r, n
<1>4. Cons(n, r) \in Seq(S) /\ Len(Cons(n, r)) = Len(r) + 1
  BY <1>1, <1>2, ConsOf
<1>5. IsInjective(Cons(n, r)) /\ ToSet(Cons(n, r)) = ToSet(r) \cup {n}
  BY <1>1, <1>2, <1>3, ConsNodes
<1>6. QED
  BY <1>1, <1>2, <1>3, <1>4, <1>5 DEF r, n

(* std::list's iterator: the place of a node.                              *)
LEMMA AtOf ==
  ASSUME NEW n \in ToSet(items)
  PROVE  At(n) \in DOMAIN items /\ items[At(n)] = n
  BY DEF At, ToSet
-----------------------------------------------------------------------------
Live == ToSet(items)
EntryType == [key : Keys, val : Values]

(* The mutex: exactly its owner is inside an operation.                    *)
Locked == \A t \in Threads : pc[t] # "idle" <=> mtx = t

(* Which operation may be at which statement.                              *)
Control ==
  \A t \in Threads :
    /\ pc[t] # "idle" => op[t].key \in Keys /\ op[t].what # "none"
    /\ op[t].what = "put" => op[t].val \in Values
    /\ pc[t] = "splice" => op[t].what \in {"get", "put"}
    /\ pc[t] = "read" => op[t].what = "get"
    /\ pc[t] \in {"assign", "unindexLast", "pop", "push", "index"} => op[t].what = "put"
    /\ pc[t] \in {"erase", "unindex"} => op[t].what = "remove"

(* The list: distinct nodes, allocated exactly when they are in it.        *)
NodesOK ==
  /\ IsInjective(items) /\ Len(items) <= Capacity
  /\ \A n \in Nodes : IF n \in Live THEN cell[n] \in EntryType ELSE cell[n] = Freed

(* The index leads to a node with that key, but for remove half done.      *)
IndexOK ==
  \A k \in Keys :
    cacheMap[k] # NoNode =>
      \/ cacheMap[k] \in Live /\ cell[cacheMap[k]].key = k
      \/ mtx # Nobody /\ pc[mtx] = "unindex" /\ op[mtx].key = k

(* What each statement relies on.                                          *)
Relies ==
  \A t \in Threads :
    /\ pc[t] \in {"splice", "read", "assign", "erase"} =>
         it[t] = cacheMap[op[t].key] /\ it[t] # NoNode
    /\ pc[t] \in {"unindexLast", "pop", "push", "index"} => cacheMap[op[t].key] = NoNode
    /\ pc[t] \in {"unindexLast", "pop", "index"} => items # <<>>
    /\ pc[t] = "pop" => /\ \A k \in Keys : cacheMap[k] # Last(items)
                        /\ cacheMap[cell[Last(items)].key] = NoNode
    /\ pc[t] = "push" => Len(items) < Capacity
    /\ pc[t] = "index" => cell[Head(items)].key = op[t].key
    /\ pc[t] = "unindex" => cacheMap[op[t].key] \notin Live
    /\ pc[t] = "idle" => ret[t] = Absent

Structure == TypeOK /\ Locked /\ Control /\ NodesOK /\ IndexOK /\ Relies

(* Until an allocation fails every node can be found by its key, but for   *)
(* the one that is about to go and the one that has just come.             *)
Findable(i) == cacheMap[cell[items[i]].key] = items[i]
AllFindable ==
  \A i \in DOMAIN items :
    \/ Findable(i)
    \/ mtx # Nobody /\ pc[mtx] = "pop" /\ i = Len(items)
    \/ mtx # Nobody /\ pc[mtx] = "index" /\ i = 1

(* How far the owner of the mutex has come from the published list.        *)
Assigned(s, k, v) == [i \in DOMAIN s |-> IF s[i].key = k THEN [key |-> k, val |-> v] ELSE s[i]]

Progress(t) ==
  LET k == op[t].key
      v == op[t].val
      has == Atomic!Has(published, k)
  IN
  /\ pc[t] = "splice" /\ op[t].what = "get" => Listing = published
  /\ pc[t] = "splice" /\ op[t].what = "put" => has /\ Listing = Assigned(published, k, v)
  /\ pc[t] \in {"assign", "erase"} => Listing = published
  /\ pc[t] = "read" => has /\ Listing = Atomic!Promoted(published, k)
  /\ pc[t] \in {"unindexLast", "pop"} => /\ ~has /\ Listing = published
                                         /\ Len(published) >= Capacity
  /\ pc[t] = "push" => ~has /\ Listing = Atomic!WithRoom(published)
  /\ pc[t] = "index" => Listing = Atomic!Stored(published, k, v)
  /\ pc[t] = "unindex" => Listing = Atomic!Removed(published, k)
  /\ pc[t] = "unlock" =>
       CASE op[t].what = "get" ->
              \/ /\ has /\ Listing = Atomic!Promoted(published, k)
                 /\ ret[t] = Atomic!ValueIn(published, k)
              \/ ~has /\ Listing = published /\ ret[t] = Absent
         [] op[t].what = "put" -> Listing = Atomic!Stored(published, k, v)
         [] op[t].what = "remove" -> Listing = Atomic!Removed(published, k)

InSync ==
  ~failed =>
    /\ AllFindable
    /\ mtx = Nobody => Listing = published
    /\ \A t \in Threads : pc[t] # "idle" => Progress(t)

ShardInv == Structure /\ InSync
-----------------------------------------------------------------------------
(* The structure, statement by statement.                                  *)

LEMMA Alone ==
  ASSUME Structure, NEW t \in Threads, pc[t] # "idle"
  PROVE  /\ mtx = t /\ mtx # Nobody
         /\ \A u \in Threads \ {t} : pc[u] = "idle"
  BY ShardAssumption DEF Structure, Locked

LEMMA EnterStructure ==
  ASSUME Structure, NEW t \in Threads, NEW found, NEW missing,
         NEW o \in [what : {"get", "put", "remove"}, key : Keys, val : Values \cup {Absent}],
         Enter(t, o, found, missing),
         \/ o.what = "get" /\ found = "splice"
         \/ o.what = "put" /\ found = "assign" /\ o.val \in Values
         \/ o.what = "remove" /\ found = "erase",
         \/ missing = "unlock"
         \/ o.what = "put" /\ missing = "unindexLast" /\ Len(items) >= Capacity
         \/ o.what = "put" /\ missing = "push" /\ Len(items) < Capacity
  PROVE  Structure'
<1> USE ShardAssumption
<1>1. /\ pc[t] = "idle" /\ mtx = Nobody /\ mtx' = t
      /\ op' = [op EXCEPT ![t] = o] /\ it' = [it EXCEPT ![t] = cacheMap[o.key]]
      /\ pc' = [pc EXCEPT ![t] = IF cacheMap[o.key] = NoNode THEN missing ELSE found]
      /\ UNCHANGED <<items, cell, cacheMap, ret, failed, published>>
  BY DEF Enter, Goto
<1>2. \A u \in Threads : pc[u] = "idle"
  BY <1>1 DEF Structure, Locked
<1>3. TypeOK'
  BY <1>1 DEF Structure, TypeOK
<1>4. Locked'
  BY <1>1, <1>2 DEF Structure, TypeOK, Locked
<1>5. Control'
  BY <1>1, <1>2 DEF Structure, TypeOK, Control
<1>6. NodesOK'
  BY <1>1 DEF Structure, NodesOK, Live
<1>7. IndexOK'
  BY <1>1 DEF Structure, IndexOK, Live
<1>8. Relies'
  <2>1. missing = "unindexLast" => items # <<>>
    BY DEF Structure, TypeOK
  <2>2. QED
    BY <1>1, <1>2, <2>1 DEF Structure, TypeOK, Relies
<1>9. QED
  BY <1>3, <1>4, <1>5, <1>6, <1>7, <1>8 DEF Structure

LEMMA StaysLocked ==
  ASSUME Structure, NEW t \in Threads, NEW l, pc[t] # "idle", l # "idle",
         pc' = [pc EXCEPT ![t] = l], mtx' = mtx
  PROVE  Locked'
  BY DEF Structure, TypeOK, Locked

(* A node that a thread is about to follow is in the list.                 *)
LEMMA Followed ==
  ASSUME Structure, NEW t \in Threads, pc[t] \in {"splice", "read", "assign", "erase"}
  PROVE  /\ op[t].key \in Keys /\ it[t] \in Live /\ it[t] \in Nodes
         /\ it[t] = cacheMap[op[t].key] /\ cell[it[t]].key = op[t].key
         /\ At(it[t]) \in 1 .. Len(items) /\ items[At(it[t])] = it[t]
<1>1. op[t].key \in Keys /\ it[t] = cacheMap[op[t].key] /\ it[t] # NoNode
  BY DEF Structure, Control, Relies
<1>2. mtx = t
  BY Alone
<1>3. it[t] \in Live /\ cell[it[t]].key = op[t].key
  BY <1>1, <1>2 DEF Structure, IndexOK
<1>4. it[t] \in Nodes
  BY <1>1 DEF Structure, TypeOK, NoNode
<1>5. QED
  BY <1>1, <1>3, <1>4, AtOf DEF Structure, TypeOK, Live

LEMMA SpliceStructure ==
  ASSUME Structure, NEW t \in Threads, Splice(t)
  PROVE  Structure'
<1> DEFINE l == IF op[t].what = "get" THEN "read" ELSE "unlock"
           rest == RemoveAt(items, At(it[t]))
<1>1. /\ pc[t] = "splice" /\ pc' = [pc EXCEPT ![t] = l] /\ items' = Cons(it[t], rest)
      /\ UNCHANGED <<mtx, cell, cacheMap, op, it, ret, failed, published>>
  BY DEF Splice, Goto
<1>2. /\ it[t] \in Live /\ it[t] \in Nodes /\ it[t] # NoNode
      /\ it[t] = cacheMap[op[t].key]
      /\ At(it[t]) \in 1 .. Len(items) /\ items[At(it[t])] = it[t]
  BY <1>1, Followed DEF Structure, Relies
<1>3. /\ items \in Seq(Nodes) /\ IsInjective(items) /\ Len(items) <= Capacity
      /\ op[t].what \in {"get", "put"}
  BY <1>1 DEF Structure, TypeOK, NodesOK, Control
<1>4. items' = Cons(items[At(it[t])], RemoveAt(items, At(it[t])))
  BY <1>1, <1>2
<1>5. /\ items' \in Seq(Nodes) /\ Len(items') = Len(items)
      /\ IsInjective(items') /\ Live' = Live
  BY <1>2, <1>3, <1>4, SpliceNodes DEF Live
<1> HIDE DEF rest
<1>6. \A u \in Threads \ {t} : pc[u] = "idle"
  BY <1>1, Alone
<1>7. TypeOK'
  BY <1>1, <1>5 DEF Structure, TypeOK
<1>8. Locked'
  BY <1>1, StaysLocked
<1>9. Control'
  BY <1>1, <1>3, <1>6 DEF Structure, TypeOK, Control
<1>10. NodesOK'
  BY <1>1, <1>3, <1>5 DEF Structure, NodesOK
<1>11. IndexOK'
  BY <1>1, <1>5, Alone DEF Structure, TypeOK, IndexOK
<1>12. Relies'
  BY <1>1, <1>2, <1>6 DEF Structure, TypeOK, Relies
<1>13. QED
  BY <1>7, <1>8, <1>9, <1>10, <1>11, <1>12 DEF Structure

(* Statements that leave the list and the index alone.                     *)
LEMMA ReadStructure ==
  ASSUME Structure, NEW t \in Threads, Read(t)
  PROVE  Structure'
<1>1. /\ pc[t] = "read" /\ pc' = [pc EXCEPT ![t] = "unlock"]
      /\ ret' = [ret EXCEPT ![t] = cell[it[t]].val]
      /\ UNCHANGED <<mtx, items, cell, cacheMap, op, it, failed, published>>
  BY DEF Read, Goto
<1>2. it[t] \in Nodes /\ it[t] \in Live
  BY <1>1, Followed
<1>3. cell[it[t]].val \in Values
  BY <1>2 DEF Structure, NodesOK, EntryType
<1>4. TypeOK'
  BY <1>1, <1>3 DEF Structure, TypeOK
<1>5. Locked'
  BY <1>1, StaysLocked
<1>6. Control' /\ Relies'
  BY <1>1, Alone DEF Structure, TypeOK, Control, Relies
<1>7. NodesOK' /\ IndexOK'
  BY <1>1, Alone DEF Structure, TypeOK, NodesOK, IndexOK, Live
<1>8. QED
  BY <1>4, <1>5, <1>6, <1>7 DEF Structure

LEMMA BadAllocStructure ==
  ASSUME Structure, NEW t \in Threads, BadAlloc(t)
  PROVE  Structure'
<1>1. /\ pc[t] \in {"read", "assign", "push", "index"}
      /\ pc' = [pc EXCEPT ![t] = "unlock"] /\ failed' = TRUE
      /\ UNCHANGED <<mtx, items, cell, cacheMap, op, it, ret, published>>
  BY DEF BadAlloc, Goto
<1>2. TypeOK'
  BY <1>1 DEF Structure, TypeOK
<1>3. Locked'
  BY <1>1, StaysLocked
<1>4. Control' /\ Relies'
  BY <1>1, Alone DEF Structure, TypeOK, Control, Relies
<1>5. NodesOK' /\ IndexOK'
  BY <1>1, Alone DEF Structure, TypeOK, NodesOK, IndexOK, Live
<1>6. QED
  BY <1>2, <1>3, <1>4, <1>5 DEF Structure

LEMMA AssignStructure ==
  ASSUME Structure, NEW t \in Threads, Assign(t)
  PROVE  Structure'
<1>1. /\ pc[t] = "assign" /\ pc' = [pc EXCEPT ![t] = "splice"]
      /\ cell' = [cell EXCEPT ![it[t]].val = op[t].val]
      /\ UNCHANGED <<mtx, items, cacheMap, op, it, ret, failed, published>>
  BY DEF Assign, Goto
<1>2. it[t] \in Nodes /\ it[t] \in Live /\ op[t].val \in Values
  BY <1>1, Followed DEF Structure, Control
<1>3. /\ cell[it[t]] \in EntryType
      /\ cell'[it[t]] = [key |-> cell[it[t]].key, val |-> op[t].val]
      /\ \A n \in Nodes \ {it[t]} : cell'[n] = cell[n]
  BY <1>1, <1>2 DEF Structure, TypeOK, NodesOK, EntryType
<1>4. TypeOK'
  BY ZenonT(60), <1>1, <1>2 DEF Structure, TypeOK
<1>5. Locked'
  BY <1>1, StaysLocked
<1>6. Control'
  BY <1>1, Alone DEF Structure, TypeOK, Control
<1>7. \A n \in Nodes : cell'[n].key = cell[n].key
  BY <1>3
<1>8. Relies'
  BY <1>1, Alone DEF Structure, TypeOK, Relies
<1>9. NodesOK'
  BY <1>1, <1>2, <1>3 DEF Structure, NodesOK, Live, EntryType
<1>10. IndexOK'
  BY <1>1, <1>7, Alone DEF Structure, TypeOK, IndexOK, Live, NoNode
<1>11. QED
  BY <1>4, <1>5, <1>6, <1>8, <1>9, <1>10 DEF Structure

LEMMA LastNode ==
  ASSUME Structure, items # <<>>
  PROVE  /\ Last(items) \in Live /\ Last(items) \in Nodes
         /\ cell[Last(items)] \in EntryType
         /\ items \in Seq(Nodes) /\ Len(items) \in 1 .. Len(items)
         /\ Last(items) = items[Len(items)]
<1>1. items \in Seq(Nodes) /\ Len(items) \in 1 .. Len(items) /\ Last(items) = items[Len(items)]
  BY FrontOf DEF Structure, TypeOK
<1>2. Last(items) \in Live /\ Last(items) \in Nodes
  BY <1>1 DEF Live, ToSet
<1>3. QED
  BY <1>1, <1>2 DEF Structure, NodesOK

LEMMA UnindexLastStructure ==
  ASSUME Structure, NEW t \in Threads, UnindexLast(t)
  PROVE  Structure'
<1> DEFINE last == cell[Last(items)].key
<1>1. /\ pc[t] = "unindexLast" /\ pc' = [pc EXCEPT ![t] = "pop"]
      /\ cacheMap' = [cacheMap EXCEPT ![last] = NoNode]
      /\ UNCHANGED <<mtx, items, cell, op, it, ret, failed, published>>
  BY DEF UnindexLast, Goto
<1>2. items # <<>> /\ cacheMap[op[t].key] = NoNode /\ op[t].key \in Keys
  BY <1>1 DEF Structure, Relies, Control
<1>3. Last(items) \in Live /\ Last(items) \in Nodes /\ last \in Keys
  BY <1>2, LastNode DEF EntryType
<1> HIDE DEF last
<1>4. \A k \in Keys : cacheMap'[k] = IF k = last THEN NoNode ELSE cacheMap[k]
  BY <1>1 DEF Structure, TypeOK
<1>5. \A u \in Threads \ {t} : pc[u] = "idle"
  BY <1>1, Alone
<1>6. mtx = t
  BY <1>1, Alone
<1>7. TypeOK'
  BY <1>1 DEF Structure, TypeOK
<1>8. Locked'
  BY <1>1, StaysLocked
<1>9. Control'
  BY <1>1, <1>5 DEF Structure, TypeOK, Control
<1>10. NodesOK'
  BY <1>1 DEF Structure, NodesOK, Live
<1>11. \A k \in Keys : cacheMap[k] # NoNode => cacheMap[k] \in Live /\ cell[cacheMap[k]].key = k
  BY <1>1, <1>6 DEF Structure, IndexOK
<1>12. IndexOK'
  BY <1>1, <1>4, <1>11 DEF IndexOK, Live
<1>13. \A k \in Keys : cacheMap'[k] # Last(items)
  BY <1>3, <1>4, <1>11 DEF last, Nodes, NoNode
<1>14. cacheMap'[last] = NoNode
  BY <1>3, <1>4
<1>15. (cacheMap[cell[Last(items)].key] = NoNode)'
  BY <1>1, <1>14 DEF last, Last
<1>16. Relies'
  <2> PICK m : m = cell[Last(items)].key
    OBVIOUS
  <2> PICK n : n = cacheMap'[cell'[Last(items')].key]
    OBVIOUS
  <2>1. n = NoNode
    BY <1>15
  <2>2. QED
    BY <1>1, <1>2, <1>4, <1>5, <1>13, <1>15 DEF Structure, TypeOK, Relies, Last
<1>17. QED
  BY <1>7, <1>8, <1>9, <1>10, <1>12, <1>16 DEF Structure

LEMMA PopBackStructure ==
  ASSUME Structure, NEW t \in Threads, PopBack(t)
  PROVE  Structure'
<1>1. /\ pc[t] = "pop" /\ pc' = [pc EXCEPT ![t] = "push"]
      /\ items' = Front(items) /\ cell' = [cell EXCEPT ![Last(items)] = Freed]
      /\ UNCHANGED <<mtx, cacheMap, op, it, ret, failed, published>>
  BY DEF PopBack, Goto
<1>2. /\ items # <<>> /\ cacheMap[op[t].key] = NoNode /\ op[t].key \in Keys
      /\ \A k \in Keys : cacheMap[k] # Last(items)
  BY <1>1 DEF Structure, Relies, Control
<1>3. Last(items) \in Live /\ Last(items) \in Nodes /\ items \in Seq(Nodes)
  BY <1>2, LastNode
<1>4. items' \in Seq(Nodes) /\ Len(items') = Len(items) - 1
  BY <1>1, <1>2, <1>3, FrontOf
<1>5. IsInjective(items') /\ Live' = Live \ {Last(items)}
  BY <1>1, <1>2, <1>3, FrontNodes DEF Structure, NodesOK, Live
<1>6. \A n \in Nodes : cell'[n] = IF n = Last(items) THEN Freed ELSE cell[n]
  BY <1>1 DEF Structure, TypeOK
<1>7. mtx = t /\ \A u \in Threads \ {t} : pc[u] = "idle"
  BY <1>1, Alone
<1>8. TypeOK'
  BY <1>1, <1>3, <1>4 DEF Structure, TypeOK, Freed
<1>9. Locked'
  BY <1>1, StaysLocked
<1>10. Control'
  BY <1>1, <1>7 DEF Structure, TypeOK, Control
<1>11. Len(items) \in Nat /\ Len(items) <= Capacity /\ Capacity \in Nat
  BY <1>3, ShardAssumption DEF Structure, NodesOK
<1>12. NodesOK'
  BY <1>4, <1>5, <1>6, <1>11 DEF Structure, NodesOK, Freed, EntryType
<1>13. \A k \in Keys : cacheMap[k] # NoNode => /\ cacheMap[k] \in Live \cap Nodes
                                              /\ cell[cacheMap[k]].key = k
  BY <1>1, <1>7 DEF Structure, TypeOK, IndexOK
<1>14. IndexOK'
  BY <1>1, <1>2, <1>5, <1>6, <1>13 DEF IndexOK
<1>15. Relies'
  BY <1>1, <1>2, <1>4, <1>7, <1>11 DEF Structure, TypeOK, Relies
<1>16. QED
  BY <1>8, <1>9, <1>10, <1>12, <1>14, <1>15 DEF Structure

LEMMA PushFrontStructure ==
  ASSUME Structure, NEW t \in Threads, PushFront(t)
  PROVE  Structure'
<1> DEFINE entry == [key |-> op[t].key, val |-> op[t].val]
<1>1. PICK n \in Nodes : /\ n \notin Live /\ items' = Cons(n, items)
                         /\ cell' = [cell EXCEPT ![n] = entry]
  BY DEF PushFront, Live
<1>2. /\ pc[t] = "push" /\ pc' = [pc EXCEPT ![t] = "index"]
      /\ UNCHANGED <<mtx, cacheMap, op, it, ret, failed, published>>
  BY DEF PushFront, Goto
<1>3. /\ cacheMap[op[t].key] = NoNode /\ Len(items) < Capacity /\ entry \in EntryType
      /\ items \in Seq(Nodes) /\ IsInjective(items) /\ op[t].key \in Keys
  BY <1>2 DEF Structure, TypeOK, Relies, Control, NodesOK, EntryType
<1>4. items' \in Seq(Nodes) /\ Len(items') = Len(items) + 1 /\ items'[1] = n
  BY ZenonT(60), <1>1, <1>3, ConsOf
<1>5. IsInjective(items') /\ Live' = Live \cup {n}
  BY <1>1, <1>3, ConsNodes DEF Live
<1>6. Head(items') = n /\ items' # <<>>
  BY <1>3, <1>4
<1> HIDE DEF entry
<1>7. \A m \in Nodes : cell'[m] = IF m = n THEN entry ELSE cell[m]
  BY <1>1 DEF Structure, TypeOK
<1>8. mtx = t /\ \A u \in Threads \ {t} : pc[u] = "idle"
  BY <1>2, Alone
<1>9. TypeOK'
  <2>1. cell' \in [Nodes -> [key : Keys \cup {Absent}, val : Values \cup {Absent}]]
    BY <1>1, <1>3 DEF Structure, TypeOK, EntryType
  <2>2. QED
    BY <1>2, <1>4, <2>1 DEF Structure, TypeOK
<1>10. Locked'
  BY <1>2, StaysLocked
<1>11. Control'
  BY <1>2, <1>8 DEF Structure, TypeOK, Control
<1>12. Len(items) \in Nat /\ Capacity \in Nat
  BY <1>3, ShardAssumption
<1>13. NodesOK'
  BY <1>3, <1>4, <1>5, <1>7, <1>12 DEF Structure, NodesOK
<1>14. \A k \in Keys : cacheMap[k] # NoNode => /\ cacheMap[k] \in Live \cap Nodes
                                              /\ cell[cacheMap[k]].key = k
  BY <1>2, <1>8 DEF Structure, TypeOK, IndexOK
<1>15. IndexOK'
  BY <1>1, <1>2, <1>5, <1>7, <1>14 DEF IndexOK
<1>16. cell'[n].key = op[t].key
  BY <1>7 DEF entry
<1>17. Relies'
  BY <1>2, <1>3, <1>6, <1>8, <1>16 DEF Structure, TypeOK, Relies
<1>18. QED
  BY <1>9, <1>10, <1>11, <1>13, <1>15, <1>17 DEF Structure

LEMMA IndexStructure ==
  ASSUME Structure, NEW t \in Threads, Index(t)
  PROVE  Structure'
<1>1. /\ pc[t] = "index" /\ pc' = [pc EXCEPT ![t] = "unlock"]
      /\ cacheMap' = [cacheMap EXCEPT ![op[t].key] = Head(items)]
      /\ UNCHANGED <<mtx, items, cell, op, it, ret, failed, published>>
  BY DEF Index, Goto
<1>2. /\ items # <<>> /\ op[t].key \in Keys /\ items \in Seq(Nodes)
      /\ cell[Head(items)].key = op[t].key
  BY <1>1 DEF Structure, Relies, Control, TypeOK
<1>3. Head(items) \in Live /\ Head(items) \in Nodes
  BY <1>2 DEF Live, ToSet
<1>4. \A k \in Keys : cacheMap'[k] = IF k = op[t].key THEN Head(items) ELSE cacheMap[k]
  BY <1>1 DEF Structure, TypeOK
<1>5. mtx = t /\ \A u \in Threads \ {t} : pc[u] = "idle"
  BY <1>1, Alone
<1>6. TypeOK'
  BY <1>1, <1>3 DEF Structure, TypeOK
<1>7. Locked'
  BY <1>1, StaysLocked
<1>8. Control' /\ Relies'
  BY <1>1, <1>5 DEF Structure, TypeOK, Control, Relies
<1>9. NodesOK'
  BY <1>1 DEF Structure, NodesOK, Live
<1>10. \A k \in Keys : cacheMap[k] # NoNode => cacheMap[k] \in Live /\ cell[cacheMap[k]].key = k
  BY <1>1, <1>5 DEF Structure, IndexOK
<1>11. IndexOK'
  BY <1>1, <1>2, <1>3, <1>4, <1>10 DEF IndexOK, Live
<1>12. QED
  BY <1>6, <1>7, <1>8, <1>9, <1>11 DEF Structure

LEMMA EraseStructure ==
  ASSUME Structure, NEW t \in Threads, Erase(t)
  PROVE  Structure'
<1>1. /\ pc[t] = "erase" /\ pc' = [pc EXCEPT ![t] = "unindex"]
      /\ items' = RemoveAt(items, At(it[t])) /\ cell' = [cell EXCEPT ![it[t]] = Freed]
      /\ UNCHANGED <<mtx, cacheMap, op, it, ret, failed, published>>
  BY DEF Erase, Goto
<1>2. /\ op[t].key \in Keys /\ it[t] \in Live /\ it[t] \in Nodes
      /\ it[t] = cacheMap[op[t].key] /\ cell[it[t]].key = op[t].key
      /\ At(it[t]) \in 1 .. Len(items) /\ items[At(it[t])] = it[t]
  BY <1>1, Followed
<1>3. items \in Seq(Nodes) /\ IsInjective(items) /\ op[t].what = "remove"
  BY <1>1 DEF Structure, TypeOK, NodesOK, Control
<1>4. items' \in Seq(Nodes) /\ Len(items') = Len(items) - 1
  BY <1>1, <1>2, <1>3, RemoveAtOf
<1>5. IsInjective(items') /\ Live' = Live \ {it[t]}
  BY <1>1, <1>2, <1>3, RemoveAtNodes DEF Live
<1>6. \A n \in Nodes : cell'[n] = IF n = it[t] THEN Freed ELSE cell[n]
  BY <1>1 DEF Structure, TypeOK
<1>7. mtx = t /\ mtx # Nobody /\ \A u \in Threads \ {t} : pc[u] = "idle"
  BY <1>1, Alone
<1>8. pc'[t] = "unindex" /\ mtx' = t /\ op' = op
  BY <1>1, <1>7 DEF Structure, TypeOK
<1>9. TypeOK'
  BY <1>1, <1>2, <1>4 DEF Structure, TypeOK, Freed
<1>10. Locked'
  BY <1>1, StaysLocked
<1>11. Control' /\ Relies'
  <2>1. /\ \A u \in Threads : u # t => pc'[u] = "idle"
        /\ pc'[t] = "unindex" /\ ret' = ret /\ op' = op /\ cacheMap' = cacheMap
    BY <1>1, <1>7 DEF Structure, TypeOK
  <2>2. cacheMap'[op'[t].key] \notin Live'
    BY <1>2, <1>5, <2>1
  <2>3. \A u \in Threads \ {t} :
          ret[u] = Absent /\ (op[u].what = "put" => op[u].val \in Values)
    BY <1>7 DEF Structure, Control, Relies
  <2>4. Control'
    BY <1>2, <1>3, <2>1, <2>3 DEF Control
  <2>5. Relies'
    BY <2>1, <2>2, <2>3 DEF Relies
  <2>6. QED
    BY <2>4, <2>5
<1>12. Len(items) \in Nat /\ Len(items) <= Capacity /\ Capacity \in Nat
  BY <1>3, ShardAssumption DEF Structure, NodesOK
<1>13. NodesOK'
  BY <1>4, <1>5, <1>6, <1>12 DEF Structure, NodesOK, Freed, EntryType
<1>14. \A k \in Keys : cacheMap[k] # NoNode => /\ cacheMap[k] \in Live \cap Nodes
                                              /\ cell[cacheMap[k]].key = k
  BY <1>1, <1>7 DEF Structure, TypeOK, IndexOK
<1>15. \A k \in Keys : k # op[t].key /\ cacheMap[k] # NoNode => cacheMap[k] # it[t]
  BY <1>2, <1>14
<1>16. IndexOK'
  BY <1>1, <1>5, <1>6, <1>7, <1>8, <1>14, <1>15 DEF IndexOK
<1>17. QED
  BY <1>9, <1>10, <1>11, <1>13, <1>16 DEF Structure

LEMMA UnindexStructure ==
  ASSUME Structure, NEW t \in Threads, Unindex(t)
  PROVE  Structure'
<1>1. /\ pc[t] = "unindex" /\ pc' = [pc EXCEPT ![t] = "unlock"]
      /\ cacheMap' = [cacheMap EXCEPT ![op[t].key] = NoNode]
      /\ UNCHANGED <<mtx, items, cell, op, it, ret, failed, published>>
  BY DEF Unindex, Goto
<1>2. mtx = t /\ \A u \in Threads \ {t} : pc[u] = "idle"
  BY <1>1, Alone
<1>3. \A k \in Keys : cacheMap'[k] = IF k = op[t].key THEN NoNode ELSE cacheMap[k]
  BY <1>1 DEF Structure, TypeOK
<1>4. TypeOK'
  BY <1>1 DEF Structure, TypeOK
<1>5. Locked'
  BY <1>1, StaysLocked
<1>6. Control' /\ Relies'
  BY <1>1, <1>2 DEF Structure, TypeOK, Control, Relies
<1>7. NodesOK'
  BY <1>1 DEF Structure, NodesOK, Live
<1>8. IndexOK'
  BY <1>1, <1>2, <1>3 DEF Structure, IndexOK, Live
<1>9. QED
  BY <1>4, <1>5, <1>6, <1>7, <1>8 DEF Structure

LEMMA ListingOf ==
  ASSUME Structure
  PROVE  /\ items \in Seq(Nodes) /\ DOMAIN items = 1 .. Len(items) /\ Len(items) \in Nat
         /\ Listing \in Seq(EntryType) /\ Len(Listing) = Len(items)
         /\ \A i \in 1 .. Len(items) :
              /\ Listing[i] = cell[items[i]] /\ cell[items[i]] \in EntryType
              /\ items[i] \in Live /\ items[i] \in Nodes
<1>1. items \in Seq(Nodes) /\ DOMAIN items = 1 .. Len(items) /\ Len(items) \in Nat
  BY DEF Structure, TypeOK
<1>2. \A i \in 1 .. Len(items) : items[i] \in Live /\ items[i] \in Nodes
  BY <1>1 DEF Live, ToSet
<1>3. \A i \in 1 .. Len(items) : cell[items[i]] \in EntryType
  BY <1>2 DEF Structure, NodesOK
<1>4. Listing = [i \in 1 .. Len(items) |-> cell[items[i]]]
  BY <1>1 DEF Listing
<1>5. Listing \in Seq(EntryType) /\ Len(Listing) = Len(items)
  BY <1>1, <1>3, <1>4
<1>6. QED
  BY <1>1, <1>2, <1>3, <1>4, <1>5

LEMMA UnlockStructure ==
  ASSUME Structure, NEW t \in Threads, Unlock(t)
  PROVE  Structure'
<1>1. /\ pc[t] = "unlock" /\ pc' = [pc EXCEPT ![t] = "idle"] /\ mtx' = Nobody
      /\ published' = IF failed THEN published ELSE Listing
      /\ op' = [op EXCEPT ![t] = NoOp] /\ it' = [it EXCEPT ![t] = NoNode]
      /\ ret' = [ret EXCEPT ![t] = Absent]
      /\ UNCHANGED <<items, cell, cacheMap, failed>>
  BY DEF Unlock, Goto
<1>2. mtx = t /\ \A u \in Threads \ {t} : pc[u] = "idle"
  BY <1>1, Alone
<1>3. Listing \in Seq([key : Keys, val : Values])
  BY ListingOf DEF EntryType
<1>4. TypeOK'
  BY <1>1, <1>3 DEF Structure, TypeOK, NoOp
<1>5. Locked'
  BY <1>1, <1>2, ShardAssumption DEF Structure, TypeOK, Locked
<1>6. Control' /\ Relies'
  BY <1>1, <1>2 DEF Structure, TypeOK, Control, Relies, NoOp
<1>7. NodesOK'
  BY <1>1 DEF Structure, NodesOK, Live
<1>8. IndexOK'
  BY <1>1, <1>2 DEF Structure, IndexOK, Live
<1>9. QED
  BY <1>4, <1>5, <1>6, <1>7, <1>8 DEF Structure

LEMMA StructureInitially == Init => Structure
<1> SUFFICES ASSUME Init PROVE Structure
  OBVIOUS
<1> USE ShardAssumption DEF Init
<1>1. Live = {} /\ items \in Seq(Nodes) /\ Len(items) = 0
  BY DEF Live, ToSet
<1>2. TypeOK
  BY <1>1, EmptySeq DEF TypeOK, NoOp, Freed
<1>3. Locked /\ Control /\ Relies
  BY DEF Locked, Control, Relies, NoOp
<1>4. NodesOK /\ IndexOK
  BY <1>1 DEF NodesOK, IndexOK, IsInjective
<1>5. QED
  BY <1>2, <1>3, <1>4 DEF Structure

LEMMA EnterGetStructure ==
  ASSUME Structure, NEW t \in Threads, NEW k \in Keys, EnterGet(t, k)
  PROVE  Structure'
<1> DEFINE o == [what |-> "get", key |-> k, val |-> Absent]
<1>1. /\ o \in [what : {"get", "put", "remove"}, key : Keys, val : Values \cup {Absent}]
      /\ o.what = "get"
  OBVIOUS
<1>2. Enter(t, o, "splice", "unlock")
  BY DEF EnterGet
<1> HIDE DEF o
<1>3. QED
  BY <1>1, <1>2, EnterStructure

LEMMA EnterPutStructure ==
  ASSUME Structure, NEW t \in Threads, NEW k \in Keys, NEW v \in Values, EnterPut(t, k, v)
  PROVE  Structure'
<1> DEFINE o == [what |-> "put", key |-> k, val |-> v]
<1>1. /\ o \in [what : {"get", "put", "remove"}, key : Keys, val : Values \cup {Absent}]
      /\ o.what = "put" /\ o.val \in Values
  OBVIOUS
<1>2. Len(items) \in Nat /\ Capacity \in Nat
  BY ListingOf, ShardAssumption
<1>3. Enter(t, o, "assign", IF Len(items) >= Capacity THEN "unindexLast" ELSE "push")
  BY DEF EnterPut
<1> HIDE DEF o
<1>4. CASE Len(items) >= Capacity
  <2>1. Enter(t, o, "assign", "unindexLast")
    BY <1>3, <1>4
  <2>2. QED
    BY <1>1, <1>4, <2>1, EnterStructure
<1>5. CASE Len(items) < Capacity
  <2>1. Enter(t, o, "assign", "push")
    BY <1>2, <1>3, <1>5
  <2>2. QED
    BY <1>1, <1>5, <2>1, EnterStructure
<1>6. QED
  BY <1>2, <1>4, <1>5

LEMMA EnterRemoveStructure ==
  ASSUME Structure, NEW t \in Threads, NEW k \in Keys, EnterRemove(t, k)
  PROVE  Structure'
<1> DEFINE o == [what |-> "remove", key |-> k, val |-> Absent]
<1>1. /\ o \in [what : {"get", "put", "remove"}, key : Keys, val : Values \cup {Absent}]
      /\ o.what = "remove"
  OBVIOUS
<1>2. Enter(t, o, "erase", "unlock")
  BY DEF EnterRemove
<1> HIDE DEF o
<1>3. QED
  BY <1>1, <1>2, EnterStructure

LEMMA StructureStep == Structure /\ [Next]_vars => Structure'
<1> SUFFICES ASSUME Structure, [Next]_vars PROVE Structure'
  OBVIOUS
<1>1. ASSUME NEW t \in Threads, NEW k \in Keys,
             EnterGet(t, k) \/ (\E v \in Values : EnterPut(t, k, v)) \/ EnterRemove(t, k)
      PROVE  Structure'
  BY <1>1, EnterGetStructure, EnterPutStructure, EnterRemoveStructure
<1>2. ASSUME NEW t \in Threads,
             \/ Splice(t) \/ Read(t) \/ Assign(t)
             \/ UnindexLast(t) \/ PopBack(t) \/ PushFront(t) \/ Index(t) \/ BadAlloc(t)
             \/ Erase(t) \/ Unindex(t)
             \/ Unlock(t)
      PROVE  Structure'
  BY <1>2, SpliceStructure, ReadStructure, AssignStructure, UnindexLastStructure,
     PopBackStructure, PushFrontStructure, IndexStructure, BadAllocStructure,
     EraseStructure, UnindexStructure, UnlockStructure
<1>3. CASE UNCHANGED vars
  BY <1>3 DEF vars, Structure, TypeOK, Locked, Control, NodesOK, IndexOK, Relies, Live
<1>4. QED
  BY <1>1, <1>2, <1>3 DEF Next

LEMMA StructureInvariant == Spec => []Structure
  BY StructureInitially, StructureStep, PTL DEF Spec

(* The list never outgrows the shard's capacity, its nodes are distinct,   *)
(* and a node is allocated exactly while it is in the list, at every       *)
(* statement and whatever allocation fails.                                *)
THEOREM ShardKeepsCapacity == Spec => []ListWithinCapacity
<1>1. Structure => ListWithinCapacity
  <2> SUFFICES ASSUME Structure PROVE ListWithinCapacity
    OBVIOUS
  <2>1. \A n \in Nodes : n \in Live <=> cell[n] # Freed
    BY ShardAssumption DEF Structure, NodesOK, EntryType, Freed
  <2>2. QED
    BY <2>1 DEF Structure, NodesOK, ListWithinCapacity, Live
<1>2. QED
  BY StructureInvariant, <1>1, PTL
-----------------------------------------------------------------------------
(* The list of entries a list of nodes stands for.                         *)

CellType == [key : Keys \cup {Absent}, val : Values \cup {Absent}]
Entries(s, c) == [i \in DOMAIN s |-> c[s[i]]]

LEMMA EntriesOf ==
  ASSUME NEW s \in Seq(Nodes), NEW c \in [Nodes -> CellType]
  PROVE  /\ Entries(s, c) \in Seq(CellType) /\ Len(Entries(s, c)) = Len(s)
         /\ \A i \in 1 .. Len(s) : Entries(s, c)[i] = c[s[i]]
<1>1. /\ DOMAIN s = 1 .. Len(s) /\ Len(s) \in Nat
      /\ \A i \in 1 .. Len(s) : c[s[i]] \in CellType
  OBVIOUS
<1>2. Entries(s, c) = [i \in 1 .. Len(s) |-> c[s[i]]]
  BY <1>1 DEF Entries
<1>3. QED
  BY <1>1, <1>2

LEMMA EntriesCons ==
  ASSUME NEW s \in Seq(Nodes), NEW c \in [Nodes -> CellType], NEW n \in Nodes
  PROVE  Entries(Cons(n, s), c) = Cons(c[n], Entries(s, c))
<1> DEFINE l == Entries(Cons(n, s), c)
           r == Cons(c[n], Entries(s, c))
           e == Entries(s, c)
<1>1. /\ Cons(n, s) \in Seq(Nodes) /\ Len(Cons(n, s)) = Len(s) + 1 /\ Cons(n, s)[1] = n
      /\ \A i \in 2 .. Len(s) + 1 : Cons(n, s)[i] = s[i - 1]
  <2>1. IsCons(Cons(n, s), n, s, Nodes)
    BY ConsIs
  <2>2. QED
    BY <2>1 DEF IsCons
<1>2. l \in Seq(CellType) /\ Len(l) = Len(s) + 1
  BY <1>1, EntriesOf
<1>3. \A i \in 1 .. Len(s) + 1 : l[i] = c[Cons(n, s)[i]]
  BY <1>1, EntriesOf
<1>4. /\ e \in Seq(CellType) /\ Len(e) = Len(s) /\ c[n] \in CellType
      /\ \A i \in 1 .. Len(s) : e[i] = c[s[i]]
  BY EntriesOf
<1>5. /\ r \in Seq(CellType) /\ Len(r) = Len(s) + 1 /\ r[1] = c[n]
      /\ \A i \in 2 .. Len(s) + 1 : r[i] = e[i - 1]
  BY <1>4, ConsOf
<1> HIDE DEF l, r, e
<1>6. ASSUME NEW i \in 1 .. Len(s) + 1 PROVE l[i] = r[i]
  <2>1. CASE i = 1
    BY <1>1, <1>3, <1>5, <2>1
  <2>2. CASE i # 1
    <3>1. i \in 2 .. Len(s) + 1 /\ i - 1 \in 1 .. Len(s)
      BY <2>2
    <3>2. QED
      BY <1>1, <1>3, <1>4, <1>5, <3>1
  <2>3. QED
    BY <2>1, <2>2
<1>7. l = r
  BY <1>2, <1>5, <1>6, SeqEqual
<1>8. QED
  BY <1>7 DEF l, r, e

LEMMA EntriesRemoveAt ==
  ASSUME NEW s \in Seq(Nodes), NEW c \in [Nodes -> CellType], NEW p \in 1 .. Len(s)
  PROVE  Entries(RemoveAt(s, p), c) = RemoveAt(Entries(s, c), p)
<1> DEFINE q == RemoveAt(s, p)
           e == Entries(s, c)
           l == Entries(q, c)
           r == RemoveAt(e, p)
<1>1. /\ q \in Seq(Nodes) /\ Len(q) = Len(s) - 1
      /\ \A i \in 1 .. Len(s) - 1 : q[i] = IF i < p THEN s[i] ELSE s[i + 1]
  BY RemoveAtOf
<1>2. /\ e \in Seq(CellType) /\ Len(e) = Len(s)
      /\ \A i \in 1 .. Len(s) : e[i] = c[s[i]]
  BY EntriesOf
<1> HIDE DEF q, e
<1>3. /\ l \in Seq(CellType) /\ Len(l) = Len(s) - 1
      /\ \A i \in 1 .. Len(s) - 1 : l[i] = c[q[i]]
  BY <1>1, EntriesOf
<1>4. /\ r \in Seq(CellType) /\ Len(r) = Len(s) - 1
      /\ \A i \in 1 .. Len(s) - 1 : r[i] = IF i < p THEN e[i] ELSE e[i + 1]
  BY <1>2, RemoveAtOf
<1> HIDE DEF l, r
<1>5. ASSUME NEW i \in 1 .. Len(s) - 1 PROVE l[i] = r[i]
  <2>1. i \in 1 .. Len(s) /\ i + 1 \in 1 .. Len(s)
    OBVIOUS
  <2>2. l[i] = c[q[i]]
    BY <1>3
  <2>3. r[i] = IF i < p THEN c[s[i]] ELSE c[s[i + 1]]
    BY <1>2, <1>4, <2>1
  <2>4. q[i] = IF i < p THEN s[i] ELSE s[i + 1]
    BY <1>1
  <2>5. QED
    BY <2>2, <2>3, <2>4
<1>6. l = r
  BY <1>3, <1>4, <1>5, SeqEqual
<1>7. QED
  BY <1>6 DEF l, r, q, e

LEMMA EntriesFront ==
  ASSUME NEW s \in Seq(Nodes), NEW c \in [Nodes -> CellType], s # <<>>
  PROVE  Entries(Front(s), c) = Front(Entries(s, c))
<1> DEFINE q == Front(s)
           e == Entries(s, c)
           l == Entries(q, c)
           r == Front(e)
<1>1. /\ q \in Seq(Nodes) /\ Len(q) = Len(s) - 1 /\ Len(s) \in 1 .. Len(s)
      /\ \A i \in 1 .. Len(s) - 1 : q[i] = s[i]
  BY FrontOf
<1>2. /\ e \in Seq(CellType) /\ Len(e) = Len(s)
      /\ \A i \in 1 .. Len(s) : e[i] = c[s[i]]
  BY EntriesOf
<1> HIDE DEF q, e
<1>3. /\ l \in Seq(CellType) /\ Len(l) = Len(s) - 1
      /\ \A i \in 1 .. Len(s) - 1 : l[i] = c[q[i]]
  BY ZenonT(60), <1>1, EntriesOf
<1>4. e # <<>>
  BY <1>1, <1>2
<1>5. /\ r \in Seq(CellType) /\ Len(r) = Len(s) - 1
      /\ \A i \in 1 .. Len(s) - 1 : r[i] = e[i]
  BY <1>2, <1>4, FrontOf
<1> HIDE DEF l, r
<1>6. ASSUME NEW i \in 1 .. Len(s) - 1 PROVE l[i] = r[i]
  <2>1. i \in 1 .. Len(s)
    BY <1>1
  <2>2. QED
    BY <1>1, <1>2, <1>3, <1>5, <2>1
<1>7. l = r
  BY <1>3, <1>5, <1>6, SeqEqual
<1>8. QED
  BY <1>7 DEF l, r, q, e

(* Only the cells of the nodes in it matter.                               *)
LEMMA EntriesSame ==
  ASSUME NEW s \in Seq(Nodes), NEW c, NEW d, \A n \in ToSet(s) : d[n] = c[n]
  PROVE  Entries(s, d) = Entries(s, c)
  BY DEF Entries, ToSet

(* The operators of ShardedLRUCache, given the place of a key.             *)
LEMMA SameOperators ==
  /\ \A s, i : Atomic!RemoveAt(s, i) = RemoveAt(s, i)
  /\ \A s, e : Atomic!Cons(e, s) = Cons(e, s)
  /\ \A s : Atomic!Front(s) = Front(s)
  BY DEF Atomic!RemoveAt, RemoveAt, Atomic!Cons, Cons, Atomic!Front, Front

LEMMA PlaceIs ==
  ASSUME NEW s \in Seq(EntryType), NEW k \in Keys, NEW p \in 1 .. Len(s),
         s[p].key = k, \A i \in 1 .. Len(s) : s[i].key = k => i = p
  PROVE  /\ Atomic!Has(s, k) /\ Atomic!Position(s, k) = p
         /\ Atomic!Without(s, k) = RemoveAt(s, p)
         /\ Atomic!Removed(s, k) = RemoveAt(s, p)
         /\ Atomic!Promoted(s, k) = Cons(s[p], RemoveAt(s, p))
         /\ Atomic!ValueIn(s, k) = s[p].val
         /\ \A v : Atomic!Stored(s, k, v) = Cons([key |-> k, val |-> v], RemoveAt(s, p))
<1>1. DOMAIN s = 1 .. Len(s)
  OBVIOUS
<1>6. s[p] \in EntryType
  OBVIOUS
<1>5. Atomic!Findable(s, p)
  BY <1>6, ShardAssumption DEF Atomic!Findable, EntryType
<1>2. Atomic!Has(s, k)
  BY <1>1, <1>5 DEF Atomic!Has
<1>3. Atomic!Position(s, k) = p
  BY <1>1, <1>5 DEF Atomic!Position
<1>4. QED
  BY <1>2, <1>3, SameOperators DEF Atomic!Without, Atomic!Removed, Atomic!Promoted,
                                   Atomic!ValueIn, Atomic!Stored

LEMMA CapacityIs == Atomic!CapPerShard = Capacity
  BY ShardAssumption DEF Atomic!CapPerShard
-----------------------------------------------------------------------------
(* Up to the first failed allocation: the index finds every node, and the  *)
(* list is the published one with the operation under way partly done.     *)

LEMMA ListingIs == Listing = Entries(items, cell)
  BY DEF Listing, Entries

LEMMA SyncedBy ==
  ASSUME Structure, NEW t \in Threads, NEW l, pc[t] # "idle", l # "idle",
         pc' = [pc EXCEPT ![t] = l], mtx' = mtx, AllFindable', Progress(t)'
  PROVE  InSync'
<1>1. mtx = t /\ mtx # Nobody /\ \A u \in Threads \ {t} : pc'[u] = "idle"
  BY Alone DEF Structure, TypeOK
<1>2. QED
  BY <1>1 DEF InSync

LEMMA AllFound ==
  ASSUME Structure, AllFindable, mtx = Nobody \/ pc[mtx] \notin {"pop", "index"}
  PROVE  /\ \A i \in 1 .. Len(items) : cacheMap[Listing[i].key] = items[i]
         /\ \A i, j \in 1 .. Len(items) : Listing[i].key = Listing[j].key => i = j
<1>1. DOMAIN items = 1 .. Len(items) /\ \A i \in 1 .. Len(items) : Listing[i] = cell[items[i]]
  BY ListingOf
<1>2. \A i \in 1 .. Len(items) : cacheMap[Listing[i].key] = items[i]
  BY <1>1 DEF AllFindable, Findable
<1>3. QED
  BY <1>1, <1>2 DEF Structure, NodesOK, IsInjective

(* A key the index does not know is not in the list.                       *)
LEMMA NotThere ==
  ASSUME Structure, AllFindable, mtx = Nobody \/ pc[mtx] \notin {"pop", "index"},
         NEW k \in Keys, cacheMap[k] = NoNode
  PROVE  ~Atomic!Has(Listing, k)
<1>1. \A i \in 1 .. Len(items) : cacheMap[Listing[i].key] = items[i] /\ items[i] \in Nodes
  BY AllFound, ListingOf
<1>2. DOMAIN Listing = 1 .. Len(items)
  BY ListingOf
<1>3. QED
  BY <1>1, <1>2 DEF Atomic!Has, Nodes, NoNode

LEMMA UntouchedFindable ==
  ASSUME AllFindable, mtx = Nobody \/ pc[mtx] \notin {"pop", "index"},
         UNCHANGED <<items, cell, cacheMap>>
  PROVE  AllFindable'
  BY DEF AllFindable, Findable

(* The node an iterator leads to is the only one with its key.             *)
LEMMA FoundAt ==
  ASSUME Structure, AllFindable, NEW t \in Threads,
         pc[t] \in {"splice", "read", "assign", "erase"}
  PROVE  LET p == At(it[t]) IN
         /\ p \in 1 .. Len(items) /\ items[p] = it[t] /\ Listing[p].key = op[t].key
         /\ \A i \in 1 .. Len(items) : Listing[i].key = op[t].key => i = p
<1>1. mtx = t
  BY Alone
<1>2. /\ At(it[t]) \in 1 .. Len(items) /\ items[At(it[t])] = it[t]
      /\ cell[it[t]].key = op[t].key
  BY Followed
<1>3. Listing[At(it[t])].key = op[t].key
  BY <1>2, ListingOf
<1>4. QED
  BY <1>1, <1>2, <1>3, AllFound

LEMMA EnterSync ==
  ASSUME Structure, InSync, ~failed, NEW t \in Threads, NEW found, NEW missing,
         NEW o \in [what : {"get", "put", "remove"}, key : Keys, val : Values \cup {Absent}],
         Enter(t, o, found, missing),
         \/ o.what = "get" /\ found = "splice" /\ missing = "unlock"
         \/ /\ o.what = "put" /\ found = "assign"
            /\ \/ missing = "unindexLast" /\ Len(items) >= Capacity
               \/ missing = "push" /\ Len(items) < Capacity
         \/ o.what = "remove" /\ found = "erase" /\ missing = "unlock"
  PROVE  InSync'
<1> DEFINE k == o.key
           l == IF cacheMap[k] = NoNode THEN missing ELSE found
<1>1. /\ pc[t] = "idle" /\ mtx = Nobody /\ mtx' = t
      /\ op' = [op EXCEPT ![t] = o] /\ pc' = [pc EXCEPT ![t] = l]
      /\ UNCHANGED <<items, cell, cacheMap, ret, failed, published>>
  BY DEF Enter, Goto
<1>2. /\ AllFindable /\ Listing = published /\ k \in Keys
      /\ \A u \in Threads : pc[u] = "idle"
  BY <1>1, ShardAssumption DEF InSync, Structure, Locked
<1>3. /\ op'[t] = o /\ pc'[t] = l /\ ret'[t] = Absent
      /\ \A u \in Threads \ {t} : pc'[u] = "idle"
  BY <1>1, <1>2 DEF Structure, TypeOK, Relies
<1>4. Listing' = published' /\ published' = published
  BY <1>1, <1>2 DEF Listing
<1>5. AllFindable'
  BY <1>1, <1>2, UntouchedFindable
<1>6. cacheMap[k] = NoNode => ~Atomic!Has(published, k)
  BY <1>1, <1>2, NotThere
<1>7. Len(published) = Len(items) /\ Len(items) \in Nat /\ Capacity \in Nat
  BY <1>2, ListingOf, ShardAssumption
<1> HIDE DEF k, l
<1>8. Progress(t)'
  <2>1. CASE cacheMap[k] # NoNode
    <3>1. l = found
      BY <2>1 DEF l
    <3>2. QED
      BY <1>3, <1>4, <3>1 DEF Progress
  <2>2. CASE cacheMap[k] = NoNode /\ missing = "unlock"
    <3>1. l = "unlock" /\ ~Atomic!Has(published, k)
      BY <1>6, <2>2 DEF l
    <3>2. Atomic!Removed(published, k) = published
      BY <3>1 DEF Atomic!Removed
    <3>3. QED
      BY <1>3, <1>4, <2>2, <3>1, <3>2 DEF Progress, k
  <2>3. CASE cacheMap[k] = NoNode /\ missing = "unindexLast"
    <3>1. l = "unindexLast" /\ ~Atomic!Has(published, k) /\ Len(published) >= Capacity
      BY <1>6, <1>7, <2>3 DEF l
    <3>2. QED
      BY <1>3, <1>4, <3>1 DEF Progress, k
  <2>4. CASE cacheMap[k] = NoNode /\ missing = "push"
    <3>1. l = "push" /\ ~Atomic!Has(published, k) /\ Len(published) < Capacity
      BY <1>6, <1>7, <2>4 DEF l
    <3>2. Atomic!WithRoom(published) = published
      BY <1>7, <3>1, CapacityIs DEF Atomic!WithRoom
    <3>3. QED
      BY <1>3, <1>4, <3>1, <3>2 DEF Progress, k
  <2>5. QED
    BY <2>1, <2>2, <2>3, <2>4
<1>9. mtx' # Nobody
  BY <1>1, ShardAssumption
<1>10. QED
  BY <1>3, <1>5, <1>8, <1>9 DEF InSync

LEMMA AssignSync ==
  ASSUME Structure, InSync, ~failed, NEW t \in Threads, Assign(t)
  PROVE  InSync'
<1> DEFINE k == op[t].key
           v == op[t].val
           p == At(it[t])
<1>1. /\ pc[t] = "assign" /\ pc' = [pc EXCEPT ![t] = "splice"]
      /\ cell' = [cell EXCEPT ![it[t]].val = v]
      /\ UNCHANGED <<mtx, items, cacheMap, op, it, ret, failed, published>>
  BY DEF Assign, Goto
<1>2. AllFindable /\ Listing = published /\ op[t].what = "put" /\ k \in Keys
  BY <1>1 DEF InSync, Progress, Structure, Control
<1>3. /\ p \in 1 .. Len(items) /\ items[p] = it[t] /\ Listing[p].key = k
      /\ \A i \in 1 .. Len(items) : Listing[i].key = k => i = p
  BY <1>1, <1>2, FoundAt
<1>4. /\ DOMAIN items = 1 .. Len(items) /\ Listing \in Seq(EntryType)
      /\ Len(Listing) = Len(items) /\ DOMAIN Listing = 1 .. Len(items)
      /\ \A i \in 1 .. Len(items) : Listing[i] = cell[items[i]] /\ items[i] \in Nodes
  BY ListingOf
<1>5. it[t] \in Nodes /\ cell[it[t]] \in [key : Keys, val : Values]
  BY <1>1, Followed DEF Structure, NodesOK, EntryType
<1>6. \A n \in Nodes : cell'[n] = IF n = it[t] THEN [key |-> cell[n].key, val |-> v] ELSE cell[n]
  BY <1>1, <1>5 DEF Structure, TypeOK
<1> HIDE DEF k, v, p
<1>7. \A i \in 1 .. Len(items) : cell'[items[i]] = IF i = p THEN [key |-> k, val |-> v]
                                                  ELSE Listing[i]
  <2>1. \A i \in 1 .. Len(items) : items[i] = it[t] <=> i = p
    BY <1>3, <1>4 DEF Structure, NodesOK, IsInjective
  <2>2. QED
    BY <1>3, <1>4, <1>6, <2>1
<1>8. Listing' = Assigned(published, k, v)
  <2>1. Listing' = [i \in 1 .. Len(items) |-> cell'[items[i]]]
    BY <1>1, <1>4 DEF Listing
  <2>2. Assigned(Listing, k, v) =
          [i \in 1 .. Len(items) |-> IF Listing[i].key = k THEN [key |-> k, val |-> v]
                                                         ELSE Listing[i]]
    BY <1>4 DEF Assigned
  <2>3. QED
    BY <1>2, <1>3, <1>7, <2>1, <2>2
<1>9. Atomic!Has(published, k)
  BY <1>2, <1>3, <1>4, PlaceIs
<1>10. ASSUME NEW n \in Nodes PROVE cell'[n].key = cell[n].key
  <2>1. CASE n = it[t]
    <3>1. cell'[n] = [key |-> cell[n].key, val |-> v]
      BY <1>6, <2>1
    <3>2. QED
      BY <3>1
  <2>2. CASE n # it[t]
    BY <1>6, <2>2
  <2>3. QED
    BY <2>1, <2>2
<1>11. AllFindable'
  <2>1. mtx = t
    BY <1>1, Alone
  <2>2. QED
    BY <1>1, <1>2, <1>4, <1>10, <2>1 DEF AllFindable, Findable
<1>12. Progress(t)'
  <2>1. pc'[t] = "splice"
    BY <1>1 DEF Structure, TypeOK
  <2>2. QED
    BY <1>1, <1>2, <1>8, <1>9, <2>1 DEF Progress, k, v
<1>13. QED
  BY <1>1, <1>11, <1>12, SyncedBy

(* Splicing a node to the front does the same to the entries.              *)
LEMMA SpliceListing ==
  ASSUME Structure, AllFindable, NEW t \in Threads, Splice(t)
  PROVE  LET p == At(it[t]) IN
         /\ Listing' = Cons(Listing[p], RemoveAt(Listing, p))
         /\ AllFindable'
<1> DEFINE p == At(it[t])
           n == it[t]
           rest == RemoveAt(items, p)
<1>1. /\ pc[t] = "splice" /\ items' = Cons(n, rest)
      /\ UNCHANGED <<mtx, cell, cacheMap, op, it, ret, failed, published>>
  BY DEF Splice
<1>2. /\ p \in 1 .. Len(items) /\ items[p] = n /\ n \in Nodes
      /\ items \in Seq(Nodes) /\ cell \in [Nodes -> CellType]
  BY <1>1, Followed DEF Structure, TypeOK, CellType
<1>3. Listing = Entries(items, cell) /\ Listing' = Entries(items', cell')
  BY DEF Listing, Entries
<1>4. \A i \in 1 .. Len(items) : Listing[i] = cell[items[i]]
  BY ListingOf
<1> HIDE DEF p, n
<1>5. rest \in Seq(Nodes)
  BY <1>2, RemoveAtOf
<1>6. Entries(rest, cell) = RemoveAt(Entries(items, cell), p)
  BY <1>2, EntriesRemoveAt
<1> HIDE DEF rest
<1>7. Entries(Cons(n, rest), cell) = Cons(cell[n], Entries(rest, cell))
  BY <1>2, <1>5, EntriesCons
<1>8. Listing' = Cons(Listing[p], RemoveAt(Listing, p))
  BY <1>1, <1>2, <1>3, <1>4, <1>6, <1>7
<1>9. \A m \in Live : cacheMap[cell[m].key] = m
  <2>1. mtx = t
    BY <1>1, Alone
  <2>2. QED
    BY <1>1, <2>1 DEF AllFindable, Findable, Live, ToSet
<1>10. ToSet(items') = Live
  <2>1. IsInjective(items)
    BY DEF Structure, NodesOK
  <2>2. ToSet(Cons(items[p], RemoveAt(items, p))) = ToSet(items)
    BY <1>2, <2>1, SpliceNodes
  <2>3. QED
    BY <1>1, <1>2, <2>2 DEF Live, rest
<1>11. AllFindable'
  BY <1>1, <1>9, <1>10 DEF AllFindable, Findable, ToSet
<1>12. QED
  BY <1>8, <1>11 DEF p, n

LEMMA SpliceSync ==
  ASSUME Structure, InSync, ~failed, NEW t \in Threads, Splice(t)
  PROVE  InSync'
<1> DEFINE k == op[t].key
           v == op[t].val
           p == At(it[t])
           l == IF op[t].what = "get" THEN "read" ELSE "unlock"
<1>1. /\ pc[t] = "splice" /\ pc' = [pc EXCEPT ![t] = l]
      /\ UNCHANGED <<mtx, cell, cacheMap, op, it, ret, failed, published>>
  BY DEF Splice, Goto
<1>2. /\ AllFindable /\ Progress(t) /\ op[t].what \in {"get", "put"} /\ k \in Keys
      /\ published \in Seq(EntryType)
  BY <1>1 DEF InSync, Structure, Control, TypeOK, EntryType
<1>3. /\ p \in 1 .. Len(items) /\ Listing[p].key = k
      /\ \A i \in 1 .. Len(items) : Listing[i].key = k => i = p
  BY <1>1, <1>2, FoundAt
<1>4. Listing \in Seq(EntryType) /\ Len(Listing) = Len(items)
  BY ListingOf
<1>5. AllFindable' /\ Listing' = Cons(Listing[p], RemoveAt(Listing, p))
  BY <1>2, SpliceListing
<1>6. pc'[t] = l
  BY <1>1 DEF Structure, TypeOK
<1> HIDE DEF k, v, p, l
<1>7. CASE op[t].what = "get"
  <2>1. Listing = published
    BY <1>1, <1>2, <1>7 DEF Progress
  <2>2. Atomic!Has(published, k) /\ Atomic!Promoted(published, k) = Listing'
    BY <1>2, <1>3, <1>4, <1>5, <2>1, PlaceIs
  <2>3. Progress(t)'
    BY <1>1, <1>6, <1>7, <2>2 DEF Progress, k, l
  <2>4. QED
    BY <1>1, <1>5, <1>6, <1>7, <2>3, SyncedBy DEF l
<1>8. CASE op[t].what = "put"
  <2>1. Listing = Assigned(published, k, v)
    BY <1>1, <1>2, <1>8 DEF Progress, k, v
  <2>2. /\ DOMAIN published = 1 .. Len(items) /\ Len(published) = Len(items)
        /\ \A i \in 1 .. Len(items) :
             Listing[i] = IF published[i].key = k THEN [key |-> k, val |-> v] ELSE published[i]
    <3>1. DOMAIN published = DOMAIN Listing
      BY <2>1 DEF Assigned
    <3>2. DOMAIN Listing = 1 .. Len(items) /\ Len(items) \in Nat
      BY ListingOf
    <3>3. QED
      BY <1>2, <2>1, <3>1, <3>2 DEF Assigned
  <2>3. \A i \in 1 .. Len(items) : Listing[i].key = published[i].key
    BY <2>2
  <2>4. p \in 1 .. Len(published) /\ published[p].key = k
    BY <1>3, <2>2, <2>3
  <2>5. \A i \in 1 .. Len(published) : published[i].key = k => i = p
    BY <1>3, <2>2, <2>3
  <2>6. Atomic!Stored(published, k, v) = Cons([key |-> k, val |-> v], RemoveAt(published, p))
    BY <1>2, <2>4, <2>5, PlaceIs
  <2>7. RemoveAt(published, p) = RemoveAt(Listing, p)
    <3>1. /\ RemoveAt(published, p) \in Seq(EntryType)
          /\ Len(RemoveAt(published, p)) = Len(items) - 1
          /\ \A i \in 1 .. Len(items) - 1 :
               RemoveAt(published, p)[i] = IF i < p THEN published[i] ELSE published[i + 1]
      BY <1>2, <2>2, <2>4, RemoveAtOf
    <3>2. /\ RemoveAt(Listing, p) \in Seq(EntryType)
          /\ Len(RemoveAt(Listing, p)) = Len(items) - 1
          /\ \A i \in 1 .. Len(items) - 1 :
               RemoveAt(Listing, p)[i] = IF i < p THEN Listing[i] ELSE Listing[i + 1]
      BY ZenonT(60), <1>3, <1>4, RemoveAtOf
    <3>3. ASSUME NEW i \in 1 .. Len(items) - 1
          PROVE  RemoveAt(published, p)[i] = RemoveAt(Listing, p)[i]
      <4>1. i \in 1 .. Len(items) /\ i + 1 \in 1 .. Len(items) /\ p \in Int /\ i \in Int
        BY <1>3
      <4>2. CASE i < p
        <5>1. Listing[i] = published[i]
          BY <1>3, <2>2, <2>3, <4>1, <4>2
        <5>2. QED
          BY <3>1, <3>2, <4>2, <5>1
      <4>3. CASE ~(i < p)
        <5>1. i + 1 # p
          BY <4>1, <4>3
        <5>2. Listing[i + 1] = published[i + 1]
          BY <1>3, <2>2, <2>3, <4>1, <5>1
        <5>3. QED
          BY <3>1, <3>2, <4>3, <5>2
      <4>4. QED
        BY <4>2, <4>3
    <3>4. QED
      BY SMTT(60), <3>1, <3>2, <3>3, SeqEqual
  <2>8. Listing[p] = [key |-> k, val |-> v]
    BY <1>3, <2>2, <2>4
  <2>9. Listing' = Atomic!Stored(published, k, v)
    BY <1>5, <2>6, <2>7, <2>8
  <2>10. Progress(t)'
    BY <1>1, <1>6, <1>8, <2>9 DEF Progress, k, v, l
  <2>11. QED
    BY <1>1, <1>5, <1>6, <1>8, <2>10, SyncedBy DEF l
<1>9. QED
  BY <1>2, <1>7, <1>8

LEMMA ReadSync ==
  ASSUME Structure, InSync, ~failed, NEW t \in Threads, Read(t)
  PROVE  InSync'
<1> DEFINE k == op[t].key
           p == At(it[t])
           q == Atomic!Position(published, k)
<1>1. /\ pc[t] = "read" /\ pc' = [pc EXCEPT ![t] = "unlock"]
      /\ ret' = [ret EXCEPT ![t] = cell[it[t]].val]
      /\ UNCHANGED <<mtx, items, cell, cacheMap, op, it, failed, published>>
  BY DEF Read, Goto
<1>2. /\ AllFindable /\ op[t].what = "get" /\ k \in Keys /\ published \in Seq(EntryType)
      /\ Atomic!Has(published, k) /\ Listing = Atomic!Promoted(published, k)
  BY <1>1 DEF InSync, Progress, Structure, Control, TypeOK, EntryType
<1>3. /\ p \in 1 .. Len(items) /\ items[p] = it[t] /\ Listing[p].key = k
      /\ \A i \in 1 .. Len(items) : Listing[i].key = k => i = p
  BY <1>1, <1>2, FoundAt
<1>4. /\ Len(Listing) = Len(items) /\ Len(items) \in Nat
      /\ \A i \in 1 .. Len(items) : Listing[i] = cell[items[i]]
  BY ListingOf
<1>5. q \in 1 .. Len(published) /\ published[q].key = k
  BY <1>2 DEF Atomic!Has, Atomic!Position
<1>6. Listing = Cons(published[q], RemoveAt(published, q))
  BY <1>2, SameOperators DEF Atomic!Promoted, Atomic!Without
<1> HIDE DEF k, p, q
<1>7. Listing[1] = published[q]
  <2>1. RemoveAt(published, q) \in Seq(EntryType) /\ published[q] \in EntryType
    BY <1>2, <1>5, RemoveAtOf
  <2>2. QED
    BY <1>6, <2>1, ConsOf
<1>8. p = 1
  BY <1>3, <1>4, <1>5, <1>7
<1>9. cell[it[t]].val = published[q].val
  BY <1>3, <1>4, <1>7, <1>8
<1>10. /\ Listing' = Listing /\ pc'[t] = "unlock"
       /\ ret'[t] = Atomic!ValueIn(published, k)
  BY <1>1, <1>9 DEF Listing, Structure, TypeOK, Atomic!ValueIn, q
<1>11. Progress(t)'
  BY <1>1, <1>2, <1>10 DEF Progress, k
<1>12. mtx = t
  BY <1>1, Alone
<1>13. AllFindable'
  BY <1>1, <1>2, <1>12, UntouchedFindable
<1>14. QED
  BY <1>1, <1>11, <1>13, SyncedBy

LEMMA UnindexLastSync ==
  ASSUME Structure, InSync, ~failed, NEW t \in Threads, UnindexLast(t)
  PROVE  InSync'
<1> DEFINE last == cell[Last(items)].key
<1>1. /\ pc[t] = "unindexLast" /\ pc' = [pc EXCEPT ![t] = "pop"]
      /\ cacheMap' = [cacheMap EXCEPT ![last] = NoNode]
      /\ UNCHANGED <<mtx, items, cell, op, it, ret, failed, published>>
  BY DEF UnindexLast, Goto
<1>2. AllFindable /\ Progress(t) /\ items # <<>> /\ mtx = t /\ mtx # Nobody
  BY <1>1, Alone DEF InSync, Structure, Relies
<1>3. Last(items) = items[Len(items)] /\ Len(items) \in 1 .. Len(items)
  BY <1>2, LastNode
<1>4. /\ DOMAIN items = 1 .. Len(items)
      /\ \A i \in 1 .. Len(items) : Listing[i] = cell[items[i]] /\ cell[items[i]].key \in Keys
  BY ListingOf DEF EntryType
<1>5. /\ \A i \in 1 .. Len(items) : cacheMap[Listing[i].key] = items[i]
      /\ \A i, j \in 1 .. Len(items) : Listing[i].key = Listing[j].key => i = j
  BY <1>1, <1>2, AllFound
<1>6. \A i \in 1 .. Len(items) : i # Len(items) => cell[items[i]].key # last
  <2>1. last = Listing[Len(items)].key
    BY <1>3, <1>4
  <2> HIDE DEF last
  <2>2. QED
    BY <1>3, <1>4, <1>5, <2>1
<1> HIDE DEF last
<1>7. \A k \in Keys : k # last => cacheMap'[k] = cacheMap[k]
  BY <1>1 DEF Structure, TypeOK
<1>8. pc'[t] = "pop" /\ Listing' = Listing
  BY <1>1 DEF Structure, TypeOK, Listing
<1>9. AllFindable'
  BY ZenonT(60), <1>1, <1>2, <1>4, <1>5, <1>6, <1>7, <1>8 DEF AllFindable, Findable
<1>10. Progress(t)'
  BY <1>1, <1>2, <1>8 DEF Progress
<1>11. QED
  BY <1>1, <1>9, <1>10, SyncedBy

LEMMA PopBackSync ==
  ASSUME Structure, InSync, ~failed, NEW t \in Threads, PopBack(t)
  PROVE  InSync'
<1> DEFINE n == Last(items)
<1>1. /\ pc[t] = "pop" /\ pc' = [pc EXCEPT ![t] = "push"]
      /\ items' = Front(items) /\ cell' = [cell EXCEPT ![n] = Freed]
      /\ UNCHANGED <<mtx, cacheMap, op, it, ret, failed, published>>
  BY DEF PopBack, Goto
<1>2. AllFindable /\ Progress(t) /\ items # <<>> /\ mtx = t /\ mtx # Nobody
  BY <1>1, Alone DEF InSync, Structure, Relies
<1>3. /\ ~Atomic!Has(published, op[t].key) /\ Listing = published
      /\ Len(published) >= Capacity
  BY <1>1, <1>2 DEF Progress
<1>4. /\ items \in Seq(Nodes) /\ cell \in [Nodes -> CellType] /\ IsInjective(items)
  BY DEF Structure, TypeOK, NodesOK, CellType
<1>5. /\ items' \in Seq(Nodes) /\ Len(items') = Len(items) - 1
      /\ \A i \in 1 .. Len(items) - 1 : items'[i] = items[i]
      /\ n = items[Len(items)] /\ Len(items) \in 1 .. Len(items)
  BY <1>1, <1>2, <1>4, FrontOf
<1>6. ToSet(items') = Live \ {n}
  BY <1>1, <1>2, <1>4, FrontNodes DEF Live
<1> HIDE DEF n
<1>7. \A m \in ToSet(items') : cell'[m] = cell[m]
  BY <1>1, <1>6
<1>8. Listing' = Front(Listing)
  <2>1. Listing = Entries(items, cell) /\ Listing' = Entries(items', cell')
    BY DEF Listing, Entries
  <2>2. Entries(items', cell') = Entries(items', cell)
    BY <1>5, <1>7, EntriesSame
  <2>3. Entries(Front(items), cell) = Front(Entries(items, cell))
    BY <1>2, <1>4, EntriesFront
  <2>4. QED
    BY <1>1, <2>1, <2>2, <2>3
<1>9. Listing' = Atomic!WithRoom(published)
  <2> DEFINE last == Atomic!Last(published).key
             front == Front(published)
  <2>1. Listing = Entries(items, cell) /\ Listing' = front
    BY <1>3, <1>8, ListingIs
  <2>a. PICK m : m = Len(items)
    OBVIOUS
  <2>b. m \in Nat \ {0} /\ DOMAIN items = 1 .. m
    BY <1>2, <1>4, <2>a, EmptySeq, LenProperties
  <2>c. published = [i \in 1 .. m |-> cell[items[i]]] /\ published \in Seq(EntryType)
    BY <1>3, <2>b DEF Listing, Structure, TypeOK, EntryType
  <2>d. DOMAIN published = 1 .. m /\ Len(published) = m /\ published # <<>>
    BY <2>b, <2>c, LenProperties
  <2>e. front \in Seq(EntryType) /\ Len(front) = m - 1 /\ \A i \in 1 .. m - 1 : front[i] = published[i]
    BY <2>c, <2>d, FrontOf
  <2>2. /\ DOMAIN front = 1 .. m - 1 /\ published[m] = cell[items[m]]
        /\ \A i \in 1 .. m - 1 : front[i] = cell[items[i]]
    BY <2>b, <2>c, <2>e
  <2>3. last = cell[items[Len(items)]].key
    BY <2>2, <2>a, <2>d DEF Atomic!Last
  <2>4. cacheMap[last] = NoNode
    BY <1>1, <2>3 DEF Structure, Relies, Last
  <2> HIDE DEF front, last
  <2>5. \A i \in 1 .. m - 1 : cacheMap[front[i].key] = items[i] /\ items[i] # NoNode
    <3> SUFFICES ASSUME NEW i \in 1 .. m - 1
                 PROVE  cacheMap[front[i].key] = items[i] /\ items[i] # NoNode
      OBVIOUS
    <3>1. i \in DOMAIN items /\ i # m
      BY <2>b
    <3>2. items[i] \in Nodes
      BY <1>4, <3>1
    <3>3. cacheMap[cell[items[i]].key] = items[i]
      BY <1>1, <1>2, <2>a, <3>1 DEF AllFindable, Findable
    <3>4. QED
      BY <2>2, <3>2, <3>3 DEF Nodes, NoNode
  <2>6. \A i \in DOMAIN front : front[i].key # last
    BY <2>2, <2>4, <2>5
  <2>7. Atomic!Unindexed(front, last) = [i \in DOMAIN front |-> front[i]]
    BY <2>6 DEF Atomic!Unindexed
  <2>8. front = [i \in DOMAIN front |-> front[i]]
    BY <2>e
  <2>9. QED
    BY <1>3, <2>1, <2>7, <2>8, CapacityIs, SameOperators DEF Atomic!WithRoom, front, last
<1>10. Progress(t)'
  <2>1. pc'[t] = "push"
    BY <1>1 DEF Structure, TypeOK
  <2>2. QED
    BY <1>1, <1>3, <1>9, <2>1 DEF Progress
<1>11. \A m \in Live \ {n} : cacheMap[cell[m].key] = m
  <2>1. \A i \in DOMAIN items : i # Len(items) => cacheMap[cell[items[i]].key] = items[i]
    BY <1>1, <1>2 DEF AllFindable, Findable
  <2>2. QED
    BY <1>5, <2>1 DEF Live, ToSet
<1>12. AllFindable'
  BY <1>1, <1>6, <1>7, <1>11 DEF AllFindable, Findable, ToSet
<1>13. QED
  BY <1>1, <1>10, <1>12, SyncedBy

LEMMA PushFrontSync ==
  ASSUME Structure, InSync, ~failed, NEW t \in Threads, PushFront(t)
  PROVE  InSync'
<1> DEFINE k == op[t].key
           v == op[t].val
           entry == [key |-> k, val |-> v]
<1>1. PICK n \in Nodes : /\ n \notin Live /\ items' = Cons(n, items)
                         /\ cell' = [cell EXCEPT ![n] = entry]
  BY DEF PushFront, Live
<1>2. /\ pc[t] = "push" /\ pc' = [pc EXCEPT ![t] = "index"]
      /\ UNCHANGED <<mtx, cacheMap, op, it, ret, failed, published>>
  BY DEF PushFront, Goto
<1>3. AllFindable /\ Progress(t) /\ mtx = t /\ mtx # Nobody
  BY <1>2, Alone DEF InSync
<1>4. ~Atomic!Has(published, k) /\ Listing = Atomic!WithRoom(published)
  BY <1>2, <1>3 DEF Progress
<1>5. Structure'
  BY PushFrontStructure
<1>6. /\ items \in Seq(Nodes) /\ IsInjective(items)
      /\ cell \in [Nodes -> CellType] /\ cell' \in [Nodes -> CellType]
  BY <1>5 DEF Structure, TypeOK, NodesOK, CellType
<1> HIDE DEF k, v, entry
<1>7. cell'[n] = entry /\ \A m \in Live : cell'[m] = cell[m]
  BY <1>1, <1>6
<1>8. Listing' = Cons(entry, Listing)
  <2>1. Listing = Entries(items, cell) /\ Listing' = Entries(items', cell')
    BY DEF Listing, Entries
  <2>2. Entries(items, cell') = Entries(items, cell)
    BY <1>6, <1>7, EntriesSame DEF Live
  <2>3. Entries(Cons(n, items), cell') = Cons(cell'[n], Entries(items, cell'))
    BY <1>6, EntriesCons
  <2>4. QED
    BY <1>1, <1>7, <2>1, <2>2, <2>3
<1>9. Listing' = Atomic!Stored(published, k, v)
  BY <1>4, <1>8, SameOperators DEF Atomic!Stored, entry
<1>10. Progress(t)'
  <2>1. pc'[t] = "index"
    BY <1>2 DEF Structure, TypeOK
  <2>2. QED
    BY <1>2, <1>9, <2>1 DEF Progress, k, v
<1>11. \A i \in DOMAIN items : cacheMap[cell[items[i]].key] = items[i] /\ items[i] \in Live
  BY <1>2, <1>3 DEF AllFindable, Findable, Live, ToSet
<1>12. pc'[mtx'] = "index"
  BY <1>2, <1>3 DEF Structure, TypeOK
<1>13. \A i \in DOMAIN items' : i = 1 \/ (i - 1 \in DOMAIN items /\ items'[i] = items[i - 1])
  <2>1. /\ items' \in Seq(Nodes) /\ Len(items') = Len(items) + 1
        /\ \A i \in 2 .. Len(items) + 1 : items'[i] = items[i - 1]
    <3>1. /\ Cons(n, items) \in Seq(Nodes) /\ Len(Cons(n, items)) = Len(items) + 1
          /\ \A i \in 2 .. Len(items) + 1 : Cons(n, items)[i] = items[i - 1]
      <4>1. IsCons(Cons(n, items), n, items, Nodes)
        BY <1>6, ConsIs
      <4>2. QED
        BY <4>1 DEF IsCons
    <3>2. QED
      BY <1>1, <3>1
  <2>2. DOMAIN items' = 1 .. Len(items) + 1 /\ DOMAIN items = 1 .. Len(items) /\ Len(items) \in Nat
    BY <1>6, <2>1
  <2>3. QED
    BY <2>1, <2>2
<1>14. AllFindable'
  BY <1>2, <1>3, <1>7, <1>11, <1>12, <1>13 DEF AllFindable, Findable
<1>15. QED
  BY <1>2, <1>10, <1>14, SyncedBy

LEMMA IndexSync ==
  ASSUME Structure, InSync, ~failed, NEW t \in Threads, Index(t)
  PROVE  InSync'
<1> DEFINE k == op[t].key
<1>1. /\ pc[t] = "index" /\ pc' = [pc EXCEPT ![t] = "unlock"]
      /\ cacheMap' = [cacheMap EXCEPT ![k] = Head(items)]
      /\ UNCHANGED <<mtx, items, cell, op, it, ret, failed, published>>
  BY DEF Index, Goto
<1>2. /\ AllFindable /\ Progress(t) /\ mtx = t /\ mtx # Nobody
      /\ op[t].what = "put" /\ k \in Keys /\ items # <<>>
      /\ cacheMap[k] = NoNode /\ cell[Head(items)].key = k
  BY <1>1, Alone DEF InSync, Structure, Control, Relies
<1>3. /\ items \in Seq(Nodes) /\ DOMAIN items = 1 .. Len(items)
      /\ \A i \in 1 .. Len(items) : cell[items[i]].key \in Keys /\ items[i] \in Nodes
  BY ListingOf DEF EntryType
<1>4. Head(items) = items[1]
  BY <1>2, <1>3
<1> HIDE DEF k
<1>5. \A j \in Keys : cacheMap'[j] = IF j = k THEN Head(items) ELSE cacheMap[j]
  BY <1>1 DEF Structure, TypeOK
<1>6. pc'[t] = "unlock" /\ Listing' = Listing
  BY <1>1 DEF Structure, TypeOK, Listing
<1>7. ASSUME NEW i \in DOMAIN items PROVE cacheMap'[cell[items[i]].key] = items[i]
  <2>1. CASE i = 1
    BY <1>2, <1>3, <1>4, <1>5, <2>1
  <2>2. CASE i # 1
    <3>1. cacheMap[cell[items[i]].key] = items[i]
      BY <1>1, <1>2, <2>2 DEF AllFindable, Findable
    <3>2. cell[items[i]].key # k /\ cell[items[i]].key \in Keys
      BY <1>2, <1>3, <3>1 DEF Nodes, NoNode
    <3>3. QED
      BY <1>5, <3>1, <3>2
  <2>3. QED
    BY <2>1, <2>2
<1>8. AllFindable'
  BY <1>1, <1>7 DEF AllFindable, Findable
<1>9. Progress(t)'
  BY <1>1, <1>2, <1>6 DEF Progress, k
<1>10. QED
  BY <1>1, <1>8, <1>9, SyncedBy

LEMMA EraseSync ==
  ASSUME Structure, InSync, ~failed, NEW t \in Threads, Erase(t)
  PROVE  InSync'
<1> DEFINE k == op[t].key
           p == At(it[t])
           n == it[t]
<1>1. /\ pc[t] = "erase" /\ pc' = [pc EXCEPT ![t] = "unindex"]
      /\ items' = RemoveAt(items, p) /\ cell' = [cell EXCEPT ![n] = Freed]
      /\ UNCHANGED <<mtx, cacheMap, op, it, ret, failed, published>>
  BY SMTT(60) DEF Erase, Goto
<1>2. /\ AllFindable /\ Listing = published /\ mtx = t /\ mtx # Nobody /\ k \in Keys
      /\ published \in Seq(EntryType)
  BY <1>1, Alone DEF InSync, Progress, Structure, Control, TypeOK, EntryType
<1>3. /\ p \in 1 .. Len(items) /\ items[p] = n /\ Listing[p].key = k
      /\ \A i \in 1 .. Len(items) : Listing[i].key = k => i = p
  BY <1>1, <1>2, FoundAt
<1>4. items \in Seq(Nodes) /\ cell \in [Nodes -> CellType] /\ IsInjective(items)
  BY DEF Structure, TypeOK, NodesOK, CellType
<1>5. Len(Listing) = Len(items)
  BY ListingOf
<1> HIDE DEF k, p, n
<1>6. items' \in Seq(Nodes) /\ ToSet(items') = Live \ {n}
  BY <1>1, <1>3, <1>4, RemoveAtOf, RemoveAtNodes DEF Live
<1>7. \A m \in ToSet(items') : cell'[m] = cell[m]
  BY <1>1, <1>6
<1>8. Listing' = RemoveAt(Listing, p)
  <2>1. Listing = Entries(items, cell) /\ Listing' = Entries(items', cell')
    BY DEF Listing, Entries
  <2>2. Entries(items', cell') = Entries(items', cell)
    BY <1>6, <1>7, EntriesSame
  <2>3. Entries(RemoveAt(items, p), cell) = RemoveAt(Entries(items, cell), p)
    BY <1>3, <1>4, EntriesRemoveAt
  <2>4. QED
    BY <1>1, <2>1, <2>2, <2>3
<1>9. Listing' = Atomic!Removed(published, k)
  <2>1. Atomic!Removed(published, k) = RemoveAt(published, p)
    BY <1>2, <1>3, <1>5, PlaceIs
  <2>2. QED
    BY <1>2, <1>8, <2>1
<1>10. Progress(t)'
  <2>1. pc'[t] = "unindex"
    BY <1>1 DEF Structure, TypeOK
  <2>2. QED
    BY <1>1, <1>9, <2>1 DEF Progress, k
<1>11. \A m \in Live : cacheMap[cell[m].key] = m
  BY <1>1, <1>2 DEF AllFindable, Findable, Live, ToSet
<1>12. AllFindable'
  BY <1>1, <1>6, <1>7, <1>11 DEF AllFindable, Findable, ToSet
<1>13. QED
  BY <1>1, <1>10, <1>12, SyncedBy

LEMMA UnindexSync ==
  ASSUME Structure, InSync, ~failed, NEW t \in Threads, Unindex(t)
  PROVE  InSync'
<1> DEFINE k == op[t].key
<1>1. /\ pc[t] = "unindex" /\ pc' = [pc EXCEPT ![t] = "unlock"]
      /\ cacheMap' = [cacheMap EXCEPT ![k] = NoNode]
      /\ UNCHANGED <<mtx, items, cell, op, it, ret, failed, published>>
  BY DEF Unindex, Goto
<1>2. /\ AllFindable /\ Progress(t) /\ mtx = t /\ mtx # Nobody
      /\ op[t].what = "remove" /\ k \in Keys /\ cacheMap[k] \notin Live
  BY <1>1, Alone DEF InSync, Structure, Control, Relies
<1>3. /\ DOMAIN items = 1 .. Len(items)
      /\ \A i \in 1 .. Len(items) : cell[items[i]].key \in Keys /\ items[i] \in Live
  BY ListingOf DEF EntryType
<1> HIDE DEF k
<1>4. \A j \in Keys : cacheMap'[j] = IF j = k THEN NoNode ELSE cacheMap[j]
  BY <1>1 DEF Structure, TypeOK
<1>5. pc'[t] = "unlock" /\ Listing' = Listing
  BY <1>1 DEF Structure, TypeOK, Listing
<1>6. \A i \in DOMAIN items : cacheMap[cell[items[i]].key] = items[i]
  BY <1>1, <1>2 DEF AllFindable, Findable
<1>7. \A i \in DOMAIN items : cacheMap'[cell[items[i]].key] = items[i]
  BY <1>2, <1>3, <1>4, <1>6
<1>8. AllFindable'
  BY <1>1, <1>7 DEF AllFindable, Findable
<1>9. Progress(t)'
  BY <1>1, <1>2, <1>5 DEF Progress, k
<1>10. QED
  BY <1>1, <1>8, <1>9, SyncedBy

LEMMA UnlockSync ==
  ASSUME Structure, InSync, ~failed, NEW t \in Threads, Unlock(t)
  PROVE  InSync'
<1>1. /\ pc[t] = "unlock" /\ pc' = [pc EXCEPT ![t] = "idle"] /\ mtx' = Nobody
      /\ published' = Listing /\ UNCHANGED <<items, cell, cacheMap, failed>>
  BY DEF Unlock, Goto
<1>2. AllFindable /\ mtx = t /\ \A u \in Threads : pc'[u] = "idle"
  BY <1>1, Alone DEF InSync, Structure, TypeOK
<1>3. Listing' = published'
  BY <1>1 DEF Listing
<1>4. AllFindable'
  BY <1>1, <1>2, UntouchedFindable
<1>5. QED
  BY <1>1, <1>2, <1>3, <1>4 DEF InSync

LEMMA EnterGetSync ==
  ASSUME Structure, InSync, ~failed, NEW t \in Threads, NEW k \in Keys, EnterGet(t, k)
  PROVE  InSync'
<1> DEFINE o == [what |-> "get", key |-> k, val |-> Absent]
<1>1. /\ o \in [what : {"get", "put", "remove"}, key : Keys, val : Values \cup {Absent}]
      /\ o.what = "get"
  OBVIOUS
<1>2. Enter(t, o, "splice", "unlock")
  BY DEF EnterGet
<1> HIDE DEF o
<1>3. QED
  BY <1>1, <1>2, EnterSync

LEMMA EnterPutSync ==
  ASSUME Structure, InSync, ~failed, NEW t \in Threads, NEW k \in Keys, NEW v \in Values,
         EnterPut(t, k, v)
  PROVE  InSync'
<1> DEFINE o == [what |-> "put", key |-> k, val |-> v]
<1>1. /\ o \in [what : {"get", "put", "remove"}, key : Keys, val : Values \cup {Absent}]
      /\ o.what = "put"
  OBVIOUS
<1>2. Len(items) \in Nat /\ Capacity \in Nat
  BY ListingOf, ShardAssumption
<1>3. Enter(t, o, "assign", IF Len(items) >= Capacity THEN "unindexLast" ELSE "push")
  BY DEF EnterPut
<1> HIDE DEF o
<1>4. CASE Len(items) >= Capacity
  <2>1. Enter(t, o, "assign", "unindexLast")
    BY <1>3, <1>4
  <2>2. QED
    BY <1>1, <1>4, <2>1, EnterSync
<1>5. CASE Len(items) < Capacity
  <2>1. Enter(t, o, "assign", "push")
    BY <1>2, <1>3, <1>5
  <2>2. QED
    BY <1>1, <1>5, <2>1, EnterSync
<1>6. QED
  BY <1>2, <1>4, <1>5

LEMMA EnterRemoveSync ==
  ASSUME Structure, InSync, ~failed, NEW t \in Threads, NEW k \in Keys, EnterRemove(t, k)
  PROVE  InSync'
<1> DEFINE o == [what |-> "remove", key |-> k, val |-> Absent]
<1>1. /\ o \in [what : {"get", "put", "remove"}, key : Keys, val : Values \cup {Absent}]
      /\ o.what = "remove"
  OBVIOUS
<1>2. Enter(t, o, "erase", "unlock")
  BY DEF EnterRemove
<1> HIDE DEF o
<1>3. QED
  BY <1>1, <1>2, EnterSync

LEMMA InSyncStep == Structure /\ InSync /\ [Next]_vars => InSync'
<1> SUFFICES ASSUME Structure, InSync, [Next]_vars PROVE InSync'
  OBVIOUS
<1>1. CASE failed'
  BY <1>1 DEF InSync
<1>2. CASE failed /\ Next
  <2>1. failed'
    BY ZenonT(60), <1>2 DEF Next, EnterGet, EnterPut, EnterRemove, Enter, Splice, Read, Assign,
       UnindexLast, PopBack, PushFront, Index, BadAlloc, Erase, Unindex, Unlock
  <2>2. QED
    BY <2>1, <1>1
<1>3. CASE ~failed /\ Next /\ ~failed'
  <2>1. ASSUME NEW t \in Threads, NEW k \in Keys,
               EnterGet(t, k) \/ (\E v \in Values : EnterPut(t, k, v)) \/ EnterRemove(t, k)
        PROVE  InSync'
    BY <1>3, <2>1, EnterGetSync, EnterPutSync, EnterRemoveSync
  <2>2. ASSUME NEW t \in Threads,
               \/ Splice(t) \/ Read(t) \/ Assign(t)
               \/ UnindexLast(t) \/ PopBack(t) \/ PushFront(t) \/ Index(t)
               \/ Erase(t) \/ Unindex(t)
               \/ Unlock(t)
        PROVE  InSync'
    BY <1>3, <2>2, SpliceSync, ReadSync, AssignSync, UnindexLastSync, PopBackSync,
       PushFrontSync, IndexSync, EraseSync, UnindexSync, UnlockSync
  <2>3. ASSUME NEW t \in Threads PROVE ~BadAlloc(t)
    BY <1>3 DEF BadAlloc
  <2>4. QED
    BY <1>3, <2>1, <2>2, <2>3 DEF Next
<1>4. CASE UNCHANGED vars
  <2>1. AllFindable' <=> AllFindable
    BY <1>4 DEF vars, AllFindable, Findable
  <2>2. Listing' = Listing
    BY <1>4 DEF vars, Listing
  <2>3. ASSUME NEW t \in Threads PROVE Progress(t)' <=> Progress(t)
    BY <1>4, <2>2 DEF vars, Progress
  <2>4. QED
    BY <1>4, <2>1, <2>2, <2>3 DEF vars, InSync
<1>5. QED
  BY <1>1, <1>2, <1>3, <1>4

LEMMA InSyncInitially == Init => InSync
<1> SUFFICES ASSUME Init PROVE InSync
  OBVIOUS
<1>1. DOMAIN items = {} /\ Listing = <<>>
  BY DEF Init, Listing
<1>2. QED
  BY <1>1 DEF Init, InSync, AllFindable

LEMMA ShardInvariant == Spec => []ShardInv
<1>1. Init => ShardInv
  BY StructureInitially, InSyncInitially DEF ShardInv
<1>2. ShardInv /\ [Next]_vars => ShardInv'
  BY StructureStep, InSyncStep DEF ShardInv
<1>3. QED
  BY <1>1, <1>2, PTL DEF Spec
-----------------------------------------------------------------------------
(* No iterator dangles, at no statement, and while no allocation has       *)
(* failed the index finds every node of the list whenever the mutex is     *)
(* free.                                                                   *)
THEOREM ListAndIndexStayInStep == Spec => []ListAndIndexAgree
<1>1. Structure => IteratorsValid
  <2> SUFFICES ASSUME Structure PROVE IteratorsValid
    OBVIOUS
  <2>1. \A k \in Keys :
          cacheMap[k] # NoNode =>
            \/ cacheMap[k] \in ToSet(items) /\ cell[cacheMap[k]].key = k
            \/ mtx # Nobody /\ pc[mtx] = "unindex" /\ op[mtx].key = k
    BY DEF Structure, IndexOK, Live
  <2>2. \A t \in Threads :
          pc[t] \in {"splice", "read", "assign", "erase"} => it[t] \in ToSet(items)
    BY Followed DEF Live
  <2>3. \A t \in Threads : pc[t] \in {"unindexLast", "pop", "index"} => items # <<>>
    BY DEF Structure, Relies
  <2>4. QED
    BY <2>1, <2>2, <2>3 DEF IteratorsValid
<1>2. InSync => EveryNodeIndexed
  BY DEF InSync, AllFindable, Findable, EveryNodeIndexed
<1>3. ShardInv => ListAndIndexAgree
  BY <1>1, <1>2 DEF ShardInv, ListAndIndexAgree
<1>4. QED
  BY <1>3, ShardInvariant, PTL

(* get answers what the operation before it published: the value the key   *)
(* has there, or a miss only if it is not there, whatever the other        *)
(* threads are half way through.                                           *)
THEOREM GetsAnswerPublished == Spec => []GetAnswersPublished
<1>1. ShardInv => GetAnswersPublished
  <2> SUFFICES ASSUME ShardInv, ~failed, NEW t \in Threads,
                      pc[t] = "unlock", op[t].what = "get"
               PROVE  \/ [key |-> op[t].key, val |-> ret[t]] \in ToSet(published)
                      \/ ret[t] = Absent /\ \A e \in ToSet(published) : e.key # op[t].key
    BY DEF GetAnswersPublished
  <2> DEFINE k == op[t].key
             p == Atomic!Position(published, k)
  <2>1. published \in Seq(EntryType) /\ Progress(t)
    BY DEF ShardInv, Structure, TypeOK, InSync, EntryType
  <2>2. \/ Atomic!Has(published, k) /\ ret[t] = published[p].val
        \/ ~Atomic!Has(published, k) /\ ret[t] = Absent
    BY <2>1 DEF Progress, Atomic!ValueIn
  <2>3. CASE Atomic!Has(published, k)
    <3>1. p \in DOMAIN published /\ published[p].key = k
      BY <2>3 DEF Atomic!Has, Atomic!Position
    <3>2. published[p] \in ToSet(published) /\ published[p] \in EntryType
      BY <2>1, <3>1 DEF ToSet
    <3> HIDE DEF p
    <3>3. published[p] = [key |-> k, val |-> ret[t]]
      BY <2>2, <2>3, <3>1, <3>2 DEF EntryType
    <3>4. QED
      BY <3>2, <3>3
  <2>4. CASE ~Atomic!Has(published, k)
    <3>1. ASSUME NEW i \in DOMAIN published PROVE Atomic!Findable(published, i)
      <4>1. published[i] \in EntryType
        BY <2>1
      <4>2. QED
        BY <4>1, ShardAssumption DEF Atomic!Findable, EntryType
    <3>2. QED
      BY <2>2, <2>4, <3>1 DEF Atomic!Has, ToSet
  <2>5. QED
    BY <2>3, <2>4
<1>2. QED
  BY <1>1, ShardInvariant, PTL

(* What unlocks is one operation of the cache on the one shard.            *)
LEMMA UnlockIsOperation ==
  ASSUME ShardInv, NEW t \in Threads, Unlock(t)
  PROVE  Atomic!CacheNext \/ UNCHANGED published
<1> DEFINE one == [i \in {0} |-> published]
           k == op[t].key
           v == op[t].val
<1>1. pc[t] = "unlock" /\ published' = IF failed THEN published ELSE Listing
  BY DEF Unlock
<1>2. CASE failed
  BY <1>1, <1>2
<1>3. CASE ~failed
  <2>1. /\ Progress(t) /\ k \in Keys /\ op[t].what \in {"get", "put", "remove"}
        /\ op[t].what = "put" => v \in Values
    BY <1>1, <1>3 DEF ShardInv, Structure, TypeOK, Control, InSync
  <2>2. published' = Listing
    BY <1>1, <1>3
  <2>3. Atomic!ShardIndex(k) = 0
    BY <2>1 DEF Atomic!ShardIndex
  <2>4. one[0] = published
    OBVIOUS
  <2>5. \A x : [one EXCEPT ![0] = x] = [i \in {0} |-> x]
    OBVIOUS
  <2>6. one' = [i \in {0} |-> published']
    OBVIOUS
  <2>7. CASE op[t].what = "get"
    <3>1. CASE Atomic!Has(published, k)
      <4>1. published' = Atomic!Promoted(published, k)
        BY <1>1, <2>1, <2>2, <2>7, <3>1 DEF Progress
      <4>2. Atomic!Cached(k)
        BY <2>3, <2>4, <3>1 DEF Atomic!Cached
      <4>3. one' = [one EXCEPT ![0] = Atomic!Promoted(one[0], k)]
        BY <2>4, <2>5, <2>6, <4>1
      <4>4. Atomic!CacheGet(k)
        BY <2>3, <4>2, <4>3 DEF Atomic!CacheGet
      <4>5. QED
        BY <2>1, <4>4 DEF Atomic!CacheNext
    <3>2. CASE ~Atomic!Has(published, k)
      BY <1>1, <2>1, <2>2, <2>7, <3>2 DEF Progress
    <3>3. QED
      BY <3>1, <3>2
  <2>8. CASE op[t].what = "put"
    <3>1. published' = Atomic!Stored(published, k, v)
      BY <1>1, <2>1, <2>2, <2>8 DEF Progress
    <3>2. one' = [one EXCEPT ![0] = Atomic!Stored(one[0], k, v)]
      BY <2>4, <2>5, <2>6, <3>1
    <3>3. Atomic!CachePut(k, v)
      BY <2>3, <3>2 DEF Atomic!CachePut
    <3>4. QED
      BY <2>1, <2>8, <3>3 DEF Atomic!CacheNext
  <2>9. CASE op[t].what = "remove"
    <3>1. published' = Atomic!Removed(published, k)
      BY <1>1, <2>1, <2>2, <2>9 DEF Progress
    <3>2. one' = [one EXCEPT ![0] = Atomic!Removed(one[0], k)]
      BY <2>4, <2>5, <2>6, <3>1
    <3>3. Atomic!CacheRemove(k)
      BY <2>3, <3>2 DEF Atomic!CacheRemove
    <3>4. QED
      BY <2>1, <3>3 DEF Atomic!CacheNext
  <2>10. QED
    BY <2>1, <2>7, <2>8, <2>9
<1>4. QED
  BY <1>2, <1>3

(* Statement by statement the shard does what ShardedLRUCache does in one  *)
(* step per operation, up to the first failed allocation: other threads    *)
(* cannot tell a get, put or remove from an atomic one.                    *)
THEOREM ShardIsAtomic == Spec => ImplementsAtomicCache
<1>1. Init => Atomic!CacheInit
  <2>1. Atomic!Shards = {0}
    BY DEF Atomic!Shards
  <2>2. QED
    BY <2>1 DEF Init, Atomic!CacheInit, Atomic!EmptyShards
<1>2. ShardInv /\ [Next]_vars => [Atomic!CacheNext]_([i \in {0} |-> published])
  <2> SUFFICES ASSUME ShardInv, [Next]_vars
               PROVE  Atomic!CacheNext \/ UNCHANGED published
    OBVIOUS
  <2>1. (\E u \in Threads : Unlock(u)) \/ UNCHANGED published
    BY ZenonT(60) DEF Next, vars, EnterGet, EnterPut, EnterRemove, Enter, Splice, Read, Assign,
       UnindexLast, PopBack, PushFront, Index, BadAlloc, Erase, Unindex
  <2>2. QED
    BY <2>1, UnlockIsOperation
<1>3. QED
  BY <1>1, <1>2, ShardInvariant, PTL DEF Spec, ImplementsAtomicCache, Atomic!CacheSpec
=============================================================================
