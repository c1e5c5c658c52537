--------------------------- MODULE LRUCacheShard ---------------------------
(***************************************************************************)
(* One shard of include/cache.h, statement by statement: a linked list of  *)
(* nodes, an index of iterators into it, and the mutex around both.        *)
(***************************************************************************)
EXTENDS SequencesExt

CONSTANTS Threads, Keys, Values,
          Absent,      \* no value: get returned false
          Nobody,      \* the owner of a free mutex
          Capacity,    \* the shard's capacity, at least 1
          AllocFails   \* whether an allocation may throw std::bad_alloc

ASSUME ShardAssumption ==
  /\ Capacity \in Nat \ {0} /\ AllocFails \in BOOLEAN
  /\ Absent \notin Values /\ Nobody \notin Threads

Nodes == 1 .. Capacity + 1   \* list nodes, one more than a correct list needs
NoNode == 0              \* cacheMap.end()
Freed == [key |-> Absent, val |-> Absent]
NoOp == [what |-> "none", key |-> Absent, val |-> Absent]

VARIABLES
  mtx,        \* the thread that holds the shard's mutex
  items,      \* std::list: its nodes, front (most recently used) first
  cell,       \* the key and value in each node, Freed when deallocated
  cacheMap,   \* the iterator stored for each key
  pc, op, it, ret,
  failed,     \* an allocation has failed since the start (ghost)
  published   \* the list as the last thread to unlock left it (ghost)

vars == <<mtx, items, cell, cacheMap, pc, op, it, ret, failed, published>>

Listing == [i \in DOMAIN items |-> cell[items[i]]]
At(n) == CHOOSE i \in DOMAIN items : items[i] = n
Goto(t, l) == pc' = [pc EXCEPT ![t] = l]

Init ==
  /\ mtx = Nobody /\ items = <<>> /\ published = <<>> /\ failed = FALSE
  /\ cell = [n \in Nodes |-> Freed]
  /\ cacheMap = [k \in Keys |-> NoNode]
  /\ pc = [t \in Threads |-> "idle"]
  /\ op = [t \in Threads |-> NoOp]
  /\ it = [t \in Threads |-> NoNode]
  /\ ret = [t \in Threads |-> Absent]

(* Mutant: no lock_guard.                                                  *)
MutantEnterUnlocked(t, o, found, missing) ==
  /\ pc[t] = "idle"
  /\ mtx' = t
  /\ op' = [op EXCEPT ![t] = o]
  /\ it' = [it EXCEPT ![t] = cacheMap[o.key]]
  /\ Goto(t, IF cacheMap[o.key] = NoNode THEN missing ELSE found)
  /\ UNCHANGED <<items, cell, cacheMap, ret, failed, published>>

(* std::lock_guard lock(mtx); auto it = cacheMap.find(key);                *)
Enter(t, o, found, missing) ==
  LET node == cacheMap[o.key] IN
  /\ pc[t] = "idle" /\ mtx = Nobody
  /\ mtx' = t
  /\ op' = [op EXCEPT ![t] = o]
  /\ it' = [it EXCEPT ![t] = node]
  /\ Goto(t, IF node = NoNode THEN missing ELSE found)
  /\ UNCHANGED <<items, cell, cacheMap, ret, failed, published>>

EnterGet(t, k) ==
  Enter(t, [what |-> "get", key |-> k, val |-> Absent], "splice", "unlock")
(* Mutants: the last node is popped while the index still points to it; > *)
(* instead of >=.                                                          *)
MutantPutLeavesIndex(t, k, v) ==
  Enter(t, [what |-> "put", key |-> k, val |-> v], "assign",
        IF Len(items) >= Capacity THEN "pop" ELSE "push")
MutantPutTooLate(t, k, v) ==
  Enter(t, [what |-> "put", key |-> k, val |-> v], "assign",
        IF Len(items) > Capacity THEN "unindexLast" ELSE "push")

EnterPut(t, k, v) ==
  Enter(t, [what |-> "put", key |-> k, val |-> v], "assign",
        IF Len(items) >= Capacity THEN "unindexLast" ELSE "push")
EnterRemove(t, k) ==
  Enter(t, [what |-> "remove", key |-> k, val |-> Absent], "erase", "unlock")

(* Mutant: splice to items.end().                                          *)
MutantSpliceToEnd(t) ==
  /\ pc[t] = "splice"
  /\ items' = Append(RemoveAt(items, At(it[t])), it[t])
  /\ Goto(t, IF op[t].what = "get" THEN "read" ELSE "unlock")
  /\ UNCHANGED <<mtx, cell, cacheMap, op, it, ret, failed, published>>

(* items.splice(items.begin(), items, it->second);                         *)
Splice(t) ==
  /\ pc[t] = "splice"
  /\ items' = Cons(it[t], RemoveAt(items, At(it[t])))
  /\ Goto(t, IF op[t].what = "get" THEN "read" ELSE "unlock")
  /\ UNCHANGED <<mtx, cell, cacheMap, op, it, ret, failed, published>>

Read(t) ==
  /\ pc[t] = "read"
  /\ ret' = [ret EXCEPT ![t] = cell[it[t]].val]
  /\ Goto(t, "unlock")
  /\ UNCHANGED <<mtx, items, cell, cacheMap, op, it, failed, published>>

Assign(t) ==
  /\ pc[t] = "assign"
  /\ cell' = [cell EXCEPT ![it[t]].val = op[t].val]
  /\ Goto(t, "splice")
  /\ UNCHANGED <<mtx, items, cacheMap, op, it, ret, failed, published>>

(* cacheMap.erase(last->first);                                            *)
UnindexLast(t) ==
  /\ pc[t] = "unindexLast"
  /\ cacheMap' = [cacheMap EXCEPT ![cell[Last(items)].key] = NoNode]
  /\ Goto(t, "pop")
  /\ UNCHANGED <<mtx, items, cell, op, it, ret, failed, published>>

PopBack(t) ==
  /\ pc[t] = "pop"
  /\ items' = Front(items)
  /\ cell' = [cell EXCEPT ![Last(items)] = Freed]
  /\ Goto(t, "push")
  /\ UNCHANGED <<mtx, cacheMap, op, it, ret, failed, published>>

(* std::bad_alloc leaves the statement without effect; the lock_guard      *)
(* unlocks as the exception passes.                                        *)
BadAlloc(t) ==
  /\ AllocFails /\ pc[t] \in {"read", "assign", "push", "index"}
  /\ failed' = TRUE
  /\ Goto(t, "unlock")
  /\ UNCHANGED <<mtx, items, cell, cacheMap, op, it, ret, published>>

PushFront(t) ==
  /\ pc[t] = "push"
  /\ \E n \in Nodes :
       /\ n \notin ToSet(items)
       /\ \A m \in 1 .. n - 1 : m \in ToSet(items)   \* which one is immaterial
       /\ items' = Cons(n, items)
       /\ cell' = [cell EXCEPT ![n] = [key |-> op[t].key, val |-> op[t].val]]
  /\ Goto(t, "index")
  /\ UNCHANGED <<mtx, cacheMap, op, it, ret, failed, published>>

(* cacheMap[key] = items.begin();                                          *)
Index(t) ==
  /\ pc[t] = "index"
  /\ cacheMap' = [cacheMap EXCEPT ![op[t].key] = Head(items)]
  /\ Goto(t, "unlock")
  /\ UNCHANGED <<mtx, items, cell, op, it, ret, failed, published>>

Erase(t) ==
  /\ pc[t] = "erase"
  /\ items' = RemoveAt(items, At(it[t]))
  /\ cell' = [cell EXCEPT ![it[t]] = Freed]
  /\ Goto(t, "unindex")
  /\ UNCHANGED <<mtx, cacheMap, op, it, ret, failed, published>>

Unindex(t) ==
  /\ pc[t] = "unindex"
  /\ cacheMap' = [cacheMap EXCEPT ![op[t].key] = NoNode]
  /\ Goto(t, "unlock")
  /\ UNCHANGED <<mtx, items, cell, op, it, ret, failed, published>>

Unlock(t) ==
  /\ pc[t] = "unlock"
  /\ mtx' = Nobody
  /\ published' = IF failed THEN published ELSE Listing
  /\ Goto(t, "idle")
  /\ op' = [op EXCEPT ![t] = NoOp]
  /\ it' = [it EXCEPT ![t] = NoNode]
  /\ ret' = [ret EXCEPT ![t] = Absent]
  /\ UNCHANGED <<items, cell, cacheMap, failed>>

Next ==
  \E t \in Threads :
    \/ \E k \in Keys : \/ EnterGet(t, k)
                       \/ \E v \in Values : EnterPut(t, k, v)
                       \/ EnterRemove(t, k)
    \/ Splice(t) \/ Read(t) \/ Assign(t)
    \/ UnindexLast(t) \/ PopBack(t) \/ PushFront(t) \/ Index(t) \/ BadAlloc(t)
    \/ Erase(t) \/ Unindex(t)
    \/ Unlock(t)

Spec == Init /\ [][Next]_vars
-----------------------------------------------------------------------------
TypeOK ==
  /\ mtx \in Threads \cup {Nobody}
  /\ items \in Seq(Nodes)
  /\ cell \in [Nodes -> [key : Keys \cup {Absent}, val : Values \cup {Absent}]]
  /\ cacheMap \in [Keys -> Nodes \cup {NoNode}]
  /\ pc \in [Threads -> {"idle", "splice", "read", "assign", "unindexLast", "pop",
                         "push", "index", "erase", "unindex", "unlock"}]
  /\ op \in [Threads -> [what : {"none", "get", "put", "remove"},
                          key : Keys \cup {Absent}, val : Values \cup {Absent}]]
  /\ it \in [Threads -> Nodes \cup {NoNode}]
  /\ ret \in [Threads -> Values \cup {Absent}]
  /\ failed \in BOOLEAN
  /\ published \in Seq([key : Keys, val : Values])

(* No iterator dangles: what the index stores for a key, and what a thread *)
(* is about to follow, is a node of the list; only inside remove, between  *)
(* items.erase and cacheMap.erase, does an entry outlive its node.         *)
IteratorsValid ==
  /\ \A k \in Keys :
       cacheMap[k] # NoNode =>
         \/ cacheMap[k] \in ToSet(items) /\ cell[cacheMap[k]].key = k
         \/ mtx # Nobody /\ pc[mtx] = "unindex" /\ op[mtx].key = k
  /\ \A t \in Threads :
       pc[t] \in {"splice", "read", "assign", "erase"} => it[t] \in ToSet(items)
  /\ \A t \in Threads : pc[t] \in {"unindexLast", "pop", "index"} => items # <<>>

(* While the mutex is free every node of the list can be found by its key, *)
(* so nothing stale lingers in the list.  An allocation that fails between *)
(* push_front and the index entry ends this for good.                      *)
EveryNodeIndexed ==
  mtx = Nobody /\ ~failed => \A i \in DOMAIN items : cacheMap[cell[items[i]].key] = items[i]

(* The list and its index agree in both directions.                        *)
ListAndIndexAgree == IteratorsValid /\ EveryNodeIndexed

(* The list never outgrows the capacity, at no statement, and the nodes in *)
(* it are distinct and allocated.                                          *)
ListWithinCapacity ==
  /\ Len(items) <= Capacity
  /\ IsInjective(items)
  /\ \A n \in Nodes : n \in ToSet(items) <=> cell[n] # Freed

(* get answers what the operation before it published, nothing that        *)
(* another thread is half way through writing, and misses only a key that  *)
(* is not there (as long as no allocation failed).                         *)
GetAnswersPublished ==
  \A t \in Threads :
    pc[t] = "unlock" /\ op[t].what = "get" /\ ~failed =>
      \/ [key |-> op[t].key, val |-> ret[t]] \in ToSet(published)
      \/ ret[t] = Absent /\ \A e \in ToSet(published) : e.key # op[t].key

(* The shard is one step of ShardedLRUCache per operation, up to the first *)
(* failed allocation, after which published stands still.                  *)
Atomic == INSTANCE ShardedLRUCache
  WITH shards <- [i \in {0} |-> published], NumShards <- 1,
       TotalCapacity <- Capacity, Hash <- [k \in Keys |-> 0]
ImplementsAtomicCache == Atomic!CacheSpec
=============================================================================
