----------------------------- MODULE KVHistory -----------------------------
(***************************************************************************)
(* KVServer with a record of the values each row of the table has held, or *)
(* that a create went on to cache although MySQL may not have stored them. *)
(***************************************************************************)
EXTENDS KVServer

VARIABLE ever   \* what each row has held, or was to hold, since the run began

Held(table, r) == {table[r]} \ {Absent}

KVHistoryInit == KVInit /\ ever = [r \in Range(Row) |-> Held(db, r)]

(* The values of creates whose statement has just ended, well or not.      *)
Created(r) ==
  {req[t].val : t \in {u \in Threads : /\ req[u].method = "POST" /\ Row[req[u].key] = r
                                       /\ pc[u] = "sql" /\ pc'[u] = "release"}}

KVHistoryNext ==
  KVNext /\ ever' = [r \in Range(Row) |-> ever[r] \cup Held(db', r) \cup Created(r)]

KVHistorySpec == KVHistoryInit /\ [][KVHistoryNext]_<<kvVars, ever>>
-----------------------------------------------------------------------------
(* What read answers, hit or miss, was at some time stored under that key, *)
(* or given to a create that went on after its statement failed: races,    *)
(* updates that fail or find no row, lost replies and restarts invent      *)
(* nothing.                                                                *)
NothingInvented ==
  /\ \A t \in Threads :
       res[t].is \in {"hit", "miss"} => res[t].val \in ever[Row[req[t].key]]
  /\ \A k \in Keys : Cached(k) => CachedValue(k) \in ever[Row[k]]
=============================================================================
