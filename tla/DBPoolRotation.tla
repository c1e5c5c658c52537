--------------------------- MODULE DBPoolRotation ---------------------------
(***************************************************************************)
(* DBPool with a record of the rotation of its connections.  The pool      *)
(* never looks at a connection: one that MySQL has closed is put back and  *)
(* lent again, and every statement on it fails (KVServer's "rejected").    *)
(* What keeps one dead connection from failing every request is the order  *)
(* of the queue.                                                           *)
(***************************************************************************)
EXTENDS DBPool

VARIABLE owed   \* for each idle connection: those idle at its return, not lent since

Idle == {connections[i] : i \in DOMAIN connections}
Returned == Idle' \ Idle
Lent == {held'[t] : t \in {u \in Threads : held[u] = NoConn /\ held'[u] # NoConn}}

NothingOwed == [c \in 1 .. PoolSize |-> {}]

RotationInit == PoolInit /\ owed = NothingOwed

Rotate ==
  owed' = [c \in 1 .. PoolSize |->
             CASE c \in Returned -> Idle
               [] c \in Lent -> {}
               [] OTHER -> owed[c] \ Lent]

RotationNext ==
  \/ /\ \E t \in Threads : GetConnection(t) \/ SpuriousWakeup(t) \/ ReleaseConnection(t) \/ Abandon(t)
     /\ Rotate
  \/ RestartPool /\ owed' = NothingOwed

RotationSpec == RotationInit /\ [][RotationNext]_<<poolVars, owed>>
-----------------------------------------------------------------------------
(* A connection that came back is not lent again before every connection   *)
(* that was idle at its return has been lent: as long as live connections  *)
(* are idle, a dead one fails at most one request of each round.           *)
DeadConnectionWaitsItsTurn ==
  [][\A c \in Lent : owed[c] = {}]_<<poolVars, owed>>
=============================================================================
