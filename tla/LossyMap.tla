------------------------------ MODULE LossyMap ------------------------------
(***************************************************************************)
(* What the handlers may rely on from a cache: a map that answers with the *)
(* value stored last, keeps what was just stored, and forgets at most one  *)
(* other entry, when it stores a key it did not have.                      *)
(***************************************************************************)
CONSTANTS Keys, Values, Absent

VARIABLES map,
          last   \* the last operation, its key, and its argument or answer

LossyInit ==
  /\ map = [k \in Keys |-> Absent]
  /\ last = <<>>

Lookup(k) ==
  /\ last' = <<"get", k, map[k]>>
  /\ UNCHANGED map

Store(k, v) ==
  LET stored == [map EXCEPT ![k] = v] IN
  /\ last' = <<"put", k, v>>
  /\ \/ map' = stored
     \/ /\ map[k] = Absent
        /\ \E lost \in Keys \ {k} : map' = [stored EXCEPT ![lost] = Absent]

(* A store that throws stores nothing.                                     *)
StoreFails(k) ==
  /\ last' = <<"put", k, Absent>>
  /\ \/ UNCHANGED map
     \/ /\ map[k] = Absent
        /\ \E lost \in Keys \ {k} : map' = [map EXCEPT ![lost] = Absent]

Forget(k) ==
  /\ last' = <<"remove", k, Absent>>
  /\ map' = [map EXCEPT ![k] = Absent]

LossyNext ==
  \E k \in Keys : \/ Lookup(k)
                  \/ \E v \in Values : Store(k, v)
                  \/ StoreFails(k)
                  \/ Forget(k)

LossySpec == LossyInit /\ [][LossyNext]_<<map, last>>
=============================================================================
