------------------------------ MODULE TaskQueue ------------------------------
(***************************************************************************)
(* What the server expects of httplib::TaskQueue: a job that is accepted   *)
(* is started once, in the order of acceptance, by one of a fixed number   *)
(* of workers, and shutdown returns when there is nothing left to do.      *)
(***************************************************************************)
EXTENDS Naturals, Sequences, FiniteSets

CONSTANTS Tasks,   \* the jobs that may be given to the queue
          Width    \* how many of them may run at the same time

VARIABLES pending, \* accepted jobs that no worker has started, oldest first
          active,  \* the jobs that are running
          state    \* "open", "closing" once shutdown was called, "closed"

taskVars == <<pending, active, state>>

TaskInit == pending = <<>> /\ active = {} /\ state = "open"

Submit(t) ==
  /\ state = "open"
  /\ pending' = Append(pending, t)
  /\ UNCHANGED <<active, state>>

Start ==
  /\ pending # <<>> /\ Cardinality(active) < Width
  /\ active' = active \cup {Head(pending)}
  /\ pending' = Tail(pending)
  /\ UNCHANGED state

Finish(t) ==
  /\ t \in active
  /\ active' = active \ {t}
  /\ UNCHANGED <<pending, state>>

Close ==
  /\ state = "open" /\ state' = "closing"
  /\ UNCHANGED <<pending, active>>

Closed ==
  /\ state = "closing" /\ pending = <<>> /\ active = {}
  /\ state' = "closed"
  /\ UNCHANGED <<pending, active>>

TaskNext ==
  \/ \E t \in Tasks : Submit(t) \/ Finish(t)
  \/ Start \/ Close \/ Closed

TaskSpec == TaskInit /\ [][TaskNext]_taskVars

(* A queue that keeps an idle worker from a waiting job is no TaskQueue.   *)
FairTaskSpec == TaskSpec /\ WF_taskVars(Start) /\ WF_taskVars(Closed)
=============================================================================
