---------------------------- MODULE ConnectionPool ----------------------------
(***************************************************************************)
(* What the pool of database connections promises the threads that use it, *)
(* without mutex, queue or condition variable: a connection is lent to one *)
(* thread at a time, a thread has at most one, and only a connection that  *)
(* a thread drops while it has it is missing afterwards.                   *)
(***************************************************************************)
CONSTANTS Threads, Connections

VARIABLES
  available,  \* the connections nobody has
  lent        \* per thread, the connections it has

Init == available = Connections /\ lent = [t \in Threads |-> {}]

Lend(t) ==
  /\ lent[t] = {}
  /\ \E c \in available :
       available' = available \ {c} /\ lent' = [lent EXCEPT ![t] = {c}]

GiveBack(t) ==
  /\ lent[t] # {}
  /\ available' = available \cup lent[t]
  /\ lent' = [lent EXCEPT ![t] = {}]

Drop(t) ==
  /\ lent[t] # {}
  /\ lent' = [lent EXCEPT ![t] = {}]
  /\ UNCHANGED available

Next == \E t \in Threads : Lend(t) \/ GiveBack(t) \/ Drop(t)

Spec == Init /\ [][Next]_<<available, lent>>
===============================================================================
