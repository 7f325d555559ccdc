-------------------------------- MODULE PgPool --------------------------------
(***************************************************************************)
(* PGBackend (core/database/pg_backend.cpp): a queue of connections behind *)
(* a mutex and a condition variable, and the threads that take one for a   *)
(* query of DbQueryExecutor and put it back.                               *)
(*                                                                         *)
(* Where a thread is, by pc:                                               *)
(*   "idle"    between two queries                                         *)
(*   "lock"    in connection(), waiting for the mutex (first or again)     *)
(*   "test"    in connection(), with the mutex, at the test of the loop    *)
(*   "pop"     in connection(), with the mutex, behind the loop            *)
(*   "wait"    in m_condition.wait, without the mutex                      *)
(*   "query"   with a connection, in a function of DbQueryExecutor         *)
(*   "free"    in free_connection, waiting for the mutex                   *)
(*   "push"    in free_connection, with the mutex                          *)
(*   "notify"  in free_connection, behind unlock()                         *)
(***************************************************************************)
EXTENDS Naturals, Sequences, FiniteSets

CONSTANTS
  Threads,
  POOL_COUNT,   \* 10 in pg_backend.hpp
  MaxQueries,   \* how many queries each thread makes
  MayThrow      \* whether a query may throw (std::stoi of a count too large)

Connections == 1 .. POOL_COUNT

(* Neither a thread nor a connection. *)
Nobody  == "nobody"
Nothing == 0

ASSUME PoolAssumption ==
  /\ IsFiniteSet(Threads) /\ Nobody \notin Threads
  /\ POOL_COUNT \in Nat /\ MaxQueries \in Nat /\ MayThrow \in BOOLEAN

VARIABLES
  m_mutex,      \* the thread that has the mutex
  m_pool,       \* the queue of free connections
  m_condition,  \* the threads asleep on the condition variable
  pc,
  held,         \* the connection a thread has
  queries       \* how many queries a thread has begun

vars == <<m_mutex, m_pool, m_condition, pc, held, queries>>

(* PGBackend(), with its create_pool. *)
Init ==
  /\ m_mutex = Nobody
  /\ m_pool = [i \in Connections |-> i]
  /\ m_condition = {}
  /\ pc = [t \in Threads |-> "idle"]
  /\ held = [t \in Threads |-> Nothing]
  /\ queries = [t \in Threads |-> 0]

Goto(t, p) == pc' = [pc EXCEPT ![t] = p]

(* A thread calls connection(). *)
Call(t) ==
  /\ pc[t] = "idle" /\ queries[t] < MaxQueries
  /\ queries' = [queries EXCEPT ![t] = @ + 1]
  /\ Goto(t, "lock")
  /\ UNCHANGED <<m_mutex, m_pool, m_condition, held>>

(* Mutation: there is no mutex. *)
Lock_NoMutex(t) ==
  /\ m_mutex' = t
  /\ \/ pc[t] = "lock" /\ Goto(t, "test")
     \/ pc[t] = "free" /\ Goto(t, "push")
  /\ UNCHANGED <<m_pool, m_condition, held, queries>>

(* The mutex is taken: by connection(), by a wait that ends, or by          *)
(* free_connection.                                                         *)
Lock(t) ==
  /\ m_mutex = Nobody /\ m_mutex' = t
  /\ \/ pc[t] = "lock" /\ Goto(t, "test")
     \/ pc[t] = "free" /\ Goto(t, "push")
  /\ UNCHANGED <<m_pool, m_condition, held, queries>>

(* connection() copies the oldest free connection, ... *)
Front(t) ==
  /\ pc[t] = "test" /\ m_pool # <<>>
  /\ held' = [held EXCEPT ![t] = Head(m_pool)]
  /\ Goto(t, "pop")
  /\ UNCHANGED <<m_mutex, m_pool, m_condition, queries>>

(* Mutation: the connection stays in the queue. *)
Pop_Nothing(t) ==
  /\ pc[t] = "pop" /\ Goto(t, "query")
  /\ m_mutex' = Nobody
  /\ UNCHANGED <<m_pool, m_condition, held, queries>>

(* ... takes it off the queue and returns. *)
Pop(t) ==
  /\ pc[t] = "pop" /\ Goto(t, "query")
  /\ m_pool' = Tail(m_pool)
  /\ m_mutex' = Nobody
  /\ UNCHANGED <<m_condition, held, queries>>

(* Mutation: the mutex is released before the thread is on the condition's *)
(* list, so that a notification can come in between.                       *)
Wait_NotAtOnce(t) ==
  \/ /\ pc[t] = "test" /\ m_pool = <<>> /\ m_mutex = t
     /\ m_mutex' = Nobody
     /\ UNCHANGED <<pc, m_condition, m_pool, held, queries>>
  \/ /\ pc[t] = "test" /\ m_mutex # t
     /\ m_condition' = m_condition \cup {t}
     /\ Goto(t, "wait")
     /\ UNCHANGED <<m_mutex, m_pool, held, queries>>

(* m_condition.wait on an empty queue: the thread falls asleep and gives   *)
(* up the mutex in one step.                                               *)
Wait(t) ==
  /\ pc[t] = "test" /\ m_pool = <<>>
  /\ m_condition' = m_condition \cup {t}
  /\ m_mutex' = Nobody
  /\ Goto(t, "wait")
  /\ UNCHANGED <<m_pool, held, queries>>

(* A spurious wake-up. *)
Wake(t) ==
  /\ pc[t] = "wait"
  /\ m_condition' = m_condition \ {t}
  /\ Goto(t, "lock")
  /\ UNCHANGED <<m_mutex, m_pool, held, queries>>

(* The query ends and the connection is to be given back, ... *)
Answered(t) ==
  /\ pc[t] = "query" /\ Goto(t, "free")
  /\ UNCHANGED <<m_mutex, m_pool, m_condition, held, queries>>

(* Mutation: a handler gives back the connection that is already gone. *)
Throws_ThenFree(t) ==
  /\ MayThrow
  /\ pc[t] = "query" /\ Goto(t, "free")
  /\ held' = [held EXCEPT ![t] = Nothing]
  /\ UNCHANGED <<m_mutex, m_pool, m_condition, queries>>

(* ... or it throws: the connection is closed with its last reference.     *)
Throws(t) ==
  /\ MayThrow
  /\ pc[t] = "query" /\ Goto(t, "idle")
  /\ held' = [held EXCEPT ![t] = Nothing]
  /\ UNCHANGED <<m_mutex, m_pool, m_condition, queries>>

(* free_connection, up to unlock(). *)
Push(t) ==
  /\ pc[t] = "push"
  /\ m_pool' = Append(m_pool, held[t])
  /\ held' = [held EXCEPT ![t] = Nothing]
  /\ m_mutex' = Nobody
  /\ Goto(t, "notify")
  /\ UNCHANGED <<m_condition, queries>>

(* Mutation: the notification is left out. *)
Notify_Nobody(t) ==
  /\ pc[t] = "notify" /\ Goto(t, "idle")
  /\ UNCHANGED <<m_mutex, m_condition, m_pool, held, queries>>

(* notify_one: some thread that is asleep, if there is one, wakes up. *)
Notify(t) ==
  /\ pc[t] = "notify"
  /\ \/ m_condition = {} /\ Goto(t, "idle") /\ UNCHANGED m_condition
     \/ \E w \in m_condition :
          /\ m_condition' = m_condition \ {w}
          /\ pc' = [pc EXCEPT ![t] = "idle", ![w] = "lock"]
  /\ UNCHANGED <<m_mutex, m_pool, held, queries>>

(* What a thread does by itself. *)
Step(t) ==
  \/ Call(t) \/ Lock(t) \/ Front(t) \/ Pop(t) \/ Wait(t)
  \/ Answered(t) \/ Throws(t) \/ Push(t) \/ Notify(t)

Finished == \A t \in Threads : pc[t] = "idle" /\ queries[t] = MaxQueries

Next ==
  \/ \E t \in Threads : Step(t) \/ Wake(t)
  \/ Finished /\ UNCHANGED vars

Spec == Init /\ [][Next]_vars

(* A runnable thread runs, and spurious wake-ups do not go on for ever: a  *)
(* thread then waits for the mutex only while others use it, and each does *)
(* so a finite number of times.                                            *)
FairSpec ==
  /\ Spec
  /\ \A t \in Threads : WF_vars(Step(t))
  /\ <>[][\A t \in Threads : ~Wake(t)]_vars

-----------------------------------------------------------------------------
(* The values of the variables. *)
TypeOK ==
  /\ m_mutex \in Threads \cup {Nobody}
  /\ m_pool \in Seq(Connections)
  /\ m_condition \subseteq Threads
  /\ pc \in [Threads -> {"idle", "lock", "test", "pop", "wait", "query", "free", "push", "notify"}]
  /\ held \in [Threads -> Connections \cup {Nothing}]
  /\ queries \in [Threads -> 0 .. MaxQueries]

(* No connection is used by two threads, or handed out while in use, or    *)
(* twice in the queue: libpq connections are not to be shared.             *)
ConnectionsExclusive ==
  /\ \A t, u \in Threads : t # u /\ held[t] = held[u] => held[t] = Nothing
  /\ \A t \in Threads : \A i \in 1 .. Len(m_pool) :
       held[t] = m_pool[i] => pc[t] = "pop" /\ i = 1
  /\ \A i, j \in 1 .. Len(m_pool) : i # j => m_pool[i] # m_pool[j]

(* Nobody sleeps beside a free connection that no one is on the way to     *)
(* fetch: there are never more free connections than threads about to      *)
(* notify or about to look, as long as someone is asleep.                  *)
NoLostWakeup ==
  m_condition # {} =>
    Len(m_pool) <= Cardinality({t \in Threads : pc[t] \in {"notify", "lock", "test", "pop"}})

(* However many queries throw and lose their connections, every thread gets *)
(* its connections and makes all of its queries as long as one is left.     *)
OneIsLeft == m_pool # <<>> \/ \E t \in Threads : held[t] # Nothing
EveryoneServed == []OneIsLeft => <>Finished

(* The pool keeps the promise of ConnectionPool. *)
Promise == INSTANCE ConnectionPool WITH
  available <- {m_pool[i] : i \in 1 .. Len(m_pool)},
  lent      <- [t \in Threads |-> IF pc[t] = "pop" THEN {} ELSE {held[t]} \ {Nothing}]

PoolPromise == Promise!Spec
===============================================================================
