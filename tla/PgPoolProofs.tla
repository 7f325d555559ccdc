------------------------------ MODULE PgPoolProofs ------------------------------
(***************************************************************************)
(* Proofs about PgPool for every set of threads, every size of the pool    *)
(* and every number of queries.                                            *)
(***************************************************************************)
EXTENDS PgPool, TLAPS, SequenceTheorems, FiniteSetTheorems

(* The mutex is with the thread inside a critical section, and only there. *)
MutexInv == \A t \in Threads : pc[t] \in {"test", "pop", "push"} <=> m_mutex = t

(* A thread has a connection from front() to push(). *)
HeldInv == \A t \in Threads : held[t] # Nothing <=> pc[t] \in {"pop", "query", "free", "push"}

(* Between front() and pop() the head of the queue is the one that was read. *)
PopInv == \A t \in Threads : pc[t] = "pop" => m_pool # <<>> /\ held[t] = m_pool[1]

(* Who is on the condition's list is asleep. *)
SleepInv == \A t \in m_condition : pc[t] = "wait"

IInv == TypeOK /\ MutexInv /\ HeldInv /\ PopInv /\ SleepInv /\ ConnectionsExclusive

-----------------------------------------------------------------------------
(* What the operations of the queue do to a queue of connections. *)
LEMMA PoolTail ==
  ASSUME m_pool \in Seq(Connections), m_pool # <<>>
  PROVE  /\ Len(m_pool) \in Nat \ {0} /\ Head(m_pool) = m_pool[1] /\ m_pool[1] \in Connections
         /\ Tail(m_pool) \in Seq(Connections)
         /\ Len(Tail(m_pool)) = Len(m_pool) - 1
         /\ \A i \in 1 .. Len(Tail(m_pool)) : Tail(m_pool)[i] = m_pool[i + 1]
<1>1. Len(m_pool) \in Nat \ {0}
  BY LenProperties, EmptySeq
<1>2. m_pool[1] \in Connections
  BY <1>1, ElementOfSeq
<1> QED
  BY <1>1, <1>2, HeadTailProperties

LEMMA InitInv ==
  ASSUME Init, PoolAssumption PROVE IInv
<1>1. m_pool \in Seq(Connections) /\ Len(m_pool) = POOL_COUNT
  BY DEF Init, Connections, PoolAssumption
<1>2. \A i \in 1 .. Len(m_pool) : m_pool[i] = i
  BY <1>1 DEF Init, Connections
<1>3. TypeOK
  BY <1>1 DEF Init, TypeOK, PoolAssumption
<1>4. ConnectionsExclusive
  BY <1>1, <1>2 DEF Init, ConnectionsExclusive, Nothing
<1>5. MutexInv /\ HeldInv /\ PopInv /\ SleepInv
  BY DEF Init, MutexInv, HeldInv, PopInv, SleepInv, PoolAssumption
<1> QED
  BY <1>3, <1>4, <1>5 DEF IInv

(* A step that leaves the queue alone and takes no connection from it      *)
(* keeps the connections exclusive.                                        *)
LEMMA SamePool ==
  ASSUME IInv, NEW t \in Threads, UNCHANGED m_pool,
         held' = held \/ held' = [held EXCEPT ![t] = Nothing],
         \A u \in Threads : pc[u] = "pop" => pc'[u] = "pop"
  PROVE  ConnectionsExclusive'
<1>1. \A u \in Threads : held'[u] = held[u] \/ held'[u] = Nothing
  BY DEF IInv, TypeOK
<1>2. \A i \in 1 .. Len(m_pool) : m_pool[i] # Nothing
  <2>1. m_pool \in Seq(Connections)
    BY DEF IInv, TypeOK
  <2>2. \A i \in 1 .. Len(m_pool) : m_pool[i] \in Connections
    BY <2>1, ElementOfSeq
  <2> QED
    BY <2>2 DEF Connections, Nothing
<1> QED
  BY <1>1, <1>2 DEF IInv, ConnectionsExclusive

LEMMA StepInv ==
  ASSUME IInv, PoolAssumption, NEW t \in Threads, Step(t) \/ Wake(t)
  PROVE  IInv'
<1> USE DEF IInv
<1>1. t # Nobody
  BY DEF PoolAssumption
<1>2. CASE Call(t)
  <2>1. queries[t] + 1 \in 0 .. MaxQueries
    BY <1>2 DEF Call, TypeOK, PoolAssumption
  <2>2. TypeOK'
    BY <1>2, <2>1 DEF Call, Goto, TypeOK
  <2>3. ConnectionsExclusive'
    BY <1>2, SamePool DEF Call, Goto, TypeOK
  <2> QED
    BY <1>2, <2>2, <2>3 DEF Call, Goto, TypeOK, MutexInv, HeldInv, PopInv, SleepInv
<1>3. CASE Lock(t)
  <2>1. TypeOK'
    BY <1>3 DEF Lock, Goto, TypeOK
  <2>2. ConnectionsExclusive'
    BY <1>3, SamePool DEF Lock, Goto, TypeOK
  <2>3. MutexInv'
    BY <1>3, <1>1 DEF Lock, Goto, TypeOK, MutexInv, PoolAssumption
  <2> QED
    BY <1>3, <2>1, <2>2, <2>3 DEF Lock, Goto, TypeOK, HeldInv, PopInv, SleepInv
<1>4. CASE Front(t)
  <2> DEFINE c == m_pool[1]
  <2>1. c \in Connections /\ c # Nothing /\ held' = [held EXCEPT ![t] = c] /\ Len(m_pool) \in Nat \ {0}
    BY <1>4, PoolTail DEF Front, TypeOK, Connections, Nothing
  <2>2. TypeOK'
    BY <1>4, <2>1 DEF Front, Goto, TypeOK
  <2>3. \A u \in Threads \ {t} : pc[u] # "pop"
    BY <1>4 DEF Front, MutexInv
  <2>4. \A u \in Threads : \A i \in 1 .. Len(m_pool) : held[u] # m_pool[i]
    BY <1>4, <2>3 DEF Front, ConnectionsExclusive
  <2>5. ConnectionsExclusive'
    <3>1. UNCHANGED m_pool /\ pc'[t] = "pop"
      BY <1>4 DEF Front, Goto, TypeOK
    <3>2. held'[t] = c /\ \A u \in Threads \ {t} : held'[u] = held[u] /\ held[u] # c
      BY <2>1, <2>4 DEF TypeOK
    <3>3. \A i \in 1 .. Len(m_pool) : c = m_pool[i] => i = 1
      BY <2>1 DEF ConnectionsExclusive
    <3> HIDE DEF c
    <3> QED
      BY <3>1, <3>2, <3>3, <2>4 DEF ConnectionsExclusive
  <2>6. MutexInv' /\ SleepInv'
    BY <1>4 DEF Front, Goto, TypeOK, MutexInv, SleepInv
  <2>7. HeldInv' /\ PopInv'
    BY <1>4, <2>1 DEF Front, Goto, TypeOK, HeldInv, PopInv
  <2> QED
    BY <2>2, <2>5, <2>6, <2>7
<1>5. CASE Pop(t)
  <2>1. m_pool # <<>> /\ held[t] = m_pool[1]
    BY <1>5 DEF Pop, PopInv
  <2>2. /\ m_pool' \in Seq(Connections) /\ Len(m_pool) \in Nat \ {0} /\ Len(m_pool') = Len(m_pool) - 1
        /\ \A i \in 1 .. Len(m_pool') : m_pool'[i] = m_pool[i + 1]
    BY <1>5, <2>1, PoolTail DEF Pop, TypeOK
  <2>3. TypeOK'
    BY <1>5, <2>2 DEF Pop, Goto, TypeOK
  <2>4. \A u \in Threads \ {t} : pc[u] # "pop"
    BY <1>5 DEF Pop, MutexInv
  <2>5. ConnectionsExclusive'
    <3>1. UNCHANGED held
      BY <1>5 DEF Pop
    <3>2. \A u \in Threads : \A i \in 1 .. Len(m_pool') : held[u] # m_pool'[i]
      <4> SUFFICES ASSUME NEW u \in Threads, NEW i \in 1 .. Len(m_pool')
                   PROVE  held[u] # m_pool[i + 1]
        BY <2>2
      <4>1. i + 1 \in 1 .. Len(m_pool) /\ i + 1 # 1
        BY <2>2
      <4> QED
        BY <4>1, <2>1, <2>4 DEF ConnectionsExclusive
    <3>3. \A i, j \in 1 .. Len(m_pool') : i # j => m_pool'[i] # m_pool'[j]
      <4> SUFFICES ASSUME NEW i \in 1 .. Len(m_pool'), NEW j \in 1 .. Len(m_pool'), i # j
                   PROVE  m_pool[i + 1] # m_pool[j + 1]
        BY <2>2
      <4>1. i + 1 \in 1 .. Len(m_pool) /\ j + 1 \in 1 .. Len(m_pool) /\ i + 1 # j + 1
        BY <2>2
      <4> QED
        BY <4>1 DEF ConnectionsExclusive
    <3> QED
      BY <3>1, <3>2, <3>3 DEF ConnectionsExclusive
  <2>6. MutexInv' /\ SleepInv'
    BY <1>1, <1>5 DEF Pop, Goto, TypeOK, MutexInv, SleepInv, PoolAssumption
  <2>7. HeldInv' /\ PopInv'
    BY <1>5, <2>4 DEF Pop, Goto, TypeOK, HeldInv, PopInv
  <2> QED
    BY <2>3, <2>5, <2>6, <2>7
<1>6. CASE Wait(t)
  <2>1. TypeOK'
    BY <1>6 DEF Wait, Goto, TypeOK
  <2>2. ConnectionsExclusive'
    BY <1>6, SamePool DEF Wait, Goto, TypeOK
  <2>3. MutexInv' /\ SleepInv'
    BY <1>1, <1>6 DEF Wait, Goto, TypeOK, MutexInv, SleepInv, PoolAssumption
  <2> QED
    BY <1>6, <2>1, <2>2, <2>3 DEF Wait, Goto, TypeOK, HeldInv, PopInv
<1>7. CASE Wake(t)
  <2>1. TypeOK'
    BY <1>7 DEF Wake, Goto, TypeOK
  <2>2. ConnectionsExclusive'
    BY <1>7, SamePool DEF Wake, Goto, TypeOK
  <2> QED
    BY <1>7, <2>1, <2>2 DEF Wake, Goto, TypeOK, MutexInv, HeldInv, PopInv, SleepInv
<1>8. CASE Answered(t)
  <2>1. TypeOK'
    BY <1>8 DEF Answered, Goto, TypeOK
  <2>2. ConnectionsExclusive'
    BY <1>8, SamePool DEF Answered, Goto, TypeOK
  <2> QED
    BY <1>8, <2>1, <2>2 DEF Answered, Goto, TypeOK, MutexInv, HeldInv, PopInv, SleepInv
<1>9. CASE Throws(t)
  <2>1. TypeOK'
    BY <1>9 DEF Throws, Goto, TypeOK
  <2>2. ConnectionsExclusive'
    BY <1>9, SamePool DEF Throws, Goto, TypeOK
  <2> QED
    BY <1>9, <2>1, <2>2 DEF Throws, Goto, TypeOK, MutexInv, HeldInv, PopInv, SleepInv
<1>10. CASE Push(t)
  <2> DEFINE c == held[t]
  <2>1. c \in Connections /\ c # Nothing
    BY <1>10 DEF Push, HeldInv, TypeOK
  <2>2. /\ m_pool' \in Seq(Connections) /\ Len(m_pool) \in Nat /\ Len(m_pool') = Len(m_pool) + 1
        /\ \A i \in 1 .. Len(m_pool) : m_pool'[i] = m_pool[i]
        /\ m_pool'[Len(m_pool) + 1] = c
    BY <1>10, <2>1, AppendProperties, LenProperties DEF Push, TypeOK
  <2>3. TypeOK'
    BY <1>10, <2>2 DEF Push, Goto, TypeOK
  <2>4. \A u \in Threads : pc[u] # "pop"
    BY <1>10 DEF Push, MutexInv
  <2>5. held'[t] = Nothing /\ \A u \in Threads \ {t} : held'[u] = held[u] /\ held[u] # c
    BY <1>10, <2>1 DEF Push, TypeOK, ConnectionsExclusive
  <2>6. \A u \in Threads : \A i \in 1 .. Len(m_pool) : held[u] # m_pool[i]
    BY <2>4 DEF ConnectionsExclusive
  <2>7. ConnectionsExclusive'
    <3>1. \A i \in 1 .. Len(m_pool') : i \in 1 .. Len(m_pool) \/ i = Len(m_pool) + 1
      BY <2>2
    <3>2. \A i \in 1 .. Len(m_pool') : m_pool'[i] # Nothing
      BY <2>2, ElementOfSeq DEF Connections, Nothing
    <3>3. \A u \in Threads : \A i \in 1 .. Len(m_pool') : held'[u] # m_pool'[i]
      <4> HIDE DEF c
      <4> QED
        BY <2>2, <2>5, <2>6, <3>1, <3>2
    <3>4. \A i, j \in 1 .. Len(m_pool') : i # j => m_pool'[i] # m_pool'[j]
      BY <2>2, <2>6, <3>1 DEF ConnectionsExclusive
    <3>5. \A u, v \in Threads : u # v /\ held'[u] = held'[v] => held'[u] = Nothing
      BY <2>5 DEF ConnectionsExclusive
    <3> QED
      BY <3>3, <3>4, <3>5 DEF ConnectionsExclusive
  <2>8. MutexInv' /\ SleepInv'
    BY <1>1, <1>10 DEF Push, Goto, TypeOK, MutexInv, SleepInv, PoolAssumption
  <2>9. HeldInv' /\ PopInv'
    BY <1>10, <2>4 DEF Push, Goto, TypeOK, HeldInv, PopInv
  <2> QED
    BY <2>3, <2>7, <2>8, <2>9
<1>11. CASE Notify(t)
  <2>1. CASE m_condition = {} /\ Goto(t, "idle") /\ UNCHANGED m_condition
    <3>1. TypeOK'
      BY <1>11, <2>1 DEF Notify, Goto, TypeOK
    <3>2. ConnectionsExclusive'
      BY <1>11, <2>1, SamePool DEF Notify, Goto, TypeOK
    <3> QED
      BY <1>11, <2>1, <3>1, <3>2 DEF Notify, Goto, TypeOK, MutexInv, HeldInv, PopInv, SleepInv
  <2>2. ASSUME NEW w \in m_condition, m_condition' = m_condition \ {w},
               pc' = [pc EXCEPT ![t] = "idle", ![w] = "lock"]
        PROVE  IInv'
    <3>1. w \in Threads /\ pc[w] = "wait" /\ pc[t] = "notify" /\ w # t
      BY <1>11 DEF Notify, TypeOK, SleepInv
    <3>2. pc' = [u \in Threads |-> IF u = t THEN "idle" ELSE IF u = w THEN "lock" ELSE pc[u]]
      BY <2>2, <3>1 DEF TypeOK
    <3>3. UNCHANGED <<m_mutex, m_pool, held, queries>>
      BY <1>11 DEF Notify
    <3>4. TypeOK'
      BY <2>2, <3>2, <3>3 DEF TypeOK
    <3>5. ConnectionsExclusive'
      BY <3>1, <3>2, <3>3, SamePool
    <3>6. SleepInv' /\ MutexInv'
      BY <2>2, <3>1, <3>2, <3>3 DEF TypeOK, SleepInv, MutexInv
    <3>7. HeldInv' /\ PopInv'
      BY <3>1, <3>2, <3>3 DEF HeldInv, PopInv
    <3> QED
      BY <3>4, <3>5, <3>6, <3>7
  <2> QED
    BY <1>11, <2>1, <2>2 DEF Notify
<1> QED
  BY <1>2, <1>3, <1>4, <1>5, <1>6, <1>7, <1>8, <1>9, <1>10, <1>11 DEF Step

LEMMA IInvHolds == Spec => []IInv
<1>1. Init => IInv
  BY InitInv, PoolAssumption
<1>2. IInv /\ [Next]_vars => IInv'
  <2> SUFFICES ASSUME IInv, [Next]_vars PROVE IInv'
    OBVIOUS
  <2>1. CASE \E t \in Threads : Step(t) \/ Wake(t)
    BY <2>1, StepInv, PoolAssumption
  <2>2. CASE UNCHANGED vars
    BY <2>2 DEF vars, IInv, TypeOK, MutexInv, HeldInv, PopInv, SleepInv, ConnectionsExclusive
  <2> QED
    BY <2>1, <2>2 DEF Next
<1> QED
  BY <1>1, <1>2, PTL DEF Spec

(* Every variable keeps to its values: the queue never hands out anything  *)
(* but a connection of the pool.                                           *)
THEOREM TypeCorrect == Spec => []TypeOK
  BY IInvHolds, PTL DEF IInv

(* No connection is ever used by two threads at a time, whatever threads   *)
(* there are, however many connections, and whether queries throw or not.  *)
THEOREM NeverShared == Spec => []ConnectionsExclusive
  BY IInvHolds, PTL DEF IInv

-----------------------------------------------------------------------------
(* The threads that are on the way to a free connection, or about to send  *)
(* somebody there.                                                         *)
Awake == {t \in Threads : pc[t] \in {"notify", "lock", "test", "pop"}}

LEMMA AwakeCount ==
  ASSUME PoolAssumption, TypeOK, NEW t
  PROVE  /\ IsFiniteSet(Awake) /\ Cardinality(Awake) \in Nat
         /\ Cardinality(Awake \cup {t}) = IF t \in Awake THEN Cardinality(Awake) ELSE Cardinality(Awake) + 1
         /\ Cardinality(Awake \ {t}) = IF t \in Awake THEN Cardinality(Awake) - 1 ELSE Cardinality(Awake)
<1>1. IsFiniteSet(Awake)
  BY FS_Subset DEF Awake, PoolAssumption
<1> QED
  BY <1>1, FS_CardinalityType, FS_AddElement, FS_RemoveElement

LEMMA StepWakes ==
  ASSUME IInv, PoolAssumption, NoLostWakeup, NEW t \in Threads, Step(t) \/ Wake(t)
  PROVE  NoLostWakeup'
<1> DEFINE n == Cardinality(Awake)
<1>1. /\ TypeOK /\ IsFiniteSet(Awake) /\ n \in Nat /\ Len(m_pool) \in Nat
      /\ m_condition # {} => Len(m_pool) <= n
  BY AwakeCount, LenProperties DEF IInv, TypeOK, NoLostWakeup, Awake
<1>2. SUFFICES m_condition' # {} => Len(m_pool') <= Cardinality(Awake')
  BY DEF NoLostWakeup, Awake
<1>3. CASE Call(t) \/ Wake(t)
  <2>1. Awake' = Awake \cup {t} /\ t \notin Awake
    BY <1>1, <1>3 DEF Call, Wake, Goto, Awake, TypeOK
  <2>2. m_pool' = m_pool /\ (m_condition' # {} => m_condition # {})
    BY <1>3 DEF Call, Wake
  <2> QED
    BY <1>1, <2>1, <2>2, AwakeCount
<1>4. CASE Lock(t) \/ Front(t) \/ Answered(t) \/ Throws(t)
  <2>1. Awake' = Awake
    BY <1>1, <1>4 DEF Lock, Front, Answered, Throws, Goto, Awake, TypeOK
  <2> QED
    BY <1>1, <1>4, <2>1 DEF Lock, Front, Answered, Throws
<1>5. CASE Pop(t)
  <2>1. Awake' = Awake \ {t} /\ t \in Awake
    BY <1>1, <1>5 DEF Pop, Goto, Awake, TypeOK
  <2>2. Len(m_pool') = Len(m_pool) - 1
    BY <1>1, <1>5, PoolTail DEF Pop, IInv, TypeOK, PopInv
  <2>3. Cardinality(Awake') = n - 1
    BY <1>1, <2>1, FS_RemoveElement
  <2>4. m_condition' = m_condition
    BY <1>5 DEF Pop
  <2> QED
    BY <1>1, <2>2, <2>3, <2>4
<1>6. CASE Wait(t)
  <2>1. Len(m_pool') = 0
    BY <1>6, EmptySeq DEF Wait
  <2>2. TypeOK'
    BY StepInv DEF IInv
  <2>3. Cardinality(Awake') \in Nat
    <3>1. IsFiniteSet(Awake')
      BY FS_Subset DEF Awake, PoolAssumption
    <3> QED
      BY <3>1, FS_CardinalityType
  <2> QED
    BY <2>1, <2>3
<1>7. CASE Push(t)
  <2>1. Awake' = Awake \cup {t} /\ t \notin Awake
    BY <1>1, <1>7 DEF Push, Goto, Awake, TypeOK
  <2>2. held[t] \in Connections
    BY <1>1, <1>7 DEF Push, IInv, HeldInv, TypeOK
  <2>3. Len(m_pool') = Len(m_pool) + 1
    BY <1>1, <1>7, <2>2, AppendProperties DEF Push, TypeOK
  <2> QED
    BY <1>1, <1>7, <2>1, <2>3, AwakeCount DEF Push
<1>8. CASE Notify(t)
  <2>1. CASE m_condition = {} /\ UNCHANGED m_condition
    BY <2>1
  <2>2. ASSUME NEW w \in m_condition, m_condition' = m_condition \ {w},
               pc' = [pc EXCEPT ![t] = "idle", ![w] = "lock"]
        PROVE  Len(m_pool') <= Cardinality(Awake')
    <3>1. w \in Threads /\ pc[w] = "wait" /\ pc[t] = "notify" /\ w # t
      BY <1>8 DEF Notify, IInv, TypeOK, SleepInv
    <3>2. Awake' = (Awake \ {t}) \cup {w} /\ t \in Awake /\ w \notin Awake \ {t}
      BY <1>1, <2>2, <3>1 DEF Awake, TypeOK
    <3>3. /\ IsFiniteSet(Awake \ {t}) /\ Cardinality(Awake \ {t}) = n - 1
          /\ Cardinality(Awake') = Cardinality(Awake \ {t}) + 1
      BY <1>1, <3>2, FS_RemoveElement, FS_AddElement
    <3>4. m_pool' = m_pool /\ m_condition # {}
      BY <1>8, <2>2 DEF Notify
    <3> QED
      BY <1>1, <3>3, <3>4
  <2> QED
    BY <1>8, <2>1, <2>2 DEF Notify
<1> QED
  BY <1>3, <1>4, <1>5, <1>6, <1>7, <1>8 DEF Step

(* Nobody sleeps while more connections are free than threads are on the   *)
(* way: each notification meets a connection that was put back before it,  *)
(* although it is sent without the mutex.                                  *)
THEOREM WakeupsArrive == Spec => []NoLostWakeup
<1>1. Init => NoLostWakeup
  BY DEF Init, NoLostWakeup
<1>2. IInv /\ NoLostWakeup /\ [Next]_vars => NoLostWakeup'
  <2> SUFFICES ASSUME IInv, NoLostWakeup, [Next]_vars PROVE NoLostWakeup'
    OBVIOUS
  <2>1. CASE \E t \in Threads : Step(t) \/ Wake(t)
    BY <2>1, StepWakes, PoolAssumption
  <2>2. CASE UNCHANGED vars
    BY <2>2 DEF vars, NoLostWakeup
  <2> QED
    BY <2>1, <2>2 DEF Next
<1> QED
  BY <1>1, <1>2, IInvHolds, PTL DEF Spec

-----------------------------------------------------------------------------
(* The refinement: what the queue and the threads have, seen as sets.      *)
available == {m_pool[i] : i \in 1 .. Len(m_pool)}
lent      == [t \in Threads |-> IF pc[t] = "pop" THEN {} ELSE {held[t]} \ {Nothing}]

LEMMA InitPromise ==
  ASSUME Init, PoolAssumption PROVE Promise!Init
<1>1. Len(m_pool) = POOL_COUNT /\ \A i \in 1 .. POOL_COUNT : m_pool[i] = i
  BY DEF Init, Connections, PoolAssumption
<1>2. available = Connections
  BY <1>1 DEF available, Connections
<1>3. lent = [t \in Threads |-> {}]
  BY DEF Init, lent
<1> QED
  BY <1>2, <1>3 DEF Promise!Init, available, lent

(* A thread that moves between program points that mean the same to the    *)
(* promise, with the queue and the connections left alone, is not seen.    *)
LEMMA NotSeen ==
  ASSUME IInv, UNCHANGED <<m_pool, held>>,
         \A t \in Threads : pc'[t] = "pop" <=> pc[t] = "pop"
  PROVE  available' = available /\ lent' = lent
  BY DEF available, lent

LEMMA StepPromise ==
  ASSUME IInv, PoolAssumption, NEW t \in Threads, Step(t) \/ Wake(t)
  PROVE  \/ available' = available /\ lent' = lent
         \/ \E c \in available : /\ lent[t] = {} /\ available' = available \ {c}
                                 /\ lent' = [lent EXCEPT ![t] = {c}]
         \/ /\ lent[t] # {} /\ available' = available \cup lent[t]
            /\ lent' = [lent EXCEPT ![t] = {}]
         \/ lent[t] # {} /\ lent' = [lent EXCEPT ![t] = {}] /\ available' = available
<1> USE DEF IInv
<1>1. CASE Call(t) \/ Lock(t) \/ Wait(t) \/ Wake(t) \/ Answered(t)
  BY <1>1, NotSeen DEF Call, Lock, Wait, Wake, Answered, Goto, TypeOK
<1>2. CASE Notify(t)
  <2>1. \A u \in Threads : pc'[u] = "pop" <=> pc[u] = "pop"
    <3>1. CASE Goto(t, "idle")
      BY <1>2, <3>1 DEF Notify, Goto, TypeOK
    <3>2. ASSUME NEW w \in m_condition, pc' = [pc EXCEPT ![t] = "idle", ![w] = "lock"]
          PROVE  \A u \in Threads : pc'[u] = "pop" <=> pc[u] = "pop"
      <4>1. w \in Threads /\ pc[w] = "wait" /\ pc[t] = "notify" /\ w # t
        BY <1>2 DEF Notify, TypeOK, SleepInv
      <4> QED
        BY <3>2, <4>1 DEF TypeOK
    <3> QED
      BY <1>2, <3>1, <3>2 DEF Notify
  <2> QED
    BY <1>2, <2>1, NotSeen DEF Notify
<1>3. CASE Front(t)
  <2>1. available' = available
    BY <1>3 DEF Front, available
  <2>2. lent' = lent
    <3>1. held[t] = Nothing
      BY <1>3 DEF Front, HeldInv
    <3>2. \A u \in Threads : (IF pc'[u] = "pop" THEN {} ELSE {held'[u]} \ {Nothing})
                             = (IF pc[u] = "pop" THEN {} ELSE {held[u]} \ {Nothing})
      BY <1>3, <3>1 DEF Front, Goto, TypeOK
    <3> QED
      BY <3>2 DEF lent
  <2> QED
    BY <2>1, <2>2
<1>4. CASE Pop(t)
  <2> DEFINE c == held[t]
  <2>1. m_pool # <<>> /\ c = m_pool[1] /\ c # Nothing /\ pc[t] = "pop" /\ pc'[t] = "query"
    BY <1>4 DEF Pop, PopInv, HeldInv, Goto, TypeOK
  <2>2. /\ Len(m_pool) \in Nat \ {0} /\ Len(m_pool') = Len(m_pool) - 1
        /\ \A i \in 1 .. Len(m_pool') : m_pool'[i] = m_pool[i + 1]
    BY <1>4, <2>1, PoolTail DEF Pop, TypeOK
  <2>3. available' = available \ {c}
    <3>1. \A x \in available' : x \in available /\ x # c
      <4> SUFFICES ASSUME NEW i \in 1 .. Len(m_pool')
                   PROVE  m_pool'[i] \in available /\ m_pool'[i] # c
        BY DEF available
      <4>1. i + 1 \in 1 .. Len(m_pool) /\ i + 1 # 1 /\ m_pool'[i] = m_pool[i + 1]
            /\ 1 \in 1 .. Len(m_pool)
        BY <2>2
      <4> QED
        BY <4>1, <2>1 DEF available, ConnectionsExclusive
    <3>2. \A x \in available : x # c => x \in available'
      <4> SUFFICES ASSUME NEW i \in 1 .. Len(m_pool), m_pool[i] # c
                   PROVE  m_pool[i] \in available'
        BY DEF available
      <4>1. i - 1 \in 1 .. Len(m_pool') /\ (i - 1) + 1 = i
        BY <2>1, <2>2
      <4>2. m_pool'[i - 1] = m_pool[i]
        BY <4>1, <2>2
      <4> QED
        BY <4>1, <4>2 DEF available
    <3> QED
      BY <3>1, <3>2
  <2>4. c \in available
    BY <2>1, <2>2 DEF available
  <2>5. lent[t] = {}
    BY <2>1 DEF lent
  <2>6. lent' = [lent EXCEPT ![t] = {c}]
    <3>1. \A u \in Threads : (IF pc'[u] = "pop" THEN {} ELSE {held'[u]} \ {Nothing})
                             = IF u = t THEN {c} ELSE lent[u]
      BY <1>4, <2>1 DEF Pop, Goto, TypeOK, lent
    <3> QED
      BY <3>1 DEF lent
  <2> QED
    BY <2>3, <2>4, <2>5, <2>6
<1>5. CASE Throws(t)
  <2>1. lent[t] # {}
    BY <1>5 DEF Throws, HeldInv, lent
  <2>2. \A u \in Threads : (IF pc'[u] = "pop" THEN {} ELSE {held'[u]} \ {Nothing})
                           = IF u = t THEN {} ELSE lent[u]
    BY <1>5 DEF Throws, Goto, TypeOK, lent
  <2>3. lent' = [lent EXCEPT ![t] = {}]
    BY <2>2 DEF lent
  <2>4. available' = available
    BY <1>5 DEF Throws, available
  <2> QED
    BY <2>1, <2>3, <2>4
<1>6. CASE Push(t)
  <2> DEFINE c == held[t]
  <2>1. c \in Connections /\ c # Nothing /\ pc[t] = "push"
    BY <1>6 DEF Push, HeldInv, TypeOK
  <2>2. lent[t] = {c}
    BY <2>1 DEF lent
  <2>3. /\ Len(m_pool) \in Nat /\ Len(m_pool') = Len(m_pool) + 1
        /\ \A i \in 1 .. Len(m_pool) : m_pool'[i] = m_pool[i]
        /\ m_pool'[Len(m_pool) + 1] = c
    BY <1>6, <2>1, AppendProperties, LenProperties DEF Push, TypeOK
  <2>4. available' = available \cup {c}
    <3>1. \A i \in 1 .. Len(m_pool') : i \in 1 .. Len(m_pool) \/ i = Len(m_pool) + 1
      BY <2>3
    <3>2. \A x \in available' : x \in available \cup {c}
      BY <2>3, <3>1 DEF available
    <3>3. \A x \in available \cup {c} : x \in available'
      <4>1. \A i \in 1 .. Len(m_pool) : i \in 1 .. Len(m_pool')
        BY <2>3
      <4>2. Len(m_pool) + 1 \in 1 .. Len(m_pool')
        BY <2>3
      <4> QED
        BY <2>3, <4>1, <4>2 DEF available
    <3> QED
      BY <3>2, <3>3
  <2>5. \A u \in Threads : (IF pc'[u] = "pop" THEN {} ELSE {held'[u]} \ {Nothing})
                           = IF u = t THEN {} ELSE lent[u]
    BY <1>6 DEF Push, Goto, TypeOK, lent
  <2>6. lent' = [lent EXCEPT ![t] = {}]
    BY <2>5 DEF lent
  <2> QED
    BY <2>2, <2>4, <2>6
<1> QED
  BY <1>1, <1>2, <1>3, <1>4, <1>5, <1>6 DEF Step

(* The pool, with its mutex, queue and condition variable, implements the  *)
(* promise: a connection is lent to one thread at a time, comes back when  *)
(* it is freed, and is missing only when a query threw.                    *)
THEOREM KeepsPromise == Spec => PoolPromise
<1>1. Init => Promise!Init
  BY InitPromise, PoolAssumption
<1>2. IInv /\ [Next]_vars => [Promise!Next]_<<available, lent>>
  <2> SUFFICES ASSUME IInv, [Next]_vars
               PROVE  Promise!Next \/ (available' = available /\ lent' = lent)
    OBVIOUS
  <2>1. ASSUME NEW t \in Threads, Step(t) \/ Wake(t)
        PROVE  Promise!Next \/ (available' = available /\ lent' = lent)
    <3>1. Promise!Lend(t) <=>
            /\ lent[t] = {}
            /\ \E c \in available : /\ available' = available \ {c}
                                   /\ lent' = [lent EXCEPT ![t] = {c}]
      BY Zenon DEF Promise!Lend, available, lent
    <3>2. Promise!GiveBack(t) <=>
            /\ lent[t] # {} /\ available' = available \cup lent[t]
            /\ lent' = [lent EXCEPT ![t] = {}]
      BY Zenon DEF Promise!GiveBack, available, lent
    <3>3. Promise!Drop(t) <=>
            lent[t] # {} /\ lent' = [lent EXCEPT ![t] = {}] /\ available' = available
      BY Zenon DEF Promise!Drop, available, lent
    <3>4. \/ Promise!Lend(t) \/ Promise!GiveBack(t) \/ Promise!Drop(t)
          \/ available' = available /\ lent' = lent
      BY <2>1, <3>1, <3>2, <3>3, StepPromise, PoolAssumption
    <3>5. Promise!Lend(t) \/ Promise!GiveBack(t) \/ Promise!Drop(t) => Promise!Next
      BY DEF Promise!Next
    <3> QED
      BY <3>4, <3>5
  <2>2. CASE UNCHANGED vars
    BY <2>2, NotSeen DEF vars
  <2> QED
    BY <2>1, <2>2 DEF Next
<1> QED
  BY <1>1, <1>2, IInvHolds, PTL DEF Spec, PoolPromise, Promise!Spec, available, lent
===============================================================================
