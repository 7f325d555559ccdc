--------------------------- MODULE DistributionProofs ---------------------------
(***************************************************************************)
(* Proofs about Program and Distribution for every configuration, table,   *)
(* number of processes and size of the pool.                               *)
(***************************************************************************)
EXTENDS Program, SharedLemmas

(* What main has computed never lets a range pass this row. *)
Bound == process_row_count + 1

(* A process that is at work on an index is within the loop. *)
LoopInv == \A p \in Processes :
  pc[p] \in {"query", "read", "mail"} => process_idx[p] <= setting.process_count

(* Whoever reads it, no answer passes the bound, *)
RangeInv ==
  /\ \A p \in Processes : rows[p].second <= Bound
  /\ \A c \in Connections : \A k \in 1 .. Len(answers[c]) : answers[c][k].second <= Bound

(* ... and so no row behind it is mailed. *)
AttemptInv == \A i \in setting.ids : attempts[i] > 0 => i <= Bound

(* Until main has computed it, the bound is the least one. *)
StartInv == pc[main] \in {"init", "start"} => process_row_count = 0

(* The bound is the share of the server. *)
Limit == LET share == row_count \div setting.server_count IN IF share = 0 THEN 2 ELSE share
LimitInv == setting.order_number \in 1 .. setting.server_count => Bound <= Limit

DInv == TypeOK /\ LoopInv /\ RangeInv /\ AttemptInv /\ StartInv /\ LimitInv

-----------------------------------------------------------------------------
(* The arithmetic. *)
LEMMA SettingFacts ==
  ASSUME DistributionAssumption, setting \in Settings
  PROVE  /\ setting.ids \subseteq Nat /\ IsFiniteSet(setting.ids) /\ row_count \in Nat
         /\ setting.server_count \in Int /\ setting.order_number \in Int
         /\ setting.process_count \in -1 .. MaxProcesses
         /\ MaxProcesses \in Nat /\ POOL_COUNT \in Nat /\ POOL_COUNT >= 3
<1>1. setting \in Setting /\ IsFiniteSet(setting.ids)
  BY DEF DistributionAssumption
<1>2. row_count \in Nat
  BY <1>1, FS_CardinalityType DEF row_count
<1> QED
  BY <1>1, <1>2 DEF Setting, DistributionAssumption

(* A range of the rows, for an order number of those there are. *)
CutAt(n, k, o, q, begin) ==
  /\ q = n \div k /\ begin = (o - 1) * q /\ begin + q = o * q /\ begin + q <= n
  /\ Ranges!get_data_range(n, k, o) = [first |-> begin + 1, second |-> begin + q]

LEMMA RangeIs ==
  ASSUME NEW n \in Nat, NEW k \in Nat \ {0}, NEW o \in 1 .. k
  PROVE  \E q, begin \in Nat : CutAt(n, k, o, q, begin)
<1> DEFINE q == n \div k
           begin == (o - 1) * q
<1>1. q \in Nat /\ k * q <= n
  BY Z3
<1> HIDE DEF q
<1>2. begin \in Nat /\ begin + q = o * q
  BY <1>1, Z3
<1>3. o * q <= k * q
  BY <1>1, Z3
<1> HIDE DEF begin
<1>4. begin + q <= n
  <2>1. o * q \in Nat /\ k * q \in Nat
    BY <1>1, Z3
  <2> QED
    BY <1>1, <1>2, <1>3, <2>1
<1>5. Ranges!abs(o - 1) = o - 1
  BY DEF Ranges!abs
<1>6. Ranges!get_data_range(n, k, o) = [first |-> begin + 1, second |-> begin + q]
  BY <1>1, <1>2, <1>4, <1>5 DEF Ranges!get_data_range, begin, q
<1>7. CutAt(n, k, o, q, begin)
  BY <1>1, <1>2, <1>4, <1>6 DEF CutAt, begin, q
<1> QED
  BY <1>1, <1>2, <1>7

LEMMA RangeFacts ==
  ASSUME NEW n \in Nat, NEW k \in Nat \ {0}, NEW o \in 1 .. k
  PROVE  LET r == Ranges!get_data_range(n, k, o) IN
         /\ r.first \in Nat /\ r.second \in Nat /\ r.second <= n
         /\ RowsBetween(r) \in Nat
         /\ RowsBetween(r) + 1 = IF n \div k = 0 THEN 2 ELSE n \div k
         /\ r \in DataRanges
<1>0. PICK q \in Nat, begin \in Nat : CutAt(n, k, o, q, begin)
  BY RangeIs
<1>1. /\ q = n \div k /\ begin + q <= n
      /\ Ranges!get_data_range(n, k, o) = [first |-> begin + 1, second |-> begin + q]
  BY <1>0 DEF CutAt
<1>2. /\ RowsBetween([first |-> begin + 1, second |-> begin + q]) \in Nat
      /\ RowsBetween([first |-> begin + 1, second |-> begin + q]) + 1 = IF q = 0 THEN 2 ELSE q
  BY DEF RowsBetween, Ranges!abs
<1> QED
  BY <1>1, <1>2 DEF DataRanges

(* Two order numbers have no row in common. *)
LEMMA RangesApart ==
  ASSUME NEW n \in Nat, NEW k \in Nat \ {0}, NEW o \in 1 .. k, NEW u \in 1 .. k, NEW i \in Nat,
         i \in Rows(Ranges!get_data_range(n, k, o)), i \in Rows(Ranges!get_data_range(n, k, u))
  PROVE  o = u
<1>0. PICK q \in Nat, begin \in Nat : CutAt(n, k, o, q, begin)
  BY RangeIs
<1>1. /\ q = n \div k /\ begin = (o - 1) * q /\ begin + q = o * q
      /\ Ranges!get_data_range(n, k, o) = [first |-> begin + 1, second |-> begin + q]
  BY <1>0 DEF CutAt
<1>2. PICK t \in Nat, start0 \in Nat : CutAt(n, k, u, t, start0)
  BY RangeIs
<1>3. /\ t = q /\ start0 = (u - 1) * q /\ start0 + q = u * q
      /\ Ranges!get_data_range(n, k, u) = [first |-> start0 + 1, second |-> start0 + q]
  BY <1>1, <1>2 DEF CutAt
<1>4. begin < i /\ i <= begin + q /\ start0 < i /\ i <= start0 + q
  BY <1>1, <1>3 DEF Rows, Ranges!Rows
<1>5. ASSUME NEW x \in 1 .. k, NEW y \in 1 .. k, x < y PROVE x * q <= (y - 1) * q
  <2>1. PICK d \in Nat : y - 1 = x + d
    <3>1. y - 1 - x \in Nat /\ y - 1 = x + (y - 1 - x)
      BY <1>5
    <3> QED
      BY <3>1
  <2>2. (x + d) * q = x * q + d * q /\ d * q >= 0 /\ x * q \in Nat /\ d * q \in Nat
    BY Z3
  <2> QED
    BY <2>1, <2>2
<1>6. ~(o < u)
  <2> SUFFICES ASSUME o < u PROVE FALSE
    OBVIOUS
  <2>1. o * q <= (u - 1) * q
    BY <1>5
  <2>2. begin + q <= start0
    BY <1>1, <1>3, <2>1
  <2> QED
    BY <1>4, <2>2
<1>7. ~(u < o)
  <2> SUFFICES ASSUME u < o PROVE FALSE
    OBVIOUS
  <2>1. u * q <= (o - 1) * q
    BY <1>5
  <2>2. start0 + q <= begin
    BY <1>1, <1>3, <2>1
  <2> QED
    BY <1>4, <2>2
<1> QED
  BY <1>6, <1>7

(* For any order number it is a number, all the same. *)
LEMMA RowsBetweenNat ==
  ASSUME NEW n \in Nat, NEW k \in Nat \ {0}, NEW o \in Int
  PROVE  RowsBetween(Ranges!get_data_range(n, k, o)) \in Nat
<1> DEFINE q == n \div k
           begin == Ranges!abs(o - 1) * q
<1>1. q \in Nat /\ Ranges!abs(o - 1) \in Nat
  BY Z3 DEF Ranges!abs
<1> HIDE DEF q
<1>2. begin \in Nat
  BY <1>1, Z3
<1> HIDE DEF begin
<1>3. Ranges!get_data_range(n, k, o) = [first |-> begin + 1, second |-> IF begin + q > n THEN n ELSE begin + q]
  BY DEF Ranges!get_data_range, begin, q
<1> DEFINE end == IF begin + q > n THEN n ELSE begin + q
<1>4. end \in Int /\ begin + 1 \in Int
  BY <1>1, <1>2
<1> HIDE DEF end
<1>5. RowsBetween([first |-> begin + 1, second |-> end]) \in Nat
  BY <1>4 DEF RowsBetween, Ranges!abs
<1> QED
  BY <1>3, <1>5 DEF end

LEMMA ProcessRange ==
  ASSUME DistributionAssumption, TypeOK, NEW idx \in Nat \ {0}, idx <= setting.process_count
  PROVE  /\ process_data_range(idx) \in DataRanges
         /\ process_data_range(idx).second <= Bound
<1>1. process_row_count + 1 \in Nat /\ setting.process_count \in Nat \ {0}
      /\ idx \in 1 .. setting.process_count
  BY SettingFacts DEF TypeOK
<1> QED
  BY <1>1, RangeFacts DEF process_data_range, Bound

-----------------------------------------------------------------------------
(* The steps of main before its loop. *)
LEMMA DInit ==
  ASSUME DistributionAssumption, Init
  PROVE  DInv
<1>1. setting \in Settings /\ main \in Processes /\ 1 \in 1 .. MaxProcesses + 1
  BY SettingFacts DEF Init, main, Processes
<1>2. TypeOK
  BY <1>1, EmptySeq DEF Init, TypeOK, NoRows, DataRanges
<1>3. RangeInv
  BY EmptySeq DEF Init, RangeInv, NoRows, Bound
<1>4. LimitInv
  <2> SUFFICES ASSUME setting.order_number \in 1 .. setting.server_count
               PROVE  1 <= Limit
    BY DEF LimitInv, Bound, Init
  <2>1. setting.server_count \in Nat \ {0} /\ row_count \in Nat
    BY <1>1, SettingFacts
  <2>2. row_count \div setting.server_count \in Nat
    BY <2>1, Z3
  <2> QED
    BY <2>2 DEF Limit
<1> QED
  BY <1>2, <1>3, <1>4 DEF Init, DInv, LoopInv, AttemptInv, StartInv, main

(* Nothing of this depends on the sessions, or on where main is before it  *)
(* comes to its loop and after its end.                                    *)
LEMMA MainSteps ==
  ASSUME DistributionAssumption, DInv, NEW s \in {"start", "exit", "aborted"}, Goto(main, s),
         s = "start" => pc[main] = "init", open' \subseteq Connections,
         UNCHANGED <<setting, process_row_count, process_idx, taken, unread, rows, answers, torn,
                     attempts, fork_failed>>
  PROVE  DInv'
<1>1. main \in Processes
  BY DEF main, Processes
<1>2. TypeOK'
  BY <1>1 DEF Goto, DInv, TypeOK
<1>3. /\ pc'[main] = s
      /\ \A p \in Processes : pc'[p] = s \/ pc'[p] = pc[p]
  BY <1>1 DEF Goto, DInv, TypeOK
<1>4. LoopInv' /\ StartInv'
  BY <1>3 DEF DInv, LoopInv, StartInv
<1> QED
  BY <1>2, <1>4 DEF DInv, RangeInv, AttemptInv, LimitInv, Limit, row_count, Bound

LEMMA PrepareInv ==
  ASSUME DistributionAssumption, DInv, Prepare
  PROVE  DInv'
<1> DEFINE n == row_count
           servers == setting.server_count
           range == Ranges!get_data_range(n, servers, setting.order_number)
<1>1. /\ pc[main] = "start" /\ process_row_count = 0 /\ main \in Processes
      /\ n \in Nat /\ n # 0 /\ servers \in Nat \ {0} /\ setting.order_number \in Int
      /\ POOL_COUNT \in Nat /\ POOL_COUNT >= 3 /\ MaxProcesses \in Nat
  BY SettingFacts DEF Prepare, DInv, TypeOK, StartInv, Ranges!InvalidArguments, main, Processes
<1>2. process_row_count' = RowsBetween(range)
  BY DEF Prepare
<1>3. process_row_count' \in Nat
  BY <1>1, <1>2, RowsBetweenNat
<1>4. pc' = [pc EXCEPT ![main] = "loop"]
      /\ UNCHANGED <<setting, process_idx, rows, answers, open, torn, attempts, fork_failed>>
  BY DEF Prepare, Goto
<1>5. connection(main) \in Connections
  <2>1. taken[main] \in Nat
    BY <1>1 DEF DInv, TypeOK
  <2> QED
    BY <1>1, <2>1 DEF connection, Connections
<1>6. TypeOK'
  BY <1>1, <1>3, <1>4, <1>5 DEF Prepare, DInv, TypeOK
<1>7. Bound' \in Nat /\ Bound = 1 /\ Bound <= Bound'
  <2>1. PICK m \in Nat : m = process_row_count'
    BY <1>3
  <2>2. Bound' = m + 1 /\ Bound = 1
    BY <1>1, <2>1 DEF Bound
  <2> QED
    BY <2>2
<1>8. RangeInv'
  <2>1. \A p \in Processes : rows[p].second <= Bound /\ rows[p].second \in Nat
    BY DEF DInv, RangeInv, TypeOK, DataRanges
  <2>2. \A c \in Connections : \A k \in 1 .. Len(answers[c]) :
          answers[c][k].second <= Bound /\ answers[c][k].second \in Nat
    <3> SUFFICES ASSUME NEW c \in Connections, NEW k \in 1 .. Len(answers[c])
                 PROVE  answers[c][k].second <= Bound /\ answers[c][k].second \in Nat
      OBVIOUS
    <3>1. answers[c] \in Seq(DataRanges)
      BY DEF DInv, TypeOK
    <3>2. answers[c][k] \in DataRanges
      BY <3>1, ElementOfSeq
    <3> QED
      BY <3>2 DEF DInv, RangeInv, DataRanges
  <2> QED
    BY <1>4, <1>7, <2>1, <2>2 DEF RangeInv
<1>9. AttemptInv'
  <2>1. \A i \in setting.ids : i \in Nat
    BY SettingFacts DEF DInv, TypeOK
  <2> QED
    BY <1>4, <1>7, <2>1 DEF DInv, AttemptInv
<1>10. LimitInv'
  <2> SUFFICES ASSUME setting.order_number \in 1 .. servers
               PROVE  process_row_count' + 1 <= Limit
    BY <1>4 DEF LimitInv, Bound, Limit, row_count
  <2>1. RowsBetween(range) + 1 = IF n \div servers = 0 THEN 2 ELSE n \div servers
    BY <1>1, RangeFacts
  <2>2. Limit = RowsBetween(range) + 1
    BY <2>1 DEF Limit
  <2>3. RowsBetween(range) \in Nat
    BY <1>2, <1>3
  <2>4. Limit = process_row_count' + 1 /\ Limit \in Nat
    BY <1>2, <2>2, <2>3
  <2> QED
    BY <2>4
<1>11. LoopInv' /\ StartInv'
  BY <1>1, <1>4 DEF DInv, TypeOK, LoopInv, StartInv
<1> QED
  BY <1>6, <1>8, <1>9, <1>10, <1>11 DEF DInv

-----------------------------------------------------------------------------
(* The steps of the processes. *)
LEMMA ConnectionType ==
  ASSUME DistributionAssumption, TypeOK, NEW p \in Processes
  PROVE  connection(p) \in Connections
<1>1. taken[p] \in Nat /\ POOL_COUNT \in Nat /\ POOL_COUNT >= 3
  BY DEF TypeOK, DistributionAssumption
<1> QED
  BY <1>1 DEF connection, Connections

(* The loop index of a process that goes on, and the process it forks. *)
LEMMA IndexFacts ==
  ASSUME DistributionAssumption, TypeOK, NEW p \in Processes,
         process_idx[p] <= setting.process_count
  PROVE  /\ process_idx[p] \in 1 .. MaxProcesses
         /\ process_idx[p] \in Nat \ {0}
         /\ process_idx[p] + 1 \in 1 .. MaxProcesses + 1
         /\ p \cup {process_idx[p]} \in Processes
<1>1. /\ process_idx[p] \in 1 .. MaxProcesses + 1 /\ MaxProcesses \in Nat
      /\ setting.process_count \in -1 .. MaxProcesses
  BY SettingFacts DEF TypeOK
<1>2. process_idx[p] \in 1 .. MaxProcesses /\ process_idx[p] + 1 \in 1 .. MaxProcesses + 1
  BY <1>1
<1>3. process_idx[p] \in Nat \ {0}
  BY <1>1
<1>4. p \cup {process_idx[p]} \in Processes
  BY <1>2 DEF Processes
<1> QED
  BY <1>2, <1>3, <1>4

(* What a step of a process leaves to be shown. *)
LEMMA StepFrame ==
  ASSUME DInv, UNCHANGED <<setting, process_row_count>>, TypeOK', RangeInv', AttemptInv',
         \A x \in Processes : pc'[x] \in {"init", "start"} => pc'[x] = pc[x],
         \A x \in Processes :
           pc'[x] \in {"query", "read", "mail"} => process_idx'[x] <= setting.process_count
  PROVE  DInv'
<1>1. main \in Processes
  BY DEF main, Processes
<1> QED
  BY <1>1 DEF DInv, LoopInv, StartInv, LimitInv, Limit, row_count, Bound

LEMMA ForkInv ==
  ASSUME DistributionAssumption, DInv, NEW p \in Processes, Fork(p)
  PROVE  DInv'
<1> DEFINE idx == process_idx[p]
           child == p \cup {idx}
<1>1. /\ idx <= setting.process_count
      /\ idx \in Nat \ {0} /\ idx \in 1 .. MaxProcesses /\ idx + 1 \in 1 .. MaxProcesses + 1
      /\ child \in Processes /\ MaxProcesses \in Nat
  BY IndexFacts, SettingFacts DEF Fork, DInv, TypeOK
<1>2. /\ pc' = [pc EXCEPT ![child] = "query", ![p] = IF idx = 1 THEN "query" ELSE "loop"]
      /\ process_idx' = [process_idx EXCEPT ![child] = idx, ![p] = IF idx = 1 THEN @ ELSE @ + 1]
      /\ taken' = [taken EXCEPT ![child] = taken[p]]
      /\ unread' = [unread EXCEPT ![child] = unread[p]]
      /\ UNCHANGED <<setting, process_row_count, rows, answers, open, torn, attempts, fork_failed>>
  BY DEF Fork
<1> HIDE DEF child
<1>3. /\ pc \in [Processes -> {"none", "init", "start", "loop", "query", "read", "mail", "exit",
                               "aborted"}]
      /\ process_idx \in [Processes -> 1 .. MaxProcesses + 1]
      /\ taken \in [Processes -> Nat] /\ unread \in [Processes -> SUBSET Connections]
  BY DEF DInv, TypeOK
<1>4. process_idx' \in [Processes -> 1 .. MaxProcesses + 1]
  <2>1. CASE child = p
    BY <1>1, <1>2, <1>3, <2>1
  <2>2. CASE child # p
    BY <1>1, <1>2, <1>3, <2>2
  <2> QED
    BY <2>1, <2>2
<1>5. TypeOK'
  <2>1. pc' \in [Processes -> {"none", "init", "start", "loop", "query", "read", "mail", "exit",
                               "aborted"}]
    BY <1>1, <1>2, <1>3
  <2>2. taken' \in [Processes -> Nat] /\ unread' \in [Processes -> SUBSET Connections]
    BY <1>1, <1>2, <1>3
  <2> QED
    BY <1>2, <1>4, <2>1, <2>2 DEF DInv, TypeOK
<1>6. ASSUME NEW x \in Processes PROVE pc'[x] \in {"init", "start"} => pc'[x] = pc[x]
  BY <1>1, <1>2, <1>3
<1>7. ASSUME NEW x \in Processes, pc'[x] \in {"query", "read", "mail"}
      PROVE  process_idx'[x] <= setting.process_count
  <2>1. CASE x = p
    <3>1. idx = 1
      BY <1>2, <1>3, <1>7, <2>1
    <3>2. process_idx'[x] = idx
      BY <1>1, <1>2, <1>3, <2>1, <3>1
    <3> QED
      BY <1>1, <3>2
  <2>2. CASE x # p /\ x = child
    BY <1>1, <1>2, <1>3, <2>2
  <2>3. CASE x # p /\ x # child
    BY <1>2, <1>3, <1>7, <2>3 DEF DInv, LoopInv
  <2> QED
    BY <2>1, <2>2, <2>3
<1>8. RangeInv' /\ AttemptInv'
  BY <1>2 DEF DInv, RangeInv, AttemptInv, Bound
<1> QED
  BY <1>2, <1>5, <1>6, <1>7, <1>8, StepFrame

LEMMA ForkFailureInv ==
  ASSUME DistributionAssumption, DInv, NEW p \in Processes, ForkFailure(p)
  PROVE  DInv'
<1>1. /\ pc[p] = "loop"
      /\ process_idx' = [process_idx EXCEPT ![p] = @ + 1]
      /\ fork_failed' = fork_failed \cup {process_idx[p]}
      /\ UNCHANGED <<setting, process_row_count, pc, taken, unread, rows, answers, open, torn,
                     attempts>>
  BY DEF ForkFailure
<1>2. process_idx[p] \in 1 .. MaxProcesses /\ process_idx[p] + 1 \in 1 .. MaxProcesses + 1
  BY IndexFacts DEF ForkFailure, DInv
<1>3. TypeOK'
  BY <1>1, <1>2 DEF DInv, TypeOK
<1>4. RangeInv' /\ AttemptInv'
  BY <1>1 DEF DInv, RangeInv, AttemptInv, Bound
<1>5. \A x \in Processes :
        pc'[x] \in {"query", "read", "mail"} => process_idx'[x] <= setting.process_count
  BY <1>1 DEF DInv, TypeOK, LoopInv
<1> QED
  BY <1>1, <1>3, <1>4, <1>5, StepFrame

LEMMA QueryInv ==
  ASSUME DistributionAssumption, DInv, NEW p \in Processes, Query(p)
  PROVE  DInv'
<1> DEFINE c == connection(p)
           r == process_data_range(process_idx[p])
<1>1. /\ pc[p] = "query" /\ pc' = [pc EXCEPT ![p] = "read"]
      /\ answers' = IF c \in open THEN [answers EXCEPT ![c] = Append(@, r)] ELSE answers
      /\ UNCHANGED <<setting, process_row_count, process_idx, taken, unread, rows, open, torn,
                     attempts, fork_failed>>
  BY DEF Query, Goto
<1>2. c \in Connections
  BY ConnectionType DEF DInv
<1>3. process_idx[p] <= setting.process_count
  BY <1>1 DEF DInv, LoopInv
<1>4. r \in DataRanges /\ r.second <= Bound
  BY <1>3, IndexFacts, ProcessRange DEF DInv
<1> HIDE DEF c, r
<1>5. answers \in [Connections -> Seq(DataRanges)]
  BY DEF DInv, TypeOK
<1>6. answers' \in [Connections -> Seq(DataRanges)]
  BY <1>1, <1>2, <1>4, <1>5, AppendProperties
<1>7. TypeOK'
  BY <1>1, <1>6 DEF DInv, TypeOK
<1>8. ASSUME NEW d \in Connections, NEW k \in 1 .. Len(answers'[d])
      PROVE  answers'[d][k].second <= Bound
  <2>1. CASE answers'[d] = answers[d]
    BY <1>8, <2>1 DEF DInv, RangeInv
  <2>2. CASE answers'[d] # answers[d]
    <3>1. d = c /\ answers'[d] = Append(answers[c], r) /\ answers[c] \in Seq(DataRanges)
      BY <1>1, <1>2, <1>5, <2>2
    <3>2. /\ Len(answers'[d]) = Len(answers[c]) + 1 /\ Len(answers[c]) \in Nat
          /\ \A j \in 1 .. Len(answers[c]) : answers'[d][j] = answers[c][j]
          /\ answers'[d][Len(answers[c]) + 1] = r
      BY <1>4, <3>1, AppendProperties, LenProperties
    <3>3. CASE k = Len(answers[c]) + 1
      BY <1>4, <3>2, <3>3
    <3>4. CASE k \in 1 .. Len(answers[c])
      BY <1>2, <3>2, <3>4 DEF DInv, RangeInv
    <3> QED
      BY <1>8, <3>2, <3>3, <3>4
  <2> QED
    BY <2>1, <2>2
<1>9. RangeInv' /\ AttemptInv'
  BY <1>1, <1>8 DEF DInv, RangeInv, AttemptInv, Bound
<1>10. /\ \A x \in Processes : pc'[x] \in {"init", "start"} => pc'[x] = pc[x]
       /\ \A x \in Processes :
            pc'[x] \in {"query", "read", "mail"} => process_idx'[x] <= setting.process_count
  BY <1>1, <1>3 DEF DInv, TypeOK, LoopInv
<1> QED
  BY <1>1, <1>7, <1>9, <1>10, StepFrame

(* Two of the three ways in which do_child comes by its rows. *)
LEMMA NoRowsInv ==
  ASSUME DistributionAssumption, DInv, NEW p \in Processes, QueryRefused(p) \/ ReadFails(p)
  PROVE  DInv'
<1>1. /\ pc[p] \in {"query", "read"} /\ pc' = [pc EXCEPT ![p] = "mail"]
      /\ taken' = [taken EXCEPT ![p] = @ + 1] /\ rows' = [rows EXCEPT ![p] = NoRows]
      /\ unread' = unread \/ unread' = [unread EXCEPT ![p] = @ \ {connection(p)}]
      /\ UNCHANGED <<setting, process_row_count, process_idx, answers, open, torn, attempts,
                     fork_failed>>
  BY DEF QueryRefused, ReadFails, Mail, Goto
<1>2. NoRows \in DataRanges /\ NoRows.second <= Bound
  BY DEF NoRows, DataRanges, Bound, DInv, TypeOK
<1>3. unread' \in [Processes -> SUBSET Connections]
  BY <1>1 DEF DInv, TypeOK
<1>4. TypeOK'
  <2>1. /\ pc' \in [Processes -> {"none", "init", "start", "loop", "query", "read", "mail", "exit",
                                  "aborted"}]
        /\ taken' \in [Processes -> Nat] /\ rows' \in [Processes -> DataRanges]
    BY <1>1, <1>2 DEF DInv, TypeOK
  <2> QED
    BY <1>1, <1>3, <2>1 DEF DInv, TypeOK
<1>5. RangeInv'
  BY <1>1, <1>2 DEF DInv, TypeOK, RangeInv, Bound
<1>6. AttemptInv'
  BY <1>1 DEF DInv, AttemptInv, Bound
<1>7. /\ \A x \in Processes : pc'[x] \in {"init", "start"} => pc'[x] = pc[x]
      /\ \A x \in Processes :
           pc'[x] \in {"query", "read", "mail"} => process_idx'[x] <= setting.process_count
  BY <1>1 DEF DInv, TypeOK, LoopInv
<1> QED
  BY <1>1, <1>4, <1>5, <1>6, <1>7, StepFrame

(* The third, by the answer to any process. *)
LEMMA ReadInv ==
  ASSUME DistributionAssumption, DInv, NEW p \in Processes, Read(p) \/ Tear(p)
  PROVE  DInv'
<1> DEFINE c == connection(p)
<1>1. c \in Connections
  BY ConnectionType DEF DInv
<1>2. /\ pc[p] = "read" /\ answers[c] # <<>>
      /\ UNCHANGED <<setting, process_row_count, process_idx, unread, open, attempts, fork_failed>>
      /\ torn' \in {torn, torn \cup {c}}
      /\ \/ UNCHANGED <<pc, taken, rows>>
         \/ /\ pc' = [pc EXCEPT ![p] = "mail"] /\ taken' = [taken EXCEPT ![p] = @ + 1]
            /\ \/ rows' = [rows EXCEPT ![p] = Head(answers[c])]
               \/ \E last \in {0} \cup Ranges!Rows(Head(answers[c])) :
                    rows' = [rows EXCEPT ![p] = [Head(answers[c]) EXCEPT !.second = last]]
  BY DEF Read, Tear, Mail, Goto
<1>3. PICK k \in 1 .. Len(answers[c]) :
        answers' = [answers EXCEPT ![c] = SubSeq(@, k + 1, Len(@))]
  BY DEF Read, Tear
<1> HIDE DEF c
<1>4. answers \in [Connections -> Seq(DataRanges)]
  BY DEF DInv, TypeOK
<1> DEFINE s == answers[c]
           rest == SubSeq(s, k + 1, Len(s))
<1>5. s \in Seq(DataRanges) /\ s # <<>> /\ Len(s) \in Nat /\ k \in 1 .. Len(s)
  BY <1>1, <1>2, <1>3, <1>4, LenProperties
<1>6. answers' = [answers EXCEPT ![c] = rest]
  BY <1>3
<1> HIDE DEF s
<1>7. /\ rest \in Seq(DataRanges) /\ Len(rest) = Len(s) - k
      /\ \A i \in 1 .. Len(rest) : rest[i] = s[k + i] /\ k + i \in 1 .. Len(s)
  <2>1. \A i \in k + 1 .. Len(s) : i \in 1 .. Len(s)
    BY <1>5
  <2>2. \A i \in k + 1 .. Len(s) : s[i] \in DataRanges
    BY <1>5, <2>1, ElementOfSeq
  <2>3. k + 1 \in Int /\ Len(s) \in Int
    BY <1>5
  <2>4. /\ rest \in Seq(DataRanges)
        /\ Len(rest) = IF k + 1 <= Len(s) THEN Len(s) - (k + 1) + 1 ELSE 0
        /\ \A i \in 1 .. Len(s) - (k + 1) + 1 : rest[i] = s[k + 1 + i - 1]
    BY <2>2, <2>3, SubSeqProperties
  <2>5. Len(rest) = Len(s) - k /\ Len(s) - (k + 1) + 1 = Len(s) - k
    BY <1>5, <2>4
  <2>6. ASSUME NEW i \in 1 .. Len(s) - k
        PROVE  k + 1 + i - 1 = k + i /\ k + i \in 1 .. Len(s)
    BY <1>5, <2>6
  <2> QED
    BY <2>4, <2>5, <2>6
<1> HIDE DEF rest
<1>8. \A i \in 1 .. Len(s) : s[i].second <= Bound
  BY <1>1 DEF DInv, RangeInv, s
<1>9. Head(s) \in DataRanges /\ Head(s).second <= Bound
  <2>1. Head(s) = s[1] /\ 1 \in 1 .. Len(s)
    BY <1>5
  <2> QED
    BY <1>5, <1>8, <2>1, ElementOfSeq
<1>10. answers' \in [Connections -> Seq(DataRanges)]
  BY <1>1, <1>4, <1>6, <1>7
<1>11. /\ rows' \in [Processes -> DataRanges]
       /\ \A x \in Processes : rows'[x].second <= Bound
  <2>1. /\ rows \in [Processes -> DataRanges] /\ \A x \in Processes : rows[x].second <= Bound
        /\ Bound \in Nat
    BY DEF DInv, TypeOK, RangeInv, Bound
  <2>2. ASSUME NEW range \in DataRanges, range.second <= Bound,
               rows' = [rows EXCEPT ![p] = range]
        PROVE  /\ rows' \in [Processes -> DataRanges]
               /\ \A x \in Processes : rows'[x].second <= Bound
    BY <2>1, <2>2
  <2>3. ASSUME NEW last \in {0} \cup Ranges!Rows(Head(s))
        PROVE  /\ [Head(s) EXCEPT !.second = last] \in DataRanges
               /\ [Head(s) EXCEPT !.second = last].second <= Bound
    <3>1. Head(s).first \in Nat /\ Head(s).second \in Nat
      BY <1>9 DEF DataRanges
    <3>2. last \in Nat /\ last <= Bound
      BY <1>9, <2>1, <3>1 DEF Ranges!Rows
    <3> QED
      BY <1>9, <3>2 DEF DataRanges
  <2> QED
    BY <1>2, <1>9, <2>1, <2>2, <2>3 DEF s
<1>12. TypeOK'
  <2>1. torn' \subseteq Connections
    BY <1>1, <1>2 DEF DInv, TypeOK
  <2>2. /\ pc' \in [Processes -> {"none", "init", "start", "loop", "query", "read", "mail", "exit",
                                  "aborted"}]
        /\ taken' \in [Processes -> Nat]
    <3>1. \/ UNCHANGED <<pc, taken>>
          \/ pc' = [pc EXCEPT ![p] = "mail"] /\ taken' = [taken EXCEPT ![p] = @ + 1]
      BY <1>2, Zenon
    <3>2. /\ pc \in [Processes -> {"none", "init", "start", "loop", "query", "read", "mail", "exit",
                                   "aborted"}]
          /\ taken \in [Processes -> Nat]
      BY DEF DInv, TypeOK
    <3> QED
      BY <3>1, <3>2
  <2> QED
    BY <1>2, <1>10, <1>11, <2>1, <2>2 DEF DInv, TypeOK
<1>13. RangeInv'
  <2>1. \A x \in Processes : rows'[x].second <= Bound
    BY <1>11
  <2>2. ASSUME NEW d \in Connections, NEW i \in 1 .. Len(answers'[d])
        PROVE  answers'[d][i].second <= Bound
    <3>1. CASE d = c
      BY <1>1, <1>4, <1>6, <1>7, <1>8, <2>2, <3>1
    <3>2. CASE d # c
      BY <1>1, <1>4, <1>6, <2>2, <3>2 DEF DInv, RangeInv
    <3> QED
      BY <3>1, <3>2
  <2> QED
    BY <1>2, <2>1, <2>2 DEF RangeInv, Bound
<1>14. AttemptInv'
  BY <1>2 DEF DInv, AttemptInv, Bound
<1>15. /\ \A x \in Processes : pc'[x] \in {"init", "start"} => pc'[x] = pc[x]
       /\ \A x \in Processes :
            pc'[x] \in {"query", "read", "mail"} => process_idx'[x] <= setting.process_count
  BY <1>2 DEF DInv, TypeOK, LoopInv
<1> QED
  BY <1>2, <1>12, <1>13, <1>14, <1>15, StepFrame

LEMMA MailRowInv ==
  ASSUME DistributionAssumption, DInv, NEW p \in Processes, MailRow(p)
  PROVE  DInv'
<1> DEFINE T == Rows(rows[p])
           i == CHOOSE x \in T : \A y \in T : x <= y
<1>1. /\ pc[p] = "mail" /\ T # {}
      /\ attempts' = [attempts EXCEPT ![i] = @ + 1]
      /\ rows' = [rows EXCEPT ![p].first = i + 1]
      /\ UNCHANGED <<setting, process_row_count, pc, process_idx, taken, unread, answers, open,
                     torn, fork_failed>>
  BY DEF MailRow
<1>2. T \subseteq Nat /\ T = (rows[p].first .. rows[p].second) \cap setting.ids
  BY SettingFacts DEF DInv, TypeOK, Rows, Ranges!Rows
<1> HIDE DEF T
<1>3. i \in T
  <2>1. \E x \in T : \A y \in T : x <= y
    BY <1>1, <1>2, Smallest
  <2> QED
    BY <2>1
<1> HIDE DEF i
<1>4. rows[p] \in DataRanges /\ rows[p].second <= Bound
  BY DEF DInv, TypeOK, RangeInv
<1>5. i \in Nat /\ i \in setting.ids /\ i <= rows[p].second
  BY <1>2, <1>3, <1>4 DEF DataRanges
<1>6. i <= Bound
  <2>1. Bound \in Nat /\ rows[p].second \in Nat
    BY <1>4 DEF DInv, TypeOK, Bound, DataRanges
  <2> QED
    BY <1>4, <1>5, <2>1
<1>7. rows' = [rows EXCEPT ![p] = [rows[p] EXCEPT !.first = i + 1]]
  BY <1>1
<1>8. [rows[p] EXCEPT !.first = i + 1] \in DataRanges
      /\ [rows[p] EXCEPT !.first = i + 1].second = rows[p].second
  BY <1>4, <1>5 DEF DataRanges
<1>9. TypeOK'
  <2>1. rows' \in [Processes -> DataRanges]
    BY <1>7, <1>8 DEF DInv, TypeOK
  <2>2. attempts' \in [setting.ids -> Nat]
    BY <1>1, <1>5 DEF DInv, TypeOK
  <2> QED
    BY <1>1, <2>1, <2>2 DEF DInv, TypeOK
<1>10. RangeInv'
  BY <1>1, <1>4, <1>7, <1>8 DEF DInv, TypeOK, RangeInv, Bound
<1>11. AttemptInv'
  BY <1>1, <1>6 DEF DInv, TypeOK, AttemptInv, Bound
<1>12. \A x \in Processes :
         pc'[x] \in {"query", "read", "mail"} => process_idx'[x] <= setting.process_count
  BY <1>1 DEF DInv, LoopInv
<1> QED
  BY <1>1, <1>9, <1>10, <1>11, <1>12, StepFrame

(* The ends of a range, of a loop and of a process. *)
LEMMA EndInv ==
  ASSUME DistributionAssumption, DInv, NEW p \in Processes, ChildDone(p) \/ Exit(p) \/ Abort(p)
  PROVE  DInv'
<1>1. PICK s \in {"loop", "exit", "aborted"} :
        /\ pc' = [pc EXCEPT ![p] = s]
        /\ \/ process_idx' = process_idx
           \/ pc[p] = "mail" /\ process_idx' = [process_idx EXCEPT ![p] = @ + 1]
        /\ open' \subseteq open
        /\ UNCHANGED <<setting, process_row_count, taken, unread, rows, answers, torn, attempts,
                       fork_failed>>
  BY DEF ChildDone, Exit, Abort, Finish, Goto
<1>2. process_idx' \in [Processes -> 1 .. MaxProcesses + 1]
  <2>1. CASE process_idx' = process_idx
    BY <2>1 DEF DInv, TypeOK
  <2>2. CASE pc[p] = "mail" /\ process_idx' = [process_idx EXCEPT ![p] = @ + 1]
    <3>1. process_idx[p] + 1 \in 1 .. MaxProcesses + 1
      BY <2>2, IndexFacts DEF DInv, LoopInv
    <3> QED
      BY <2>2, <3>1 DEF DInv, TypeOK
  <2> QED
    BY <1>1, <2>1, <2>2
<1>3. TypeOK'
  BY <1>1, <1>2 DEF DInv, TypeOK
<1>4. RangeInv' /\ AttemptInv'
  BY <1>1 DEF DInv, RangeInv, AttemptInv, Bound
<1>5. /\ \A x \in Processes : pc'[x] \in {"init", "start"} => pc'[x] = pc[x]
      /\ \A x \in Processes :
           pc'[x] \in {"query", "read", "mail"} => process_idx'[x] <= setting.process_count
  BY <1>1 DEF DInv, TypeOK, LoopInv
<1> QED
  BY <1>1, <1>3, <1>4, <1>5, StepFrame

LEMMA StepInv ==
  ASSUME DistributionAssumption, DInv, NEW p \in Processes, Step(p)
  PROVE  DInv'
BY ForkInv, ForkFailureInv, QueryInv, NoRowsInv, ReadInv, MailRowInv, EndInv DEF Step

-----------------------------------------------------------------------------
(* The steps before the loop and around it.  Until main comes to its loop  *)
(* nothing is forked; then the listener is closed.                         *)
StageInv ==
  /\ start \in Starts
  /\ stage \in {"entered", "hooked", "bound", "parsed", "db", "connected", "configured",
                "prepared", "serving", "waiting", "woken", "loop"}
  /\ listener \in {"open", "closed"} /\ notified \in BOOLEAN
  /\ stage = "loop" => listener = "closed"
  /\ stage # "loop" => /\ \A p \in Processes \ {main} : pc[p] = "none"
                       /\ torn = {} /\ (pc[main] = "exit" => open = {})

PInv == DInv /\ StageInv

(* A step of main that leaves the processes alone, but for its own end. *)
LEMMA QuietStep ==
  ASSUME DistributionAssumption, PInv, UNCHANGED start, notified' \in BOOLEAN,
         stage' \in {"entered", "hooked", "bound", "parsed", "db", "connected", "configured",
                     "prepared", "serving", "waiting", "woken", "loop"},
         listener' \in {"open", "closed"}, stage' = "loop" => listener' = "closed",
         stage # "loop" \/ UNCHANGED stage,
         UNCHANGED vars \/ GiveUp \/ Die \/ Prepare \/ (Connect \/ ConnectThrows \/ PrepareThrows)
  PROVE  PInv'
<1>1. main \in Processes /\ pc \in [Processes -> {"none", "init", "start", "loop", "query", "read",
                                                  "mail", "exit", "aborted"}]
  BY DEF main, Processes, PInv, DInv, TypeOK
<1>2. CASE UNCHANGED vars
  BY <1>2 DEF vars, process, PInv, StageInv, DInv, TypeOK, LoopInv, RangeInv, AttemptInv, StartInv,
              LimitInv, Limit, row_count, Bound
<1>3. CASE GiveUp \/ ConnectThrows \/ PrepareThrows
  <2>1. /\ Goto(main, "exit") /\ open' \subseteq Connections /\ (torn = {} => open' = {})
        /\ UNCHANGED <<setting, process_row_count, process_idx, taken, unread, rows, answers, torn,
                       attempts, fork_failed>>
    BY <1>3 DEF GiveUp, ConnectThrows, PrepareThrows, Finish, PInv, DInv, TypeOK
  <2>2. DInv'
    BY <2>1, MainSteps DEF PInv
  <2> QED
    BY <1>1, <2>1, <2>2 DEF PInv, StageInv, Goto
<1>4. CASE Die
  <2>1. Goto(main, "aborted") /\ open' = open
        /\ UNCHANGED <<setting, process_row_count, process_idx, taken, unread, rows, answers, torn,
                       attempts, fork_failed>>
    BY <1>4 DEF Die
  <2>2. DInv'
    BY <2>1, MainSteps DEF PInv, DInv, TypeOK
  <2> QED
    BY <1>1, <2>1, <2>2 DEF PInv, StageInv, Goto
<1>5. CASE Connect
  <2>1. Goto(main, "start") /\ pc[main] = "init" /\ open' = Connections
        /\ UNCHANGED <<setting, process_row_count, process_idx, taken, unread, rows, answers, torn,
                       attempts, fork_failed>>
    BY <1>5 DEF Connect
  <2>2. DInv'
    BY <2>1, MainSteps DEF PInv
  <2> QED
    BY <1>1, <2>1, <2>2 DEF PInv, StageInv, Goto
<1>6. CASE Prepare
  <2>1. Goto(main, "loop") /\ torn' = torn
    BY <1>6 DEF Prepare
  <2>2. DInv'
    BY <1>6, PrepareInv DEF PInv
  <2> QED
    BY <1>1, <2>1, <2>2 DEF PInv, StageInv, Goto
<1> QED
  BY <1>2, <1>3, <1>4, <1>5, <1>6

LEMMA ProgramInitInv ==
  ASSUME DistributionAssumption, ProgramInit
  PROVE  PInv
BY DInit DEF ProgramInit, PInv, StageInv, Init, main

LEMMA ProgramStepInv ==
  ASSUME DistributionAssumption, PInv, [ProgramNext]_programVars
  PROVE  PInv'
<1>1. CASE UNCHANGED programVars
  BY <1>1, QuietStep DEF programVars, startVars, PInv, StageInv
<1>2. CASE hookSIGINT \/ waitForUserInterrupt \/ Shutdown \/ SIGINT \/ WakeUp
  BY <1>2, QuietStep DEF hookSIGINT, waitForUserInterrupt, Shutdown, SIGINT, WakeUp, Reach, PInv,
                         StageInv
<1>3. CASE setEndpoint \/ start_parsing \/ ReadDbConf \/ ReadServerConf
  BY <1>3, QuietStep DEF setEndpoint, start_parsing, ReadDbConf, ReadServerConf, Reach, PInv,
                         StageInv
<1>4. CASE MakePool \/ ComputeRange \/ Accept
  BY <1>4, QuietStep DEF MakePool, ComputeRange, Accept, Reach, PInv, StageInv
<1>5. ASSUME NEW p \in Processes, LoopStep(p) PROVE PInv'
  <2>1. DInv'
    BY <1>5, StepInv DEF LoopStep, PInv
  <2> QED
    BY <1>5, <2>1 DEF LoopStep, PInv, StageInv, startVars
<1> QED
  BY <1>1, <1>2, <1>3, <1>4, <1>5 DEF ProgramNext, StartStep

(* The invariant of the program. *)
THEOREM Invariance == ProgramSpec => []PInv
<1>1. ProgramInit => PInv
  BY DistributionAssumption, ProgramInitInv
<1>2. PInv /\ [ProgramNext]_programVars => PInv'
  BY DistributionAssumption, ProgramStepInv
<1> QED
  BY <1>1, <1>2, PTL DEF ProgramSpec

(* The variables have their types, for any configuration, table, number of *)
(* processes and size of the pool. *)
THEOREM TypeCorrect == ProgramSpec => []ProgramTypeOK
<1>1. PInv => ProgramTypeOK
  BY DEF PInv, DInv, StageInv, ProgramTypeOK
<1> QED
  BY <1>1, Invariance, PTL

(* However many processes there are, and whoever reads whose answer, a     *)
(* server whose order number is that of a server mails the first rows of   *)
(* the table, as many as its share: main.cpp:108-117 keeps the number of   *)
(* the rows of the range and forgets where it begins.                      *)
THEOREM FirstShareOnly == ProgramSpec => []OnlyTheFirstShare
<1>1. PInv => OnlyTheFirstShare
  <2> SUFFICES ASSUME PInv, setting.order_number \in 1 .. setting.server_count,
                      NEW i \in setting.ids, attempts[i] > 0
               PROVE  i <= Limit
    BY DEF OnlyTheFirstShare, Limit
  <2>1. i \in Nat /\ row_count \in Nat /\ setting.server_count \in Nat \ {0}
    BY DistributionAssumption, SettingFacts DEF PInv, DInv, TypeOK
  <2>2. row_count \div setting.server_count \in Nat
    BY <2>1, Z3
  <2>3. i <= Bound /\ Bound <= Limit /\ Bound \in Nat
    BY DEF PInv, DInv, AttemptInv, LimitInv, TypeOK, Bound
  <2>4. Limit \in Nat
    BY <2>2 DEF Limit
  <2> QED
    BY <2>1, <2>3, <2>4
<1> QED
  BY <1>1, Invariance, PTL

(* No child is forked before the listener is closed, and a program that    *)
(* ends before its loop without a crash leaves no session open.            *)
THEOREM ListenerNotInherited == ProgramSpec => []NothingInherited
<1>1. PInv => NothingInherited
  BY DEF PInv, StageInv, NothingInherited
<1> QED
  BY <1>1, Invariance, PTL

-----------------------------------------------------------------------------
(* Where a setting that is a positive number comes from. *)
LEMMA FirstEntry ==
  ASSUME NEW lines \in Seq(Lines), NEW name \in {"server_count", "process_count"},
         NEW n \in Nat \ {0},
         LET v == ServerConfig(KeyMap(lines))[name] IN v # Text /\ v = n
  PROVE  \E k \in DOMAIN lines :
           lines[k].name = name /\ lines[k].value = n
           /\ \A j \in 1 .. k - 1 : lines[j].name # name
<1> DEFINE entries == {i \in DOMAIN lines : lines[i].kind = "entry"}
           named == {i \in entries : lines[i].name = name}
           k == CHOOSE i \in named : \A j \in named : i <= j
<1>1. /\ DOMAIN lines = 1 .. Len(lines) /\ Len(lines) \in Nat
      /\ \A i \in DOMAIN lines : lines[i] \in Lines
  BY LenProperties, ElementOfSeq
<1>2. named \subseteq Nat /\ named \subseteq 1 .. Len(lines)
  BY <1>1
<1>3. ASSUME NEW i \in 1 .. Len(lines), lines[i].name = name PROVE i \in named
  <2>1. lines[i] \in Lines /\ i \in DOMAIN lines
    BY <1>1
  <2>2. Comment.name # name /\ Blank.name # name
    BY DEF Comment, Blank
  <2>3. lines[i] \in [kind: {"entry"}, name: STRING, value: Int \cup {Text}]
    BY <1>3, <2>1, <2>2 DEF Lines
  <2>4. lines[i].kind = "entry"
    BY <2>3
  <2> QED
    BY <1>3, <2>1, <2>4
<1>4. name \in ServerNumbers
  BY DEF ServerNumbers
<1>5. name \in DOMAIN KeyMap(lines)
  BY <1>4 DEF ServerConfig
<1>6. name \in {lines[i].name : i \in entries}
  BY <1>5 DEF KeyMap
<1>7. named # {}
  BY <1>6
<1>8. KeyMap(lines)[name] = lines[k].value
  BY <1>6 DEF KeyMap
<1>9. lines[k].value = n
  BY <1>4, <1>5, <1>8 DEF ServerConfig
<1> HIDE DEF named
<1>10. k \in named /\ \A j \in named : k <= j
  <2>1. \E i \in named : \A j \in named : i <= j
    BY <1>2, <1>7, Smallest
  <2> QED
    BY <2>1
<1> HIDE DEF k
<1>11. k \in 1 .. Len(lines) /\ k \in DOMAIN lines
  BY <1>1, <1>2, <1>10
<1>12. lines[k].name = name
  BY <1>10 DEF named
<1>13. ASSUME NEW j \in 1 .. k - 1 PROVE lines[j].name # name
  <2>1. j \in 1 .. Len(lines) /\ ~(k <= j)
    BY <1>1, <1>11, <1>13
  <2> QED
    BY <1>3, <1>10, <2>1
<1> QED
  BY <1>9, <1>11, <1>12, <1>13

(* What main has made sure of by the time it comes to a stage. *)
ConfInv ==
  /\ setting = SettingOf(start)
  /\ stage \in {"db", "connected", "configured", "prepared", "serving", "waiting", "woken", "loop"}
       => start.db_conf # Unreadable
  /\ stage \in {"connected", "configured", "prepared", "serving", "waiting", "woken", "loop"}
       => start.db_conf \notin Lost
  /\ stage \in {"configured", "prepared", "serving", "waiting", "woken", "loop"}
       => start.server_conf \notin Lost
  /\ stage \in {"prepared", "serving", "waiting", "woken", "loop"} => setting.server_count > 0
  /\ stage # "loop" => \A i \in setting.ids : attempts[i] = 0
  /\ \A i \in setting.ids : attempts[i] > 0 => setting.process_count > 0

LEMMA ConfInit ==
  ASSUME ProgramInit
  PROVE  ConfInv
BY DEF ProgramInit, Init, ConfInv

LEMMA ConfStep ==
  ASSUME DistributionAssumption, PInv, ConfInv, [ProgramNext]_programVars
  PROVE  ConfInv'
<1> DEFINE Rest == setting' = setting /\ start' = start /\ attempts' = attempts
<1>1. CASE UNCHANGED programVars
  BY <1>1 DEF programVars, vars, startVars, ConfInv
<1>2. CASE hookSIGINT \/ waitForUserInterrupt \/ Shutdown \/ WakeUp
  BY <1>2 DEF hookSIGINT, waitForUserInterrupt, Shutdown, WakeUp, Reach, vars, ConfInv
<1>3. CASE setEndpoint \/ start_parsing \/ SIGINT
  BY <1>3 DEF setEndpoint, start_parsing, SIGINT, GiveUp, Die, Reach, vars, ConfInv
<1>4. CASE ReadDbConf \/ ReadServerConf \/ Accept
  BY <1>4 DEF ReadDbConf, ReadServerConf, Accept, GiveUp, Reach, vars, Lost, ConfInv
<1>5. CASE MakePool
  BY <1>5 DEF MakePool, ConnectThrows, GiveUp, Die, Connect, Reach, Lost, ConfInv
<1>6. CASE ComputeRange
  <2>1. CASE Reach("configured", "prepared") /\ Prepare
    <3>1. setting.server_count > 0
      BY <2>1, SettingFacts DEF Prepare, Ranges!InvalidArguments, PInv, DInv, TypeOK
    <3>2. Rest /\ start.db_conf \notin Lost /\ start.server_conf \notin Lost /\ stage = "configured"
      BY <1>6, <2>1 DEF ComputeRange, Prepare, Reach, ConfInv
    <3> QED
      BY <2>1, <3>1, <3>2 DEF Reach, ConfInv
  <2>2. CASE PrepareThrows /\ UNCHANGED stage
    BY <1>6, <2>2 DEF ComputeRange, PrepareThrows, GiveUp, ConfInv
  <2> QED
    BY <1>6, <2>1, <2>2 DEF ComputeRange
<1>7. ASSUME NEW p \in Processes, LoopStep(p) PROVE ConfInv'
  <2>1. stage = "loop" /\ UNCHANGED <<stage, start>> /\ UNCHANGED setting
    BY <1>7 DEF LoopStep, startVars, Step, Fork, ForkFailure, Query, QueryRefused, Read, Tear,
                ReadFails, MailRow, ChildDone, Exit, Abort
  <2>2. CASE MailRow(p)
    <3>1. pc[p] = "mail" /\ process_idx[p] \in 1 .. MaxProcesses + 1
      BY <2>2 DEF MailRow, PInv, DInv, TypeOK
    <3>2. setting.process_count > 0
      BY <3>1, SettingFacts DEF PInv, DInv, TypeOK, LoopInv
    <3> QED
      BY <2>1, <3>2 DEF ConfInv
  <2>3. CASE UNCHANGED attempts
    BY <2>1, <2>3 DEF ConfInv
  <2> QED
    BY <1>7, <2>2, <2>3 DEF LoopStep, Step, Fork, ForkFailure, Query, QueryRefused, Read, Tear,
                            ReadFails, ChildDone, Exit, Abort
<1> QED
  BY <1>1, <1>2, <1>3, <1>4, <1>5, <1>6, <1>7 DEF ProgramNext, StartStep

(* Nothing is mailed but on the strength of two files that could be read,  *)
(* with the first lines of their keys naming servers and processes.        *)
THEOREM OnlyAsConfigured == ProgramSpec => []MailedAsConfigured
<1>1. ProgramInit => PInv /\ ConfInv
  BY DistributionAssumption, ProgramInitInv, ConfInit
<1>2. PInv /\ ConfInv /\ [ProgramNext]_programVars => PInv' /\ ConfInv'
  BY DistributionAssumption, ProgramStepInv, ConfStep
<1>3. PInv /\ ConfInv => MailedAsConfigured
  <2> SUFFICES ASSUME PInv, ConfInv, NEW i \in setting.ids, attempts[i] > 0
               PROVE  /\ start.db_conf \notin Lost /\ start.server_conf \notin Lost
                      /\ \A name \in {"server_count", "process_count"} :
                           \E k \in DOMAIN start.server_conf :
                             /\ start.server_conf[k].name = name
                             /\ start.server_conf[k].value \in Nat \ {0}
                             /\ \A j \in 1 .. k - 1 :
                                  start.server_conf[j].name # start.server_conf[k].name
    BY DEF MailedAsConfigured
  <2>1. stage = "loop"
    <3>1. attempts[i] # 0
      OBVIOUS
    <3> QED
      BY <3>1 DEF ConfInv
  <2>2. /\ start.db_conf \notin Lost /\ start.server_conf \notin Lost
        /\ setting.server_count > 0 /\ setting.process_count > 0 /\ setting = SettingOf(start)
    BY <2>1 DEF ConfInv
  <2>3. start.server_conf \in Seq(Lines)
    BY <2>2, ProgramAssumption DEF PInv, StageInv
  <2>4. ASSUME NEW name \in {"server_count", "process_count"}
        PROVE  \E k \in DOMAIN start.server_conf :
                 /\ start.server_conf[k].name = name
                 /\ start.server_conf[k].value \in Nat \ {0}
                 /\ \A j \in 1 .. k - 1 :
                      start.server_conf[j].name # start.server_conf[k].name
    <3> DEFINE v == ServerConfig(KeyMap(start.server_conf))[name]
               n == IF v = Text THEN -1 ELSE v
    <3>1. n = setting.server_count \/ n = setting.process_count
      BY <2>2 DEF SettingOf, ServerConfOf
    <3>2. n \in Nat \ {0}
      <4>1. setting.server_count \in Int /\ setting.process_count \in Int
        BY DistributionAssumption, SettingFacts DEF PInv, DInv, TypeOK
      <4> QED
        BY <2>2, <3>1, <4>1
    <3>3. v # Text /\ v = n
      BY <3>2
    <3> HIDE DEF v, n
    <3>4. \E k \in DOMAIN start.server_conf :
            start.server_conf[k].name = name /\ start.server_conf[k].value = n
            /\ \A j \in 1 .. k - 1 : start.server_conf[j].name # name
      BY <2>3, <3>2, <3>3, FirstEntry DEF v
    <3> QED
      BY <3>2, <3>4
  <2> QED
    BY <2>2, <2>4
<1> QED
  BY <1>1, <1>2, <1>3, PTL DEF ProgramSpec

-----------------------------------------------------------------------------
(* The tree of the processes: what index a process asks for, that it asks  *)
(* once, and that a process is forked once.                                *)

AsksFor(p, idx) == p \subseteq 1 .. idx /\ (idx \in p \/ (p = main /\ idx = 1))

AtWork == \A p \in Processes :
  /\ pc[p] \in {"query", "read", "mail"} => AsksFor(p, process_idx[p])
  /\ pc[p] = "loop" => p \subseteq 1 .. process_idx[p] - 1
  /\ pc[p] = "none" => process_idx[p] = 1
  /\ pc[p] \in {"init", "start"} => p = main

(* Before main comes to the loop, it is alone, ... *)
Alone == pc[main] \in {"init", "start"} => \A p \in Processes \ {main} : pc[p] = "none"

(* ... and a child is there only if its parent has passed the fork.        *)
Forked == \A p \in Processes : \A m \in 1 .. MaxProcesses :
  p \subseteq 1 .. m - 1 /\ pc[p \cup {m}] # "none"
    => process_idx[p] > m \/ (process_idx[p] = m /\ pc[p] # "loop")

TreeInv == AtWork /\ Alone /\ Forked

LEMMA MainIs ==
  /\ main \in Processes /\ \A m \in Nat : main \subseteq 1 .. m
BY DEF main, Processes

LEMMA ChildIs ==
  ASSUME DistributionAssumption, NEW p \in Processes, NEW m \in 1 .. MaxProcesses
  PROVE  p \cup {m} \in Processes
BY DEF Processes

(* The last index of a process tells its parent. *)
LEMMA OneParent ==
  ASSUME NEW m \in Nat, NEW l \in Nat, NEW p, NEW q, p \subseteq 1 .. m - 1, q \subseteq 1 .. l - 1,
         p \cup {m} = q \cup {l}
  PROVE  m = l /\ p = q
<1>1. m \in q \cup {l} /\ l \in p \cup {m}
  OBVIOUS
<1>2. m = l
  <2>1. CASE m < l
    <3>1. l \in 1 .. m - 1
      BY <1>1, <2>1
    <3> QED
      BY <2>1, <3>1
  <2>2. CASE l < m
    <3>1. m \in 1 .. l - 1
      BY <1>1, <2>2
    <3> QED
      BY <2>2, <3>1
  <2> QED
    BY <2>1, <2>2
<1>3. m \notin p /\ m \notin q
  BY <1>2
<1> QED
  BY <1>2, <1>3

LEMMA InitTree ==
  ASSUME DistributionAssumption, Init
  PROVE  TreeInv
<1>1. \A p \in Processes : /\ pc[p] = (IF p = main THEN "init" ELSE "none")
                           /\ process_idx[p] = 1
  BY DEF Init
<1>2. AtWork /\ Alone
  BY <1>1, MainIs DEF AtWork, Alone
<1>3. Forked
  <2> SUFFICES ASSUME NEW p \in Processes, NEW m \in 1 .. MaxProcesses
               PROVE  pc[p \cup {m}] = "none"
    BY DEF Forked
  <2>1. p \cup {m} \in Processes /\ p \cup {m} # main
    BY ChildIs DEF main
  <2> QED
    BY <1>1, <2>1
<1> QED
  BY <1>2, <1>3 DEF TreeInv

(* Steps of main before its loop, and its end. *)
LEMMA MainTree ==
  ASSUME DistributionAssumption, DInv, TreeInv, UNCHANGED process_idx,
         NEW s \in {"start", "loop", "exit", "aborted"}, Goto(main, s),
         s = "start" => pc[main] = "init", s = "loop" => pc[main] = "start"
  PROVE  TreeInv'
<1>1. main \in Processes /\ pc' = [pc EXCEPT ![main] = s]
      /\ pc \in [Processes -> {"none", "init", "start", "loop", "query", "read", "mail", "exit",
                               "aborted"}]
      /\ process_idx \in [Processes -> 1 .. MaxProcesses + 1]
  BY MainIs DEF Goto, DInv, TypeOK
<1>2. AtWork'
  <2>1. ASSUME NEW p \in Processes
        PROVE  /\ pc'[p] \in {"query", "read", "mail"} => AsksFor(p, process_idx[p])
               /\ pc'[p] = "loop" => p \subseteq 1 .. process_idx[p] - 1
               /\ pc'[p] = "none" => process_idx[p] = 1
               /\ pc'[p] \in {"init", "start"} => p = main
    <3>1. CASE p = main
      <4>1. pc'[p] = s
        BY <1>1, <3>1
      <4>2. p \subseteq 1 .. process_idx[p] - 1
        BY <3>1 DEF main
      <4> QED
        BY <3>1, <4>1, <4>2
    <3>2. CASE p # main
      BY <1>1, <3>2 DEF TreeInv, AtWork
    <3> QED
      BY <3>1, <3>2
  <2> QED
    BY <2>1 DEF AtWork, AsksFor
<1>3. Alone'
  BY <1>1 DEF TreeInv, Alone
<1>4. Forked'
  <2> SUFFICES ASSUME NEW p \in Processes, NEW m \in 1 .. MaxProcesses, p \subseteq 1 .. m - 1,
                      pc'[p \cup {m}] # "none"
               PROVE  process_idx[p] > m \/ (process_idx[p] = m /\ pc'[p] # "loop")
    BY DEF Forked
  <2>1. p \cup {m} \in Processes /\ p \cup {m} # main
    BY ChildIs DEF main
  <2>2. pc[p \cup {m}] # "none"
    BY <1>1, <2>1
  <2>3. process_idx[p] > m \/ (process_idx[p] = m /\ pc[p] # "loop")
    BY <2>2 DEF TreeInv, Forked
  <2>4. CASE p = main /\ s = "loop"
    BY <2>1, <2>2, <2>4 DEF TreeInv, Alone
  <2>5. CASE ~(p = main /\ s = "loop")
    BY <1>1, <2>3, <2>5
  <2> QED
    BY <2>4, <2>5
<1> QED
  BY <1>2, <1>3, <1>4 DEF TreeInv

(* A process that goes on without a fork. *)
LEMMA GoOnTree ==
  ASSUME DistributionAssumption, DInv, TreeInv, NEW p \in Processes,
         pc[p] \in {"loop", "query", "read", "mail"},
         NEW s \in {"loop", "query", "read", "mail", "exit", "aborted"}, Goto(p, s),
         s \in {"query", "read", "mail"} => pc[p] \in {"query", "read", "mail"},
         \/ s # "loop" /\ UNCHANGED process_idx
         \/ s = "loop" /\ process_idx' = [process_idx EXCEPT ![p] = @ + 1]
  PROVE  TreeInv'
<1>1. /\ pc' = [pc EXCEPT ![p] = s]
      /\ pc \in [Processes -> {"none", "init", "start", "loop", "query", "read", "mail", "exit",
                               "aborted"}]
      /\ process_idx \in [Processes -> 1 .. MaxProcesses + 1] /\ MaxProcesses \in Nat
  BY SettingFacts DEF Goto, DInv, TypeOK
<1>2. AtWork'
  <2>1. ASSUME NEW x \in Processes
        PROVE  /\ pc'[x] \in {"query", "read", "mail"} => AsksFor(x, process_idx'[x])
               /\ pc'[x] = "loop" => x \subseteq 1 .. process_idx'[x] - 1
               /\ pc'[x] = "none" => process_idx'[x] = 1
               /\ pc'[x] \in {"init", "start"} => x = main
    <3>1. CASE x = p /\ s = "loop"
      <4>1. pc'[x] = "loop" /\ process_idx'[x] = process_idx[x] + 1
        BY <1>1, <3>1
      <4>2. x \subseteq 1 .. process_idx[x]
        <5>1. process_idx[x] \in Nat
          BY <1>1
        <5>2. AsksFor(x, process_idx[x]) \/ x \subseteq 1 .. process_idx[x] - 1
          BY <3>1 DEF TreeInv, AtWork
        <5> QED
          BY <5>1, <5>2 DEF AsksFor
      <4>3. (process_idx[x] + 1) - 1 = process_idx[x]
        BY <1>1
      <4> QED
        BY <4>1, <4>2, <4>3
    <3>2. CASE x = p /\ s # "loop"
      BY <1>1, <3>2 DEF TreeInv, AtWork
    <3>3. CASE x # p
      BY <1>1, <3>3 DEF TreeInv, AtWork
    <3> QED
      BY <3>1, <3>2, <3>3
  <2> QED
    BY <2>1 DEF AtWork, AsksFor
<1>3. Alone'
  <2>1. pc[main] \notin {"init", "start"}
    BY MainIs DEF TreeInv, Alone
  <2> QED
    BY <1>1, <2>1, MainIs DEF Alone
<1>4. Forked'
  <2> SUFFICES ASSUME NEW x \in Processes, NEW m \in 1 .. MaxProcesses, x \subseteq 1 .. m - 1,
                      pc'[x \cup {m}] # "none"
               PROVE  process_idx'[x] > m \/ (process_idx'[x] = m /\ pc'[x] # "loop")
    BY DEF Forked
  <2>1. x \cup {m} \in Processes
    BY ChildIs
  <2>2. pc[x \cup {m}] # "none"
    BY <1>1, <2>1
  <2>3. process_idx[x] > m \/ (process_idx[x] = m /\ pc[x] # "loop")
    BY <2>2 DEF TreeInv, Forked
  <2>4. process_idx[x] \in Nat
    BY <1>1
  <2>5. CASE x = p /\ s = "loop"
    <3>1. process_idx'[x] = process_idx[x] + 1
      BY <1>1, <2>5
    <3> QED
      BY <2>3, <2>4, <3>1
  <2>6. CASE x = p /\ s # "loop"
    BY <1>1, <2>3, <2>6
  <2>7. CASE x # p
    BY <1>1, <2>3, <2>7
  <2> QED
    BY <2>5, <2>6, <2>7
<1> QED
  BY <1>2, <1>3, <1>4 DEF TreeInv

(* A turn of the loop in which the fork fails. *)
LEMMA ForkFailureTree ==
  ASSUME DistributionAssumption, DInv, TreeInv, NEW p \in Processes, ForkFailure(p)
  PROVE  TreeInv'
<1>1. /\ pc[p] = "loop" /\ pc' = pc /\ process_idx' = [process_idx EXCEPT ![p] = @ + 1]
      /\ pc \in [Processes -> {"none", "init", "start", "loop", "query", "read", "mail", "exit",
                               "aborted"}]
      /\ process_idx \in [Processes -> 1 .. MaxProcesses + 1]
  BY DEF ForkFailure, DInv, TypeOK
<1>2. process_idx[p] \in Nat /\ process_idx'[p] = process_idx[p] + 1
  BY <1>1
<1>3. AtWork'
  <2>1. ASSUME NEW x \in Processes
        PROVE  /\ pc'[x] \in {"query", "read", "mail"} => AsksFor(x, process_idx'[x])
               /\ pc'[x] = "loop" => x \subseteq 1 .. process_idx'[x] - 1
               /\ pc'[x] = "none" => process_idx'[x] = 1
               /\ pc'[x] \in {"init", "start"} => x = main
    <3>1. CASE x = p
      <4>1. x \subseteq 1 .. process_idx[x] - 1
        BY <1>1, <3>1 DEF TreeInv, AtWork
      <4>2. x \subseteq 1 .. process_idx'[x] - 1
        BY <1>2, <3>1, <4>1
      <4> QED
        BY <1>1, <3>1, <4>2
    <3>2. CASE x # p
      BY <1>1, <3>2 DEF TreeInv, AtWork
    <3> QED
      BY <3>1, <3>2
  <2> QED
    BY <2>1 DEF AtWork, AsksFor
<1>4. Alone'
  BY <1>1 DEF TreeInv, Alone
<1>5. Forked'
  <2> SUFFICES ASSUME NEW x \in Processes, NEW m \in 1 .. MaxProcesses, x \subseteq 1 .. m - 1,
                      pc[x \cup {m}] # "none"
               PROVE  process_idx'[x] > m \/ (process_idx'[x] = m /\ pc[x] # "loop")
    BY <1>1 DEF Forked
  <2>1. process_idx[x] > m \/ (process_idx[x] = m /\ pc[x] # "loop")
    BY DEF TreeInv, Forked
  <2>2. CASE x = p
    BY <1>1, <1>2, <2>1, <2>2
  <2>3. CASE x # p
    BY <1>1, <2>1, <2>3
  <2> QED
    BY <2>2, <2>3
<1> QED
  BY <1>3, <1>4, <1>5 DEF TreeInv

(* A child is a process that was not there. *)
LEMMA ChildIsNew ==
  ASSUME DistributionAssumption, DInv, TreeInv, NEW p \in Processes, Fork(p)
  PROVE  LET idx == process_idx[p]  child == p \cup {idx} IN
         /\ idx \in 1 .. MaxProcesses /\ child \in Processes /\ child # p /\ child # main
         /\ p \subseteq 1 .. idx - 1 /\ pc[child] = "none" /\ process_idx[child] = 1
<1> DEFINE idx == process_idx[p]
           child == p \cup {idx}
<1>1. pc[p] = "loop" /\ idx \in 1 .. MaxProcesses /\ child \in Processes
  BY IndexFacts DEF Fork, DInv
<1>2. p \subseteq 1 .. idx - 1
  BY <1>1 DEF TreeInv, AtWork
<1>3. idx \notin p
  <2>1. idx \notin 1 .. idx - 1
    BY <1>1
  <2> QED
    BY <1>2, <2>1
<1>4. pc[child] = "none"
  <2>1. ~(process_idx[p] > idx \/ (process_idx[p] = idx /\ pc[p] # "loop"))
    BY <1>1
  <2> QED
    BY <1>1, <1>2, <2>1 DEF TreeInv, Forked
<1>5. child # p /\ child # main
  BY <1>3 DEF main
<1> QED
  BY <1>1, <1>2, <1>4, <1>5 DEF TreeInv, AtWork

LEMMA ForkTree ==
  ASSUME DistributionAssumption, DInv, TreeInv, NEW p \in Processes, Fork(p)
  PROVE  TreeInv'
<1> DEFINE i0 == process_idx[p]
           c0 == p \cup {i0}
<1>1. PICK idx \in 1 .. MaxProcesses : idx = process_idx[p]
  BY ChildIsNew
<1>2. PICK child \in Processes : child = p \cup {idx}
  BY <1>1, ChildIsNew
<1>3. /\ child # p /\ child # main /\ p \subseteq 1 .. idx - 1 /\ pc[child] = "none"
      /\ process_idx[child] = 1
  BY <1>1, <1>2, ChildIsNew
<1>4. /\ pc[p] = "loop"
      /\ pc' = [pc EXCEPT ![child] = "query", ![p] = IF idx = 1 THEN "query" ELSE "loop"]
      /\ process_idx' = [process_idx EXCEPT ![child] = idx, ![p] = IF idx = 1 THEN @ ELSE @ + 1]
  BY <1>1, <1>2 DEF Fork
<1>5. /\ pc \in [Processes -> {"none", "init", "start", "loop", "query", "read", "mail", "exit",
                               "aborted"}]
      /\ process_idx \in [Processes -> 1 .. MaxProcesses + 1]
  BY DEF DInv, TypeOK
<1>6. /\ pc'[child] = "query" /\ process_idx'[child] = idx
      /\ pc'[p] = IF idx = 1 THEN "query" ELSE "loop"
      /\ process_idx'[p] = IF idx = 1 THEN idx ELSE idx + 1
      /\ \A x \in Processes \ {child, p} : pc'[x] = pc[x] /\ process_idx'[x] = process_idx[x]
  BY <1>1, <1>3, <1>4, <1>5
<1> HIDE DEF i0, c0
<1>7. AtWork'
  <2>1. ASSUME NEW x \in Processes
        PROVE  /\ pc'[x] \in {"query", "read", "mail"} => AsksFor(x, process_idx'[x])
               /\ pc'[x] = "loop" => x \subseteq 1 .. process_idx'[x] - 1
               /\ pc'[x] = "none" => process_idx'[x] = 1
               /\ pc'[x] \in {"init", "start"} => x = main
    <3>1. CASE x = child
      <4>1. child \subseteq 1 .. idx
        BY <1>2, <1>3
      <4> QED
        BY <1>2, <1>6, <3>1, <4>1 DEF AsksFor
    <3>2. CASE x = p /\ idx = 1
      <4>1. p = main
        BY <1>3, <3>2 DEF main
      <4>2. AsksFor(p, 1)
        BY <4>1 DEF AsksFor, main
      <4> QED
        BY <1>6, <3>2, <4>2
    <3>3. CASE x = p /\ idx # 1
      <4>1. pc'[x] = "loop" /\ process_idx'[x] = idx + 1 /\ (idx + 1) - 1 = idx
        BY <1>6, <3>3
      <4>2. x \subseteq 1 .. idx
        BY <1>3, <3>3
      <4> QED
        BY <4>1, <4>2
    <3>4. CASE x \notin {child, p}
      BY <1>6, <3>4 DEF TreeInv, AtWork
    <3> QED
      BY <3>1, <3>2, <3>3, <3>4
  <2> QED
    BY <2>1 DEF AtWork, AsksFor
<1>8. Alone'
  <2>1. pc[main] \notin {"init", "start"}
    BY <1>4, MainIs DEF TreeInv, Alone
  <2> QED
    BY <1>3, <1>6, <2>1, MainIs DEF Alone
<1>9. Forked'
  <2> SUFFICES ASSUME NEW x \in Processes, NEW m \in 1 .. MaxProcesses, x \subseteq 1 .. m - 1,
                      pc'[x \cup {m}] # "none"
               PROVE  process_idx'[x] > m \/ (process_idx'[x] = m /\ pc'[x] # "loop")
    BY DEF Forked
  <2>1. x \cup {m} \in Processes
    BY ChildIs
  <2>2. CASE x = p
    <3>1. CASE x \cup {m} = child
      <4>1. m = idx
        BY <1>2, <1>3, <2>2, <3>1, OneParent
      <4> QED
        BY <1>6, <2>2, <4>1
    <3>2. CASE x \cup {m} = p
      <4>1. m \in p /\ m \notin 1 .. m - 1
        BY <3>2
      <4> QED
        BY <2>2, <4>1
    <3>3. CASE x \cup {m} \notin {child, p}
      <4>1. pc[x \cup {m}] # "none"
        BY <1>6, <2>1, <3>3
      <4>2. process_idx[p] > m
        BY <1>4, <2>2, <4>1 DEF TreeInv, Forked
      <4> QED
        BY <1>1, <1>6, <2>2, <4>2
    <3> QED
      BY <3>1, <3>2, <3>3
  <2>3. CASE x # p
    <3>1. x \cup {m} # child
      <4> SUFFICES ASSUME x \cup {m} = p \cup {idx} PROVE FALSE
        BY <1>2
      <4>1. m \in Nat /\ idx \in Nat /\ x \subseteq 1 .. m - 1 /\ p \subseteq 1 .. idx - 1
        BY <1>3
      <4>2. x = p
        BY <4>1, OneParent
      <4> QED
        BY <2>3, <4>2
    <3>2. pc[x \cup {m}] # "none"
      BY <1>4, <1>6, <2>1, <3>1
    <3>3. process_idx[x] > m \/ (process_idx[x] = m /\ pc[x] # "loop")
      BY <3>2 DEF TreeInv, Forked
    <3>4. x # child
      <4> SUFFICES ASSUME x = child PROVE FALSE
        OBVIOUS
      <4>1. m = 1
        BY <1>3, <3>3
      <4>2. x = main
        BY <4>1 DEF main
      <4> QED
        BY <1>3, <4>2
    <3> QED
      BY <1>6, <2>3, <3>3, <3>4
  <2> QED
    BY <2>2, <2>3
<1> QED
  BY <1>7, <1>8, <1>9 DEF TreeInv

LEMMA StepTree ==
  ASSUME DistributionAssumption, DInv, TreeInv, NEW p \in Processes, Step(p)
  PROVE  TreeInv'
<1>0. CASE Tear(p) /\ UNCHANGED pc
  BY <1>0 DEF Tear, TreeInv, AtWork, AsksFor, Alone, Forked
<1>1. CASE Query(p) \/ QueryRefused(p) \/ Read(p) \/ ReadFails(p) \/ (Tear(p) /\ pc' # pc)
  BY <1>1, GoOnTree DEF Query, QueryRefused, Read, Tear, ReadFails, Mail
<1>2. CASE Exit(p) \/ Abort(p)
  BY <1>2, GoOnTree DEF Exit, Abort, Finish
<1>3. CASE ChildDone(p)
  BY <1>3, GoOnTree DEF ChildDone
<1>4. CASE MailRow(p)
  BY <1>4 DEF MailRow, TreeInv, AtWork, AsksFor, Alone, Forked
<1> QED
  BY <1>0, <1>1, <1>2, <1>3, <1>4, ForkTree, ForkFailureTree DEF Step

(* What a step of the program is to the processes. *)
LEMMA StepKinds ==
  ASSUME [ProgramNext]_programVars
  PROVE  \/ UNCHANGED vars
         \/ stage # "loop" /\ (GiveUp \/ Die \/ Prepare \/ Connect)
         \/ \E p \in Processes : stage = "loop" /\ Step(p)
<1>1. CASE UNCHANGED programVars
  BY <1>1 DEF programVars
<1>2. CASE hookSIGINT \/ waitForUserInterrupt \/ Shutdown \/ SIGINT \/ WakeUp
  BY <1>2 DEF hookSIGINT, waitForUserInterrupt, Shutdown, SIGINT, WakeUp, Reach
<1>3. CASE setEndpoint \/ start_parsing \/ ReadDbConf \/ ReadServerConf
  BY <1>3 DEF setEndpoint, start_parsing, ReadDbConf, ReadServerConf, Reach
<1>4. CASE MakePool \/ ComputeRange \/ Accept
  BY <1>4 DEF MakePool, ComputeRange, Accept, Reach, ConnectThrows, PrepareThrows
<1>5. ASSUME NEW p \in Processes, LoopStep(p)
      PROVE  \E q \in Processes : stage = "loop" /\ Step(q)
  BY <1>5 DEF LoopStep
<1> QED
  BY <1>1, <1>2, <1>3, <1>4, <1>5 DEF ProgramNext, StartStep

LEMMA ProgramTree ==
  ASSUME DistributionAssumption, DInv, TreeInv, [ProgramNext]_programVars
  PROVE  TreeInv'
<1>1. CASE UNCHANGED vars
  BY <1>1 DEF vars, process, TreeInv, AtWork, AsksFor, Alone, Forked
<1>2. CASE GiveUp
  BY <1>2, MainTree DEF GiveUp, Finish
<1>3. CASE Die
  BY <1>3, MainTree DEF Die
<1>4. CASE Prepare
  BY <1>4, MainTree DEF Prepare
<1>5. CASE Connect
  BY <1>5, MainTree DEF Connect
<1> QED
  BY <1>1, <1>2, <1>3, <1>4, <1>5, StepKinds, StepTree

-----------------------------------------------------------------------------
(* A row that has been mailed, is being mailed or lies in an answer that   *)
(* nobody has read takes a place, and every place is due to a process of   *)
(* its own that has asked for a range of that row.                         *)

NotYet(p) ==
  \/ pc[p] \in {"none", "init", "start", "query"}
  \/ pc[p] = "loop" /\ process_idx[p] = 1

Wants(p, i) ==
  \E idx \in 1 .. setting.process_count : AsksFor(p, idx) /\ i \in Rows(process_data_range(idx))

Asked(i) == {p \in Processes : ~NotYet(p) /\ Wants(p, i)}

MailedPlaces(i)   == {<<"mailed", k, 0>> : k \in 1 .. attempts[i]}
MailingPlaces(i)  == {<<"mailing", p, 0>> : p \in {q \in Processes : i \in Rows(rows[q])}}
AnswerPlaces(i, c) ==
  {<<"answered", c, k>> : k \in {j \in 1 .. Len(answers[c]) : i \in Rows(answers[c][j])}}
Places(i) ==
  MailedPlaces(i) \cup MailingPlaces(i) \cup UNION {AnswerPlaces(i, c) : c \in Connections}

Counted == \A i \in setting.ids : ExistsInjection(Places(i), Asked(i))

LEMMA Recount ==
  ASSUME NEW S, NEW T, NEW A, NEW B, ExistsInjection(S, A), A \subseteq B,
         NEW g \in [T -> S], \A x, y \in T : g[x] = g[y] => x = y
  PROVE  ExistsInjection(T, B)
<1>1. PICK f \in Injection(S, A) : TRUE
  BY Fun_ExistsInj
<1>2. f \in [S -> A] /\ \A x, y \in S : f[x] = f[y] => x = y
  BY Fun_InjectionProperties
<1> DEFINE h == [x \in T |-> f[g[x]]]
<1>3. h \in [T -> B] /\ \A x, y \in T : h[x] = h[y] => x = y
  BY <1>2
<1> HIDE DEF h
<1>4. h \in Injection(T, B)
  BY <1>3, Fun_IsInj
<1> QED
  BY <1>4, Fun_ExistsInj

LEMMA Fewer ==
  ASSUME NEW S, NEW T, NEW A, NEW B, ExistsInjection(S, A), A \subseteq B, T \subseteq S
  PROVE  ExistsInjection(T, B)
<1> DEFINE g == [x \in T |-> x]
<1>1. g \in [T -> S] /\ \A x, y \in T : g[x] = g[y] => x = y
  OBVIOUS
<1> QED
  BY <1>1, Recount

LEMMA OneMore ==
  ASSUME NEW S, NEW T, NEW A, NEW B, ExistsInjection(S, A), A \subseteq B, NEW b \in B, b \notin A,
         NEW new, T \subseteq S \cup {new}
  PROVE  ExistsInjection(T, B)
<1>1. PICK f \in Injection(S, A) : TRUE
  BY Fun_ExistsInj
<1>2. f \in [S -> A] /\ \A x, y \in S : f[x] = f[y] => x = y
  BY Fun_InjectionProperties
<1> DEFINE h == [x \in T |-> IF x \in S THEN f[x] ELSE b]
<1>3. h \in [T -> B] /\ \A x, y \in T : h[x] = h[y] => x = y
  BY <1>2
<1> HIDE DEF h
<1>4. h \in Injection(T, B)
  BY <1>3, Fun_IsInj
<1> QED
  BY <1>4, Fun_ExistsInj

(* The places, kind by kind. *)
LEMMA PlaceKinds ==
  ASSUME NEW i, NEW s
  PROVE  s \in Places(i) <=>
           \/ \E k \in 1 .. attempts[i] : s = <<"mailed", k, 0>>
           \/ \E p \in Processes : i \in Rows(rows[p]) /\ s = <<"mailing", p, 0>>
           \/ \E c \in Connections : \E k \in 1 .. Len(answers[c]) :
                i \in Rows(answers[c][k]) /\ s = <<"answered", c, k>>
<1>1. s \in MailedPlaces(i) <=> \E k \in 1 .. attempts[i] : s = <<"mailed", k, 0>>
  BY Zenon DEF MailedPlaces
<1>2. s \in MailingPlaces(i)
        <=> \E p \in Processes : i \in Rows(rows[p]) /\ s = <<"mailing", p, 0>>
  BY Zenon DEF MailingPlaces
<1>3. ASSUME NEW c \in Connections
      PROVE  s \in AnswerPlaces(i, c)
               <=> \E k \in 1 .. Len(answers[c]) :
                     i \in Rows(answers[c][k]) /\ s = <<"answered", c, k>>
  BY Zenon DEF AnswerPlaces
<1>4. s \in UNION {AnswerPlaces(i, c) : c \in Connections}
        <=> \E c \in Connections : s \in AnswerPlaces(i, c)
  BY Zenon
<1> QED
  BY <1>1, <1>2, <1>3, <1>4, Zenon DEF Places

LEMMA NextPlaceKinds ==
  ASSUME NEW i, NEW s, UNCHANGED setting
  PROVE  s \in Places(i)' <=>
           \/ \E k \in 1 .. attempts'[i] : s = <<"mailed", k, 0>>
           \/ \E p \in Processes : i \in Rows(rows'[p]) /\ s = <<"mailing", p, 0>>
           \/ \E c \in Connections : \E k \in 1 .. Len(answers'[c]) :
                i \in Rows(answers'[c][k]) /\ s = <<"answered", c, k>>
<1>1. s \in MailedPlaces(i)' <=> \E k \in 1 .. attempts'[i] : s = <<"mailed", k, 0>>
  BY Zenon DEF MailedPlaces
<1>2. s \in MailingPlaces(i)'
        <=> \E p \in Processes : i \in Rows(rows'[p]) /\ s = <<"mailing", p, 0>>
  BY Zenon DEF MailingPlaces, Rows, Ranges!Rows
<1>3. ASSUME NEW c \in Connections
      PROVE  s \in AnswerPlaces(i, c)'
               <=> \E k \in 1 .. Len(answers'[c]) :
                     i \in Rows(answers'[c][k]) /\ s = <<"answered", c, k>>
  BY Zenon DEF AnswerPlaces, Rows, Ranges!Rows
<1>4. s \in UNION {AnswerPlaces(i, c)' : c \in Connections}
        <=> \E c \in Connections : s \in AnswerPlaces(i, c)'
  BY Zenon
<1> QED
  BY <1>1, <1>2, <1>3, <1>4, Zenon DEF Places

(* Whoever has asked has asked. *)
LEMMA AskedGrows ==
  ASSUME NEW i, UNCHANGED <<setting, process_row_count>>,
         \A p \in Processes : NotYet(p)' => NotYet(p)
  PROVE  Asked(i) \subseteq Asked(i)'
<1>1. ASSUME NEW p \in Processes PROVE Wants(p, i)' <=> Wants(p, i)
  BY DEF Wants, AsksFor, Rows, Ranges!Rows, process_data_range, Ranges!get_data_range, Ranges!abs
<1> QED
  BY <1>1 DEF Asked

(* Steps that do not touch the places. *)
LEMMA CountedFrame ==
  ASSUME Counted, UNCHANGED <<setting, process_row_count, rows, answers, attempts>>,
         \A p \in Processes : NotYet(p)' => NotYet(p)
  PROVE  Counted'
<1> SUFFICES ASSUME NEW i \in setting.ids PROVE ExistsInjection(Places(i)', Asked(i)')
  BY DEF Counted
<1>1. Places(i)' = Places(i)
  BY DEF Places, MailedPlaces, MailingPlaces, AnswerPlaces, Rows, Ranges!Rows
<1>2. Asked(i) \subseteq Asked(i)'
  BY AskedGrows
<1>3. ExistsInjection(Places(i), Asked(i))
  BY DEF Counted
<1> QED
  BY <1>1, <1>2, <1>3, Fewer

LEMMA NoneAtAll ==
  ASSUME NEW B
  PROVE  ExistsInjection({}, B)
<1> DEFINE f == [x \in {} |-> x]
<1>1. f \in [{} -> B] /\ \A x, y \in {} : f[x] = f[y] => x = y
  OBVIOUS
<1>2. f \in Injection({}, B)
  BY <1>1, Fun_IsInj
<1> QED
  BY <1>2, Fun_ExistsInj

LEMMA InitCounted ==
  ASSUME Init
  PROVE  Counted
<1> SUFFICES ASSUME NEW i \in setting.ids PROVE Places(i) = {}
  BY NoneAtAll DEF Counted
<1>1. attempts[i] = 0 /\ 1 .. 0 = {}
  BY DEF Init
<1>2. \A p \in Processes : i \notin Rows(rows[p])
  BY DEF Init, Rows, Ranges!Rows, NoRows
<1>3. \A c \in Connections : 1 .. Len(answers[c]) = {}
  <2>1. Len(<<>>) = 0
    BY EmptySeq
  <2> QED
    BY <2>1 DEF Init
<1> SUFFICES ASSUME NEW s, s \in Places(i) PROVE FALSE
  OBVIOUS
<1> QED
  BY <1>1, <1>2, <1>3, PlaceKinds

(* Nobody has asked before the ranges are computed. *)
LEMMA PrepareCounted ==
  ASSUME DistributionAssumption, DInv, TreeInv, Counted, Prepare
  PROVE  Counted'
<1>1. pc[main] = "start" /\ UNCHANGED <<setting, rows, answers, attempts>>
  BY DEF Prepare
<1>2. \A p \in Processes : NotYet(p)
  BY <1>1 DEF TreeInv, Alone, NotYet
<1> SUFFICES ASSUME NEW i \in setting.ids PROVE ExistsInjection(Places(i)', Asked(i)')
  BY <1>1 DEF Counted
<1>3. Asked(i) = {}
  BY <1>2 DEF Asked
<1>4. PICK f \in Injection(Places(i), {}) : TRUE
  BY <1>3, Fun_ExistsInj DEF Counted
<1>5. Places(i) = {}
  BY <1>4, Fun_InjectionProperties
<1>6. Places(i)' = Places(i)
  BY <1>1 DEF Places, MailedPlaces, MailingPlaces, AnswerPlaces, Rows, Ranges!Rows
<1> QED
  BY <1>5, <1>6, NoneAtAll

(* A query asks, and may bring an answer. *)
LEMMA QueryCounted ==
  ASSUME DistributionAssumption, DInv, TreeInv, Counted, NEW p \in Processes, Query(p)
  PROVE  Counted'
<1>1. PICK c \in Connections, idx \in 1 .. setting.process_count :
        c = connection(p) /\ idx = process_idx[p]
  <2>1. process_idx[p] \in 1 .. setting.process_count
    <3>1. process_idx[p] <= setting.process_count /\ setting.process_count \in Int
      BY SettingFacts DEF Query, DInv, TypeOK, LoopInv
    <3> QED
      BY <3>1 DEF DInv, TypeOK
  <2> QED
    BY <2>1, ConnectionType DEF DInv
<1> DEFINE r == process_data_range(idx)
<1>2. /\ pc[p] = "query" /\ pc' = [pc EXCEPT ![p] = "read"]
      /\ answers' = answers \/ answers' = [answers EXCEPT ![c] = Append(@, r)]
      /\ UNCHANGED <<setting, process_row_count, process_idx, rows, attempts>>
  BY <1>1 DEF Query, Goto
<1>3. r \in DataRanges /\ answers \in [Connections -> Seq(DataRanges)]
  BY <1>1, ProcessRange, SettingFacts DEF DInv, TypeOK
<1>4. \A x \in Processes : NotYet(x)' => NotYet(x)
  BY <1>2 DEF DInv, TypeOK, NotYet
<1>5. CASE answers' = answers
  BY <1>2, <1>4, <1>5, CountedFrame
<1>6. CASE answers' = [answers EXCEPT ![c] = Append(@, r)]
  <2> SUFFICES ASSUME NEW i \in setting.ids PROVE ExistsInjection(Places(i)', Asked(i)')
    BY <1>2 DEF Counted
  <2>1. Asked(i) \subseteq Asked(i)'
    BY <1>2, <1>4, AskedGrows
  <2>2. ExistsInjection(Places(i), Asked(i))
    BY DEF Counted
  <2>3. PICK n \in Nat : n = Len(answers[c])
    BY <1>3, LenProperties
  <2>4. /\ Len(answers'[c]) = n + 1 /\ answers'[c][n + 1] = r
        /\ \A k \in 1 .. n : answers'[c][k] = answers[c][k]
        /\ \A d \in Connections \ {c} : answers'[d] = answers[d]
    BY <1>3, <1>6, <2>3, AppendProperties
  <2> DEFINE new == <<"answered", c, n + 1>>
  <2>5. ASSUME NEW s, s \in Places(i)'
        PROVE  s \in Places(i) \/ (s = new /\ i \in Rows(r))
    <3>1. \/ \E k \in 1 .. attempts'[i] : s = <<"mailed", k, 0>>
          \/ \E q \in Processes : i \in Rows(rows'[q]) /\ s = <<"mailing", q, 0>>
          \/ \E d \in Connections : \E k \in 1 .. Len(answers'[d]) :
               i \in Rows(answers'[d][k]) /\ s = <<"answered", d, k>>
      BY <1>2, <2>5, NextPlaceKinds
    <3>2. CASE \E k \in 1 .. attempts'[i] : s = <<"mailed", k, 0>>
      BY <1>2, <3>2, PlaceKinds
    <3>3. CASE \E q \in Processes : i \in Rows(rows'[q]) /\ s = <<"mailing", q, 0>>
      BY <1>2, <3>3, PlaceKinds
    <3>4. ASSUME NEW d \in Connections, NEW k \in 1 .. Len(answers'[d]), i \in Rows(answers'[d][k]),
                 s = <<"answered", d, k>>
          PROVE  s \in Places(i) \/ (s = new /\ i \in Rows(r))
      <4>1. i \in Rows(answers'[d][k])
        BY <3>4
      <4>2. CASE d = c /\ k = n + 1
        BY <2>4, <3>4, <4>1, <4>2
      <4>3. CASE ~(d = c /\ k = n + 1)
        <5>1. k \in 1 .. Len(answers[d]) /\ answers'[d][k] = answers[d][k]
          BY <2>3, <2>4, <3>4, <4>3
        <5> QED
          BY <3>4, <4>1, <5>1, PlaceKinds
      <4> QED
        BY <4>2, <4>3
    <3> QED
      BY <3>1, <3>2, <3>3, <3>4
  <2>6. CASE i \in Rows(r)
    <3>1. p \notin Asked(i)
      BY <1>2 DEF Asked, NotYet
    <3>2. Wants(p, i)
      <4>1. AsksFor(p, idx)
        BY <1>1, <1>2 DEF TreeInv, AtWork
      <4> QED
        BY <1>1, <2>6, <4>1 DEF Wants
    <3>3. p \in Asked(i)'
      <4>1. Wants(p, i)'
        BY <1>2, <3>2 DEF Wants, AsksFor, Rows, Ranges!Rows, process_data_range,
                          Ranges!get_data_range, Ranges!abs
      <4>2. ~NotYet(p)'
        BY <1>2 DEF DInv, TypeOK, NotYet
      <4> QED
        BY <4>1, <4>2 DEF Asked
    <3>4. Places(i)' \subseteq Places(i) \cup {new}
      BY <2>5
    <3> HIDE DEF new
    <3> QED
      BY <2>1, <2>2, <3>1, <3>3, <3>4, OneMore
  <2>7. CASE i \notin Rows(r)
    <3>1. Places(i)' \subseteq Places(i)
      BY <2>5, <2>7
    <3> QED
      BY <2>1, <2>2, <3>1, Fewer
  <2> QED
    BY <2>6, <2>7
<1> QED
  BY <1>2, <1>5, <1>6

(* A process that gets no rows takes no place. *)
LEMMA NoRowsCounted ==
  ASSUME DistributionAssumption, DInv, Counted, NEW p \in Processes, QueryRefused(p) \/ ReadFails(p)
  PROVE  Counted'
<1>1. /\ pc[p] \in {"query", "read"} /\ pc' = [pc EXCEPT ![p] = "mail"]
      /\ rows' = [rows EXCEPT ![p] = NoRows]
      /\ UNCHANGED <<setting, process_row_count, process_idx, answers, attempts>>
  BY DEF QueryRefused, ReadFails, Mail, Goto
<1>2. \A x \in Processes : NotYet(x)' => NotYet(x)
  BY <1>1 DEF DInv, TypeOK, NotYet
<1>3. Rows(NoRows) = {}
  BY DEF Rows, Ranges!Rows, NoRows
<1> SUFFICES ASSUME NEW i \in setting.ids PROVE ExistsInjection(Places(i)', Asked(i)')
  BY <1>1 DEF Counted
<1>4. ASSUME NEW s, s \in Places(i)' PROVE s \in Places(i)
  <2>1. \/ \E k \in 1 .. attempts'[i] : s = <<"mailed", k, 0>>
        \/ \E q \in Processes : i \in Rows(rows'[q]) /\ s = <<"mailing", q, 0>>
        \/ \E d \in Connections : \E k \in 1 .. Len(answers'[d]) :
             i \in Rows(answers'[d][k]) /\ s = <<"answered", d, k>>
    BY <1>1, <1>4, NextPlaceKinds
  <2>2. ASSUME NEW q \in Processes, i \in Rows(rows'[q]) PROVE i \in Rows(rows[q])
    BY <1>1, <1>3, <2>2 DEF DInv, TypeOK
  <2> QED
    BY <1>1, <2>1, <2>2, PlaceKinds
<1>5. Asked(i) \subseteq Asked(i)' /\ ExistsInjection(Places(i), Asked(i))
  BY <1>1, <1>2, AskedGrows DEF Counted
<1> QED
  BY <1>4, <1>5, Fewer

(* The first answer, or a part of it, moves to the process that reads it,  *)
(* or is lost; the others move up or are lost.                             *)
LEMMA ReadCounted ==
  ASSUME DistributionAssumption, DInv, Counted, NEW p \in Processes, Read(p) \/ Tear(p)
  PROVE  Counted'
<1>1. PICK c \in Connections : c = connection(p)
  BY ConnectionType DEF DInv
<1>2. /\ pc[p] = "read" /\ answers[c] # <<>>
      /\ UNCHANGED <<setting, process_row_count, process_idx, attempts>>
      /\ UNCHANGED pc \/ pc' = [pc EXCEPT ![p] = "mail"]
      /\ \/ UNCHANGED rows
         \/ rows' = [rows EXCEPT ![p] = Head(answers[c])]
         \/ \E last \in {0} \cup Ranges!Rows(Head(answers[c])) :
              rows' = [rows EXCEPT ![p] = [Head(answers[c]) EXCEPT !.second = last]]
  BY <1>1 DEF Read, Tear, Mail, Goto
<1>3. PICK k \in 1 .. Len(answers[c]) :
        answers' = [answers EXCEPT ![c] = SubSeq(@, k + 1, Len(@))]
  BY <1>1 DEF Read, Tear
<1>4. answers \in [Connections -> Seq(DataRanges)] /\ rows \in [Processes -> DataRanges]
  BY DEF DInv, TypeOK
<1>5. PICK n \in Nat : n = Len(answers[c])
  BY <1>4, LenProperties
<1>6. /\ Len(answers'[c]) = n - k
      /\ \A j \in 1 .. n - k : answers'[c][j] = answers[c][k + j] /\ k + j \in 1 .. n
      /\ \A d \in Connections \ {c} : answers'[d] = answers[d]
  <2>1. answers[c] \in Seq(DataRanges) /\ k \in 1 .. n
    BY <1>3, <1>4, <1>5
  <2>2. \A j \in k + 1 .. n : answers[c][j] \in DataRanges
    <3> SUFFICES ASSUME NEW j \in k + 1 .. n PROVE answers[c][j] \in DataRanges
      OBVIOUS
    <3>1. j \in 1 .. Len(answers[c])
      BY <1>5, <2>1
    <3> QED
      BY <2>1, <3>1, ElementOfSeq
  <2>3. k + 1 \in Int /\ n \in Int
    BY <2>1
  <2> DEFINE rest == SubSeq(answers[c], k + 1, n)
  <2>4. /\ Len(rest) = IF k + 1 <= n THEN n - (k + 1) + 1 ELSE 0
        /\ \A j \in 1 .. n - (k + 1) + 1 : rest[j] = answers[c][k + 1 + j - 1]
    BY <2>2, <2>3, SubSeqProperties
  <2>5. rest = answers'[c]
    BY <1>3, <1>4, <1>5
  <2> HIDE DEF rest
  <2>6. Len(rest) = n - k /\ n - (k + 1) + 1 = n - k
    BY <1>5, <2>1, <2>4
  <2>7. ASSUME NEW j \in 1 .. n - k PROVE k + 1 + j - 1 = k + j /\ k + j \in 1 .. n
    BY <2>1, <2>7
  <2> QED
    BY <1>3, <1>4, <2>4, <2>5, <2>6, <2>7
<1>7. /\ \A i \in setting.ids : i \in Rows(rows'[p]) => i \in Rows(rows[p]) \/ i \in Rows(answers[c][1])
      /\ 1 \in 1 .. n
      /\ \A q \in Processes \ {p} : rows'[q] = rows[q]
  <2>1. 1 \in 1 .. n /\ answers[c][1] = Head(answers[c])
    BY <1>2, <1>3, <1>4, <1>5
  <2>2. Head(answers[c]) \in DataRanges
    BY <1>4, <1>5, <2>1, ElementOfSeq
  <2>3. \A q \in Processes \ {p} : rows'[q] = rows[q]
    BY <1>2, <1>4
  <2>4. CASE UNCHANGED rows
    BY <2>1, <2>3, <2>4
  <2>5. CASE rows' = [rows EXCEPT ![p] = Head(answers[c])]
    BY <1>4, <2>1, <2>3, <2>5
  <2>6. ASSUME NEW last \in {0} \cup Ranges!Rows(Head(answers[c])),
               rows' = [rows EXCEPT ![p] = [Head(answers[c]) EXCEPT !.second = last]],
               NEW i \in setting.ids, i \in Rows(rows'[p])
        PROVE  i \in Rows(answers[c][1])
    <3>1. PICK range \in DataRanges : range = Head(answers[c])
      BY <2>2
    <3>2. range.first \in Nat /\ range.second \in Nat /\ last \in Nat /\ last <= range.second
      BY <2>6, <3>1 DEF DataRanges, Ranges!Rows
    <3>3. rows'[p].first = range.first /\ rows'[p].second = last
      BY <1>4, <2>6, <3>1 DEF DataRanges
    <3>5. i \in range.first .. last
      BY <2>6, <3>3 DEF Rows, Ranges!Rows
    <3>6. i \in range.first .. range.second
      BY <3>2, <3>5
    <3> QED
      BY <2>1, <3>1, <3>6 DEF Rows, Ranges!Rows
  <2> QED
    BY <1>2, <2>1, <2>3, <2>4, <2>5, <2>6
<1>8. \A x \in Processes : NotYet(x)' => NotYet(x)
  BY <1>2 DEF DInv, TypeOK, NotYet
<1> SUFFICES ASSUME NEW i \in setting.ids PROVE ExistsInjection(Places(i)', Asked(i)')
  BY <1>2 DEF Counted
<1> DEFINE g == [s \in Places(i)' |->
                   IF s = <<"mailing", p, 0>>
                     THEN IF i \in Rows(rows[p]) THEN s ELSE <<"answered", c, 1>>
                   ELSE IF s[1] = "answered" /\ s[2] = c THEN <<"answered", c, k + s[3]>>
                   ELSE s]
<1>9. ASSUME NEW s \in Places(i)'
      PROVE  \/ s = <<"mailing", p, 0>> /\ g[s] = <<"answered", c, 1>> /\ g[s] \in Places(i)
             \/ \E j \in 1 .. n - k : /\ s = <<"answered", c, j>> /\ g[s] = <<"answered", c, k + j>>
                                      /\ g[s] \in Places(i)
             \/ g[s] = s /\ s \in Places(i) /\ ~(s[1] = "answered" /\ s[2] = c)
  <2>1. \/ \E j \in 1 .. attempts'[i] : s = <<"mailed", j, 0>>
        \/ \E q \in Processes : i \in Rows(rows'[q]) /\ s = <<"mailing", q, 0>>
        \/ \E d \in Connections : \E j \in 1 .. Len(answers'[d]) :
             i \in Rows(answers'[d][j]) /\ s = <<"answered", d, j>>
    BY <1>2, NextPlaceKinds
  <2>2. CASE \E j \in 1 .. attempts'[i] : s = <<"mailed", j, 0>>
    <3>1. s \in Places(i) /\ s[1] = "mailed"
      BY <1>2, <2>2, PlaceKinds
    <3>2. g[s] = s
      BY <3>1
    <3> QED
      BY <3>1, <3>2
  <2>3. ASSUME NEW q \in Processes, i \in Rows(rows'[q]), s = <<"mailing", q, 0>>
        PROVE  \/ s = <<"mailing", p, 0>> /\ g[s] = <<"answered", c, 1>> /\ g[s] \in Places(i)
               \/ g[s] = s /\ s \in Places(i) /\ ~(s[1] = "answered" /\ s[2] = c)
    <3>0. CASE q = p /\ i \in Rows(rows[p])
      <4>1. s \in Places(i) /\ s[1] # "answered"
        BY <2>3, <3>0, PlaceKinds
      <4>2. g[s] = s
        BY <2>3, <3>0
      <4> QED
        BY <4>1, <4>2
    <3>1. CASE q = p /\ i \notin Rows(rows[p])
      <4>1. i \in Rows(answers[c][1])
        BY <1>7, <2>3, <3>1
      <4>2. <<"answered", c, 1>> \in Places(i)
        BY <1>5, <1>7, <4>1, PlaceKinds
      <4> QED
        BY <2>3, <3>1, <4>2
    <3>2. CASE q # p
      <4>1. s \in Places(i)
        BY <1>7, <2>3, <3>2, PlaceKinds
      <4>2. s # <<"mailing", p, 0>> /\ s[1] # "answered"
        BY <2>3, <3>2
      <4> QED
        BY <4>1, <4>2
    <3> QED
      BY <3>0, <3>1, <3>2
  <2>4. ASSUME NEW d \in Connections, NEW j \in 1 .. Len(answers'[d]), i \in Rows(answers'[d][j]),
               s = <<"answered", d, j>>
        PROVE  \/ \E l \in 1 .. n - k : /\ s = <<"answered", c, l>>
                                        /\ g[s] = <<"answered", c, k + l>> /\ g[s] \in Places(i)
               \/ g[s] = s /\ s \in Places(i) /\ ~(s[1] = "answered" /\ s[2] = c)
    <3>1. CASE d = c
      <4>1. j \in 1 .. n - k /\ k + j \in 1 .. n /\ i \in Rows(answers[c][k + j])
        BY <1>6, <2>4, <3>1
      <4>2. <<"answered", c, k + j>> \in Places(i)
        BY <1>5, <4>1, PlaceKinds
      <4>3. g[s] = <<"answered", c, k + j>>
        BY <2>4, <3>1
      <4> QED
        BY <2>4, <3>1, <4>1, <4>2, <4>3
    <3>2. CASE d # c
      <4>1. s \in Places(i)
        BY <1>6, <2>4, <3>2, PlaceKinds
      <4>2. s # <<"mailing", p, 0>> /\ s[2] # c
        BY <2>4, <3>2
      <4> QED
        BY <4>1, <4>2
    <3> QED
      BY <3>1, <3>2
  <2> QED
    BY <2>1, <2>2, <2>3, <2>4
<1> HIDE DEF g
<1>10. g \in [Places(i)' -> Places(i)]
  <2>1. \A s \in Places(i)' : g[s] \in Places(i)
    BY <1>9
  <2> QED
    BY <2>1 DEF g
<1>11. ASSUME NEW s \in Places(i)', NEW t \in Places(i)', g[s] = g[t] PROVE s = t
  <2>1. \A j \in 1 .. n - k : k + j # 1
    BY <1>3, <1>5
  <2>2. CASE s = <<"mailing", p, 0>> /\ g[s] = <<"answered", c, 1>>
    BY <1>9, <1>11, <2>1, <2>2
  <2>3. CASE \E j \in 1 .. n - k : s = <<"answered", c, j>> /\ g[s] = <<"answered", c, k + j>>
    <3>1. PICK j \in 1 .. n - k : s = <<"answered", c, j>> /\ g[s] = <<"answered", c, k + j>>
      BY <2>3
    <3>2. CASE \E l \in 1 .. n - k : t = <<"answered", c, l>> /\ g[t] = <<"answered", c, k + l>>
      <4>1. PICK l \in 1 .. n - k : t = <<"answered", c, l>> /\ g[t] = <<"answered", c, k + l>>
        BY <3>2
      <4>2. k + l = k + j
        BY <1>11, <3>1, <4>1
      <4>3. l = j
        BY <1>3, <1>5, <4>2
      <4> QED
        BY <3>1, <4>1, <4>3
    <3>3. CASE ~\E l \in 1 .. n - k : t = <<"answered", c, l>> /\ g[t] = <<"answered", c, k + l>>
      BY <1>9, <1>11, <2>1, <3>1, <3>3
    <3> QED
      BY <3>2, <3>3
  <2>4. CASE g[s] = s /\ ~(s[1] = "answered" /\ s[2] = c)
    <3>1. ASSUME NEW l, s = <<"answered", c, l>> PROVE FALSE
      BY <2>4, <3>1
    <3>2. CASE t = <<"mailing", p, 0>> /\ g[t] = <<"answered", c, 1>>
      BY <1>11, <2>4, <3>1, <3>2
    <3>3. CASE \E l \in 1 .. n - k : t = <<"answered", c, l>> /\ g[t] = <<"answered", c, k + l>>
      BY <1>11, <2>4, <3>1, <3>3
    <3>4. CASE g[t] = t
      BY <1>11, <2>4, <3>4
    <3> QED
      BY <1>9, <3>2, <3>3, <3>4
  <2> QED
    BY <1>9, <2>2, <2>3, <2>4
<1>12. Asked(i) \subseteq Asked(i)' /\ ExistsInjection(Places(i), Asked(i))
  BY <1>2, <1>8, AskedGrows DEF Counted
<1> QED
  BY <1>10, <1>11, <1>12, Recount

(* A place in the rows of a process becomes one among the mailed. *)
LEMMA MailRowCounted ==
  ASSUME DistributionAssumption, DInv, Counted, NEW p \in Processes, MailRow(p)
  PROVE  Counted'
<1> DEFINE T == Rows(rows[p])
<1>1. PICK m \in T : /\ \A y \in T : m <= y
                     /\ attempts' = [attempts EXCEPT ![m] = @ + 1]
                     /\ rows' = [rows EXCEPT ![p].first = m + 1]
  <2>1. T \subseteq Nat /\ T # {}
    BY SettingFacts DEF MailRow, DInv, TypeOK, Rows, Ranges!Rows
  <2> HIDE DEF T
  <2>2. \E x \in T : \A y \in T : x <= y
    BY <2>1, Smallest
  <2> QED
    BY <2>2 DEF MailRow, T
<1>2. UNCHANGED <<setting, process_row_count, pc, process_idx, answers>>
  BY DEF MailRow
<1>3. rows \in [Processes -> DataRanges] /\ attempts \in [setting.ids -> Nat]
  BY DEF DInv, TypeOK
<1>4. m \in Nat /\ m \in setting.ids
  BY <1>1, SettingFacts DEF DInv, TypeOK, Rows
<1>5. /\ Rows(rows'[p]) \subseteq T \ {m}
      /\ \A q \in Processes \ {p} : rows'[q] = rows[q]
  <2>1. rows'[p] = [rows[p] EXCEPT !.first = m + 1]
    BY <1>1, <1>3
  <2>2. rows[p] \in DataRanges
    BY <1>3
  <2>3. rows'[p].first = m + 1 /\ rows'[p].second = rows[p].second
    BY <2>1, <2>2 DEF DataRanges
  <2>4. rows[p].first \in Nat /\ rows[p].second \in Nat
    BY <2>2 DEF DataRanges
  <2>5. rows[p].first <= m
    BY <1>1, <1>4, <2>4 DEF Rows, Ranges!Rows
  <2>6. ASSUME NEW y \in Rows(rows'[p]) PROVE y \in T \ {m}
    <3>1. y \in m + 1 .. rows[p].second /\ y \in setting.ids
      BY <1>2, <2>3, <2>6 DEF Rows, Ranges!Rows
    <3> QED
      BY <1>4, <2>4, <2>5, <3>1 DEF Rows, Ranges!Rows
  <2> QED
    BY <1>1, <1>3, <2>6
<1>6. \A x \in Processes : NotYet(x)' => NotYet(x)
  BY <1>2 DEF NotYet
<1> SUFFICES ASSUME NEW i \in setting.ids PROVE ExistsInjection(Places(i)', Asked(i)')
  BY <1>2 DEF Counted
<1>7. Asked(i) \subseteq Asked(i)' /\ ExistsInjection(Places(i), Asked(i))
  BY <1>2, <1>6, AskedGrows DEF Counted
<1>8. PICK a \in Nat : a = attempts[i]
  BY <1>3
<1>9. attempts'[i] = IF i = m THEN a + 1 ELSE a
  BY <1>1, <1>3, <1>8
<1> DEFINE new == <<"mailed", a + 1, 0>>
           from == <<"mailing", p, 0>>
<1>10. ASSUME NEW s, s \in Places(i)'
       PROVE  (s = new /\ i = m) \/ (s \in Places(i) /\ (i = m => s # from))
  <2>1. \/ \E k \in 1 .. attempts'[i] : s = <<"mailed", k, 0>>
        \/ \E q \in Processes : i \in Rows(rows'[q]) /\ s = <<"mailing", q, 0>>
        \/ \E d \in Connections : \E k \in 1 .. Len(answers'[d]) :
             i \in Rows(answers'[d][k]) /\ s = <<"answered", d, k>>
    BY <1>2, <1>10, NextPlaceKinds
  <2>2. ASSUME NEW k \in 1 .. attempts'[i], s = <<"mailed", k, 0>>
        PROVE  (s = new /\ i = m) \/ (s \in Places(i) /\ s # from)
    <3>1. (k = a + 1 /\ i = m) \/ k \in 1 .. attempts[i]
      BY <1>8, <1>9, <2>2
    <3>2. s # from
      BY <2>2
    <3> QED
      BY <2>2, <3>1, <3>2, PlaceKinds
  <2>3. ASSUME NEW q \in Processes, i \in Rows(rows'[q]), s = <<"mailing", q, 0>>
        PROVE  s \in Places(i) /\ (i = m => s # from)
    <3>1. i \in Rows(rows[q])
      BY <1>5, <2>3
    <3>2. i = m => q # p
      BY <1>5, <2>3
    <3> QED
      BY <2>3, <3>1, <3>2, PlaceKinds
  <2>4. CASE \E d \in Connections : \E k \in 1 .. Len(answers'[d]) :
               i \in Rows(answers'[d][k]) /\ s = <<"answered", d, k>>
    <3>1. s \in Places(i)
      BY <1>2, <2>4, PlaceKinds
    <3>2. s # from
      BY <2>4
    <3> QED
      BY <3>1, <3>2
  <2> QED
    BY <2>1, <2>2, <2>3, <2>4
<1>11. CASE i = m
  <2>1. from \in Places(i)
    <3>1. i \in Rows(rows[p])
      BY <1>11
    <3> QED
      BY <3>1, PlaceKinds
  <2>2. new \notin Places(i)
    <3> SUFFICES ASSUME new \in Places(i) PROVE FALSE
      OBVIOUS
    <3>1. \/ \E k \in 1 .. attempts[i] : new = <<"mailed", k, 0>>
          \/ \E q \in Processes : i \in Rows(rows[q]) /\ new = <<"mailing", q, 0>>
          \/ \E d \in Connections : \E k \in 1 .. Len(answers[d]) :
               i \in Rows(answers[d][k]) /\ new = <<"answered", d, k>>
      BY PlaceKinds
    <3>2. a + 1 \notin 1 .. attempts[i]
      BY <1>8
    <3> QED
      BY <3>1, <3>2
  <2> DEFINE g == [s \in Places(i)' |-> IF s = new THEN from ELSE s]
  <2>3. \A s \in Places(i)' : s = new \/ (s \in Places(i) /\ s # from)
    BY <1>10, <1>11
  <2> HIDE DEF new, from
  <2>4. g \in [Places(i)' -> Places(i)] /\ \A s, t \in Places(i)' : g[s] = g[t] => s = t
    BY <2>1, <2>3
  <2> HIDE DEF g
  <2> QED
    BY <1>7, <2>4, Recount
<1>12. CASE i # m
  <2>1. Places(i)' \subseteq Places(i)
    BY <1>10, <1>12
  <2> QED
    BY <1>7, <2>1, Fewer
<1> QED
  BY <1>11, <1>12

LEMMA StepCounted ==
  ASSUME DistributionAssumption, DInv, TreeInv, Counted, NEW p \in Processes, Step(p)
  PROVE  Counted'
<1>1. /\ pc \in [Processes -> {"none", "init", "start", "loop", "query", "read", "mail", "exit",
                               "aborted"}]
      /\ process_idx \in [Processes -> 1 .. MaxProcesses + 1]
  BY DEF DInv, TypeOK
<1>2. CASE Fork(p)
  <2>0. PICK idx \in 1 .. MaxProcesses : idx = process_idx[p]
    BY <1>2, ChildIsNew
  <2>1. PICK child \in Processes :
          idx = process_idx[p] /\ child = p \cup {idx} /\ child # p /\ pc[child] = "none"
    BY <1>2, <2>0, ChildIsNew
  <2>2. /\ pc[p] = "loop"
        /\ pc' = [pc EXCEPT ![child] = "query", ![p] = IF idx = 1 THEN "query" ELSE "loop"]
        /\ process_idx' = [process_idx EXCEPT ![child] = idx, ![p] = IF idx = 1 THEN @ ELSE @ + 1]
        /\ UNCHANGED <<setting, process_row_count, rows, answers, attempts>>
    BY <1>2, <2>1 DEF Fork
  <2>3. \A x \in Processes : NotYet(x)' => NotYet(x)
    <3> SUFFICES ASSUME NEW x \in Processes, NotYet(x)' PROVE NotYet(x)
      OBVIOUS
    <3>1. CASE x = child
      BY <2>1, <3>1 DEF NotYet
    <3>2. CASE x = p /\ idx = 1
      BY <2>1, <2>2, <3>2 DEF NotYet
    <3>3. CASE x = p /\ idx # 1
      <4>1. pc'[p] = "loop" /\ process_idx'[p] = idx + 1
        BY <1>1, <2>1, <2>2, <3>3
      <4> QED
        BY <3>3, <4>1 DEF NotYet
    <3>4. CASE x \notin {p, child}
      BY <1>1, <2>2, <3>4 DEF NotYet
    <3> QED
      BY <3>1, <3>2, <3>3, <3>4
  <2> QED
    BY <2>2, <2>3, CountedFrame
<1>3. CASE ForkFailure(p) \/ ChildDone(p)
  <2>1. /\ pc' = pc \/ (pc' = [pc EXCEPT ![p] = "loop"] /\ pc[p] = "mail")
        /\ process_idx' = [process_idx EXCEPT ![p] = @ + 1]
        /\ UNCHANGED <<setting, process_row_count, rows, answers, attempts>>
    BY <1>3 DEF ForkFailure, ChildDone, Goto
  <2>2. \A x \in Processes : NotYet(x)' => NotYet(x)
    BY <1>1, <2>1 DEF NotYet
  <2> QED
    BY <2>1, <2>2, CountedFrame
<1>4. CASE Exit(p) \/ Abort(p)
  <2>1. /\ pc' = [pc EXCEPT ![p] = "exit"] \/ pc' = [pc EXCEPT ![p] = "aborted"]
        /\ UNCHANGED <<setting, process_row_count, process_idx, rows, answers, attempts>>
    BY <1>4 DEF Exit, Abort, Finish, Goto
  <2>2. \A x \in Processes : NotYet(x)' => NotYet(x)
    BY <1>1, <2>1 DEF NotYet
  <2> QED
    BY <2>1, <2>2, CountedFrame
<1> QED
  BY <1>2, <1>3, <1>4, QueryCounted, NoRowsCounted, ReadCounted, MailRowCounted DEF Step

LEMMA ProgramCounted ==
  ASSUME DistributionAssumption, DInv, TreeInv, Counted, [ProgramNext]_programVars
  PROVE  Counted'
<1>1. CASE UNCHANGED vars
  BY <1>1, CountedFrame DEF vars, process, NotYet
<1>2. CASE GiveUp \/ Die \/ Connect
  <2>1. PICK s \in {"exit", "aborted", "start"} :
          /\ pc' = [pc EXCEPT ![main] = s] /\ (s = "start" => pc[main] = "init")
          /\ UNCHANGED <<setting, process_row_count, process_idx, rows, answers, attempts>>
    BY <1>2 DEF GiveUp, Die, Connect, Finish, Goto
  <2>2. \A x \in Processes : NotYet(x)' => NotYet(x)
    BY <2>1 DEF DInv, TypeOK, NotYet
  <2> QED
    BY <2>1, <2>2, CountedFrame
<1> QED
  BY <1>1, <1>2, StepKinds, PrepareCounted, StepCounted

-----------------------------------------------------------------------------
(* How many processes there are to ask for the range of an index. *)
AskersOf(idx) == {p \in Processes : AsksFor(p, idx)}

LEMMA AskersAtMost ==
  ASSUME NEW idx \in Nat \ {0}
  PROVE  /\ IsFiniteSet(AskersOf(idx)) /\ Cardinality(AskersOf(idx)) <= Askers(idx)
         /\ Cardinality(AskersOf(idx)) \in Nat /\ Askers(idx) \in Nat
<1>1. CASE idx = 1
  <2>1. IsFiniteSet(1 .. 1) /\ Cardinality(1 .. 1) = 1
    BY FS_Interval
  <2>2. IsFiniteSet(SUBSET (1 .. 1)) /\ Cardinality(SUBSET (1 .. 1)) = 2 ^ 1
    BY <2>1, FS_SUBSET
  <2>3. AskersOf(idx) \in SUBSET (SUBSET (1 .. 1))
    BY <1>1 DEF AskersOf, AsksFor
  <2>4. 2 ^ 1 = 2
    BY Z3
  <2> QED
    BY <1>1, <2>2, <2>3, <2>4, FS_Subset, FS_CardinalityType DEF Askers
<1>2. CASE idx # 1
  <2> DEFINE T == SUBSET (1 .. idx - 1)
             f == [p \in AskersOf(idx) |-> p \ {idx}]
  <2>1. IsFiniteSet(1 .. idx - 1) /\ Cardinality(1 .. idx - 1) = idx - 1
    <3>1. idx - 1 \in Int /\ ~(1 > idx - 1) /\ idx - 1 - 1 + 1 = idx - 1
      BY <1>2
    <3> QED
      BY <3>1, FS_Interval
  <2>2. IsFiniteSet(T) /\ Cardinality(T) = 2 ^ (idx - 1)
    BY <2>1, FS_SUBSET
  <2>3. ASSUME NEW p \in AskersOf(idx) PROVE idx \in p /\ p \ {idx} \in T
    <3>1. idx \in p /\ p \subseteq 1 .. idx
      BY <1>2, <2>3 DEF AskersOf, AsksFor
    <3>2. \A x \in 1 .. idx : x # idx => x \in 1 .. idx - 1
      OBVIOUS
    <3> QED
      BY <3>1, <3>2
  <2> HIDE DEF T
  <2>4. f \in [AskersOf(idx) -> T]
    BY <2>3
  <2>5. ASSUME NEW p \in AskersOf(idx), NEW q \in AskersOf(idx), f[p] = f[q] PROVE p = q
    <3>1. p = (p \ {idx}) \cup {idx} /\ q = (q \ {idx}) \cup {idx}
      BY <2>3
    <3> QED
      BY <2>5, <3>1
  <2> HIDE DEF f
  <2>6. f \in Injection(AskersOf(idx), T)
    BY <2>4, <2>5, Fun_IsInj
  <2>7. IsFiniteSet(AskersOf(idx)) /\ Cardinality(AskersOf(idx)) <= Cardinality(T)
    BY <2>2, <2>6, FS_Injection
  <2>8. Cardinality(AskersOf(idx)) \in Nat /\ Cardinality(T) \in Nat
    BY <2>2, <2>7, FS_CardinalityType
  <2>9. Askers(idx) = Cardinality(T)
    BY <1>2, <2>2 DEF Askers
  <2> QED
    BY <2>7, <2>8, <2>9
<1> QED
  BY <1>1, <1>2

(* All that is mailed of a row is owed to askers of one range. *)
LEMMA CopiesFollow ==
  ASSUME DistributionAssumption, TypeOK, Counted
  PROVE  CopiesBounded
<1> SUFFICES ASSUME NEW i \in setting.ids, attempts[i] > 0
             PROVE  \E idx \in 1 .. setting.process_count :
                      i \in Rows(process_data_range(idx)) /\ attempts[i] <= Askers(idx)
  BY DEF CopiesBounded
<1>1. PICK n \in Nat : n = attempts[i] /\ n > 0
  BY DEF TypeOK
<1>2. i \in Nat /\ setting.process_count \in Int /\ process_row_count + 1 \in Nat
  BY SettingFacts DEF TypeOK
<1>3. PICK f \in Injection(Places(i), Asked(i)) : TRUE
  BY Fun_ExistsInj DEF Counted
<1>4. f \in [Places(i) -> Asked(i)] /\ \A x, y \in Places(i) : f[x] = f[y] => x = y
  BY <1>3, Fun_InjectionProperties
<1>5. \A k \in 1 .. n : <<"mailed", k, 0>> \in Places(i)
  BY <1>1, PlaceKinds
<1> DEFINE h == [k \in 1 .. n |-> f[<<"mailed", k, 0>>]]
<1>6. h \in [1 .. n -> Asked(i)]
  BY <1>4, <1>5
<1>7. ASSUME NEW k \in 1 .. n, NEW l \in 1 .. n, h[k] = h[l] PROVE k = l
  <2>1. <<"mailed", k, 0>> = <<"mailed", l, 0>>
    BY <1>4, <1>5, <1>7
  <2> QED
    BY <2>1
<1> HIDE DEF h
<1>8. h[1] \in Asked(i)
  BY <1>1, <1>6
<1>9. PICK idx \in 1 .. setting.process_count :
        AsksFor(h[1], idx) /\ i \in Rows(process_data_range(idx))
  BY <1>8 DEF Asked, Wants
<1>10. ASSUME NEW p \in Asked(i) PROVE p \in AskersOf(idx)
  <2>1. PICK u \in 1 .. setting.process_count :
          AsksFor(p, u) /\ i \in Rows(process_data_range(u))
    BY DEF Asked, Wants
  <2>2. setting.process_count \in Nat \ {0}
    BY <1>2, <1>9
  <2>3. u = idx
    BY <1>2, <1>9, <2>1, <2>2, RangesApart DEF process_data_range
  <2> QED
    BY <2>1, <2>3 DEF Asked, AskersOf
<1>11. idx \in Nat \ {0}
  BY <1>2
<1>12. h \in Injection(1 .. n, AskersOf(idx))
  <2>1. h \in [1 .. n -> AskersOf(idx)]
    BY <1>6, <1>10
  <2> QED
    BY <1>7, <2>1, Fun_IsInj
<1>13. Cardinality(1 .. n) <= Cardinality(AskersOf(idx))
  BY <1>11, <1>12, AskersAtMost, FS_Injection
<1>14. Cardinality(1 .. n) = n
  BY <1>1, FS_Interval
<1>15. n <= Askers(idx)
  <2>1. PICK a \in Nat, b \in Nat : a = Cardinality(AskersOf(idx)) /\ b = Askers(idx) /\ a <= b
    BY <1>11, AskersAtMost
  <2> QED
    BY <1>13, <1>14, <2>1
<1> QED
  BY <1>1, <1>9, <1>15

LEMMA ProgramTreeInit ==
  ASSUME DistributionAssumption, ProgramInit
  PROVE  TreeInv /\ Counted
BY InitTree, InitCounted DEF ProgramInit

(* Whoever reads whose answer, whichever sessions are ended and whichever  *)
(* forks fail, no row is mailed more often than processes ask for the      *)
(* range it lies in: every answer on a connection of the pool is owed to a *)
(* query of its own (main.cpp:118-136 lets the children of a process ask   *)
(* again), and is used once.                                               *)
THEOREM CopiesAreBounded == ProgramSpec => []CopiesBounded
<1>1. ProgramInit => PInv /\ TreeInv /\ Counted
  BY DistributionAssumption, ProgramInitInv, ProgramTreeInit
<1>2. PInv /\ TreeInv /\ Counted /\ [ProgramNext]_programVars => PInv' /\ TreeInv' /\ Counted'
  BY DistributionAssumption, ProgramStepInv, ProgramTree, ProgramCounted DEF PInv
<1>3. PInv /\ Counted => CopiesBounded
  BY DistributionAssumption, CopiesFollow DEF PInv, DInv
<1> QED
  BY <1>1, <1>2, <1>3, PTL DEF ProgramSpec

-----------------------------------------------------------------------------
(* The first range.  The pool has given its first two connections to main  *)
(* by the time of the fork, so that main and its first child, which ask    *)
(* for the range both, have the third.                                     *)
third == 3
First == process_data_range(1)

Asking(p) ==
  pc[p] \in {"query", "read"} /\ process_idx[p] = 1 /\ taken[p] = 2 /\ unread[p] = {1}

(* Before the loop, *)
EarlyInv == stage # "loop" =>
  /\ process_idx[main] = 1 /\ pc[main] \in {"init", "start", "loop", "exit", "aborted"}
  /\ pc[main] \in {"init", "start", "loop"} => answers[third] = <<>>
  /\ pc[main] \in {"init", "start"} => taken[main] = 0
  /\ pc[main] \in {"start", "loop"} => open = Connections
  /\ pc[main] = "loop" => taken[main] = 2 /\ unread[main] = {1}

(* ... in it, main is over before it began, *)
Over ==
  /\ \A p \in Processes \ {main} : pc[p] = "none"
  /\ pc[main] \in {"init", "start", "exit", "aborted"} /\ process_idx[main] = 1

(* ... or the two of them wait for an answer that nobody else can take,    *)
Waiting ==
  /\ \A p \in Processes \ {main, {1}} : pc[p] = "none"
  /\ open = Connections
  /\ \A k \in 1 .. Len(answers[third]) : answers[third][k] = First
  /\ \/ /\ pc[main] = "loop" /\ process_idx[main] = 1 /\ taken[main] = 2 /\ unread[main] = {1}
        /\ pc[{1}] = "none"
     \/ Asking(main) /\ Asking({1})

(* ... or whoever had the answer first mails what is not mailed yet.       *)
Mailed ==
  \/ \E w \in Processes : pc[w] = "aborted"
  \/ \A i \in Rows(First) :
       attempts[i] > 0 \/ \E w \in Processes : pc[w] = "mail" /\ i \in Rows(rows[w])

FirstInv == stage = "loop" /\ setting.process_count > 0 /\ 1 \notin fork_failed /\ third \notin torn
              => Over \/ Waiting \/ Mailed

LEMMA FirstChild ==
  ASSUME DistributionAssumption, TypeOK, setting.process_count > 0
  PROVE  main \in Processes /\ {1} \in Processes /\ {1} # main /\ MaxProcesses >= 1
<1>1. MaxProcesses \in Nat /\ MaxProcesses >= 1
  BY SettingFacts DEF TypeOK
<1>2. 1 \in 1 .. MaxProcesses
  BY <1>1
<1> QED
  BY <1>1, <1>2 DEF Processes, main

LEMMA Third ==
  ASSUME DistributionAssumption
  PROVE  third \in Connections /\ third # 1 /\ (2 % POOL_COUNT) + 1 = third
         /\ (0 % POOL_COUNT) + 1 = 1
<1>1. POOL_COUNT \in Nat /\ POOL_COUNT >= 3
  BY DEF DistributionAssumption
<1>2. 2 % POOL_COUNT = 2 /\ 0 % POOL_COUNT = 0
  BY <1>1, Z3
<1> QED
  BY <1>1, <1>2 DEF third, Connections

LEMMA AskingTakes ==
  ASSUME DistributionAssumption, NEW p, Asking(p)
  PROVE  connection(p) = third /\ connection(p) \notin unread[p]
BY Third DEF Asking, connection

(* The steps before the loop. *)
LEMMA EarlyStep ==
  ASSUME DistributionAssumption, PInv, EarlyInv, [ProgramNext]_programVars
  PROVE  EarlyInv'
<1>1. CASE stage = "loop"
  BY <1>1 DEF EarlyInv, ProgramNext, programVars, startVars, StartStep, hookSIGINT,
              waitForUserInterrupt, Shutdown, SIGINT, WakeUp, setEndpoint, start_parsing,
              ReadDbConf, ReadServerConf, MakePool, ComputeRange, Accept, Reach, LoopStep
<1>2. CASE stage # "loop"
  <2>1. /\ pc \in [Processes -> {"none", "init", "start", "loop", "query", "read", "mail", "exit",
                                 "aborted"}]
        /\ taken \in [Processes -> Nat] /\ unread \in [Processes -> SUBSET Connections]
        /\ main \in Processes
    BY MainIs DEF PInv, DInv, TypeOK
  <2>2. CASE UNCHANGED vars
    BY <1>2, <2>2 DEF vars, process, EarlyInv
  <2>3. CASE GiveUp \/ Die
    BY <1>2, <2>1, <2>3 DEF GiveUp, Die, Finish, Goto, EarlyInv
  <2>4. CASE Connect
    BY <1>2, <2>1, <2>4 DEF Connect, Goto, EarlyInv
  <2>5. CASE Prepare
    <3>1. connection(main) = 1
      BY <1>2, <2>5, Third DEF Prepare, EarlyInv, connection
    <3> QED
      BY <1>2, <2>1, <2>5, <3>1 DEF Prepare, Goto, EarlyInv
  <2> QED
    BY <1>2, <2>2, <2>3, <2>4, <2>5, StepKinds
<1> QED
  BY <1>1, <1>2

(* The two, and nobody else, while they wait. *)
LEMMA WaitingStep ==
  ASSUME DistributionAssumption, DInv, setting.process_count > 0, Waiting,
         NEW p \in Processes, Step(p), third \notin torn
  PROVE  1 \in fork_failed' \/ third \in torn' \/ Waiting' \/ Mailed'
<1>1. /\ pc \in [Processes -> {"none", "init", "start", "loop", "query", "read", "mail", "exit",
                               "aborted"}]
      /\ process_idx \in [Processes -> 1 .. MaxProcesses + 1]
      /\ taken \in [Processes -> Nat] /\ unread \in [Processes -> SUBSET Connections]
      /\ rows \in [Processes -> DataRanges] /\ answers \in [Connections -> Seq(DataRanges)]
      /\ main \in Processes /\ {1} \in Processes /\ {1} # main /\ setting.process_count \in Int
  <2>1. main \in Processes /\ {1} \in Processes /\ {1} # main
    BY FirstChild DEF DInv
  <2>2. setting.process_count \in Int
    BY SettingFacts DEF DInv, TypeOK
  <2> QED
    BY <2>1, <2>2 DEF DInv, TypeOK
<1>2. pc[p] \notin {"none", "init", "start", "exit", "aborted"}
  BY DEF Step, Fork, ForkFailure, Query, QueryRefused, Read, Tear, ReadFails, MailRow, ChildDone,
         Exit, Abort
<1>3. p \in {main, {1}}
  BY <1>2 DEF Waiting
<1>4. setting' = setting /\ process_row_count' = process_row_count
  BY DEF Step, Fork, ForkFailure, Query, QueryRefused, Read, Tear, ReadFails, MailRow, ChildDone,
         Exit, Abort
<1>5. First' = First
  BY <1>4 DEF First, process_data_range, Ranges!get_data_range, Ranges!abs
<1>6. CASE pc[main] = "loop" /\ process_idx[main] = 1 /\ taken[main] = 2 /\ unread[main] = {1}
           /\ pc[{1}] = "none"
  <2>1. p = main
    BY <1>2, <1>3, <1>6
  <2>2. Fork(p) \/ ForkFailure(p)
    BY <1>1, <1>6, <2>1 DEF Step, Query, QueryRefused, Read, Tear, ReadFails, MailRow, ChildDone,
                            Exit, Abort
  <2>3. CASE ForkFailure(p)
    BY <1>6, <2>1, <2>3 DEF ForkFailure
  <2>4. CASE Fork(p)
    <3>1. main \cup {1} = {1}
      BY DEF main
    <3>2. /\ pc' = [pc EXCEPT ![{1}] = "query", ![main] = "query"]
          /\ process_idx' = [process_idx EXCEPT ![{1}] = 1, ![main] = @]
          /\ taken' = [taken EXCEPT ![{1}] = taken[main]]
          /\ unread' = [unread EXCEPT ![{1}] = unread[main]]
          /\ UNCHANGED <<answers, open>>
      BY <1>6, <2>1, <2>4, <3>1 DEF Fork
    <3>3. Asking(main)' /\ Asking({1})'
      BY <1>1, <1>6, <3>2 DEF Asking
    <3>4. \A x \in Processes \ {main, {1}} : pc'[x] = "none"
      BY <1>1, <3>2 DEF Waiting
    <3> QED
      BY <1>5, <3>2, <3>3, <3>4 DEF Waiting, third
  <2> QED
    BY <2>2, <2>3, <2>4
<1>7. CASE Asking(main) /\ Asking({1})
  <2>1. Asking(p) /\ connection(p) = third /\ third \notin unread[p] /\ third \in open
    BY <1>3, <1>7, AskingTakes, Third DEF Waiting
  <2>2. CASE Query(p)
    <3>1. /\ answers' = [answers EXCEPT ![third] = Append(@, First)]
          /\ pc' = [pc EXCEPT ![p] = "read"]
          /\ UNCHANGED <<process_idx, taken, unread, open>>
      BY <2>1, <2>2 DEF Query, Goto, Asking, First
    <3>2. First \in DataRanges
      BY <1>1, ProcessRange DEF First, DInv
    <3>3. \A k \in 1 .. Len(answers'[third]) : answers'[third][k] = First
      <4>1. answers[third] \in Seq(DataRanges) /\ answers'[third] = Append(answers[third], First)
        BY <1>1, <3>1, Third
      <4>2. /\ Len(answers'[third]) = Len(answers[third]) + 1 /\ Len(answers[third]) \in Nat
            /\ \A j \in 1 .. Len(answers[third]) : answers'[third][j] = answers[third][j]
            /\ answers'[third][Len(answers[third]) + 1] = First
        BY <3>2, <4>1, AppendProperties, LenProperties
      <4> QED
        BY <4>2 DEF Waiting
    <3>4. Asking(main)' /\ Asking({1})'
      BY <1>1, <1>3, <1>7, <3>1 DEF Asking
    <3>5. \A x \in Processes \ {main, {1}} : pc'[x] = "none"
      BY <1>1, <1>3, <3>1 DEF Waiting
    <3> QED
      BY <1>5, <3>1, <3>3, <3>4, <3>5 DEF Waiting, third
  <2>3. CASE Read(p)
    <3>1. answers[third] # <<>> /\ pc'[p] = "mail" /\ rows'[p] = Head(answers[third])
      BY <1>1, <2>1, <2>3 DEF Read, Mail, Goto
    <3>2. answers[third] \in Seq(DataRanges)
      BY <1>1, Third
    <3>3. Head(answers[third]) = answers[third][1] /\ 1 \in 1 .. Len(answers[third])
      BY <3>1, <3>2, HeadTailProperties, LenProperties, EmptySeq
    <3>4. rows'[p] = First
      BY <3>1, <3>3 DEF Waiting
    <3>5. Rows(First)' = Rows(rows[p])'
      BY <1>5, <3>4 DEF Rows, Ranges!Rows
    <3> QED
      BY <3>1, <3>5 DEF Mailed
  <2>4. CASE Tear(p)
    BY <2>1, <2>4 DEF Tear
  <2>5. Query(p) \/ Read(p) \/ Tear(p)
    BY <2>1 DEF Step, Fork, ForkFailure, QueryRefused, ReadFails, MailRow, ChildDone, Exit, Abort,
                Asking
  <2> QED
    BY <2>2, <2>3, <2>4, <2>5
<1> QED
  BY <1>6, <1>7 DEF Waiting

(* What is to be mailed is, unless a process dies over it. *)
LEMMA MailedStep ==
  ASSUME DistributionAssumption, DInv, TreeInv, Mailed, NEW p \in Processes, Step(p)
  PROVE  Mailed'
<1>1. /\ pc \in [Processes -> {"none", "init", "start", "loop", "query", "read", "mail", "exit",
                               "aborted"}]
      /\ rows \in [Processes -> DataRanges] /\ attempts \in [setting.ids -> Nat]
  BY DEF DInv, TypeOK
<1>2. setting' = setting /\ process_row_count' = process_row_count
  BY DEF Step, Fork, ForkFailure, Query, QueryRefused, Read, Tear, ReadFails, MailRow, ChildDone,
         Exit, Abort
<1>3. Rows(First)' = Rows(First)
  BY <1>2 DEF First, process_data_range, Ranges!get_data_range, Ranges!abs, Rows, Ranges!Rows
<1>4. pc[p] \notin {"none", "aborted"}
  BY DEF Step, Fork, ForkFailure, Query, QueryRefused, Read, Tear, ReadFails, MailRow, ChildDone,
         Exit, Abort
<1>5. \A w \in Processes : pc[w] # "none" /\ w # p => pc'[w] = pc[w] /\ rows'[w] = rows[w]
  <2>1. CASE Fork(p)
    <3>1. pc[p \cup {process_idx[p]}] = "none"
      BY <2>1, ChildIsNew
    <3> QED
      BY <1>1, <2>1, <3>1 DEF Fork
  <2>2. CASE ~Fork(p)
    BY <1>1, <2>2 DEF Step, ForkFailure, Query, QueryRefused, Read, Tear, ReadFails, MailRow,
                      ChildDone, Exit, Abort, Mail, Goto, Finish
  <2> QED
    BY <2>1, <2>2
<1>6. CASE \E w \in Processes : pc[w] = "aborted"
  BY <1>4, <1>5, <1>6 DEF Mailed
<1>7. CASE ~\E w \in Processes : pc[w] = "aborted"
  <2>1. ASSUME NEW i \in Rows(First)
        PROVE  attempts[i] > 0 \/ \E w \in Processes : pc[w] = "mail" /\ i \in Rows(rows[w])
    BY <1>7 DEF Mailed
  <2>2. \A w \in Processes : \A i : i \in Rows(rows[w]) /\ w # p /\ pc[w] = "mail"
          => pc'[w] = "mail" /\ i \in Rows(rows'[w])
    BY <1>5
  <2>3. CASE pc[p] # "mail"
    <3>1. attempts' = attempts
      BY <2>3 DEF Step, Fork, ForkFailure, Query, QueryRefused, Read, Tear, ReadFails, MailRow,
                  ChildDone, Exit, Abort
    <3>2. \A i \in Rows(First) :
            attempts'[i] > 0 \/ \E w \in Processes : pc'[w] = "mail" /\ i \in Rows(rows'[w])
      BY <2>1, <2>2, <2>3, <3>1
    <3> QED
      BY <1>2, <1>3, <3>2 DEF Mailed, Rows, Ranges!Rows
  <2>4. CASE Abort(p)
    <3>1. pc'[p] = "aborted"
      BY <1>1, <2>4 DEF Abort, Goto
    <3> QED
      BY <3>1 DEF Mailed
  <2>5. CASE ChildDone(p)
    <3>1. \A i \in Rows(First) :
            attempts'[i] > 0 \/ \E w \in Processes : pc'[w] = "mail" /\ i \in Rows(rows'[w])
      <4>1. attempts' = attempts /\ Rows(rows[p]) = {}
        BY <2>5 DEF ChildDone
      <4> QED
        BY <2>1, <2>2, <4>1
    <3> QED
      BY <1>2, <1>3, <3>1 DEF Mailed, Rows, Ranges!Rows
  <2>6. CASE MailRow(p)
    <3> DEFINE T == Rows(rows[p])
    <3>1. PICK m \in T : /\ \A y \in T : m <= y
                         /\ attempts' = [attempts EXCEPT ![m] = @ + 1]
                         /\ rows' = [rows EXCEPT ![p].first = m + 1]
      <4>1. T \subseteq Nat /\ T # {}
        BY <2>6, SettingFacts DEF MailRow, DInv, TypeOK, Rows, Ranges!Rows
      <4> HIDE DEF T
      <4>2. \E x \in T : \A y \in T : x <= y
        BY <4>1, Smallest
      <4> QED
        BY <2>6, <4>2 DEF MailRow, T
    <3>2. m \in Nat /\ m \in setting.ids /\ setting.ids \subseteq Nat
      BY SettingFacts DEF DInv, TypeOK, Rows
    <3>3. pc' = pc /\ rows' = [rows EXCEPT ![p] = [rows[p] EXCEPT !.first = m + 1]]
      BY <2>6, <3>1 DEF MailRow
    <3>4. rows'[p].first = m + 1 /\ rows'[p].second = rows[p].second
      BY <1>1, <3>3 DEF DataRanges
    <3>5. ASSUME NEW i \in T, i # m PROVE i \in Rows(rows'[p])
      <4>1. i \in Nat /\ i \in setting.ids /\ m <= i /\ i <= rows[p].second
        BY <1>1, <3>1, <3>2 DEF Rows, Ranges!Rows, DataRanges
      <4>2. rows[p].second \in Nat
        BY <1>1 DEF DataRanges
      <4>3. i \in m + 1 .. rows[p].second
        BY <3>2, <3>5, <4>1, <4>2
      <4> QED
        BY <3>4, <4>1, <4>3 DEF Rows, Ranges!Rows
    <3>6. /\ attempts'[m] > 0
          /\ \A i \in setting.ids : attempts[i] > 0 => attempts'[i] > 0
      BY <1>1, <3>1, <3>2
    <3>7. ASSUME NEW i \in Rows(First)
          PROVE  attempts'[i] > 0 \/ \E w \in Processes : pc'[w] = "mail" /\ i \in Rows(rows'[w])
      <4>1. i \in setting.ids
        BY DEF Rows
      <4>2. CASE attempts[i] > 0
        BY <3>6, <4>1, <4>2
      <4>3. CASE ~(attempts[i] > 0)
        <5>1. PICK w \in Processes : pc[w] = "mail" /\ i \in Rows(rows[w])
          BY <2>1, <4>3
        <5>2. CASE w # p
          BY <2>2, <5>1, <5>2
        <5>3. CASE w = p /\ i = m
          BY <3>6, <5>3
        <5>4. CASE w = p /\ i # m
          BY <3>3, <3>5, <5>1, <5>4
        <5> QED
          BY <5>2, <5>3, <5>4
      <4> QED
        BY <4>2, <4>3
    <3> QED
      BY <1>2, <1>3, <3>7 DEF Mailed, Rows, Ranges!Rows
  <2>7. pc[p] # "mail" \/ Abort(p) \/ ChildDone(p) \/ MailRow(p)
    BY DEF Step, Fork, ForkFailure, Query, QueryRefused, Read, Tear, ReadFails, Exit
  <2> QED
    BY <2>3, <2>4, <2>5, <2>6, <2>7
<1> QED
  BY <1>6, <1>7

LEMMA FirstStep ==
  ASSUME DistributionAssumption, PInv, TreeInv, EarlyInv, FirstInv, [ProgramNext]_programVars
  PROVE  FirstInv'
<1> SUFFICES ASSUME stage' = "loop", setting'.process_count > 0, 1 \notin fork_failed',
                    third \notin torn'
             PROVE  (Over \/ Waiting \/ Mailed)'
  BY DEF FirstInv
<1>1. CASE stage # "loop"
  <2>1. UNCHANGED vars
    BY <1>1 DEF ProgramNext, programVars, startVars, StartStep, hookSIGINT, waitForUserInterrupt,
                Shutdown, SIGINT, WakeUp, setEndpoint, start_parsing, ReadDbConf, ReadServerConf,
                MakePool, ComputeRange, Accept, Reach, LoopStep
  <2>2. Over' \/ Waiting'
    <3>1. \A p \in Processes \ {main} : pc[p] = "none"
      BY <1>1 DEF PInv, StageInv
    <3>2. CASE pc[main] # "loop"
      <4>1. Over
        BY <1>1, <3>1, <3>2 DEF EarlyInv, Over
      <4> QED
        BY <2>1, <4>1 DEF vars, process, Over
    <3>3. CASE pc[main] = "loop"
      <4>1. setting.process_count > 0
        BY <2>1 DEF vars
      <4>2. {1} \in Processes /\ {1} # main
        BY <4>1, FirstChild DEF PInv, DInv
      <4>3. 1 .. Len(answers[third]) = {}
        <5>1. Len(<<>>) = 0
          BY EmptySeq
        <5> QED
          BY <1>1, <3>3, <5>1 DEF EarlyInv
      <4>4. Waiting
        BY <1>1, <3>1, <3>3, <4>2, <4>3 DEF EarlyInv, Waiting
      <4> QED
        BY <2>1, <4>4 DEF vars, process, Waiting, Asking, First, process_data_range,
                          Ranges!get_data_range, Ranges!abs, third
    <3> QED
      BY <3>2, <3>3
  <2> QED
    BY <2>2
<1>2. CASE stage = "loop" /\ UNCHANGED vars
  <2>1. Over \/ Waiting \/ Mailed
    BY <1>2 DEF FirstInv, vars
  <2> QED
    BY <1>2, <2>1 DEF vars, process, Over, Waiting, Asking, Mailed, First, process_data_range,
                      Ranges!get_data_range, Ranges!abs, third, Rows, Ranges!Rows
<1>3. ASSUME NEW p \in Processes, stage = "loop", Step(p) PROVE (Over \/ Waiting \/ Mailed)'
  <2>1. setting.process_count > 0 /\ 1 \notin fork_failed /\ third \notin torn
    BY <1>3 DEF Step, Fork, ForkFailure, Query, QueryRefused, Read, Tear, ReadFails, MailRow,
                ChildDone, Exit, Abort
  <2>2. CASE Over
    BY <1>3, <2>2 DEF Over, Step, Fork, ForkFailure, Query, QueryRefused, Read, Tear, ReadFails,
                      MailRow, ChildDone, Exit, Abort
  <2>3. CASE Waiting
    BY <1>3, <2>1, <2>3, WaitingStep DEF PInv
  <2>4. CASE Mailed
    BY <1>3, <2>4, MailedStep DEF PInv
  <2> QED
    BY <1>3, <2>1, <2>2, <2>3, <2>4 DEF FirstInv
<1> QED
  BY <1>1, <1>2, <1>3, StepKinds

(* When everybody has come to an end, no fork failed for it and main and   *)
(* its first child did not tear each other's answers, the first range has  *)
(* been mailed, a share of one row too: the two ask for it on the one      *)
(* connection they both took third (main.cpp:118-136 on the pool of        *)
(* pg_backend.cpp), and nobody ends a session before one of them has its   *)
(* rows.                                                                   *)
THEOREM FirstRangeIsMailed == ProgramSpec => []FirstRangeMailed
<1>1. ProgramInit => PInv /\ TreeInv /\ EarlyInv /\ FirstInv
  <2>1. ASSUME ProgramInit PROVE EarlyInv /\ FirstInv
    <3>1. answers[third] = <<>>
      BY <2>1, DistributionAssumption, Third DEF ProgramInit, Init
    <3> QED
      BY <2>1, <3>1, MainIs DEF ProgramInit, Init, EarlyInv, FirstInv
  <2> QED
    BY <2>1, DistributionAssumption, ProgramInitInv, ProgramTreeInit
<1>2. PInv /\ TreeInv /\ EarlyInv /\ FirstInv /\ [ProgramNext]_programVars
        => PInv' /\ TreeInv' /\ EarlyInv' /\ FirstInv'
  BY DistributionAssumption, ProgramStepInv, ProgramTree, EarlyStep, FirstStep DEF PInv
<1>3. PInv /\ EarlyInv /\ FirstInv => FirstRangeMailed
  <2> SUFFICES ASSUME PInv, EarlyInv, FirstInv,
                      \A p \in Processes : pc[p] \in {"none", "exit"},
                      0 < setting.process_count, setting.process_count < process_idx[main],
                      1 \notin fork_failed, third \notin torn, NEW i \in Rows(process_data_range(1))
               PROVE  attempts[i] > 0
    BY DEF FirstRangeMailed, third
  <2>1. setting.process_count \in Int
    BY DistributionAssumption, SettingFacts DEF PInv, DInv, TypeOK
  <2>2. process_idx[main] # 1
    BY <2>1
  <2>3. stage = "loop"
    BY <2>2 DEF EarlyInv
  <2>4. Mailed
    BY <2>1, <2>2, <2>3 DEF FirstInv, Over, Waiting, Asking
  <2> QED
    BY <2>4 DEF Mailed, First
<1> QED
  BY <1>1, <1>2, <1>3, PTL DEF ProgramSpec
===============================================================================
