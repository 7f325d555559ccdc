---------------------------- MODULE DataRangeProofs ----------------------------
(***************************************************************************)
(* Proofs about DataRange for every row count and every number of servers  *)
(* or processes.                                                           *)
(***************************************************************************)
EXTENDS DataRange, TLAPS, SequenceTheorems

(* What the integer division leaves. *)
LEMMA Division ==
  ASSUME NEW n \in Nat, NEW k \in Nat \ {0}
  PROVE  n \div k \in Nat /\ k * (n \div k) <= n /\ n < k * (n \div k) + k
  BY SMT

(* Products of naturals: they are naturals, and grow by at least one factor *)
(* from one multiple to the next.                                           *)
LEMMA Product ==
  ASSUME NEW a \in Nat, NEW r \in Nat
  PROVE  a * r \in Nat /\ (a + 1) * r = a * r + r
  BY SMT

LEMMA ProductMonotone ==
  ASSUME NEW a \in Nat, NEW b \in Nat, NEW r \in Nat, a <= b
  PROVE  a * r <= b * r
  BY SMT

(* The range of an order number that is in use: the bounds are those of    *)
(* the order-th piece, the clipping has nothing to clip, and every value   *)
(* the function computes lies between 0 and the row count.                 *)
LEMMA RangeOf ==
  ASSUME NEW n \in Nat, NEW k \in Nat \ {0}, NEW o \in 1 .. k
  PROVE  /\ get_data_range(n, k, o) =
              [first |-> (o - 1) * (n \div k) + 1, second |-> o * (n \div k)]
         /\ n \div k \in 0 .. n
         /\ (o - 1) * (n \div k) \in 0 .. n /\ o * (n \div k) \in 0 .. n
<1> DEFINE r == n \div k
<1>1. r \in Nat /\ k * r <= n
  BY Division
<1>2. (o - 1) * r \in Nat /\ o * r = (o - 1) * r + r
  BY <1>1, Product
<1>3. o * r <= n
  <2>1. o * r <= k * r
    BY <1>1, ProductMonotone
  <2> QED
    BY <2>1, <1>1, <1>2
<1>4. abs(o - 1) = o - 1
  BY DEF abs
<1>5. (o - 1) * r + r <= n
  BY <1>2, <1>3
<1> HIDE DEF r
<1> QED
  BY <1>1, <1>2, <1>3, <1>4, <1>5 DEF get_data_range, r

(* The rows of an order number. *)
LEMMA RowsOf ==
  ASSUME NEW n \in Nat, NEW k \in Nat \ {0}, NEW o \in 1 .. k
  PROVE  Rows(get_data_range(n, k, o)) = (o - 1) * (n \div k) + 1 .. o * (n \div k)
<1>1. get_data_range(n, k, o) = [first |-> (o - 1) * (n \div k) + 1, second |-> o * (n \div k)]
  BY RangeOf
<1> QED
  BY <1>1 DEF Rows

(* Two order numbers have no row in common. *)
LEMMA Disjoint ==
  ASSUME NEW n \in Nat, NEW k \in Nat \ {0}, NEW o \in 1 .. k, NEW p \in 1 .. k, o # p
  PROVE  Rows(get_data_range(n, k, o)) \cap Rows(get_data_range(n, k, p)) = {}
<1> DEFINE r == n \div k
<1>1. r \in Nat
  BY Division
<1>2. /\ Rows(get_data_range(n, k, o)) = (o - 1) * r + 1 .. o * r
      /\ Rows(get_data_range(n, k, p)) = (p - 1) * r + 1 .. p * r
  BY RowsOf
<1> HIDE DEF r
<1>3. o * r \in Nat /\ p * r \in Nat /\ (o - 1) * r \in Nat /\ (p - 1) * r \in Nat
  BY <1>1, Product
<1>4. CASE o < p
  <2>1. o * r <= (p - 1) * r
    BY <1>1, <1>4, ProductMonotone
  <2> QED
    BY <1>2, <1>3, <2>1
<1>5. CASE p < o
  <2>1. p * r <= (o - 1) * r
    BY <1>1, <1>5, ProductMonotone
  <2> QED
    BY <1>2, <1>3, <2>1
<1> QED
  BY <1>4, <1>5

(* A row in front of the remainder belongs to an order number. *)
LEMMA Covered ==
  ASSUME NEW n \in Nat, NEW k \in Nat \ {0}, NEW row \in 1 .. n, row <= n - k + 1
  PROVE  \E o \in 1 .. k : row \in Rows(get_data_range(n, k, o))
<1> DEFINE r == n \div k
           q == (row - 1) \div r
           o == q + 1
<1>1. r \in Nat /\ n < k * r + k
  BY Division
<1>2. row <= k * r
  BY <1>1, Product
<1>3. r # 0
  BY <1>1, <1>2
<1> HIDE DEF r
<1>4. q \in Nat /\ r * q <= row - 1 /\ row - 1 < r * q + r
  <2>1. row - 1 \in Nat /\ r \in Nat \ {0}
    BY <1>1, <1>3
  <2> QED
    BY <2>1, Division
<1> HIDE DEF q
<1>5. o \in Nat /\ o * r = q * r + r /\ r * q = q * r /\ q * r \in Nat
  BY <1>1, <1>4, Product
<1>6. o <= k
  <2>1. SUFFICES ASSUME k <= q PROVE FALSE
    BY <1>4
  <2>2. k * r <= q * r
    BY <2>1, <1>1, <1>4, ProductMonotone
  <2>3. k * r \in Nat
    BY <1>1, Product
  <2> QED
    BY <1>2, <1>4, <1>5, <2>2, <2>3
<1>7. o \in 1 .. k
  BY <1>4, <1>6
<1>8. Rows(get_data_range(n, k, o)) = (o - 1) * r + 1 .. o * r
  BY <1>7, RowsOf DEF r
<1>9. o - 1 = q
  BY <1>4
<1>10. row \in q * r + 1 .. o * r
  <2> DEFINE a == q * r
             b == o * r
  <2>1. a \in Nat /\ a <= row - 1 /\ row - 1 < a + r /\ b = a + r
    BY <1>4, <1>5
  <2> HIDE DEF a, b
  <2>2. row \in a + 1 .. b
    BY <2>1, <1>1
  <2> QED
    BY <2>2 DEF a, b
<1> QED
  BY <1>7, <1>8, <1>9, <1>10

-----------------------------------------------------------------------------
(* What the loop has done so far: the ranges of the order numbers behind it. *)
LoopInv ==
  /\ row_count \in Nat /\ items_count \in Int /\ row_count \in RowCounts /\ items_count \in ItemCounts
  /\ order_number \in Nat \ {0} /\ thrown \in BOOLEAN
  /\ ranges \in Seq([first: 1 .. row_count + 1, second: 0 .. row_count])
  /\ Len(ranges) = order_number - 1
  /\ ranges # <<>> => items_count > 0 /\ Len(ranges) <= items_count
  /\ \A i \in 1 .. Len(ranges) : ranges[i] = get_data_range(row_count, items_count, i)

LEMMA LoopInvHolds == Spec => []LoopInv
<1>1. Init => LoopInv
  <2> SUFFICES ASSUME Init PROVE LoopInv
    OBVIOUS
  <2>1. ranges \in Seq([first: 1 .. row_count + 1, second: 0 .. row_count]) /\ Len(ranges) = 0
    BY EmptySeq DEF Init
  <2>2. row_count \in Nat /\ items_count \in Int
    BY CountsAssumption DEF Init
  <2>3. \A i \in 1 .. Len(ranges) : ranges[i] = get_data_range(row_count, items_count, i)
    BY <2>1
  <2>4. /\ row_count \in RowCounts /\ items_count \in ItemCounts
        /\ order_number = 1 /\ thrown \in BOOLEAN /\ ranges = <<>>
    BY DEF Init
  <2> QED
    BY <2>1, <2>2, <2>3, <2>4 DEF LoopInv
<1>2. LoopInv /\ [Next]_vars => LoopInv'
  <2> SUFFICES ASSUME LoopInv, [Next]_vars PROVE LoopInv'
    OBVIOUS
  <2>1. CASE NextRange
    <3> DEFINE range == get_data_range(row_count, items_count, order_number)
    <3>1. items_count \in Nat \ {0} /\ order_number \in 1 .. items_count
      BY <2>1 DEF NextRange, InvalidArguments, LoopInv
    <3>2. range \in [first: 1 .. row_count + 1, second: 0 .. row_count]
      <4> DEFINE r == row_count \div items_count
      <4>1. range = [first |-> (order_number - 1) * r + 1, second |-> order_number * r]
        BY <3>1, RangeOf DEF LoopInv
      <4>2. (order_number - 1) * r \in 0 .. row_count /\ order_number * r \in 0 .. row_count
        BY <3>1, RangeOf DEF LoopInv
      <4> HIDE DEF r, range
      <4>3. (order_number - 1) * r + 1 \in 1 .. row_count + 1
        BY <4>2 DEF LoopInv
      <4> QED
        BY <4>1, <4>2, <4>3
    <3> HIDE DEF range
    <3>6. ranges \in Seq([first: 1 .. row_count + 1, second: 0 .. row_count])
      BY DEF LoopInv
    <3>3. /\ ranges' \in Seq([first: 1 .. row_count + 1, second: 0 .. row_count])
          /\ Len(ranges') = Len(ranges) + 1
          /\ \A i \in 1 .. Len(ranges) : ranges'[i] = ranges[i]
          /\ ranges'[Len(ranges) + 1] = range
      BY <2>1, <3>2, <3>6, AppendProperties DEF NextRange, range
    <3>4. UNCHANGED <<row_count, items_count, thrown>> /\ order_number' = order_number + 1
      BY <2>1 DEF NextRange
    <3>5. \A i \in 1 .. Len(ranges') : ranges'[i] = get_data_range(row_count, items_count, i)
      <4> SUFFICES ASSUME NEW i \in 1 .. Len(ranges')
                   PROVE  ranges'[i] = get_data_range(row_count, items_count, i)
        OBVIOUS
      <4>1. Len(ranges) \in Nat /\ order_number = Len(ranges) + 1
        BY LenProperties DEF LoopInv
      <4>2. CASE i \in 1 .. Len(ranges)
        BY <3>3, <4>2 DEF LoopInv
      <4>3. CASE i = Len(ranges) + 1
        BY <3>3, <4>1, <4>3 DEF range
      <4> QED
        BY <3>3, <4>1, <4>2, <4>3
    <3> QED
      BY <3>1, <3>3, <3>4, <3>5 DEF LoopInv
  <2>2. CASE Throw
    BY <2>2 DEF Throw, LoopInv
  <2>3. CASE UNCHANGED vars
    BY <2>3 DEF vars, LoopInv
  <2> QED
    BY <2>1, <2>2, <2>3 DEF Next
<1> QED
  BY <1>1, <1>2, PTL DEF Spec

(* The bounds of a range, and with them every intermediate value of the    *)
(* computation (RangeOf), lie within the table: nothing overflows.         *)
THEOREM RangesInTable == Spec => []TypeOK
<1>1. LoopInv => TypeOK
  BY DEF LoopInv, TypeOK
<1> QED
  BY <1>1, LoopInvHolds, PTL

(* No row goes to two processes, or to two servers with order numbers      *)
(* counted from one.                                                       *)
THEOREM NoRowTwice == Spec => []RangesDisjoint
<1>1. LoopInv => RangesDisjoint
  <2> SUFFICES ASSUME LoopInv, NEW i \in 1 .. Len(ranges), NEW j \in 1 .. Len(ranges), i # j
               PROVE  Rows(ranges[i]) \cap Rows(ranges[j]) = {}
    BY DEF RangesDisjoint
  <2>1. items_count \in Nat \ {0} /\ i \in 1 .. items_count /\ j \in 1 .. items_count
    BY EmptySeq, LenProperties DEF LoopInv
  <2> QED
    BY <2>1, Disjoint DEF LoopInv
<1> QED
  BY <1>1, LoopInvHolds, PTL

(* No row is left out but fewer than items_count of the last ones. *)
THEOREM NoRowForgotten == Spec => []OnlyTheTailIsLeft
<1>1. LoopInv => OnlyTheTailIsLeft
  <2> SUFFICES ASSUME LoopInv, order_number > items_count, ranges # <<>>,
                      NEW row \in 1 .. row_count, row <= row_count - items_count + 1
               PROVE  \E i \in 1 .. Len(ranges) : row \in Rows(ranges[i])
    BY DEF OnlyTheTailIsLeft
  <2>1. items_count \in Nat \ {0} /\ Len(ranges) = items_count
    BY LenProperties DEF LoopInv
  <2>2. \E o \in 1 .. items_count : row \in Rows(get_data_range(row_count, items_count, o))
    BY <2>1, Covered DEF LoopInv
  <2> QED
    BY <2>1, <2>2 DEF LoopInv
<1> QED
  BY <1>1, LoopInvHolds, PTL
===============================================================================
