------------------------------- MODULE DataRange -------------------------------
(***************************************************************************)
(* get_data_range of tools/service/service.cpp, which cuts the rows of the *)
(* table core.emails into the ranges of the servers, and the rows of a     *)
(* server into those of its processes; and the loop of main.cpp that asks  *)
(* for one range after the other.                                          *)
(***************************************************************************)
EXTENDS Integers, Sequences

CONSTANTS
  RowCounts,   \* the row counts to start from
  ItemCounts   \* the numbers of servers or processes; -1 is an unset key

ASSUME CountsAssumption ==
  /\ RowCounts \subseteq Nat
  /\ ItemCounts \subseteq Int

VARIABLES
  row_count,
  items_count,
  order_number,  \* the next order number to ask for
  ranges,        \* the ranges returned so far, one per order number
  thrown         \* the call threw std::runtime_error

vars == <<row_count, items_count, order_number, ranges, thrown>>

abs(x) == IF x < 0 THEN -x ELSE x

(* The arguments that are refused with an exception. *)
InvalidArguments(rows, items) == rows = 0 \/ items <= 0

(* Mutations: the first row is counted from zero; the range is rounded up; *)
(* order numbers are counted from zero.                                    *)
get_data_range_FromZero(rows, items, order) ==
  LET range == rows \div items
      begin == abs(order - 1) * range
  IN  [first |-> begin, second |-> begin + range]
get_data_range_RoundedUp(rows, items, order) ==
  LET range == rows \div items + 1
      begin == abs(order - 1) * range
  IN  [first |-> begin + 1, second |-> begin + range]
get_data_range_OrderFromZero(rows, items, order) ==
  LET range == rows \div items
      begin == order * range
      end   == begin + range
  IN  [first |-> begin + 1, second |-> IF end > rows THEN rows ELSE end]

(* The first and the last row of an order number; the range is empty when  *)
(* the first is behind the last.                                           *)
get_data_range(rows, items, order) ==
  LET range == rows \div items
      begin == abs(order - 1) * range
      end   == begin + range
  IN  [first |-> begin + 1, second |-> IF end > rows THEN rows ELSE end]

(* WHERE id BETWEEN first AND second. *)
Rows(r) == r.first .. r.second

Init ==
  /\ row_count \in RowCounts /\ items_count \in ItemCounts
  /\ order_number = 1 /\ ranges = <<>> /\ thrown = FALSE

(* One turn of the loop over the order numbers. *)
NextRange ==
  /\ ~thrown /\ order_number <= items_count
  /\ ~InvalidArguments(row_count, items_count)
  /\ ranges' = Append(ranges, get_data_range(row_count, items_count, order_number))
  /\ order_number' = order_number + 1
  /\ UNCHANGED <<row_count, items_count, thrown>>

Throw ==
  /\ ~thrown /\ InvalidArguments(row_count, items_count)
  /\ thrown' = TRUE
  /\ UNCHANGED <<row_count, items_count, order_number, ranges>>

Next == NextRange \/ Throw

Spec == Init /\ [][Next]_vars

-----------------------------------------------------------------------------
(* The values of the variables; the arithmetic of the code stays within    *)
(* the rows, so it cannot overflow an int that the row count fits in.      *)
TypeOK ==
  /\ row_count \in RowCounts /\ items_count \in ItemCounts
  /\ order_number \in Nat /\ thrown \in BOOLEAN
  /\ ranges \in Seq([first: 1 .. row_count + 1, second: 0 .. row_count])

(* No row belongs to two order numbers: no mail goes out twice. *)
RangesDisjoint ==
  \A i, j \in 1 .. Len(ranges) : i # j => Rows(ranges[i]) \cap Rows(ranges[j]) = {}

(* Once every order number has its range, no row is left out but the       *)
(* remainder of the division: some of the last rows, fewer than there are  *)
(* order numbers.                                                          *)
OnlyTheTailIsLeft ==
  order_number > items_count /\ ranges # <<>> =>
    \A row \in 1 .. row_count :
      row <= row_count - items_count + 1
        => \E i \in 1 .. Len(ranges) : row \in Rows(ranges[i])

(* ServerConfig::is_valid (service.hpp:172-178), as far as it is about the *)
(* server's place among the servers.                                       *)
is_valid(order) == items_count # -1 /\ order # -1 /\ order < items_count

(* Two servers whose configurations are valid, with different order        *)
(* numbers, never mail the same row.                                       *)
ValidServersShareNoRow ==
  ~InvalidArguments(row_count, items_count) =>
    \A o, p \in 0 .. items_count :
      is_valid(o) /\ is_valid(p) /\ o # p =>
        Rows(get_data_range(row_count, items_count, o))
          \cap Rows(get_data_range(row_count, items_count, p)) = {}
===============================================================================
