------------------------------- MODULE Positions -------------------------------
(***************************************************************************)
(* Positions in a text, for those who read one: the line ends, delimiters  *)
(* and heads by which it is cut up.                                        *)
(***************************************************************************)
EXTENDS Integers, FiniteSets

(* The k-th of some positions. *)
Nth(S, k) == CHOOSE n \in S : Cardinality({i \in S : i <= n}) = k

(* The first one behind n, or the end. *)
NextOf(S, n, end) ==
  IF \A i \in S : i <= n THEN end ELSE CHOOSE i \in S : i > n /\ \A k \in S : k > n => i <= k
===============================================================================
