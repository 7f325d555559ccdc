------------------------------ MODULE MCDataPhase ------------------------------
(***************************************************************************)
(* Instances of DataPhase for TLC: 54 bytes a line become 3, BUFFER_SIZE   *)
(* becomes 24.  Files of every length modulo 3 and around what fills half  *)
(* the buffer, two of them, and one that is too large with the other.      *)
(***************************************************************************)
EXTENDS DataPhase

SomeBytes(n, seed) == [i \in 1 .. n |-> (seed + 37 * i) % 256]

(* 250; 250-a, 250 b; a refusal that quotes a code; one that does not fit  *)
(* into the buffer with the rest of a session; and 421 no.                 *)
Code(n) == <<48 + n \div 100, 48 + ((n \div 10) % 10), 48 + (n % 10)>>
Ok  == [code |-> 250, text |-> Code(250) \o CRLF]
Long == [code |-> 250, text |-> Code(250) \o <<45, 97>> \o CRLF \o Code(250) \o <<32, 98>> \o CRLF]
Quoting == [code |-> 550, text |-> Code(550) \o <<45>> \o Code(250) \o CRLF \o Code(550) \o CRLF]
TooLong ==
  [code |-> 354, text |-> Code(354) \o <<45>> \o [i \in 1 .. 16 |-> 97] \o CRLF \o Code(354) \o CRLF]
Bye == [code |-> 421, text |-> Code(421) \o <<32, 110, 111, 32>> \o CRLF]

Of(lines, sizes, replies, byes) ==
  [lines |-> lines, files |-> [k \in 1 .. Len(sizes) |-> SomeBytes(sizes[k], 80 * k)],
   answers |-> replies, goodbyes |-> byes, endless |-> FALSE]

Short(lines, sizes) == Of(lines, sizes, {Ok}, {})
AllMessages ==
  {Of(0, <<>>, {Ok, Long, Quoting, TooLong}, {Bye}), Of(1, <<1>>, {Ok, Quoting}, {Bye})}
  \cup
  {Short(2, <<>>), Short(1, <<0>>), Short(0, <<2>>), Short(1, <<3>>), Short(1, <<9>>),
   Short(0, <<13>>), Short(1, <<18>>), Short(1, <<4, 0>>), Short(0, <<0, 1, 2>>),
   Short(1, <<20, 5>>), [Of(0, <<>>, {Long}, {Bye}) EXCEPT !.endless = TRUE]}
===============================================================================
