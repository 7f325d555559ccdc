---------------------------------- MODULE Md5 ----------------------------------
(***************************************************************************)
(* The MD5 class of core/smtp/md_5.cpp: what update and finalize do with   *)
(* count, buffer and the blocks given to transform.  Instead of the state  *)
(* a context keeps the octets of those blocks, from which finalize         *)
(* computes it.  A word of count has WordSize values.                               *)
(***************************************************************************)
EXTENDS Integers, Sequences

CONSTANTS
  WordSize,         \* 2^32 in the code
  ReadSize,         \* 1024 in the code, the octets read from a file at once
  transform(_, _),  \* the state after a block (module Md5Transform)
  state0,           \* the state init loads
  encode_state(_)   \* the state as 16 octets

ASSUME Md5Assumption ==
  /\ WordSize \in Nat \ {0} /\ WordSize % 512 = 0
  /\ ReadSize \in Nat \ {0}

Context == [count: Seq(0 .. WordSize - 1), buffer: [1 .. 64 -> 0 .. 255], hashed: Seq(0 .. 255),
            finalized: BOOLEAN, digest: Seq(0 .. 255)]

init == [count |-> <<0, 0>>, buffer |-> [i \in 1 .. 64 |-> 0], hashed |-> <<>>,
         finalized |-> FALSE, digest |-> <<>>]

(* The octets in the buffer that wait for more. *)
buffer_index(c) == (c.count[1] \div 8) % 64
Waiting(c)      == SubSeq(c.buffer, 1, buffer_index(c))

(* Mutation: the carry is forgotten. *)
Counted_NoCarry(count, length) ==
  LET bits == (8 * length) % WordSize
      low  == (count[1] + bits) % WordSize
  IN <<low, (count[2] + length \div (WordSize \div 8)) % WordSize>>

(* Mutation: words without an end. *)
Counted_Wide(count, length) == <<count[1] + 8 * length, count[2]>>

(* The number of bits, in two words. *)
Counted(count, length) ==
  LET bits == (8 * length) % WordSize
      low  == (count[1] + bits) % WordSize
      carry == IF low < bits THEN 1 ELSE 0
  IN <<low, (count[2] + carry + length \div (WordSize \div 8)) % WordSize>>

(* How many octets of the input go to transform: what fills the buffer,    *)
(* and whole blocks behind it; none if they do not fill it.                *)
Taken(index, length) ==
  IF length >= 64 - index THEN 64 - index + 64 * ((length - (64 - index)) \div 64) ELSE 0

(* memcpy(buffer + index, input, length) *)
Copied(buffer, index, input) ==
  [i \in 1 .. 64 |-> IF index < i /\ i <= index + Len(input) THEN input[i - index] ELSE buffer[i]]

(* The rest is buffered, from the start of the buffer if that was full. *)
update(c, input) ==
  LET index  == buffer_index(c)
      taken  == Taken(index, Len(input))
      rest   == SubSeq(input, taken + 1, Len(input))
      filled == Copied(c.buffer, index, SubSeq(input, 1, 64 - index))
  IN IF c.finalized THEN c
     ELSE [c EXCEPT !.count  = Counted(@, Len(input)),
                    !.hashed = IF taken = 0 THEN @
                               ELSE @ \o Waiting(c) \o SubSeq(input, 1, taken),
                    !.buffer = IF taken = 0 THEN Copied(@, index, rest) ELSE Copied(filled, 0, rest)]

(* update for files and streams: ReadSize octets at a time. *)
update_stream(c, input) ==
  LET pieces == (Len(input) + ReadSize - 1) \div ReadSize
      read(k) == SubSeq(input, (k - 1) * ReadSize + 1,
                        IF k = pieces THEN Len(input) ELSE k * ReadSize)
      after[k \in 0 .. pieces] == IF k = 0 THEN c ELSE update(after[k - 1], read(k))
  IN after[pieces]

(* A word in four octets, the lowest first. *)
encode(w) == <<w % 256, (w \div 256) % 256, (w \div 65536) % 256, (w \div 16777216) % 256>>

(* Mutation: 56 octets already leave room for the length. *)
PadLength_Off(index) == IF index <= 56 THEN 56 - index ELSE 120 - index

PadLength(index) == IF index < 56 THEN 56 - index ELSE 120 - index

PADDING(n) == [i \in 1 .. n |-> IF i = 1 THEN 128 ELSE 0]

(* The state after the blocks of some octets. *)
StateOf(octets) ==
  LET blocks == Len(octets) \div 64
      after[k \in 0 .. blocks] ==
        IF k = 0 THEN state0
        ELSE transform(after[k - 1], SubSeq(octets, 64 * k - 63, 64 * k))
  IN after[blocks]

(* One bit, zeros up to 56 mod 64, and the number of bits before that; the *)
(* buffer is cleared.                                                      *)
finalize(c) ==
  LET bits   == encode(c.count[1]) \o encode(c.count[2])
      padded == update(c, PADDING(PadLength(buffer_index(c))))
      whole  == update(padded, bits)
  IN IF c.finalized THEN c
     ELSE [whole EXCEPT !.buffer = [i \in 1 .. 64 |-> 0], !.finalized = TRUE,
                        !.digest = encode_state(StateOf(whole.hashed))]

(* Nothing but an empty string before finalize. *)
raw_digest(c) == c.digest

(* Mutation: %02X. *)
HexDigit_Upper(n) == IF n < 10 THEN 48 + n ELSE 55 + n

HexDigit(n) == IF n < 10 THEN 48 + n ELSE 87 + n

hex_digest(c) ==
  LET digest == raw_digest(c) IN
  [j \in 1 .. 2 * Len(digest) |->
     LET octet == digest[(j + 1) \div 2] IN
     HexDigit(IF j % 2 = 1 THEN octet \div 16 ELSE octet % 16)]

-----------------------------------------------------------------------------
(* Reference: a message with its padding is the shortest sequence of       *)
(* blocks that begins with the message and one bit and ends with the       *)
(* number of bits of the message.                                          *)
Padded(message) ==
  LET n == Len(message)
      length == encode((8 * n) % WordSize) \o encode(((8 * n) \div WordSize) % WordSize)
      total == CHOOSE t \in n + 9 .. n + 72 : t % 64 = 0
  IN [i \in 1 .. total |-> IF i <= n THEN message[i] ELSE IF i = n + 1 THEN 128
                           ELSE IF i <= total - 8 THEN 0 ELSE length[i - (total - 8)]]
===============================================================================
