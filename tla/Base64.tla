-------------------------------- MODULE Base64 --------------------------------
(***************************************************************************)
(* core/smtp/base_64.cpp on sequences of bytes.  An encoded text is a      *)
(* sequence of bytes too, of the codes of its characters.                  *)
(***************************************************************************)
EXTENDS Integers, Sequences

Bytes == 0 .. 255
Pad   == 61     \* '='

(* The character of a sextet: A-Z, a-z, 0-9, + and /. *)
base64_chars == [k \in 0 .. 63 |->
  IF k < 26 THEN 65 + k ELSE IF k < 52 THEN 71 + k ELSE IF k < 62 THEN k - 4
  ELSE IF k = 62 THEN 43 ELSE 47]

is_base64(c) == \E k \in 0 .. 63 : base64_chars[k] = c

(* base64_chars.find, as an unsigned char: npos becomes 255. *)
find(c) == IF is_base64(c) THEN CHOOSE k \in 0 .. 63 : base64_chars[k] = c ELSE 255

(* Three octets as four sextets, and back with the arithmetic of unsigned  *)
(* char.                                                                   *)
Sextets(a, b, c) ==
  <<a \div 4, (a % 4) * 16 + b \div 16, (b % 16) * 4 + c \div 64, c % 64>>

Octets(p, q, r, s) ==
  <<(p * 4 + (q % 64) \div 16) % 256, ((q % 16) * 16 + (r % 64) \div 4) % 256,
    ((r % 4) * 64 + s) % 256>>

(* Groups of three octets; what is missing in the last one counts as zero  *)
(* and is padded.                                                          *)
base64_encode(bytes) ==
  LET n == Len(bytes)
      octet(i) == IF i <= n THEN bytes[i] ELSE 0
  IN [i \in 1 .. 4 * ((n + 2) \div 3) |->
        LET g == (i - 1) \div 4  k == ((i - 1) % 4) + 1 IN
        IF k > n - 3 * g + 1 THEN Pad
        ELSE base64_chars[Sextets(octet(3 * g + 1), octet(3 * g + 2), octet(3 * g + 3))[k]]]

(* Up to the first character that is not of the alphabet; the places the   *)
(* last group lacks hold find('\0'), and yield no octet.                   *)
base64_decode(text) ==
  LET n == CHOOSE m \in 0 .. Len(text) :
             /\ \A i \in 1 .. m : is_base64(text[i])
             /\ m < Len(text) => ~is_base64(text[m + 1])
      sextet(i) == IF i <= n THEN find(text[i]) ELSE find(0)
      tail == IF n % 4 = 0 THEN 0 ELSE (n % 4) - 1
  IN [i \in 1 .. 3 * (n \div 4) + tail |->
        LET g == (i - 1) \div 3  k == ((i - 1) % 3) + 1 IN
        Octets(sextet(4 * g + 1), sextet(4 * g + 2), sextet(4 * g + 3), sextet(4 * g + 4))[k]]

(* Reference: the bits of the octets, six at a time. *)
Bit(bytes, i) == IF i \div 8 < Len(bytes)
                   THEN (bytes[i \div 8 + 1] \div 2 ^ (7 - (i % 8))) % 2 ELSE 0
SixBits(bytes, k) ==
  Bit(bytes, 6 * k) * 32 + Bit(bytes, 6 * k + 1) * 16 + Bit(bytes, 6 * k + 2) * 8
  + Bit(bytes, 6 * k + 3) * 4 + Bit(bytes, 6 * k + 4) * 2 + Bit(bytes, 6 * k + 5)
Encoded(bytes) ==
  LET digits == (8 * Len(bytes) + 5) \div 6
      length == 4 * ((digits + 3) \div 4)
  IN [i \in 1 .. length |-> IF i <= digits THEN base64_chars[SixBits(bytes, i - 1)] ELSE Pad]
===============================================================================
