----------------------------- MODULE Md5Transform -----------------------------
(***************************************************************************)
(* The compression function of core/smtp/md_5.cpp.  A 32-bit word is a     *)
(* pair of its halves, high and low.                                       *)
(***************************************************************************)
EXTENDS Integers, Sequences, Bitwise

Half == 2 ^ 16

Plus(x, y) == LET low == x[2] + y[2] IN
  <<(x[1] + y[1] + low \div Half) % Half, low % Half>>
NotWords(x)     == <<Half - 1 - x[1], Half - 1 - x[2]>>
AndWords(x, y)  == <<x[1] & y[1], x[2] & y[2]>>
OrWords(x, y)   == <<x[1] | y[1], x[2] | y[2]>>
XorWords(x, y)  == <<x[1] ^^ y[1], x[2] ^^ y[2]>>

rotate_left(x, n) ==
  LET y == IF n < 16 THEN x ELSE <<x[2], x[1]>>
      m == n % 16
      shifted(p, q) == ((p * 2 ^ m) % Half) + q \div 2 ^ (16 - m)
  IN <<shifted(y[1], y[2]), shifted(y[2], y[1])>>

(* F, G, H and I, one per round. *)
Mix(round, x, y, z) ==
  CASE round = 0 -> OrWords(AndWords(x, y), AndWords(NotWords(x), z))
    [] round = 1 -> OrWords(AndWords(x, z), AndWords(y, NotWords(z)))
    [] round = 2 -> XorWords(XorWords(x, y), z)
    [] round = 3 -> XorWords(y, OrWords(x, NotWords(z)))

(* Per round, the word of the block that step i takes, and the rotation. *)
WordOf(round, i) == (<<i, 5 * i + 1, 3 * i + 5, 7 * i>>[round + 1]) % 16
Shift(round, i)  ==
  << <<7, 12, 17, 22>>, <<5, 9, 14, 20>>, <<4, 11, 16, 23>>, <<6, 10, 15, 21>> >>
    [round + 1][(i % 4) + 1]

Sines ==
  <<<<\hd76a, \ha478>>, <<\he8c7, \hb756>>, <<\h2420, \h70db>>, <<\hc1bd, \hceee>>,
    <<\hf57c, \h0faf>>, <<\h4787, \hc62a>>, <<\ha830, \h4613>>, <<\hfd46, \h9501>>,
    <<\h6980, \h98d8>>, <<\h8b44, \hf7af>>, <<\hffff, \h5bb1>>, <<\h895c, \hd7be>>,
    <<\h6b90, \h1122>>, <<\hfd98, \h7193>>, <<\ha679, \h438e>>, <<\h49b4, \h0821>>,
    <<\hf61e, \h2562>>, <<\hc040, \hb340>>, <<\h265e, \h5a51>>, <<\he9b6, \hc7aa>>,
    <<\hd62f, \h105d>>, <<\h0244, \h1453>>, <<\hd8a1, \he681>>, <<\he7d3, \hfbc8>>,
    <<\h21e1, \hcde6>>, <<\hc337, \h07d6>>, <<\hf4d5, \h0d87>>, <<\h455a, \h14ed>>,
    <<\ha9e3, \he905>>, <<\hfcef, \ha3f8>>, <<\h676f, \h02d9>>, <<\h8d2a, \h4c8a>>,
    <<\hfffa, \h3942>>, <<\h8771, \hf681>>, <<\h6d9d, \h6122>>, <<\hfde5, \h380c>>,
    <<\ha4be, \hea44>>, <<\h4bde, \hcfa9>>, <<\hf6bb, \h4b60>>, <<\hbebf, \hbc70>>,
    <<\h289b, \h7ec6>>, <<\heaa1, \h27fa>>, <<\hd4ef, \h3085>>, <<\h0488, \h1d05>>,
    <<\hd9d4, \hd039>>, <<\he6db, \h99e5>>, <<\h1fa2, \h7cf8>>, <<\hc4ac, \h5665>>,
    <<\hf429, \h2244>>, <<\h432a, \hff97>>, <<\hab94, \h23a7>>, <<\hfc93, \ha039>>,
    <<\h655b, \h59c3>>, <<\h8f0c, \hcc92>>, <<\hffef, \hf47d>>, <<\h8584, \h5dd1>>,
    <<\h6fa8, \h7e4f>>, <<\hfe2c, \he6e0>>, <<\ha301, \h4314>>, <<\h4e08, \h11a1>>,
    <<\hf753, \h7e82>>, <<\hbd3a, \hf235>>, <<\h2ad7, \hd2bb>>, <<\heb86, \hd391>>>>

(* Sixteen words from 64 octets, the lowest octet first. *)
decode(block) ==
  [w \in 0 .. 15 |-> <<block[4 * w + 3] + 256 * block[4 * w + 4],
                      block[4 * w + 1] + 256 * block[4 * w + 2]>>]

encode_words(words) ==
  [j \in 1 .. 4 * Len(words) |->
     LET word == words[(j - 1) \div 4 + 1]  k == (j - 1) % 4 IN
     (word[2 - k \div 2] \div 256 ^ (k % 2)) % 256]

(* The registers a, b, c and d, or the state. *)
Registers == [1 .. 4 -> (0 .. Half - 1) \X (0 .. Half - 1)]

(* FF, GG, HH and II. *)
Step(round, i, x, a, b, c, d) ==
  Plus(rotate_left(Plus(Plus(a, Mix(round, b, c, d)), Plus(x[WordOf(round, i)], Sines[16 * round + i + 1])),
                   Shift(round, i)), b)

(* Four of the 64 steps, of which each changes another register. *)
Row(x, round, i) == [r \in Registers |->
  LET a == Step(round, i, x, r[1], r[2], r[3], r[4])
      d == Step(round, i + 1, x, r[4], a, r[2], r[3])
      c == Step(round, i + 2, x, r[3], d, a, r[2])
      b == Step(round, i + 3, x, r[2], c, d, a)
  IN <<a, b, c, d>>]

Transform(state, block) ==
  LET x == decode(block)
      after[n \in 0 .. 16] ==
        IF n = 0 THEN state ELSE Row(x, (n - 1) \div 4, 4 * ((n - 1) % 4))[after[n - 1]]
      registers == after[16]
  IN [k \in 1 .. 4 |-> Plus(state[k], registers[k])]

InitialState == << <<\h6745, \h2301>>, <<\hefcd, \hab89>>, <<\h98ba, \hdcfe>>, <<\h1032, \h5476>> >>
===============================================================================
