--------------------------- MODULE CredentialsProofs ---------------------------
(***************************************************************************)
(* Proofs about the answers to the challenges of a relay.                  *)
(***************************************************************************)
EXTENDS Credentials, SharedLemmas

(* The two words that count the bits of some octets. *)
BitsOf(length) == <<(8 * length) % WordSize, ((8 * length) \div WordSize) % WordSize>>

(* The object c is at work and has been given the octets of message. *)
Holds(c, message) ==
  /\ c \in Context /\ ~c.finalized /\ c.digest = <<>>
  /\ message \in Seq(Bytes) /\ c.hashed \o Waiting(c) = message
  /\ Len(c.hashed) % 64 = 0
  /\ c.count = BitsOf(Len(message))

-----------------------------------------------------------------------------
(* Numbers. *)

LEMMA Division ==
  ASSUME NEW a \in Nat, NEW b \in Nat, b > 0
  PROVE  a \div b \in Nat /\ a % b \in 0 .. b - 1 /\ a = b * (a \div b) + (a % b)
OBVIOUS

(* Quotient and remainder are the only numbers with this property. *)
LEMMA Unique ==
  ASSUME NEW b \in Nat, b > 0, NEW q \in Nat, NEW r \in 0 .. b - 1, NEW n, n = b * q + r
  PROVE  n \div b = q /\ n % b = r
<1>1. n \in Nat
  OBVIOUS
<1>2. PICK k \in Nat, l \in 0 .. b - 1 : k = n \div b /\ l = n % b /\ n = b * k + l
  BY <1>1, Division
<1>3. b * (q - k) = l - r
  BY <1>2
<1>4. q - k = 0
  <2>1. CASE q - k >= 1
    <3>1. b * (q - k) >= b
      BY <2>1
    <3> QED
      BY <1>3, <3>1
  <2>2. CASE k - q >= 1
    <3>1. b * (k - q) >= b
      BY <2>2
    <3>2. b * (k - q) = r - l
      BY <1>3
    <3> QED
      BY <3>1, <3>2
  <2> QED
    BY <2>1, <2>2
<1>5. k = q /\ l = r
  BY <1>2, <1>3, <1>4
<1> QED
  BY <1>2, <1>5

(* Multiples of the divisor add nothing to the remainder. *)
LEMMA Multiple ==
  ASSUME NEW b \in Nat, b > 0, NEW q \in Nat, NEW n \in Nat, NEW m, m = b * q + n
  PROVE  m % b = n % b /\ m \div b = q + (n \div b)
<1>1. PICK k \in Nat, l \in 0 .. b - 1 : k = n \div b /\ l = n % b /\ n = b * k + l
  BY Division
<1>2. m = b * (q + k) + l /\ q + k \in Nat
  BY <1>1
<1>3. m % b = l /\ m \div b = q + k
  BY <1>1, <1>2, Unique
<1> QED
  BY <1>1, <1>3

LEMMA WordInBlocks == \E v \in Nat : WordSize = 512 * v /\ v > 0
<1>1. WordSize \in Nat /\ WordSize > 0 /\ WordSize % 512 = 0
  BY Md5Assumption
<1>2. WordSize = 512 * (WordSize \div 512) + (WordSize % 512) /\ WordSize \div 512 \in Nat
  BY <1>1, Division
<1> QED
  BY <1>1, <1>2

(* The octets that wait for more are those of the last block. *)
LEMMA IndexOf ==
  ASSUME NEW length \in Nat
  PROVE  (((8 * length) % WordSize) \div 8) % 64 = length % 64
<1>1. PICK v \in Nat : WordSize = 512 * v /\ v > 0
  BY WordInBlocks
<1>2. PICK k \in Nat, l \in 0 .. WordSize - 1 :
        l = (8 * length) % WordSize /\ 8 * length = WordSize * k + l
  <2>1. 8 * length \in Nat /\ WordSize \in Nat /\ WordSize > 0
    BY Md5Assumption
  <2> QED
    BY <2>1, Division
<1>3. PICK i \in Nat : i = v * k
  OBVIOUS
<1>4. 8 * length = 512 * i + l
  BY <1>1, <1>2, <1>3
<1>5. l \div 8 = length - 64 * i /\ length - 64 * i \in Nat
  BY <1>2, <1>4
<1>6. length % 64 = (length - 64 * i) % 64
  <2>1. length = 64 * i + (length - 64 * i)
    BY <1>5
  <2> QED
    BY <1>5, <2>1, Multiple
<1> QED
  BY <1>2, <1>5, <1>6

(* Adding the bits of an input, with their carry, counts the whole. *)
LEMMA CountAdds ==
  ASSUME NEW before \in Nat, NEW length \in Nat
  PROVE  Counted(BitsOf(before), length) = BitsOf(before + length)
<1> DEFINE w == WordSize
<1>1. PICK v \in Nat : w = 8 * v /\ v > 0
  <2>1. PICK u \in Nat : w = 512 * u /\ u > 0
    BY WordInBlocks
  <2> WITNESS 64 * u \in Nat
  <2> QED
    BY <2>1
<1>2. w \in Nat /\ w > 0
  BY Md5Assumption
<1>3. PICK k \in Nat, a \in 0 .. w - 1 :
        k = (8 * before) \div w /\ a = (8 * before) % w /\ 8 * before = w * k + a
  BY <1>2, Division
<1>4. PICK l \in Nat, b \in 0 .. w - 1 :
        l = (8 * length) \div w /\ b = (8 * length) % w /\ 8 * length = w * l + b
  BY <1>2, Division
<1>5. length \div (w \div 8) = l
  <2>1. w \div 8 = v
    BY <1>1
  <2>2. PICK d \in Nat, r \in 0 .. v - 1 : d = length \div v /\ length = v * d + r
    BY <1>1, Division
  <2>3. 8 * length = w * d + 8 * r /\ 8 * r \in 0 .. w - 1
    BY <1>1, <2>2
  <2>4. d = l
    <3>1. PICK m, s : m = 8 * length /\ s = 8 * r
      OBVIOUS
    <3>2. s \in 0 .. w - 1 /\ m = w * d + s
      BY <2>3, <3>1
    <3>3. m \div w = d
      BY <1>2, <3>2, Unique
    <3> QED
      BY <1>4, <3>1, <3>3
  <2> QED
    BY <2>1, <2>2, <2>4
<1> DEFINE carry == IF (a + b) % w < b THEN 1 ELSE 0
<1>6. (a + b) % w = a + b - w * carry /\ carry \in {0, 1} /\ a + b - w * carry \in 0 .. w - 1
  <2>1. CASE a + b < w
    <3>1. a + b = w * 0 + (a + b) /\ a + b \in 0 .. w - 1
      BY <1>2, <2>1
    <3>2. (a + b) % w = a + b
      BY <1>2, <3>1, Unique
    <3> QED
      BY <2>1, <3>1, <3>2, <1>2
  <2>2. CASE a + b >= w
    <3>1. a + b = w * 1 + (a + b - w) /\ a + b - w \in 0 .. w - 1
      BY <1>2, <2>2
    <3>2. (a + b) % w = a + b - w
      BY <1>2, <3>1, Unique
    <3> QED
      BY <2>2, <3>2, <1>2
  <2> QED
    BY <2>1, <2>2, <1>2
<1>7. 8 * (before + length) = w * (k + l + carry) + (a + b - w * carry) /\ k + l + carry \in Nat
  BY <1>2, <1>3, <1>4, <1>6
<1>8. (8 * (before + length)) % w = (a + b) % w /\ (8 * (before + length)) \div w = k + l + carry
  <2>1. a + b - w * carry \in 0 .. w - 1
    BY <1>6
  <2> QED
    BY <1>2, <1>6, <1>7, <2>1, Unique
<1>9. ((k % w) + carry + l) % w = (k + l + carry) % w
  <2>1. PICK d \in Nat, r \in 0 .. w - 1 : r = k % w /\ k = w * d + r
    BY <1>2, Division
  <2>2. k + l + carry = w * d + (r + carry + l) /\ r + carry + l \in Nat
    BY <1>2, <1>6, <2>1
  <2>3. PICK m, n : m = k + l + carry /\ n = r + carry + l
    OBVIOUS
  <2>4. n \in Nat /\ m = w * d + n
    BY <2>2, <2>3
  <2>5. m % w = n % w
    <3>1. PICK e \in Nat, t \in 0 .. w - 1 : t = n % w /\ n = w * e + t
      BY <1>2, <2>4, Division
    <3>2. m = w * (d + e) + t /\ d + e \in Nat
      BY <1>2, <2>4, <3>1
    <3>3. m % w = t
      BY <1>2, <3>2, Unique
    <3> QED
      BY <3>1, <3>3
  <2> QED
    BY <2>1, <2>3, <2>5
<1>10. BitsOf(before) = <<a, k % w>>
  BY <1>3 DEF BitsOf
<1>11. Counted(BitsOf(before), length) = <<(a + b) % w, ((k % w) + carry + l) % w>>
  BY <1>4, <1>5, <1>10 DEF Counted
<1>12. BitsOf(before + length) = <<(a + b) % w, (k + l + carry) % w>>
  BY <1>8 DEF BitsOf
<1> QED
  BY <1>9, <1>11, <1>12

-----------------------------------------------------------------------------
(* Sequences. *)

LEMMA Split ==
  ASSUME NEW S, NEW s \in Seq(S), NEW n \in 0 .. Len(s)
  PROVE  /\ SubSeq(s, 1, n) \in Seq(S) /\ Len(SubSeq(s, 1, n)) = n
         /\ SubSeq(s, n + 1, Len(s)) \in Seq(S) /\ Len(SubSeq(s, n + 1, Len(s))) = Len(s) - n
         /\ SubSeq(s, 1, n) \o SubSeq(s, n + 1, Len(s)) = s
<1> DEFINE front == SubSeq(s, 1, n)
           back  == SubSeq(s, n + 1, Len(s))
<1>1. /\ front \in Seq(S) /\ Len(front) = n
      /\ \A i \in 1 .. n : front[i] = s[i]
  <2>1. \A i \in 1 .. n : s[i] \in S
    OBVIOUS
  <2> QED
    BY <2>1, SubSeqProperties
<1>2. /\ back \in Seq(S) /\ Len(back) = Len(s) - n
      /\ \A i \in 1 .. Len(s) - n : back[i] = s[n + i]
  <2>1. \A i \in n + 1 .. Len(s) : s[i] \in S
    OBVIOUS
  <2> QED
    BY <2>1, SubSeqProperties
<1> HIDE DEF front, back
<1>3. /\ front \o back \in Seq(S) /\ Len(front \o back) = Len(s)
      /\ \A i \in 1 .. Len(s) : (front \o back)[i] = IF i <= n THEN front[i] ELSE back[i - n]
  BY <1>1, <1>2, ConcatProperties
<1>4. ASSUME NEW i \in 1 .. Len(s) PROVE (front \o back)[i] = s[i]
  BY <1>1, <1>2, <1>3
<1>5. front \o back = s
  BY <1>3, <1>4, SeqEqual
<1> QED
  BY <1>1, <1>2, <1>5 DEF front, back

Assoc(s, t, u) == (s \o t) \o u = s \o (t \o u)

LEMMA Associates ==
  ASSUME NEW s \in Seq(Bytes), NEW t \in Seq(Bytes), NEW u \in Seq(Bytes)
  PROVE  Assoc(s, t, u)
BY ConcatAssociative DEF Assoc

LEMMA Prefix ==
  ASSUME NEW S, NEW n \in Nat, NEW s, \A i \in 1 .. n : s[i] \in S
  PROVE  /\ SubSeq(s, 1, n) \in Seq(S) /\ Len(SubSeq(s, 1, n)) = n
         /\ \A i \in 1 .. n : SubSeq(s, 1, n)[i] = s[i]
BY SubSeqProperties

(* Copied, for a buffer of any size. *)
CopiedIn(size, buffer, index, input) ==
  [i \in 1 .. size |-> IF index < i /\ i <= index + Len(input) THEN input[i - index] ELSE buffer[i]]

(* What such a buffer begins with. *)
Behind(new, buffer, index, input) ==
  SubSeq(new, 1, index + Len(input)) = SubSeq(buffer, 1, index) \o input

LEMMA Written ==
  ASSUME NEW S, NEW size \in Nat, NEW buffer \in [1 .. size -> S], NEW input \in Seq(S),
         NEW index \in Nat, index + Len(input) <= size
  PROVE  /\ CopiedIn(size, buffer, index, input) \in [1 .. size -> S]
         /\ Behind(CopiedIn(size, buffer, index, input), buffer, index, input)
<1>0. PICK n \in Nat : n = Len(input)
  OBVIOUS
<1> DEFINE new   == CopiedIn(size, buffer, index, input)
           front == SubSeq(buffer, 1, index)
           all   == SubSeq(new, 1, index + n)
<1>1. index + n <= size /\ \A i \in 1 .. n : input[i] \in S
  BY <1>0
<1>2. ASSUME NEW i \in 1 .. size
      PROVE  (IF index < i /\ i <= index + n THEN input[i - index] ELSE buffer[i]) \in S
  <2>1. CASE index < i /\ i <= index + n
    <3>1. i - index \in 1 .. n
      BY <2>1
    <3> QED
      BY <1>1, <2>1, <3>1
  <2>2. CASE ~(index < i /\ i <= index + n)
    BY <2>2
  <2> QED
    BY <2>1, <2>2
<1>3. new = [i \in 1 .. size |-> IF index < i /\ i <= index + n THEN input[i - index] ELSE buffer[i]]
  BY <1>0 DEF CopiedIn
<1> HIDE DEF new
<1>4. new \in [1 .. size -> S]
  BY <1>2, <1>3
<1>5. \A i \in 1 .. index + n : i \in 1 .. size /\ (i <= index => i \in 1 .. index)
                                 /\ (i > index => i - index \in 1 .. n)
  BY <1>1
<1>6. \A i \in 1 .. index + n : new[i] = IF i <= index THEN buffer[i] ELSE input[i - index]
  <2> TAKE i \in 1 .. index + n
  <2>1. new[i] = IF index < i /\ i <= index + n THEN input[i - index] ELSE buffer[i]
    BY <1>3, <1>5
  <2> QED
    BY <2>1
<1>7. /\ all \in Seq(S) /\ Len(all) = index + n
      /\ \A i \in 1 .. index + n : all[i] = new[i]
  <2>1. \A i \in 1 .. index + n : new[i] \in S
    BY <1>4, <1>5
  <2>2. PICK m \in Nat : m = index + n
    OBVIOUS
  <2> QED
    BY <2>1, <2>2, Prefix
<1>8. /\ front \in Seq(S) /\ Len(front) = index
      /\ \A i \in 1 .. index : front[i] = buffer[i]
  <2>1. \A i \in 1 .. index : buffer[i] \in S
    BY <1>1
  <2>2. index \in Nat
    OBVIOUS
  <2> QED
    BY <2>1, <2>2, Prefix
<1> HIDE DEF new, all, front
<1>9. /\ front \o input \in Seq(S) /\ Len(front \o input) = index + n
      /\ \A i \in 1 .. index + n :
           (front \o input)[i] = IF i <= index THEN front[i] ELSE input[i - index]
  BY <1>0, <1>8, ConcatProperties
<1>10. ASSUME NEW i \in 1 .. index + n PROVE all[i] = (front \o input)[i]
  <2>1. CASE i <= index
    <3>1. all[i] = buffer[i]
      BY <1>6, <1>7, <2>1
    <3>2. (front \o input)[i] = front[i] /\ i \in 1 .. index
      BY <1>5, <1>9, <2>1
    <3> QED
      BY <1>8, <3>1, <3>2
  <2>2. CASE ~(i <= index)
    <3>1. all[i] = input[i - index]
      BY <1>6, <1>7, <2>2
    <3>2. (front \o input)[i] = input[i - index]
      BY <1>9, <2>2
    <3> QED
      BY <3>1, <3>2
  <2> QED
    BY <2>1, <2>2
<1>11. all = front \o input
  BY <1>7, <1>9, <1>10, SeqEqual
<1> QED
  BY <1>0, <1>4, <1>11 DEF new, all, front, Behind

Buffer == [1 .. 64 -> Bytes]

(* memcpy puts the input behind what the buffer holds. *)
LEMMA InBuffer ==
  ASSUME NEW buffer \in Buffer, NEW input \in Seq(Bytes), NEW index \in Nat,
         index + Len(input) <= 64
  PROVE  /\ Copied(buffer, index, input) \in Buffer
         /\ Behind(Copied(buffer, index, input), buffer, index, input)
<1>1. 64 \in Nat /\ buffer \in [1 .. 64 -> Bytes]
  BY DEF Buffer
<1>2. /\ CopiedIn(64, buffer, index, input) \in [1 .. 64 -> Bytes]
      /\ Behind(CopiedIn(64, buffer, index, input), buffer, index, input)
  BY <1>1, Written
<1>3. Copied(buffer, index, input) = CopiedIn(64, buffer, index, input)
  BY DEF Copied, CopiedIn
<1> QED
  BY <1>2, <1>3 DEF Buffer

LEMMA BufferPrefix ==
  ASSUME NEW buffer \in Buffer, NEW index \in Nat, index <= 64
  PROVE  SubSeq(buffer, 1, index) \in Seq(Bytes) /\ Len(SubSeq(buffer, 1, index)) = index
<1>1. ASSUME NEW i \in 1 .. index PROVE buffer[i] \in Bytes
  <2>1. i \in 1 .. 64
    OBVIOUS
  <2> QED
    BY <2>1 DEF Buffer
<1> QED
  BY <1>1, Prefix

-----------------------------------------------------------------------------
(* The MD5 object. *)

LEMMA InitHolds == Holds(init, <<>>)
<1>1. BitsOf(0) = <<0, 0>>
  <2>1. WordSize \in Nat /\ WordSize > 0
    BY Md5Assumption
  <2>2. 0 % WordSize = 0 /\ 0 \div WordSize = 0
    <3>1. 0 = WordSize * 0 + 0 /\ 0 \in 0 .. WordSize - 1
      BY <2>1
    <3> QED
      BY <2>1, <3>1, Unique
  <2> QED
    BY <2>2 DEF BitsOf
<1>2. init \in Context
  <2>1. <<0, 0>> \in Seq(0 .. WordSize - 1)
    BY Md5Assumption
  <2> QED
    BY <2>1 DEF init, Context
<1>3. Waiting(init) = <<>>
  <2>1. buffer_index(init) = 0
    BY DEF buffer_index, init
  <2> QED
    BY <2>1, SubSeqEmpty DEF Waiting
<1>4. init.hashed \o Waiting(init) = <<>>
  BY <1>3 DEF init
<1> QED
  BY <1>1, <1>2, <1>4 DEF Holds, init

LEMMA BitsType ==
  ASSUME NEW length \in Nat
  PROVE  BitsOf(length) \in Seq(0 .. WordSize - 1)
<1>1. WordSize \in Nat /\ WordSize > 0
  BY Md5Assumption
<1>2. PICK n : n = 8 * length
  OBVIOUS
<1>3. n \in Nat
  BY <1>2
<1>4. n % WordSize \in 0 .. WordSize - 1 /\ n \div WordSize \in Nat
  BY <1>1, <1>3, Division
<1>5. (n \div WordSize) % WordSize \in 0 .. WordSize - 1
  BY <1>1, <1>4, Division
<1>6. BitsOf(length) = <<n % WordSize, (n \div WordSize) % WordSize>>
  BY <1>2 DEF BitsOf
<1> QED
  BY <1>4, <1>5, <1>6

LEMMA ContextIs ==
  Context = [count: Seq(0 .. WordSize - 1), buffer: Buffer, hashed: Seq(Bytes), finalized: BOOLEAN,
             digest: Seq(Bytes)]
BY Zenon DEF Context, Buffer, Bytes

LEMMA ContextType ==
  ASSUME NEW c \in Context
  PROVE  /\ c.buffer \in Buffer /\ c.hashed \in Seq(Bytes) /\ c.digest \in Seq(Bytes)
         /\ c.count \in Seq(0 .. WordSize - 1) /\ c.finalized \in BOOLEAN
BY ContextIs

(* The object c with other values. *)
With(c, count, hashed, buffer) == [c EXCEPT !.count = count, !.hashed = hashed, !.buffer = buffer]

LEMMA NewContext ==
  ASSUME NEW c \in Context, NEW count \in Seq(0 .. WordSize - 1), NEW hashed \in Seq(Bytes),
         NEW buffer \in Buffer, NEW r, r = With(c, count, hashed, buffer)
  PROVE  /\ r \in Context /\ r.count = count /\ r.hashed = hashed /\ r.buffer = buffer
         /\ r.finalized = c.finalized /\ r.digest = c.digest
BY ContextIs DEF With

(* What is taken from an input of l octets behind n others, and what is    *)
(* left in the buffer.                                                     *)
Cut(n, index, l, taken) ==
  /\ index \in 0 .. 63
  /\ taken \in 0 .. l
  /\ taken = 0 => l < 64 - index /\ (n + l) % 64 = index + l
  /\ taken # 0 => /\ 64 - index <= l
                  /\ (n + l) % 64 = l - taken /\ l - taken \in 0 .. 63
                  /\ (n + taken) % 64 = 0

LEMMA TakenIs ==
  ASSUME NEW n \in Nat, NEW l \in Nat
  PROVE  Cut(n, n % 64, l, Taken(n % 64, l))
<1>0. PICK index : index = n % 64
  OBVIOUS
<1>1. PICK q \in Int : n = 64 * q + index /\ index \in 0 .. 63
  <2>1. n = 64 * (n \div 64) + index /\ index \in 0 .. 63 /\ n \div 64 \in Int
    BY <1>0
  <2> QED
    BY <2>1
<1>2. ASSUME l < 64 - index PROVE Cut(n, index, l, Taken(index, l))
  <2>1. Taken(index, l) = 0
    BY <1>1, <1>2 DEF Taken
  <2>2. (n + l) % 64 = index + l
    BY <1>1, <1>2
  <2> QED
    BY <1>1, <1>2, <2>1, <2>2 DEF Cut
<1>3. ASSUME l >= 64 - index PROVE Cut(n, index, l, Taken(index, l))
  <2>1. PICK d \in Nat, t \in Int : d = (l - (64 - index)) \div 64 /\ t = 64 - index + 64 * d
    BY <1>1, <1>3
  <2>2. Taken(index, l) = t
    BY <1>1, <1>3, <2>1 DEF Taken
  <2>3. t \in 1 .. l /\ l - t \in 0 .. 63
    BY <1>1, <1>3, <2>1
  <2>4. (n + l) % 64 = l - t
    BY <1>1, <2>1, <2>3
  <2>5. (n + t) % 64 = 0
    BY <1>1, <2>1
  <2> QED
    BY <1>1, <1>3, <2>2, <2>3, <2>4, <2>5 DEF Cut
<1>4. Cut(n, index, l, Taken(index, l))
  BY <1>1, <1>2, <1>3
<1> QED
  BY <1>0, <1>4

LEMMA HoldsType ==
  ASSUME NEW c, NEW message, Holds(c, message)
  PROVE  /\ message \in Seq(Bytes)
         /\ buffer_index(c) = Len(message) % 64 /\ buffer_index(c) \in 0 .. 63
         /\ Waiting(c) \in Seq(Bytes) /\ Len(Waiting(c)) = buffer_index(c)
         /\ Len(message) = Len(c.hashed) + buffer_index(c)
<1>1. c \in Context /\ message \in Seq(Bytes) /\ c.count = BitsOf(Len(message))
  BY DEF Holds
<1>2. c.hashed \o Waiting(c) = message
  BY DEF Holds
<1>3. c.buffer \in Buffer /\ c.hashed \in Seq(Bytes)
  BY <1>1, ContextType
<1>4. PICK n \in Nat : n = Len(message)
  BY <1>1
<1>5. buffer_index(c) = n % 64
  <2>1. c.count[1] = (8 * n) % WordSize
    BY <1>1, <1>4 DEF BitsOf
  <2> QED
    BY <2>1, IndexOf DEF buffer_index
<1>6. PICK index \in 0 .. 63 : index = buffer_index(c)
  BY <1>5
<1>7. Waiting(c) \in Seq(Bytes) /\ Len(Waiting(c)) = index
  <2>1. index \in Nat /\ index <= 64
    OBVIOUS
  <2> QED
    BY <1>3, <1>6, <2>1, BufferPrefix DEF Waiting
<1>8. n = Len(c.hashed) + index
  BY <1>2, <1>3, <1>4, <1>7, ConcatProperties
<1> QED
  BY <1>1, <1>4, <1>5, <1>6, <1>7, <1>8


LEMMA IndexIs ==
  ASSUME NEW c, NEW n \in Nat, c.count = BitsOf(n)
  PROVE  buffer_index(c) = n % 64
<1>1. c.count[1] = (8 * n) % WordSize
  BY DEF BitsOf
<1> QED
  BY <1>1, IndexOf DEF buffer_index

Fills(c, input) == Taken(buffer_index(c), Len(input)) # 0

(* An input that does not fill the buffer. *)
LEMMA Buffered ==
  ASSUME NEW c, NEW message, Holds(c, message), NEW input \in Seq(Bytes), ~Fills(c, input)
  PROVE  Holds(update(c, input), message \o input)
<1>0. buffer_index(c) \in 0 .. 63 /\ buffer_index(c) = Len(message) % 64
  BY HoldsType
<1>1. message \in Seq(Bytes) /\ Waiting(c) \in Seq(Bytes)
  BY HoldsType
<1>2. /\ c \in Context /\ c.hashed \o Waiting(c) = message /\ Len(c.hashed) % 64 = 0
      /\ c.count = BitsOf(Len(message)) /\ ~c.finalized /\ c.digest = <<>>
  BY DEF Holds
<1>3. c.buffer \in Buffer /\ c.hashed \in Seq(Bytes)
  BY <1>2, ContextType
<1>4. PICK n \in Nat, l \in Nat : n = Len(message) /\ l = Len(input)
  BY <1>1
<1>5. PICK index \in Nat : index = buffer_index(c) /\ index = n % 64
  BY <1>0, <1>4
<1>6. Taken(index, l) = 0
  BY <1>4, <1>5 DEF Fills
<1>7. l < 64 - index /\ (n + l) % 64 = index + l
  <2>1. Cut(n, index, l, Taken(index, l))
    BY <1>5, TakenIs
  <2> QED
    BY <1>6, <2>1 DEF Cut
<1>8. PICK buffer : buffer = Copied(c.buffer, index, input)
  OBVIOUS
<1>9. index + Len(input) <= 64
  BY <1>4, <1>7
<1>10. buffer \in Buffer /\ Behind(buffer, c.buffer, index, input)
  BY <1>3, <1>8, <1>9, InBuffer
<1>11. PICK count : count = BitsOf(n + l)
  OBVIOUS
<1>12. count \in Seq(0 .. WordSize - 1)
  BY <1>11, BitsType
<1>13. PICK r : r = update(c, input)
  OBVIOUS
<1>14. r = With(c, count, c.hashed, buffer)
  <2>1. SubSeq(input, 0 + 1, l) = input
    BY <1>4, SubSeqFull
  <2>2. Counted(c.count, l) = count
    BY <1>2, <1>4, <1>11, CountAdds
  <2> QED
    BY <1>2, <1>4, <1>5, <1>6, <1>8, <1>13, <2>1, <2>2 DEF update, With
<1>15. /\ r \in Context /\ r.count = count /\ r.hashed = c.hashed /\ r.buffer = buffer
       /\ r.finalized = c.finalized /\ r.digest = c.digest
  BY <1>2, <1>3, <1>10, <1>12, <1>14, NewContext
<1>16. message \o input \in Seq(Bytes) /\ Len(message \o input) = n + l
  BY <1>1, <1>4, ConcatProperties
<1>17. buffer_index(r) = index + l
  <2>1. n + l \in Nat /\ r.count = BitsOf(n + l)
    BY <1>11, <1>15
  <2>2. buffer_index(r) = (n + l) % 64
    BY <2>1, IndexIs
  <2> QED
    BY <1>7, <2>2
<1>18. Waiting(r) = Waiting(c) \o input
  BY <1>4, <1>5, <1>10, <1>15, <1>17 DEF Waiting, Behind
<1>19. r.hashed \o Waiting(r) = message \o input
  <2>1. Assoc(c.hashed, Waiting(c), input)
    BY <1>1, <1>3, Associates
  <2> QED
    BY <1>2, <1>15, <1>18, <2>1 DEF Assoc
<1>20. Holds(r, message \o input)
  BY <1>2, <1>11, <1>15, <1>16, <1>19 DEF Holds
<1> QED
  BY <1>13, <1>20

(* An input that fills the buffer. *)
LEMMA Filled ==
  ASSUME NEW c, NEW message, Holds(c, message), NEW input \in Seq(Bytes), Fills(c, input)
  PROVE  Holds(update(c, input), message \o input)
<1>0. buffer_index(c) \in 0 .. 63 /\ buffer_index(c) = Len(message) % 64
  BY HoldsType
<1>1. message \in Seq(Bytes) /\ Waiting(c) \in Seq(Bytes)
  BY HoldsType
<1>2. /\ c \in Context /\ c.hashed \o Waiting(c) = message /\ Len(c.hashed) % 64 = 0
      /\ c.count = BitsOf(Len(message)) /\ ~c.finalized /\ c.digest = <<>>
  BY DEF Holds
<1>3. c.buffer \in Buffer /\ c.hashed \in Seq(Bytes)
  BY <1>2, ContextType
<1>4. PICK n \in Nat, l \in Nat : n = Len(message) /\ l = Len(input)
  BY <1>1
<1>5. PICK index \in Nat : index = buffer_index(c) /\ index = n % 64 /\ index <= 63
  BY <1>0, <1>4
<1>6. PICK taken : taken = Taken(index, l)
  OBVIOUS
<1>7. /\ taken \in 1 .. l /\ 64 - index <= l /\ (n + l) % 64 = l - taken /\ l - taken \in 0 .. 63
      /\ (n + taken) % 64 = 0
  <2>1. taken # 0
    BY <1>4, <1>5, <1>6 DEF Fills
  <2>2. Cut(n, index, l, taken)
    BY <1>5, <1>6, TakenIs
  <2> QED
    BY <2>1, <2>2 DEF Cut
<1>8. PICK first, rest, part :
        /\ first = SubSeq(input, 1, taken) /\ rest = SubSeq(input, taken + 1, l)
        /\ part = SubSeq(input, 1, 64 - index)
  OBVIOUS
<1>9. /\ first \in Seq(Bytes) /\ Len(first) = taken /\ rest \in Seq(Bytes) /\ Len(rest) = l - taken
      /\ first \o rest = input
  BY <1>4, <1>7, <1>8, Split
<1>10. part \in Seq(Bytes) /\ Len(part) = 64 - index
  <2>1. 64 - index \in 0 .. Len(input)
    BY <1>4, <1>5, <1>7
  <2> QED
    BY <1>8, <2>1, Split
<1>11. PICK filled, buffer : /\ filled = Copied(c.buffer, index, part)
                             /\ buffer = Copied(filled, 0, rest)
  OBVIOUS
<1>12. filled \in Buffer
  <2>1. index + Len(part) <= 64
    BY <1>5, <1>10
  <2> QED
    BY <1>3, <1>10, <1>11, <2>1, InBuffer
<1>13. buffer \in Buffer /\ Behind(buffer, filled, 0, rest)
  <2>1. 0 \in Nat /\ 0 + Len(rest) <= 64
    BY <1>7, <1>9
  <2> QED
    BY <1>9, <1>11, <1>12, <2>1, InBuffer
<1>14. PICK count, hashed : count = BitsOf(n + l) /\ hashed = (c.hashed \o Waiting(c)) \o first
  OBVIOUS
<1>15. count \in Seq(0 .. WordSize - 1)
  BY <1>14, BitsType
<1>16. hashed \in Seq(Bytes) /\ Len(hashed) = n + taken
  BY <1>1, <1>2, <1>4, <1>9, <1>14, ConcatProperties
<1>17. PICK r : r = update(c, input)
  OBVIOUS
<1>18. r = With(c, count, hashed, buffer)
  <2>1. Counted(c.count, l) = count
    BY <1>2, <1>4, <1>14, CountAdds
  <2>2. taken # 0
    BY <1>7
  <2> QED
    BY <1>2, <1>4, <1>5, <1>6, <1>8, <1>11, <1>14, <1>17, <2>1, <2>2 DEF update, With
<1>19. /\ r \in Context /\ r.count = count /\ r.hashed = hashed /\ r.buffer = buffer
       /\ r.finalized = c.finalized /\ r.digest = c.digest
  BY <1>2, <1>13, <1>15, <1>16, <1>18, NewContext
<1>20. message \o input \in Seq(Bytes) /\ Len(message \o input) = n + l
  BY <1>1, <1>4, ConcatProperties
<1>21. buffer_index(r) = l - taken
  <2>1. n + l \in Nat /\ r.count = BitsOf(n + l)
    BY <1>14, <1>19
  <2>2. buffer_index(r) = (n + l) % 64
    BY <2>1, IndexIs
  <2> QED
    BY <1>7, <2>2
<1>22. Waiting(r) = rest
  <2>1. Waiting(r) = SubSeq(buffer, 1, 0 + Len(rest))
    <3>1. 0 + Len(rest) = l - taken
      BY <1>7, <1>9
    <3> QED
      BY <1>19, <1>21, <3>1 DEF Waiting
  <2>2. SubSeq(filled, 1, 0) = <<>>
    BY SubSeqEmpty
  <2>3. Waiting(r) = <<>> \o rest
    BY <1>13, <2>1, <2>2 DEF Behind
  <2> QED
    BY <1>9, <2>3, ConcatEmptySeq
<1>23. r.hashed \o Waiting(r) = message \o input
  <2>1. hashed = message \o first
    BY <1>2, <1>14
  <2>2. Assoc(message, first, rest)
    BY <1>1, <1>9, Associates
  <2> QED
    BY <1>9, <1>19, <1>22, <2>1, <2>2 DEF Assoc
<1>24. Len(r.hashed) % 64 = 0
  BY <1>7, <1>16, <1>19
<1>25. Holds(r, message \o input)
  BY <1>2, <1>14, <1>19, <1>20, <1>23, <1>24 DEF Holds
<1> QED
  BY <1>17, <1>25

(* What an object holds after update is what it held and the input. *)
LEMMA UpdateHolds ==
  ASSUME NEW c, NEW message, Holds(c, message), NEW input \in Seq(Bytes)
  PROVE  Holds(update(c, input), message \o input)
BY Buffered, Filled

-----------------------------------------------------------------------------
(* update_stream: a recursive function, by the smallest counterexample.    *)

Pieces(input) == (Len(input) + ReadSize - 1) \div ReadSize
Read(input, k) ==
  SubSeq(input, (k - 1) * ReadSize + 1, IF k = Pieces(input) THEN Len(input) ELSE k * ReadSize)

(* f is the object after each of the first n pieces. *)
IsAfter(f, c, input, n) ==
  f = [k \in 0 .. n |-> IF k = 0 THEN c ELSE update(f[k - 1], Read(input, k))]

LEMMA AfterGrows ==
  ASSUME NEW c, NEW input, NEW n \in Nat, NEW f, IsAfter(f, c, input, n)
  PROVE  \E g : IsAfter(g, c, input, n + 1)
<1> DEFINE g == [k \in 0 .. n + 1 |-> IF k = n + 1 THEN update(f[n], Read(input, n + 1)) ELSE f[k]]
<1>1. f = [k \in 0 .. n |-> IF k = 0 THEN c ELSE update(f[k - 1], Read(input, k))]
  BY DEF IsAfter
<1>2. ASSUME NEW k \in 0 .. n + 1
      PROVE  g[k] = IF k = 0 THEN c ELSE update(g[k - 1], Read(input, k))
  <2>1. CASE k = n + 1
    <3>1. g[k] = update(f[n], Read(input, k)) /\ k # 0
      BY <2>1
    <3>2. k - 1 \in 0 .. n + 1 /\ k - 1 # n + 1 /\ k - 1 = n
      BY <2>1
    <3>3. g[k - 1] = f[n]
      BY <3>2
    <3> QED
      BY <3>1, <3>3
  <2>2. CASE k # n + 1
    <3>1. k \in 0 .. n /\ g[k] = f[k]
      BY <2>2
    <3>2. f[k] = IF k = 0 THEN c ELSE update(f[k - 1], Read(input, k))
      BY <1>1, <3>1
    <3>3. CASE k # 0
      <4>1. k - 1 \in 0 .. n + 1 /\ k - 1 # n + 1
        BY <2>2, <3>3
      <4>2. g[k - 1] = f[k - 1]
        BY <4>1
      <4> QED
        BY <3>1, <3>2, <3>3, <4>2
    <3> QED
      BY <3>1, <3>2, <3>3
  <2> QED
    BY <2>1, <2>2
<1>3. g = [k \in 0 .. n + 1 |-> IF k = 0 THEN c ELSE update(g[k - 1], Read(input, k))]
  BY <1>2
<1>4. IsAfter(g, c, input, n + 1)
  BY <1>3 DEF IsAfter
<1> QED
  BY <1>4

LEMMA AfterExists ==
  ASSUME NEW c, NEW input, NEW n \in Nat
  PROVE  \E f : IsAfter(f, c, input, n)
<1> DEFINE T == {m \in Nat : ~ \E f : IsAfter(f, c, input, m)}
<1>1. ASSUME T # {} PROVE FALSE
  <2>1. PICK x \in T : \A y \in T : x <= y
    BY <1>1, Smallest
  <2>2. x \in Nat /\ ~ \E f : IsAfter(f, c, input, x)
    BY <2>1
  <2>3. CASE x = 0
    <3> DEFINE g == [k \in 0 .. 0 |-> c]
    <3>1. g = [k \in 0 .. 0 |-> IF k = 0 THEN c ELSE update(g[k - 1], Read(input, k))]
      OBVIOUS
    <3> HIDE DEF g
    <3>2. IsAfter(g, c, input, x)
      BY <2>3, <3>1 DEF IsAfter
    <3> QED
      BY <2>2, <3>2
  <2>4. CASE x > 0
    <3>1. PICK z \in Nat : x = z + 1
      BY <2>2, <2>4
    <3>2. z \notin T
      BY <2>1, <3>1
    <3>3. PICK f : IsAfter(f, c, input, z)
      BY <3>2
    <3> QED
      BY <2>2, <3>1, <3>3, AfterGrows
  <2> QED
    BY <2>2, <2>3, <2>4
<1> QED
  BY <1>1

LEMMA StreamIs ==
  ASSUME NEW c, NEW input \in Seq(Bytes)
  PROVE  \E f : IsAfter(f, c, input, Pieces(input)) /\ update_stream(c, input) = f[Pieces(input)]
<1>1. Pieces(input) \in Nat
  <2>1. PICK r \in Nat, l \in Nat : r = ReadSize /\ r > 0 /\ l = Len(input)
    BY Md5Assumption
  <2>2. l + r - 1 \in Nat
    BY <2>1
  <2> QED
    BY <2>1, <2>2, Division DEF Pieces
<1>2. PICK g : IsAfter(g, c, input, Pieces(input))
  BY <1>1, AfterExists
<1> DEFINE f == CHOOSE h : IsAfter(h, c, input, Pieces(input))
<1>3. IsAfter(f, c, input, Pieces(input))
  BY <1>2
<1>4. update_stream(c, input) = f[Pieces(input)]
  BY Zenon DEF update_stream, IsAfter, Pieces, Read
<1> QED
  BY <1>3, <1>4

(* Neighbouring parts of a sequence. *)
Joined(s, a, b) == SubSeq(s, 1, a) \o SubSeq(s, a + 1, b) = SubSeq(s, 1, b)

LEMMA Joins ==
  ASSUME NEW s \in Seq(Bytes), NEW a \in Nat, NEW b \in Nat, a <= b, b <= Len(s)
  PROVE  SubSeq(s, 1, a) \in Seq(Bytes) /\ SubSeq(s, a + 1, b) \in Seq(Bytes) /\ Joined(s, a, b)
<1>0. \A i \in 1 .. b : s[i] \in Bytes
  OBVIOUS
<1>1. PICK front, back, all : /\ front = SubSeq(s, 1, a) /\ back = SubSeq(s, a + 1, b)
                              /\ all = SubSeq(s, 1, b)
  OBVIOUS
<1>2. front \in Seq(Bytes) /\ Len(front) = a /\ \A i \in 1 .. a : front[i] = s[i]
  <2>1. \A i \in 1 .. a : s[i] \in Bytes
    BY <1>0
  <2> QED
    BY <1>1, <2>1, Prefix
<1>3. all \in Seq(Bytes) /\ Len(all) = b /\ \A i \in 1 .. b : all[i] = s[i]
  BY <1>0, <1>1, Prefix
<1>4. back \in Seq(Bytes) /\ Len(back) = b - a /\ \A i \in 1 .. b - a : back[i] = s[a + i]
  <2>1. \A i \in a + 1 .. b : s[i] \in Bytes
    BY <1>0
  <2> QED
    BY <1>1, <2>1, SubSeqProperties
<1>5. /\ front \o back \in Seq(Bytes) /\ Len(front \o back) = b
      /\ \A i \in 1 .. b : (front \o back)[i] = IF i <= a THEN front[i] ELSE back[i - a]
  <2>1. front \in Seq(Bytes) /\ back \in Seq(Bytes)
    BY <1>2, <1>4
  <2>2. /\ front \o back \in Seq(Bytes) /\ Len(front \o back) = Len(front) + Len(back)
        /\ \A i \in 1 .. Len(front) + Len(back) :
             (front \o back)[i] = IF i <= Len(front) THEN front[i] ELSE back[i - Len(front)]
    BY <2>1, ConcatProperties
  <2>3. Len(front) = a /\ Len(front) + Len(back) = b
    BY <1>2, <1>4
  <2> QED
    BY <2>2, <2>3
<1>6. ASSUME NEW i \in 1 .. b PROVE (front \o back)[i] = all[i]
  <2>1. CASE i <= a
    BY <1>2, <1>3, <1>5, <2>1
  <2>2. CASE ~(i <= a)
    <3>1. i - a \in 1 .. b - a /\ a + (i - a) = i
      BY <2>2
    <3>2. back[i - a] = s[i]
      BY <1>4, <3>1
    <3> QED
      BY <1>3, <1>5, <2>2, <3>2
  <2> QED
    BY <2>1, <2>2
<1>7. front \o back = all
  BY <1>3, <1>5, <1>6, SeqEqual
<1> QED
  BY <1>1, <1>2, <1>4, <1>7 DEF Joined

(* How much of the input the first k pieces are. *)
UpTo(input, k) == IF k = Pieces(input) THEN Len(input) ELSE k * ReadSize

LEMMA PiecesFit ==
  ASSUME NEW input \in Seq(Bytes)
  PROVE  /\ Pieces(input) \in Nat /\ UpTo(input, 0) = 0
         /\ \A k \in 1 .. Pieces(input) :
              /\ UpTo(input, k - 1) = (k - 1) * ReadSize /\ UpTo(input, k - 1) \in Nat
              /\ UpTo(input, k) \in Nat
              /\ UpTo(input, k - 1) <= UpTo(input, k) /\ UpTo(input, k) <= Len(input)
<1>1. PICK r \in Nat, l \in Nat : r = ReadSize /\ r > 0 /\ l = Len(input)
  BY Md5Assumption
<1>2. PICK p \in Nat, e \in 0 .. r - 1 : p = (l + r - 1) \div r /\ l + r - 1 = r * p + e
  <2>1. PICK m \in Nat : m = l + r - 1
    BY <1>1
  <2>2. m \div r \in Nat /\ m % r \in 0 .. r - 1 /\ m = r * (m \div r) + (m % r)
    BY <1>1, Division
  <2> QED
    BY <2>1, <2>2
<1>3. Pieces(input) = p
  BY <1>1, <1>2 DEF Pieces
<1>4. l <= r * p /\ r * p <= l + r - 1
  BY <1>1, <1>2
<1>5. p = 0 => l = 0
  BY <1>4
<1>6. ASSUME NEW k \in 1 .. p
      PROVE  /\ (k - 1) * r \in Nat /\ k * r \in Nat /\ (k - 1) * r <= k * r
             /\ k # p => k * r <= l
             /\ k = p => (k - 1) * r <= l
  <2>1. (k - 1) * r \in Nat /\ k * r = (k - 1) * r + r
    BY <1>1
  <2>2. k # p => k * r <= (p - 1) * r
    <3>1. ASSUME k # p PROVE p - 1 - k \in Nat
      BY <3>1
    <3>2. ASSUME k # p PROVE (p - 1 - k) * r \in Nat
      BY <1>1, <3>1, <3>2
    <3>3. (p - 1) * r = (p - 1 - k) * r + k * r
      BY <1>1
    <3>4. k * r \in Nat
      BY <1>1
    <3>5. ASSUME k # p PROVE k * r <= (p - 1) * r
      BY <3>2, <3>3, <3>4, <3>5
    <3> QED
      BY <3>5
  <2>3. (p - 1) * r = r * p - r
    BY <1>1
  <2>4. (p - 1) * r <= l - 1
    BY <1>1, <1>4, <2>3
  <2>5. k = p => (k - 1) * r <= l
    BY <2>4
  <2>6. k # p => k * r <= l
    <3>1. (p - 1) * r \in Int /\ k * r \in Int
      BY <1>1
    <3> QED
      BY <1>1, <2>2, <2>4, <3>1
  <2> QED
    BY <1>1, <2>1, <2>5, <2>6
<1>7. UpTo(input, 0) = 0
  BY <1>1, <1>3, <1>5 DEF UpTo
<1>8. ASSUME NEW k \in 1 .. p
      PROVE  /\ UpTo(input, k - 1) = (k - 1) * r /\ UpTo(input, k - 1) \in Nat
             /\ UpTo(input, k) \in Nat
             /\ UpTo(input, k - 1) <= UpTo(input, k) /\ UpTo(input, k) <= l
  <2>1. UpTo(input, k - 1) = (k - 1) * r
    <3>1. k - 1 # p
      OBVIOUS
    <3> QED
      BY <1>1, <1>3, <3>1 DEF UpTo
  <2>2. UpTo(input, k) = IF k = p THEN l ELSE k * r
    BY <1>1, <1>3 DEF UpTo
  <2> QED
    BY <1>1, <1>6, <2>1, <2>2
<1> QED
  BY <1>1, <1>3, <1>7, <1>8

(* update_stream does what update does with the whole input. *)
LEMMA StreamHolds ==
  ASSUME NEW c, NEW message, Holds(c, message), NEW input \in Seq(Bytes)
  PROVE  Holds(update_stream(c, input), message \o input)
<1>1. PICK f : IsAfter(f, c, input, Pieces(input)) /\ update_stream(c, input) = f[Pieces(input)]
  BY StreamIs
<1>2. PICK p \in Nat : p = Pieces(input)
  BY PiecesFit
<1>3. f = [k \in 0 .. p |-> IF k = 0 THEN c ELSE update(f[k - 1], Read(input, k))]
  BY <1>1, <1>2 DEF IsAfter
<1>4. message \in Seq(Bytes)
  BY HoldsType
<1> DEFINE Right(k) == Holds(f[k], message \o SubSeq(input, 1, UpTo(input, k)))
<1>5. Right(0)
  <2>1. f[0] = c
    BY <1>3
  <2>2. SubSeq(input, 1, UpTo(input, 0)) = <<>>
    BY PiecesFit, SubSeqEmpty
  <2>3. message \o <<>> = message
    BY <1>4, ConcatEmptySeq
  <2> QED
    BY <2>1, <2>2, <2>3
<1>6. ASSUME NEW k \in 1 .. p, Right(k - 1) PROVE Right(k)
  <2>1. PICK a \in Nat, b \in Nat : /\ a = UpTo(input, k - 1) /\ b = UpTo(input, k)
                                    /\ a = (k - 1) * ReadSize /\ a <= b /\ b <= Len(input)
    BY <1>2, PiecesFit
  <2>2. Read(input, k) = SubSeq(input, a + 1, b)
    BY <2>1 DEF Read, UpTo
  <2>3. /\ SubSeq(input, 1, a) \in Seq(Bytes) /\ SubSeq(input, a + 1, b) \in Seq(Bytes)
        /\ Joined(input, a, b)
    BY <2>1, Joins
  <2>4. f[k] = update(f[k - 1], Read(input, k))
    BY <1>3
  <2>5. Holds(f[k - 1], message \o SubSeq(input, 1, a))
    BY <1>6, <2>1
  <2>6. Holds(f[k], (message \o SubSeq(input, 1, a)) \o SubSeq(input, a + 1, b))
    BY <2>2, <2>3, <2>4, <2>5, UpdateHolds
  <2>7. Assoc(message, SubSeq(input, 1, a), SubSeq(input, a + 1, b))
    BY <1>4, <2>3, Associates
  <2> QED
    BY <2>1, <2>3, <2>6, <2>7 DEF Assoc, Joined
<1> HIDE DEF Right
<1> DEFINE T == {k \in Nat : k <= p /\ ~Right(k)}
<1>7. ASSUME T # {} PROVE FALSE
  <2>1. PICK x \in T : \A y \in T : x <= y
    BY <1>7, Smallest
  <2>2. x \in Nat /\ x <= p /\ ~Right(x)
    BY <2>1
  <2>3. x # 0
    BY <1>5, <2>2
  <2>4. x \in 1 .. p /\ x - 1 \in Nat /\ x - 1 <= p /\ ~(x <= x - 1)
    BY <2>2, <2>3
  <2>5. x - 1 \notin T
    BY <2>1, <2>4
  <2>6. Right(x - 1)
    BY <2>4, <2>5
  <2> QED
    BY <1>6, <2>2, <2>4, <2>6
<1>8. Right(p)
  BY <1>7
<1>9. SubSeq(input, 1, UpTo(input, p)) = input
  BY <1>2, SubSeqFull DEF UpTo
<1> QED
  BY <1>1, <1>2, <1>8, <1>9 DEF Right

-----------------------------------------------------------------------------
(* finalize. *)

LEMMA PaddingIs ==
  ASSUME NEW n \in Nat
  PROVE  /\ PADDING(n) \in Seq(Bytes) /\ Len(PADDING(n)) = n
         /\ \A i \in 1 .. n : PADDING(n)[i] = IF i = 1 THEN 128 ELSE 0
<1> DEFINE f == [i \in 1 .. n |-> IF i = 1 THEN 128 ELSE 0]
<1>1. f \in [1 .. n -> Bytes]
  BY DEF Bytes
<1>2. \A i \in 1 .. n : f[i] = IF i = 1 THEN 128 ELSE 0
  OBVIOUS
<1> HIDE DEF f
<1>3. f \in Seq(Bytes) /\ Len(f) = n
  BY <1>1, FunctionIsSeq
<1>4. PADDING(n) = f
  BY DEF PADDING, f
<1> QED
  BY <1>2, <1>3, <1>4

LEMMA EncodeIs ==
  ASSUME NEW w \in Nat
  PROVE  encode(w) \in Seq(Bytes) /\ Len(encode(w)) = 4
<1>1. PICK a, b, d, e : /\ a = w % 256 /\ b = (w \div 256) % 256 /\ d = (w \div 65536) % 256
                        /\ e = (w \div 16777216) % 256
  OBVIOUS
<1>2. a \in Bytes /\ b \in Bytes /\ d \in Bytes /\ e \in Bytes
  BY <1>1 DEF Bytes
<1>3. encode(w) = <<a, b, d, e>>
  BY <1>1 DEF encode
<1> QED
  BY <1>2, <1>3

(* The octets that finalize puts behind a message of n octets. *)
Trailer(n) == PADDING(PadLength(n % 64)) \o (encode(BitsOf(n)[1]) \o encode(BitsOf(n)[2]))

LEMMA LengthIs ==
  ASSUME NEW n \in Nat, NEW s, s = encode(BitsOf(n)[1]) \o encode(BitsOf(n)[2])
  PROVE  s \in Seq(Bytes) /\ Len(s) = 8
<1>1. BitsOf(n)[1] \in Nat /\ BitsOf(n)[2] \in Nat
  <2>1. PICK w \in Nat, b \in Nat : w = WordSize /\ w > 0 /\ b = 8 * n
    BY Md5Assumption
  <2>2. b % w \in 0 .. w - 1 /\ b \div w \in Nat
    BY <2>1, Division
  <2>3. (b \div w) % w \in 0 .. w - 1
    BY <2>1, <2>2, Division
  <2>4. BitsOf(n) = <<b % w, (b \div w) % w>>
    BY <2>1 DEF BitsOf
  <2> QED
    BY <2>2, <2>3, <2>4
<1>2. PICK x \in Seq(Bytes), y \in Seq(Bytes) :
        /\ x = encode(BitsOf(n)[1]) /\ y = encode(BitsOf(n)[2]) /\ Len(x) = 4 /\ Len(y) = 4
  BY <1>1, EncodeIs
<1>3. x \o y \in Seq(Bytes) /\ Len(x \o y) = Len(x) + Len(y)
  BY ConcatProperties
<1> QED
  BY <1>2, <1>3

LEMMA PadLengthIs ==
  ASSUME NEW n \in Nat
  PROVE  PadLength(n % 64) \in 1 .. 64 /\ (n + PadLength(n % 64) + 8) % 64 = 0
<1>1. PICK q \in Int, i \in 0 .. 63 : n = 64 * q + i /\ i = n % 64
  <2>1. n = 64 * (n \div 64) + (n % 64) /\ n % 64 \in 0 .. 63 /\ n \div 64 \in Int
    OBVIOUS
  <2> QED
    BY <2>1
<1>2. CASE i < 56
  <2>1. PadLength(i) = 56 - i
    BY <1>2 DEF PadLength
  <2>2. n + (56 - i) + 8 = 64 * (q + 1)
    BY <1>1
  <2> QED
    BY <1>1, <1>2, <2>1, <2>2
<1>3. CASE i >= 56
  <2>1. PadLength(i) = 120 - i
    BY <1>3 DEF PadLength
  <2>2. n + (120 - i) + 8 = 64 * (q + 2)
    BY <1>1
  <2> QED
    BY <1>1, <1>3, <2>1, <2>2
<1> QED
  BY <1>2, <1>3

(* The parts of Padded, named. *)
TotalOf(n)  == CHOOSE t \in n + 9 .. n + 72 : t % 64 = 0
LengthOf(n) == encode((8 * n) % WordSize) \o encode(((8 * n) \div WordSize) % WordSize)

LEMMA PaddedAt ==
  ASSUME NEW message, NEW n, n = Len(message), NEW total, total = TotalOf(n)
  PROVE  /\ Padded(message) = [i \in 1 .. total |-> Padded(message)[i]]
         /\ \A i \in 1 .. total :
              Padded(message)[i] = IF i <= n THEN message[i] ELSE IF i = n + 1 THEN 128
                                   ELSE IF i <= total - 8 THEN 0 ELSE LengthOf(n)[i - (total - 8)]
<1>1. Padded(message) =
        [i \in 1 .. TotalOf(Len(message)) |->
           IF i <= Len(message) THEN message[i] ELSE IF i = Len(message) + 1 THEN 128
           ELSE IF i <= TotalOf(Len(message)) - 8 THEN 0
           ELSE LengthOf(Len(message))[i - (TotalOf(Len(message)) - 8)]]
  BY DEF Padded, TotalOf, LengthOf
<1>2. PICK f : f = Padded(message)
  OBVIOUS
<1>3. DOMAIN f = 1 .. total /\ f = [i \in DOMAIN f |-> f[i]]
  BY <1>1, <1>2
<1>4. ASSUME NEW i \in 1 .. total
      PROVE  f[i] = IF i <= n THEN message[i] ELSE IF i = n + 1 THEN 128
                    ELSE IF i <= total - 8 THEN 0 ELSE LengthOf(n)[i - (total - 8)]
  BY <1>1, <1>2
<1> QED
  BY <1>2, <1>3, <1>4

(* The reference puts the same octets behind it. *)
LEMMA PaddedIs ==
  ASSUME NEW message \in Seq(Bytes)
  PROVE  Padded(message) = message \o Trailer(Len(message))
<1>1. PICK n \in Nat : n = Len(message)
  OBVIOUS
<1>2. PICK p \in 1 .. 64 : p = PadLength(n % 64) /\ (n + p + 8) % 64 = 0
  BY PadLengthIs
<1>3. PICK pad \in Seq(Bytes) : /\ pad = PADDING(p) /\ Len(pad) = p
                                /\ \A i \in 1 .. p : pad[i] = IF i = 1 THEN 128 ELSE 0
  <2>1. p \in Nat
    OBVIOUS
  <2>2. /\ PADDING(p) \in Seq(Bytes) /\ Len(PADDING(p)) = p
        /\ \A i \in 1 .. p : PADDING(p)[i] = IF i = 1 THEN 128 ELSE 0
    BY <2>1, PaddingIs
  <2> QED
    BY <2>2, Zenon
<1>4. PICK length \in Seq(Bytes) : /\ length = encode(BitsOf(n)[1]) \o encode(BitsOf(n)[2])
                                   /\ Len(length) = 8
  BY LengthIs
<1>5. PICK tail \in Seq(Bytes) :
        /\ tail = pad \o length /\ Len(tail) = p + 8
        /\ \A i \in 1 .. p + 8 : tail[i] = IF i <= p THEN pad[i] ELSE length[i - p]
  <2>1. /\ pad \o length \in Seq(Bytes) /\ Len(pad \o length) = Len(pad) + Len(length)
        /\ \A i \in 1 .. Len(pad) + Len(length) :
             (pad \o length)[i] = IF i <= Len(pad) THEN pad[i] ELSE length[i - Len(pad)]
    BY ConcatProperties
  <2>2. Len(pad) = p /\ Len(pad) + Len(length) = p + 8
    BY <1>3, <1>4
  <2> QED
    BY <2>1, <2>2
<1>6. Trailer(Len(message)) = tail
  BY <1>1, <1>2, <1>3, <1>4, <1>5 DEF Trailer
<1>7. PICK whole \in Seq(Bytes) :
        /\ whole = message \o tail /\ Len(whole) = n + p + 8
        /\ \A i \in 1 .. n + p + 8 : whole[i] = IF i <= n THEN message[i] ELSE tail[i - n]
  <2>1. /\ message \o tail \in Seq(Bytes) /\ Len(message \o tail) = Len(message) + Len(tail)
        /\ \A i \in 1 .. Len(message) + Len(tail) :
             (message \o tail)[i] = IF i <= Len(message) THEN message[i] ELSE tail[i - Len(message)]
    BY ConcatProperties
  <2>2. PICK m \in Nat : m = Len(tail) /\ m = p + 8
    BY <1>5
  <2>3. n + m = n + p + 8
    BY <2>2
  <2>4. Len(message) = n /\ Len(message) + Len(tail) = n + p + 8
    BY <1>1, <2>2, <2>3
  <2> QED
    BY <2>1, <2>4
<1>8. (CHOOSE t \in n + 9 .. n + 72 : t % 64 = 0) = n + p + 8
  <2>1. PICK u : u = CHOOSE t \in n + 9 .. n + 72 : t % 64 = 0
    OBVIOUS
  <2>2. n + p + 8 \in n + 9 .. n + 72
    OBVIOUS
  <2>3. u \in n + 9 .. n + 72 /\ u % 64 = 0
    BY <1>2, <2>1, <2>2
  <2> QED
    BY <1>2, <2>1, <2>2, <2>3
<1> DEFINE element(i) == IF i <= n THEN message[i] ELSE IF i = n + 1 THEN 128
                         ELSE IF i <= n + p + 8 - 8 THEN 0 ELSE length[i - (n + p + 8 - 8)]
<1>9. /\ Padded(message) = [i \in 1 .. n + p + 8 |-> Padded(message)[i]]
      /\ \A i \in 1 .. n + p + 8 : Padded(message)[i] = element(i)
  <2>1. PICK total : total = n + p + 8 /\ total = TotalOf(n)
    BY <1>8 DEF TotalOf
  <2>2. /\ Padded(message) = [i \in 1 .. total |-> Padded(message)[i]]
        /\ \A i \in 1 .. total :
             Padded(message)[i] = IF i <= n THEN message[i] ELSE IF i = n + 1 THEN 128
                                  ELSE IF i <= total - 8 THEN 0 ELSE LengthOf(n)[i - (total - 8)]
    BY <1>1, <2>1, PaddedAt
  <2>3. length = LengthOf(n)
    BY <1>4 DEF LengthOf, BitsOf
  <2>4. Padded(message) = [i \in 1 .. n + p + 8 |-> Padded(message)[i]]
    BY <2>1, <2>2
  <2>5. ASSUME NEW i \in 1 .. n + p + 8 PROVE Padded(message)[i] = element(i)
    <3>1. i \in 1 .. total /\ total - 8 = n + p + 8 - 8
      BY <2>1
    <3> QED
      BY <2>2, <2>3, <3>1
  <2> QED
    BY <2>4, <2>5
<1>10. ASSUME NEW i \in 1 .. n + p + 8 PROVE whole[i] = element(i)
  <2>1. CASE i <= n
    BY <1>7, <2>1
  <2>2. CASE i = n + 1
    <3>1. whole[i] = tail[1]
      BY <1>7, <2>2
    <3>2. tail[1] = pad[1]
      <4>1. 1 \in 1 .. p + 8 /\ 1 <= p
        OBVIOUS
      <4> QED
        BY <1>5, <4>1
    <3>3. pad[1] = 128
      <4>1. 1 \in 1 .. p
        OBVIOUS
      <4> QED
        BY <1>3, <4>1
    <3> QED
      BY <2>2, <3>1, <3>2, <3>3
  <2>3. CASE n + 1 < i /\ i <= n + p
    <3>1. i - n \in 1 .. p /\ i - n # 1 /\ i - n \in 1 .. p + 8 /\ i - n <= p
      BY <2>3
    <3>2. whole[i] = tail[i - n]
      BY <1>7, <2>3
    <3>3. tail[i - n] = pad[i - n]
      BY <1>5, <3>1
    <3>4. pad[i - n] = 0
      BY <1>3, <3>1
    <3> QED
      BY <2>3, <3>2, <3>3, <3>4
  <2>4. CASE i > n + p
    <3>1. i - n \in 1 .. p + 8 /\ ~(i - n <= p)
      BY <2>4
    <3>2. whole[i] = tail[i - n]
      BY <1>7, <2>4
    <3>3. tail[i - n] = length[(i - n) - p]
      BY <1>5, <3>1
    <3>4. (i - n) - p = i - (n + p + 8 - 8)
      OBVIOUS
    <3> QED
      BY <2>4, <3>2, <3>3, <3>4
  <2> QED
    BY <2>1, <2>2, <2>3, <2>4
<1>11. whole = [i \in 1 .. n + p + 8 |-> whole[i]]
  <2>1. whole \in [1 .. Len(whole) -> Bytes]
    BY LenProperties
  <2> QED
    BY <1>7, <2>1
<1> HIDE DEF element
<1>12. whole = Padded(message)
  <2>1. \A i \in 1 .. n + p + 8 : whole[i] = Padded(message)[i]
    BY <1>9, <1>10
  <2>2. [i \in 1 .. n + p + 8 |-> whole[i]] = [i \in 1 .. n + p + 8 |-> Padded(message)[i]]
    BY <2>1
  <2> QED
    BY <1>9, <1>11, <2>2
<1> QED
  BY <1>6, <1>7, <1>12

-----------------------------------------------------------------------------
(* The digest is made of octets if the states of the object are of a set   *)
(* that transform does not leave, whatever the block, and encode makes     *)
(* octets of: the four words of the code (Registers of Md5Transform).      *)

OnStates(State) ==
  /\ state0 \in State
  /\ \A s \in State : /\ encode_state(s) \in Seq(Bytes)
                      /\ \A block \in Seq(Bytes) : Len(block) = 64 => transform(s, block) \in State

(* f is the state after each of the first n blocks. *)
IsState(f, octets, n) ==
  f = [k \in 0 .. n |-> IF k = 0 THEN state0
                        ELSE transform(f[k - 1], SubSeq(octets, 64 * k - 63, 64 * k))]

LEMMA StateGrows ==
  ASSUME NEW octets, NEW n \in Nat, NEW f, IsState(f, octets, n)
  PROVE  \E g : IsState(g, octets, n + 1)
<1> DEFINE block(k) == SubSeq(octets, 64 * k - 63, 64 * k)
           g == [k \in 0 .. n + 1 |-> IF k = n + 1 THEN transform(f[n], block(n + 1)) ELSE f[k]]
<1>1. f = [k \in 0 .. n |-> IF k = 0 THEN state0 ELSE transform(f[k - 1], block(k))]
  BY DEF IsState
<1> HIDE DEF block
<1>2. ASSUME NEW k \in 0 .. n + 1
      PROVE  g[k] = IF k = 0 THEN state0 ELSE transform(g[k - 1], block(k))
  <2>1. CASE k = n + 1
    <3>1. g[k] = transform(f[n], block(k)) /\ k # 0
      BY <2>1
    <3>2. k - 1 \in 0 .. n + 1 /\ k - 1 # n + 1 /\ k - 1 = n
      BY <2>1
    <3>3. g[k - 1] = f[n]
      BY <3>2
    <3> QED
      BY <3>1, <3>3
  <2>2. CASE k # n + 1
    <3>1. k \in 0 .. n /\ g[k] = f[k]
      BY <2>2
    <3>2. f[k] = IF k = 0 THEN state0 ELSE transform(f[k - 1], block(k))
      BY <1>1, <3>1
    <3>3. CASE k # 0
      <4>1. k - 1 \in 0 .. n + 1 /\ k - 1 # n + 1
        BY <2>2, <3>3
      <4>2. g[k - 1] = f[k - 1]
        BY <4>1
      <4> QED
        BY <3>1, <3>2, <3>3, <4>2
    <3> QED
      BY <3>1, <3>2, <3>3
  <2> QED
    BY <2>1, <2>2
<1>3. g = [k \in 0 .. n + 1 |-> IF k = 0 THEN state0 ELSE transform(g[k - 1], block(k))]
  BY <1>2
<1>4. IsState(g, octets, n + 1)
  BY <1>3 DEF IsState, block
<1> QED
  BY <1>4

LEMMA StateExists ==
  ASSUME NEW octets, NEW n \in Nat
  PROVE  \E f : IsState(f, octets, n)
<1> DEFINE T == {m \in Nat : ~ \E f : IsState(f, octets, m)}
<1>1. ASSUME T # {} PROVE FALSE
  <2>1. PICK x \in T : \A y \in T : x <= y
    BY <1>1, Smallest
  <2>2. x \in Nat /\ ~ \E f : IsState(f, octets, x)
    BY <2>1
  <2>3. CASE x = 0
    <3> DEFINE g == [k \in 0 .. 0 |-> state0]
    <3>1. g = [k \in 0 .. 0 |-> IF k = 0 THEN state0
                                ELSE transform(g[k - 1], SubSeq(octets, 64 * k - 63, 64 * k))]
      OBVIOUS
    <3> HIDE DEF g
    <3>2. IsState(g, octets, x)
      BY <2>3, <3>1 DEF IsState
    <3> QED
      BY <2>2, <3>2
  <2>4. CASE x > 0
    <3>1. PICK z \in Nat : x = z + 1
      BY <2>2, <2>4
    <3>2. z \notin T
      BY <2>1, <3>1
    <3>3. PICK f : IsState(f, octets, z)
      BY <3>2
    <3> QED
      BY <2>2, <3>1, <3>3, StateGrows
  <2> QED
    BY <2>2, <2>3, <2>4
<1> QED
  BY <1>1

LEMMA StateOfType ==
  ASSUME NEW State, OnStates(State), NEW octets \in Seq(Bytes)
  PROVE  StateOf(octets) \in State
<1> DEFINE n == Len(octets) \div 64
           f == CHOOSE h : IsState(h, octets, n)
           block(k) == SubSeq(octets, 64 * k - 63, 64 * k)
<1>1. n \in Nat
  OBVIOUS
<1>2. IsState(f, octets, n)
  BY <1>1, StateExists
<1>3. StateOf(octets) = f[n]
  BY Zenon DEF StateOf, IsState
<1> HIDE DEF f
<1>4. f = [k \in 0 .. n |-> IF k = 0 THEN state0 ELSE transform(f[k - 1], block(k))]
  BY <1>2 DEF IsState
<1>5. ASSUME NEW k \in 1 .. n PROVE block(k) \in Seq(Bytes) /\ Len(block(k)) = 64
  <2>1. 64 * k <= Len(octets)
    OBVIOUS
  <2>2. \A i \in 64 * k - 63 .. 64 * k : octets[i] \in Bytes
    BY <2>1
  <2>3. 64 * k - 63 <= 64 * k /\ 64 * k - (64 * k - 63) + 1 = 64
    OBVIOUS
  <2>4. Len(SubSeq(octets, 64 * k - 63, 64 * k)) = 64 * k - (64 * k - 63) + 1
    BY <2>2, <2>3, SubSeqProperties
  <2> QED
    BY <2>2, <2>3, <2>4, SubSeqProperties
<1> HIDE DEF block, n
<1>6. f[0] \in State
  BY <1>1, <1>4 DEF OnStates
<1>7. ASSUME NEW k \in 1 .. n, f[k - 1] \in State PROVE f[k] \in State
  <2>1. f[k] = transform(f[k - 1], block(k))
    BY <1>1, <1>4
  <2> QED
    BY <1>5, <1>7, <2>1 DEF OnStates
<1> DEFINE T == {k \in Nat : k <= n /\ f[k] \notin State}
<1>8. ASSUME T # {} PROVE FALSE
  <2>1. PICK x \in T : \A y \in T : x <= y
    BY <1>8, Smallest
  <2>2. x \in Nat /\ x <= n /\ f[x] \notin State
    BY <2>1
  <2>3. x # 0
    BY <1>6, <2>2
  <2>4. x \in 1 .. n /\ x - 1 \in Nat /\ x - 1 <= n /\ ~(x <= x - 1)
    BY <1>1, <2>2, <2>3
  <2>5. x - 1 \notin T
    BY <2>1, <2>4
  <2>6. f[x - 1] \in State
    BY <2>4, <2>5
  <2> QED
    BY <1>7, <2>2, <2>4, <2>6
<1>9. f[n] \in State
  BY <1>1, <1>8
<1> QED
  BY <1>3, <1>9

LEMMA Md5Type ==
  ASSUME NEW State, OnStates(State), NEW message \in Seq(Bytes)
  PROVE  Padded(message) \in Seq(Bytes) /\ Md5Of(message) \in Seq(Bytes)
<1>1. PICK n \in Nat : n = Len(message)
  OBVIOUS
<1>2. PADDING(PadLength(n % 64)) \in Seq(Bytes)
  <2>1. PICK p \in 1 .. 64 : p = PadLength(n % 64)
    BY PadLengthIs
  <2>2. p \in Nat
    OBVIOUS
  <2> QED
    BY <2>1, <2>2, PaddingIs
<1>3. encode(BitsOf(n)[1]) \o encode(BitsOf(n)[2]) \in Seq(Bytes)
  BY LengthIs
<1>4. Trailer(n) \in Seq(Bytes)
  BY <1>2, <1>3, ConcatProperties DEF Trailer
<1>5. Padded(message) \in Seq(Bytes)
  BY <1>1, <1>4, PaddedIs, ConcatProperties
<1> QED
  BY <1>5, StateOfType DEF Md5Of, OnStates

(* What finalize has transformed is the message with its padding.          *)
LEMMA FinalizeIs ==
  ASSUME NEW State, OnStates(State), NEW c, NEW message, Holds(c, message)
  PROVE  /\ finalize(c) \in Context /\ finalize(c).finalized
         /\ finalize(c).hashed = Padded(message) /\ finalize(c).digest = Md5Of(message)
<1>1. message \in Seq(Bytes) /\ buffer_index(c) = Len(message) % 64
  BY HoldsType
<1>2. PICK n \in Nat : n = Len(message)
  BY <1>1
<1>3. c.count = BitsOf(n) /\ ~c.finalized
  BY <1>2 DEF Holds
<1>4. PICK p \in 1 .. 64 : p = PadLength(n % 64) /\ (n + p + 8) % 64 = 0
  BY PadLengthIs
<1>5. PICK pad \in Seq(Bytes) : pad = PADDING(p) /\ Len(pad) = p
  BY PaddingIs
<1>6. PICK bits \in Seq(Bytes) : bits = encode(BitsOf(n)[1]) \o encode(BitsOf(n)[2]) /\ Len(bits) = 8
  BY LengthIs
<1>7. PICK whole : whole = update(update(c, pad), bits)
  OBVIOUS
<1>8. Holds(whole, (message \o pad) \o bits)
  BY <1>7, UpdateHolds
<1>9. Assoc(message, pad, bits)
  BY <1>1, Associates
<1>10. pad \o bits = Trailer(Len(message))
  BY <1>2, <1>4, <1>5, <1>6 DEF Trailer
<1>11. (message \o pad) \o bits = Padded(message)
  BY <1>1, <1>9, <1>10, PaddedIs DEF Assoc
<1>12. Len(Padded(message)) = n + p + 8
  <2>1. message \o pad \in Seq(Bytes) /\ Len(message \o pad) = n + p
    BY <1>1, <1>2, <1>5, ConcatProperties
  <2>2. Len((message \o pad) \o bits) = (n + p) + 8
    BY <1>6, <2>1, ConcatProperties
  <2> QED
    BY <1>11, <2>2
<1>13. buffer_index(whole) = 0 /\ Waiting(whole) \in Seq(Bytes) /\ Len(Waiting(whole)) = 0
  <2>1. Holds(whole, Padded(message))
    BY <1>8, <1>11
  <2>2. /\ buffer_index(whole) = Len(Padded(message)) % 64
        /\ Waiting(whole) \in Seq(Bytes) /\ Len(Waiting(whole)) = buffer_index(whole)
    BY <2>1, HoldsType
  <2> QED
    BY <1>4, <1>12, <2>2
<1>14. whole \in Context /\ whole.hashed \o Waiting(whole) = Padded(message)
  BY <1>8, <1>11 DEF Holds
<1>15. whole.hashed = Padded(message)
  <2>1. Waiting(whole) = <<>>
    BY <1>13, EmptySeq
  <2>2. whole.hashed \in Seq(Bytes)
    BY <1>14, ContextType
  <2> QED
    BY <1>14, <2>1, <2>2, ConcatEmptySeq
<1>16. PICK zeros : zeros = [i \in 1 .. 64 |-> 0]
  OBVIOUS
<1>17. finalize(c) = [whole EXCEPT !.buffer = zeros, !.finalized = TRUE,
                                   !.digest = encode_state(StateOf(whole.hashed))]
  BY <1>1, <1>2, <1>3, <1>4, <1>5, <1>6, <1>7, <1>16 DEF finalize
<1>18. zeros \in Buffer
  BY <1>16 DEF Buffer, Bytes
<1>19. encode_state(StateOf(whole.hashed)) = Md5Of(message) /\ Md5Of(message) \in Seq(Bytes)
  BY <1>1, <1>15, Md5Type DEF Md5Of
<1> QED
  BY <1>14, <1>15, <1>17, <1>18, <1>19, ContextIs

-----------------------------------------------------------------------------
(* The pieces that the mechanisms give to their objects are octets. *)

LEMMA XorByteType ==
  ASSUME NEW a \in Bytes, NEW b \in Bytes
  PROVE  XorByte(a, b) \in Bytes
<1> DEFINE bit(x, k) == (x \div 2 ^ k) % 2
           digit(k) == IF bit(a, k) = bit(b, k) THEN 0 ELSE 2 ^ k
<1>1. /\ digit(0) \in {0, 1} /\ digit(1) \in {0, 2} /\ digit(2) \in {0, 4} /\ digit(3) \in {0, 8}
      /\ digit(4) \in {0, 16} /\ digit(5) \in {0, 32} /\ digit(6) \in {0, 64} /\ digit(7) \in {0, 128}
  BY SMT
<1>2. XorByte(a, b) = digit(0) + digit(1) + digit(2) + digit(3) + digit(4) + digit(5) + digit(6)
                      + digit(7)
  BY DEF XorByte
<1> HIDE DEF digit
<1> QED
  BY <1>1, <1>2 DEF Bytes

LEMMA XorByteMask ==
  XorByte(0, 54) = 54 /\ XorByte(0, 92) = 92
BY SMT DEF XorByte

LEMMA Pad64Type ==
  ASSUME NEW password \in Seq(Bytes), NEW mask \in Bytes
  PROVE  Pad64(password, mask) \in Seq(Bytes)
<1>1. PICK n \in Nat, size \in Nat : n = Len(password) /\ size = 64
  OBVIOUS
<1> DEFINE octet(i) == IF i <= n THEN password[i] ELSE 0
<1>2. ASSUME NEW i \in 1 .. size PROVE octet(i) \in Bytes
  <2>1. CASE i <= n
    BY <1>1, <2>1
  <2>2. CASE ~(i <= n)
    BY <2>2 DEF Bytes
  <2> QED
    BY <2>1, <2>2
<1> HIDE DEF octet
<1>3. [i \in 1 .. size |-> XorByte(octet(i), mask)] \in [1 .. size -> Bytes]
  BY <1>2, XorByteType
<1>4. Pad64(password, mask) = [i \in 1 .. size |-> XorByte(octet(i), mask)]
  BY <1>1 DEF Pad64, octet
<1> QED
  BY <1>3, <1>4, FunctionIsSeq

LEMMA HexType ==
  ASSUME NEW c, c.digest \in Seq(Bytes)
  PROVE  hex_digest(c) \in Seq(Bytes)
<1>1. PICK digest \in Seq(Bytes), n \in Nat : digest = c.digest /\ n = Len(digest)
  OBVIOUS
<1> DEFINE octet(j) == digest[(j + 1) \div 2]
           digit(j) == HexDigit(IF j % 2 = 1 THEN octet(j) \div 16 ELSE octet(j) % 16)
<1>2. ASSUME NEW j \in 1 .. 2 * n PROVE digit(j) \in Bytes
  <2>1. (j + 1) \div 2 \in 1 .. n
    OBVIOUS
  <2>2. octet(j) \in Bytes
    BY <1>1, <2>1
  <2> HIDE DEF octet
  <2>3. PICK o \in 0 .. 255 : o = octet(j)
    BY <2>2 DEF Bytes
  <2>4. PICK h \in 0 .. 15 : h = IF j % 2 = 1 THEN o \div 16 ELSE o % 16
    <3>1. o \div 16 \in 0 .. 15 /\ o % 16 \in 0 .. 15
      OBVIOUS
    <3> QED
      BY <3>1
  <2>5. HexDigit(h) \in Bytes
    BY DEF HexDigit, Bytes
  <2> QED
    BY <2>3, <2>4, <2>5
<1>3. hex_digest(c) = [j \in 1 .. 2 * n |-> digit(j)]
  BY <1>1 DEF hex_digest, raw_digest
<1> HIDE DEF digit
<1>4. PICK m \in Nat : m = 2 * n
  OBVIOUS
<1>5. [j \in 1 .. m |-> digit(j)] \in [1 .. m -> Bytes]
  BY <1>2, <1>4
<1> QED
  BY <1>3, <1>4, <1>5, FunctionIsSeq

-----------------------------------------------------------------------------
(* The inductive invariant: what the object at work has been given, ...    *)

(* The object c has been finalized behind message. *)
Done(c, message) ==
  c \in Context /\ c.finalized /\ c.hashed = Padded(message) /\ c.digest = Md5Of(message)

Given ==
  /\ fed \in Seq(Bytes) /\ todo \in Seq(Seq(Bytes))
  /\ ~ctx.finalized => Holds(ctx, fed)
  /\ ctx.finalized => /\ Done(ctx, fed) /\ todo = <<>>
                      /\ digests # <<>> /\ ctx = digests[Len(digests)]

(* ... the objects before it, ... *)
Computed ==
  /\ digests \in Seq(Context) /\ Len(digests) <= 4
  /\ \A k \in 1 .. Len(digests) : digests[k].finalized

(* ... and how many there are at each place. *)
Placed ==
  /\ task \in Tasks /\ pc \in {"begin", "hash", "answer", "done", "thrown"}
  /\ pc = "begin" => ~ctx.finalized /\ digests = <<>>
  /\ pc = "hash" => /\ task.mechanism \in {"CRAM-MD5", "DIGEST-MD5", "OBJECT", "STREAM"}
                    /\ Len(digests) < Objects
  /\ pc = "answer" => ctx.finalized /\ Len(digests) = Objects

ObjectInv == Given /\ Computed /\ Placed

LEMMA TaskTypes ==
  ASSUME task \in Tasks
  PROVE  /\ task.mechanism \in {"LOGIN", "PLAIN", "CRAM-MD5", "DIGEST-MD5", "OBJECT", "STREAM"}
         /\ task.login \in Seq(Bytes) /\ task.password \in Seq(Bytes) /\ task.plain \in Seq(Bytes)
         /\ task.realm \in Seq(Bytes) /\ task.nonce \in Seq(Bytes) /\ task.cnonce \in Seq(Bytes)
         /\ task.uri \in Seq(Bytes) /\ task.pieces \in Seq(Seq(Bytes))
         /\ task.mechanism = "CRAM-MD5" => task.challenge = Encoded(task.plain)
BY TasksAssumption

LEMMA ObjectsType ==
  ASSUME task.mechanism \in {"CRAM-MD5", "DIGEST-MD5", "OBJECT", "STREAM"}
  PROVE  Objects \in 1 .. 4
BY DEF Objects

LEMMA TwoPieces ==
  ASSUME NEW a \in Seq(Bytes), NEW b \in Seq(Bytes)
  PROVE  <<a, b>> \in Seq(Seq(Bytes))
OBVIOUS

LEMMA DigestPiecesType ==
  ASSUME ObjectInv, Len(digests) \in 0 .. 3
  PROVE  DigestPieces \in Seq(Seq(Bytes))
<1>1. /\ task.login \in Seq(Bytes) /\ task.password \in Seq(Bytes)
      /\ task.realm \in Seq(Bytes) /\ task.nonce \in Seq(Bytes) /\ task.cnonce \in Seq(Bytes)
      /\ task.uri \in Seq(Bytes)
  BY TaskTypes DEF ObjectInv, Placed
<1>2. /\ Colon \in Seq(Bytes) /\ AUTHENTICATE \in Seq(Bytes) /\ auth \in Seq(Bytes)
      /\ nc \in Seq(Bytes)
  BY DEF Colon, AUTHENTICATE, auth, nc, Bytes
<1>3. ASSUME NEW k \in 1 .. Len(digests)
      PROVE  digests[k].digest \in Seq(Bytes) /\ hex_digest(digests[k]) \in Seq(Bytes)
  <2>1. digests[k] \in Context
    BY DEF ObjectInv, Computed
  <2> QED
    BY <2>1, ContextType, HexType
<1>4. CASE Len(digests) = 0
  <2>1. <<task.login, Colon, task.realm, Colon, task.password>> \in Seq(Seq(Bytes))
    BY <1>1, <1>2
  <2> QED
    BY <1>4, <2>1 DEF DigestPieces
<1>5. CASE Len(digests) = 1
  <2>1. raw_digest(digests[1]) \in Seq(Bytes)
    BY <1>3, <1>5 DEF raw_digest
  <2>2. <<raw_digest(digests[1]), Colon, task.nonce, Colon, task.cnonce>> \in Seq(Seq(Bytes))
    BY <1>1, <1>2, <2>1
  <2> QED
    BY <1>5, <2>2 DEF DigestPieces
<1>6. CASE Len(digests) = 2
  BY <1>1, <1>2, <1>6, TwoPieces DEF DigestPieces
<1>7. CASE Len(digests) = 3
  <2>1. hex_digest(digests[2]) \in Seq(Bytes) /\ hex_digest(digests[3]) \in Seq(Bytes)
    BY <1>3, <1>7
  <2>2. <<hex_digest(digests[2]), Colon, task.nonce, Colon, nc, Colon, task.cnonce, Colon, auth,
          Colon, hex_digest(digests[3])>> \in Seq(Seq(Bytes))
    BY <1>1, <1>2, <2>1
  <2> QED
    BY <1>7, <2>2 DEF DigestPieces
<1> QED
  BY <1>4, <1>5, <1>6, <1>7

-----------------------------------------------------------------------------
(* CRAM-MD5: what its objects are given, and what is left of it.           *)

CramKey   == IF LongPassword(task.password) THEN Md5Of(task.password) ELSE task.password
CramInner == Pad64(CramKey, 54) \o task.plain
CramOuter == Pad64(CramKey, 92) \o Md5Of(CramInner)
CramMessage(k) ==
  IF LongPassword(task.password) /\ k = 1 THEN task.password
  ELSE IF k = (IF LongPassword(task.password) THEN 2 ELSE 1) THEN CramInner ELSE CramOuter

Left(pieces) ==
  IF pieces = <<>> THEN <<>> ELSE IF Len(pieces) = 1 THEN pieces[1] ELSE pieces[1] \o pieces[2]

Keyed ==
  task.mechanism = "CRAM-MD5" =>
    /\ \A k \in 1 .. Len(digests) : digests[k].digest = Md5Of(CramMessage(k))
    /\ pc = "hash" /\ ~ctx.finalized =>
         Len(todo) <= 2 /\ fed \o Left(todo) = CramMessage(Len(digests) + 1)

(* The challenge is what the relay has encoded. *)
LEMMA ChallengeIs ==
  ASSUME task \in Tasks, task.mechanism = "CRAM-MD5"
  PROVE  Challenge = task.plain
BY TaskTypes, DecodedIs DEF Challenge, CRLF

LEMMA CramPiecesAre ==
  ASSUME NEW State, OnStates(State), ObjectInv, Keyed, task.mechanism = "CRAM-MD5",
         Len(digests) < Objects
  PROVE  /\ CramPieces \in Seq(Seq(Bytes)) /\ Len(CramPieces) <= 2
         /\ <<>> \o Left(CramPieces) = CramMessage(Len(digests) + 1)
<1>1. task \in Tasks /\ task.password \in Seq(Bytes) /\ task.plain \in Seq(Bytes)
  BY TaskTypes DEF ObjectInv, Placed
<1>2. PICK n \in 0 .. 4 : n = Len(digests)
  <2>1. digests \in Seq(Context) /\ Len(digests) <= 4
    BY DEF ObjectInv, Computed
  <2>2. Len(digests) \in 0 .. 4
    <3>1. PICK l \in Nat : l = Len(digests)
      BY <2>1, LenProperties
    <3>2. l <= 4
      BY <2>1, <3>1
    <3>3. l \in 0 .. 4
      BY <3>2
    <3> QED
      BY <3>1, <3>3
  <2> QED
    BY <2>2
<1>3. Challenge = task.plain
  BY <1>1, ChallengeIs
<1>4. ASSUME NEW k \in 1 .. n PROVE digests[k].digest = Md5Of(CramMessage(k))
  BY <1>2 DEF Keyed
<1>5. ASSUME NEW p \in Seq(Bytes), NEW m \in {54, 92} PROVE Pad64(p, m) \in Seq(Bytes)
  <2>1. m \in Bytes
    BY DEF Bytes
  <2> QED
    BY <2>1, Pad64Type
<1>6. CramKey \in Seq(Bytes) /\ CramInner \in Seq(Bytes) /\ CramOuter \in Seq(Bytes)
  <2>1. CramKey \in Seq(Bytes)
    BY <1>1, Md5Type DEF CramKey
  <2>2. Pad64(CramKey, 54) \in Seq(Bytes) /\ Pad64(CramKey, 92) \in Seq(Bytes)
    BY <1>5, <2>1
  <2>3. CramInner \in Seq(Bytes)
    BY <1>1, <2>2, ConcatProperties DEF CramInner
  <2>4. Md5Of(CramInner) \in Seq(Bytes)
    BY <2>3, Md5Type
  <2>5. CramOuter \in Seq(Bytes)
    BY <2>2, <2>4, ConcatProperties DEF CramOuter
  <2> QED
    BY <2>1, <2>3, <2>5
<1>7. digests = <<>> <=> n = 0
  BY <1>2 DEF ObjectInv, Computed
<1>8. Objects = IF LongPassword(task.password) THEN 3 ELSE 2
  BY DEF Objects
<1>9. CASE LongPassword(task.password) /\ n = 0
  <2>1. CramPieces = <<task.password>>
    BY <1>7, <1>9 DEF CramPieces
  <2>2. CramMessage(n + 1) = task.password
    BY <1>9 DEF CramMessage
  <2>3. Left(CramPieces) = task.password
    BY <2>1 DEF Left
  <2>4. CramPieces \in Seq(Seq(Bytes)) /\ Len(CramPieces) = 1
    BY <1>1, <2>1
  <2> QED
    BY <1>1, <1>2, <2>2, <2>3, <2>4, ConcatEmptySeq
<1>10. CASE n = IF LongPassword(task.password) THEN 1 ELSE 0
  <2>1. CramPieces = <<Pad64(Key, 54), Challenge>>
    BY <1>2, <1>7, <1>10 DEF CramPieces
  <2>2. Key = CramKey
    <3>1. CASE LongPassword(task.password)
      <4>1. digests[1].digest = Md5Of(CramMessage(1))
        BY <1>4, <1>10, <3>1
      <4>2. CramMessage(1) = task.password
        BY <3>1 DEF CramMessage
      <4> QED
        BY <3>1, <4>1, <4>2 DEF Key, CramKey, raw_digest
    <3>2. CASE ~LongPassword(task.password)
      BY <3>2 DEF Key, CramKey
    <3> QED
      BY <3>1, <3>2
  <2>3. PICK a \in Seq(Bytes) : a = Pad64(CramKey, 54)
    BY <1>5, <1>6
  <2>4. CramPieces = <<a, task.plain>>
    BY <1>3, <2>1, <2>2, <2>3
  <2>5. Left(CramPieces) = CramInner
    BY <2>3, <2>4 DEF Left, CramInner
  <2>6. CramMessage(n + 1) = CramInner
    BY <1>10 DEF CramMessage
  <2>7. CramPieces \in Seq(Seq(Bytes)) /\ Len(CramPieces) = 2
    BY <1>1, <2>4, TwoPieces
  <2> QED
    BY <1>2, <1>6, <2>5, <2>6, <2>7, ConcatEmptySeq
<1>11. CASE n = IF LongPassword(task.password) THEN 2 ELSE 1
  <2>1. CramPieces = <<Pad64(Key, 92), raw_digest(digests[n])>>
    BY <1>2, <1>7, <1>11 DEF CramPieces
  <2>2. Key = CramKey
    <3>1. CASE LongPassword(task.password)
      <4>1. digests[1].digest = Md5Of(CramMessage(1))
        BY <1>4, <1>11, <3>1
      <4>2. CramMessage(1) = task.password
        BY <3>1 DEF CramMessage
      <4> QED
        BY <3>1, <4>1, <4>2 DEF Key, CramKey, raw_digest
    <3>2. CASE ~LongPassword(task.password)
      BY <3>2 DEF Key, CramKey
    <3> QED
      BY <3>1, <3>2
  <2>3. PICK a \in Seq(Bytes) : a = Pad64(CramKey, 92)
    BY <1>5, <1>6
  <2>4. PICK b \in Seq(Bytes) : b = Md5Of(CramInner)
    BY <1>6, Md5Type
  <2>5. raw_digest(digests[n]) = b
    <3>1. digests[n].digest = Md5Of(CramMessage(n))
      BY <1>4, <1>11
    <3>2. CramMessage(n) = CramInner
      BY <1>11 DEF CramMessage
    <3> QED
      BY <2>4, <3>1, <3>2 DEF raw_digest
  <2>6. CramPieces = <<a, b>>
    BY <2>1, <2>2, <2>3, <2>5
  <2>7. Left(CramPieces) = CramOuter
    BY <2>3, <2>4, <2>6 DEF Left, CramOuter
  <2>8. CramMessage(n + 1) = CramOuter
    BY <1>11 DEF CramMessage
  <2>9. CramPieces \in Seq(Seq(Bytes)) /\ Len(CramPieces) = 2
    BY <2>6, TwoPieces
  <2> QED
    BY <1>2, <1>6, <2>7, <2>8, <2>9, ConcatEmptySeq
<1> QED
  BY <1>2, <1>8, <1>9, <1>10, <1>11

(* A new object. *)
LEMMA HashStarts ==
  ASSUME ObjectInv, NEW pieces \in Seq(Seq(Bytes)), Hash(pieces), UNCHANGED <<task, digests>>,
         task.mechanism \in {"CRAM-MD5", "DIGEST-MD5", "OBJECT", "STREAM"}, Len(digests) < Objects
  PROVE  ObjectInv'
<1>1. ctx' = init /\ fed' = <<>> /\ todo' = pieces /\ pc' = "hash"
  BY DEF Hash
<1>2. Holds(init, <<>>) /\ ~init.finalized
  BY InitHolds DEF Holds
<1>3. Given'
  BY <1>1, <1>2 DEF Given
<1>4. Computed'
  BY DEF ObjectInv, Computed
<1>5. Objects' = Objects
  BY DEF Objects
<1>6. Placed'
  BY <1>1, <1>5 DEF ObjectInv, Placed
<1> QED
  BY <1>3, <1>4, <1>6 DEF ObjectInv

LEMMA CramStarts ==
  ASSUME NEW State, OnStates(State), ObjectInv, Keyed, task.mechanism = "CRAM-MD5",
         Hash(CramPieces), UNCHANGED <<task, digests>>, Len(digests) < Objects
  PROVE  ObjectInv' /\ Keyed'
<1>1. PICK pieces \in Seq(Seq(Bytes)) :
        /\ pieces = CramPieces /\ Len(pieces) <= 2
        /\ <<>> \o Left(pieces) = CramMessage(Len(digests) + 1)
  BY CramPiecesAre
<1>2. Hash(pieces)
  BY <1>1
<1>3. ObjectInv'
  BY <1>2, HashStarts
<1>4. fed' = <<>> /\ todo' = pieces
  BY <1>2 DEF Hash
<1>5. \A k : CramMessage(k)' = CramMessage(k)
  BY DEF CramMessage, CramInner, CramOuter, CramKey
<1>6. Keyed'
  BY <1>1, <1>4, <1>5 DEF Keyed
<1> QED
  BY <1>3, <1>6

-----------------------------------------------------------------------------
(* The answers. *)

(* The text with its separators replaced, by parts. *)
Zeroed(text) == [i \in DOMAIN text |-> IF text[i] = Caret THEN 0 ELSE text[i]]

LEMMA ZeroedJoined ==
  ASSUME NEW s \in Seq(Bytes), NEW t \in Seq(Bytes)
  PROVE  /\ Zeroed(s \o t) = Zeroed(s) \o Zeroed(t)
         /\ Zeroed(s) \in Seq(Bytes) /\ s \o t \in Seq(Bytes)
<1>1. ASSUME NEW u \in Seq(Bytes)
      PROVE  /\ Zeroed(u) \in Seq(Bytes) /\ Len(Zeroed(u)) = Len(u)
             /\ \A i \in 1 .. Len(u) : Zeroed(u)[i] = IF u[i] = Caret THEN 0 ELSE u[i]
  <2>1. PICK n \in Nat : n = Len(u) /\ DOMAIN u = 1 .. n
    OBVIOUS
  <2> DEFINE octet(i) == IF u[i] = Caret THEN 0 ELSE u[i]
  <2>2. \A i \in 1 .. n : octet(i) \in Bytes
    BY <2>1 DEF Bytes
  <2>3. Zeroed(u) = [i \in 1 .. n |-> octet(i)]
    BY <2>1 DEF Zeroed
  <2> HIDE DEF octet
  <2>4. Zeroed(u) \in [1 .. n -> Bytes] /\ \A i \in 1 .. n : Zeroed(u)[i] = octet(i)
    BY <2>2, <2>3
  <2>5. Zeroed(u) \in Seq(Bytes) /\ Len(Zeroed(u)) = n
    BY <2>4, FunctionIsSeq
  <2> QED
    BY <2>1, <2>4, <2>5 DEF octet
<1>2. s \o t \in Seq(Bytes)
  BY ConcatProperties
<1>3. PICK a \in Nat, b \in Nat : a = Len(s) /\ b = Len(t)
  OBVIOUS
<1>4. Len(s \o t) = a + b /\ Len(Zeroed(s)) = a /\ Len(Zeroed(t)) = b
  BY <1>1, <1>3, ConcatProperties
<1>5. ASSUME NEW i \in 1 .. a + b PROVE Zeroed(s \o t)[i] = (Zeroed(s) \o Zeroed(t))[i]
  <2>1. Zeroed(s \o t)[i] = IF (s \o t)[i] = Caret THEN 0 ELSE (s \o t)[i]
    BY <1>1, <1>2, <1>4
  <2>2. CASE i <= a
    <3>1. i \in 1 .. a
      BY <2>2
    <3>2. (s \o t)[i] = s[i]
      BY <1>3, <3>1, ConcatProperties
    <3>3. (Zeroed(s) \o Zeroed(t))[i] = Zeroed(s)[i]
      BY <1>1, <1>4, <3>1, ConcatProperties
    <3> QED
      BY <1>1, <1>3, <2>1, <3>1, <3>2, <3>3
  <2>3. CASE ~(i <= a)
    <3>1. PICK j \in 1 .. b : i = a + j
      <4>1. i - a \in 1 .. b /\ i = a + (i - a)
        BY <2>3
      <4> QED
        BY <4>1
    <3>2. (s \o t)[i] = t[j]
      BY <1>3, <3>1, ConcatProperties
    <3>3. (Zeroed(s) \o Zeroed(t))[i] = Zeroed(t)[j]
      <4>1. PICK y \in Seq(Bytes), z \in Seq(Bytes) : y = Zeroed(s) /\ z = Zeroed(t)
        BY <1>1
      <4>2. Len(y) = a /\ Len(z) = b
        BY <1>4, <4>1
      <4>3. (y \o z)[i] = z[j]
        BY <3>1, <4>2, ConcatProperties
      <4> QED
        BY <4>1, <4>3
    <3> QED
      BY <1>1, <1>3, <2>1, <3>1, <3>2, <3>3
  <2> QED
    BY <2>2, <2>3
<1>6. /\ Zeroed(s \o t) \in Seq(Bytes) /\ Zeroed(s) \o Zeroed(t) \in Seq(Bytes)
      /\ Len(Zeroed(s \o t)) = a + b /\ Len(Zeroed(s) \o Zeroed(t)) = a + b
  <2>1. PICK y \in Seq(Bytes), z \in Seq(Bytes) : y = Zeroed(s) /\ z = Zeroed(t)
    BY <1>1
  <2>2. Len(y) = a /\ Len(z) = b
    BY <1>4, <2>1
  <2>3. y \o z \in Seq(Bytes) /\ Len(y \o z) = a + b
    BY <2>2, ConcatProperties
  <2>4. Zeroed(s \o t) \in Seq(Bytes) /\ Len(Zeroed(s \o t)) = a + b
    BY <1>1, <1>2, <1>4
  <2> QED
    BY <2>1, <2>3, <2>4
<1>7. Zeroed(s \o t) = Zeroed(s) \o Zeroed(t)
  BY <1>5, <1>6, SeqEqual
<1> QED
  BY <1>1, <1>2, <1>7

LEMMA ZeroedIs ==
  Zeroed(<<Caret>>) = <<0>> /\ <<Caret>> \in Seq(Bytes)
BY DEF Zeroed, Caret, Bytes

LEMMA Unchanged ==
  ASSUME NEW s \in Seq(Bytes), \A i \in 1 .. Len(s) : s[i] # Caret
  PROVE  Zeroed(s) = s
BY DEF Zeroed

(* The message of PLAIN, unless there is a '^' in the credentials. *)
LEMMA PlainIs ==
  ASSUME NEW login \in Seq(Bytes), NEW password \in Seq(Bytes),
         \A i \in DOMAIN (login \o password) : (login \o password)[i] # Caret
  PROVE  /\ Plain(login, password) = login \o <<0>> \o login \o <<0>> \o password
         /\ Plain(login, password) \in Seq(Bytes)
<1> DEFINE text == login \o <<Caret>> \o login \o <<Caret>> \o password
<1>1. Plain(login, password) = Zeroed(text)
  BY DEF Plain, Zeroed
<1>2. PICK mark \in Seq(Bytes) : mark = <<Caret>> /\ Zeroed(mark) = <<0>>
  BY ZeroedIs
<1>3. /\ login \o mark \in Seq(Bytes) /\ login \o mark \o login \in Seq(Bytes)
      /\ login \o mark \o login \o mark \in Seq(Bytes)
      /\ login \o mark \o login \o mark \o password \in Seq(Bytes)
  BY ZeroedJoined
<1>4. Zeroed(login) = login /\ Zeroed(password) = password
  <2>1. PICK a \in Nat, b \in Nat : a = Len(login) /\ b = Len(password)
    OBVIOUS
  <2>2. DOMAIN (login \o password) = 1 .. a + b
    BY <2>1, ConcatProperties
  <2>3. ASSUME NEW i \in 1 .. a PROVE login[i] # Caret
    <3>1. (login \o password)[i] = login[i] /\ i \in 1 .. a + b
      BY <2>1, ConcatProperties
    <3> QED
      BY <2>2, <3>1
  <2>4. ASSUME NEW i \in 1 .. b PROVE password[i] # Caret
    <3>1. a + i \in 1 .. a + b /\ a < a + i /\ (a + i) - a = i
      OBVIOUS
    <3>2. (login \o password)[a + i] = password[i]
      BY <2>1, <3>1, ConcatProperties
    <3> QED
      BY <2>2, <3>1, <3>2
  <2> QED
    BY <2>1, <2>3, <2>4, Unchanged
<1>5. Zeroed(login \o mark) = login \o <<0>>
  <2>1. Zeroed(login \o mark) = Zeroed(login) \o Zeroed(mark)
    BY ZeroedJoined
  <2> QED
    BY <1>2, <1>4, <2>1, Zenon
<1>6. Zeroed(login \o mark \o login) = login \o <<0>> \o login
  <2>1. Zeroed(login \o mark \o login) = Zeroed(login \o mark) \o Zeroed(login)
    BY <1>3, ZeroedJoined
  <2> QED
    BY <1>3, <1>4, <1>5, <2>1, Zenon
<1>7. Zeroed(login \o mark \o login \o mark) = login \o <<0>> \o login \o <<0>>
  <2>1. Zeroed(login \o mark \o login \o mark) = Zeroed(login \o mark \o login) \o Zeroed(mark)
    BY <1>3, ZeroedJoined
  <2> QED
    BY <1>2, <1>3, <1>6, <2>1, Zenon
<1>8. Zeroed(login \o mark \o login \o mark \o password) = login \o <<0>> \o login \o <<0>> \o password
  <2>1. Zeroed(login \o mark \o login \o mark \o password) = Zeroed(login \o mark \o login \o mark) \o Zeroed(password)
    BY <1>3, ZeroedJoined
  <2> QED
    BY <1>3, <1>4, <1>7, <2>1, Zenon
<1>9. Zeroed(login \o mark \o login \o mark \o password) \in Seq(Bytes)
  BY <1>3, ZeroedJoined
<1> QED
  BY <1>1, <1>2, <1>8, <1>9

(* hex_digest writes the digest in hexadecimal. *)
LEMMA HexIs ==
  ASSUME NEW c, c.digest \in Seq(Bytes)
  PROVE  hex_digest(c) = Hex(c.digest)
<1>1. PICK digest \in Seq(Bytes), n \in Nat : digest = c.digest /\ n = Len(digest)
  OBVIOUS
<1> DEFINE E(j) == HexDigit(IF j % 2 = 1 THEN digest[(j + 1) \div 2] \div 16
                            ELSE digest[(j + 1) \div 2] % 16)
           V(j) == IF j % 2 = 1 THEN digest[(j + 1) \div 2] \div 16 ELSE digest[j \div 2] % 16
           F(j) == IF V(j) < 10 THEN 48 + V(j) ELSE 97 + (V(j) - 10)
<1>2. hex_digest(c) = [j \in 1 .. 2 * n |-> E(j)]
  BY <1>1 DEF hex_digest, raw_digest
<1>3. Hex(c.digest) = [j \in 1 .. 2 * n |-> F(j)]
  BY <1>1 DEF Hex
<1>4. ASSUME NEW j \in 1 .. 2 * n PROVE E(j) = F(j)
  <2>1. PICK m \in 1 .. n : m = (j + 1) \div 2 /\ (j % 2 # 1 => j \div 2 = m)
    OBVIOUS
  <2>2. PICK o \in 0 .. 255 : o = digest[m]
    <3>1. digest[m] \in Bytes
      BY <1>1
    <3> QED
      BY <3>1 DEF Bytes
  <2>3. PICK h \in 0 .. 15 : h = IF j % 2 = 1 THEN o \div 16 ELSE o % 16
    <3>1. o \div 16 \in 0 .. 15 /\ o % 16 \in 0 .. 15
      OBVIOUS
    <3> QED
      BY <3>1
  <2>4. E(j) = HexDigit(h)
    BY <2>1, <2>2, <2>3
  <2>5. V(j) = h
    BY <2>1, <2>2, <2>3
  <2>6. HexDigit(h) = IF h < 10 THEN 48 + h ELSE 97 + (h - 10)
    BY DEF HexDigit
  <2> HIDE DEF E, V
  <2> QED
    BY <2>4, <2>5, <2>6
<1> HIDE DEF E, F
<1> QED
  BY <1>2, <1>3, <1>4, Zenon

(* The keyed digest that the code computes is HMAC-MD5. *)
LEMMA HmacIs ==
  ASSUME task \in Tasks, CramKey \in Seq(Bytes)
  PROVE  Hmac(task.password, task.plain) = Md5Of(CramOuter)
<1>1. PICK n \in Nat : n = Len(task.password)
  BY TaskTypes
<1>2. CramKey = IF Len(task.password) <= 64 THEN task.password ELSE Md5Of(task.password)
  BY <1>1 DEF CramKey, LongPassword
<1> DEFINE masked(mask) ==
      [i \in 1 .. 64 |-> IF i <= Len(CramKey) THEN XorByte(CramKey[i], mask) ELSE mask]
<1>3. Hmac(task.password, task.plain) = Md5Of(masked(92) \o Md5Of(masked(54) \o task.plain))
  BY <1>2, Zenon DEF Hmac
<1>4. masked(92) = Pad64(CramKey, 92) /\ masked(54) = Pad64(CramKey, 54)
  BY XorByteMask DEF Pad64
<1> QED
  BY <1>3, <1>4 DEF CramOuter, CramInner

-----------------------------------------------------------------------------
(* The inductive invariant holds, action by action. *)

CredentialsInv == ObjectInv /\ Keyed /\ CredentialsArrive

LEMMA InitCredentials ==
  Init => CredentialsInv
<1> SUFFICES ASSUME Init PROVE CredentialsInv
  OBVIOUS
<1>1. Holds(init, <<>>) /\ ~init.finalized
  BY InitHolds DEF Holds
<1>2. Given
  BY <1>1 DEF Init, Given
<1>3. Computed /\ Placed
  BY <1>1 DEF Init, Computed, Placed
<1>4. Keyed /\ CredentialsArrive
  BY DEF Init, Keyed, CredentialsArrive
<1> QED
  BY <1>2, <1>3, <1>4 DEF CredentialsInv, ObjectInv

LEMMA Same ==
  ASSUME CredentialsInv, UNCHANGED vars
  PROVE  CredentialsInv'
<1>1. Objects' = Objects /\ \A k : CramMessage(k)' = CramMessage(k)
  BY DEF vars, Objects, CramMessage, CramInner, CramOuter, CramKey
<1>2. Given' /\ Computed'
  BY DEF vars, CredentialsInv, ObjectInv, Given, Computed
<1>3. Placed'
  BY <1>1 DEF vars, CredentialsInv, ObjectInv, Placed
<1>4. Keyed'
  BY <1>1 DEF vars, CredentialsInv, Keyed
<1>5. CredentialsArrive'
  BY DEF vars, CredentialsInv, CredentialsArrive
<1> QED
  BY <1>2, <1>3, <1>4, <1>5 DEF CredentialsInv, ObjectInv

(* An answer changes nothing that the objects depend on. *)
LEMMA SendKeeps ==
  ASSUME CredentialsInv, NEW texts, Send(texts)
  PROVE  /\ ObjectInv' /\ Keyed' /\ task' = task /\ answers' = texts
<1>1. pc' = "done" /\ UNCHANGED <<task, ctx, fed, todo, digests>> /\ answers' = texts
  BY DEF Send
<1>2. Objects' = Objects /\ \A k : CramMessage(k)' = CramMessage(k)
  BY <1>1 DEF Objects, CramMessage, CramInner, CramOuter, CramKey
<1>3. Given' /\ Computed'
  BY <1>1 DEF CredentialsInv, ObjectInv, Given, Computed
<1>4. Placed'
  BY <1>1, <1>2 DEF CredentialsInv, ObjectInv, Placed
<1>5. Keyed'
  BY <1>1, <1>2 DEF CredentialsInv, Keyed
<1> QED
  BY <1>1, <1>3, <1>4, <1>5 DEF ObjectInv

LEMMA AnswerLoginSafe ==
  ASSUME CredentialsInv, AnswerLogin
  PROVE  CredentialsInv'
<1>1. task.mechanism = "LOGIN" /\ Send(<<base64_encode(task.login), base64_encode(task.password)>>)
  BY DEF AnswerLogin
<1>2. /\ ObjectInv' /\ Keyed' /\ task' = task
      /\ answers' = <<base64_encode(task.login), base64_encode(task.password)>>
  BY <1>1, SendKeeps
<1>3. task.login \in Seq(Bytes) /\ task.password \in Seq(Bytes)
  BY TaskTypes DEF CredentialsInv, ObjectInv, Placed
<1>4. answers' = <<Encoded(task.login), Encoded(task.password)>>
  BY <1>2, <1>3, EncodedIs
<1>5. CredentialsArrive'
  BY <1>1, <1>2, <1>4 DEF CredentialsArrive
<1> QED
  BY <1>2, <1>5 DEF CredentialsInv

LEMMA AnswerPlainSafe ==
  ASSUME CredentialsInv, AnswerPlain
  PROVE  CredentialsInv'
<1>1. task.mechanism = "PLAIN" /\ Send(<<base64_encode(Plain(task.login, task.password))>>)
  BY DEF AnswerPlain
<1>2. /\ ObjectInv' /\ Keyed' /\ task' = task
      /\ answers' = <<base64_encode(Plain(task.login, task.password))>>
  BY <1>1, SendKeeps
<1>3. task.login \in Seq(Bytes) /\ task.password \in Seq(Bytes)
  BY TaskTypes DEF CredentialsInv, ObjectInv, Placed
<1>4. ASSUME \A i \in DOMAIN (task.login \o task.password) : (task.login \o task.password)[i] # Caret
      PROVE  answers' = <<Encoded(task.login \o <<0>> \o task.login \o <<0>> \o task.password)>>
  <2>1. /\ Plain(task.login, task.password)
             = task.login \o <<0>> \o task.login \o <<0>> \o task.password
        /\ Plain(task.login, task.password) \in Seq(Bytes)
    BY <1>3, <1>4, PlainIs
  <2>2. base64_encode(Plain(task.login, task.password)) = Encoded(Plain(task.login, task.password))
    BY <2>1, EncodedIs
  <2> QED
    BY <1>2, <2>1, <2>2, Zenon
<1>5. CredentialsArrive'
  BY <1>1, <1>2, <1>4 DEF CredentialsArrive
<1> QED
  BY <1>2, <1>5 DEF CredentialsInv

LEMMA AnswerCramSafe ==
  ASSUME NEW State, OnStates(State), CredentialsInv, AnswerCram
  PROVE  CredentialsInv'
<1>1. /\ pc = "answer" /\ task.mechanism = "CRAM-MD5"
      /\ Send(<<base64_encode(task.login \o <<Space>> \o hex_digest(digests[Objects]))>>)
  BY DEF AnswerCram
<1>2. /\ ObjectInv' /\ Keyed' /\ task' = task
      /\ answers' = <<base64_encode(task.login \o <<Space>> \o hex_digest(digests[Objects]))>>
  BY <1>1, SendKeeps
<1>3. task \in Tasks /\ task.login \in Seq(Bytes) /\ task.password \in Seq(Bytes)
  BY TaskTypes DEF CredentialsInv, ObjectInv, Placed
<1>4. PICK n \in 2 .. 3 : n = Objects /\ n = IF LongPassword(task.password) THEN 3 ELSE 2
  BY <1>1 DEF Objects
<1>5. n = Len(digests) /\ digests[n] \in Context
  BY <1>1, <1>4 DEF CredentialsInv, ObjectInv, Placed, Computed
<1>6. digests[n].digest = Md5Of(CramOuter)
  <2>1. digests[n].digest = Md5Of(CramMessage(n))
    BY <1>1, <1>4, <1>5 DEF CredentialsInv, Keyed
  <2>2. CramMessage(n) = CramOuter
    BY <1>4 DEF CramMessage
  <2> QED
    BY <2>1, <2>2
<1>7. CramKey \in Seq(Bytes)
  BY <1>3, Md5Type DEF CramKey
<1>8. digests[n].digest = Hmac(task.password, task.plain)
  BY <1>3, <1>6, <1>7, HmacIs
<1>9. PICK hex \in Seq(Bytes) : hex = hex_digest(digests[n]) /\ hex = Hex(Hmac(task.password, task.plain))
  <2>1. digests[n].digest \in Seq(Bytes)
    BY <1>5, ContextType
  <2> QED
    BY <1>8, <2>1, HexIs, HexType
<1>10. PICK text \in Seq(Bytes) : text = task.login \o <<Space>> \o hex
  <2>1. <<Space>> \in Seq(Bytes)
    BY DEF Space, Bytes
  <2>2. task.login \o <<Space>> \in Seq(Bytes)
    BY <1>3, <2>1, ConcatProperties
  <2>3. task.login \o <<Space>> \o hex \in Seq(Bytes)
    BY <2>2, ConcatProperties
  <2> QED
    BY <2>3
<1>11. answers' = <<Encoded(task.login \o <<Space>> \o Hex(Hmac(task.password, task.plain)))>>
  <2>1. answers' = <<base64_encode(text)>>
    BY <1>2, <1>4, <1>9, <1>10, Zenon
  <2>2. base64_encode(text) = Encoded(text)
    BY EncodedIs
  <2> QED
    BY <1>9, <1>10, <2>1, <2>2, Zenon
<1>12. CredentialsArrive'
  BY <1>1, <1>2, <1>11 DEF CredentialsArrive
<1> QED
  BY <1>2, <1>12 DEF CredentialsInv

LEMMA AnswerDigestSafe ==
  ASSUME CredentialsInv, AnswerDigest
  PROVE  CredentialsInv'
<1>1. task.mechanism = "DIGEST-MD5" /\ \E texts : Send(texts)
  BY DEF AnswerDigest
<1>2. ObjectInv' /\ Keyed' /\ task' = task
  BY <1>1, SendKeeps
<1>3. CredentialsArrive'
  BY <1>1, <1>2 DEF CredentialsArrive
<1> QED
  BY <1>2, <1>3 DEF CredentialsInv

LEMMA NotYetAnswered ==
  ASSUME pc' # "done" \/ task.mechanism \notin {"LOGIN", "PLAIN", "CRAM-MD5"}, task' = task
  PROVE  CredentialsArrive'
BY DEF CredentialsArrive

(* The digests there can be before an object is begun. *)
LEMMA RoomForOne ==
  ASSUME ObjectInv, pc \in {"begin", "hash"},
         task.mechanism \in {"CRAM-MD5", "DIGEST-MD5", "OBJECT", "STREAM"}
  PROVE  Len(digests) < Objects /\ Len(digests) \in 0 .. 3 /\ Objects \in 1 .. 4
<1>1. digests \in Seq(Context)
  BY DEF ObjectInv, Computed
<1>2. PICK l \in Nat : l = Len(digests)
  BY <1>1, LenProperties
<1>3. PICK m \in 1 .. 4 : m = Objects
  BY ObjectsType
<1>4. l < m
  <2>1. CASE pc = "begin"
    <3>1. digests = <<>>
      BY <2>1 DEF ObjectInv, Placed
    <3>2. l = 0
      BY <1>2, <3>1
    <3> QED
      BY <3>2
  <2>2. CASE pc = "hash"
    BY <1>2, <1>3, <2>2 DEF ObjectInv, Placed
  <2> QED
    BY <2>1, <2>2
<1>5. l \in 0 .. 3
  BY <1>4
<1> QED
  BY <1>2, <1>3, <1>4, <1>5

LEMMA BeginCramSafe ==
  ASSUME NEW State, OnStates(State), CredentialsInv, BeginCram
  PROVE  CredentialsInv'
<1>1. pc = "begin" /\ task.mechanism = "CRAM-MD5" /\ Hash(CramPieces) /\ UNCHANGED <<task, digests>>
  BY DEF BeginCram
<1>2. Len(digests) < Objects
  BY <1>1, RoomForOne DEF CredentialsInv
<1>3. ObjectInv' /\ Keyed'
  BY <1>1, <1>2, CramStarts DEF CredentialsInv
<1>4. CredentialsArrive'
  BY <1>1, NotYetAnswered DEF Hash
<1> QED
  BY <1>3, <1>4 DEF CredentialsInv

LEMMA BeginDigestSafe ==
  ASSUME CredentialsInv, BeginDigest
  PROVE  CredentialsInv'
<1>1. pc = "begin" /\ task.mechanism = "DIGEST-MD5" /\ UNCHANGED <<task, digests>>
  BY DEF BeginDigest
<1>2. Len(digests) < Objects /\ Len(digests) \in 0 .. 3
  BY <1>1, RoomForOne DEF CredentialsInv
<1>3. Keyed'
  BY <1>1 DEF Keyed
<1>4. CASE pc' = "thrown" /\ UNCHANGED <<ctx, fed, todo>>
  <2>1. Objects' = Objects
    BY <1>1 DEF Objects
  <2>2. Given' /\ Computed'
    BY <1>1, <1>4 DEF CredentialsInv, ObjectInv, Given, Computed
  <2>3. Placed'
    BY <1>1, <1>4, <2>1 DEF CredentialsInv, ObjectInv, Placed
  <2>4. CredentialsArrive'
    BY <1>1, <1>4, NotYetAnswered
  <2> QED
    BY <1>3, <2>2, <2>3, <2>4 DEF CredentialsInv, ObjectInv
<1>5. CASE Hash(DigestPieces)
  <2>1. PICK pieces \in Seq(Seq(Bytes)) : pieces = DigestPieces
    BY <1>2, DigestPiecesType DEF CredentialsInv
  <2>2. Hash(pieces)
    BY <1>5, <2>1
  <2>3. ObjectInv'
    BY <1>1, <1>2, <2>2, HashStarts DEF CredentialsInv
  <2>4. CredentialsArrive'
    BY <1>1, <1>5, NotYetAnswered DEF Hash
  <2> QED
    BY <1>3, <2>3, <2>4 DEF CredentialsInv
<1> QED
  BY <1>4, <1>5 DEF BeginDigest

LEMMA BeginObjectSafe ==
  ASSUME CredentialsInv, BeginObject
  PROVE  CredentialsInv'
<1>1. /\ pc = "begin" /\ task.mechanism \in {"OBJECT", "STREAM"} /\ Hash(task.pieces)
      /\ UNCHANGED <<task, digests>>
  BY DEF BeginObject
<1>2. Len(digests) < Objects
  BY <1>1, RoomForOne DEF CredentialsInv
<1>3. PICK pieces \in Seq(Seq(Bytes)) : pieces = task.pieces
  BY TaskTypes DEF CredentialsInv, ObjectInv, Placed
<1>4. Hash(pieces)
  BY <1>1, <1>3
<1>5. ObjectInv'
  BY <1>1, <1>2, <1>4, HashStarts DEF CredentialsInv
<1>6. Keyed' /\ CredentialsArrive'
  BY <1>1, NotYetAnswered DEF Keyed, Hash
<1> QED
  BY <1>5, <1>6 DEF CredentialsInv

LEMMA NextObjectSafe ==
  ASSUME NEW State, OnStates(State), CredentialsInv, NextObject
  PROVE  CredentialsInv'
<1>1. /\ pc = "hash" /\ ctx.finalized /\ UNCHANGED <<task, digests>>
      /\ Hash(IF task.mechanism = "CRAM-MD5" THEN CramPieces ELSE DigestPieces)
  BY DEF NextObject
<1>2. task.mechanism \in {"CRAM-MD5", "DIGEST-MD5", "OBJECT", "STREAM"}
  BY <1>1 DEF CredentialsInv, ObjectInv, Placed
<1>3. Len(digests) < Objects /\ Len(digests) \in 0 .. 3
  BY <1>1, <1>2, RoomForOne DEF CredentialsInv
<1>4. CredentialsArrive'
  BY <1>1, NotYetAnswered DEF Hash
<1>5. CASE task.mechanism = "CRAM-MD5"
  <2>1. Hash(CramPieces)
    BY <1>1, <1>5
  <2>2. ObjectInv' /\ Keyed'
    BY <1>1, <1>3, <1>5, <2>1, CramStarts DEF CredentialsInv
  <2> QED
    BY <1>4, <2>2 DEF CredentialsInv
<1>6. CASE task.mechanism # "CRAM-MD5"
  <2>1. PICK pieces \in Seq(Seq(Bytes)) : pieces = DigestPieces
    BY <1>3, DigestPiecesType DEF CredentialsInv
  <2>2. Hash(pieces)
    BY <1>1, <1>6, <2>1
  <2>3. ObjectInv'
    BY <1>1, <1>2, <1>3, <2>2, HashStarts DEF CredentialsInv
  <2>4. Keyed'
    BY <1>1, <1>6 DEF Keyed
  <2> QED
    BY <1>4, <2>3, <2>4 DEF CredentialsInv
<1> QED
  BY <1>5, <1>6

(* What is left after the next piece. *)
LEMMA LeftOf ==
  ASSUME NEW a, NEW b
  PROVE  Left(<<>>) = <<>> /\ Left(<<a>>) = a /\ Left(<<a, b>>) = a \o b
<1>1. <<a>> # <<>> /\ Len(<<a>>) = 1 /\ <<a>>[1] = a
  OBVIOUS
<1>2. /\ <<a, b>> # <<>> /\ Len(<<a, b>>) = 2 /\ <<a, b>>[1] = a /\ <<a, b>>[2] = b
  OBVIOUS
<1> QED
  BY <1>1, <1>2, 2 # 1 DEF Left

Few(T, pieces) == (\E a \in T : pieces = <<a>>) \/ (\E a, b \in T : pieces = <<a, b>>)

LEMMA OneOrTwo ==
  ASSUME NEW T, NEW pieces \in Seq(T), pieces # <<>>, Len(pieces) <= 2
  PROVE  Few(T, pieces)
<1>1. PICK n \in 1 .. 2 : n = Len(pieces)
  <2>1. PICK l \in Nat : l = Len(pieces)
    OBVIOUS
  <2>2. l # 0
    BY <2>1, EmptySeq
  <2>3. l \in 1 .. 2
    BY <2>1, <2>2
  <2> QED
    BY <2>1, <2>3
<1>2. CASE n = 1
  <2>1. pieces[1] \in T
    BY <1>1, <1>2
  <2>2. pieces = <<pieces[1]>>
    <3>1. PICK a \in T : a = pieces[1]
      BY <2>1
    <3>2. <<a>> \in Seq(T) /\ Len(<<a>>) = 1 /\ \A i \in 1 .. 1 : <<a>>[i] = a
      OBVIOUS
    <3>3. Len(pieces) = 1 /\ \A i \in 1 .. 1 : pieces[i] = a
      BY <1>1, <1>2, <3>1
    <3>4. Len(pieces) = Len(<<a>>) /\ \A i \in 1 .. Len(pieces) : pieces[i] = <<a>>[i]
      BY <3>2, <3>3
    <3>5. pieces = <<a>>
      BY <3>2, <3>4, SeqEqual
    <3> QED
      BY <3>1, <3>5
  <2> QED
    BY <2>1, <2>2 DEF Few
<1>3. CASE n = 2
  <2>1. pieces[1] \in T /\ pieces[2] \in T
    <3>1. 1 \in 1 .. Len(pieces) /\ 2 \in 1 .. Len(pieces)
      BY <1>1, <1>3
    <3> QED
      BY <3>1, ElementOfSeq
  <2>2. pieces = <<pieces[1], pieces[2]>>
    <3>1. PICK a \in T, b \in T : a = pieces[1] /\ b = pieces[2]
      BY <2>1
    <3>2. <<a, b>> \in Seq(T) /\ Len(<<a, b>>) = 2 /\ <<a, b>>[1] = a /\ <<a, b>>[2] = b
      OBVIOUS
    <3>3. Len(pieces) = 2
      BY <1>1, <1>3
    <3>4. \A i \in 1 .. 2 : i = 1 \/ i = 2
      OBVIOUS
    <3>5. Len(pieces) = Len(<<a, b>>) /\ \A i \in 1 .. Len(pieces) : pieces[i] = <<a, b>>[i]
      BY <3>1, <3>2, <3>3, <3>4, Zenon
    <3>6. pieces = <<a, b>>
      BY <3>2, <3>5, SeqEqual
    <3> QED
      BY <3>1, <3>6
  <2> QED
    BY <2>1, <2>2 DEF Few
<1> QED
  BY <1>1, <1>2, <1>3

LEMMA LeftIs ==
  ASSUME NEW pieces \in Seq(Seq(Bytes)), pieces # <<>>, Len(pieces) <= 2, NEW message \in Seq(Bytes)
  PROVE  /\ (message \o Head(pieces)) \o Left(Tail(pieces)) = message \o Left(pieces)
         /\ Len(Tail(pieces)) <= 2
<1>1. CASE \E a \in Seq(Bytes) : pieces = <<a>>
  <2>1. PICK a \in Seq(Bytes) : pieces = <<a>>
    BY <1>1
  <2>2. Head(pieces) = a /\ Tail(pieces) = <<>> /\ Len(Tail(pieces)) = 0
    BY <2>1
  <2>3. Left(pieces) = a /\ Left(Tail(pieces)) = <<>>
    BY <2>1, <2>2, LeftOf
  <2>4. message \o a \in Seq(Bytes)
    BY ConcatProperties
  <2>5. (message \o a) \o <<>> = message \o a
    BY <2>4, ConcatEmptySeq
  <2>6. (message \o Head(pieces)) \o Left(Tail(pieces)) = message \o Left(pieces)
    BY <2>2, <2>3, <2>5, Zenon
  <2>7. Len(Tail(pieces)) <= 2
    BY <2>2
  <2> QED
    BY <2>6, <2>7, Zenon
<1>2. CASE \E a, b \in Seq(Bytes) : pieces = <<a, b>>
  <2>1. PICK a \in Seq(Bytes), b \in Seq(Bytes) : pieces = <<a, b>>
    BY <1>2
  <2>2. Head(pieces) = a /\ Tail(pieces) = <<b>> /\ Len(Tail(pieces)) = 1
    BY <2>1
  <2>3. Left(pieces) = a \o b /\ Left(Tail(pieces)) = b
    BY <2>1, <2>2, LeftOf
  <2>4. (message \o a) \o b = message \o (a \o b)
    BY Associates DEF Assoc
  <2>5. (message \o Head(pieces)) \o Left(Tail(pieces)) = message \o Left(pieces)
    BY <2>2, <2>3, <2>4, Zenon
  <2>6. Len(Tail(pieces)) <= 2
    BY <2>2
  <2> QED
    BY <2>5, <2>6
<1>3. (\E a \in Seq(Bytes) : pieces = <<a>>) \/ (\E a, b \in Seq(Bytes) : pieces = <<a, b>>)
  <2>1. Few(Seq(Bytes), pieces)
    BY OneOrTwo
  <2> QED
    BY <2>1, Zenon DEF Few
<1> QED
  BY <1>1, <1>2, <1>3

LEMMA UpdateSafe ==
  ASSUME CredentialsInv, Update
  PROVE  CredentialsInv'
<1>1. /\ pc = "hash" /\ todo # <<>> /\ UNCHANGED <<task, pc, digests>>
      /\ ctx' = (IF task.mechanism = "STREAM" THEN update_stream(ctx, Head(todo))
                 ELSE update(ctx, Head(todo)))
      /\ fed' = fed \o Head(todo) /\ todo' = Tail(todo)
  BY DEF Update
<1>2. todo \in Seq(Seq(Bytes)) /\ fed \in Seq(Bytes) /\ ~ctx.finalized /\ Holds(ctx, fed)
  BY <1>1 DEF CredentialsInv, ObjectInv, Given
<1>3. PICK piece \in Seq(Bytes) : piece = Head(todo)
  BY <1>1, <1>2, HeadTailProperties
<1>4. Tail(todo) \in Seq(Seq(Bytes))
  BY <1>1, <1>2, HeadTailProperties
<1>5. Holds(ctx', fed')
  <2>1. CASE task.mechanism = "STREAM"
    <3>1. Holds(update_stream(ctx, piece), fed \o piece)
      BY <1>2, StreamHolds
    <3> QED
      BY <1>1, <1>3, <2>1, <3>1
  <2>2. CASE task.mechanism # "STREAM"
    <3>1. Holds(update(ctx, piece), fed \o piece)
      BY <1>2, UpdateHolds
    <3> QED
      BY <1>1, <1>3, <2>2, <3>1
  <2> QED
    BY <2>1, <2>2
<1>6. ~ctx'.finalized /\ fed' \in Seq(Bytes)
  BY <1>5 DEF Holds
<1>7. Given'
  BY <1>1, <1>4, <1>5, <1>6 DEF Given
<1>8. Objects' = Objects /\ \A k : CramMessage(k)' = CramMessage(k)
  BY <1>1 DEF Objects, CramMessage, CramInner, CramOuter, CramKey
<1>9. Computed' /\ Placed'
  BY <1>1, <1>8 DEF CredentialsInv, ObjectInv, Computed, Placed
<1>10. Keyed'
  <2>1. ASSUME task.mechanism = "CRAM-MD5"
        PROVE  Len(todo') <= 2 /\ fed' \o Left(todo') = CramMessage(Len(digests) + 1)
    <3>1. Len(todo) <= 2 /\ fed \o Left(todo) = CramMessage(Len(digests) + 1)
      BY <1>1, <1>2, <2>1 DEF CredentialsInv, Keyed
    <3>2. /\ (fed \o Head(todo)) \o Left(Tail(todo)) = fed \o Left(todo)
          /\ Len(Tail(todo)) <= 2
      BY <1>1, <1>2, <3>1, LeftIs
    <3> QED
      BY <1>1, <3>1, <3>2
  <2> QED
    BY <1>1, <1>8, <2>1 DEF CredentialsInv, Keyed
<1>11. CredentialsArrive'
  BY <1>1, NotYetAnswered
<1> QED
  BY <1>7, <1>9, <1>10, <1>11 DEF CredentialsInv, ObjectInv

LEMMA FinalizeSafe ==
  ASSUME NEW State, OnStates(State), CredentialsInv, Finalize
  PROVE  CredentialsInv'
<1>1. /\ pc = "hash" /\ todo = <<>> /\ ~ctx.finalized /\ UNCHANGED <<task, fed, todo>>
      /\ ctx' = finalize(ctx) /\ digests' = Append(digests, ctx')
      /\ pc' = IF Len(digests') = Objects THEN "answer" ELSE "hash"
  BY DEF Finalize
<1>2. Holds(ctx, fed) /\ fed \in Seq(Bytes) /\ digests \in Seq(Context)
  BY <1>1 DEF CredentialsInv, ObjectInv, Given, Computed
<1>3. PICK c \in Context : /\ c = finalize(ctx) /\ c.finalized /\ c.hashed = Padded(fed)
                           /\ c.digest = Md5Of(fed)
  BY <1>2, FinalizeIs
<1>4. task.mechanism \in {"CRAM-MD5", "DIGEST-MD5", "OBJECT", "STREAM"}
  BY <1>1 DEF CredentialsInv, ObjectInv, Placed
<1>5. PICK n \in 0 .. 3 : n = Len(digests) /\ n < Objects /\ Objects \in 1 .. 4
  BY <1>1, <1>4, RoomForOne DEF CredentialsInv
<1>6. /\ digests' \in Seq(Context) /\ Len(digests') = n + 1 /\ digests'[n + 1] = c
      /\ \A k \in 1 .. n : digests'[k] = digests[k]
  <2>1. digests' = Append(digests, c)
    BY <1>1, <1>3
  <2> QED
    BY <1>2, <1>5, <2>1, AppendProperties
<1>7. Given'
  <2>1. Done(c, fed)
    BY <1>3 DEF Done
  <2>2. digests' # <<>> /\ c = digests'[Len(digests')]
    <3>1. Len(digests') # 0
      BY <1>5, <1>6
    <3>2. digests' # <<>>
      BY <3>1
    <3> QED
      BY <1>6, <3>2
  <2>3. ctx' = c /\ fed' = fed /\ todo' = todo
    BY <1>1, <1>3
  <2> QED
    BY <1>1, <1>2, <1>3, <2>1, <2>2, <2>3 DEF Given, CredentialsInv, ObjectInv
<1>8. Computed'
  <2>1. ASSUME NEW k \in 1 .. n + 1 PROVE digests'[k].finalized
    <3>1. CASE k \in 1 .. n
      BY <1>5, <1>6, <3>1 DEF CredentialsInv, ObjectInv, Computed
    <3>2. CASE k = n + 1
      BY <1>3, <1>6, <3>2
    <3> QED
      BY <3>1, <3>2
  <2>2. n + 1 <= 4
    OBVIOUS
  <2> QED
    BY <1>6, <2>1, <2>2 DEF Computed
<1>9. Objects' = Objects /\ \A k : CramMessage(k)' = CramMessage(k)
  BY <1>1 DEF Objects, CramMessage, CramInner, CramOuter, CramKey
<1>10. Placed'
  <2>1. ctx'.finalized
    BY <1>1, <1>3
  <2>2. PICK m \in 1 .. 4 : m = Objects /\ n < m
    BY <1>5
  <2>3. pc' = IF n + 1 = m THEN "answer" ELSE "hash"
    BY <1>1, <1>6, <2>2
  <2>4. n + 1 # m => n + 1 < m
    BY <2>2
  <2>5. /\ pc' = "hash" => Len(digests') < Objects'
        /\ pc' = "answer" => Len(digests') = Objects'
        /\ pc' \in {"answer", "hash"}
    BY <1>6, <1>9, <2>2, <2>3, <2>4
  <2>6. task' \in Tasks /\ task'.mechanism \in {"CRAM-MD5", "DIGEST-MD5", "OBJECT", "STREAM"}
    BY <1>1, <1>4 DEF CredentialsInv, ObjectInv, Placed
  <2> QED
    BY <2>1, <2>5, <2>6 DEF Placed
<1>11. Keyed'
  <2>1. ASSUME task.mechanism = "CRAM-MD5", NEW k \in 1 .. n + 1
        PROVE  digests'[k].digest = Md5Of(CramMessage(k))
    <3>1. CASE k \in 1 .. n
      BY <1>5, <1>6, <2>1, <3>1 DEF CredentialsInv, Keyed
    <3>2. CASE k = n + 1
      <4>1. fed \o Left(todo) = CramMessage(n + 1)
        BY <1>1, <1>5, <2>1 DEF CredentialsInv, Keyed
      <4>2. fed \o Left(todo) = fed
        BY <1>1, <1>2, ConcatEmptySeq DEF Left
      <4> QED
        BY <1>3, <1>6, <3>2, <4>1, <4>2
    <3> QED
      BY <3>1, <3>2
  <2>2. ctx'.finalized
    BY <1>1, <1>3
  <2> QED
    BY <1>1, <1>6, <1>9, <2>1, <2>2 DEF Keyed
<1>12. CredentialsArrive'
  BY <1>1, NotYetAnswered
<1> QED
  BY <1>7, <1>8, <1>10, <1>11, <1>12 DEF CredentialsInv, ObjectInv

(* A finalized object does not change. *)
LEMMA UseAgainSafe ==
  ASSUME CredentialsInv, UseAgain
  PROVE  CredentialsInv'
<1>1. /\ pc = "answer" /\ task.mechanism \in {"OBJECT", "STREAM"} /\ pc' = "done"
      /\ ctx' = finalize(update(ctx, <<1, 2, 3>>)) /\ UNCHANGED <<task, fed, todo, digests, answers>>
  BY DEF UseAgain
<1>2. ctx.finalized
  BY <1>1 DEF CredentialsInv, ObjectInv, Placed
<1>3. update(ctx, <<1, 2, 3>>) = ctx
  BY <1>2, Zenon DEF update
<1>4. finalize(ctx) = ctx
  BY <1>2, Zenon DEF finalize
<1>5. ctx' = ctx
  BY <1>1, <1>3, <1>4
<1>6. Objects' = Objects
  BY <1>1 DEF Objects
<1>7. Given' /\ Computed'
  BY <1>1, <1>5 DEF CredentialsInv, ObjectInv, Given, Computed
<1>8. Placed'
  BY <1>1, <1>5, <1>6 DEF CredentialsInv, ObjectInv, Placed
<1>9. Keyed' /\ CredentialsArrive'
  BY <1>1, NotYetAnswered DEF Keyed
<1> QED
  BY <1>7, <1>8, <1>9 DEF CredentialsInv, ObjectInv

LEMMA NextCredentials ==
  ASSUME NEW State, OnStates(State), CredentialsInv, [Next]_vars
  PROVE  CredentialsInv'
<1>1. CASE UNCHANGED vars
  BY <1>1, Same
<1>2. CASE Next
  <2>1. CASE AnswerLogin
    BY <2>1, AnswerLoginSafe
  <2>2. CASE AnswerPlain
    BY <2>2, AnswerPlainSafe
  <2>3. CASE BeginCram
    BY <2>3, BeginCramSafe
  <2>4. CASE BeginDigest
    BY <2>4, BeginDigestSafe
  <2>5. CASE BeginObject
    BY <2>5, BeginObjectSafe
  <2>6. CASE Update
    BY <2>6, UpdateSafe
  <2>7. CASE Finalize
    BY <2>7, FinalizeSafe
  <2>8. CASE NextObject
    BY <2>8, NextObjectSafe
  <2>9. CASE AnswerCram
    BY <2>9, AnswerCramSafe
  <2>10. CASE AnswerDigest
    BY <2>10, AnswerDigestSafe
  <2>11. CASE UseAgain
    BY <2>11, UseAgainSafe
  <2>12. CASE Gone
    BY <2>12, Same DEF Gone
  <2> QED
    BY <1>2, <2>1, <2>2, <2>3, <2>4, <2>5, <2>6, <2>7, <2>8, <2>9, <2>10, <2>11, <2>12 DEF Next
<1> QED
  BY <1>1, <1>2

-----------------------------------------------------------------------------
(* The inductive invariant, for every set of tasks, every word size that   *)
(* blocks divide, and every transform on states.                           *)
THEOREM CredentialsHold ==
  ASSUME NEW State, OnStates(State)
  PROVE  Spec => []CredentialsInv
<1>1. Init => CredentialsInv
  BY InitCredentials
<1>2. CredentialsInv /\ [Next]_vars => CredentialsInv'
  BY NextCredentials
<1> QED
  BY <1>1, <1>2, PTL DEF Spec

(* The variables have values of their kinds. *)
THEOREM CredentialsTypes ==
  ASSUME NEW State, OnStates(State)
  PROVE  Spec => []TypeOK
<1>1. CredentialsInv => TypeOK
  <2> SUFFICES ASSUME CredentialsInv PROVE TypeOK
    OBVIOUS
  <2>1. task \in Tasks /\ pc \in {"begin", "hash", "answer", "done", "thrown"}
    BY DEF CredentialsInv, ObjectInv, Placed
  <2>2. ctx \in Context /\ fed \in Seq(Bytes)
    BY DEF CredentialsInv, ObjectInv, Given, Holds, Done
  <2>3. digests \in Seq(Context) /\ Len(digests) <= 4 /\ \A k \in 1 .. Len(digests) : digests[k].finalized
    BY DEF CredentialsInv, ObjectInv, Computed
  <2>4. \A k \in DOMAIN digests : digests[k] \in Context /\ digests[k].finalized
    BY <2>3
  <2> QED
    BY <2>1, <2>2, <2>3, <2>4 DEF TypeOK
<1> QED
  BY <1>1, CredentialsHold, PTL

(* What has been transformed and what waits in the buffer are together the *)
(* message, however update and update_stream have cut it, and the words of *)
(* count hold its length in bits modulo their size.                        *)
THEOREM NothingLostInTheBuffer ==
  ASSUME NEW State, OnStates(State)
  PROVE  Spec => []HoldsWhatItWasFed
<1>1. CredentialsInv => HoldsWhatItWasFed
  BY DEF CredentialsInv, ObjectInv, Given, Holds, BitsOf, HoldsWhatItWasFed
<1> QED
  BY <1>1, CredentialsHold, PTL

(* finalize transforms the message with the padding of MD5, for messages   *)
(* of every length, and a finalized object does not change.                *)
THEOREM PaddingIsRight ==
  ASSUME NEW State, OnStates(State)
  PROVE  Spec => []PaddedAsSpecified
<1>1. CredentialsInv => PaddedAsSpecified
  BY DEF CredentialsInv, ObjectInv, Given, Done, PaddedAsSpecified
<1> QED
  BY <1>1, CredentialsHold, PTL

(* Whatever the login, the password and the challenge are, the answers to  *)
(* LOGIN and PLAIN are the base64 forms of the credentials, and the answer *)
(* to CRAM-MD5 is that of the login and HMAC-MD5 of the challenge.         *)
THEOREM CredentialsAlwaysArrive ==
  ASSUME NEW State, OnStates(State)
  PROVE  Spec => []CredentialsArrive
<1>1. CredentialsInv => CredentialsArrive
  BY DEF CredentialsInv
<1> QED
  BY <1>1, CredentialsHold, PTL
==================================================
