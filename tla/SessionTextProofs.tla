--------------------------- MODULE SessionTextProofs --------------------------
(***************************************************************************)
(* Proofs that every message the relay has accepted is read as it was      *)
(* meant, for every message, whatever its recipients, lines and files, and *)
(* every number of calls and connections.                                  *)
(*                                                                         *)
(* A text is the header and the blocks of a message one behind the other.  *)
(* The first part says where each line of it stands; the second reads the  *)
(* header, whose fields all have different names; the third cuts the body  *)
(* at its delimiters, which stand six lines apart; and the last one says   *)
(* what is then found, and that the relay has no other texts.              *)
(***************************************************************************)
EXTENDS SmtpSessionProofs, SessionText, SharedLemmas

(* A sequence behind another. *)
IsJoin(S, x, b, k, q, l) ==
  /\ x \in Seq(S) /\ Len(x) = k + l
  /\ \A i \in 1 .. k : x[i] = b[i]
  /\ \A i \in 1 .. l : x[k + i] = q[i]

LEMMA Join ==
  ASSUME NEW S, NEW b \in Seq(S), NEW q \in Seq(S), NEW k, NEW l, Len(b) = k, Len(q) = l, NEW x, x = b \o q
  PROVE  IsJoin(S, x, b, k, q, l)
<1>1. /\ x \in Seq(S) /\ Len(x) = Len(b) + Len(q)
      /\ \A i \in 1 .. Len(b) : x[i] = b[i]
      /\ \A i \in 1 .. Len(q) : x[Len(b) + i] = q[i]
  <2>1. /\ x \in Seq(S) /\ Len(x) = Len(b) + Len(q)
        /\ \A i \in 1 .. Len(b) + Len(q) : x[i] = IF i <= Len(b) THEN b[i] ELSE q[i - Len(b)]
    BY ConcatProperties
  <2>2. Len(b) \in Nat /\ Len(q) \in Nat
    BY LenProperties
  <2>3. \A i \in 1 .. Len(q) : Len(b) + i \in 1 .. Len(b) + Len(q) /\ ~(Len(b) + i <= Len(b))
                               /\ Len(b) + i - Len(b) = i
    BY <2>2
  <2>4. \A i \in 1 .. Len(b) : i \in 1 .. Len(b) + Len(q) /\ i <= Len(b)
    BY <2>2
  <2>5. \A i \in 1 .. Len(b) : x[i] = b[i]
    BY <2>1, <2>4, Zenon
  <2>6. ASSUME NEW i \in 1 .. Len(q) PROVE x[Len(b) + i] = q[i]
    <3>1. PICK j : j = Len(b) + i
      OBVIOUS
    <3>2. j \in 1 .. Len(b) + Len(q) /\ ~(j <= Len(b)) /\ j - Len(b) = i
      BY <2>2, <3>1
    <3>3. x[j] = q[j - Len(b)]
      BY <2>1, <3>2
    <3> QED
      BY <3>1, <3>2, <3>3, Zenon
  <2> QED
    BY <2>1, <2>5, <2>6, Zenon
<1> QED
  BY <1>1, Zenon DEF IsJoin

-----------------------------------------------------------------------------
(* The text of a message, line by line.  Places in increasing order.       *)
Climbs(n, d, S) ==
  /\ S = {d[p] : p \in 1 .. n}
  /\ \A p \in 1 .. n : d[p] \in Int
  /\ \A p, q \in 1 .. n : p < q => d[p] < d[q]
Counts(n, d, S) == Cardinality(S) = n /\ \A p \in 1 .. n : Nth(S, p) = d[p]

LEMMA NthInOrder ==
  ASSUME NEW n \in Nat, NEW d, NEW S, Climbs(n, d, S)
  PROVE  Counts(n, d, S)
<1>0. /\ S = {d[p] : p \in 1 .. n}
      /\ \A p \in 1 .. n : d[p] \in Int
      /\ \A p, q \in 1 .. n : p < q => d[p] < d[q]
  BY DEF Climbs
<1> DEFINE D(j) == {d[p] : p \in 1 .. j}
<1>1. ASSUME NEW j \in 0 .. n PROVE IsFiniteSet(D(j)) /\ Cardinality(D(j)) = j
  <2> DEFINE b == [p \in 1 .. j |-> d[p]]
  <2>1. \A p, q \in 1 .. j : d[p] = d[q] => p = q
    <3>1. \A p \in 1 .. j : p \in 1 .. n
      OBVIOUS
    <3>2. ASSUME NEW p \in 1 .. j, NEW q \in 1 .. j, d[p] = d[q] PROVE p = q
      <4>1. d[p] \in Int /\ d[q] \in Int /\ (p < q => d[p] < d[q]) /\ (q < p => d[q] < d[p])
        BY <1>0, <3>1
      <4>2. p < q \/ q < p \/ p = q
        OBVIOUS
      <4> QED
        BY <3>2, <4>1, <4>2
    <3> QED
      BY <3>2
  <2>2. b \in Bijection(1 .. j, D(j))
    BY <2>1 DEF Bijection, Injection, Surjection, IsInjective
  <2>3. ExistsBijection(1 .. j, D(j))
    BY <2>2 DEF ExistsBijection
  <2>4. IsFiniteSet(1 .. j) /\ Cardinality(1 .. j) = j
    BY FS_Interval
  <2> QED
    BY <2>3, <2>4, FS_Bijection
<1>2. IsFiniteSet(S) /\ Cardinality(S) = n /\ S \subseteq Int
  BY <1>0, <1>1
<1>3. ASSUME NEW p \in 1 .. n PROVE Nth(S, p) = d[p]
  <2>1. {i \in S : i <= d[p]} = D(p)
    <3>1. ASSUME NEW q \in 1 .. n PROVE d[q] <= d[p] <=> q <= p
      <4>1. d[p] \in Int /\ d[q] \in Int /\ (p < q => d[p] < d[q]) /\ (q < p => d[q] < d[p])
        BY <1>0
      <4>2. p < q \/ q < p \/ p = q
        OBVIOUS
      <4> QED
        BY <4>1, <4>2
    <3>2. \A q \in 1 .. n : q <= p <=> q \in 1 .. p
      OBVIOUS
    <3>3. \A q \in 1 .. p : q \in 1 .. n
      OBVIOUS
    <3> QED
      BY <1>0, <3>1, <3>2, <3>3
  <2>2. CountTo(S, d[p]) = p
    <3>1. p \in 0 .. n
      OBVIOUS
    <3>2. Cardinality(D(p)) = p
      BY <1>1, <3>1
    <3> QED
      BY <2>1, <3>2, Zenon DEF CountTo
  <2>3. d[p] \in S
    BY <1>0
  <2>4. PICK k \in S : k = d[p]
    BY <2>3
  <2>5. Nth(S, CountTo(S, k)) = k
    BY <1>2, NthIs
  <2> QED
    BY <2>2, <2>4, <2>5
<1> QED
  BY <1>2, <1>3 DEF Counts

(* The header of a text ends where the first empty line is. *)
HeadTo(text, c) == /\ c \in 1 .. Len(text) /\ text[c] = Empty
                   /\ \A j \in 1 .. c - 1 : text[j] # Empty

ValuesTo(text, c, name) == {text[k][2] : k \in {j \in 1 .. c - 1 : Len(text[j]) = 2 /\ text[j][1] = name}}

LEMMA HeadEnds ==
  ASSUME NEW S, NEW text \in Seq(S), NEW c, HeadTo(text, c)
  PROVE  /\ BodyOf(text) = SubSeq(text, c + 1, Len(text))
         /\ \A name : ValuesOf(text, name) = ValuesTo(text, c, name)
<1>0. Len(text) \in Nat /\ c \in Nat \ {0} /\ c <= Len(text)
  BY LenProperties DEF HeadTo
<1> DEFINE End(k) == (k = Len(text) + 1 \/ text[k] = Empty) /\ \A j \in 1 .. k - 1 : text[j] # Empty
<1>1. c \in 1 .. Len(text) + 1 /\ End(c)
  BY <1>0 DEF HeadTo
<1>2. ASSUME NEW k \in 1 .. Len(text) + 1, End(k) PROVE k = c
  <2>1. k < c \/ c < k \/ k = c
    BY <1>0
  <2>2. CASE k < c
    <3>1. k \in 1 .. c - 1 /\ k # Len(text) + 1
      BY <1>0, <2>2
    <3> QED
      BY <1>2, <3>1 DEF HeadTo
  <2>3. CASE c < k
    <3>1. c \in 1 .. k - 1
      BY <1>0, <2>3
    <3> QED
      BY <1>2, <3>1 DEF HeadTo
  <2> QED
    BY <2>1, <2>2, <2>3
<1>3. (CHOOSE k \in 1 .. Len(text) + 1 : End(k)) = c
  <2> HIDE DEF End
  <2> QED
    BY <1>1, <1>2
<1>4. FieldsOf(text) = SubSeq(text, 1, c - 1)
  BY <1>3 DEF FieldsOf
<1>5. /\ Len(SubSeq(text, 1, c - 1)) = c - 1
      /\ SubSeq(text, 1, c - 1) \in Seq(S)
      /\ \A i \in 1 .. c - 1 : SubSeq(text, 1, c - 1)[i] = text[i]
  <2>1. PICK z \in Nat : z = c - 1
    BY <1>0
  <2>2. \A i \in 1 .. z : text[i] \in S
    BY <1>0, <2>1, ElementOfSeq
  <2>3. /\ SubSeq(text, 1, z) \in Seq(S) /\ Len(SubSeq(text, 1, z)) = IF 1 <= z THEN z - 1 + 1 ELSE 0
        /\ \A i \in 1 .. z - 1 + 1 : SubSeq(text, 1, z)[i] = text[1 + i - 1]
    BY <2>1, <2>2, SubSeqProperties
  <2>4. Len(SubSeq(text, 1, z)) = z
    BY <2>1, <2>3
  <2>5. \A i \in 1 .. z : i \in 1 .. z - 1 + 1 /\ 1 + i - 1 = i
    BY <2>1
  <2> QED
    BY <2>1, <2>3, <2>4, <2>5
<1>6. BodyOf(text) = SubSeq(text, c + 1, Len(text))
  <2>1. c - 1 + 2 = c + 1
    BY <1>0
  <2> QED
    BY <1>4, <1>5, <2>1 DEF BodyOf
<1>7. ASSUME NEW name PROVE ValuesOf(text, name) = ValuesTo(text, c, name)
  <2> DEFINE fields == SubSeq(text, 1, c - 1)
  <2>1. DOMAIN fields = 1 .. c - 1
    BY <1>5, LenProperties
  <2>2. ValuesOf(text, name) = {fields[k][2] : k \in {j \in DOMAIN fields : Len(fields[j]) = 2 /\ fields[j][1] = name}}
    BY <1>4 DEF ValuesOf
  <2>3. \A i \in 1 .. c - 1 : fields[i] = text[i]
    BY <1>5
  <2> HIDE DEF fields
  <2>4. {j \in DOMAIN fields : Len(fields[j]) = 2 /\ fields[j][1] = name}
        = {j \in 1 .. c - 1 : Len(text[j]) = 2 /\ text[j][1] = name}
    BY <2>1, <2>3
  <2>5. ValuesOf(text, name) = {fields[k][2] : k \in {j \in 1 .. c - 1 : Len(text[j]) = 2 /\ text[j][1] = name}}
    BY <2>2, <2>4
  <2>6. {fields[k][2] : k \in {j \in 1 .. c - 1 : Len(text[j]) = 2 /\ text[j][1] = name}} = ValuesTo(text, c, name)
    BY <2>3 DEF ValuesTo
  <2> QED
    BY <2>5, <2>6
<1> QED
  BY <1>6, <1>7

(* Sequences that grow by the next elements of one function. *)
Grows(F, n, e, end) ==
  /\ F[0] = <<>> /\ end[0] = 0
  /\ \A t \in 0 .. n : end[t] \in Nat
  /\ \A t \in 0 .. n - 1 : /\ end[t] <= end[t + 1]
                           /\ F[t + 1] = F[t] \o [i \in 1 .. end[t + 1] - end[t] |-> e[end[t] + i]]

Bounded(n, e, end, S) ==
  (\A i \in 1 .. end[n] : e[i] \in S) /\ \A t \in 0 .. n : end[t] <= end[n]

GrewTo(F, n, e, end) == F[n] = [i \in 1 .. end[n] |-> e[i]]

LEMMA GrownTo ==
  ASSUME NEW S, NEW n \in Nat, NEW e, NEW end, NEW F, Grows(F, n, e, end), Bounded(n, e, end, S)
  PROVE  GrewTo(F, n, e, end)
<1>0. (\A i \in 1 .. end[n] : e[i] \in S) /\ \A t \in 0 .. n : end[t] <= end[n]
  BY DEF Bounded
<1> DEFINE Pile(k) == [i \in 1 .. k |-> e[i]]
           T == {t \in 0 .. n : F[t] # Pile(end[t])}
<1>1. ASSUME T # {} PROVE FALSE
  <2>1. T \subseteq Nat
    OBVIOUS
  <2>2. PICK x \in T : \A y \in T : x <= y
    BY <1>1, <2>1, Smallest
  <2>3. x \in 0 .. n /\ F[x] # Pile(end[x])
    BY <2>2
  <2>4. x # 0
    <3>1. Pile(0) = <<>>
      OBVIOUS
    <3> HIDE DEF Pile
    <3> QED
      BY <2>3, <3>1 DEF Grows
  <2>5. PICK z \in 0 .. n - 1 : x = z + 1
    BY <2>3, <2>4
  <2>6. F[z] = Pile(end[z])
    <3>1. z \in 0 .. n /\ ~(x <= z)
      BY <2>5
    <3> QED
      BY <2>2, <3>1
  <2>7. PICK a \in Nat, b \in Nat : a = end[z] /\ b = end[x] /\ a <= b /\ b <= end[n] /\ end[n] \in Nat
    <3>1. z \in 0 .. n /\ x \in 0 .. n /\ n \in 0 .. n
      BY <2>5
    <3> QED
      BY <1>0, <2>5, <3>1 DEF Grows
  <2>8. F[x] = Pile(a) \o [i \in 1 .. b - a |-> e[a + i]]
    <3>1. F[z + 1] = F[z] \o [i \in 1 .. end[z + 1] - end[z] |-> e[end[z] + i]]
      BY Zenon DEF Grows
    <3> QED
      BY <2>5, <2>6, <2>7, <3>1
  <2>9. Pile(a) \o [i \in 1 .. b - a |-> e[a + i]] = Pile(b)
    <3> DEFINE more == [i \in 1 .. b - a |-> e[a + i]]
    <3>1. Pile(a) \in Seq(S) /\ Len(Pile(a)) = a
      <4>1. Pile(a) \in [1 .. a -> S]
        BY <1>0, <2>7
      <4> QED
        BY <4>1, FunctionIsSeq
    <3>2. Pile(b) \in Seq(S) /\ Len(Pile(b)) = b
      <4>1. Pile(b) \in [1 .. b -> S]
        BY <1>0, <2>7
      <4> QED
        BY <4>1, FunctionIsSeq
    <3>3. more \in Seq(S) /\ Len(more) = b - a
      <4>1. PICK w \in Nat : w = b - a
        BY <2>7
      <4>2. \A i \in 1 .. w : a + i \in 1 .. end[n]
        BY <2>7, <4>1
      <4>3. more \in [1 .. w -> S]
        BY <1>0, <4>1, <4>2
      <4> QED
        BY <4>1, <4>3, FunctionIsSeq
    <3>4. /\ Pile(a) \o more \in Seq(S) /\ Len(Pile(a) \o more) = Len(Pile(a)) + Len(more)
          /\ \A i \in 1 .. Len(Pile(a)) + Len(more) :
               (Pile(a) \o more)[i] = IF i <= Len(Pile(a)) THEN Pile(a)[i] ELSE more[i - Len(Pile(a))]
      BY <3>1, <3>3, ConcatProperties
    <3>5. a + (b - a) = b
      BY <2>7
    <3>6. ASSUME NEW i \in 1 .. b PROVE (Pile(a) \o more)[i] = Pile(b)[i]
      <4>1. (Pile(a) \o more)[i] = IF i <= a THEN Pile(a)[i] ELSE more[i - a]
        <5> HIDE DEF Pile, more
        <5> QED
          BY <3>1, <3>3, <3>4, <3>5
      <4>2. i <= a => i \in 1 .. a
        BY <2>7
      <4>3. ~(i <= a) => i - a \in 1 .. b - a /\ a + (i - a) = i
        BY <2>7
      <4> QED
        BY <4>1, <4>2, <4>3
    <3> HIDE DEF Pile, more
    <3>7. Len(Pile(a) \o more) = b
      BY <3>1, <3>3, <3>4, <3>5
    <3>8. Pile(a) \o more = Pile(b)
      BY <3>2, <3>4, <3>6, <3>7, SeqEqual
    <3> QED
      BY <3>8 DEF more
  <2> QED
    BY <2>3, <2>7, <2>8, <2>9
<1>2. n \in 0 .. n
  OBVIOUS
<1> QED
  BY <1>1, <1>2 DEF GrewTo

(* A sequence of sequences, joined up to a place. *)
FlatTo(b, n) == FlattenSeq([i \in 1 .. n |-> b[i]])

LEMMA FlatPrefix ==
  ASSUME NEW S, NEW N \in Nat, NEW b, \A i \in 1 .. N : b[i] \in Seq(S), NEW n \in 0 .. N - 1
  PROVE  FlatTo(b, n + 1) = FlatTo(b, n) \o b[n + 1]
<1> DEFINE s == [i \in 1 .. n |-> b[i]]
           t == [i \in 1 .. n + 1 |-> b[i]]
<1>1. n \in Nat /\ n + 1 \in 1 .. N /\ \A i \in 1 .. n : i \in 1 .. N /\ i \in 1 .. n + 1
  OBVIOUS
<1>2. s \in [1 .. n -> Seq(S)] /\ t \in [1 .. n + 1 -> Seq(S)] /\ t[n + 1] = b[n + 1]
  <2>1. \A i \in 1 .. n + 1 : i \in 1 .. N
    OBVIOUS
  <2> QED
    BY <1>1, <2>1
<1>3. \A i \in 1 .. n : t[i] = s[i]
  BY <1>1
<1> HIDE DEF s, t
<1>4. t = Append(s, t[n + 1])
  BY <1>1, <1>2, <1>3, SeqGrows
<1>5. s \in Seq(Seq(S))
  BY <1>1, <1>2, FunctionIsSeq
<1>6. PICK x \in Seq(S) : x = b[n + 1]
  BY <1>1
<1>7. <<>> \o x = x
  BY ConcatEmptySeq
<1>8. FlattenSeq(Append(s, x)) = FlattenSeq(s) \o x
  BY <1>5, <1>7, FlattenAppend
<1>9. FlattenSeq(t) = FlattenSeq(s) \o b[n + 1]
  BY <1>2, <1>4, <1>6, <1>8
<1> QED
  BY <1>9 DEF FlatTo, s, t

-----------------------------------------------------------------------------
(* What the lines of a message are. *)
Multi    == Field("Content-Type", "multipart/mixed")
Typed(f) == Field("Content-Type", TextType(f))
Seven    == Field("Content-Transfer-Encoding", "7bit")
Attached == Field("Content-Type", "application/x-msdownload")
Coded    == Field("Content-Transfer-Encoding", "base64")
Named(k) == Field("Content-Disposition", <<"filename", k>>)
Data(k)  == <<"base64", k>>

TextLen(m)     == IF m.lines = <<>> THEN 1 ELSE Len(m.lines)
TextLine(m, k) == IF m.lines = <<>> THEN <<" ">> ELSE <<"line", k>>
FileLine(i) ==
  LET k == (i - 1) \div 6 + 1
      r == (i - 1) % 6
  IN CASE r = 0 -> Delimiter [] r = 1 -> Attached [] r = 2 -> Coded
       [] r = 3 -> Named(k)  [] r = 4 -> Empty    [] r = 5 -> Data(k)

LEMMA FileLines ==
  ASSUME NEW p \in Nat
  PROVE  /\ FileLine(6 * p + 1) = Delimiter /\ FileLine(6 * p + 2) = Attached
         /\ FileLine(6 * p + 3) = Coded /\ FileLine(6 * p + 4) = Named(p + 1)
         /\ FileLine(6 * p + 5) = Empty /\ FileLine(6 * p + 6) = Data(p + 1)
<1>1. ASSUME NEW r \in 0 .. 5 PROVE (6 * p + (r + 1) - 1) \div 6 = p /\ (6 * p + (r + 1) - 1) % 6 = r
  OBVIOUS
<1>2. /\ (6 * p + 1 - 1) % 6 = 0 /\ (6 * p + 2 - 1) % 6 = 1 /\ (6 * p + 3 - 1) % 6 = 2
      /\ (6 * p + 4 - 1) % 6 = 3 /\ (6 * p + 5 - 1) % 6 = 4 /\ (6 * p + 6 - 1) % 6 = 5
      /\ (6 * p + 4 - 1) \div 6 = p /\ (6 * p + 6 - 1) \div 6 = p
  BY <1>1
<1> QED
  BY <1>2 DEF FileLine

(* The blocks of a message whose lines can be sent. *)
Arranged(m, t, F) ==
  /\ t \in Nat \ {0} /\ F \in Nat
  /\ Len(Blocks(m)) = 1 + t + 2 * F + (IF F > 0 THEN 1 ELSE 0)
  /\ Blocks(m)[1] = "header"
  /\ \A k \in 1 .. t : Blocks(m)[1 + k] = IF m.lines = <<>> THEN "blank" ELSE "text"
  /\ \A k \in 1 .. 2 * F : Blocks(m)[1 + t + k] = IF k % 2 = 1 THEN "part" ELSE "content"
  /\ F > 0 => Blocks(m)[1 + t + 2 * F + 1] = "boundary"

LEMMA BlocksAt ==
  ASSUME NEW m \in Mail, Sendable(m), NEW t, t = TextLen(m), NEW F, F = m.files
  PROVE  Arranged(m, t, F)
<1> DEFINE S == {"header", "blank", "part", "content", "boundary", "text", "dot", "dotted", "long"}
           a == <<"header">>
           b == IF m.lines = <<>> THEN <<"blank">> ELSE m.lines
           c == [k \in 1 .. 2 * F |-> IF k % 2 = 1 THEN "part" ELSE "content"]
           d == IF F > 0 THEN <<"boundary">> ELSE <<>>
<1>0. F \in Nat /\ m.lines \in Seq(LineKinds)
  BY DEF Mail
<1>1. a \in Seq(S) /\ Len(a) = 1 /\ a[1] = "header"
  OBVIOUS
<1>2. /\ b \in Seq(S) /\ Len(b) = t /\ t \in Nat \ {0}
      /\ \A k \in 1 .. t : b[k] = IF m.lines = <<>> THEN "blank" ELSE "text"
  <2>1. CASE m.lines = <<>>
    <3>1. t = 1 /\ b = <<"blank">>
      BY <2>1 DEF TextLen
    <3> QED
      BY <2>1, <3>1
  <2>2. CASE m.lines # <<>>
    <3>1. t = Len(m.lines) /\ b = m.lines
      BY <2>2 DEF TextLen
    <3>2. LineKinds \subseteq S
      BY DEF LineKinds
    <3>3. t \in Nat \ {0}
      BY <1>0, <2>2, <3>1, EmptySeq
    <3>4. \A k \in 1 .. t : m.lines[k] \in LineKinds
      BY <1>0, <3>1, ElementOfSeq
    <3>5. \A k \in 1 .. t : m.lines[k] = "text"
      BY <3>1, <3>4 DEF Sendable
    <3> HIDE DEF S
    <3>6. b \in Seq(S)
      BY <1>0, <3>1, <3>2, SeqMonotonic
    <3> QED
      BY <2>2, <3>1, <3>3, <3>5, <3>6
  <2> QED
    BY <2>1, <2>2
<1>3. c \in Seq(S) /\ Len(c) = 2 * F
  <2> DEFINE n == 2 * F
             e == [k \in 1 .. n |-> IF k % 2 = 1 THEN "part" ELSE "content"]
  <2>1. n \in Nat /\ e \in [1 .. n -> S]
    BY <1>0
  <2> HIDE DEF S, e
  <2>2. e \in Seq(S) /\ Len(e) = n
    BY <2>1, FunctionIsSeq
  <2> QED
    BY <2>2 DEF e
<1>4. d \in Seq(S) /\ Len(d) = IF F > 0 THEN 1 ELSE 0
  <2> DEFINE one == <<"boundary">>
  <2>1. one \in Seq(S) /\ Len(one) = 1
    OBVIOUS
  <2>2. <<>> \in Seq(S) /\ Len(<<>>) = 0
    BY EmptySeq
  <2>3. F > 0 => d = one
    BY Zenon
  <2>4. ~(F > 0) => d = <<>>
    BY Zenon
  <2> HIDE DEF d, S, one
  <2>5. F > 0 => d \in Seq(S) /\ Len(d) = 1
    BY <2>1, <2>3
  <2>6. ~(F > 0) => d \in Seq(S) /\ Len(d) = 0
    BY <2>2, <2>4, Zenon
  <2> QED
    BY <2>5, <2>6
<1>5. Blocks(m) = ((a \o b) \o c) \o d
  BY DEF Blocks
<1>6. \A k \in 1 .. 2 * F : c[k] = IF k % 2 = 1 THEN "part" ELSE "content"
  OBVIOUS
<1>7. F > 0 => d[1] = "boundary"
  OBVIOUS
<1> HIDE DEF S, a, b, c, d
<1>8. PICK x : x = a \o b
  OBVIOUS
<1>9. IsJoin(S, x, a, 1, b, t)
  BY <1>1, <1>2, <1>8, Join
<1>10. PICK u \in Nat, n \in Nat, v \in Nat, w \in Nat, e \in Nat :
         u = 1 + t /\ n = 2 * F /\ w = u + n /\ e = Len(d) /\ v = w + e
  BY <1>0, <1>2, <1>4
<1>11. PICK y : y = x \o c
  OBVIOUS
<1>12. x \in Seq(S) /\ Len(x) = u /\ Len(c) = n
  BY <1>3, <1>9, <1>10 DEF IsJoin
<1>13. IsJoin(S, y, x, u, c, n)
  BY <1>3, <1>11, <1>12, Join
<1>14. PICK z : z = y \o d
  OBVIOUS
<1>15. y \in Seq(S) /\ Len(y) = w
  BY <1>10, <1>13 DEF IsJoin
<1>16. IsJoin(S, z, y, w, d, e)
  BY <1>4, <1>10, <1>14, <1>15, Join
<1>17. Blocks(m) = z
  BY <1>5, <1>8, <1>11, <1>14
<1>18. /\ 1 \in 1 .. u /\ 1 \in 1 .. w /\ 1 \in 1 .. 1
       /\ \A k \in 1 .. t : 1 + k \in 1 .. u /\ 1 + k \in 1 .. w
       /\ \A k \in 1 .. n : u + k \in 1 .. w
  <2>1. t \in Nat \ {0} /\ u = 1 + t /\ w = u + n
    BY <1>2, <1>10
  <2> QED
    BY <2>1
<1>19. Blocks(m)[1] = "header"
  BY <1>1, <1>9, <1>13, <1>16, <1>17, <1>18 DEF IsJoin
<1>20. \A k \in 1 .. t : Blocks(m)[1 + k] = IF m.lines = <<>> THEN "blank" ELSE "text"
  BY <1>2, <1>9, <1>13, <1>16, <1>17, <1>18 DEF IsJoin
<1>21. \A k \in 1 .. n : Blocks(m)[u + k] = IF k % 2 = 1 THEN "part" ELSE "content"
  <2>1. \A k \in 1 .. n : Blocks(m)[u + k] = c[k]
    BY <1>13, <1>16, <1>17, <1>18 DEF IsJoin
  <2> QED
    BY <1>6, <1>10, <2>1
<1>22. F > 0 => Blocks(m)[w + 1] = "boundary"
  <2>1. F > 0 => 1 \in 1 .. e
    BY <1>4, <1>10
  <2> QED
    BY <1>7, <1>16, <1>17, <2>1 DEF IsJoin
<1>23. Len(Blocks(m)) = w + e
  BY <1>16, <1>17 DEF IsJoin
<1> QED
  <2>1. Len(Blocks(m)) = 1 + t + 2 * F + (IF F > 0 THEN 1 ELSE 0)
    BY <1>4, <1>10, <1>23
  <2>2. \A k \in 1 .. 2 * F : Blocks(m)[1 + t + k] = IF k % 2 = 1 THEN "part" ELSE "content"
    BY <1>10, <1>21
  <2>3. F > 0 => Blocks(m)[1 + t + 2 * F + 1] = "boundary"
    BY <1>10, <1>22
  <2> QED
    BY <1>0, <1>2, <1>19, <1>20, <2>1, <2>2, <2>3 DEF Arranged

(* ... and their lines. *)
LinesAre(m, f, t, F) ==
  /\ BlockLines(m, f, 1) = format_header(m, f)
  /\ \A k \in 1 .. t : BlockLines(m, f, 1 + k) = <<TextLine(m, k)>>
  /\ \A p \in 1 .. F :
       /\ BlockLines(m, f, t + 2 * p) = <<Delimiter, Attached, Coded, Named(p), Empty>>
       /\ BlockLines(m, f, t + 2 * p + 1) = <<Data(p)>>
  /\ F > 0 => BlockLines(m, f, t + 2 * F + 2) = <<Empty, Closing>>

LEMMA BlockOfFile ==
  ASSUME NEW m, NEW f, NEW i, NEW g, NEW t, t = TextLen(m), (i - 1 - t + 1) \div 2 = g
  PROVE  /\ Blocks(m)[i] = "part" =>
              BlockLines(m, f, i) = <<Delimiter, Attached, Coded, Named(g), Empty>>
         /\ Blocks(m)[i] = "content" => BlockLines(m, f, i) = <<Data(g)>>
         /\ Blocks(m)[i] = "boundary" => BlockLines(m, f, i) = <<Empty, Closing>>
<1>1. (i - 1 - (IF m.lines = <<>> THEN 1 ELSE Len(m.lines)) + 1) \div 2 = g
  BY Zenon DEF TextLen
<1>2. Blocks(m)[i] = "part" =>
        BlockLines(m, f, i) = <<Delimiter, Attached, Coded, Named(g), Empty>>
  BY <1>1 DEF BlockLines, Attached, Coded, Named
<1>3. Blocks(m)[i] = "content" => BlockLines(m, f, i) = <<Data(g)>>
  BY <1>1 DEF BlockLines, Data
<1>4. Blocks(m)[i] = "boundary" => BlockLines(m, f, i) = <<Empty, Closing>>
  BY DEF BlockLines
<1> QED
  BY <1>2, <1>3, <1>4

LEMMA LinesOfBlocks ==
  ASSUME NEW m \in Mail, Sendable(m), NEW f, NEW t, t = TextLen(m), NEW F, F = m.files
  PROVE  LinesAre(m, f, t, F)
<1>1. Arranged(m, t, F)
  BY BlocksAt
<1>2. t \in Nat \ {0} /\ F \in Nat
  BY <1>1 DEF Arranged
<1>3. BlockLines(m, f, 1) = format_header(m, f)
  <2>1. Blocks(m)[1] = "header"
    BY <1>1 DEF Arranged
  <2> QED
    BY <2>1 DEF BlockLines
<1>4. ASSUME NEW k \in 1 .. t PROVE BlockLines(m, f, 1 + k) = <<TextLine(m, k)>>
  <2>1. Blocks(m)[1 + k] = IF m.lines = <<>> THEN "blank" ELSE "text"
    BY <1>1 DEF Arranged
  <2>2. PICK i : i = 1 + k /\ i - 1 = k
    BY <1>2
  <2>3. CASE m.lines = <<>>
    <3>1. Blocks(m)[i] = "blank"
      BY <2>1, <2>2, <2>3
    <3> QED
      BY <2>2, <2>3, <3>1 DEF BlockLines, TextLine
  <2>4. CASE m.lines # <<>>
    <3>1. Blocks(m)[i] = "text"
      BY <2>1, <2>2, <2>4
    <3>2. BlockLines(m, f, i) = << <<"line", i - 1>> >>
      BY <3>1 DEF BlockLines
    <3> QED
      BY <2>2, <2>4, <3>2 DEF TextLine
  <2> QED
    BY <2>3, <2>4
<1>5. ASSUME NEW p \in 1 .. F
      PROVE  /\ BlockLines(m, f, t + 2 * p) = <<Delimiter, Attached, Coded, Named(p), Empty>>
             /\ BlockLines(m, f, t + 2 * p + 1) = <<Data(p)>>
  <2>0. p \in Nat \ {0}
    BY <1>2
  <2>1. PICK k \in 1 .. 2 * F, n \in 1 .. 2 * F : k = 2 * p - 1 /\ n = 2 * p
    BY <1>2
  <2>2. k % 2 = 1 /\ n % 2 # 1
    BY <2>0, <2>1
  <2>3. PICK i, j : i = t + 2 * p /\ j = t + 2 * p + 1
    OBVIOUS
  <2>4. 1 + t + k = i /\ 1 + t + n = j
    BY <1>2, <2>0, <2>1, <2>3
  <2>5. Blocks(m)[i] = "part" /\ Blocks(m)[j] = "content"
    BY <1>1, <2>1, <2>2, <2>4 DEF Arranged
  <2>6. (i - 1 - t + 1) \div 2 = p /\ (j - 1 - t + 1) \div 2 = p
    BY <1>2, <2>0, <2>3
  <2>7. BlockLines(m, f, i) = <<Delimiter, Attached, Coded, Named(p), Empty>>
    BY <2>5, <2>6, BlockOfFile
  <2>8. BlockLines(m, f, j) = <<Data(p)>>
    BY <2>5, <2>6, BlockOfFile
  <2> QED
    BY <2>3, <2>7, <2>8
<1>6. F > 0 => BlockLines(m, f, t + 2 * F + 2) = <<Empty, Closing>>
  <2>1. PICK i : i = t + 2 * F + 2
    OBVIOUS
  <2>2. 1 + t + 2 * F + 1 = i
    BY <1>2, <2>1
  <2>3. F > 0 => Blocks(m)[i] = "boundary"
    BY <1>1, <2>2 DEF Arranged
  <2>4. PICK g : (i - 1 - t + 1) \div 2 = g
    OBVIOUS
  <2>5. Blocks(m)[i] = "boundary" => BlockLines(m, f, i) = <<Empty, Closing>>
    BY <2>4, BlockOfFile
  <2> QED
    BY <2>1, <2>3, <2>5
<1> QED
  BY <1>3, <1>4, <1>5, <1>6 DEF LinesAre


(* The text of a message, line by line: h lines of header, t of text, six  *)
(* for each of F files, and its end.                                       *)
TextAt(m, f, i) ==
  LET h == Len(format_header(m, f))
      t == TextLen(m)
      F == m.files
  IN CASE i <= h                              -> format_header(m, f)[i]
       [] i > h /\ i <= h + t                 -> TextLine(m, i - h)
       [] i > h + t /\ i <= h + t + 6 * F     -> FileLine(i - h - t)
       [] i = h + t + 6 * F + 2               -> Closing
       [] i > h + t + 6 * F /\ i # h + t + 6 * F + 2 -> Empty

(* Where the k-th block ends. *)
EndOf(m, f, k) ==
  LET h == Len(format_header(m, f))
      t == TextLen(m)
      F == m.files
  IN CASE k = 0                             -> 0
       [] k > 0 /\ k <= 1 + t               -> h + k - 1
       [] k > 1 + t /\ k <= 1 + t + 2 * F   -> h + t + 3 * (k - 1 - t) + 2 * ((k - 1 - t) % 2)
       [] k > 1 + t + 2 * F                 -> h + t + 6 * F + 2

Sized(m, f, h, t, F) ==
  h = Len(format_header(m, f)) /\ t = TextLen(m) /\ F = m.files

PartedAt(m, f, h, t, F) ==
  /\ \A i \in 1 .. h : TextAt(m, f, i) = format_header(m, f)[i]
  /\ \A k \in 1 .. t : TextAt(m, f, h + k) = TextLine(m, k)
  /\ \A i \in 1 .. 6 * F : TextAt(m, f, h + t + i) = FileLine(i)
  /\ TextAt(m, f, h + t + 6 * F + 1) = Empty
  /\ TextAt(m, f, h + t + 6 * F + 2) = Closing
  /\ TextAt(m, f, h + t + 6 * F + 3) = Empty

(* A place behind others is none of them. *)
LEMMA Beyond ==
  ASSUME NEW h \in Nat, NEW t \in Nat, NEW s \in Nat, NEW i \in Nat \ {0}
  PROVE  /\ ~(h + t + i <= h) /\ ~(h + t + i <= h + t) /\ h + t + i > h /\ h + t + i > h + t
         /\ h + t + i - h - t = i
         /\ i <= s => h + t + i <= h + t + s /\ ~(h + t + i > h + t + s) /\ ~(h + t + i = h + t + s + 2)
OBVIOUS

LEMMA TextParts ==
  ASSUME NEW m, NEW f, NEW h \in Nat, NEW t \in Nat \ {0}, NEW F \in Nat, Sized(m, f, h, t, F)
  PROVE  PartedAt(m, f, h, t, F)
<1>1. ASSUME NEW i \in 1 .. h PROVE TextAt(m, f, i) = format_header(m, f)[i]
  BY DEF Sized, TextAt
<1>2. ASSUME NEW k \in 1 .. t PROVE TextAt(m, f, h + k) = TextLine(m, k)
  <2>1. ~(h + k <= h) /\ h + k > h /\ h + k <= h + t /\ h + k - h = k /\ ~(h + k > h + t)
        /\ ~(h + k > h + t + 6 * F) /\ ~(h + k = h + t + 6 * F + 2)
    OBVIOUS
  <2> QED
    BY <2>1 DEF Sized, TextAt
<1>3. ASSUME NEW i \in 1 .. 6 * F PROVE TextAt(m, f, h + t + i) = FileLine(i)
  <2>1. PICK s \in Nat : s = 6 * F
    OBVIOUS
  <2>2. i \in Nat \ {0} /\ i <= s
    BY <2>1
  <2>3. t \in Nat
    OBVIOUS
  <2>4. /\ ~(h + t + i <= h) /\ ~(h + t + i <= h + t) /\ h + t + i > h + t /\ h + t + i <= h + t + s
        /\ h + t + i - h - t = i /\ ~(h + t + i > h + t + s) /\ ~(h + t + i = h + t + s + 2)
    BY <2>1, <2>2, <2>3, Beyond
  <2>5. PICK n : n = h + t + i
    OBVIOUS
  <2>6. TextAt(m, f, n) = FileLine(n - h - t)
    BY <2>1, <2>4, <2>5 DEF Sized, TextAt
  <2>7. n - h - t = i
    BY <2>4, <2>5
  <2> QED
    BY <2>5, <2>6, <2>7
<1>4. ASSUME NEW j \in 1 .. 3
      PROVE  TextAt(m, f, h + t + 6 * F + j) = IF j = 2 THEN Closing ELSE Empty
  <2>1. /\ ~(h + t + 6 * F + j <= h) /\ ~(h + t + 6 * F + j <= h + t) /\ ~(h + t + 6 * F + j <= h + t + 6 * F)
        /\ h + t + 6 * F + j > h + t + 6 * F
        /\ h + t + 6 * F + j = h + t + 6 * F + 2 <=> j = 2
    OBVIOUS
  <2> QED
    BY <2>1 DEF Sized, TextAt
<1> QED
  BY <1>1, <1>2, <1>3, <1>4 DEF PartedAt

EndsIn(m, f, h, t, F) ==
  /\ EndOf(m, f, 0) = 0
  /\ \A k \in 0 .. t : EndOf(m, f, 1 + k) = h + k
  /\ \A q \in 0 .. F : EndOf(m, f, t + 2 * q + 1) = h + t + 6 * q
  /\ \A q \in 0 .. F - 1 : EndOf(m, f, t + 2 * q + 2) = h + t + 6 * q + 5
  /\ EndOf(m, f, t + 2 * F + 2) = h + t + 6 * F + 2

LEMMA EndsAt ==
  ASSUME NEW m, NEW f, NEW h \in Nat, NEW t \in Nat \ {0}, NEW F \in Nat, Sized(m, f, h, t, F)
  PROVE  EndsIn(m, f, h, t, F)
<1>1. EndOf(m, f, 0) = 0
  BY DEF Sized, EndOf
<1>2. ASSUME NEW k \in 0 .. t PROVE EndOf(m, f, 1 + k) = h + k
  <2>1. /\ ~(1 + k = 0) /\ 1 + k > 0 /\ 1 + k <= 1 + t /\ h + (1 + k) - 1 = h + k /\ ~(1 + k > 1 + t)
        /\ ~(1 + k > 1 + t + 2 * F)
    OBVIOUS
  <2> QED
    BY <2>1 DEF Sized, EndOf
<1>3. ASSUME NEW r \in 1 .. 2 * F, NEW i, i = 1 + t + r
      PROVE  EndOf(m, f, i) = h + t + 3 * r + 2 * (r % 2)
  <2>1. /\ ~(i = 0) /\ ~(i <= 1 + t) /\ i > 1 + t /\ i <= 1 + t + 2 * F
        /\ i - 1 - t = r /\ ~(i > 1 + t + 2 * F)
    BY <1>3
  <2> QED
    BY <2>1 DEF Sized, EndOf
<1>4. ASSUME NEW q \in 0 .. F PROVE EndOf(m, f, t + 2 * q + 1) = h + t + 6 * q
  <2>1. CASE q = 0
    <3>1. t \in 0 .. t /\ t + 2 * q + 1 = 1 + t /\ h + t + 6 * q = h + t
      BY <2>1
    <3> QED
      BY <1>2, <3>1
  <2>2. CASE q # 0
    <3>1. PICK r \in Nat : r = 2 * q
      OBVIOUS
    <3>2. r \in 1 .. 2 * F /\ r % 2 = 0 /\ 3 * r = 6 * q
      BY <2>2, <3>1
    <3>3. PICK i : i = t + 2 * q + 1
      OBVIOUS
    <3>4. i = 1 + t + r
      BY <3>1, <3>3
    <3>5. EndOf(m, f, i) = h + t + 3 * r + 2 * (r % 2)
      BY <1>3, <3>2, <3>4
    <3> QED
      BY <3>2, <3>3, <3>5
  <2> QED
    BY <2>1, <2>2
<1>5. ASSUME NEW q \in 0 .. F - 1 PROVE EndOf(m, f, t + 2 * q + 2) = h + t + 6 * q + 5
  <2>1. PICK r \in Nat : r = 2 * q + 1
    OBVIOUS
  <2>2. r \in 1 .. 2 * F /\ r % 2 = 1 /\ 3 * r = 6 * q + 3
    BY <2>1
  <2>3. PICK i : i = t + 2 * q + 2
    OBVIOUS
  <2>4. i = 1 + t + r
    BY <2>1, <2>3
  <2>5. EndOf(m, f, i) = h + t + 3 * r + 2 * (r % 2)
    BY <1>3, <2>2, <2>4
  <2> QED
    BY <2>2, <2>3, <2>5
<1>6. EndOf(m, f, t + 2 * F + 2) = h + t + 6 * F + 2
  <2>1. PICK i : i = t + 2 * F + 2
    OBVIOUS
  <2>2. ~(i = 0) /\ ~(i <= 1 + t) /\ ~(i <= 1 + t + 2 * F) /\ i > 1 + t + 2 * F
    BY <2>1
  <2>3. EndOf(m, f, i) = h + t + 6 * F + 2
    BY <2>2 DEF Sized, EndOf
  <2> QED
    BY <2>1, <2>3
<1> QED
  BY <1>1, <1>2, <1>4, <1>5, <1>6 DEF EndsIn

(* The lines from one place to another. *)
Piece(e, a, b) == [i \in 1 .. b - a |-> e[a + i]]

LEMMA PieceOne ==
  ASSUME NEW e, NEW a \in Nat, NEW b, b = a + 1, NEW x, e[b] = x
  PROVE  Piece(e, a, b) = <<x>>
<1>1. b - a = 1
  OBVIOUS
<1>2. Piece(e, a, b) = [i \in 1 .. 1 |-> e[a + i]]
  BY <1>1 DEF Piece
<1> QED
  BY <1>2

LEMMA PieceTwo ==
  ASSUME NEW e, NEW a \in Nat, NEW b, b = a + 2, NEW x, NEW y, e[a + 1] = x, e[a + 2] = y
  PROVE  Piece(e, a, b) = <<x, y>>
<1>1. b - a = 2
  OBVIOUS
<1>2. Piece(e, a, b) = [i \in 1 .. 2 |-> e[a + i]]
  BY <1>1 DEF Piece
<1> QED
  BY <1>2

LEMMA PieceFive ==
  ASSUME NEW e, NEW a \in Nat, NEW b, b = a + 5, NEW x, NEW y, NEW z, NEW u, NEW v,
         e[a + 1] = x, e[a + 2] = y, e[a + 3] = z, e[a + 4] = u, e[a + 5] = v
  PROVE  Piece(e, a, b) = <<x, y, z, u, v>>
<1>1. b - a = 5
  OBVIOUS
<1>2. Piece(e, a, b) = [i \in 1 .. 5 |-> e[a + i]]
  BY <1>1 DEF Piece
<1> QED
  BY <1>2

(* A block is the lines between the end of the block in front of it and its own. *)
Fits(m, f, e, k, E) ==
  /\ EndOf(m, f, k) \in Nat /\ EndOf(m, f, k + 1) \in Nat
  /\ EndOf(m, f, k) <= EndOf(m, f, k + 1) /\ EndOf(m, f, k + 1) <= E
  /\ BlockLines(m, f, k + 1) = Piece(e, EndOf(m, f, k), EndOf(m, f, k + 1))

LEMMA FitsIf ==
  ASSUME NEW m, NEW f, NEW e, NEW k, NEW j, j = k + 1, NEW a \in Nat, NEW b \in Nat, NEW E, a <= b, b <= E,
         EndOf(m, f, k) = a, EndOf(m, f, j) = b, BlockLines(m, f, j) = Piece(e, a, b)
  PROVE  Fits(m, f, e, k, E)
BY Zenon DEF Fits

(* The blocks of the header and of the text. *)
LEMMA TextFits ==
  ASSUME NEW m, NEW f, NEW h \in Nat, NEW t \in Nat \ {0}, NEW F \in Nat, NEW S, format_header(m, f) \in Seq(S),
         Sized(m, f, h, t, F), PartedAt(m, f, h, t, F), EndsIn(m, f, h, t, F), LinesAre(m, f, t, F),
         NEW e, \A i \in Nat : e[i] = TextAt(m, f, i), NEW E \in Nat, h + t <= E
  PROVE  \A k \in 0 .. t : Fits(m, f, e, k, E)
<1>1. Fits(m, f, e, 0, E)
  <2>1. EndOf(m, f, 0) = 0 /\ EndOf(m, f, 1) = h
    <3>1. 0 \in 0 .. t /\ 1 + 0 = 1 /\ h + 0 = h
      OBVIOUS
    <3> QED
      BY <3>1 DEF EndsIn
  <2>2. format_header(m, f) = [i \in 1 .. h |-> format_header(m, f)[i]]
    BY LenProperties DEF Sized
  <2>3. Piece(e, 0, h) = [i \in 1 .. h |-> format_header(m, f)[i]]
    <3>1. \A i \in 1 .. h : e[0 + i] = format_header(m, f)[i]
      <4>1. \A i \in 1 .. h : i \in Nat /\ 0 + i = i
        OBVIOUS
      <4> QED
        BY <4>1 DEF PartedAt
    <3>2. h - 0 = h
      OBVIOUS
    <3> QED
      BY <3>1, <3>2 DEF Piece
  <2>4. BlockLines(m, f, 1) = format_header(m, f)
    BY DEF LinesAre
  <2>5. BlockLines(m, f, 1) = Piece(e, 0, h)
    BY <2>2, <2>3, <2>4, Zenon
  <2>6. 0 <= h /\ h <= E /\ 0 \in Nat /\ 1 = 0 + 1
    OBVIOUS
  <2> QED
    BY <2>1, <2>5, <2>6, FitsIf
<1>2. ASSUME NEW k \in 1 .. t PROVE Fits(m, f, e, k, E)
  <2>1. PICK a \in Nat, b \in Nat, j \in Nat : a = h + (k - 1) /\ b = h + k /\ j = k + 1
    OBVIOUS
  <2>2. k - 1 \in 0 .. t /\ k \in 0 .. t /\ 1 + (k - 1) = k /\ 1 + k = j /\ b = a + 1 /\ a <= b /\ b <= E
    BY <2>1
  <2>3. EndOf(m, f, k) = a /\ EndOf(m, f, j) = b
    BY <2>1, <2>2 DEF EndsIn
  <2>4. e[b] = TextLine(m, k)
    BY <2>1 DEF PartedAt
  <2>5. Piece(e, a, b) = <<TextLine(m, k)>>
    BY <2>2, <2>4, PieceOne
  <2>6. BlockLines(m, f, j) = <<TextLine(m, k)>>
    BY <2>2 DEF LinesAre
  <2> QED
    BY <2>1, <2>2, <2>3, <2>5, <2>6, FitsIf
<1>3. \A k \in 0 .. t : k = 0 \/ k \in 1 .. t
  OBVIOUS
<1> QED
  BY <1>1, <1>2, <1>3

(* Those of a file: its part and its content. *)
LEMMA FileFits ==
  ASSUME NEW m, NEW f, NEW h \in Nat, NEW t \in Nat \ {0}, NEW F \in Nat,
         PartedAt(m, f, h, t, F), EndsIn(m, f, h, t, F), LinesAre(m, f, t, F),
         NEW e, \A i \in Nat : e[i] = TextAt(m, f, i), NEW E \in Nat, h + t + 6 * F <= E,
         NEW q \in 0 .. F - 1, NEW k, k = t + 2 * q + 1
  PROVE  Fits(m, f, e, k, E) /\ Fits(m, f, e, k + 1, E)
<1>1. q \in Nat /\ q \in 0 .. F /\ q + 1 \in 0 .. F /\ q + 1 \in 1 .. F
  OBVIOUS
<1>2. PICK a \in Nat, b \in Nat, c \in Nat : a = h + t + 6 * q /\ b = a + 5 /\ c = b + 1
  OBVIOUS
<1>3. a <= b /\ b <= c /\ c <= E /\ b <= E
  BY <1>1, <1>2
<1>4. PICK j, n : j = k + 1 /\ n = j + 1
  OBVIOUS
<1>5. EndOf(m, f, k) = a /\ EndOf(m, f, j) = b /\ EndOf(m, f, n) = c
  <2>1. EndOf(m, f, k) = a
    BY <1>1, <1>2 DEF EndsIn
  <2>2. EndOf(m, f, t + 2 * q + 2) = h + t + 6 * q + 5
    BY DEF EndsIn
  <2>3. t + 2 * q + 2 = j /\ h + t + 6 * q + 5 = b
    BY <1>1, <1>2, <1>4
  <2>4. EndOf(m, f, t + 2 * (q + 1) + 1) = h + t + 6 * (q + 1)
    BY <1>1 DEF EndsIn
  <2>5. t + 2 * (q + 1) + 1 = n /\ h + t + 6 * (q + 1) = c
    BY <1>1, <1>2, <1>4
  <2> QED
    BY <2>1, <2>2, <2>3, <2>4, <2>5, Zenon
<1>6. ASSUME NEW r \in 1 .. 6 PROVE e[a + r] = FileLine(6 * q + r)
  <2>1. PICK i \in Nat : i = 6 * q + r
    BY <1>1
  <2>2. i \in 1 .. 6 * F /\ a + r = h + t + i /\ a + r \in Nat
    BY <1>1, <1>2, <2>1
  <2>3. TextAt(m, f, h + t + i) = FileLine(i)
    BY <2>2 DEF PartedAt
  <2>4. e[a + r] = TextAt(m, f, a + r)
    BY <2>2
  <2> QED
    BY <2>1, <2>2, <2>3, <2>4, Zenon
<1>7. /\ FileLine(6 * q + 1) = Delimiter /\ FileLine(6 * q + 2) = Attached
      /\ FileLine(6 * q + 3) = Coded /\ FileLine(6 * q + 4) = Named(q + 1)
      /\ FileLine(6 * q + 5) = Empty /\ FileLine(6 * q + 6) = Data(q + 1)
  BY <1>1, FileLines
<1>8. /\ e[a + 1] = Delimiter /\ e[a + 2] = Attached /\ e[a + 3] = Coded /\ e[a + 4] = Named(q + 1)
      /\ e[a + 5] = Empty /\ e[a + 6] = Data(q + 1)
  BY <1>6, <1>7
<1>9. Piece(e, a, b) = <<Delimiter, Attached, Coded, Named(q + 1), Empty>>
  BY <1>2, <1>8, PieceFive
<1>10. Piece(e, b, c) = <<Data(q + 1)>>
  <2>1. c = a + 6
    BY <1>2
  <2>2. e[c] = Data(q + 1)
    BY <1>8, <2>1
  <2> QED
    BY <1>2, <2>2, PieceOne
<1>11. /\ BlockLines(m, f, j) = <<Delimiter, Attached, Coded, Named(q + 1), Empty>>
       /\ BlockLines(m, f, n) = <<Data(q + 1)>>
  <2>1. /\ BlockLines(m, f, t + 2 * (q + 1)) = <<Delimiter, Attached, Coded, Named(q + 1), Empty>>
        /\ BlockLines(m, f, t + 2 * (q + 1) + 1) = <<Data(q + 1)>>
    BY <1>1, Zenon DEF LinesAre
  <2>2. t + 2 * (q + 1) = j /\ t + 2 * (q + 1) + 1 = n
    BY <1>1, <1>4
  <2> QED
    BY <2>1, <2>2, Zenon
<1>12. Fits(m, f, e, k, E)
  <2>1. BlockLines(m, f, j) = Piece(e, a, b)
    BY <1>9, <1>11, Zenon
  <2> QED
    BY <1>3, <1>4, <1>5, <2>1, FitsIf
<1>13. Fits(m, f, e, j, E)
  <2>1. BlockLines(m, f, n) = Piece(e, b, c)
    BY <1>10, <1>11, Zenon
  <2> QED
    BY <1>3, <1>4, <1>5, <2>1, FitsIf
<1> QED
  BY <1>4, <1>12, <1>13

(* Each block is the lines between its ends. *)
CutUp(m, f, e, N, E) ==
  /\ N \in Nat /\ E \in Nat /\ EndOf(m, f, 0) = 0 /\ EndOf(m, f, N) = E
  /\ \A k \in 0 .. N - 1 : Fits(m, f, e, k, E)

LEMMA Placed ==
  ASSUME NEW t \in Nat, NEW F \in Nat, NEW k \in Nat, t < k, k < t + 2 * F + 1
  PROVE  \E q \in 0 .. F - 1 : k = t + 2 * q + 1 \/ k = t + 2 * q + 2
<1>1. PICK j \in Nat : j = k - t - 1
  OBVIOUS
<1>2. PICK q : q = j \div 2
  OBVIOUS
<1>3. q \in Nat /\ (j = 2 * q \/ j = 2 * q + 1)
  BY <1>2
<1>4. q \in 0 .. F - 1 /\ (k = t + 2 * q + 1 \/ k = t + 2 * q + 2)
  BY <1>1, <1>3
<1> QED
  BY <1>4

LEMMA BlocksAreLines ==
  ASSUME NEW m \in Mail, Sendable(m), NEW f, NEW S, format_header(m, f) \in Seq(S),
         NEW h \in Nat, NEW t \in Nat \ {0}, NEW F \in Nat, Sized(m, f, h, t, F),
         NEW N, N = 1 + t + 2 * F + (IF F > 0 THEN 1 ELSE 0), NEW e, \A i \in Nat : e[i] = TextAt(m, f, i),
         NEW E, E = h + t + 6 * F + (IF F > 0 THEN 2 ELSE 0)
  PROVE  CutUp(m, f, e, N, E)
<1>1. h \in Nat
  OBVIOUS
<1>2. Arranged(m, t, F) /\ LinesAre(m, f, t, F)
  BY BlocksAt, LinesOfBlocks DEF Sized
<1>3. t \in Nat \ {0} /\ F \in Nat /\ N = 1 + t + 2 * F + (IF F > 0 THEN 1 ELSE 0)
  OBVIOUS
<1>4. PartedAt(m, f, h, t, F)
  BY <1>1, <1>3, TextParts
<1>5. EndsIn(m, f, h, t, F)
  BY <1>1, <1>3, EndsAt
<1>6. E \in Nat /\ h + t <= E /\ h + t + 6 * F <= E
  BY <1>1, <1>3
<1>7. EndOf(m, f, N) = E
  <2>1. CASE F > 0
    <3>1. N = t + 2 * F + 2 /\ E = h + t + 6 * F + 2
      BY <1>3, <2>1
    <3> QED
      BY <1>5, <3>1 DEF EndsIn
  <2>2. CASE F = 0
    <3>1. N = 1 + t /\ t \in 0 .. t /\ E = h + t
      BY <1>1, <1>3, <2>2
    <3> QED
      BY <1>5, <3>1 DEF EndsIn
  <2> QED
    BY <1>3, <2>1, <2>2
<1>8. \A k \in 0 .. t : Fits(m, f, e, k, E)
  BY <1>1, <1>2, <1>3, <1>4, <1>5, <1>6, TextFits
<1>9. ASSUME NEW q \in 0 .. F - 1, NEW k, k = t + 2 * q + 1 PROVE Fits(m, f, e, k, E) /\ Fits(m, f, e, k + 1, E)
  BY <1>1, <1>2, <1>3, <1>4, <1>5, <1>6, <1>9, FileFits
<1>10. ASSUME F > 0, NEW k, k = t + 2 * F + 1 PROVE Fits(m, f, e, k, E)
  <2>1. PICK a \in Nat : a = h + t + 6 * F
    BY <1>1, <1>3
  <2>2. PICK j : j = k + 1
    OBVIOUS
  <2>3. j = t + 2 * F + 2 /\ E = a + 2 /\ a <= E /\ E <= E
    BY <1>3, <1>6, <1>10, <2>1, <2>2
  <2>4. EndOf(m, f, k) = a
    <3>1. F \in 0 .. F
      BY <1>3
    <3> QED
      BY <1>5, <1>10, <2>1, <3>1 DEF EndsIn
  <2>5. EndOf(m, f, j) = E
    <3>1. h + t + 6 * F + 2 = E
      BY <2>1, <2>3
    <3> QED
      BY <1>5, <2>3, <3>1, Zenon DEF EndsIn
  <2>6. e[a + 1] = Empty /\ e[a + 2] = Closing
    BY <1>4, <2>1 DEF PartedAt
  <2>7. Piece(e, a, E) = <<Empty, Closing>>
    BY <2>3, <2>6, PieceTwo
  <2>8. BlockLines(m, f, j) = <<Empty, Closing>>
    BY <1>2, <1>10, <2>3, Zenon DEF LinesAre
  <2>9. BlockLines(m, f, j) = Piece(e, a, E)
    BY <2>7, <2>8, Zenon
  <2> QED
    BY <1>6, <2>2, <2>3, <2>4, <2>5, <2>9, FitsIf
<1>11. ASSUME NEW k \in 0 .. N - 1 PROVE Fits(m, f, e, k, E)
  <2>1. CASE k <= t
    <3>1. k \in 0 .. t
      BY <1>3, <2>1
    <3> QED
      BY <1>8, <3>1
  <2>2. CASE t < k /\ k < t + 2 * F + 1
    <3>1. k \in Nat /\ t \in Nat
      BY <1>3
    <3>2. PICK q \in 0 .. F - 1 : k = t + 2 * q + 1 \/ k = t + 2 * q + 2
      BY <1>3, <2>2, <3>1, Placed
    <3>3. PICK n : n = t + 2 * q + 1
      OBVIOUS
    <3>4. k = n \/ k = n + 1
      BY <1>3, <3>2, <3>3
    <3> QED
      BY <1>9, <3>3, <3>4
  <2>3. CASE ~(k < t + 2 * F + 1)
    <3>1. F > 0 /\ k = t + 2 * F + 1
      BY <1>3, <2>3
    <3> QED
      BY <1>10, <3>1
  <2>4. k <= t \/ t < k
    BY <1>3
  <2> QED
    BY <2>1, <2>2, <2>3, <2>4
<1>12. N \in Nat
  BY <1>3
<1>13. EndOf(m, f, 0) = 0
  BY <1>5 DEF EndsIn
<1> QED
  BY <1>6, <1>7, <1>11, <1>12, <1>13 DEF CutUp


(* The whole text, with the empty line that the final dot's line end makes. *)
TextMade(m, f, h, t, F, S, text) ==
  /\ text \in Seq(S)
  /\ Len(text) = h + t + 6 * F + (IF F > 0 THEN 3 ELSE 1)
  /\ \A i \in 1 .. Len(text) : text[i] = TextAt(m, f, i)

LEMMA TextIs ==
  ASSUME NEW m \in Mail, Sendable(m), NEW f,
         NEW H, format_header(m, f) \in Seq(H), NEW h, NEW t, NEW F, Sized(m, f, h, t, F),
         NEW text, text = FlattenSeq([k \in 1 .. Len(Blocks(m)) |-> BlockLines(m, f, k)]) \o <<Empty>>
  PROVE  TextMade(m, f, h, t, F, {TextAt(m, f, i) : i \in Nat}, text)
<1>1. PICK N : N = Len(Blocks(m))
  OBVIOUS
<1>2. PICK e : e = [i \in Nat |-> TextAt(m, f, i)]
  OBVIOUS
<1> DEFINE S == {TextAt(m, f, i) : i \in Nat}
<1>3. \A i \in Nat : e[i] = TextAt(m, f, i) /\ e[i] \in S
  BY <1>2
<1> HIDE DEF S
<1>4. h \in Nat /\ t \in Nat \ {0} /\ F \in Nat
  <2>1. h \in Nat
    BY LenProperties DEF Sized
  <2>2. Arranged(m, t, F)
    BY BlocksAt DEF Sized
  <2> QED
    BY <2>1, <2>2 DEF Arranged
<1>5. PICK E \in Nat : E = h + t + 6 * F + (IF F > 0 THEN 2 ELSE 0)
  BY <1>4
<1>6. CutUp(m, f, e, N, E)
  <2>1. Arranged(m, t, F)
    BY BlocksAt DEF Sized
  <2>2. N = 1 + t + 2 * F + (IF F > 0 THEN 1 ELSE 0)
    BY <1>1, <2>1 DEF Arranged
  <2> QED
    BY <1>3, <1>4, <1>5, <2>2, BlocksAreLines
<1>7. N \in Nat /\ EndOf(m, f, 0) = 0 /\ EndOf(m, f, N) = E /\ \A k \in 0 .. N - 1 : Fits(m, f, e, k, E)
  BY <1>6 DEF CutUp
<1> DEFINE b == [k \in 1 .. N |-> BlockLines(m, f, k)]
           end == [k \in 0 .. N |-> EndOf(m, f, k)]
           G == [k \in 0 .. N |-> FlatTo(b, k)]
<1>8. \A k \in 0 .. N : EndOf(m, f, k) \in Nat /\ EndOf(m, f, k) <= E
  <2>1. ASSUME NEW k \in 0 .. N PROVE EndOf(m, f, k) \in Nat /\ EndOf(m, f, k) <= E
    <3>1. CASE k = N
      BY <1>7, <3>1
    <3>2. CASE k # N
      <4>1. k \in 0 .. N - 1
        BY <1>7, <3>2
      <4>2. PICK x \in Nat, y \in Nat : x = EndOf(m, f, k) /\ x <= y /\ y <= E
        BY <1>7, <4>1 DEF Fits
      <4> QED
        BY <4>2
    <3> QED
      BY <3>1, <3>2
  <2> QED
    BY <2>1
<1>9. \A k \in 1 .. N : b[k] \in Seq(S)
  <2>1. ASSUME NEW k \in 1 .. N PROVE b[k] \in Seq(S)
    <3>1. PICK j \in 0 .. N - 1 : j = k - 1 /\ k = j + 1
      BY <1>7
    <3>2. PICK x \in Nat, y \in Nat : x <= y /\ BlockLines(m, f, k) = Piece(e, x, y)
      BY <1>7, <3>1 DEF Fits
    <3>3. PICK w \in Nat : w = y - x
      BY <3>2
    <3>4. [i \in 1 .. w |-> e[x + i]] \in [1 .. w -> S]
      <4>1. \A i \in 1 .. w : x + i \in Nat
        OBVIOUS
      <4> QED
        BY <1>3, <4>1
    <3>5. [i \in 1 .. w |-> e[x + i]] \in Seq(S)
      BY <3>4, FunctionIsSeq
    <3>6. Piece(e, x, y) \in Seq(S)
      BY <3>3, <3>5 DEF Piece
    <3> QED
      BY <3>2, <3>6
  <2> QED
    BY <2>1
<1>10. Grows(G, N, e, end)
  <2>1. G[0] = <<>>
    <3>1. FlatTo(b, 0) = FlattenSeq(<<>>)
      <4>1. [i \in 1 .. 0 |-> b[i]] = <<>>
        OBVIOUS
      <4> HIDE DEF b
      <4> QED
        BY <4>1, Zenon DEF FlatTo
    <3>2. 0 \in 0 .. N
      BY <1>7
    <3> QED
      BY <3>1, <3>2, FlattenNothing
  <2>2. end[0] = 0
    BY <1>7
  <2>3. \A k \in 0 .. N : end[k] = EndOf(m, f, k) /\ G[k] = FlatTo(b, k)
    OBVIOUS
  <2>4. ASSUME NEW k \in 0 .. N - 1
        PROVE  end[k] <= end[k + 1] /\ G[k + 1] = G[k] \o [i \in 1 .. end[k + 1] - end[k] |-> e[end[k] + i]]
    <3>1. k \in 0 .. N /\ k + 1 \in 0 .. N /\ k + 1 \in 1 .. N
      BY <1>7
    <3>2. Fits(m, f, e, k, E)
      BY <1>7
    <3>3. end[k] = EndOf(m, f, k) /\ end[k + 1] = EndOf(m, f, k + 1) /\ b[k + 1] = BlockLines(m, f, k + 1)
      BY <2>3, <3>1
    <3>4. FlatTo(b, k + 1) = FlatTo(b, k) \o b[k + 1]
      <4> HIDE DEF b
      <4> QED
        BY <1>7, <1>9, FlatPrefix
    <3>5. G[k] = FlatTo(b, k) /\ G[k + 1] = FlatTo(b, k + 1)
      BY <2>3, <3>1
    <3> HIDE DEF G, b, end
    <3>6. end[k] <= end[k + 1] /\ b[k + 1] = Piece(e, end[k], end[k + 1])
      BY <3>2, <3>3, Zenon DEF Fits
    <3>7. G[k + 1] = G[k] \o Piece(e, end[k], end[k + 1])
      BY <3>4, <3>5, <3>6, Zenon
    <3> QED
      BY <3>6, <3>7 DEF Piece
  <2>5. \A k \in 0 .. N : end[k] \in Nat
    BY <1>8, <2>3
  <2> HIDE DEF G, b, end
  <2> QED
    BY <2>1, <2>2, <2>4, <2>5, Zenon DEF Grows
<1>11. G[N] = [i \in 1 .. E |-> e[i]]
  <2>1. N \in 0 .. N /\ end[N] = E
    BY <1>7
  <2>2. \A i \in 1 .. end[N] : e[i] \in S
    BY <1>3, <2>1
  <2>3. \A k \in 0 .. N : end[k] <= end[N]
    BY <1>8, <2>1
  <2> HIDE DEF G, end
  <2>4. G[N] = [i \in 1 .. end[N] |-> e[i]]
    <3>1. Bounded(N, e, end, S)
      BY <2>2, <2>3, Zenon DEF Bounded
    <3>2. GrewTo(G, N, e, end)
      BY <1>7, <1>10, <3>1, GrownTo
    <3> QED
      BY <3>2, Zenon DEF GrewTo
  <2> QED
    BY <2>1, <2>4, Zenon
<1>12. FlattenSeq([k \in 1 .. Len(Blocks(m)) |-> BlockLines(m, f, k)]) = [i \in 1 .. E |-> e[i]]
  <2>1. G[N] = FlatTo(b, N)
    BY <1>7
  <2>2. [i \in 1 .. N |-> b[i]] = b
    OBVIOUS
  <2>3. FlatTo(b, N) = FlattenSeq(b)
    <3> HIDE DEF b
    <3> QED
      BY <2>2, Zenon DEF FlatTo
  <2> HIDE DEF G
  <2> QED
    BY <1>1, <1>11, <2>1, <2>3, Zenon
<1> DEFINE s == [i \in 1 .. E |-> e[i]]
<1>13. s \in Seq(S) /\ Len(s) = E /\ \A i \in 1 .. E : s[i] = TextAt(m, f, i)
  <2>1. s \in [1 .. E -> S]
    BY <1>3
  <2>2. \A i \in 1 .. E : s[i] = TextAt(m, f, i)
    BY <1>3
  <2> HIDE DEF s
  <2>3. s \in Seq(S) /\ Len(s) = E
    BY <2>1, FunctionIsSeq
  <2> QED
    BY <2>2, <2>3
<1>14. TextAt(m, f, E + 1) = Empty
  <2>1. /\ TextAt(m, f, h + t + 6 * F + 1) = Empty
        /\ TextAt(m, f, h + t + 6 * F + 3) = Empty
    BY <1>4, TextParts DEF PartedAt
  <2>2. E + 1 = h + t + 6 * F + 1 \/ E + 1 = h + t + 6 * F + 3
    BY <1>4, <1>5
  <2> QED
    BY <2>1, <2>2, Zenon
<1>15. Empty \in S
  <2>1. E + 1 \in Nat
    OBVIOUS
  <2> QED
    BY <1>3, <1>14, <2>1
<1>16. text = s \o <<Empty>>
  BY <1>12, Zenon
<1> HIDE DEF s
<1>17. text = Append(s, Empty)
  BY <1>13, <1>15, <1>16, AppendIsConcat
<1>18. /\ Append(s, Empty) \in Seq(S) /\ Len(Append(s, Empty)) = E + 1
       /\ \A i \in 1 .. E : Append(s, Empty)[i] = s[i] 
       /\ Append(s, Empty)[E + 1] = Empty
  BY <1>13, <1>15, AppendProperties
<1>19. \A i \in 1 .. E + 1 : text[i] = TextAt(m, f, i)
  <2>1. \A i \in 1 .. E + 1 : i \in 1 .. E \/ i = E + 1
    OBVIOUS
  <2> QED
    BY <1>13, <1>14, <1>17, <1>18, <2>1
<1>20. Len(text) = E + 1
  BY <1>17, <1>18
<1>21. E + 1 = h + t + 6 * F + (IF F > 0 THEN 3 ELSE 1)
  BY <1>4, <1>5
<1>22. text \in Seq(S)
  BY <1>17, <1>18
<1> QED
  BY <1>19, <1>20, <1>21, <1>22, Zenon DEF S, TextMade

-----------------------------------------------------------------------------
(* The fields of the header, whatever is asked for. *)
ValueOf(m, f, name) ==
  CASE name = "Date"         -> "now"
    [] name = "From"         -> <<IF f.name THEN "name" ELSE "", "<sender>">>
    [] name = "X-Mailer"     -> "xmailer"
    [] name = "Reply-To"     -> "reply_to"
    [] name = "Disposition-Notification-To" ->
         IF f.reply_to THEN "reply_to" ELSE IF f.name THEN "name" ELSE ""
    [] name = "X-Priority"   -> XPriority(f.priority)
    [] name = "To"           -> List("to", m.to)
    [] name = "Cc"           -> List("cc", m.cc)
    [] name = "Bcc"          -> <<>>
    [] name = "Subject"      -> IF f.subject THEN "subject" ELSE " "
    [] name = "MIME-Version" -> "1.0"

Present(m, f) ==
  {"Date", "From"} \cup (IF f.xmailer THEN {"X-Mailer"} ELSE {})
  \cup (IF f.reply_to THEN {"Reply-To"} ELSE {})
  \cup (IF f.receipt THEN {"Disposition-Notification-To"} ELSE {}) \cup {"X-Priority", "To"}
  \cup (IF m.cc > 0 THEN {"Cc"} ELSE {}) \cup (IF m.bcc > 0 THEN {"Bcc"} ELSE {})
  \cup {"Subject", "MIME-Version"}

(* The lines s are the fields of some names. *)
FieldsFor(m, f, N) == {Field(n, ValueOf(m, f, n)) : n \in N}
AreFields(s, X) == s \in Seq(X) /\ X = {s[i] : i \in 1 .. Len(s)}

LEMMA FieldsBoth ==
  ASSUME NEW s, NEW r, NEW X, NEW Y, AreFields(s, X), AreFields(r, Y)
  PROVE  AreFields(s \o r, X \cup Y)
<1>1. X \subseteq X \cup Y /\ Y \subseteq X \cup Y
  OBVIOUS
<1>2. PICK Z : Z = X \cup Y
  OBVIOUS
<1>3. s \in Seq(Z) /\ r \in Seq(Z)
  BY <1>1, <1>2, SeqMonotonic DEF AreFields
<1>4. /\ s \o r \in Seq(Z) /\ Len(s \o r) = Len(s) + Len(r) /\ Len(s) \in Nat /\ Len(r) \in Nat
      /\ \A i \in 1 .. Len(s) : (s \o r)[i] = s[i]
      /\ \A i \in 1 .. Len(r) : (s \o r)[Len(s) + i] = r[i]
  BY <1>3, Behind
<1>5. PICK q : q = s \o r
  OBVIOUS
<1>6. PICK a \in Nat, b \in Nat : a = Len(s) /\ b = Len(r)
  BY <1>4
<1>7. ASSUME NEW x \in Z PROVE \E i \in 1 .. Len(q) : x = q[i]
  <2>1. CASE x \in X
    <3>1. PICK i \in 1 .. a : x = s[i]
      BY <1>6, <2>1 DEF AreFields
    <3>2. i \in 1 .. a + b
      BY <1>6
    <3> QED
      BY <1>4, <1>5, <1>6, <3>1, <3>2
  <2>2. CASE x \in Y
    <3>1. PICK i \in 1 .. b : x = r[i]
      BY <1>6, <2>2 DEF AreFields
    <3>2. a + i \in 1 .. a + b
      BY <1>6
    <3> QED
      BY <1>4, <1>5, <1>6, <3>1, <3>2
  <2> QED
    BY <1>2, <2>1, <2>2
<1>8. \A i \in 1 .. Len(q) : q[i] \in Z
  BY <1>4, <1>5, ElementOfSeq
<1>9. Z = {q[i] : i \in 1 .. Len(q)}
  BY <1>7, <1>8
<1>10. q \in Seq(Z)
  BY <1>4, <1>5, Zenon
<1>11. AreFields(q, Z)
  BY <1>9, <1>10, Zenon DEF AreFields
<1> QED
  BY <1>2, <1>5, <1>11, Zenon

LEMMA FieldsOne ==
  ASSUME NEW x, NEW y
  PROVE  AreFields(<<x>>, {x}) /\ AreFields(<<x, y>>, {x, y}) /\ AreFields(<<>>, {})
<1>1. AreFields(<<x>>, {x})
  BY DEF AreFields
<1>2. AreFields(<<x, y>>, {x, y})
  BY DEF AreFields
<1>3. AreFields(<<>>, {})
  BY DEF AreFields
<1> QED
  BY <1>1, <1>2, <1>3

LEMMA FieldsIf ==
  ASSUME NEW x, NEW test \in BOOLEAN
  PROVE  AreFields(OnlyIf(test, x), IF test THEN {x} ELSE {})
<1>1. CASE test
  BY <1>1, FieldsOne DEF OnlyIf
<1>2. CASE ~test
  BY <1>2, FieldsOne DEF OnlyIf
<1> QED
  BY <1>1, <1>2

(* Exactly the fields Present names, each with its value. *)
LEMMA HeadIs ==
  ASSUME NEW m \in Mail, NEW f \in Form
  PROVE  AreFields(HeadLines(m, f, <<>>), FieldsFor(m, f, Present(m, f)))
<1> DEFINE v(n) == Field(n, ValueOf(m, f, n))
           s1 == <<v("Date"), v("From")>>
           s2 == OnlyIf(f.xmailer, v("X-Mailer"))
           s3 == OnlyIf(f.reply_to, v("Reply-To"))
           s4 == OnlyIf(f.receipt, v("Disposition-Notification-To"))
           s5 == <<v("X-Priority"), v("To")>>
           s6 == OnlyIf(m.cc > 0, v("Cc"))
           s7 == OnlyIf(m.bcc > 0, v("Bcc"))
           s8 == <<v("Subject"), v("MIME-Version")>>
<1>1. /\ ValueOf(m, f, "Date") = "now"
      /\ ValueOf(m, f, "From") = <<IF f.name THEN "name" ELSE "", "<sender>">>
      /\ ValueOf(m, f, "X-Mailer") = "xmailer" /\ ValueOf(m, f, "Reply-To") = "reply_to"
      /\ ValueOf(m, f, "Disposition-Notification-To")
           = IF f.reply_to THEN "reply_to" ELSE IF f.name THEN "name" ELSE ""
      /\ ValueOf(m, f, "X-Priority") = XPriority(f.priority)
      /\ ValueOf(m, f, "To") = List("to", m.to) /\ ValueOf(m, f, "Cc") = List("cc", m.cc)
      /\ ValueOf(m, f, "Bcc") = <<>>
      /\ ValueOf(m, f, "Subject") = IF f.subject THEN "subject" ELSE " "
      /\ ValueOf(m, f, "MIME-Version") = "1.0"
  BY DEF ValueOf
<1>2. HeadLines(m, f, <<>>) = ((((((s1 \o s2) \o s3) \o s4) \o s5) \o s6) \o s7) \o s8
  BY <1>1, Zenon DEF HeadLines
<1>3. /\ f.xmailer \in BOOLEAN /\ f.reply_to \in BOOLEAN /\ f.receipt \in BOOLEAN
      /\ (m.cc > 0) \in BOOLEAN /\ (m.bcc > 0) \in BOOLEAN
  BY DEF Form, Mail
<1> DEFINE X1 == {v("Date"), v("From")}
           X2 == IF f.xmailer THEN {v("X-Mailer")} ELSE {}
           X3 == IF f.reply_to THEN {v("Reply-To")} ELSE {}
           X4 == IF f.receipt THEN {v("Disposition-Notification-To")} ELSE {}
           X5 == {v("X-Priority"), v("To")}
           X6 == IF m.cc > 0 THEN {v("Cc")} ELSE {}
           X7 == IF m.bcc > 0 THEN {v("Bcc")} ELSE {}
           X8 == {v("Subject"), v("MIME-Version")}
<1> HIDE DEF v
<1>4. AreFields(s1, X1) /\ AreFields(s5, X5) /\ AreFields(s8, X8)
  BY FieldsOne
<1>5. AreFields(s2, X2) /\ AreFields(s3, X3) /\ AreFields(s4, X4)
  BY <1>3, FieldsIf
<1>6. AreFields(s6, X6) /\ AreFields(s7, X7)
  BY <1>3, FieldsIf
<1>7. FieldsFor(m, f, Present(m, f)) = ((((((X1 \cup X2) \cup X3) \cup X4) \cup X5) \cup X6) \cup X7) \cup X8
  <2> DEFINE N == Present(m, f)
             X == ((((((X1 \cup X2) \cup X3) \cup X4) \cup X5) \cup X6) \cup X7) \cup X8
  <2>1. ASSUME NEW n \in N PROVE v(n) \in X
    BY Zenon DEF Present
  <2>2. ASSUME NEW x \in X PROVE \E n \in N : x = v(n)
    BY Zenon DEF Present
  <2> HIDE DEF N, X
  <2>3. {v(n) : n \in N} = X
    BY <2>1, <2>2
  <2> QED
    BY <2>3 DEF FieldsFor, v, N, X
<1> HIDE DEF s1, s2, s3, s4, s5, s6, s7, s8, X1, X2, X3, X4, X5, X6, X7, X8
<1>8. AreFields((s1 \o s2) \o s3, (X1 \cup X2) \cup X3)
  BY <1>4, <1>5, FieldsBoth
<1>9. AreFields(((s1 \o s2) \o s3) \o s4, ((X1 \cup X2) \cup X3) \cup X4)
  BY <1>5, <1>8, FieldsBoth
<1>10. AreFields((((s1 \o s2) \o s3) \o s4) \o s5, (((X1 \cup X2) \cup X3) \cup X4) \cup X5)
  BY <1>4, <1>9, FieldsBoth
<1>11. AreFields(((((s1 \o s2) \o s3) \o s4) \o s5) \o s6, ((((X1 \cup X2) \cup X3) \cup X4) \cup X5) \cup X6)
  BY <1>6, <1>10, FieldsBoth
<1>12. AreFields((((((s1 \o s2) \o s3) \o s4) \o s5) \o s6) \o s7,
                 (((((X1 \cup X2) \cup X3) \cup X4) \cup X5) \cup X6) \cup X7)
  BY <1>6, <1>11, FieldsBoth
<1>13. AreFields(((((((s1 \o s2) \o s3) \o s4) \o s5) \o s6) \o s7) \o s8,
                 ((((((X1 \cup X2) \cup X3) \cup X4) \cup X5) \cup X6) \cup X7) \cup X8)
  BY <1>4, <1>12, FieldsBoth
<1> QED
  BY <1>2, <1>7, <1>13


LEMMA FieldIs ==
  ASSUME NEW n, NEW v
  PROVE  Len(Field(n, v)) = 2 /\ Field(n, v)[1] = n /\ Field(n, v)[2] = v /\ Field(n, v) # Empty
<1>1. Len(Field(n, v)) = 2 /\ Field(n, v)[1] = n /\ Field(n, v)[2] = v
  BY DEF Field
<1>2. Len(Empty) = 0
  BY EmptySeq DEF Empty
<1> QED
  BY <1>1, <1>2

LEMMA FieldsDiffer ==
  ASSUME NEW n, NEW v, NEW k, NEW w
  PROVE  Field(n, v) = Field(k, w) <=> n = k /\ v = w
<1>1. Field(n, v)[1] = n /\ Field(n, v)[2] = v /\ Field(k, w)[1] = k /\ Field(k, w)[2] = w
  BY FieldIs
<1>2. ASSUME Field(n, v) = Field(k, w) PROVE n = k /\ v = w
  BY <1>1, <1>2, Zenon
<1> QED
  BY <1>2, Zenon

SixOf(x, y, z, u, v, w) == <<x, y, z>> \o <<u, v, w>> = <<x, y, z, u, v, w>>

LEMMA ThreeAndThree ==
  ASSUME NEW x, NEW y, NEW z, NEW u, NEW v, NEW w
  PROVE  SixOf(x, y, z, u, v, w)
<1> DEFINE S == {x, y, z, u, v, w}
           a == <<x, y, z>>
           b == <<u, v, w>>
           c == <<x, y, z, u, v, w>>
<1>1. a \in Seq(S) /\ Len(a) = 3 /\ a[1] = x /\ a[2] = y /\ a[3] = z
  OBVIOUS
<1>2. b \in Seq(S) /\ Len(b) = 3 /\ b[1] = u /\ b[2] = v /\ b[3] = w
  OBVIOUS
<1>3. /\ c \in Seq(S) /\ Len(c) = 6 /\ c[1] = x /\ c[2] = y /\ c[3] = z
      /\ c[4] = u /\ c[5] = v /\ c[6] = w
  OBVIOUS
<1> HIDE DEF S, a, b, c
<1>4. PICK d : d = a \o b
  OBVIOUS
<1>5. IsJoin(S, d, a, 3, b, 3)
  BY <1>1, <1>2, <1>4, Join
<1>6. d \in Seq(S) /\ Len(d) = 6
  BY <1>5 DEF IsJoin
<1>7. d[1] = x /\ d[2] = y /\ d[3] = z
  <2>1. 1 \in 1 .. 3 /\ 2 \in 1 .. 3 /\ 3 \in 1 .. 3
    OBVIOUS
  <2> QED
    BY <1>1, <1>5, <2>1, Zenon DEF IsJoin
<1>8. d[4] = u /\ d[5] = v /\ d[6] = w
  <2>1. \A i \in 1 .. 3 : d[3 + i] = b[i]
    BY <1>5, Zenon DEF IsJoin
  <2>2. d[3 + 1] = b[1] /\ d[3 + 2] = b[2] /\ d[3 + 3] = b[3]
    BY <2>1
  <2> QED
    BY <1>2, <2>2
<1>9. \A i \in 1 .. 6 : d[i] = c[i]
  <2>1. \A i \in 1 .. 6 : i = 1 \/ i = 2 \/ i = 3 \/ i = 4 \/ i = 5 \/ i = 6
    OBVIOUS
  <2> QED
    BY <1>3, <1>7, <1>8, <2>1, Zenon
<1>10. d = c
  BY <1>3, <1>6, <1>9, SeqEqual
<1> QED
  BY <1>4, <1>10, Zenon DEF a, b, c, SixOf

(* The header: the fields of any message, then its type. *)
HeaderMade(m, f, s, a, head) ==
  /\ a \in Nat /\ (\E H : head \in Seq(H)) /\ Len(head) \in Nat
  /\ \A i \in 1 .. a : head[i] = s[i]
  /\ m.files = 0 => /\ Len(head) = a + 3
                    /\ head[a + 1] = Typed(f) /\ head[a + 2] = Seven /\ head[a + 3] = Empty
  /\ m.files > 0 => /\ Len(head) = a + 6
                    /\ head[a + 1] = Multi /\ head[a + 2] = Empty /\ head[a + 3] = Delimiter
                    /\ head[a + 4] = Typed(f) /\ head[a + 5] = Seven /\ head[a + 6] = Empty

LEMMA HeaderIs ==
  ASSUME NEW m \in Mail, NEW f \in Form, NEW s, s = HeadLines(m, f, <<>>),
         NEW a, a = Len(s), NEW head, head = format_header(m, f)
  PROVE  HeaderMade(m, f, s, a, head)
<1> DEFINE T == {Typed(f), Seven, Empty, Multi, Delimiter}
           short == <<Typed(f), Seven, Empty>>
           long == <<Multi, Empty, Delimiter, Typed(f), Seven, Empty>>
           type == TypeLines(m, f)
           H == FieldsFor(m, f, Present(m, f)) \cup T
<1>1. m.files \in Nat
  BY DEF Mail
<1>2. AreFields(s, FieldsFor(m, f, Present(m, f)))
  BY HeadIs
<1>3. m.files = 0 => type = short
  BY DEF TypeLines, Typed, Seven
<1>4. m.files > 0 => type = long
  <2>1. m.files > 0 => type = <<Multi, Empty, Delimiter>> \o short
    <3>1. m.files # 0 => type = <<Multi, Empty, Delimiter>> \o short
      BY Zenon DEF TypeLines, Typed, Seven, Multi
    <3>2. m.files > 0 => m.files # 0
      OBVIOUS
    <3> QED
      BY <3>1, <3>2, Zenon
  <2>2. <<Multi, Empty, Delimiter>> \o <<Typed(f), Seven, Empty>> = long
    <3>1. SixOf(Multi, Empty, Delimiter, Typed(f), Seven, Empty)
      BY ThreeAndThree, Zenon
    <3> QED
      BY <3>1, Zenon DEF SixOf
  <2> HIDE DEF type, long
  <2> QED
    BY <2>1, <2>2
<1>5. short \in Seq(T) /\ long \in Seq(T)
  OBVIOUS
<1>6. type \in Seq(T)
  <2> HIDE DEF T, short, long
  <2> QED
    BY <1>1, <1>3, <1>4, <1>5
<1>7. s \in Seq(H) /\ type \in Seq(H)
  <2>1. FieldsFor(m, f, Present(m, f)) \subseteq H /\ T \subseteq H
    OBVIOUS
  <2> HIDE DEF H, T, type
  <2> QED
    BY <1>2, <1>6, <2>1, SeqMonotonic DEF AreFields
<1>8. head = s \o type
  BY DEF format_header
<1> HIDE DEF H, T, type
<1>9. /\ head \in Seq(H) /\ Len(head) = a + Len(type) /\ a \in Nat /\ Len(type) \in Nat
      /\ \A i \in 1 .. a : head[i] = s[i]
      /\ \A i \in 1 .. Len(type) : head[a + i] = type[i]
  BY <1>7, <1>8, Behind
<1>10. ASSUME m.files = 0
       PROVE  Len(head) = a + 3 /\ head[a + 1] = Typed(f) /\ head[a + 2] = Seven /\ head[a + 3] = Empty
  <2>1. Len(type) = 3 /\ type[1] = Typed(f) /\ type[2] = Seven /\ type[3] = Empty
    BY <1>3, <1>10
  <2>2. 1 \in 1 .. 3 /\ 2 \in 1 .. 3 /\ 3 \in 1 .. 3
    OBVIOUS
  <2> QED
    BY <1>9, <2>1, <2>2
<1>11. ASSUME m.files > 0
       PROVE  /\ Len(head) = a + 6
              /\ head[a + 1] = Multi /\ head[a + 2] = Empty /\ head[a + 3] = Delimiter
              /\ head[a + 4] = Typed(f) /\ head[a + 5] = Seven /\ head[a + 6] = Empty
  <2>1. /\ Len(type) = 6 /\ type[1] = Multi /\ type[2] = Empty /\ type[3] = Delimiter
        /\ type[4] = Typed(f) /\ type[5] = Seven /\ type[6] = Empty
    BY <1>4, <1>11
  <2>2. \A i \in 1 .. 6 : head[a + i] = type[i]
    BY <1>9, <2>1
  <2> QED
    BY <1>9, <2>1, <2>2
<1>12. \E X : head \in Seq(X)
  BY <1>9
<1>13. Len(head) \in Nat
  BY <1>9
<1> QED
  BY <1>9, <1>10, <1>11, <1>12, <1>13, Zenon DEF HeaderMade

(* What a header yields: each field that is present once, and the type. *)
Extra == {"Content-Type", "Content-Transfer-Encoding"}

LEMMA ValueIn ==
  ASSUME NEW text, NEW c, NEW name, NEW x
  PROVE  x \in ValuesTo(text, c, name)
           <=> \E j \in 1 .. c - 1 : Len(text[j]) = 2 /\ text[j][1] = name /\ x = text[j][2]
BY DEF ValuesTo

StartsWith(m, f, a, text) ==
  LET s == HeadLines(m, f, <<>>) IN a = Len(s) /\ \A i \in 1 .. a : text[i] = s[i]

Headed(m, f, a, text, c) ==
  /\ StartsWith(m, f, a, text)
  /\ \A i \in a + 1 .. c - 1 : \E n \in Extra : \E v : text[i] = Field(n, v)

ValuesAre(m, f, a, text, c) ==
  /\ \A name : name \notin Extra =>
       ValuesTo(text, c, name) = IF name \in Present(m, f) THEN {ValueOf(m, f, name)} ELSE {}
  /\ \A name \in Extra : \A x :
       x \in ValuesTo(text, c, name) <=> \E i \in a + 1 .. c - 1 : text[i] = Field(name, x)
  /\ \A i \in 1 .. c - 1 : text[i] # Empty

LEMMA HeaderValues ==
  ASSUME NEW m \in Mail, NEW f \in Form, NEW a \in Nat, NEW text, NEW c \in Nat, a < c,
         Headed(m, f, a, text, c)
  PROVE  ValuesAre(m, f, a, text, c)
<1>11. PICK s : s = HeadLines(m, f, <<>>)
  OBVIOUS
<1>12. a = Len(s) /\ \A i \in 1 .. a : text[i] = s[i]
  BY <1>11, Zenon DEF Headed, StartsWith
<1>13. \A i \in a + 1 .. c - 1 : \E n \in Extra : \E v : text[i] = Field(n, v)
  BY Zenon DEF Headed
<1>1. AreFields(s, FieldsFor(m, f, Present(m, f)))
  BY <1>11, HeadIs, Zenon
<1>2. \A i \in 1 .. a : \E n \in Present(m, f) : s[i] = Field(n, ValueOf(m, f, n))
  <2>1. ASSUME NEW i \in 1 .. a PROVE \E n \in Present(m, f) : s[i] = Field(n, ValueOf(m, f, n))
    <3>1. s[i] \in FieldsFor(m, f, Present(m, f))
      BY <1>1, <1>12, ElementOfSeq DEF AreFields
    <3> QED
      BY <3>1 DEF FieldsFor
  <2> QED
    BY <2>1
<1>3. \A n \in Present(m, f) : \E i \in 1 .. a : s[i] = Field(n, ValueOf(m, f, n))
  <2>1. ASSUME NEW n \in Present(m, f) PROVE \E i \in 1 .. a : s[i] = Field(n, ValueOf(m, f, n))
    <3>1. Field(n, ValueOf(m, f, n)) \in FieldsFor(m, f, Present(m, f))
      BY DEF FieldsFor
    <3>2. FieldsFor(m, f, Present(m, f)) = {s[i] : i \in 1 .. a}
      BY <1>1, <1>12 DEF AreFields
    <3> QED
      BY <3>1, <3>2
  <2> QED
    BY <2>1
<1>4. \A n \in Present(m, f) : n \notin Extra
  BY DEF Present, Extra
<1>5. \A j \in 1 .. c - 1 : j \in 1 .. a \/ j \in a + 1 .. c - 1
  OBVIOUS
<1>6. \A j \in 1 .. a : j \in 1 .. c - 1
  OBVIOUS
<1>7. \A j \in a + 1 .. c - 1 : j \in 1 .. c - 1
  OBVIOUS
<1>8. ASSUME NEW name, name \notin Extra
      PROVE  ValuesTo(text, c, name) = IF name \in Present(m, f) THEN {ValueOf(m, f, name)} ELSE {}
  <2>1. ASSUME NEW x, x \in ValuesTo(text, c, name)
        PROVE  name \in Present(m, f) /\ x = ValueOf(m, f, name)
    <3>1. PICK j \in 1 .. c - 1 : Len(text[j]) = 2 /\ text[j][1] = name /\ x = text[j][2]
      BY <2>1, ValueIn
    <3>2. CASE j \in 1 .. a
      <4>1. PICK n \in Present(m, f) : text[j] = Field(n, ValueOf(m, f, n))
        BY <1>2, <1>12, <3>2
      <4> QED
        BY <3>1, <4>1, FieldIs
    <3>3. CASE j \in a + 1 .. c - 1
      <4>1. PICK n, v : n \in Extra /\ text[j] = Field(n, v)
        BY <1>13, <3>3
      <4> QED
        BY <1>8, <3>1, <4>1, FieldIs
    <3> QED
      BY <1>5, <3>2, <3>3
  <2>2. ASSUME name \in Present(m, f) PROVE ValueOf(m, f, name) \in ValuesTo(text, c, name)
    <3>1. PICK i \in 1 .. a : text[i] = Field(name, ValueOf(m, f, name))
      BY <1>3, <1>12, <2>2
    <3>2. i \in 1 .. c - 1
      BY <1>6
    <3> QED
      BY <3>1, <3>2, ValueIn, FieldIs
  <2>3. CASE name \in Present(m, f)
    BY <2>1, <2>2, <2>3
  <2>4. CASE name \notin Present(m, f)
    BY <2>1, <2>4
  <2> QED
    BY <2>3, <2>4
<1>9. ASSUME NEW name \in Extra, NEW x
      PROVE  x \in ValuesTo(text, c, name) <=> \E i \in a + 1 .. c - 1 : text[i] = Field(name, x)
  <2>1. ASSUME x \in ValuesTo(text, c, name) PROVE \E i \in a + 1 .. c - 1 : text[i] = Field(name, x)
    <3>1. PICK j \in 1 .. c - 1 : Len(text[j]) = 2 /\ text[j][1] = name /\ x = text[j][2]
      BY <2>1, ValueIn
    <3>2. CASE j \in 1 .. a
      <4>1. PICK n \in Present(m, f) : text[j] = Field(n, ValueOf(m, f, n))
        BY <1>2, <1>12, <3>2
      <4>2. n = name
        BY <3>1, <4>1, FieldIs
      <4> QED
        BY <1>4, <4>2
    <3>3. CASE j \in a + 1 .. c - 1
      <4>1. PICK n, v : n \in Extra /\ text[j] = Field(n, v)
        BY <1>13, <3>3
      <4>2. n = name /\ v = x
        BY <3>1, <4>1, FieldIs
      <4> QED
        BY <3>3, <4>1, <4>2
    <3> QED
      BY <1>5, <3>2, <3>3
  <2>2. ASSUME NEW i \in a + 1 .. c - 1, text[i] = Field(name, x) PROVE x \in ValuesTo(text, c, name)
    <3>1. i \in 1 .. c - 1
      BY <1>7
    <3> QED
      BY <2>2, <3>1, ValueIn, FieldIs
  <2> QED
    BY <2>1, <2>2
<1>10. ASSUME NEW i \in 1 .. c - 1 PROVE text[i] # Empty
  <2>1. \E n, v : text[i] = Field(n, v)
    <3>1. CASE i \in 1 .. a
      BY <1>2, <1>12, <3>1
    <3>2. CASE i \in a + 1 .. c - 1
      BY <1>13, <3>2
    <3> QED
      BY <1>5, <3>1, <3>2
  <2> QED
    BY <2>1, FieldIs
<1> QED
  BY <1>8, <1>9, <1>10, Zenon DEF ValuesAre

FieldNames == {"From", "To", "Cc", "Bcc", "Reply-To", "Subject", "X-Priority", "MIME-Version"}

(* The fields that are read are those that are meant. *)
FieldsAreMeant(m, f) ==
  Meant(m, f).fields = [n \in FieldNames |-> IF n \in Present(m, f) THEN {ValueOf(m, f, n)} ELSE {}]

LEMMA FieldsMeant ==
  ASSUME NEW m \in Mail, NEW f \in Form
  PROVE  FieldsAreMeant(m, f)
<1> DEFINE set(test, value) == IF test THEN {value} ELSE {}
           A(n) == CASE n = "From"         -> {<<IF f.name THEN "name" ELSE "", "<sender>">>}
                     [] n = "To"           -> {List("to", m.to)}
                     [] n = "Cc"           -> set(m.cc > 0, List("cc", m.cc))
                     [] n = "Bcc"          -> set(m.bcc > 0, <<>>)
                     [] n = "Reply-To"     -> set(f.reply_to, "reply_to")
                     [] n = "Subject"      -> {IF f.subject THEN "subject" ELSE " "}
                     [] n = "X-Priority"   -> {XPriority(f.priority)}
                     [] n = "MIME-Version" -> {"1.0"}
           B(n) == IF n \in Present(m, f) THEN {ValueOf(m, f, n)} ELSE {}
<1>1. Meant(m, f).fields = [n \in FieldNames |-> A(n)]
  BY Zenon DEF Meant, FieldNames
<1>2. A("From") = B("From")
  BY Zenon DEF Present, ValueOf
<1>3. A("To") = B("To")
  BY DEF Present, ValueOf
<1>4. A("Cc") = B("Cc")
  BY DEF Present, ValueOf
<1>5. A("Bcc") = B("Bcc")
  BY DEF Present, ValueOf
<1>6. A("Reply-To") = B("Reply-To")
  BY DEF Present, ValueOf
<1>7. A("Subject") = B("Subject")
  BY DEF Present, ValueOf
<1>8. A("X-Priority") = B("X-Priority")
  BY DEF Present, ValueOf
<1>9. A("MIME-Version") = B("MIME-Version")
  BY DEF Present, ValueOf
<1> HIDE DEF A, B
<1>10. \A n \in FieldNames : A(n) = B(n)
  BY <1>2, <1>3, <1>4, <1>5, <1>6, <1>7, <1>8, <1>9 DEF FieldNames
<1>11. [n \in FieldNames |-> A(n)] = [n \in FieldNames |-> B(n)]
  BY <1>10
<1> QED
  BY <1>1, <1>11, Zenon DEF B, FieldsAreMeant


(* Which lines are delimiters. *)
LEMMA NoMarks ==
  /\ Delimiter # Empty /\ Closing # Empty
  /\ \A f : Typed(f) \notin {Delimiter, Closing}
  /\ Seven \notin {Delimiter, Closing} /\ Empty \notin {Delimiter, Closing}
  /\ Attached \notin {Delimiter, Closing} /\ Coded \notin {Delimiter, Closing}
  /\ \A k : Named(k) \notin {Delimiter, Closing} /\ Data(k) \notin {Delimiter, Closing, Empty}
  /\ \A m, k : TextLine(m, k) \notin {Delimiter, Closing, Empty}
<1>1. Delimiter[1] = "--" /\ Closing[1] = "--"
  BY DEF Delimiter, Closing
<1>2. Len(Delimiter) = 2 /\ Len(Closing) = 3 /\ Len(Empty) = 0
  BY DEF Delimiter, Closing, Empty
<1>3. (\A f : Typed(f)[1] # "--") /\ Seven[1] # "--" /\ Attached[1] # "--" /\ Coded[1] # "--"
  BY FieldIs DEF Typed, Seven, Attached, Coded
<1>4. \A k : Named(k)[1] # "--"
  BY FieldIs DEF Named
<1>5. \A k : Data(k)[1] = "base64" /\ Len(Data(k)) = 2
  BY DEF Data
<1>6. ASSUME NEW m, NEW k PROVE TextLine(m, k)[1] # "--" /\ Len(TextLine(m, k)) # 0
  <2>1. CASE m.lines = <<>>
    BY <2>1 DEF TextLine
  <2>2. CASE m.lines # <<>>
    <3>1. TextLine(m, k) = <<"line", k>>
      BY <2>2 DEF TextLine
    <3> QED
      BY <3>1
  <2> QED
    BY <2>1, <2>2
<1> QED
  BY <1>1, <1>2, <1>3, <1>4, <1>5, <1>6

LEMMA Sixth ==
  ASSUME NEW F \in Nat, NEW i \in 1 .. 6 * F
  PROVE  \E q \in 0 .. F - 1 : \E r \in 1 .. 6 : i = 6 * q + r
<1>1. PICK q \in Int, x \in 0 .. 5 : i - 1 = 6 * q + x
  <2>1. (i - 1) \div 6 \in Int /\ (i - 1) % 6 \in 0 .. 5 /\ i - 1 = 6 * ((i - 1) \div 6) + ((i - 1) % 6)
    OBVIOUS
  <2> QED
    BY <2>1
<1>2. q \in 0 .. F - 1 /\ x + 1 \in 1 .. 6 /\ i = 6 * q + (x + 1)
  BY <1>1
<1> QED
  BY <1>2

(* The body of a message with attachments, and where its delimiters are. *)
IsBody(rest, m, f, t, F) ==
  /\ Len(rest) = t + 6 * F + 7 /\ DOMAIN rest = 1 .. t + 6 * F + 7
  /\ rest[1] = Delimiter /\ rest[2] = Typed(f) /\ rest[3] = Seven /\ rest[4] = Empty
  /\ \A k \in 1 .. t : rest[4 + k] = TextLine(m, k)
  /\ \A i \in 1 .. 6 * F : rest[4 + t + i] = FileLine(i)
  /\ rest[t + 6 * F + 5] = Empty /\ rest[t + 6 * F + 6] = Closing /\ rest[t + 6 * F + 7] = Empty

MarkAt(t, F, p) == IF p = 1 THEN 1 ELSE IF p = F + 2 THEN t + 6 * F + 6 ELSE t + 6 * p - 7
IsMark(line) == line \in {Delimiter, Closing}

LEMMA FileMarks ==
  ASSUME NEW q \in Nat, NEW r \in 1 .. 6
  PROVE  IsMark(FileLine(6 * q + r)) <=> r = 1
<1>1. /\ FileLine(6 * q + 1) = Delimiter /\ FileLine(6 * q + 2) = Attached
      /\ FileLine(6 * q + 3) = Coded /\ FileLine(6 * q + 4) = Named(q + 1)
      /\ FileLine(6 * q + 5) = Empty /\ FileLine(6 * q + 6) = Data(q + 1)
  BY FileLines
<1>2. r = 1 \/ r = 2 \/ r = 3 \/ r = 4 \/ r = 5 \/ r = 6
  OBVIOUS
<1>3. IsMark(Delimiter) /\ ~IsMark(Attached) /\ ~IsMark(Coded) /\ ~IsMark(Named(q + 1)) /\ ~IsMark(Empty)
      /\ ~IsMark(Data(q + 1))
  BY NoMarks DEF IsMark
<1> QED
  BY <1>1, <1>2, <1>3

(* The delimiters of a body, and the places where they stand. *)
MarksOf(rest) == {k \in DOMAIN rest : IsMark(rest[k])}
MarkPlaces(t, F) == {MarkAt(t, F, p) : p \in 1 .. F + 2}

LEMMA MarksAre ==
  ASSUME NEW m, NEW t \in Nat \ {0}, NEW F \in Nat \ {0}, NEW rest, NEW f, IsBody(rest, m, f, t, F)
  PROVE  MarksOf(rest) = MarkPlaces(t, F)
<1>1. ASSUME NEW k \in DOMAIN rest, IsMark(rest[k]) PROVE \E p \in 1 .. F + 2 : k = MarkAt(t, F, p)
  <2>1. k \in 1 .. t + 6 * F + 7
    BY DEF IsBody
  <2>2. CASE k \in 1 .. 4
    <3>1. k = 1 \/ k = 2 \/ k = 3 \/ k = 4
      BY <2>2
    <3>2. k = 1
      BY <1>1, <3>1, NoMarks DEF IsBody, IsMark
    <3> QED
      BY <3>2 DEF MarkAt
  <2>3. CASE k > 4 /\ k <= 4 + t
    <3>1. PICK j \in 1 .. t : k = 4 + j
      BY <2>1, <2>3
    <3>2. rest[k] = TextLine(m, j)
      BY <3>1 DEF IsBody
    <3> QED
      BY <1>1, <3>2, NoMarks DEF IsMark
  <2>4. CASE k > 4 + t /\ k <= 4 + t + 6 * F
    <3>0. PICK i \in Int : i = k - 4 - t
      BY <2>1
    <3>1. i \in 1 .. 6 * F /\ k = 4 + t + i
      BY <2>1, <2>4, <3>0
    <3>2. PICK q \in 0 .. F - 1, r \in 1 .. 6 : i = 6 * q + r
      BY <3>1, Sixth
    <3>3. rest[k] = FileLine(6 * q + r)
      BY <3>1, <3>2 DEF IsBody
    <3>4. r = 1
      <4>1. q \in Nat
        BY <3>2
      <4> QED
        BY <1>1, <3>3, <4>1, FileMarks
    <3>5. PICK p \in Int : p = q + 2
      BY <3>2
    <3>6. p \in 1 .. F + 2 /\ p # 1 /\ p # F + 2 /\ k = t + 6 * p - 7
      BY <3>1, <3>2, <3>4, <3>5
    <3> QED
      BY <3>6 DEF MarkAt
  <2>5. CASE k > 4 + t + 6 * F
    <3>1. k = t + 6 * F + 5 \/ k = t + 6 * F + 6 \/ k = t + 6 * F + 7
      BY <2>1, <2>5
    <3>2. k = t + 6 * F + 6
      BY <1>1, <3>1, NoMarks DEF IsBody, IsMark
    <3>3. F + 2 \in 1 .. F + 2 /\ F + 2 # 1
      OBVIOUS
    <3> QED
      BY <3>2, <3>3 DEF MarkAt
  <2>6. k \in 1 .. 4 \/ (k > 4 /\ k <= 4 + t) \/ (k > 4 + t /\ k <= 4 + t + 6 * F) \/ k > 4 + t + 6 * F
    BY <2>1
  <2> QED
    BY <2>2, <2>3, <2>4, <2>5, <2>6
<1>2. ASSUME NEW p \in 1 .. F + 2 PROVE MarkAt(t, F, p) \in DOMAIN rest /\ IsMark(rest[MarkAt(t, F, p)])
  <2>1. CASE p = 1
    <3>1. MarkAt(t, F, p) = 1 /\ 1 \in 1 .. t + 6 * F + 7
      BY <2>1 DEF MarkAt
    <3> QED
      BY <3>1 DEF IsBody, IsMark
  <2>2. CASE p = F + 2
    <3>1. MarkAt(t, F, p) = t + 6 * F + 6 /\ t + 6 * F + 6 \in 1 .. t + 6 * F + 7
      BY <2>2 DEF MarkAt
    <3> QED
      BY <3>1 DEF IsBody, IsMark
  <2>3. CASE p # 1 /\ p # F + 2
    <3>1. PICK q \in Nat : q = p - 2 /\ q \in 0 .. F - 1
      BY <2>3
    <3>2. 6 * q + 1 \in 1 .. 6 * F /\ 4 + t + (6 * q + 1) = t + 6 * p - 7 /\ t + 6 * p - 7 \in 1 .. t + 6 * F + 7
      BY <3>1
    <3>3. MarkAt(t, F, p) = t + 6 * p - 7
      BY <2>3 DEF MarkAt
    <3>4. rest[t + 6 * p - 7] = FileLine(6 * q + 1)
      BY <3>2 DEF IsBody
    <3>5. IsMark(FileLine(6 * q + 1))
      BY FileMarks
    <3> QED
      BY <3>2, <3>3, <3>4, <3>5 DEF IsBody
  <2> QED
    BY <2>1, <2>2, <2>3
<1> QED
  BY <1>1, <1>2 DEF MarksOf, MarkPlaces

LEMMA MarksInOrder ==
  ASSUME NEW t \in Nat \ {0}, NEW F \in Nat \ {0}
  PROVE  /\ \A p \in 1 .. F + 2 : MarkAt(t, F, p) \in Int
         /\ \A p, q \in 1 .. F + 2 : p < q => MarkAt(t, F, p) < MarkAt(t, F, q)
<1>1. \A p \in 1 .. F + 2 : MarkAt(t, F, p) \in Int
  BY DEF MarkAt
<1>2. ASSUME NEW p \in 1 .. F + 2, NEW q \in 1 .. F + 2, p < q PROVE MarkAt(t, F, p) < MarkAt(t, F, q)
  <2>1. q # 1 /\ p # F + 2
    BY <1>2
  <2>2. MarkAt(t, F, q) = IF q = F + 2 THEN t + 6 * F + 6 ELSE t + 6 * q - 7
    BY <2>1 DEF MarkAt
  <2>3. MarkAt(t, F, p) = IF p = 1 THEN 1 ELSE t + 6 * p - 7
    BY <2>1 DEF MarkAt
  <2> QED
    BY <1>2, <2>1, <2>2, <2>3
<1> QED
  BY <1>1, <1>2

(* The parts between them. *)
CutInto(rest, t, F) ==
  PartsOf(rest) = [p \in 1 .. F + 1 |-> IF p = 1 THEN SubSeq(rest, 2, 4 + t)
                                         ELSE SubSeq(rest, t + 6 * p - 6, t + 6 * p - 2)]

LEMMA PartsAre ==
  ASSUME NEW m, NEW t \in Nat \ {0}, NEW F \in Nat \ {0}, NEW rest, NEW f, IsBody(rest, m, f, t, F)
  PROVE  CutInto(rest, t, F)
<1> DEFINE marks == {k \in DOMAIN rest : IsMark(rest[k])}
           N == F + 2
           d == [p \in 1 .. N |-> MarkAt(t, F, p)]
<1>1. N \in Nat /\ N - 1 = F + 1
  OBVIOUS
<1>2. Cardinality(marks) = N /\ \A p \in 1 .. N : Nth(marks, p) = MarkAt(t, F, p)
  <2>1. \A p \in 1 .. N : d[p] = MarkAt(t, F, p)
    OBVIOUS
  <2>2. \A p \in 1 .. N : d[p] \in Int
    BY <2>1, MarksInOrder
  <2>3. \A p, q \in 1 .. N : p < q => d[p] < d[q]
    BY <2>1, MarksInOrder
  <2>4. marks = {MarkAt(t, F, p) : p \in 1 .. N}
    <3>1. MarksOf(rest) = MarkPlaces(t, F)
      BY MarksAre
    <3> QED
      BY <3>1, Zenon DEF MarksOf, MarkPlaces
  <2>5. marks = {d[p] : p \in 1 .. N}
    BY <2>1, <2>4
  <2> HIDE DEF marks, d, N
  <2>6. Cardinality(marks) = N /\ \A p \in 1 .. N : Nth(marks, p) = d[p]
    <3>1. Climbs(N, d, marks)
      BY <2>2, <2>3, <2>5, Zenon DEF Climbs
    <3>2. Counts(N, d, marks)
      BY <1>1, <3>1, NthInOrder, Zenon
    <3> QED
      BY <3>2, Zenon DEF Counts
  <2> QED
    BY <2>1, <2>6
<1> DEFINE last(p) == Nth(marks, p + 1) - 1
           A(p) == SubSeq(rest, Nth(marks, p) + 1, IF rest[last(p)] = Empty THEN last(p) - 1 ELSE last(p))
           B(p) == IF p = 1 THEN SubSeq(rest, 2, 4 + t) ELSE SubSeq(rest, t + 6 * p - 6, t + 6 * p - 2)
<1>3. PartsOf(rest) = [p \in 1 .. F + 1 |-> A(p)]
  <2>1. PartsOf(rest) = [p \in 1 .. Cardinality(marks) - 1 |-> A(p)]
    BY Zenon DEF PartsOf, IsMark
  <2> HIDE DEF marks, A
  <2> QED
    BY <1>1, <1>2, <2>1
<1>4. ASSUME NEW p \in 1 .. F + 1 PROVE A(p) = B(p)
  <2>1. p \in 1 .. N /\ p + 1 \in 1 .. N /\ p + 1 # 1 /\ p # F + 2
    OBVIOUS
  <2>2. Nth(marks, p) = MarkAt(t, F, p) /\ Nth(marks, p + 1) = MarkAt(t, F, p + 1)
    BY <1>2, <2>1
  <2>3. CASE p = F + 1
    <3>1. MarkAt(t, F, p + 1) = t + 6 * F + 6
      BY <2>1, <2>3 DEF MarkAt
    <3>2. MarkAt(t, F, p) = t + 6 * p - 7 /\ p # 1
      BY <2>1, <2>3 DEF MarkAt
    <3>3. last(p) = t + 6 * F + 5 /\ t + 6 * F + 5 - 1 = t + 6 * p - 2 /\ t + 6 * p - 7 + 1 = t + 6 * p - 6
      <4>1. Nth(marks, p + 1) = t + 6 * F + 6
        BY <2>2, <3>1
      <4> HIDE DEF marks
      <4>2. last(p) = t + 6 * F + 6 - 1
        BY <4>1
      <4> QED
        BY <2>3, <4>2
    <3>4. rest[t + 6 * F + 5] = Empty
      BY DEF IsBody
    <3>5. Nth(marks, p) = t + 6 * p - 7
      BY <2>2, <3>2
    <3> HIDE DEF last, marks
    <3>6. A(p) = SubSeq(rest, t + 6 * p - 6, t + 6 * p - 2)
      BY <3>3, <3>4, <3>5
    <3> QED
      BY <3>2, <3>6
  <2>4. CASE p # F + 1
    <3>1. MarkAt(t, F, p + 1) = t + 6 * (p + 1) - 7
      BY <2>1, <2>4 DEF MarkAt
    <3>2. MarkAt(t, F, p) = IF p = 1 THEN 1 ELSE t + 6 * p - 7
      BY <2>1 DEF MarkAt
    <3>3. last(p) = t + 6 * p - 2 /\ t + 6 * p - 7 + 1 = t + 6 * p - 6 /\ (p = 1 => t + 6 * p - 2 = 4 + t)
      <4>1. Nth(marks, p + 1) = t + 6 * (p + 1) - 7
        BY <2>2, <3>1
      <4> HIDE DEF marks
      <4>2. last(p) = t + 6 * (p + 1) - 7 - 1
        BY <4>1
      <4> QED
        BY <4>2
    <3>4. rest[t + 6 * p - 2] # Empty
      <4>1. CASE p = 1
        <5>1. t \in 1 .. t /\ t + 6 * p - 2 = 4 + t
          BY <4>1
        <5>2. rest[4 + t] = TextLine(m, t)
          BY <5>1 DEF IsBody
        <5> QED
          BY <5>1, <5>2, NoMarks
      <4>2. CASE p # 1
        <5>1. PICK q \in Nat : q = p - 2
          BY <4>2
        <5>2. 6 * q + 6 \in 1 .. 6 * F /\ 4 + t + (6 * q + 6) = t + 6 * p - 2
          BY <2>4, <5>1
        <5>3. rest[t + 6 * p - 2] = FileLine(6 * q + 6)
          BY <5>2 DEF IsBody
        <5>4. FileLine(6 * q + 6) = Data(q + 1)
          BY FileLines
        <5> QED
          BY <5>3, <5>4, NoMarks
      <4> QED
        BY <4>1, <4>2
    <3>5. Nth(marks, p) = IF p = 1 THEN 1 ELSE t + 6 * p - 7
      BY <2>2, <3>2
    <3> HIDE DEF last, marks
    <3>6. CASE p = 1
      <4>1. A(p) = SubSeq(rest, 1 + 1, 4 + t)
        BY <3>3, <3>4, <3>5, <3>6
      <4>2. 1 + 1 = 2
        OBVIOUS
      <4>3. B(p) = SubSeq(rest, 2, 4 + t)
        BY <3>6, Zenon
      <4> QED
        BY <4>1, <4>2, <4>3, Zenon
    <3>7. CASE p # 1
      <4>1. A(p) = SubSeq(rest, t + 6 * p - 7 + 1, t + 6 * p - 2)
        BY <3>3, <3>4, <3>5, <3>7
      <4> QED
        BY <3>3, <3>7, <4>1
    <3> QED
      BY <3>6, <3>7
  <2> QED
    BY <2>3, <2>4
<1> HIDE DEF A, B
<1>5. [p \in 1 .. F + 1 |-> A(p)] = [p \in 1 .. F + 1 |-> B(p)]
  BY <1>4
<1> QED
  BY <1>3, <1>5, Zenon DEF B, CutInto


(* One part of a message, read. *)
PartRead(part) ==
  [type |-> ValuesOf(part, "Content-Type"), encoding |-> ValuesOf(part, "Content-Transfer-Encoding"),
   name |-> ValuesOf(part, "Content-Disposition"), body |-> BodyOf(part)]
TextPart(f, lines) == [type |-> {TextType(f)}, encoding |-> {"7bit"}, name |-> {}, body |-> lines]
FilePart(k) ==
  [type |-> {"application/x-msdownload"}, encoding |-> {"base64"}, name |-> {<<"filename", k>>},
   body |-> << <<"base64", k>> >>]

LEMMA FileRead ==
  ASSUME NEW S, NEW part \in Seq(S), NEW k, Len(part) = 5, part[1] = Attached, part[2] = Coded,
         part[3] = Named(k), part[4] = Empty, part[5] = Data(k)
  PROVE  PartRead(part) = FilePart(k)
<1>1. \A j \in 1 .. 3 : j = 1 \/ j = 2 \/ j = 3
  OBVIOUS
<1>2. /\ Attached # Empty /\ Coded # Empty /\ Named(k) # Empty
      /\ Len(Attached) = 2 /\ Attached[1] = "Content-Type" /\ Attached[2] = "application/x-msdownload"
      /\ Len(Coded) = 2 /\ Coded[1] = "Content-Transfer-Encoding" /\ Coded[2] = "base64"
      /\ Len(Named(k)) = 2 /\ Named(k)[1] = "Content-Disposition"
  BY FieldIs DEF Attached, Coded, Named
<1>3. HeadTo(part, 4)
  <2>1. 4 \in 1 .. Len(part) /\ 1 .. 4 - 1 = 1 .. 3
    OBVIOUS
  <2>2. \A j \in 1 .. 3 : part[j] # Empty
    BY <1>1, <1>2
  <2> QED
    BY <2>1, <2>2 DEF HeadTo
<1>4. /\ BodyOf(part) = SubSeq(part, 4 + 1, Len(part))
      /\ \A name : ValuesOf(part, name) = ValuesTo(part, 4, name)
  BY <1>3, HeadEnds
<1>5. \A name, x : x \in ValuesTo(part, 4, name)
                     <=> \E j \in 1 .. 3 : Len(part[j]) = 2 /\ part[j][1] = name /\ x = part[j][2]
  <2>1. 4 - 1 = 3
    OBVIOUS
  <2> QED
    BY <2>1, ValueIn
<1>6. 1 \in 1 .. 3 /\ 2 \in 1 .. 3 /\ 3 \in 1 .. 3
  OBVIOUS
<1>7. ValuesTo(part, 4, "Content-Type") = {"application/x-msdownload"}
  <2>1. \A x : x \in ValuesTo(part, 4, "Content-Type") <=> x = "application/x-msdownload"
    BY <1>1, <1>2, <1>5, <1>6
  <2> QED
    BY <2>1
<1>8. ValuesTo(part, 4, "Content-Transfer-Encoding") = {"base64"}
  <2>1. \A x : x \in ValuesTo(part, 4, "Content-Transfer-Encoding") <=> x = "base64"
    BY <1>1, <1>2, <1>5, <1>6
  <2> QED
    BY <2>1
<1>9. ValuesTo(part, 4, "Content-Disposition") = {<<"filename", k>>}
  <2>1. PICK v : v = Named(k)[2]
    OBVIOUS
  <2>2. \A x : x \in ValuesTo(part, 4, "Content-Disposition") <=> x = v
    BY <1>1, <1>2, <1>5, <1>6, <2>1
  <2>3. ValuesTo(part, 4, "Content-Disposition") = {v}
    BY <2>2
  <2>4. v = <<"filename", k>>
    BY <2>1, FieldIs, Zenon DEF Named
  <2> QED
    BY <2>3, <2>4, Zenon
<1>10. BodyOf(part) = <<Data(k)>>
  <2>1. SubSeq(part, 5, 5) = SubSeq(part, 5, 4) \o <<part[5]>>
    <3>1. 5 \in 1 .. Len(part) /\ 5 \in 5 .. Len(part) /\ 5 - 1 = 4
      OBVIOUS
    <3> QED
      BY <3>1, SubSeqRecursiveSecond
  <2>2. SubSeq(part, 5, 4) = <<>>
    BY SubSeqEmpty
  <2>3. <<>> \o <<Data(k)>> = <<Data(k)>>
    OBVIOUS
  <2>4. 4 + 1 = 5
    OBVIOUS
  <2> QED
    BY <1>4, <2>1, <2>2, <2>3, <2>4
<1> QED
  BY <1>4, <1>7, <1>8, <1>9, <1>10 DEF PartRead, FilePart, Data

LEMMA TextRead ==
  ASSUME NEW S, NEW part \in Seq(S), NEW f, Len(part) >= 3, part[1] = Typed(f), part[2] = Seven, part[3] = Empty
  PROVE  PartRead(part) = TextPart(f, SubSeq(part, 4, Len(part)))
<1>1. \A j \in 1 .. 2 : j = 1 \/ j = 2
  OBVIOUS
<1>2. /\ Typed(f) # Empty /\ Seven # Empty
      /\ Len(Typed(f)) = 2 /\ Typed(f)[1] = "Content-Type" /\ Typed(f)[2] = TextType(f)
      /\ Len(Seven) = 2 /\ Seven[1] = "Content-Transfer-Encoding" /\ Seven[2] = "7bit"
  BY FieldIs DEF Typed, Seven
<1>3. HeadTo(part, 3)
  <2>1. 3 \in 1 .. Len(part) /\ 1 .. 3 - 1 = 1 .. 2
    BY LenProperties
  <2>2. \A j \in 1 .. 2 : part[j] # Empty
    BY <1>1, <1>2
  <2> QED
    BY <2>1, <2>2 DEF HeadTo
<1>4. /\ BodyOf(part) = SubSeq(part, 3 + 1, Len(part))
      /\ \A name : ValuesOf(part, name) = ValuesTo(part, 3, name)
  BY <1>3, HeadEnds
<1>5. \A name, x : x \in ValuesTo(part, 3, name)
                     <=> \E j \in 1 .. 2 : Len(part[j]) = 2 /\ part[j][1] = name /\ x = part[j][2]
  <2>1. 3 - 1 = 2
    OBVIOUS
  <2> QED
    BY <2>1, ValueIn
<1>6. 1 \in 1 .. 2 /\ 2 \in 1 .. 2
  OBVIOUS
<1>7. ValuesTo(part, 3, "Content-Type") = {TextType(f)}
  <2>1. \A x : x \in ValuesTo(part, 3, "Content-Type") <=> x = TextType(f)
    BY <1>1, <1>2, <1>5, <1>6
  <2> QED
    BY <2>1
<1>8. ValuesTo(part, 3, "Content-Transfer-Encoding") = {"7bit"}
  <2>1. \A x : x \in ValuesTo(part, 3, "Content-Transfer-Encoding") <=> x = "7bit"
    BY <1>1, <1>2, <1>5, <1>6
  <2> QED
    BY <2>1
<1>9. ValuesTo(part, 3, "Content-Disposition") = {}
  <2>1. \A x : x \notin ValuesTo(part, 3, "Content-Disposition")
    BY <1>1, <1>2, <1>5
  <2> QED
    BY <2>1
<1>10. 3 + 1 = 4
  OBVIOUS
<1> QED
  BY <1>4, <1>7, <1>8, <1>9, <1>10 DEF PartRead, TextPart

(* The lines of a text that is not a part, and of one that is. *)
Alone(m)  == [k \in 1 .. TextLen(m) + 1 |-> IF k <= TextLen(m) THEN TextLine(m, k) ELSE Empty]
Lines(m, t) == [k \in 1 .. t |-> TextLine(m, k)]
Within(m) == Lines(m, TextLen(m))

LEMMA ContentsMeant ==
  ASSUME NEW m \in Mail, NEW f
  PROVE  /\ m.files = 0 => Meant(m, f).contents = <<TextPart(f, Alone(m))>>
         /\ m.files > 0 => Meant(m, f).contents
              = [p \in 1 .. m.files + 1 |-> IF p = 1 THEN TextPart(f, Within(m)) ELSE FilePart(p - 1)]
<1> DEFINE lines == IF m.lines = <<>> THEN << <<" ">> >> ELSE [k \in DOMAIN m.lines |-> <<"line", k>>]
           text == lines \o (IF m.files = 0 THEN <<Empty>> ELSE <<>>)
           files == [k \in 1 .. m.files |-> FilePart(k)]
<1>1. Meant(m, f).contents = <<TextPart(f, text)>> \o files
  BY Zenon DEF Meant, TextPart, FilePart
<1>2. m.files \in Nat /\ m.lines \in Seq(LineKinds)
  BY DEF Mail
<1>3. TextLen(m) \in Nat
  BY <1>2, LenProperties DEF TextLen
<1>4. lines = Within(m)
  <2>1. CASE m.lines = <<>>
    <3>1. PICK x : x = <<" ">>
      OBVIOUS
    <3>2. lines = <<x>>
      BY <2>1, <3>1, Zenon
    <3>3. Within(m) = [k \in 1 .. 1 |-> x]
      BY <2>1, <3>1, Zenon DEF Lines, Within, TextLen, TextLine
    <3>4. <<x>> = [k \in 1 .. 1 |-> x]
      OBVIOUS
    <3> QED
      BY <3>2, <3>3, <3>4, Zenon
  <2>2. CASE m.lines # <<>>
    <3>1. lines = [k \in DOMAIN m.lines |-> <<"line", k>>]
      BY <2>2
    <3>2. DOMAIN m.lines = 1 .. TextLen(m)
      BY <1>2, <2>2, LenProperties DEF TextLen
    <3>3. Within(m) = [k \in 1 .. TextLen(m) |-> <<"line", k>>]
      BY <2>2 DEF Lines, Within, TextLine
    <3> QED
      BY <3>1, <3>2, <3>3
  <2> QED
    BY <2>1, <2>2
<1> DEFINE S == {TextLine(m, k) : k \in 1 .. TextLen(m)} \cup {Empty}
<1>5. Within(m) \in Seq(S) /\ Len(Within(m)) = TextLen(m)
  <2>1. Within(m) \in [1 .. TextLen(m) -> S]
    BY DEF Lines, Within
  <2> HIDE DEF S
  <2> QED
    BY <1>3, <2>1, FunctionIsSeq
<1>6. m.files = 0 => text = Alone(m)
  <2> SUFFICES ASSUME m.files = 0 PROVE text = Alone(m)
    OBVIOUS
  <2>1. text = Within(m) \o <<Empty>>
    BY <1>4
  <2>2. Empty \in S
    OBVIOUS
  <2>3. Alone(m) \in Seq(S) /\ Len(Alone(m)) = TextLen(m) + 1
    <3>1. Alone(m) \in [1 .. TextLen(m) + 1 -> S]
      <4>1. \A k \in 1 .. TextLen(m) + 1 : k <= TextLen(m) => k \in 1 .. TextLen(m)
        BY <1>3
      <4> QED
        BY <4>1 DEF Alone
    <3> HIDE DEF S
    <3> QED
      BY <1>3, <3>1, FunctionIsSeq
  <2> HIDE DEF S, text, lines
  <2>4. /\ Append(Within(m), Empty) \in Seq(S) /\ Len(Append(Within(m), Empty)) = TextLen(m) + 1
        /\ \A i \in 1 .. TextLen(m) : Append(Within(m), Empty)[i] = Within(m)[i]
        /\ Append(Within(m), Empty)[TextLen(m) + 1] = Empty
    BY <1>5, <2>2, AppendProperties
  <2>5. text = Append(Within(m), Empty)
    BY <1>5, <2>1, <2>2, AppendIsConcat
  <2>6. ASSUME NEW i \in 1 .. TextLen(m) + 1 PROVE Append(Within(m), Empty)[i] = Alone(m)[i]
    <3>1. CASE i <= TextLen(m)
      <4>1. i \in 1 .. TextLen(m)
        BY <3>1
      <4> QED
        BY <2>4, <3>1, <4>1 DEF Lines, Within, Alone
    <3>2. CASE ~(i <= TextLen(m))
      <4>1. i = TextLen(m) + 1
        BY <1>3, <3>2
      <4> QED
        BY <2>4, <3>2, <4>1 DEF Alone
    <3> QED
      BY <3>1, <3>2
  <2> QED
    BY <2>3, <2>4, <2>5, <2>6, SeqEqual
<1>7. m.files > 0 => text = Within(m)
  <2> SUFFICES ASSUME m.files > 0 PROVE text = Within(m)
    OBVIOUS
  <2>1. text = Within(m) \o <<>>
    <3>1. m.files # 0
      BY <1>2
    <3> QED
      BY <1>4, <3>1, Zenon
  <2> HIDE DEF S, text, lines
  <2> QED
    BY <1>5, <2>1, ConcatEmptySeq
<1> HIDE DEF S, lines, text
<1>8. ASSUME m.files = 0 PROVE Meant(m, f).contents = <<TextPart(f, Alone(m))>>
  <2>1. files = <<>>
    BY <1>8
  <2>2. <<TextPart(f, text)>> \o <<>> = <<TextPart(f, text)>>
    OBVIOUS
  <2> HIDE DEF files
  <2> QED
    BY <1>1, <1>6, <1>8, <2>1, <2>2
<1>9. ASSUME m.files > 0
      PROVE  Meant(m, f).contents
               = [p \in 1 .. m.files + 1 |-> IF p = 1 THEN TextPart(f, Within(m)) ELSE FilePart(p - 1)]
  <2> DEFINE P == {TextPart(f, text)} \cup {FilePart(k) : k \in 1 .. m.files}
             first == <<TextPart(f, text)>>
             all == [p \in 1 .. m.files + 1 |-> IF p = 1 THEN TextPart(f, text) ELSE FilePart(p - 1)]
  <2>1. PICK F \in Nat : F = m.files
    BY <1>2
  <2>2. first \in Seq(P) /\ Len(first) = 1 /\ first[1] = TextPart(f, text)
    <3>1. TextPart(f, text) \in P
      OBVIOUS
    <3> HIDE DEF P
    <3> QED
      BY <3>1
  <2>3. files \in Seq(P) /\ Len(files) = F
    <3>1. files \in [1 .. F -> P]
      BY <2>1
    <3> HIDE DEF files, P
    <3> QED
      BY <3>1, FunctionIsSeq
  <2>4. all \in Seq(P) /\ Len(all) = F + 1
    <3>1. \A p \in 1 .. F + 1 : p # 1 => p - 1 \in 1 .. F
      OBVIOUS
    <3>2. all \in [1 .. F + 1 -> P]
      BY <2>1, <3>1
    <3> HIDE DEF all, P
    <3> QED
      BY <3>2, FunctionIsSeq
  <2>5. \A i \in 1 .. F : files[i] = FilePart(i)
    BY <2>1
  <2>6. /\ all[1] = TextPart(f, text)
        /\ \A i \in 1 .. F : all[1 + i] = FilePart(i)
    <3>1. 1 \in 1 .. F + 1
      OBVIOUS
    <3>2. \A i \in 1 .. F : 1 + i \in 1 .. F + 1 /\ 1 + i # 1 /\ 1 + i - 1 = i
      OBVIOUS
    <3> QED
      BY <2>1, <3>1, <3>2
  <2> HIDE DEF P, first, files, all
  <2>7. /\ first \o files \in Seq(P) /\ Len(first \o files) = 1 + F
        /\ (first \o files)[1] = TextPart(f, text)
        /\ \A i \in 1 .. F : (first \o files)[1 + i] = FilePart(i)
    <3>1. 1 \in 1 .. 1
      OBVIOUS
    <3>2. PICK x : x = first \o files
      OBVIOUS
    <3>3. IsJoin(P, x, first, 1, files, F)
      BY <2>2, <2>3, <3>2, Join
    <3>4. /\ x \in Seq(P) /\ Len(x) = 1 + F /\ x[1] = TextPart(f, text)
          /\ \A i \in 1 .. F : x[1 + i] = FilePart(i)
      BY <2>2, <2>5, <3>1, <3>3, Zenon DEF IsJoin
    <3> QED
      BY <3>2, <3>4, Zenon
  <2>8. ASSUME NEW i \in 1 .. 1 + F PROVE (first \o files)[i] = all[i]
    <3>1. i = 1 \/ \E j \in 1 .. F : i = 1 + j
      <4>1. i # 1 => i - 1 \in 1 .. F /\ i = 1 + (i - 1)
        OBVIOUS
      <4> QED
        BY <4>1
    <3> QED
      BY <2>6, <2>7, <3>1
  <2>9. 1 + F = F + 1
    OBVIOUS
  <2>10. first \o files = all
    BY <2>4, <2>7, <2>8, <2>9, SeqEqual
  <2>11. text = Within(m)
    BY <1>7, <1>9
  <2>12. Meant(m, f).contents = all
    BY <1>1, <2>10 DEF first
  <2> QED
    BY <2>11, <2>12 DEF all
<1> QED
  BY <1>8, <1>9


(* The parts of a body are its text and its files. *)
PartsMade(rest, m, f, t, F) ==
  /\ DOMAIN PartsOf(rest) = 1 .. F + 1
  /\ \A p \in 1 .. F + 1 :
       PartRead(PartsOf(rest)[p]) = IF p = 1 THEN TextPart(f, Lines(m, t)) ELSE FilePart(p - 1)

LEMMA PartsRead ==
  ASSUME NEW m \in Mail, NEW t \in Nat \ {0}, NEW F \in Nat \ {0},
         NEW S, NEW rest \in Seq(S), NEW f, IsBody(rest, m, f, t, F)
  PROVE  PartsMade(rest, m, f, t, F)
<1>1. CutInto(rest, t, F)
  BY PartsAre
<1>2. Len(rest) = t + 6 * F + 7 /\ \A i \in 1 .. t + 6 * F + 7 : rest[i] \in S
  BY ElementOfSeq DEF IsBody
<1>3. PartRead(SubSeq(rest, 2, 4 + t)) = TextPart(f, Lines(m, t))
  <2> DEFINE part == SubSeq(rest, 2, 4 + t)
  <2>1. \A i \in 2 .. 4 + t : rest[i] \in S
    BY <1>2
  <2>2. /\ part \in Seq(S) /\ Len(part) = t + 3
        /\ \A i \in 1 .. t + 3 : part[i] = rest[1 + i]
    <3>1. PICK z \in Nat : z = 4 + t /\ 2 <= z
      OBVIOUS
    <3>2. /\ SubSeq(rest, 2, z) \in Seq(S) /\ Len(SubSeq(rest, 2, z)) = IF 2 <= z THEN z - 2 + 1 ELSE 0
          /\ \A i \in 1 .. z - 2 + 1 : SubSeq(rest, 2, z)[i] = rest[2 + i - 1]
      BY <2>1, <3>1, SubSeqProperties
    <3>3. z - 2 + 1 = t + 3 /\ \A i \in 1 .. t + 3 : 2 + i - 1 = 1 + i
      BY <3>1
    <3> QED
      BY <3>1, <3>2, <3>3
  <2> HIDE DEF part
  <2>3. part[1] = Typed(f) /\ part[2] = Seven /\ part[3] = Empty
    <3>1. part[1] = rest[1 + 1] /\ part[2] = rest[1 + 2] /\ part[3] = rest[1 + 3]
      BY <2>2
    <3> QED
      BY <3>1 DEF IsBody
  <2>4. PartRead(part) = TextPart(f, SubSeq(part, 4, Len(part)))
    <3>1. part \in Seq(S) /\ Len(part) >= 3
      BY <2>2
    <3> QED
      BY <2>3, <3>1, TextRead, Zenon
  <2>5. SubSeq(part, 4, Len(part)) = Lines(m, t)
    <3>1. PICK z \in Nat : z = Len(part) /\ 4 <= z /\ z - 4 + 1 = t
      BY <2>2
    <3>2. \A i \in 4 .. z : part[i] \in S
      BY <2>2, <3>1, ElementOfSeq
    <3>3. /\ SubSeq(part, 4, z) \in Seq(S) /\ Len(SubSeq(part, 4, z)) = IF 4 <= z THEN z - 4 + 1 ELSE 0
          /\ \A i \in 1 .. z - 4 + 1 : SubSeq(part, 4, z)[i] = part[4 + i - 1]
      BY <3>1, <3>2, SubSeqProperties
    <3>4. PICK q : q = SubSeq(part, 4, z)
      OBVIOUS
    <3>5. q \in Seq(S) /\ Len(q) = t /\ \A i \in 1 .. t : q[i] = part[4 + i - 1]
      BY <3>1, <3>3, <3>4
    <3>6. \A i \in 1 .. t : q[i] = TextLine(m, i)
      <4>1. ASSUME NEW i \in 1 .. t PROVE q[i] = TextLine(m, i)
        <5>1. 4 + i - 1 \in 1 .. t + 3 /\ 1 + (4 + i - 1) = 4 + i
          OBVIOUS
        <5>2. q[i] = rest[4 + i]
          BY <2>2, <3>5, <5>1
        <5> QED
          BY <5>2 DEF IsBody
      <4> QED
        BY <4>1
    <3>7. q = [i \in 1 .. t |-> q[i]]
      BY <3>5, LenProperties
    <3>8. [i \in 1 .. t |-> q[i]] = [i \in 1 .. t |-> TextLine(m, i)]
      BY <3>6
    <3>9. q = Lines(m, t)
      BY <3>7, <3>8 DEF Lines
    <3> QED
      BY <3>1, <3>4, <3>9
  <2> QED
    BY <2>4, <2>5 DEF part
<1>4. ASSUME NEW p \in 1 .. F + 1, p # 1
      PROVE  PartRead(SubSeq(rest, t + 6 * p - 6, t + 6 * p - 2)) = FilePart(p - 1)
  <2>1. PICK q \in Nat : q = p - 2
    BY <1>4
  <2>2. PICK x \in Nat, z \in Nat : /\ x = t + 6 * p - 6 /\ z = t + 6 * p - 2 /\ x >= 1 /\ x <= z
                                    /\ z - x + 1 = 5 /\ z <= t + 6 * F + 7
    BY <1>4
  <2>3. ASSUME NEW i \in x .. z PROVE rest[i] \in S
    <3>1. PICK l \in Nat : l = t + 6 * F + 7
      OBVIOUS
    <3>2. 1 <= x /\ z <= l
      BY <2>2, <3>1
    <3>3. i \in 1 .. l
      BY <3>2
    <3> QED
      BY <1>2, <3>1, <3>3, Zenon
  <2>4. PICK part : part = SubSeq(rest, x, z)
    OBVIOUS
  <2>5. part \in Seq(S) /\ Len(part) = 5 /\ \A i \in 1 .. 5 : part[i] = rest[x + i - 1]
    <3>1. /\ SubSeq(rest, x, z) \in Seq(S) /\ Len(SubSeq(rest, x, z)) = IF x <= z THEN z - x + 1 ELSE 0
          /\ \A i \in 1 .. z - x + 1 : SubSeq(rest, x, z)[i] = rest[x + i - 1]
      BY <2>3, SubSeqProperties
    <3> QED
      BY <2>2, <2>4, <3>1
  <2>6. ASSUME NEW i \in 1 .. 5 PROVE part[i] = FileLine(6 * q + (i + 1))
    <3>1. 6 * q + (i + 1) \in 1 .. 6 * F /\ 4 + t + (6 * q + (i + 1)) = x + i - 1
      <4>1. q + 1 <= F /\ p = q + 2 /\ x = t + 6 * q + 6
        BY <1>4, <2>1, <2>2
      <4>2. i \in Nat /\ i <= 5
        OBVIOUS
      <4> QED
        BY <4>1, <4>2
    <3>2. rest[4 + t + (6 * q + (i + 1))] = FileLine(6 * q + (i + 1))
      BY <3>1 DEF IsBody
    <3> QED
      BY <2>5, <3>1, <3>2
  <2>7. /\ FileLine(6 * q + 2) = Attached
        /\ FileLine(6 * q + 3) = Coded /\ FileLine(6 * q + 4) = Named(q + 1)
        /\ FileLine(6 * q + 5) = Empty /\ FileLine(6 * q + 6) = Data(q + 1)
    BY FileLines
  <2>8. part[1] = Attached /\ part[2] = Coded /\ part[3] = Named(q + 1) /\ part[4] = Empty /\ part[5] = Data(q + 1)
    <3>1. /\ part[1] = FileLine(6 * q + (1 + 1)) /\ part[2] = FileLine(6 * q + (2 + 1))
          /\ part[3] = FileLine(6 * q + (3 + 1)) /\ part[4] = FileLine(6 * q + (4 + 1))
          /\ part[5] = FileLine(6 * q + (5 + 1))
      BY <2>6
    <3>2. 1 + 1 = 2 /\ 2 + 1 = 3 /\ 3 + 1 = 4 /\ 4 + 1 = 5 /\ 5 + 1 = 6
      OBVIOUS
    <3> QED
      BY <2>7, <3>1, <3>2
  <2>9. PartRead(part) = FilePart(q + 1)
    BY <2>5, <2>8, FileRead
  <2>10. q + 1 = p - 1
    BY <2>1
  <2> QED
    BY <2>2, <2>4, <2>9, <2>10
<1>5. DOMAIN PartsOf(rest) = 1 .. F + 1
  BY <1>1 DEF CutInto
<1>6. ASSUME NEW p \in 1 .. F + 1
      PROVE  PartsOf(rest)[p] = IF p = 1 THEN SubSeq(rest, 2, 4 + t)
                                ELSE SubSeq(rest, t + 6 * p - 6, t + 6 * p - 2)
  BY <1>1 DEF CutInto
<1>7. ASSUME NEW p \in 1 .. F + 1
      PROVE  PartRead(PartsOf(rest)[p]) = IF p = 1 THEN TextPart(f, Lines(m, t)) ELSE FilePart(p - 1)
  <2>1. CASE p = 1
    BY <1>3, <1>6, <2>1
  <2>2. CASE p # 1
    BY <1>4, <1>6, <2>2
  <2> QED
    BY <2>1, <2>2
<1> QED
  BY <1>5, <1>7, Zenon DEF PartsMade

LEMMA ContentsAre ==
  ASSUME NEW text
  PROVE  /\ ValuesOf(text, "Content-Type") = {"multipart/mixed"} =>
              Contents(text) = [p \in DOMAIN PartsOf(BodyOf(text)) |-> PartRead(PartsOf(BodyOf(text))[p])]
         /\ ValuesOf(text, "Content-Type") # {"multipart/mixed"} =>
              Contents(text) = << [type |-> ValuesOf(text, "Content-Type"),
                                   encoding |-> ValuesOf(text, "Content-Transfer-Encoding"), name |-> {},
                                   body |-> BodyOf(text)] >>
BY Zenon DEF Contents, PartRead

(* Whatever the message, its text is read as it is meant. *)
LEMMA MeantIf ==
  ASSUME NEW m \in Mail, NEW f \in Form, NEW S, NEW text \in Seq(S), NEW a, NEW c, HeadTo(text, c),
         ValuesAre(m, f, a, text, c), Contents(text) = Meant(m, f).contents
  PROVE  Read(text) = Meant(m, f)
<1> DEFINE G == [name \in FieldNames |-> ValuesOf(text, name)]
           W == [n \in FieldNames |-> IF n \in Present(m, f) THEN {ValueOf(m, f, n)} ELSE {}]
<1>1. \A name \in FieldNames : name \notin Extra
  BY DEF FieldNames, Extra
<1>2. \A name : ValuesOf(text, name) = ValuesTo(text, c, name)
  BY HeadEnds
<1>3. \A name : name \notin Extra =>
         ValuesTo(text, c, name) = IF name \in Present(m, f) THEN {ValueOf(m, f, name)} ELSE {}
  BY DEF ValuesAre
<1>4. G = W
  BY <1>1, <1>2, <1>3
<1>5. Meant(m, f).fields = W
  BY FieldsMeant, Zenon DEF FieldsAreMeant
<1>6. Read(text) = [fields |-> G, contents |-> Contents(text)]
  BY Zenon DEF Read, FieldNames
<1>7. Meant(m, f) = [fields |-> Meant(m, f).fields, contents |-> Meant(m, f).contents]
  BY Zenon DEF Meant
<1> HIDE DEF G, W
<1> QED
  BY <1>4, <1>5, <1>6, <1>7, Zenon

(* Among the lines I of text there is one field with the name y, which has the value u; *)
OneField(text, y, u, I) ==
  \E i \in I : /\ text[i] = Field(y, u)
               /\ \A k \in I : k # i => \E z : \E v : z # y /\ text[k] = Field(z, v)

(* A holds the values of the fields with the name y among the lines I. *)
ValuesAmong(text, y, A, I) == \A x : x \in A <=> \E k \in I : text[k] = Field(y, x)

LEMMA OneFieldIs ==
  ASSUME NEW text, NEW I, NEW i \in I, NEW y, NEW u, NEW z, NEW v, text[i] = Field(y, u),
         \A k \in I : k # i => z # y /\ text[k] = Field(z, v)
  PROVE  OneField(text, y, u, I)
BY Zenon DEF OneField

LEMMA OneValue ==
  ASSUME NEW text, NEW y, NEW u, NEW I, NEW A, OneField(text, y, u, I), ValuesAmong(text, y, A, I)
  PROVE  A = {u}
<1>1. PICK i \in I : /\ text[i] = Field(y, u)
                     /\ \A k \in I : k # i => \E z : \E v : z # y /\ text[k] = Field(z, v)
  BY Zenon DEF OneField
<1>2. u \in A
  BY <1>1, Zenon DEF ValuesAmong
<1>3. ASSUME NEW x \in A PROVE x = u
  <2>1. PICK k \in I : text[k] = Field(y, x)
    BY Zenon DEF ValuesAmong
  <2>2. CASE k = i
    <3>1. Field(y, u) = Field(y, x)
      BY <1>1, <2>1, <2>2, Zenon
    <3> QED
      BY <3>1, FieldsDiffer
  <2>3. CASE k # i
    <3>1. PICK z, v : z # y /\ text[k] = Field(z, v)
      BY <1>1, <2>3, Zenon
    <3>2. Field(z, v) = Field(y, x)
      BY <2>1, <3>1, Zenon
    <3> QED
      BY <3>1, <3>2, FieldsDiffer
  <2> QED
    BY <2>2, <2>3
<1> QED
  BY <1>2, <1>3

LongAs(text, n) == Len(text) = n
TextHas(m, t) == TextLen(m) = t

(* The text of a message without files, line by line, *)
PlainText(m, f, text, a, t, c, n) ==
  /\ c = a + 3 /\ n = c + t + 1
  /\ LongAs(text, n) /\ TextHas(m, t) /\ StartsWith(m, f, a, text)
  /\ text[a + 1] = Typed(f) /\ text[a + 2] = Seven /\ text[a + 3] = Empty
  /\ \A k \in 1 .. t : text[c + k] = TextLine(m, k)
  /\ text[n] = Empty

LEMMA PlainRead ==
  ASSUME NEW m \in Mail, NEW f \in Form, m.files = 0, NEW S, NEW text \in Seq(S),
         NEW a \in Nat, NEW t \in Nat \ {0}, NEW n \in Nat, NEW c \in Nat, PlainText(m, f, text, a, t, c, n)
  PROVE  Read(text) = Meant(m, f)
<1>0. /\ c = a + 3 /\ n = c + t + 1
      /\ LongAs(text, n) /\ TextHas(m, t) /\ StartsWith(m, f, a, text)
      /\ text[a + 1] = Typed(f) /\ text[a + 2] = Seven /\ text[a + 3] = Empty
      /\ \A k \in 1 .. t : text[c + k] = TextLine(m, k)
      /\ text[n] = Empty
  BY Zenon DEF PlainText
<1> USE <1>0
<1>1. \A i \in a + 1 .. c - 1 : i = a + 1 \/ i = a + 2
  OBVIOUS
<1>2. a < c /\ c <= n /\ c \in 1 .. n
  OBVIOUS
<1>3. /\ Len(text) = n /\ \A i \in 1 .. n : text[i] \in S
  BY ElementOfSeq DEF LongAs
<1>4. ValuesAre(m, f, a, text, c)
  <2>1. \A i \in a + 1 .. c - 1 : \E name \in Extra : \E v : text[i] = Field(name, v)
    <3>1. "Content-Type" \in Extra /\ "Content-Transfer-Encoding" \in Extra
      BY DEF Extra
    <3> QED
      BY <1>1, <3>1, Zenon DEF Typed, Seven
  <2>2. Headed(m, f, a, text, c)
    BY <2>1, Zenon DEF Headed
  <2> QED
    BY <1>2, <2>2, HeaderValues
<1>5. HeadTo(text, c)
  <2>1. \A j \in 1 .. c - 1 : text[j] # Empty
    BY <1>4 DEF ValuesAre
  <2>2. text[c] = Empty
    OBVIOUS
  <2> QED
    BY <1>2, <1>3, <2>1, <2>2, Zenon DEF HeadTo
<1>6. a + 1 \in a + 1 .. c - 1 /\ a + 2 \in a + 1 .. c - 1
  OBVIOUS
<1>7. /\ ValuesOf(text, "Content-Type") = {TextType(f)}
      /\ ValuesOf(text, "Content-Transfer-Encoding") = {"7bit"}
  <2>1. PICK y, z : y = "Content-Type" /\ z = "Content-Transfer-Encoding" /\ y # z
    OBVIOUS
  <2>2. y \in Extra /\ z \in Extra
    BY <2>1 DEF Extra
  <2>3. \A name \in Extra : \A x :
          x \in ValuesTo(text, c, name) <=> \E i \in a + 1 .. c - 1 : text[i] = Field(name, x)
    BY <1>4 DEF ValuesAre
  <2>4. PICK u, v : u = TextType(f) /\ v = "7bit"
    OBVIOUS
  <2>5. text[a + 1] = Field(y, u) /\ text[a + 2] = Field(z, v)
    BY <2>1, <2>4, Zenon DEF Typed, Seven
  <2>7. PICK I : I = a + 1 .. c - 1
    OBVIOUS
  <2>8. ValuesAmong(text, y, ValuesTo(text, c, y), I) /\ ValuesAmong(text, z, ValuesTo(text, c, z), I)
    BY <2>2, <2>3, <2>7, Zenon DEF ValuesAmong
  <2>9. OneField(text, y, u, I)
    <3>1. PICK i : i = a + 1
      OBVIOUS
    <3>2. i \in I /\ text[i] = Field(y, u)
      BY <1>6, <2>5, <2>7, <3>1, Zenon
    <3>3. \A k \in I : k # i => z # y /\ text[k] = Field(z, v)
      BY <1>1, <2>1, <2>5, <2>7, <3>1, Zenon
    <3> QED
      BY <3>2, <3>3, OneFieldIs
  <2>10. OneField(text, z, v, I)
    <3>1. PICK i : i = a + 2
      OBVIOUS
    <3>2. i \in I /\ text[i] = Field(z, v)
      BY <1>6, <2>5, <2>7, <3>1, Zenon
    <3>3. \A k \in I : k # i => y # z /\ text[k] = Field(y, u)
      BY <1>1, <2>1, <2>5, <2>7, <3>1, Zenon
    <3> QED
      BY <3>2, <3>3, OneFieldIs
  <2>11. ValuesTo(text, c, y) = {u} /\ ValuesTo(text, c, z) = {v}
    BY <2>8, <2>9, <2>10, OneValue, Zenon
  <2>12. ValuesOf(text, y) = {u} /\ ValuesOf(text, z) = {v}
    BY <1>5, <2>11, HeadEnds
  <2> QED
    BY <2>1, <2>4, <2>12, Zenon
<1>8. BodyOf(text) = Alone(m)
  <2>1. PICK x \in Nat : x = c + 1
    OBVIOUS
  <2>2. 1 <= x /\ x <= n /\ n - x + 1 = t + 1
    BY <2>1
  <2>3. \A i \in x .. n : text[i] \in S
    BY <1>3, <2>2
  <2>4. PICK q : q = SubSeq(text, x, n)
    OBVIOUS
  <2>5. /\ SubSeq(text, x, n) \in Seq(S) /\ Len(SubSeq(text, x, n)) = IF x <= n THEN n - x + 1 ELSE 0
        /\ \A i \in 1 .. n - x + 1 : SubSeq(text, x, n)[i] = text[x + i - 1]
    BY <2>3, SubSeqProperties
  <2>6. q \in Seq(S) /\ Len(q) = t + 1 /\ \A i \in 1 .. t + 1 : q[i] = text[x + i - 1]
    BY <2>2, <2>4, <2>5
  <2>7. ASSUME NEW i \in 1 .. t + 1 PROVE q[i] = IF i <= t THEN TextLine(m, i) ELSE Empty
    <3>1. x + i - 1 = c + i
      BY <2>1
    <3>2. q[i] = text[c + i]
      BY <2>6, <3>1
    <3>3. CASE i <= t
      <4>1. i \in 1 .. t
        BY <3>3
      <4> QED
        BY <3>2, <3>3, <4>1
    <3>4. CASE ~(i <= t)
      <4>1. c + i = n
        BY <3>4
      <4> QED
        BY <3>2, <3>4, <4>1
    <3> QED
      BY <3>3, <3>4
  <2>8. q = [i \in 1 .. t + 1 |-> q[i]]
    BY <2>6, LenProperties
  <2>9. [i \in 1 .. t + 1 |-> q[i]] = [i \in 1 .. t + 1 |-> IF i <= t THEN TextLine(m, i) ELSE Empty]
    BY <2>7
  <2>10. q = Alone(m)
    BY <2>8, <2>9, Zenon DEF Alone, TextHas
  <2>11. BodyOf(text) = SubSeq(text, c + 1, Len(text))
    BY <1>5, HeadEnds, Zenon
  <2> QED
    BY <1>3, <2>1, <2>4, <2>10, <2>11, Zenon
<1>9. Contents(text) = <<TextPart(f, Alone(m))>>
  <2>1. {TextType(f)} # {"multipart/mixed"}
    BY DEF TextType
  <2>2. Contents(text) = << [type |-> {TextType(f)}, encoding |-> {"7bit"}, name |-> {}, body |-> Alone(m)] >>
    BY <1>7, <1>8, <2>1, ContentsAre, Zenon
  <2> QED
    BY <2>2, Zenon DEF TextPart
<1>10. Contents(text) = Meant(m, f).contents
  BY <1>9, ContentsMeant, Zenon
<1> QED
  BY <1>4, <1>5, <1>10, MeantIf

(* ... and one with files. *)
MixedText(m, f, text, a, t, c, n, rest) ==
  /\ LongAs(text, n) /\ TextHas(m, t) /\ StartsWith(m, f, a, text)
  /\ text[a + 1] = Multi /\ text[a + 2] = Empty
  /\ rest = SubSeq(text, c + 1, n)

LEMMA MixedRead ==
  ASSUME NEW m \in Mail, NEW f \in Form, NEW F \in Nat \ {0}, m.files = F, NEW S, NEW text \in Seq(S),
         NEW a \in Nat, NEW t \in Nat \ {0}, NEW n \in Nat, NEW c \in Nat, c = a + 2, c <= n,
         NEW rest \in Seq(S), MixedText(m, f, text, a, t, c, n, rest), IsBody(rest, m, f, t, F)
  PROVE  Read(text) = Meant(m, f)
<1>0. /\ LongAs(text, n) /\ TextHas(m, t) /\ StartsWith(m, f, a, text)
      /\ text[a + 1] = Multi /\ text[a + 2] = Empty
      /\ rest = SubSeq(text, c + 1, n)
  BY Zenon DEF MixedText
<1> USE <1>0
<1>1. \A i \in a + 1 .. c - 1 : i = a + 1
  OBVIOUS
<1>2. a < c /\ c \in 1 .. n
  OBVIOUS
<1>3. Len(text) = n
  BY DEF LongAs
<1>4. ValuesAre(m, f, a, text, c)
  <2>1. \A i \in a + 1 .. c - 1 : \E name \in Extra : \E v : text[i] = Field(name, v)
    <3>1. "Content-Type" \in Extra
      BY DEF Extra
    <3> QED
      BY <1>1, <3>1, Zenon DEF Multi
  <2>2. Headed(m, f, a, text, c)
    BY <2>1, Zenon DEF Headed
  <2> QED
    BY <1>2, <2>2, HeaderValues
<1>5. HeadTo(text, c)
  <2>1. \A j \in 1 .. c - 1 : text[j] # Empty
    BY <1>4 DEF ValuesAre
  <2>2. text[c] = Empty
    OBVIOUS
  <2> QED
    BY <1>2, <1>3, <2>1, <2>2, Zenon DEF HeadTo
<1>6. a + 1 \in a + 1 .. c - 1
  OBVIOUS
<1>7. ValuesOf(text, "Content-Type") = {"multipart/mixed"}
  <2>1. PICK y, u : y = "Content-Type" /\ u = "multipart/mixed"
    OBVIOUS
  <2>2. y \in Extra
    BY <2>1 DEF Extra
  <2>3. \A name \in Extra : \A x :
          x \in ValuesTo(text, c, name) <=> \E i \in a + 1 .. c - 1 : text[i] = Field(name, x)
    BY <1>4 DEF ValuesAre
  <2>4. text[a + 1] = Field(y, u)
    BY <2>1, Zenon DEF Multi
  <2>5. PICK I : I = a + 1 .. c - 1
    OBVIOUS
  <2>6. ValuesAmong(text, y, ValuesTo(text, c, y), I)
    BY <2>2, <2>3, <2>5, Zenon DEF ValuesAmong
  <2>7. ValuesTo(text, c, y) = {u}
    <3>1. OneField(text, y, u, I)
      BY <1>1, <1>6, <2>4, <2>5, Zenon DEF OneField
    <3> QED
      BY <2>6, <3>1, OneValue, Zenon
  <2>8. ValuesOf(text, y) = {u}
    BY <1>5, <2>7, HeadEnds
  <2> QED
    BY <2>1, <2>8, Zenon
<1>8. BodyOf(text) = rest
  <2>1. BodyOf(text) = SubSeq(text, c + 1, Len(text))
    BY <1>5, HeadEnds, Zenon
  <2> QED
    BY <1>3, <2>1, Zenon
<1> DEFINE A == [p \in DOMAIN PartsOf(rest) |-> PartRead(PartsOf(rest)[p])]
           B == [p \in 1 .. F + 1 |-> IF p = 1 THEN TextPart(f, Within(m)) ELSE FilePart(p - 1)]
<1>9. Contents(text) = A
  BY <1>7, <1>8, ContentsAre, Zenon
<1>10. Within(m) = Lines(m, t)
  BY Zenon DEF Within, TextHas
<1>11. A = B
  <2>1. /\ DOMAIN PartsOf(rest) = 1 .. F + 1
        /\ \A p \in 1 .. F + 1 :
             PartRead(PartsOf(rest)[p]) = IF p = 1 THEN TextPart(f, Lines(m, t)) ELSE FilePart(p - 1)
    <3>1. PartsMade(rest, m, f, t, F)
      BY PartsRead
    <3> QED
      BY <3>1, Zenon DEF PartsMade
  <2>2. \A p \in 1 .. F + 1 :
             PartRead(PartsOf(rest)[p]) = IF p = 1 THEN TextPart(f, Within(m)) ELSE FilePart(p - 1)
    BY <1>10, <2>1, Zenon
  <2> QED
    BY <2>1, <2>2
<1>12. Meant(m, f).contents = B
  <2>1. m.files > 0
    OBVIOUS
  <2> QED
    BY <2>1, ContentsMeant, Zenon
<1>13. Contents(text) = Meant(m, f).contents
  BY <1>9, <1>11, <1>12, Zenon
<1> QED
  BY <1>4, <1>5, <1>13, MeantIf

(* The body of a message with files is what stands after its first empty line. *)
BodyAt(m, f, text, a, n, x, rest) ==
  /\ LongAs(text, n) /\ \A i \in 1 .. n : text[i] = TextAt(m, f, i)
  /\ text[a + 3] = Delimiter /\ text[a + 4] = Typed(f) /\ text[a + 5] = Seven /\ text[a + 6] = Empty
  /\ rest = SubSeq(text, x, n)

Spans(h, t, F, a, l, n, x) == h = a + 6 /\ l = t + 6 * F + 7 /\ n = a + 2 + l /\ x = a + 3

LEMMA BodyIs ==
  ASSUME NEW m, NEW f, NEW h \in Nat, NEW t \in Nat \ {0}, NEW F \in Nat \ {0}, NEW a \in Nat,
         PartedAt(m, f, h, t, F), NEW S, NEW text \in Seq(S), NEW l \in Nat, NEW n \in Nat, NEW x \in Nat,
         Spans(h, t, F, a, l, n, x), NEW rest, BodyAt(m, f, text, a, n, x, rest)
  PROVE  rest \in Seq(S) /\ IsBody(rest, m, f, t, F)
<1>0. /\ h = a + 6 /\ l = t + 6 * F + 7 /\ n = a + 2 + l /\ x = a + 3
      /\ LongAs(text, n) /\ \A i \in 1 .. n : text[i] = TextAt(m, f, i)
      /\ text[a + 3] = Delimiter /\ text[a + 4] = Typed(f) /\ text[a + 5] = Seven /\ text[a + 6] = Empty
      /\ rest = SubSeq(text, x, n)
  BY Zenon DEF BodyAt, Spans
<1> USE <1>0
<1>1. /\ Len(text) = n /\ \A i \in 1 .. n : text[i] \in S
  BY ElementOfSeq DEF LongAs
<1>2. 1 <= x /\ x <= n /\ n - x + 1 = l /\ \A i \in 1 .. l : x + i - 1 = a + 2 + i
  OBVIOUS
<1>3. \A i \in x .. n : text[i] \in S
  BY <1>1, <1>2
<1>4. /\ SubSeq(text, x, n) \in Seq(S) /\ Len(SubSeq(text, x, n)) = IF x <= n THEN n - x + 1 ELSE 0
      /\ \A i \in 1 .. n - x + 1 : SubSeq(text, x, n)[i] = text[x + i - 1]
  BY <1>3, SubSeqProperties
<1>5. rest \in Seq(S) /\ Len(rest) = l /\ \A i \in 1 .. l : rest[i] = text[a + 2 + i]
  BY <1>2, <1>4
<1>6. Len(rest) = t + 6 * F + 7 /\ DOMAIN rest = 1 .. t + 6 * F + 7
  BY <1>5, LenProperties
<1>7. rest[1] = Delimiter /\ rest[2] = Typed(f) /\ rest[3] = Seven /\ rest[4] = Empty
  <2>1. 1 \in 1 .. l /\ 2 \in 1 .. l /\ 3 \in 1 .. l /\ 4 \in 1 .. l
    OBVIOUS
  <2>2. a + 2 + 1 = a + 3 /\ a + 2 + 2 = a + 4 /\ a + 2 + 3 = a + 5 /\ a + 2 + 4 = a + 6
    OBVIOUS
  <2> QED
    BY <1>5, <2>1, <2>2
<1>8. ASSUME NEW j \in Nat \ {0}, j <= l - 4 PROVE rest[4 + j] = TextAt(m, f, h + j)
  <2>1. PICK i \in Nat, k \in Nat : i = 4 + j /\ k = h + j
    OBVIOUS
  <2>2. i \in 1 .. l /\ a + 2 + i = k /\ k \in 1 .. n
    BY <1>8, <2>1
  <2>3. rest[i] = text[k]
    BY <1>5, <2>2
  <2>4. text[k] = TextAt(m, f, k)
    BY <2>2
  <2> QED
    BY <2>1, <2>3, <2>4, Zenon
<1>9. ASSUME NEW k \in 1 .. t PROVE rest[4 + k] = TextLine(m, k)
  <2>1. k \in Nat \ {0} /\ k <= l - 4
    OBVIOUS
  <2>2. TextAt(m, f, h + k) = TextLine(m, k)
    BY DEF PartedAt
  <2>3. rest[4 + k] = TextAt(m, f, h + k)
    BY <1>8, <2>1
  <2> QED
    BY <2>2, <2>3, Zenon
<1>10. ASSUME NEW i \in 1 .. 6 * F PROVE rest[4 + t + i] = FileLine(i)
  <2>1. PICK j \in Nat : j = t + i
    OBVIOUS
  <2>2. j \in Nat \ {0} /\ j <= l - 4 /\ 4 + j = 4 + t + i /\ h + j = h + t + i
    BY <2>1
  <2>3. TextAt(m, f, h + t + i) = FileLine(i)
    BY DEF PartedAt
  <2>4. rest[4 + j] = TextAt(m, f, h + j)
    BY <1>8, <2>2
  <2> QED
    BY <2>2, <2>3, <2>4, Zenon
<1>11. ASSUME NEW r \in 1 .. 3 PROVE rest[t + 6 * F + (4 + r)] = TextAt(m, f, h + t + 6 * F + r)
  <2>1. PICK j \in Nat : j = t + 6 * F + r
    OBVIOUS
  <2>2. j \in Nat \ {0} /\ j <= l - 4 /\ 4 + j = t + 6 * F + (4 + r) /\ h + j = h + t + 6 * F + r
    BY <2>1
  <2>3. rest[4 + j] = TextAt(m, f, h + j)
    BY <1>8, <2>2
  <2> QED
    BY <2>2, <2>3, Zenon
<1>12. rest[t + 6 * F + 5] = Empty /\ rest[t + 6 * F + 6] = Closing /\ rest[t + 6 * F + 7] = Empty
  <2>1. /\ rest[t + 6 * F + (4 + 1)] = TextAt(m, f, h + t + 6 * F + 1)
        /\ rest[t + 6 * F + (4 + 2)] = TextAt(m, f, h + t + 6 * F + 2)
        /\ rest[t + 6 * F + (4 + 3)] = TextAt(m, f, h + t + 6 * F + 3)
    BY <1>11
  <2>2. 4 + 1 = 5 /\ 4 + 2 = 6 /\ 4 + 3 = 7
    OBVIOUS
  <2>3. /\ TextAt(m, f, h + t + 6 * F + 1) = Empty /\ TextAt(m, f, h + t + 6 * F + 2) = Closing
        /\ TextAt(m, f, h + t + 6 * F + 3) = Empty
    BY DEF PartedAt
  <2> QED
    BY <2>1, <2>2, <2>3, Zenon
<1> QED
  BY <1>5, <1>6, <1>7, <1>9, <1>10, <1>12, Zenon DEF IsBody

(* The parts a text is made of: the lines s of the header, a of them, the header with h lines, the    *)
(* t lines of the text of the message and its F files.                                               *)
MadeOf(m, f, text, S, s, a, head, h, t, F) ==
  /\ s = HeadLines(m, f, <<>>) /\ a = Len(s) /\ head = format_header(m, f)
  /\ HeaderMade(m, f, s, a, head) /\ Sized(m, f, h, t, F) /\ TextMade(m, f, h, t, F, S, text)

LEMMA MadeRead ==
  ASSUME NEW m \in Mail, NEW f \in Form, NEW text, NEW S, NEW s, NEW head,
         NEW a \in Nat, NEW h \in Nat, NEW t \in Nat \ {0}, NEW F \in Nat,
         MadeOf(m, f, text, S, s, a, head, h, t, F)
  PROVE  Read(text) = Meant(m, f)
<1>1. s = HeadLines(m, f, <<>>) /\ a = Len(s) /\ head = format_header(m, f)
  BY Zenon DEF MadeOf
<1>2. HeaderMade(m, f, s, a, head)
  BY Zenon DEF MadeOf
<1>4. Sized(m, f, h, t, F)
  BY Zenon DEF MadeOf
<1>5. a \in Nat /\ h \in Nat /\ t \in Nat \ {0} /\ F \in Nat
  OBVIOUS
<1>6. PICK n : n = Len(text)
  OBVIOUS
<1>8. TextMade(m, f, h, t, F, S, text)
  BY Zenon DEF MadeOf
<1>9. /\ text \in Seq(S) /\ n = h + t + 6 * F + (IF F > 0 THEN 3 ELSE 1)
      /\ \A i \in 1 .. n : text[i] = TextAt(m, f, i)
  BY <1>6, <1>8, Zenon DEF TextMade
<1>10. PartedAt(m, f, h, t, F)
  BY <1>4, <1>5, TextParts
<1>11. LongAs(text, n) /\ TextHas(m, t) /\ Len(head) = h /\ m.files = F
  BY <1>1, <1>4, <1>6, Zenon DEF LongAs, TextHas, Sized
<1>12. n \in Nat /\ h <= n
  BY <1>5, <1>9
<1>13. \A i \in 1 .. h : text[i] = head[i]
  <2>1. \A i \in 1 .. h : TextAt(m, f, i) = format_header(m, f)[i]
    BY <1>10 DEF PartedAt
  <2>2. \A i \in 1 .. h : i \in 1 .. n
    BY <1>5, <1>12
  <2> QED
    BY <1>1, <1>9, <2>1, <2>2, Zenon
<1>14. a <= h => StartsWith(m, f, a, text)
  <2>1. \A i \in 1 .. a : head[i] = s[i]
    BY <1>2 DEF HeaderMade
  <2>2. a <= h => \A i \in 1 .. a : i \in 1 .. h
    BY <1>5
  <2>3. a <= h => \A i \in 1 .. a : text[i] = s[i]
    BY <1>13, <2>1, <2>2, Zenon
  <2> QED
    BY <1>1, <2>3, Zenon DEF StartsWith
<1>15. CASE F = 0
  <2>1. m.files = 0
    BY <1>11, <1>15, Zenon
  <2>2. h = a + 3 /\ head[a + 1] = Typed(f) /\ head[a + 2] = Seven /\ head[a + 3] = Empty
    BY <1>2, <1>11, <2>1, Zenon DEF HeaderMade
  <2>3. PICK c \in Nat : c = a + 3
    BY <1>5
  <2>4. n = c + t + 1 /\ a <= h /\ h = c
    BY <1>5, <1>9, <1>15, <2>2, <2>3
  <2>5. text[a + 1] = Typed(f) /\ text[a + 2] = Seven /\ text[a + 3] = Empty
    <3>1. a + 1 \in 1 .. h /\ a + 2 \in 1 .. h /\ a + 3 \in 1 .. h
      BY <1>5, <2>2
    <3> QED
      BY <1>13, <2>2, <3>1, Zenon
  <2>6. ASSUME NEW k \in 1 .. t PROVE text[c + k] = TextLine(m, k)
    <3>1. c + k \in 1 .. n
      BY <1>5, <2>4
    <3>2. TextAt(m, f, h + k) = TextLine(m, k)
      BY <1>10 DEF PartedAt
    <3> QED
      BY <1>9, <2>4, <3>1, <3>2, Zenon
  <2>7. text[n] = Empty
    <3>1. h + t + 6 * F + 1 = n /\ n \in 1 .. n
      BY <1>5, <1>15, <2>4
    <3>2. TextAt(m, f, h + t + 6 * F + 1) = Empty
      BY <1>10 DEF PartedAt
    <3> QED
      BY <1>9, <3>1, <3>2, Zenon
  <2>8. StartsWith(m, f, a, text)
    BY <1>14, <2>4, Zenon
  <2>9. PlainText(m, f, text, a, t, c, n)
    BY <1>11, <2>3, <2>4, <2>5, <2>6, <2>7, <2>8, Zenon DEF PlainText
  <2> QED
    BY <1>5, <1>9, <1>12, <2>1, <2>9, PlainRead
<1>16. CASE F # 0
  <2>1. m.files > 0 /\ F > 0 /\ F \in Nat \ {0}
    BY <1>5, <1>11, <1>16
  <2>2. /\ h = a + 6 /\ head[a + 1] = Multi /\ head[a + 2] = Empty /\ head[a + 3] = Delimiter
        /\ head[a + 4] = Typed(f) /\ head[a + 5] = Seven /\ head[a + 6] = Empty
    BY <1>2, <1>11, <2>1, Zenon DEF HeaderMade
  <2>3. PICK c \in Nat, x \in Nat, l \in Nat : c = a + 2 /\ x = a + 3 /\ l = t + 6 * F + 7
    BY <1>5
  <2>4. n = a + 2 + l /\ a <= h /\ c <= n /\ x = c + 1
    BY <1>5, <1>9, <2>1, <2>2, <2>3
  <2>5. /\ text[a + 1] = Multi /\ text[a + 2] = Empty /\ text[a + 3] = Delimiter
        /\ text[a + 4] = Typed(f) /\ text[a + 5] = Seven /\ text[a + 6] = Empty
    <3>1. /\ a + 1 \in 1 .. h /\ a + 2 \in 1 .. h /\ a + 3 \in 1 .. h
          /\ a + 4 \in 1 .. h /\ a + 5 \in 1 .. h /\ a + 6 \in 1 .. h
      BY <1>5, <2>2
    <3> QED
      BY <1>13, <2>2, <3>1, Zenon
  <2>6. StartsWith(m, f, a, text)
    BY <1>14, <2>4, Zenon
  <2>7. PICK rest : rest = SubSeq(text, x, n)
    OBVIOUS
  <2>8. BodyAt(m, f, text, a, n, x, rest)
    BY <1>9, <1>11, <2>5, <2>7, Zenon DEF BodyAt
  <2>9. rest \in Seq(S) /\ IsBody(rest, m, f, t, F)
    <3>1. Spans(h, t, F, a, l, n, x)
      BY <2>2, <2>3, <2>4, Zenon DEF Spans
    <3>2. text \in Seq(S)
      BY <1>9
    <3> QED
      BY <1>5, <1>10, <1>12, <2>1, <2>8, <3>1, <3>2, BodyIs
  <2>10. MixedText(m, f, text, a, t, c, n, rest)
    BY <1>11, <2>4, <2>5, <2>6, <2>7, Zenon DEF MixedText
  <2>11. m.files = F
    BY <1>11
  <2> QED
    BY <1>5, <1>9, <1>12, <2>1, <2>3, <2>4, <2>9, <2>10, <2>11, MixedRead
<1> QED
  BY <1>15, <1>16

(* Lines that go on with no other one stay as they are. *)
Uncut(line) == line = Empty \/ line[1] # "cut"

LEMMA NothingJoined ==
  ASSUME NEW S, NEW text \in Seq(S), \A k \in 1 .. Len(text) : Uncut(text[k])
  PROVE  Joined(text) = text
<1>1. PICK n \in Nat : n = Len(text) /\ DOMAIN text = 1 .. n
  BY LenProperties
<1> DEFINE begins == {k \in DOMAIN text : k > 1 => text[k - 1] = Empty \/ text[k - 1][1] # "cut"}
           d == [p \in 1 .. n |-> p]
<1>2. begins = 1 .. n
  <2>1. ASSUME NEW k \in 1 .. n, k > 1 PROVE text[k - 1] = Empty \/ text[k - 1][1] # "cut"
    <3>1. k - 1 \in 1 .. n
      BY <2>1
    <3> QED
      BY <1>1, <3>1 DEF Uncut
  <2> QED
    BY <1>1, <2>1
<1>3. \A p \in 1 .. n : Nth(1 .. n, p) = p
  <2>1. Climbs(n, d, 1 .. n)
    BY DEF Climbs
  <2>2. Counts(n, d, 1 .. n)
    <3> HIDE DEF d
    <3> QED
      BY <2>1, NthInOrder
  <2>3. \A p \in 1 .. n : d[p] = p
    OBVIOUS
  <2> QED
    BY <2>2, <2>3 DEF Counts
<1>4. Cardinality(1 .. n) = n
  BY FS_Interval
<1>5. ASSUME NEW k \in 1 .. n PROVE NextOf(1 .. n, k, n + 1) = k + 1
  <2>1. CASE k = n
    BY <2>1 DEF NextOf
  <2>2. CASE k # n
    <3>1. k + 1 \in 1 .. n /\ ~(k + 1 <= k)
      BY <2>2
    <3>2. \A i \in 1 .. n : (i > k /\ \A l \in 1 .. n : l > k => i <= l) <=> i = k + 1
      BY <3>1
    <3>3. (CHOOSE i \in 1 .. n : i > k /\ \A l \in 1 .. n : l > k => i <= l) = k + 1
      BY <3>1, <3>2
    <3> QED
      BY <3>1, <3>3 DEF NextOf
  <2> QED
    BY <2>1, <2>2
<1>6. ASSUME NEW k \in 1 .. n PROVE FlattenSeq(SubSeq(text, k, k)) = text[k]
  <2>1. PICK one : one = SubSeq(text, k, k)
    OBVIOUS
  <2>2. Len(one) = 0 + 1 /\ one[0 + 1] = text[k]
    <3>1. \A i \in k .. k : text[i] \in S
      BY <1>1, ElementOfSeq
    <3>2. /\ SubSeq(text, k, k) \in Seq(S) /\ Len(SubSeq(text, k, k)) = IF k <= k THEN k - k + 1 ELSE 0
          /\ \A i \in 1 .. k - k + 1 : SubSeq(text, k, k)[i] = text[k + i - 1]
      BY <3>1, SubSeqProperties
    <3>3. k <= k /\ k - k + 1 = 1 /\ k + 1 - 1 = k /\ 0 + 1 = 1 /\ 1 \in 1 .. 1
      OBVIOUS
    <3> QED
      BY <2>1, <3>2, <3>3
  <2>3. PICK g : FlattenSeq(one) = g[0 + 1] /\ g[0 + 1] = IF 0 = 0 THEN one[0 + 1] ELSE g[0] \o one[0 + 1]
    BY <2>2, FlattenLast
  <2> QED
    BY <2>1, <2>2, <2>3
<1> DEFINE L(k) == FlattenSeq(SubSeq(text, k, NextOf(begins, k, Len(text) + 1) - 1))
<1>7. Joined(text) = [p \in 1 .. Cardinality(begins) |-> L(Nth(begins, p))]
  BY Zenon DEF Joined
<1>8. ASSUME NEW p \in 1 .. n PROVE L(Nth(begins, p)) = text[p]
  <2> HIDE DEF begins
  <2>1. Nth(begins, p) = p
    BY <1>2, <1>3
  <2>2. NextOf(begins, p, Len(text) + 1) - 1 = p
    BY <1>1, <1>2, <1>5
  <2>3. L(p) = text[p]
    BY <1>6, <2>2
  <2> QED
    BY <2>1, <2>3, Zenon
<1> HIDE DEF begins, L
<1>9. Joined(text) = [p \in 1 .. n |-> text[p]]
  BY <1>2, <1>4, <1>7, <1>8
<1> QED
  BY <1>1, <1>9

(* ... and such are all lines of a message that send_mail can send. *)
LEMMA LinesUncut ==
  ASSUME NEW m \in Mail, NEW f \in Form, NEW text, NEW S, NEW s, NEW head,
         NEW a \in Nat, NEW h \in Nat, NEW t \in Nat \ {0}, NEW F \in Nat,
         MadeOf(m, f, text, S, s, a, head, h, t, F)
  PROVE  \A i \in 1 .. Len(text) : Uncut(text[i])
<1>1. /\ s = HeadLines(m, f, <<>>) /\ a = Len(s) /\ head = format_header(m, f)
      /\ HeaderMade(m, f, s, a, head) /\ Sized(m, f, h, t, F) /\ TextMade(m, f, h, t, F, S, text)
  BY Zenon DEF MadeOf
<1>2. PartedAt(m, f, h, t, F)
  BY <1>1, TextParts
<1>3. \A n, v : n # "cut" => Uncut(Field(n, v))
  BY FieldIs DEF Uncut
<1>4. /\ Uncut(Empty) /\ Uncut(Delimiter) /\ Uncut(Closing) /\ Uncut(Multi) /\ Uncut(Typed(f)) /\ Uncut(Seven)
      /\ Uncut(Attached) /\ Uncut(Coded) /\ \A k : Uncut(Named(k)) /\ Uncut(Data(k))
  <2>1. Delimiter[1] # "cut" /\ Closing[1] # "cut" /\ \A k : Data(k)[1] # "cut"
    BY DEF Delimiter, Closing, Data
  <2>2. Uncut(Multi) /\ Uncut(Typed(f)) /\ Uncut(Seven) /\ Uncut(Attached) /\ Uncut(Coded) /\ \A k : Uncut(Named(k))
    BY <1>3 DEF Multi, Typed, Seven, Attached, Coded, Named
  <2> QED
    BY <2>1, <2>2 DEF Uncut
<1>5. ASSUME NEW i \in 1 .. a PROVE Uncut(s[i])
  <2>1. s[i] \in FieldsFor(m, f, Present(m, f))
    BY <1>1, HeadIs DEF AreFields
  <2>2. PICK n \in Present(m, f) : s[i] = Field(n, ValueOf(m, f, n))
    BY <2>1 DEF FieldsFor
  <2>3. n # "cut"
    BY DEF Present
  <2> QED
    BY <1>3, <2>2, <2>3
<1>6. ASSUME NEW i \in 1 .. h PROVE Uncut(head[i])
  <2>1. Len(head) = h /\ m.files = F
    BY <1>1 DEF Sized
  <2>2. CASE i \in 1 .. a
    BY <1>1, <1>5, <2>2 DEF HeaderMade
  <2>3. CASE i \notin 1 .. a
    <3>1. CASE F = 0
      <4>1. h = a + 3
        BY <1>1, <2>1, <3>1 DEF HeaderMade
      <4>2. i = a + 1 \/ i = a + 2 \/ i = a + 3
        BY <2>3, <4>1
      <4> QED
        BY <1>1, <1>4, <2>1, <3>1, <4>2 DEF HeaderMade
    <3>2. CASE F # 0
      <4>1. m.files > 0
        BY <2>1, <3>2
      <4>2. h = a + 6
        BY <1>1, <2>1, <4>1 DEF HeaderMade
      <4>3. i = a + 1 \/ i = a + 2 \/ i = a + 3 \/ i = a + 4 \/ i = a + 5 \/ i = a + 6
        BY <2>3, <4>2
      <4> QED
        BY <1>1, <1>4, <4>1, <4>3 DEF HeaderMade
    <3> QED
      BY <3>1, <3>2
  <2> QED
    BY <2>2, <2>3
<1>7. ASSUME NEW k PROVE Uncut(TextLine(m, k))
  <2>1. CASE m.lines = <<>>
    BY <2>1 DEF TextLine, Uncut
  <2>2. CASE m.lines # <<>>
    <3>1. TextLine(m, k) = <<"line", k>>
      BY <2>2 DEF TextLine
    <3> QED
      BY <3>1 DEF Uncut
  <2> QED
    BY <2>1, <2>2
<1>8. ASSUME NEW i \in 1 .. 6 * F PROVE Uncut(FileLine(i))
  <2>1. PICK q \in 0 .. F - 1, r \in 1 .. 6 : i = 6 * q + r
    BY Sixth
  <2>2. /\ FileLine(6 * q + 1) = Delimiter /\ FileLine(6 * q + 2) = Attached
        /\ FileLine(6 * q + 3) = Coded /\ FileLine(6 * q + 4) = Named(q + 1)
        /\ FileLine(6 * q + 5) = Empty /\ FileLine(6 * q + 6) = Data(q + 1)
    BY FileLines
  <2>3. r = 1 \/ r = 2 \/ r = 3 \/ r = 4 \/ r = 5 \/ r = 6
    OBVIOUS
  <2> QED
    BY <1>4, <2>1, <2>2, <2>3
<1>9. ASSUME NEW i \in 1 .. h + t + 6 * F + 3 PROVE Uncut(TextAt(m, f, i))
  <2>1. CASE i \in 1 .. h
    BY <1>1, <1>2, <1>6, <2>1 DEF PartedAt
  <2>2. CASE i > h /\ i <= h + t
    <3>1. PICK k \in 1 .. t : i = h + k
      BY <2>2
    <3> QED
      BY <1>2, <1>7, <3>1 DEF PartedAt
  <2>3. CASE i > h + t /\ i <= h + t + 6 * F
    <3>1. PICK l \in Nat : l = 6 * F
      OBVIOUS
    <3>2. PICK k \in 1 .. l : i = h + t + k
      BY <2>3, <3>1
    <3> QED
      BY <1>2, <1>8, <3>1, <3>2 DEF PartedAt
  <2>4. CASE i > h + t + 6 * F
    <3>1. i = h + t + 6 * F + 1 \/ i = h + t + 6 * F + 2 \/ i = h + t + 6 * F + 3
      BY <2>4
    <3> QED
      BY <1>2, <1>4, <3>1 DEF PartedAt
  <2> QED
    BY <2>1, <2>2, <2>3, <2>4
<1>10. ASSUME NEW i \in 1 .. Len(text) PROVE text[i] = TextAt(m, f, i) /\ i \in 1 .. h + t + 6 * F + 3
  <2>1. Len(text) = h + t + 6 * F + (IF F > 0 THEN 3 ELSE 1)
    BY <1>1 DEF TextMade
  <2>2. Len(text) <= h + t + 6 * F + 3 /\ Len(text) \in Nat
    BY <2>1
  <2> QED
    BY <1>1, <2>2 DEF TextMade
<1> QED
  BY <1>9, <1>10, Zenon

LEMMA ReadAsMeant ==
  ASSUME NEW m \in Mail, Sendable(m), NEW f \in Form,
         NEW text, text = FlattenSeq([k \in 1 .. Len(Blocks(m)) |-> BlockLines(m, f, k)]) \o <<Empty>>
  PROVE  Read(Joined(text)) = Meant(m, f)
<1>1. PICK s, a, head : s = HeadLines(m, f, <<>>) /\ a = Len(s) /\ head = format_header(m, f)
  OBVIOUS
<1>2. HeaderMade(m, f, s, a, head)
  BY <1>1, HeaderIs
<1>3. PICK H : head \in Seq(H)
  BY <1>2 DEF HeaderMade
<1>4. PICK h, t, F : Sized(m, f, h, t, F)
  BY Zenon DEF Sized
<1>5. a \in Nat /\ h \in Nat /\ t \in Nat \ {0} /\ F \in Nat
  <2>1. a \in Nat
    BY <1>2 DEF HeaderMade
  <2>2. h \in Nat
    BY <1>1, <1>3, <1>4, LenProperties DEF Sized
  <2>3. Arranged(m, t, F)
    BY <1>4, BlocksAt DEF Sized
  <2> QED
    BY <2>1, <2>2, <2>3 DEF Arranged
<1>7. PICK S : S = {TextAt(m, f, i) : i \in Nat}
  OBVIOUS
<1>8. TextMade(m, f, h, t, F, S, text)
  <2>1. format_header(m, f) \in Seq(H)
    BY <1>1, <1>3, Zenon
  <2> QED
    BY <1>4, <1>7, <2>1, TextIs
<1>9. MadeOf(m, f, text, S, s, a, head, h, t, F)
  BY <1>1, <1>2, <1>4, <1>8, Zenon DEF MadeOf
<1>10. \A k \in 1 .. Len(text) : Uncut(text[k])
  BY <1>5, <1>9, LinesUncut, Zenon
<1>11. Joined(text) = text
  <2>1. text \in Seq(S)
    BY <1>8, Zenon DEF TextMade
  <2> QED
    BY <1>10, <2>1, NothingJoined, Zenon
<1> QED
  BY <1>5, <1>9, <1>11, MadeRead, Zenon

-----------------------------------------------------------------------------
(* The texts the relay has accepted. *)

LEMMA TextIsWhole ==
  ASSUME TypeOK, NEW a \in 1 .. Len(accepted), NEW n \in 1 .. Len(mails), Whole(accepted[a], n), NEW f \in Forms
  PROVE  TextOf(accepted[a].body, f)
           = Joined(FlattenSeq([k \in 1 .. Len(Blocks(mails[n])) |-> BlockLines(mails[n], f, k)]) \o <<Empty>>)
<1> DEFINE rest == accepted[a].body
           m == mails[n]
           A == [k \in DOMAIN rest |->
                   LET b == rest[k] IN
                   IF b.verb = "DATABLOCK" THEN BlockLines(mails[b.n], f, b.i) ELSE << <<b.verb>> >>]
           B == [k \in 1 .. Len(Blocks(m)) |-> BlockLines(m, f, k)]
<1>1. DOMAIN rest = 1 .. Len(Blocks(m))
  <2>1. rest \in Seq(Message)
    <3>1. accepted[a] \in [rcpts: Seq(Message), body: Seq(Message)]
      BY ElementOfSeq DEF TypeOK, RelayTypeOK
    <3> QED
      BY <3>1
  <2>2. Len(rest) = Len(Blocks(m))
    BY DEF Whole
  <2> QED
    BY <2>1, <2>2, LenProperties
<1>2. ASSUME NEW k \in 1 .. Len(Blocks(m))
      PROVE  rest[k].verb = "DATABLOCK" /\ rest[k].n = n /\ rest[k].i = k
  BY DEF Whole
<1>3. A = B
  <2>1. ASSUME NEW k \in 1 .. Len(Blocks(m)) PROVE A[k] = B[k]
    BY <1>1, <1>2, Zenon
  <2> QED
    BY <1>1, <2>1
<1>4. TextOf(rest, f) = Joined(FlattenSeq(A) \o <<Empty>>)
  BY Zenon DEF TextOf
<1> HIDE DEF A
<1> QED
  BY <1>3, <1>4, Zenon

LEMMA AcceptedAreRead ==
  ASSUME NoDots, TypeOK, OnlyWholeMailsOnce, ~resumed
  PROVE  MailsReadAsMeant
<1>1. ASSUME NEW a \in 1 .. Len(accepted)
      PROVE  \E n \in 1 .. Len(mails) :
               /\ Whole(accepted[a], n)
               /\ Sendable(mails[n]) =>
                    \A f \in Forms : Read(TextOf(accepted[a].body, f)) = Meant(mails[n], f)
  <2>1. PICK n \in 1 .. Len(mails) : Whole(accepted[a], n)
    BY DEF OnlyWholeMailsOnce
  <2>2. mails[n] \in Mails
    BY ElementOfSeq DEF TypeOK, ClientTypeOK
  <2>3. ASSUME Sendable(mails[n]), NEW f \in Forms
        PROVE  Read(TextOf(accepted[a].body, f)) = Meant(mails[n], f)
    <3>1. mails[n] \in Mail /\ f \in Form
      BY <2>2, SessionAssumption, FormAssumption
    <3>2. TextOf(accepted[a].body, f)
            = Joined(FlattenSeq([k \in 1 .. Len(Blocks(mails[n])) |-> BlockLines(mails[n], f, k)]) \o <<Empty>>)
      BY <2>1, TextIsWhole
    <3> QED
      BY <2>3, <3>1, <3>2, ReadAsMeant, Zenon
  <2> QED
    BY <2>1, <2>3, Zenon
<1> QED
  BY <1>1, Zenon DEF MailsReadAsMeant

(* As long as send_mail has not gone on with a connection that a failed    *)
(* QUIT left behind, every message the relay has accepted is one of the    *)
(* owner of the SmtpServer object, and if send_mail could send its lines   *)
(* as they are (none begins with a dot or is too long for m_send_buffer),  *)
(* it is read as the owner meant it: every header field has the value that *)
(* was set and the blind copies are nowhere in it, and the body has the    *)
(* text and every file as parts of their own, and nothing else.            *)
THEOREM WholeMailsAreRead == ASSUME NoDots PROVE Spec => [](resumed \/ MailsReadAsMeant)
<1>1. TypeOK /\ OnlyWholeMailsOnce => resumed \/ MailsReadAsMeant
  BY AcceptedAreRead
<1> QED
  BY <1>1, TypeCorrect, WholeMailsOnce, PTL

(* The same without that exception, for an owner that gives up on an       *)
(* object whose call threw: what such an owner of SmtpServer has sent, and *)
(* the relay has accepted, is read as it was meant.                        *)
THEOREM MailsAreReadAsMeant ==
  ASSUME NoDots, NoEarlyReturn, "retry" \notin UserCalls
  PROVE  Spec => []MailsReadAsMeant
<1>1. Spec => [](resumed \/ MailsReadAsMeant)
  BY WholeMailsAreRead
<1>2. Spec => []~resumed
  BY NeverResumed
<1> QED
  BY <1>1, <1>2, PTL
===============================================================================
