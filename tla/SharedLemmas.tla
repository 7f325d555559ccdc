------------------------------ MODULE SharedLemmas ------------------------------
(***************************************************************************)
(* Facts that the proofs of several modules need: about numbers, positions *)
(* in a text, sequences of sequences, and base64.                          *)
(***************************************************************************)
EXTENDS Positions, Base64, SequencesExt, TLAPS, SequenceTheorems, FiniteSetTheorems, FunctionTheorems,
        WellFoundedInduction

(* The smallest of some natural numbers. *)
LEMMA Smallest ==
  ASSUME NEW T, T \subseteq Nat, T # {}
  PROVE  \E x \in T : \A y \in T : x <= y
<1> DEFINE R == OpToRel(<, Nat)
<1>1. IsWellFoundedOn(R, Nat)
  BY NatLessThanWellFounded
<1>2. \A x, y \in Nat : <<y, x>> \in R <=> y < x
  BY DEF OpToRel
<1> HIDE DEF R
<1>3. PICK x \in T : \A y \in T : ~(<<y, x>> \in R)
  BY <1>1, WFMin
<1>4. ASSUME NEW y \in T PROVE x <= y
  <2>1. x \in Nat /\ y \in Nat /\ ~(<<y, x>> \in R)
    BY <1>3
  <2> QED
    BY <1>2, <2>1
<1> QED
  BY <1>4

(* A function on 1 .. n is a sequence. *)
LEMMA FunctionIsSeq ==
  ASSUME NEW n \in Nat, NEW S, NEW f \in [1 .. n -> S]
  PROVE  f \in Seq(S) /\ Len(f) = n
OBVIOUS

(* A sequence that is another one with an element behind it. *)
LEMMA SeqGrows ==
  ASSUME NEW n \in Nat, NEW S, NEW f \in [1 .. n -> S], NEW g \in [1 .. n + 1 -> S],
         \A i \in 1 .. n : g[i] = f[i]
  PROVE  g = Append(f, g[n + 1])
<1>1. f \in Seq(S) /\ Len(f) = n /\ g \in Seq(S) /\ Len(g) = n + 1
  BY FunctionIsSeq
<1>2. PICK x \in S : x = g[n + 1]
  OBVIOUS
<1>3. /\ Append(f, x) \in Seq(S) /\ Len(Append(f, x)) = n + 1
      /\ \A i \in 1 .. n : Append(f, x)[i] = f[i]
      /\ Append(f, x)[n + 1] = x
  BY <1>1, AppendProperties
<1>4. \A i \in 1 .. n + 1 : Append(f, x)[i] = g[i]
  <2>1. ASSUME NEW i \in 1 .. n + 1 PROVE i \in 1 .. n \/ i = n + 1
    OBVIOUS
  <2> QED
    BY <1>2, <1>3, <2>1
<1> QED
  BY <1>1, <1>2, <1>3, <1>4, SeqEqual

-----------------------------------------------------------------------------
(* Positions, counted. *)
CountTo(S, n) == Cardinality({i \in S : i <= n})

LEMMA NthIs ==
  ASSUME NEW S, S \subseteq Int, IsFiniteSet(S), NEW n \in S
  PROVE  Nth(S, CountTo(S, n)) = n
<1> DEFINE C(m) == {i \in S : i <= m}
<1>1. ASSUME NEW m \in S, NEW l \in S, m < l
      PROVE  Cardinality(C(m)) # Cardinality(C(l))
  <2>0. m \in Int /\ l \in Int /\ \A i \in S : i \in Int /\ (i <= m => i <= l)
    BY <1>1
  <2>1. C(l) \in SUBSET S /\ C(m) \in SUBSET C(l) /\ l \in C(l) /\ l \notin C(m)
    <3>1. C(l) \in SUBSET S
      OBVIOUS
    <3>2. C(m) \in SUBSET C(l)
      BY <2>0
    <3>3. l \in C(l) /\ l \notin C(m)
      BY <1>1, <2>0
    <3> QED
      BY <3>1, <3>2, <3>3
  <2> HIDE DEF C
  <2>2. IsFiniteSet(C(l))
    BY <2>1, FS_Subset
  <2> QED
    BY <2>1, <2>2, FS_Subset
<1>2. ASSUME NEW m \in S, Cardinality(C(m)) = Cardinality(C(n)) PROVE m = n
  <2>1. m < n \/ n < m \/ m = n
    OBVIOUS
  <2> HIDE DEF C
  <2> QED
    BY <1>1, <1>2, <2>1
<1>3. \A m \in S : CountTo(S, m) = CountTo(S, n) => m = n
  BY <1>2 DEF CountTo
<1>4. Nth(S, CountTo(S, n)) = CHOOSE m \in S : CountTo(S, m) = CountTo(S, n)
  BY Zenon DEF Nth, CountTo
<1> QED
  BY <1>3, <1>4, Zenon

(* One more, behind all others. *)
Grown(S, m, T) == m \in Int /\ T = S \cup {m} /\ \A i \in S : i < m

LEMMA CountGrows ==
  ASSUME NEW S, S \subseteq Int, IsFiniteSet(S), NEW m, NEW T, Grown(S, m, T)
  PROVE  /\ IsFiniteSet(T) /\ T \subseteq Int
         /\ Cardinality(S) \in Nat /\ Cardinality(T) = Cardinality(S) + 1
         /\ CountTo(T, m) = Cardinality(S) + 1
         /\ Nth(T, Cardinality(S) + 1) = m
<1> USE DEF Grown
<1>1. m \notin S
  OBVIOUS
<1>2. IsFiniteSet(T) /\ Cardinality(T) = Cardinality(S) + 1 /\ Cardinality(S) \in Nat
  BY <1>1, FS_AddElement, FS_CardinalityType
<1>4. CountTo(T, m) = Cardinality(S) + 1
  <2>1. {i \in T : i <= m} = T
    <3>1. \A i \in T : i <= m
      OBVIOUS
    <3> QED
      BY <3>1, Zenon
  <2> QED
    BY <1>2, <2>1 DEF CountTo
<1>5. T \subseteq Int /\ m \in T
  OBVIOUS
<1>6. Nth(T, Cardinality(S) + 1) = m
  BY <1>2, <1>4, <1>5, NthIs
<1> QED
  BY <1>2, <1>4, <1>5, <1>6

LEMMA CountKeeps ==
  ASSUME NEW S, NEW m, NEW T, S \subseteq Int, Grown(S, m, T), NEW n \in S
  PROVE  CountTo(T, n) = CountTo(S, n)
<1>1. {i \in T : i <= n} = {i \in S : i <= n}
  BY DEF Grown
<1> QED
  BY <1>1 DEF CountTo

LEMMA NthExists ==
  ASSUME NEW n \in Nat, NEW S \in SUBSET (1 .. n)
  PROVE  /\ IsFiniteSet(S) /\ Cardinality(S) \in Nat
         /\ \A k \in 1 .. Cardinality(S) :
              Nth(S, k) \in S /\ CountTo(S, Nth(S, k)) = k
<1> DEFINE Has(U) == \A k \in 1 .. Cardinality(U) : \E m \in U : CountTo(U, m) = k
           T == {b \in Nat : \E U \in SUBSET (1 .. b) : ~Has(U)}
<1>1. \A b \in Nat : \A U \in SUBSET (1 .. b) : IsFiniteSet(U) /\ Cardinality(U) \in Nat
  <2>1. ASSUME NEW b \in Nat, NEW U \in SUBSET (1 .. b)
        PROVE  IsFiniteSet(U) /\ Cardinality(U) \in Nat
    <3>1. IsFiniteSet(1 .. b)
      BY FS_Interval
    <3> QED
      BY <3>1, FS_Subset, FS_CardinalityType
  <2> QED
    BY <2>1
<1>2. ASSUME T # {} PROVE FALSE
  <2>1. PICK b \in T : \A y \in T : b <= y
    BY <1>2, Smallest
  <2>2. PICK U \in SUBSET (1 .. b) : ~Has(U)
    BY <2>1
  <2>3. b \in Nat
    BY <2>1
  <2>4. CASE b = 0
    <3>1. U = {}
      BY <2>2, <2>4
    <3>2. Cardinality(U) = 0
      BY <3>1, FS_EmptySet
    <3> QED
      BY <2>2, <3>2
  <2>5. CASE b > 0
    <3>1. PICK c \in Nat : b = c + 1
      BY <2>3, <2>5
    <3>2. ASSUME NEW V \in SUBSET (1 .. c) PROVE Has(V)
      <4>1. c \notin T
        <5>1. ~(b <= c)
          BY <3>1
        <5> HIDE DEF T
        <5> QED
          BY <2>1, <5>1
      <4>2. c \in Nat
        BY <3>1
      <4> QED
        BY <4>1, <4>2
    <3>3. CASE b \notin U
      <4>1. U \in SUBSET (1 .. c)
        BY <2>2, <3>1, <3>3
      <4> QED
        BY <2>2, <3>2, <4>1
    <3>4. CASE b \in U
      <4>1. PICK V : V = U \ {b}
        OBVIOUS
      <4>2. V \in SUBSET (1 .. c) /\ V \subseteq Int /\ b \in Int /\ U = V \cup {b} /\ \A i \in V : i < b
        BY <2>2, <3>1, <3>4, <4>1
      <4>3. Has(V) /\ IsFiniteSet(V)
        BY <1>1, <3>1, <3>2, <4>2
      <4>4. /\ Cardinality(V) \in Nat /\ Cardinality(U) = Cardinality(V) + 1
            /\ CountTo(U, b) = Cardinality(V) + 1
            /\ V \subseteq Int /\ Grown(V, b, U)
        <5>1. V \subseteq Int /\ IsFiniteSet(V) /\ Grown(V, b, U)
          BY <4>2, <4>3 DEF Grown
        <5> HIDE DEF T
        <5> QED
          BY <5>1, CountGrows
      <4>5. ASSUME NEW k \in 1 .. Cardinality(U) PROVE \E m \in U : CountTo(U, m) = k
        <5>1. k \in 1 .. Cardinality(V) \/ k = Cardinality(V) + 1
          BY <4>4
        <5>2. CASE k \in 1 .. Cardinality(V)
          <6>1. PICK m \in V : CountTo(V, m) = k
            BY <4>3, <5>2
          <6>2. CountTo(U, m) = CountTo(V, m)
            <7> HIDE DEF T, Has
            <7> QED
              BY <4>4, CountKeeps
          <6> QED
            BY <4>2, <6>1, <6>2
        <5>3. CASE k = Cardinality(V) + 1
          BY <3>4, <4>4, <5>3
        <5> QED
          BY <5>1, <5>2, <5>3
      <4> QED
        BY <2>2, <4>5
    <3> QED
      BY <3>3, <3>4
  <2> QED
    BY <2>3, <2>4, <2>5
<1>3. Has(S)
  BY <1>2
<1>4. ASSUME NEW k \in 1 .. Cardinality(S)
      PROVE  Nth(S, k) \in S /\ CountTo(S, Nth(S, k)) = k
  <2>1. \E m \in S : CountTo(S, m) = k
    BY <1>3
  <2> HIDE DEF Has, T
  <2>2. Nth(S, k) = CHOOSE m \in S : CountTo(S, m) = k
    BY Zenon DEF Nth, CountTo
  <2> QED
    BY <2>1, <2>2, Zenon
<1> QED
  BY <1>1, <1>4

(* Those before it keep their numbers. *)
LEMMA NthGrows ==
  ASSUME NEW n \in Nat, NEW S \in SUBSET (1 .. n), NEW m, NEW T, Grown(S, m, T),
         NEW k \in 1 .. Cardinality(S)
  PROVE  Nth(S, k) \in S /\ Nth(T, k) = Nth(S, k)
<1>1. /\ IsFiniteSet(S) /\ Nth(S, k) \in S /\ CountTo(S, Nth(S, k)) = k
  BY NthExists
<1>2. S \subseteq Int
  OBVIOUS
<1>3. IsFiniteSet(T) /\ T \subseteq Int
  BY <1>1, <1>2, CountGrows
<1>4. PICK i \in S : i = Nth(S, k)
  BY <1>1
<1>5. CountTo(T, i) = k /\ i \in T
  <2>1. CountTo(T, i) = CountTo(S, i)
    <3>1. {c \in T : c <= i} = {c \in S : c <= i}
      BY <1>2 DEF Grown
    <3> QED
      BY <3>1 DEF CountTo
  <2> QED
    BY <1>1, <1>4, <2>1 DEF Grown
<1> QED
  BY <1>3, <1>4, <1>5, NthIs

Keeps(S, T) == \A k \in 1 .. Cardinality(S) : Nth(S, k) \in S /\ Nth(T, k) = Nth(S, k)

LEMMA NthKept ==
  ASSUME NEW n \in Nat, NEW S, S \in SUBSET (1 .. n), NEW m, NEW T, Grown(S, m, T)
  PROVE  Keeps(S, T)
<1>1. ASSUME NEW k \in 1 .. Cardinality(S) PROVE Nth(S, k) \in S /\ Nth(T, k) = Nth(S, k)
  BY NthGrows
<1> QED
  BY <1>1 DEF Keeps

(* The first behind a place. *)
LEMMA NextIs ==
  ASSUME NEW S, S \subseteq Int, NEW n \in Int, NEW m \in S, m > n, NEW end,
         \A i \in S : i > n => m <= i
  PROVE  NextOf(S, n, end) = m
<1>1. ~ \A i \in S : i <= n
  OBVIOUS
<1>2. \A i \in S : (i > n /\ \A k \in S : k > n => i <= k) => i = m
  OBVIOUS
<1>3. NextOf(S, n, end) = CHOOSE i \in S : i > n /\ \A k \in S : k > n => i <= k
  BY <1>1, Zenon DEF NextOf
<1> QED
  BY <1>2, <1>3, Zenon

-----------------------------------------------------------------------------
(* Sequences of sequences, joined. *)
IsFlat(f, s, n) == f = [i \in 1 .. n |-> IF i = 1 THEN s[i] ELSE f[i - 1] \o s[i]]

LEMMA FlatGrows ==
  ASSUME NEW s, NEW n \in Nat, NEW f, IsFlat(f, s, n)
  PROVE  \E g : IsFlat(g, s, n + 1)
<1> DEFINE last == IF n = 0 THEN s[n + 1] ELSE f[n] \o s[n + 1]
           g == [i \in 1 .. n + 1 |-> IF i = n + 1 THEN last ELSE f[i]]
<1>1. ASSUME NEW i \in 1 .. n + 1
      PROVE  g[i] = IF i = 1 THEN s[i] ELSE g[i - 1] \o s[i]
  <2>1. g[i] = IF i = n + 1 THEN last ELSE f[i]
    OBVIOUS
  <2>2. i # 1 => i - 1 \in 1 .. n /\ i - 1 \in 1 .. n + 1 /\ i - 1 # n + 1
    OBVIOUS
  <2>3. i # 1 => g[i - 1] = f[i - 1]
    BY <2>2
  <2>4. i # n + 1 => i \in 1 .. n
    OBVIOUS
  <2>5. i \in 1 .. n => f[i] = IF i = 1 THEN s[i] ELSE f[i - 1] \o s[i]
    BY DEF IsFlat
  <2>6. i = n + 1 => (i = 1 <=> n = 0) /\ i - 1 = n
    OBVIOUS
  <2> HIDE DEF g
  <2>7. CASE i = n + 1
    BY <2>1, <2>3, <2>6, <2>7
  <2>8. CASE i # n + 1
    BY <2>1, <2>3, <2>4, <2>5, <2>8
  <2> QED
    BY <2>7, <2>8
<1>2. g = [i \in 1 .. n + 1 |-> g[i]]
  OBVIOUS
<1> HIDE DEF g
<1>3. [i \in 1 .. n + 1 |-> g[i]] = [i \in 1 .. n + 1 |-> IF i = 1 THEN s[i] ELSE g[i - 1] \o s[i]]
  BY <1>1, Zenon
<1>4. IsFlat(g, s, n + 1)
  BY <1>2, <1>3 DEF IsFlat
<1> QED
  BY <1>4

LEMMA FlatStep ==
  ASSUME NEW s, NEW n \in Nat, NEW f, IsFlat(f, s, n), NEW i \in 1 .. n
  PROVE  f[i] = IF i = 1 THEN s[i] ELSE f[i - 1] \o s[i]
BY DEF IsFlat

LEMMA FlatExists ==
  ASSUME NEW s, NEW n \in Nat
  PROVE  \E f : IsFlat(f, s, n)
<1> DEFINE T == {m \in Nat : ~ \E f : IsFlat(f, s, m)}
<1>1. ASSUME T # {} PROVE FALSE
  <2>1. PICK x \in T : \A y \in T : x <= y
    BY <1>1, Smallest
  <2>2. x \in Nat /\ ~ \E f : IsFlat(f, s, x)
    BY <2>1
  <2>3. CASE x = 0
    <3> DEFINE g == [i \in 1 .. 0 |-> s]
    <3>1. g = [i \in 1 .. 0 |-> IF i = 1 THEN s[i] ELSE g[i - 1] \o s[i]]
      OBVIOUS
    <3> HIDE DEF g
    <3>2. IsFlat(g, s, x)
      BY <2>3, <3>1 DEF IsFlat
    <3> QED
      BY <2>2, <3>2
  <2>4. CASE x > 0
    <3>1. PICK z \in Nat : x = z + 1
      BY <2>2, <2>4
    <3>2. z \notin T
      BY <2>1, <3>1
    <3>3. PICK f : IsFlat(f, s, z)
      BY <3>2
    <3> QED
      BY <2>2, <3>1, <3>3, FlatGrows
  <2> QED
    BY <2>2, <2>3, <2>4
<1> QED
  BY <1>1

LEMMA FlatOnce ==
  ASSUME NEW s, NEW t, NEW f, NEW g, NEW m \in Nat, NEW n \in Nat, m <= n,
         IsFlat(f, s, m), IsFlat(g, t, n), \A i \in 1 .. m : s[i] = t[i]
  PROVE  \A i \in 1 .. m : f[i] = g[i]
<1> DEFINE T == {i \in 1 .. m : f[i] # g[i]}
<1>1. ASSUME T # {} PROVE FALSE
  <2>1. T \subseteq Nat
    OBVIOUS
  <2>2. PICK x \in T : \A y \in T : x <= y
    BY <1>1, <2>1, Smallest
  <2>3. x \in 1 .. m /\ x \in 1 .. n /\ f[x] # g[x]
    BY <2>2
  <2>4. /\ f[x] = IF x = 1 THEN s[x] ELSE f[x - 1] \o s[x]
        /\ g[x] = IF x = 1 THEN t[x] ELSE g[x - 1] \o t[x]
    BY <2>3 DEF IsFlat
  <2>5. x # 1 => x - 1 \in 1 .. m /\ x - 1 \notin T
    BY <2>2, <2>3
  <2>6. x # 1 => f[x - 1] = g[x - 1]
    BY <2>5
  <2> QED
    BY <2>3, <2>4, <2>6
<1> QED
  BY <1>1

LEMMA FlattenIs ==
  ASSUME NEW s, Len(s) \in Nat \ {0}
  PROVE  \E f : IsFlat(f, s, Len(s)) /\ FlattenSeq(s) = f[Len(s)]
<1>1. \E f : IsFlat(f, s, Len(s))
  BY FlatExists
<1> DEFINE f == CHOOSE h : IsFlat(h, s, Len(s))
<1>2. IsFlat(f, s, Len(s))
  BY <1>1
<1>3. FlattenSeq(s) = f[Len(s)]
  BY Zenon DEF FlattenSeq, IsFlat
<1> QED
  BY <1>2, <1>3

LEMMA FlattenLast ==
  ASSUME NEW t, NEW n \in Nat, Len(t) = n + 1
  PROVE  \E g : /\ IsFlat(g, t, n + 1) /\ FlattenSeq(t) = g[n + 1]
                /\ g[n + 1] = IF n = 0 THEN t[n + 1] ELSE g[n] \o t[n + 1]
<1>1. PICK m \in Nat : m = n + 1
  OBVIOUS
<1>2. PICK g : IsFlat(g, t, m) /\ FlattenSeq(t) = g[m]
  BY <1>1, FlattenIs
<1>3. m \in 1 .. m /\ (m = 1 <=> n = 0) /\ m - 1 = n
  BY <1>1
<1>4. g[m] = IF m = 1 THEN t[m] ELSE g[m - 1] \o t[m]
  BY <1>2, <1>3, FlatStep
<1> QED
  BY <1>1, <1>2, <1>3, <1>4

LEMMA FlattenNothing == FlattenSeq(<<>>) = <<>>
BY EmptySeq DEF FlattenSeq

LEMMA FlattenAppend ==
  ASSUME NEW S, NEW s \in Seq(S), NEW x \in S, <<>> \o x = x
  PROVE  FlattenSeq(Append(s, x)) = FlattenSeq(s) \o x
<1>1. PICK n \in Nat : n = Len(s)
  BY LenProperties
<1>2. PICK t : t = Append(s, x)
  OBVIOUS
<1>3. /\ Len(t) = n + 1 /\ t[n + 1] = x /\ \A i \in 1 .. n : t[i] = s[i]
  BY <1>1, <1>2, AppendProperties
<1>4. PICK g : /\ IsFlat(g, t, n + 1) /\ FlattenSeq(t) = g[n + 1]
               /\ g[n + 1] = IF n = 0 THEN t[n + 1] ELSE g[n] \o t[n + 1]
  BY <1>3, FlattenLast
<1>6. CASE n = 0
  <2>1. s = <<>>
    BY <1>1, <1>6, EmptySeq
  <2>2. FlattenSeq(t) = x
    BY <1>3, <1>4, <1>6
  <2> QED
    BY <1>2, <2>1, <2>2, FlattenNothing
<1>7. CASE n # 0
  <2>1. PICK f : IsFlat(f, s, n) /\ FlattenSeq(s) = f[n]
    BY <1>1, <1>7, FlattenIs
  <2>2. f[n] = g[n]
    <3>1. n + 1 \in Nat /\ n <= n + 1 /\ n \in 1 .. n
      BY <1>7
    <3> QED
      BY <1>3, <1>4, <2>1, <3>1, FlatOnce
  <2>3. g[n + 1] = g[n] \o x
    BY <1>3, <1>4, <1>7
  <2> QED
    BY <1>2, <1>4, <2>1, <2>2, <2>3
<1> QED
  BY <1>6, <1>7

-----------------------------------------------------------------------------
(* base64.  The sextet at place k of group g, and what there is of it.     *)

OctetAt(bytes, i) == IF i <= Len(bytes) THEN bytes[i] ELSE 0
SextetAt(bytes, g, k) ==
  Sextets(OctetAt(bytes, 3 * g + 1), OctetAt(bytes, 3 * g + 2), OctetAt(bytes, 3 * g + 3))[k]

(* The sextets that the octets of a text fill. *)
Digits(n) == (8 * n + 5) \div 6

LEMMA OctetType ==
  ASSUME NEW bytes \in Seq(Bytes), NEW i \in Nat \ {0}
  PROVE  OctetAt(bytes, i) \in 0 .. 255
<1>1. CASE i <= Len(bytes)
  <2>1. i \in 1 .. Len(bytes)
    BY <1>1
  <2>2. bytes[i] \in Bytes
    BY <2>1
  <2> QED
    BY <1>1, <2>2 DEF OctetAt, Bytes
<1>2. CASE ~(i <= Len(bytes))
  BY <1>2 DEF OctetAt
<1> QED
  BY <1>1, <1>2

(* A bit of octet m of group g, by its weight. *)
LEMMA BitAt ==
  ASSUME NEW bytes \in Seq(Bytes), NEW g \in Nat, NEW m \in 0 .. 2, NEW o,
         o = OctetAt(bytes, 3 * g + m + 1)
  PROVE  /\ Bit(bytes, 24 * g + 8 * m) = (o \div 128) % 2
         /\ Bit(bytes, 24 * g + 8 * m + 1) = (o \div 64) % 2
         /\ Bit(bytes, 24 * g + 8 * m + 2) = (o \div 32) % 2
         /\ Bit(bytes, 24 * g + 8 * m + 3) = (o \div 16) % 2
         /\ Bit(bytes, 24 * g + 8 * m + 4) = (o \div 8) % 2
         /\ Bit(bytes, 24 * g + 8 * m + 5) = (o \div 4) % 2
         /\ Bit(bytes, 24 * g + 8 * m + 6) = (o \div 2) % 2
         /\ Bit(bytes, 24 * g + 8 * m + 7) = o % 2
<1>1. PICK n \in Nat : n = Len(bytes)
  OBVIOUS
<1>2. PICK j \in Nat : j = 3 * g + m
  OBVIOUS
<1>3. o = IF j < n THEN bytes[j + 1] ELSE 0
  BY <1>1, <1>2 DEF OctetAt
<1>4. o \in 0 .. 255
  <2>1. j + 1 \in Nat \ {0} /\ o = OctetAt(bytes, j + 1)
    BY <1>2
  <2> QED
    BY <2>1, OctetType
<1>5. ASSUME NEW b \in 0 .. 7
      PROVE  Bit(bytes, 24 * g + 8 * m + b) = (o \div 2 ^ (7 - b)) % 2
  <2>1. (24 * g + 8 * m + b) \div 8 = j /\ (24 * g + 8 * m + b) % 8 = b
    <3>1. PICK e \in Nat : e = 8 * j + b
      OBVIOUS
    <3>2. e = 24 * g + 8 * m + b
      BY <1>2, <3>1
    <3>3. e \div 8 = j /\ e % 8 = b
      BY <3>1
    <3> QED
      BY <3>2, <3>3
  <2>2. Bit(bytes, 24 * g + 8 * m + b) = IF j < n THEN (bytes[j + 1] \div 2 ^ (7 - b)) % 2 ELSE 0
    BY <1>1, <2>1 DEF Bit
  <2>3. CASE j < n
    BY <1>3, <2>2, <2>3
  <2>4. CASE ~(j < n)
    <3>1. o = 0
      BY <1>3, <2>4
    <3>2. (0 \div 2 ^ (7 - b)) % 2 = 0
      <4>1. PICK w \in Nat \ {0} : w = 2 ^ (7 - b)
        <5>1. b \in {0, 1, 2, 3, 4, 5, 6, 7}
          OBVIOUS
        <5>2. /\ 2 ^ (7 - 0) = 128 /\ 2 ^ (7 - 1) = 64 /\ 2 ^ (7 - 2) = 32 /\ 2 ^ (7 - 3) = 16
              /\ 2 ^ (7 - 4) = 8 /\ 2 ^ (7 - 5) = 4 /\ 2 ^ (7 - 6) = 2 /\ 2 ^ (7 - 7) = 1
          BY SMT
        <5>3. 2 ^ (7 - b) \in {128, 64, 32, 16, 8, 4, 2, 1}
          <6>1. CASE b = 0
            BY <5>2, <6>1
          <6>2. CASE b = 1
            BY <5>2, <6>2
          <6>3. CASE b = 2
            BY <5>2, <6>3
          <6>4. CASE b = 3
            BY <5>2, <6>4
          <6>5. CASE b = 4
            BY <5>2, <6>5
          <6>6. CASE b = 5
            BY <5>2, <6>6
          <6>7. CASE b = 6
            BY <5>2, <6>7
          <6>8. CASE b = 7
            BY <5>2, <6>8
          <6> QED
            BY <5>1, <6>1, <6>2, <6>3, <6>4, <6>5, <6>6, <6>7, <6>8
        <5> QED
          BY <5>3
      <4>2. 0 \div w = 0
        OBVIOUS
      <4> QED
        BY <4>1, <4>2
    <3> QED
      BY <2>2, <2>4, <3>1, <3>2
  <2> QED
    BY <2>3, <2>4
<1>6. Bit(bytes, 24 * g + 8 * m) = (o \div 128) % 2
  <2>1. Bit(bytes, 24 * g + 8 * m + 0) = (o \div 2 ^ (7 - 0)) % 2
    BY <1>5
  <2>2. 24 * g + 8 * m + 0 = 24 * g + 8 * m
    OBVIOUS
  <2>3. 2 ^ (7 - 0) = 128
    BY SMT
  <2> QED
    BY <2>1, <2>2, <2>3, Zenon
<1>7. Bit(bytes, 24 * g + 8 * m + 7) = o % 2
  <2>1. Bit(bytes, 24 * g + 8 * m + 7) = (o \div 2 ^ (7 - 7)) % 2
    BY <1>5
  <2>2. o \div 1 = o
    BY <1>4
  <2>3. 2 ^ (7 - 7) = 1
    BY SMT
  <2> QED
    BY <2>1, <2>2, <2>3, Zenon
<1>8. Bit(bytes, 24 * g + 8 * m + 1) = (o \div 64) % 2
  <2>1. Bit(bytes, 24 * g + 8 * m + 1) = (o \div 2 ^ (7 - 1)) % 2
    BY <1>5
  <2>2. 2 ^ (7 - 1) = 64
    BY SMT
  <2> QED
    BY <2>1, <2>2, Zenon
<1>9. Bit(bytes, 24 * g + 8 * m + 2) = (o \div 32) % 2
  <2>1. Bit(bytes, 24 * g + 8 * m + 2) = (o \div 2 ^ (7 - 2)) % 2
    BY <1>5
  <2>2. 2 ^ (7 - 2) = 32
    BY SMT
  <2> QED
    BY <2>1, <2>2, Zenon
<1>10. Bit(bytes, 24 * g + 8 * m + 3) = (o \div 16) % 2
  <2>1. Bit(bytes, 24 * g + 8 * m + 3) = (o \div 2 ^ (7 - 3)) % 2
    BY <1>5
  <2>2. 2 ^ (7 - 3) = 16
    BY SMT
  <2> QED
    BY <2>1, <2>2, Zenon
<1>11. Bit(bytes, 24 * g + 8 * m + 4) = (o \div 8) % 2
  <2>1. Bit(bytes, 24 * g + 8 * m + 4) = (o \div 2 ^ (7 - 4)) % 2
    BY <1>5
  <2>2. 2 ^ (7 - 4) = 8
    BY SMT
  <2> QED
    BY <2>1, <2>2, Zenon
<1>12. Bit(bytes, 24 * g + 8 * m + 5) = (o \div 4) % 2
  <2>1. Bit(bytes, 24 * g + 8 * m + 5) = (o \div 2 ^ (7 - 5)) % 2
    BY <1>5
  <2>2. 2 ^ (7 - 5) = 4
    BY SMT
  <2> QED
    BY <2>1, <2>2, Zenon
<1>13. Bit(bytes, 24 * g + 8 * m + 6) = (o \div 2) % 2
  <2>1. Bit(bytes, 24 * g + 8 * m + 6) = (o \div 2 ^ (7 - 6)) % 2
    BY <1>5
  <2>2. 2 ^ (7 - 6) = 2
    BY SMT
  <2> QED
    BY <2>1, <2>2, Zenon
<1> QED
  BY <1>6, <1>7, <1>8, <1>9, <1>10, <1>11, <1>12, <1>13

(* The bits of octets, taken together. *)
LEMMA BitsOfOctet ==
  ASSUME NEW o \in 0 .. 255
  PROVE  /\ ((o \div 128) % 2) * 32 + ((o \div 64) % 2) * 16 + ((o \div 32) % 2) * 8
              + ((o \div 16) % 2) * 4 + ((o \div 8) % 2) * 2 + ((o \div 4) % 2) = o \div 4
         /\ ((o \div 2) % 2) * 2 + (o % 2) = o % 4
         /\ ((o \div 128) % 2) * 8 + ((o \div 64) % 2) * 4 + ((o \div 32) % 2) * 2
              + ((o \div 16) % 2) = o \div 16
         /\ ((o \div 8) % 2) * 8 + ((o \div 4) % 2) * 4 + ((o \div 2) % 2) * 2 + (o % 2) = o % 16
         /\ ((o \div 128) % 2) * 2 + ((o \div 64) % 2) = o \div 64
         /\ ((o \div 32) % 2) * 32 + ((o \div 16) % 2) * 16 + ((o \div 8) % 2) * 8
              + ((o \div 4) % 2) * 4 + ((o \div 2) % 2) * 2 + (o % 2) = o % 64
OBVIOUS

(* The sextets are those of the definition by bits. *)
LEMMA SixBitsAre ==
  ASSUME NEW bytes \in Seq(Bytes), NEW g \in Nat, NEW k \in 1 .. 4
  PROVE  SixBits(bytes, 4 * g + k - 1) = SextetAt(bytes, g, k)
<1>1. PICK a \in 0 .. 255 : a = OctetAt(bytes, 3 * g + 1)
  <2>1. 3 * g + 1 \in Nat \ {0}
    OBVIOUS
  <2> QED
    BY <2>1, OctetType
<1>2. PICK b \in 0 .. 255 : b = OctetAt(bytes, 3 * g + 2)
  <2>1. 3 * g + 2 \in Nat \ {0}
    OBVIOUS
  <2> QED
    BY <2>1, OctetType
<1>3. PICK c \in 0 .. 255 : c = OctetAt(bytes, 3 * g + 3)
  <2>1. 3 * g + 3 \in Nat \ {0}
    OBVIOUS
  <2> QED
    BY <2>1, OctetType
<1>4. SextetAt(bytes, g, k) = <<a \div 4, (a % 4) * 16 + (b \div 16), (b % 16) * 4 + (c \div 64), c % 64>>[k]
  BY <1>1, <1>2, <1>3 DEF SextetAt, Sextets
<1> DEFINE B(i) == Bit(bytes, i)
<1>5. /\ B(24 * g) = (a \div 128) % 2 /\ B(24 * g + 1) = (a \div 64) % 2
      /\ B(24 * g + 2) = (a \div 32) % 2 /\ B(24 * g + 3) = (a \div 16) % 2
      /\ B(24 * g + 4) = (a \div 8) % 2 /\ B(24 * g + 5) = (a \div 4) % 2
      /\ B(24 * g + 6) = (a \div 2) % 2 /\ B(24 * g + 7) = a % 2
  <2>1. 3 * g + 0 + 1 = 3 * g + 1 /\ 24 * g + 8 * 0 = 24 * g /\ 0 \in 0 .. 2
    OBVIOUS
  <2>2. a = OctetAt(bytes, 3 * g + 0 + 1)
    BY <1>1, <2>1
  <2> QED
    BY <2>1, <2>2, BitAt
<1>6. /\ B(24 * g + 8) = (b \div 128) % 2 /\ B(24 * g + 9) = (b \div 64) % 2
      /\ B(24 * g + 10) = (b \div 32) % 2 /\ B(24 * g + 11) = (b \div 16) % 2
      /\ B(24 * g + 12) = (b \div 8) % 2 /\ B(24 * g + 13) = (b \div 4) % 2
      /\ B(24 * g + 14) = (b \div 2) % 2 /\ B(24 * g + 15) = b % 2
  <2>1. 3 * g + 1 + 1 = 3 * g + 2 /\ 24 * g + 8 * 1 = 24 * g + 8 /\ 1 \in 0 .. 2
    OBVIOUS
  <2>2. b = OctetAt(bytes, 3 * g + 1 + 1)
    BY <1>2, <2>1
  <2>3. /\ 24 * g + 8 + 1 = 24 * g + 9 /\ 24 * g + 8 + 2 = 24 * g + 10
        /\ 24 * g + 8 + 3 = 24 * g + 11 /\ 24 * g + 8 + 4 = 24 * g + 12
        /\ 24 * g + 8 + 5 = 24 * g + 13 /\ 24 * g + 8 + 6 = 24 * g + 14
        /\ 24 * g + 8 + 7 = 24 * g + 15
    OBVIOUS
  <2>4. /\ B(24 * g + 8 * 1) = (b \div 128) % 2 /\ B(24 * g + 8 * 1 + 1) = (b \div 64) % 2
        /\ B(24 * g + 8 * 1 + 2) = (b \div 32) % 2 /\ B(24 * g + 8 * 1 + 3) = (b \div 16) % 2
        /\ B(24 * g + 8 * 1 + 4) = (b \div 8) % 2 /\ B(24 * g + 8 * 1 + 5) = (b \div 4) % 2
        /\ B(24 * g + 8 * 1 + 6) = (b \div 2) % 2 /\ B(24 * g + 8 * 1 + 7) = b % 2
    BY <2>1, <2>2, BitAt
  <2> HIDE DEF B
  <2> QED
    BY <2>1, <2>3, <2>4
<1>7. /\ B(24 * g + 16) = (c \div 128) % 2 /\ B(24 * g + 17) = (c \div 64) % 2
      /\ B(24 * g + 18) = (c \div 32) % 2 /\ B(24 * g + 19) = (c \div 16) % 2
      /\ B(24 * g + 20) = (c \div 8) % 2 /\ B(24 * g + 21) = (c \div 4) % 2
      /\ B(24 * g + 22) = (c \div 2) % 2 /\ B(24 * g + 23) = c % 2
  <2>1. 3 * g + 2 + 1 = 3 * g + 3 /\ 24 * g + 8 * 2 = 24 * g + 16 /\ 2 \in 0 .. 2
    OBVIOUS
  <2>2. c = OctetAt(bytes, 3 * g + 2 + 1)
    BY <1>3, <2>1
  <2>3. /\ 24 * g + 16 + 1 = 24 * g + 17 /\ 24 * g + 16 + 2 = 24 * g + 18
        /\ 24 * g + 16 + 3 = 24 * g + 19 /\ 24 * g + 16 + 4 = 24 * g + 20
        /\ 24 * g + 16 + 5 = 24 * g + 21 /\ 24 * g + 16 + 6 = 24 * g + 22
        /\ 24 * g + 16 + 7 = 24 * g + 23
    OBVIOUS
  <2>4. /\ B(24 * g + 8 * 2) = (c \div 128) % 2 /\ B(24 * g + 8 * 2 + 1) = (c \div 64) % 2
        /\ B(24 * g + 8 * 2 + 2) = (c \div 32) % 2 /\ B(24 * g + 8 * 2 + 3) = (c \div 16) % 2
        /\ B(24 * g + 8 * 2 + 4) = (c \div 8) % 2 /\ B(24 * g + 8 * 2 + 5) = (c \div 4) % 2
        /\ B(24 * g + 8 * 2 + 6) = (c \div 2) % 2 /\ B(24 * g + 8 * 2 + 7) = c % 2
    BY <2>1, <2>2, BitAt
  <2> HIDE DEF B
  <2> QED
    BY <2>1, <2>3, <2>4
<1> HIDE DEF B
<1> DEFINE Six(i) == B(i) * 32 + B(i + 1) * 16 + B(i + 2) * 8 + B(i + 3) * 4 + B(i + 4) * 2 + B(i + 5)
<1>8. ASSUME NEW i \in Nat, i = 24 * g + 6 * (k - 1) PROVE SixBits(bytes, 4 * g + k - 1) = Six(i)
  <2>1. 6 * (4 * g + k - 1) = i
    BY <1>8
  <2> QED
    BY <2>1 DEF SixBits, B
<1>9. CASE k = 1
  <2>1. SixBits(bytes, 4 * g + k - 1) = Six(24 * g)
    <3>1. 24 * g \in Nat /\ 24 * g = 24 * g + 6 * (k - 1)
      BY <1>9
    <3> QED
      BY <1>8, <3>1
  <2>2. Six(24 * g) = a \div 4
    BY <1>5, BitsOfOctet
  <2> QED
    BY <1>4, <1>9, <2>1, <2>2
<1>10. CASE k = 2
  <2>1. SixBits(bytes, 4 * g + k - 1) = Six(24 * g + 6)
    <3>1. 24 * g + 6 \in Nat /\ 24 * g + 6 = 24 * g + 6 * (k - 1)
      BY <1>10
    <3> QED
      BY <1>8, <3>1
  <2>2. /\ 24 * g + 6 + 1 = 24 * g + 7 /\ 24 * g + 6 + 2 = 24 * g + 8
        /\ 24 * g + 6 + 3 = 24 * g + 9 /\ 24 * g + 6 + 4 = 24 * g + 10
        /\ 24 * g + 6 + 5 = 24 * g + 11
    OBVIOUS
  <2>3. Six(24 * g + 6) = B(24 * g + 6) * 32 + B(24 * g + 7) * 16 + B(24 * g + 8) * 8
                          + B(24 * g + 9) * 4 + B(24 * g + 10) * 2 + B(24 * g + 11)
    BY <2>2
  <2>4. /\ ((a \div 2) % 2) * 2 + (a % 2) = a % 4
        /\ ((b \div 128) % 2) * 8 + ((b \div 64) % 2) * 4 + ((b \div 32) % 2) * 2
             + ((b \div 16) % 2) = b \div 16
    BY BitsOfOctet
  <2>5. B(24 * g + 6) * 32 + B(24 * g + 7) * 16 + B(24 * g + 8) * 8
          + B(24 * g + 9) * 4 + B(24 * g + 10) * 2 + B(24 * g + 11) = (a % 4) * 16 + (b \div 16)
    <3>1. PICK p, q, w, x, y, z \in 0 .. 1 :
            /\ p = (a \div 2) % 2 /\ q = a % 2 /\ w = (b \div 128) % 2
            /\ x = (b \div 64) % 2 /\ y = (b \div 32) % 2 /\ z = (b \div 16) % 2
      OBVIOUS
    <3>2. PICK u, v \in Nat : u = a % 4 /\ v = b \div 16
      OBVIOUS
    <3>3. p * 2 + q = u /\ w * 8 + x * 4 + y * 2 + z = v
      BY <2>4, <3>1, <3>2, Zenon
    <3>4. p * 32 + q * 16 + w * 8 + x * 4 + y * 2 + z = u * 16 + v
      BY <3>3
    <3> QED
      BY <1>5, <1>6, <3>1, <3>2, <3>4, Zenon
  <2> QED
    BY <1>4, <1>10, <2>1, <2>3, <2>5
<1>11. CASE k = 3
  <2>1. SixBits(bytes, 4 * g + k - 1) = Six(24 * g + 12)
    <3>1. 24 * g + 12 \in Nat /\ 24 * g + 12 = 24 * g + 6 * (k - 1)
      BY <1>11
    <3> QED
      BY <1>8, <3>1
  <2>2. /\ 24 * g + 12 + 1 = 24 * g + 13 /\ 24 * g + 12 + 2 = 24 * g + 14
        /\ 24 * g + 12 + 3 = 24 * g + 15 /\ 24 * g + 12 + 4 = 24 * g + 16
        /\ 24 * g + 12 + 5 = 24 * g + 17
    OBVIOUS
  <2>3. Six(24 * g + 12) = B(24 * g + 12) * 32 + B(24 * g + 13) * 16 + B(24 * g + 14) * 8
                          + B(24 * g + 15) * 4 + B(24 * g + 16) * 2 + B(24 * g + 17)
    BY <2>2
  <2>4. /\ ((c \div 128) % 2) * 2 + ((c \div 64) % 2) = c \div 64
        /\ ((b \div 8) % 2) * 8 + ((b \div 4) % 2) * 4 + ((b \div 2) % 2) * 2 + (b % 2) = b % 16
    BY BitsOfOctet
  <2>5. B(24 * g + 12) * 32 + B(24 * g + 13) * 16 + B(24 * g + 14) * 8
          + B(24 * g + 15) * 4 + B(24 * g + 16) * 2 + B(24 * g + 17) = (b % 16) * 4 + (c \div 64)
    <3>1. PICK p, q, w, x, y, z \in 0 .. 1 :
            /\ p = (c \div 128) % 2 /\ q = (c \div 64) % 2 /\ w = (b \div 8) % 2
            /\ x = (b \div 4) % 2 /\ y = (b \div 2) % 2 /\ z = b % 2
      OBVIOUS
    <3>2. PICK u, v \in Nat : u = c \div 64 /\ v = b % 16
      OBVIOUS
    <3>3. p * 2 + q = u /\ w * 8 + x * 4 + y * 2 + z = v
      BY <2>4, <3>1, <3>2, Zenon
    <3>4. w * 32 + x * 16 + y * 8 + z * 4 + p * 2 + q = v * 4 + u
      BY <3>3
    <3> QED
      BY <1>6, <1>7, <3>1, <3>2, <3>4, Zenon
  <2> QED
    BY <1>4, <1>11, <2>1, <2>3, <2>5
<1>12. CASE k = 4
  <2>1. SixBits(bytes, 4 * g + k - 1) = Six(24 * g + 18)
    <3>1. 24 * g + 18 \in Nat /\ 24 * g + 18 = 24 * g + 6 * (k - 1)
      BY <1>12
    <3> QED
      BY <1>8, <3>1
  <2>2. /\ 24 * g + 18 + 1 = 24 * g + 19 /\ 24 * g + 18 + 2 = 24 * g + 20
        /\ 24 * g + 18 + 3 = 24 * g + 21 /\ 24 * g + 18 + 4 = 24 * g + 22
        /\ 24 * g + 18 + 5 = 24 * g + 23
    OBVIOUS
  <2>3. Six(24 * g + 18) = B(24 * g + 18) * 32 + B(24 * g + 19) * 16 + B(24 * g + 20) * 8
                          + B(24 * g + 21) * 4 + B(24 * g + 22) * 2 + B(24 * g + 23)
    BY <2>2
  <2>5. B(24 * g + 18) * 32 + B(24 * g + 19) * 16 + B(24 * g + 20) * 8
          + B(24 * g + 21) * 4 + B(24 * g + 22) * 2 + B(24 * g + 23) = c % 64
    <3>1. ((c \div 32) % 2) * 32 + ((c \div 16) % 2) * 16 + ((c \div 8) % 2) * 8
            + ((c \div 4) % 2) * 4 + ((c \div 2) % 2) * 2 + (c % 2) = c % 64
      BY BitsOfOctet
    <3> QED
      BY <1>7, <3>1, Zenon
  <2> QED
    BY <1>4, <1>12, <2>1, <2>3, <2>5
<1> QED
  <2>1. k \in {1, 2, 3, 4}
    OBVIOUS
  <2> QED
    BY <1>9, <1>10, <1>11, <1>12, <2>1

(* The alphabet: every character stands for one sextet, and neither the    *)
(* padding nor a line end is in it.                                        *)
LEMMA FindIs ==
  ASSUME NEW v \in 0 .. 63
  PROVE  /\ base64_chars[v] \in Bytes
         /\ is_base64(base64_chars[v]) /\ find(base64_chars[v]) = v
<1>1. \A k, l \in 0 .. 63 : base64_chars[k] = base64_chars[l] => k = l
  BY DEF base64_chars
<1>2. is_base64(base64_chars[v])
  BY DEF is_base64
<1>3. base64_chars[v] \in 0 .. 255
  BY DEF base64_chars
<1>4. find(base64_chars[v]) = CHOOSE k \in 0 .. 63 : base64_chars[k] = base64_chars[v]
  BY <1>2 DEF find
<1> HIDE DEF base64_chars
<1>5. (CHOOSE k \in 0 .. 63 : base64_chars[k] = base64_chars[v]) = v
  <2>1. \E k \in 0 .. 63 : base64_chars[k] = base64_chars[v]
    OBVIOUS
  <2> QED
    BY <1>1, <2>1
<1> QED
  BY <1>2, <1>3, <1>4, <1>5 DEF Bytes

LEMMA NotBase64 == ~is_base64(Pad) /\ ~is_base64(13)
BY DEF is_base64, base64_chars, Pad

(* How many sextets there are, by groups. *)
GroupsOf(n, q, r) ==
  /\ Digits(n) = 4 * q + (IF r = 0 THEN 0 ELSE r + 1)
  /\ (n + 2) \div 3 = q + (IF r = 0 THEN 0 ELSE 1)
  /\ (Digits(n) + 3) \div 4 = q + (IF r = 0 THEN 0 ELSE 1)
  /\ Digits(n) \div 4 = q /\ Digits(n) % 4 = IF r = 0 THEN 0 ELSE r + 1

LEMMA DigitsAre ==
  ASSUME NEW n \in Nat, NEW q \in Nat, NEW r \in 0 .. 2, n = 3 * q + r
  PROVE  GroupsOf(n, q, r)
<1>1. Digits(n) = (24 * q + 8 * r + 5) \div 6
  <2>1. 8 * n + 5 = 24 * q + 8 * r + 5
    OBVIOUS
  <2> QED
    BY <2>1 DEF Digits
<1>2. CASE r = 0
  BY <1>1, <1>2 DEF GroupsOf
<1>3. CASE r = 1
  BY <1>1, <1>3 DEF GroupsOf
<1>4. CASE r = 2
  BY <1>1, <1>4 DEF GroupsOf
<1> QED
  BY <1>2, <1>3, <1>4

(* A number by its group and its place there, both from one. *)
LEMMA InGroup ==
  ASSUME NEW i \in Nat \ {0}
  PROVE  /\ (i - 1) \div 4 \in Nat /\ ((i - 1) % 4) + 1 \in 1 .. 4
         /\ i = 4 * ((i - 1) \div 4) + (((i - 1) % 4) + 1)
         /\ (i - 1) \div 3 \in Nat /\ ((i - 1) % 3) + 1 \in 1 .. 3
         /\ i = 3 * ((i - 1) \div 3) + (((i - 1) % 3) + 1)
OBVIOUS

(* What base64_encode makes is the base64 form of the octets. *)
LEMMA EncodedIs ==
  ASSUME NEW bytes \in Seq(Bytes)
  PROVE  base64_encode(bytes) = Encoded(bytes)
<1>1. PICK n \in Nat : n = Len(bytes)
  OBVIOUS
<1>2. PICK q \in Nat, r \in 0 .. 2 : n = 3 * q + r
  <2>1. n \div 3 \in Nat /\ n % 3 \in 0 .. 2 /\ n = 3 * (n \div 3) + (n % 3)
    OBVIOUS
  <2> QED
    BY <2>1
<1>3. PICK h \in Nat : h = q + (IF r = 0 THEN 0 ELSE 1)
  OBVIOUS
<1>4. /\ (n + 2) \div 3 = h /\ (Digits(n) + 3) \div 4 = h
      /\ Digits(n) = 4 * q + (IF r = 0 THEN 0 ELSE r + 1)
  <2>1. GroupsOf(n, q, r)
    BY <1>2, DigitsAre
  <2> QED
    BY <1>3, <2>1 DEF GroupsOf
<1> DEFINE G(i) == (i - 1) \div 4
           K(i) == ((i - 1) % 4) + 1
           E(i) == IF K(i) > n - 3 * G(i) + 1 THEN Pad ELSE base64_chars[SextetAt(bytes, G(i), K(i))]
           F(i) == IF i <= Digits(n) THEN base64_chars[SixBits(bytes, i - 1)] ELSE Pad
<1>5. base64_encode(bytes) = [i \in 1 .. 4 * ((n + 2) \div 3) |-> E(i)]
  BY <1>1, Zenon DEF base64_encode, SextetAt, OctetAt
<1>6. Encoded(bytes) = [i \in 1 .. 4 * ((Digits(n) + 3) \div 4) |-> F(i)]
  BY <1>1, Zenon DEF Encoded, Digits
<1>7. ASSUME NEW i \in 1 .. 4 * h PROVE E(i) = F(i)
  <2>1. PICK g \in Nat, k \in 1 .. 4 : g = G(i) /\ k = K(i) /\ i = 4 * g + k
    <3>1. i \in Nat \ {0}
      OBVIOUS
    <3> QED
      BY <3>1, InGroup
  <2>2. SixBits(bytes, i - 1) = SextetAt(bytes, g, k)
    <3>1. 4 * g + k - 1 = i - 1
      BY <2>1
    <3> QED
      BY <3>1, SixBitsAre
  <2>3. i <= Digits(n) <=> ~(k > n - 3 * g + 1)
    <3>1. Digits(n) = 4 * q + (IF r = 0 THEN 0 ELSE r + 1)
      BY <1>4
    <3>2. g <= q /\ (g = q => r # 0)
      BY <1>3, <2>1
    <3>3. CASE g < q
      BY <1>2, <2>1, <3>1, <3>3
    <3>4. CASE g = q
      BY <1>2, <2>1, <3>1, <3>2, <3>4
    <3> QED
      BY <3>2, <3>3, <3>4
  <2> HIDE DEF G, K
  <2> QED
    BY <2>1, <2>2, <2>3, Zenon
<1> HIDE DEF E, F
<1> QED
  BY <1>4, <1>5, <1>6, <1>7, Zenon

(* Three octets come back from their sextets. *)
BackAgain(a, b, c) ==
  /\ ((a \div 4) * 4 + (((a % 4) * 16 + (b \div 16)) % 64) \div 16) % 256 = a
  /\ ((((a % 4) * 16 + (b \div 16)) % 16) * 16
        + (((b % 16) * 4 + (c \div 64)) % 64) \div 4) % 256 = b
  /\ ((((b % 16) * 4 + (c \div 64)) % 4) * 64 + (c % 64)) % 256 = c
  /\ a \div 4 \in 0 .. 63 /\ (a % 4) * 16 + (b \div 16) \in 0 .. 63
  /\ (b % 16) * 4 + (c \div 64) \in 0 .. 63 /\ c % 64 \in 0 .. 63

LEMMA OctetsBack ==
  ASSUME NEW a \in 0 .. 255, NEW b \in 0 .. 255, NEW c \in 0 .. 255
  PROVE  BackAgain(a, b, c)
<1>1. PICK a1 \in 0 .. 63, a0 \in 0 .. 3 : a1 = a \div 4 /\ a0 = a % 4 /\ a = 4 * a1 + a0
  OBVIOUS
<1>2. PICK b1 \in 0 .. 15, b0 \in 0 .. 15 : b1 = b \div 16 /\ b0 = b % 16 /\ b = 16 * b1 + b0
  OBVIOUS
<1>3. PICK c1 \in 0 .. 3, c0 \in 0 .. 63 : c1 = c \div 64 /\ c0 = c % 64 /\ c = 64 * c1 + c0
  OBVIOUS
<1>4. /\ a0 * 16 + b1 \in 0 .. 63 /\ (a0 * 16 + b1) % 64 = a0 * 16 + b1
      /\ (a0 * 16 + b1) \div 16 = a0 /\ (a0 * 16 + b1) % 16 = b1
  OBVIOUS
<1>5. /\ b0 * 4 + c1 \in 0 .. 63 /\ (b0 * 4 + c1) % 64 = b0 * 4 + c1
      /\ (b0 * 4 + c1) \div 4 = b0 /\ (b0 * 4 + c1) % 4 = c1
  OBVIOUS
<1>6. /\ (a1 * 4 + a0) % 256 = a /\ (b1 * 16 + b0) % 256 = b /\ (c1 * 64 + c0) % 256 = c
  BY <1>1, <1>2, <1>3
<1> QED
  BY <1>1, <1>2, <1>3, <1>4, <1>5, <1>6 DEF BackAgain

(* base64_decode by parts: the characters it reads, and what it makes of   *)
(* them.                                                                   *)
ReadUpTo(text, m) ==
  /\ \A i \in 1 .. m : is_base64(text[i])
  /\ m < Len(text) => ~is_base64(text[m + 1])
Decoding(text, n) ==
  LET sextet(i) == IF i <= n THEN find(text[i]) ELSE find(0)
      tail == IF n % 4 = 0 THEN 0 ELSE (n % 4) - 1
  IN [i \in 1 .. 3 * (n \div 4) + tail |->
        LET g == (i - 1) \div 3  k == ((i - 1) % 3) + 1 IN
        Octets(sextet(4 * g + 1), sextet(4 * g + 2), sextet(4 * g + 3), sextet(4 * g + 4))[k]]

LEMMA DecodeParts ==
  ASSUME NEW text
  PROVE  base64_decode(text) = Decoding(text, CHOOSE m \in 0 .. Len(text) : ReadUpTo(text, m))
BY Zenon DEF base64_decode, Decoding, ReadUpTo

LEMMA ReadOnce ==
  ASSUME NEW text, Len(text) \in Nat, NEW m \in 0 .. Len(text), ReadUpTo(text, m)
  PROVE  (CHOOSE l \in 0 .. Len(text) : ReadUpTo(text, l)) = m
<1>1. ASSUME NEW k \in 0 .. Len(text), NEW l \in 0 .. Len(text), ReadUpTo(text, k), ReadUpTo(text, l),
             k < l
      PROVE  FALSE
  <2>1. k + 1 \in 1 .. l /\ k < Len(text)
    BY <1>1
  <2> QED
    BY <1>1, <2>1 DEF ReadUpTo
<1>2. ASSUME NEW l \in 0 .. Len(text), ReadUpTo(text, l) PROVE l = m
  <2>1. l < m \/ l = m \/ m < l
    OBVIOUS
  <2> QED
    BY <1>1, <1>2, <2>1
<1>3. \A l \in 0 .. Len(text) : ReadUpTo(text, l) => l = m
  BY <1>2
<1> HIDE DEF ReadUpTo
<1> QED
  BY <1>3, Zenon

(* The sextets that the text holds. *)
LEMMA SextetsHeld ==
  ASSUME NEW bytes \in Seq(Bytes), NEW text,
         \A i \in 1 .. Digits(Len(bytes)) : text[i] = base64_chars[SixBits(bytes, i - 1)],
         NEW g \in Nat, NEW k \in 1 .. 4, 4 * g + k <= Digits(Len(bytes)), Digits(Len(bytes)) \in Nat
  PROVE  /\ SextetAt(bytes, g, k) \in 0 .. 63
         /\ is_base64(text[4 * g + k]) /\ find(text[4 * g + k]) = SextetAt(bytes, g, k)
<1>1. 4 * g + k \in 1 .. Digits(Len(bytes))
  OBVIOUS
<1>2. text[4 * g + k] = base64_chars[SextetAt(bytes, g, k)]
  <2>1. text[4 * g + k] = base64_chars[SixBits(bytes, 4 * g + k - 1)]
    <3>1. PICK i \in 1 .. Digits(Len(bytes)) : i = 4 * g + k
      BY <1>1
    <3>2. text[i] = base64_chars[SixBits(bytes, i - 1)]
      OBVIOUS
    <3> QED
      BY <3>1, <3>2
  <2>2. SixBits(bytes, 4 * g + k - 1) = SextetAt(bytes, g, k)
    BY SixBitsAre
  <2> QED
    BY <2>1, <2>2, Zenon
<1>3. SextetAt(bytes, g, k) \in 0 .. 63
  <2>1. PICK a, b, c \in 0 .. 255 :
          /\ a = OctetAt(bytes, 3 * g + 1) /\ b = OctetAt(bytes, 3 * g + 2)
          /\ c = OctetAt(bytes, 3 * g + 3)
    <3>1. 3 * g + 1 \in Nat \ {0} /\ 3 * g + 2 \in Nat \ {0} /\ 3 * g + 3 \in Nat \ {0}
      OBVIOUS
    <3>2. /\ OctetAt(bytes, 3 * g + 1) \in 0 .. 255 /\ OctetAt(bytes, 3 * g + 2) \in 0 .. 255
          /\ OctetAt(bytes, 3 * g + 3) \in 0 .. 255
      BY <3>1, OctetType
    <3> QED
      BY <3>2
  <2>2. SextetAt(bytes, g, k)
          = <<a \div 4, (a % 4) * 16 + (b \div 16), (b % 16) * 4 + (c \div 64), c % 64>>[k]
    BY <2>1 DEF SextetAt, Sextets
  <2>3. PICK p, q, r, s \in 0 .. 63 :
          /\ p = a \div 4 /\ q = (a % 4) * 16 + (b \div 16)
          /\ r = (b % 16) * 4 + (c \div 64) /\ s = c % 64
    <3>1. /\ a \div 4 \in 0 .. 63 /\ (a % 4) * 16 + (b \div 16) \in 0 .. 63
          /\ (b % 16) * 4 + (c \div 64) \in 0 .. 63 /\ c % 64 \in 0 .. 63
      <4>1. BackAgain(a, b, c)
        BY OctetsBack
      <4> QED
        BY <4>1, Zenon DEF BackAgain
    <3> QED
      BY <3>1, Zenon
  <2>4. SextetAt(bytes, g, k) = <<p, q, r, s>>[k]
    BY <2>2, <2>3, Zenon
  <2>5. k = 1 \/ k = 2 \/ k = 3 \/ k = 4
    OBVIOUS
  <2>6. CASE k = 1
    <3>1. SextetAt(bytes, g, k) = p
      BY <2>4, <2>6
    <3> QED
      BY <3>1
  <2>7. CASE k = 2
    <3>1. SextetAt(bytes, g, k) = q
      BY <2>4, <2>7
    <3> QED
      BY <3>1
  <2>8. CASE k = 3
    <3>1. SextetAt(bytes, g, k) = r
      BY <2>4, <2>8
    <3> QED
      BY <3>1
  <2>9. CASE k = 4
    <3>1. SextetAt(bytes, g, k) = s
      BY <2>4, <2>9
    <3> QED
      BY <3>1
  <2> QED
    BY <2>5, <2>6, <2>7, <2>8, <2>9
<1> QED
  BY <1>2, <1>3, FindIs

(* What the base64 form of octets is, place by place. *)
LEMMA EncodedPlaces ==
  ASSUME NEW bytes \in Seq(Bytes)
  PROVE  \E h \in Nat :
           /\ h = (Digits(Len(bytes)) + 3) \div 4 /\ Encoded(bytes) \in Seq(Bytes)
           /\ Len(Encoded(bytes)) = 4 * h /\ Digits(Len(bytes)) \in 0 .. 4 * h
           /\ \A i \in 1 .. Digits(Len(bytes)) :
                Encoded(bytes)[i] = base64_chars[SixBits(bytes, i - 1)]
           /\ \A i \in 1 .. 4 * h : i > Digits(Len(bytes)) => Encoded(bytes)[i] = Pad
<1>1. PICK n \in Nat : n = Len(bytes)
  OBVIOUS
<1>2. PICK q \in Nat, r \in 0 .. 2 : n = 3 * q + r
  <2>1. n \div 3 \in Nat /\ n % 3 \in 0 .. 2 /\ n = 3 * (n \div 3) + (n % 3)
    OBVIOUS
  <2> QED
    BY <2>1
<1>3. PICK D \in Nat : D = 4 * q + (IF r = 0 THEN 0 ELSE r + 1)
  OBVIOUS
<1>4. PICK h \in Nat : h = q + (IF r = 0 THEN 0 ELSE 1)
  OBVIOUS
<1>5. Digits(n) = D /\ (D + 3) \div 4 = h
  <2>1. GroupsOf(n, q, r)
    BY <1>2, DigitsAre
  <2> QED
    BY <1>3, <1>4, <2>1 DEF GroupsOf
<1>6. D \in 0 .. 4 * h
  BY <1>3, <1>4
<1> DEFINE F(i) == IF i <= D THEN base64_chars[SixBits(bytes, i - 1)] ELSE Pad
<1>7. Encoded(bytes) = [i \in 1 .. 4 * h |-> F(i)]
  <2>1. Encoded(bytes) = [i \in 1 .. 4 * ((Digits(n) + 3) \div 4) |->
                             IF i <= Digits(n) THEN base64_chars[SixBits(bytes, i - 1)] ELSE Pad]
    BY <1>1, Zenon DEF Encoded, Digits
  <2> QED
    BY <1>5, <2>1
<1>8. ASSUME NEW i \in 1 .. 4 * h PROVE F(i) \in Bytes
  <2>1. CASE i <= D
    <3>1. PICK g \in Nat, k \in 1 .. 4 : i = 4 * g + k
      <4>1. i \in Nat \ {0}
        OBVIOUS
      <4> QED
        BY <4>1, InGroup
    <3>2. SixBits(bytes, i - 1) = SextetAt(bytes, g, k)
      <4>1. 4 * g + k - 1 = i - 1
        BY <3>1
      <4> QED
        BY <4>1, SixBitsAre
    <3>3. SextetAt(bytes, g, k) \in 0 .. 63
      <4> DEFINE t == [j \in 1 .. Digits(Len(bytes)) |-> base64_chars[SixBits(bytes, j - 1)]]
      <4>1. \A j \in 1 .. Digits(Len(bytes)) : t[j] = base64_chars[SixBits(bytes, j - 1)]
        OBVIOUS
      <4>2. 4 * g + k <= Digits(Len(bytes)) /\ Digits(Len(bytes)) \in Nat
        BY <1>1, <1>5, <2>1, <3>1
      <4> HIDE DEF t
      <4> QED
        BY <4>1, <4>2, SextetsHeld
    <3> QED
      BY <2>1, <3>2, <3>3, FindIs
  <2>2. CASE ~(i <= D)
    BY <2>2 DEF Pad, Bytes
  <2> QED
    BY <2>1, <2>2
<1>9. \A i \in 1 .. D : i \in 1 .. 4 * h /\ i <= D
  BY <1>6
<1>10. \A i \in 1 .. 4 * h : i > D => ~(i <= D)
  BY <1>6
<1>11. Encoded(bytes) \in Seq(Bytes) /\ Len(Encoded(bytes)) = 4 * h
  <2> HIDE DEF F
  <2>1. Encoded(bytes) \in [1 .. 4 * h -> Bytes] /\ 4 * h \in Nat
    BY <1>7, <1>8
  <2> QED
    BY <2>1, FunctionIsSeq
<1>12. /\ \A i \in 1 .. D : Encoded(bytes)[i] = base64_chars[SixBits(bytes, i - 1)]
       /\ \A i \in 1 .. 4 * h : i > D => Encoded(bytes)[i] = Pad
  BY <1>7, <1>9, <1>10, Zenon
<1>13. /\ h = (Digits(Len(bytes)) + 3) \div 4 /\ D = Digits(Len(bytes))
  BY <1>1, <1>5
<1> QED
  BY <1>6, <1>11, <1>12, <1>13, Zenon

(* The base64 form of octets, with or without a line end behind, decodes   *)
(* to them.                                                                *)
LEMMA DecodedIs ==
  ASSUME NEW bytes \in Seq(Bytes), NEW tail \in {<<>>, <<13, 10>>}
  PROVE  base64_decode(Encoded(bytes) \o tail) = bytes
<1>1. PICK n \in Nat : n = Len(bytes)
  OBVIOUS
<1>2. PICK q \in Nat, r \in 0 .. 2 : n = 3 * q + r
  <2>1. n \div 3 \in Nat /\ n % 3 \in 0 .. 2 /\ n = 3 * (n \div 3) + (n % 3)
    OBVIOUS
  <2> QED
    BY <2>1
<1>3. PICK D \in Nat : D = 4 * q + (IF r = 0 THEN 0 ELSE r + 1)
  OBVIOUS
<1>4. Digits(n) = D /\ D \div 4 = q /\ D % 4 = IF r = 0 THEN 0 ELSE r + 1
  <2>1. GroupsOf(n, q, r)
    BY <1>2, DigitsAre
  <2> QED
    BY <1>3, <2>1 DEF GroupsOf
<1>5. PICK h \in Nat :
        /\ Encoded(bytes) \in Seq(Bytes) /\ Len(Encoded(bytes)) = 4 * h /\ D \in 0 .. 4 * h
        /\ \A i \in 1 .. D : Encoded(bytes)[i] = base64_chars[SixBits(bytes, i - 1)]
        /\ \A i \in 1 .. 4 * h : i > D => Encoded(bytes)[i] = Pad
  BY <1>1, <1>4, EncodedPlaces
<1>6. PICK text : text = Encoded(bytes) \o tail
  OBVIOUS
<1>7. /\ Len(text) \in Nat /\ Len(text) >= 4 * h
      /\ Len(text) > 4 * h => text[4 * h + 1] = 13
      /\ \A i \in 1 .. 4 * h : text[i] = Encoded(bytes)[i]
  <2>1. PICK e \in Seq(Bytes) : e = Encoded(bytes)
    BY <1>5
  <2>2. Len(e) = 4 * h /\ text = e \o tail
    BY <1>5, <1>6, <2>1
  <2>3. CASE tail = <<>>
    BY <2>1, <2>2, <2>3
  <2>4. CASE tail = <<13, 10>>
    BY <2>1, <2>2, <2>4
  <2> QED
    BY <2>3, <2>4
<1>8. \A i \in 1 .. D : text[i] = base64_chars[SixBits(bytes, i - 1)]
  <2>1. \A i \in 1 .. D : i \in 1 .. 4 * h
    BY <1>5
  <2> QED
    BY <1>5, <1>7, <2>1, Zenon
<1>9. ASSUME NEW g \in Nat, NEW k \in 1 .. 4, 4 * g + k <= D
      PROVE  /\ is_base64(text[4 * g + k])
             /\ find(text[4 * g + k]) = SextetAt(bytes, g, k)
  <2>1. Digits(Len(bytes)) = D
    BY <1>1, <1>4
  <2> QED
    BY <1>8, <1>9, <2>1, SextetsHeld
<1>10. ReadUpTo(text, D)
  <2>1. ASSUME NEW i \in 1 .. D PROVE is_base64(text[i])
    <3>1. PICK g \in Nat, k \in 1 .. 4 : i = 4 * g + k
      <4>1. i \in Nat \ {0}
        OBVIOUS
      <4> QED
        BY <4>1, InGroup
    <3>2. 4 * g + k <= D
      BY <3>1
    <3>3. is_base64(text[4 * g + k])
      BY <1>9, <3>2
    <3> QED
      BY <3>1, <3>3
  <2>2. D < Len(text) => ~is_base64(text[D + 1])
    <3>1. CASE D < 4 * h
      <4>1. D + 1 \in 1 .. 4 * h /\ D + 1 > D
        BY <1>5, <3>1
      <4> QED
        BY <1>5, <1>7, <4>1, NotBase64
    <3>2. CASE D = 4 * h
      BY <1>7, <3>2, NotBase64
    <3> QED
      BY <1>5, <3>1, <3>2
  <2> QED
    BY <2>1, <2>2 DEF ReadUpTo
<1>11. base64_decode(text) = Decoding(text, D)
  <2>1. Len(text) \in Nat /\ D \in 0 .. Len(text)
    BY <1>5, <1>7
  <2>2. (CHOOSE l \in 0 .. Len(text) : ReadUpTo(text, l)) = D
    BY <1>10, <2>1, ReadOnce
  <2> QED
    BY <2>2, DecodeParts
<1> DEFINE sextet(i) == IF i <= D THEN find(text[i]) ELSE find(0)
           G(i) == (i - 1) \div 3
           K(i) == ((i - 1) % 3) + 1
           O(i) == Octets(sextet(4 * G(i) + 1), sextet(4 * G(i) + 2), sextet(4 * G(i) + 3),
                          sextet(4 * G(i) + 4))[K(i)]
<1>12. Decoding(text, D) = [i \in 1 .. n |-> O(i)]
  <2>1. Decoding(text, D) = [i \in 1 .. 3 * (D \div 4) + (IF D % 4 = 0 THEN 0 ELSE (D % 4) - 1) |-> O(i)]
    BY Zenon DEF Decoding
  <2>2. 3 * (D \div 4) + (IF D % 4 = 0 THEN 0 ELSE (D % 4) - 1) = n
    BY <1>2, <1>4
  <2> QED
    BY <2>1, <2>2, Zenon
<1>13. ASSUME NEW i \in 1 .. n PROVE O(i) = bytes[i]
  <2>1. PICK g \in Nat, k \in 1 .. 3 : g = G(i) /\ k = K(i) /\ i = 3 * g + k
    <3>1. i \in Nat \ {0}
      OBVIOUS
    <3>2. /\ (i - 1) \div 3 \in Nat /\ ((i - 1) % 3) + 1 \in 1 .. 3
          /\ i = 3 * ((i - 1) \div 3) + (((i - 1) % 3) + 1)
      BY <3>1, InGroup
    <3> QED
      BY <3>2, Zenon
  <2>2. PICK a, b, c \in 0 .. 255 :
          /\ a = OctetAt(bytes, 3 * g + 1) /\ b = OctetAt(bytes, 3 * g + 2)
          /\ c = OctetAt(bytes, 3 * g + 3)
    <3>1. 3 * g + 1 \in Nat \ {0} /\ 3 * g + 2 \in Nat \ {0} /\ 3 * g + 3 \in Nat \ {0}
      OBVIOUS
    <3>2. /\ OctetAt(bytes, 3 * g + 1) \in 0 .. 255 /\ OctetAt(bytes, 3 * g + 2) \in 0 .. 255
          /\ OctetAt(bytes, 3 * g + 3) \in 0 .. 255
      BY <3>1, OctetType
    <3> QED
      BY <3>2
  <2>3. BackAgain(a, b, c)
    BY OctetsBack
  <2>4. ASSUME NEW j \in 1 .. 4, 4 * g + j <= D
        PROVE  sextet(4 * g + j)
                 = <<a \div 4, (a % 4) * 16 + (b \div 16), (b % 16) * 4 + (c \div 64), c % 64>>[j]
    <3>1. sextet(4 * g + j) = SextetAt(bytes, g, j)
      BY <1>9, <2>4
    <3>2. SextetAt(bytes, g, j)
            = <<a \div 4, (a % 4) * 16 + (b \div 16), (b % 16) * 4 + (c \div 64), c % 64>>[j]
      BY <2>2 DEF SextetAt, Sextets
    <3> QED
      BY <3>1, <3>2
  <2>5. 4 * g + (k + 1) <= D
    <3>1. g <= q /\ (g = q => k <= r)
      BY <1>2, <2>1
    <3>2. CASE g < q
      BY <1>3, <2>1, <3>2
    <3>3. CASE g = q
      BY <1>3, <2>1, <3>1, <3>3
    <3> QED
      BY <3>1, <3>2, <3>3
  <2>6. bytes[i] = OctetAt(bytes, 3 * g + k)
    BY <1>1, <2>1 DEF OctetAt
  <2>7. O(i) = Octets(sextet(4 * g + 1), sextet(4 * g + 2), sextet(4 * g + 3), sextet(4 * g + 4))[k]
    BY <2>1, Zenon
  <2> HIDE DEF O, sextet
  <2>8. CASE k = 1
    <3>1. sextet(4 * g + 1) = a \div 4 /\ sextet(4 * g + 2) = (a % 4) * 16 + (b \div 16)
      BY <2>4, <2>5, <2>8
    <3>2. O(i) = (sextet(4 * g + 1) * 4 + (sextet(4 * g + 2) % 64) \div 16) % 256
      BY <2>7, <2>8 DEF Octets
    <3>3. O(i) = a
      BY <2>3, <3>1, <3>2, Zenon DEF BackAgain
    <3> QED
      BY <2>2, <2>6, <2>8, <3>3
  <2>9. CASE k = 2
    <3>1. /\ sextet(4 * g + 2) = (a % 4) * 16 + (b \div 16)
          /\ sextet(4 * g + 3) = (b % 16) * 4 + (c \div 64)
      BY <2>4, <2>5, <2>9
    <3>2. O(i) = ((sextet(4 * g + 2) % 16) * 16 + (sextet(4 * g + 3) % 64) \div 4) % 256
      BY <2>7, <2>9 DEF Octets
    <3>3. O(i) = b
      BY <2>3, <3>1, <3>2, Zenon DEF BackAgain
    <3> QED
      BY <2>2, <2>6, <2>9, <3>3
  <2>10. CASE k = 3
    <3>1. sextet(4 * g + 3) = (b % 16) * 4 + (c \div 64) /\ sextet(4 * g + 4) = c % 64
      BY <2>4, <2>5, <2>10
    <3>2. O(i) = ((sextet(4 * g + 3) % 4) * 64 + sextet(4 * g + 4)) % 256
      BY <2>7, <2>10 DEF Octets
    <3>3. O(i) = c
      BY <2>3, <3>1, <3>2, Zenon DEF BackAgain
    <3> QED
      BY <2>2, <2>6, <2>10, <3>3
  <2> QED
    BY <2>1, <2>8, <2>9, <2>10
<1>14. Decoding(text, D) = bytes
  <2> HIDE DEF O
  <2>1. bytes = [i \in 1 .. n |-> bytes[i]]
    BY <1>1
  <2>2. \A i \in 1 .. n : O(i) = bytes[i]
    BY <1>13
  <2>3. [i \in 1 .. n |-> O(i)] = [i \in 1 .. n |-> bytes[i]]
    BY <2>2, Zenon
  <2> QED
    BY <1>12, <2>1, <2>3
<1> QED
  BY <1>6, <1>11, <1>14
===============================================================================
