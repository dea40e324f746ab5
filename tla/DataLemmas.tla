----------------------------- MODULE DataLemmas -----------------------------
(***************************************************************************)
(* Facts about remainders, about sets of numbers, about functions that are *)
(* defined recursively and about the sequences they are defined on.        *)
(***************************************************************************)
EXTENDS Integers, SequencesExt, SequenceTheorems, FiniteSetTheorems,
        WellFoundedInduction, TLAPS

(* Remainders.                                                             *)
LEMMA Division ==
  ASSUME NEW M \in Nat, M > 0, NEW a \in Int
  PROVE  /\ a % M \in 0 .. M - 1
         /\ a \div M \in Int
         /\ a = M * (a \div M) + (a % M)
OBVIOUS

LEMMA Multiple ==
  ASSUME NEW M \in Nat, M > 0, NEW k \in Int, k >= 1
  PROVE  M * k >= M
OBVIOUS

(* A number has one remainder.                                             *)
LEMMA OneRemainder ==
  ASSUME NEW M \in Nat, M > 0, NEW p \in Int, NEW q \in Int,
         NEW r \in 0 .. M - 1, NEW s \in 0 .. M - 1,
         M * p + r = M * q + s
  PROVE  r = s
<1>1. M * (p - q) = s - r
  OBVIOUS
<1>2. ~ (p - q >= 1)
  BY <1>1, Multiple
<1>3. M * (q - p) = r - s
  OBVIOUS
<1>4. ~ (q - p >= 1)
  BY <1>3, Multiple
<1>5. p = q
  BY <1>2, <1>4
<1>. QED BY <1>5

LEMMA Remainder ==
  ASSUME NEW M \in Nat, M > 0, NEW q \in Int, NEW r \in 0 .. M - 1
  PROVE  (M * q + r) % M = r
<1>. DEFINE a == M * q + r
<1>1. a \in Int
  OBVIOUS
<1>2. /\ a % M \in 0 .. M - 1
      /\ a \div M \in Int
      /\ a = M * (a \div M) + (a % M)
  BY <1>1, Division
<1>3. M * (a \div M) + (a % M) = M * q + r
  BY <1>2
<1>. HIDE DEF a
<1>4. a % M = r
  BY <1>2, <1>3, OneRemainder
<1>. QED BY <1>4 DEF a

LEMMA SmallRemainder ==
  ASSUME NEW M \in Nat, M > 0, NEW r \in 0 .. M - 1
  PROVE  r % M = r
<1>1. M * 0 + r = r
  OBVIOUS
<1>. QED BY <1>1, Remainder

(* Dividing twice is dividing by the product.                              *)
LEMMA DivideTwice ==
  ASSUME NEW a \in Nat, NEW b \in Nat, a > 0, b > 0, NEW n \in Nat
  PROVE  /\ a * b \in Nat /\ a * b > 0
         /\ n \div a \in Nat
         /\ n \div (a * b) = (n \div a) \div b
<1>. DEFINE q == n \div a   r == n % a
            p == q \div b   s == q % b
            M == a * b       t == a * s + r
<1>1. q \in Int /\ r \in 0 .. a - 1 /\ n = a * q + r
  BY Division
<1>2. p \in Int /\ s \in 0 .. b - 1 /\ q = b * p + s
  <2>. HIDE DEF q
  <2>. QED BY <1>1, Division
<1>3. M \in Nat /\ M > 0
  OBVIOUS
<1>. HIDE DEF q, r, p, s
<1>4. q \in Nat
  <2>1. ~ (-q >= 1)
    <3>1. -q >= 1 => a * (-q) >= a
      BY <1>1, Multiple
    <3>2. a * (-q) = r - n
      BY <1>1
    <3>. QED BY <1>1, <3>1, <3>2
  <2>. QED BY <1>1, <2>1
<1>5. n = M * p + t
  <2>1. a * (b * p + s) = (a * b) * p + a * s
    BY <1>2
  <2>. QED BY <1>1, <1>2, <2>1
<1>6. t \in 0 .. M - 1
  <2>1. a * s >= 0 /\ a * s \in Int
    BY <1>2
  <2>2. a * (b - s) >= a /\ a * (b - s) = a * b - a * s
    <3>1. b - s \in Int /\ b - s >= 1
      BY <1>2
    <3>. QED BY <1>2, <3>1, Multiple
  <2>. QED BY <1>1, <1>2, <2>1, <2>2
<1>7. n \div M = p
  <2>. DEFINE u == n \div M   v == n % M
  <2>. HIDE DEF t, M
  <2>1. u \in Int /\ v \in 0 .. M - 1 /\ n = M * u + v
    BY <1>3, Division
  <2>. HIDE DEF u, v
  <2>2. v = t
    BY <1>2, <1>3, <1>5, <1>6, <2>1, OneRemainder
  <2>3. M * (u - p) = 0 /\ M * (p - u) = 0
    BY <1>2, <1>3, <1>5, <1>6, <2>1, <2>2
  <2>4. ~ (u - p >= 1) /\ ~ (p - u >= 1)
    BY <1>2, <1>3, <2>1, <2>3, Multiple
  <2>5. u = p
    BY <1>2, <2>1, <2>4
  <2>. QED BY <2>5 DEF u
<1>. QED BY <1>3, <1>4, <1>7 DEF q, p

(* Numbers that differ by a multiple have the same remainder.              *)
LEMMA SameRemainder ==
  ASSUME NEW M \in Nat, M > 0, NEW a \in Int, NEW q \in Int
  PROVE  (M * q + a) % M = a % M
<1>1. /\ a % M \in 0 .. M - 1
      /\ a \div M \in Int
      /\ a = M * (a \div M) + (a % M)
  BY Division
<1>2. M * q + a = M * (q + (a \div M)) + (a % M)
  BY <1>1
<1>3. q + (a \div M) \in Int
  BY <1>1
<1>. QED BY <1>1, <1>2, <1>3, Remainder

LEMMA AddDivisor ==
  ASSUME NEW M \in Nat, M > 0, NEW a \in Int
  PROVE  (a + M) % M = a % M /\ (a - M) % M = a % M
<1>1. \A q \in Int : (M * q + a) % M = a % M
  BY SameRemainder
<1>2. PICK q \in Int, r \in Int : q = 1 /\ r = -1
  OBVIOUS
<1>3. a + M = M * q + a /\ a - M = M * r + a
  BY <1>2
<1>4. (M * q + a) % M = a % M /\ (M * r + a) % M = a % M
  BY <1>1
<1>. QED BY <1>3, <1>4, Zenon

LEMMA MultipleRemainder ==
  ASSUME NEW M \in Nat, M > 0, NEW q \in Int
  PROVE  (M * q) % M = 0
<1>1. \A r \in 0 .. M - 1 : (M * q + r) % M = r
  BY Remainder
<1>2. PICK r \in 0 .. M - 1 : r = 0
  OBVIOUS
<1>3. M * q = M * q + r
  BY <1>2
<1>. QED BY <1>1, <1>2, <1>3

(* The remainder of a difference can be taken of remainders.               *)
LEMMA Differences ==
  ASSUME NEW M \in Nat, M > 0, NEW a \in Int, NEW b \in Int
  PROVE  ((a % M) - (b % M)) % M = (a - b) % M
<1>1. /\ a % M \in 0 .. M - 1 /\ a \div M \in Int /\ a = M * (a \div M) + (a % M)
      /\ b % M \in 0 .. M - 1 /\ b \div M \in Int /\ b = M * (b \div M) + (b % M)
  BY Division
<1>2. a - b = M * ((a \div M) - (b \div M)) + ((a % M) - (b % M))
  BY <1>1
<1>3. (a \div M) - (b \div M) \in Int /\ (a % M) - (b % M) \in Int
  BY <1>1
<1>. QED BY <1>2, <1>3, SameRemainder

(* A set of numbers has a least element.                                   *)
LEMMA Least ==
  ASSUME NEW S, S \subseteq Nat, S # {}
  PROVE  \E x \in S : \A y \in S : x <= y
<1>. DEFINE R == {ss \in Nat \X Nat : ss[1] < ss[2]}
<1>1. IsWellFoundedOn(R, Nat)
  BY NatLessThanWellFounded DEF OpToRel
<1>2. PICK x \in S : \A y \in S : ~ (<<y, x>> \in R)
  <2>. HIDE DEF R
  <2>. QED BY <1>1, WFMin
<1>3. \A y \in S : ~ (y < x)
  BY <1>2
<1>. QED BY <1>3

(* A set of numbers that has a bound has a greatest element.               *)
LEMMA Greatest ==
  ASSUME NEW n \in Nat, NEW S, S \subseteq 0 .. n, S # {}
  PROVE  \E x \in S : \A y \in S : y <= x
<1>. DEFINE T == {k \in Nat : n - k \in S}
<1>1. \A y \in S : n - y \in T
  OBVIOUS
<1>2. T \subseteq Nat /\ T # {}
  BY <1>1
<1>3. PICK t \in T : \A u \in T : t <= u
  <2>. HIDE DEF T
  <2>. QED BY <1>2, Least
<1>4. PICK x \in S : t = n - x
  OBVIOUS
<1>5. \A y \in S : n - x <= n - y
  <2>. HIDE DEF T
  <2>. QED BY <1>1, <1>3, <1>4
<1>. QED BY <1>5

(* What holds of 0, and of each number's successor, holds of all.          *)
LEMMA Induction ==
  ASSUME NEW S, 0 \in S, \A n \in Nat : n \in S => n + 1 \in S
  PROVE  \A n \in Nat : n \in S
<1>. SUFFICES ASSUME Nat \ S # {} PROVE FALSE
  OBVIOUS
<1>1. PICK x \in Nat \ S : \A y \in Nat \ S : x <= y
  BY Least
<1>2. x - 1 \in Nat /\ x - 1 \in S
  BY <1>1
<1>. QED BY <1>1, <1>2

(* What holds of an element when it holds of all with a smaller measure    *)
(* holds of all.                                                           *)
LEMMA Descent ==
  ASSUME NEW D, NEW m \in [D -> Nat], NEW P,
         \A s \in D : (\A r \in D : m[r] < m[s] => r \in P) => s \in P
  PROVE  \A s \in D : s \in P
<1>. DEFINE S == {m[s] : s \in D \ P}
<1>. SUFFICES ASSUME D \ P # {} PROVE FALSE
  OBVIOUS
<1>1. S \subseteq Nat /\ S # {}
  OBVIOUS
<1>2. PICK x \in S : \A y \in S : x <= y
  <2>. HIDE DEF S
  <2>. QED BY <1>1, Least
<1>3. PICK s \in D \ P : x = m[s]
  OBVIOUS
<1>4. PICK r \in D : m[r] < m[s] /\ r \notin P
  OBVIOUS
<1>5. m[r] \in S /\ m[r] \in Nat /\ m[s] \in Nat
  BY <1>4
<1>. HIDE DEF S
<1>. QED BY <1>2, <1>3, <1>4, <1>5
-----------------------------------------------------------------------------
(* A function may be defined by recursion: at some elements directly, at   *)
(* the others from its value at an element with a smaller measure m.       *)
Descends(D, V, Stop, base, step, nxt, m) ==
  /\ base \in [D -> V] /\ step \in [D -> [V -> V]]
  /\ nxt \in [D -> D] /\ m \in [D -> Nat]
  /\ \A s \in D \ Stop : m[nxt[s]] < m[s]
Solves(f, D, V, Stop, base, step, nxt) ==
  /\ f \in [D -> V]
  /\ \A s \in D : f[s] = IF s \in Stop THEN base[s] ELSE step[s][f[nxt[s]]]

LEMMA Recursion ==
  ASSUME NEW D, NEW V, NEW Stop, NEW base, NEW step, NEW nxt, NEW m,
         Descends(D, V, Stop, base, step, nxt, m)
  PROVE  \E f : Solves(f, D, V, Stop, base, step, nxt)
<1>. USE DEF Descends
<1>. DEFINE Below(n) == {s \in D : m[s] < n}
            Value(g, s) == IF s \in Stop THEN base[s] ELSE step[s][g[nxt[s]]]
            Partial(g, n) == /\ g \in [Below(n) -> V]
                            /\ \A s \in Below(n) : g[s] = Value(g, s)
<1>1. \A n \in Nat : \E g : Partial(g, n)
  <2>. DEFINE S == {n \in Nat : \E g : Partial(g, n)}
  <2>1. 0 \in S
    <3>1. Below(0) = {}
      OBVIOUS
    <3>2. Partial([s \in {} |-> base[s]], 0)
      BY <3>1
    <3>. QED BY <3>2
  <2>2. ASSUME NEW n \in Nat, n \in S PROVE n + 1 \in S
    <3>1. PICK g : Partial(g, n)
      BY <2>2
    <3>. DEFINE h == [s \in Below(n + 1) |-> Value(g, s)]
    <3>2. \A s \in Below(n) : s \in Below(n + 1) /\ h[s] = g[s]
      BY <3>1
    <3>3. \A s \in Below(n + 1) \ Stop : nxt[s] \in Below(n)
      OBVIOUS
    <3>4. h \in [Below(n + 1) -> V]
      BY <3>1, <3>3
    <3>5. \A s \in Below(n + 1) : h[s] = Value(h, s)
      BY <3>2, <3>3
    <3>6. Partial(h, n + 1)
      BY <3>4, <3>5
    <3>. HIDE DEF Partial, h
    <3>. QED BY <3>6
  <2>. HIDE DEF S
  <2>3. \A n \in Nat : n \in S
    BY <2>1, <2>2, Induction
  <2>. QED BY <2>3 DEF S
<1>2. ASSUME NEW a \in Nat, NEW b \in Nat, NEW g, NEW h, Partial(g, a), Partial(h, b)
      PROVE  \A s \in D : s \in Below(a) /\ s \in Below(b) => g[s] = h[s]
  <2>. DEFINE Differ == {s \in D : s \in Below(a) /\ s \in Below(b) /\ g[s] # h[s]}
              S == {m[s] : s \in Differ}
  <2>. SUFFICES ASSUME Differ # {} PROVE FALSE
    OBVIOUS
  <2>1. S \subseteq Nat /\ S # {}
    OBVIOUS
  <2>2. PICK x \in S : \A y \in S : x <= y
    <3>. HIDE DEF S
    <3>. QED BY <2>1, Least
  <2>3. PICK s \in Differ : x = m[s]
    OBVIOUS
  <2>4. s \notin Stop
    BY <1>2
  <2>5. nxt[s] \in Below(a) /\ nxt[s] \in Below(b) /\ m[nxt[s]] < m[s]
    BY <2>4
  <2>6. nxt[s] \notin Differ
    <3>1. nxt[s] \in Differ => m[nxt[s]] \in S
      OBVIOUS
    <3>2. nxt[s] \in Differ => m[s] <= m[nxt[s]]
      <4>. HIDE DEF S
      <4>. QED BY <2>2, <2>3, <3>1
    <3>3. m[s] \in Nat /\ m[nxt[s]] \in Nat
      BY <2>5
    <3>. HIDE DEF Differ
    <3>. QED BY <2>5, <3>2, <3>3
  <2>. QED BY <1>2, <2>4, <2>5, <2>6
<1>. DEFINE Some(n) == CHOOSE g : Partial(g, n)
            f == [s \in D |-> Some(m[s] + 1)[s]]
<1>3. \A n \in Nat : Partial(Some(n), n)
  <2>. HIDE DEF Partial
  <2>. QED BY <1>1
<1>4. \A s \in D : m[s] + 1 \in Nat /\ s \in Below(m[s] + 1)
  OBVIOUS
<1>5. \A s \in D : f[s] = Some(m[s] + 1)[s]
  OBVIOUS
<1>. HIDE DEF f, Some
<1>6. ASSUME NEW s \in D PROVE f[s] \in V /\ f[s] = Value(f, s)
  <2>1. Partial(Some(m[s] + 1), m[s] + 1)
    BY <1>3, <1>4
  <2>2. CASE s \in Stop
    BY <1>4, <1>5, <2>1, <2>2
  <2>3. CASE s \notin Stop
    <3>1. nxt[s] \in D /\ nxt[s] \in Below(m[s] + 1)
      BY <2>3
    <3>2. Partial(Some(m[nxt[s]] + 1), m[nxt[s]] + 1)
      BY <1>3, <1>4, <3>1
    <3>3. Some(m[nxt[s]] + 1)[nxt[s]] = Some(m[s] + 1)[nxt[s]]
      <4>. HIDE DEF Below, Partial
      <4>. QED BY <1>2, <1>4, <2>1, <3>1, <3>2
    <3>. QED BY <1>4, <1>5, <2>1, <2>3, <3>1, <3>3
  <2>. QED BY <2>2, <2>3
<1>7. f \in [D -> V]
  <2>1. f = [s \in D |-> f[s]]
    BY DEF f
  <2>. QED BY <1>6, <2>1
<1>. QED BY <1>6, <1>7 DEF Solves
-----------------------------------------------------------------------------
(* FlattenSeq takes one sequence after the other.                          *)
LEMMA FlattenSteps ==
  ASSUME NEW S, NEW seqs \in Seq(Seq(S))
  PROVE  \E f \in [0 .. Len(seqs) -> Seq(S)] :
           /\ f[0] = <<>>
           /\ \A i \in 1 .. Len(seqs) : f[i] = f[i - 1] \o seqs[i]
           /\ FlattenSeq(seqs) = f[Len(seqs)]
<1>. DEFINE n == Len(seqs)
<1>0. n \in Nat /\ \A i \in 1 .. n : seqs[i] \in Seq(S)
  OBVIOUS
<1>1. CASE n = 0
  <2>. DEFINE f == [i \in 0 .. n |-> <<>>]
  <2>1. FlattenSeq(seqs) = f[n]
    BY <1>1 DEF FlattenSeq
  <2>2. f \in [0 .. n -> Seq(S)] /\ f[0] = <<>> /\ 1 .. n = {}
    BY <1>1
  <2>. HIDE DEF f
  <2>. QED BY <2>1, <2>2
<1>2. CASE n # 0
  <2>. DEFINE D == 1 .. n
              V == Seq(S)
              base == [i \in D |-> seqs[i]]
              step == [i \in D |-> [v \in V |-> v \o seqs[i]]]
              nxt == [i \in D |-> IF i = 1 THEN 1 ELSE i - 1]
              m == [i \in D |-> i]
              R(h) == h = [i \in D |-> IF i = 1 THEN seqs[i] ELSE h[i - 1] \o seqs[i]]
              c == CHOOSE h : R(h)
  <2>1. n \in Nat /\ n >= 1 /\ \A i \in D : seqs[i] \in Seq(S)
    BY <1>2
  <2>2. \E f : Solves(f, D, V, {1}, base, step, nxt)
    <3>1. Descends(D, V, {1}, base, step, nxt, m)
      BY <2>1 DEF Descends
    <3>. HIDE DEF D, V, base, step, nxt
    <3>. QED BY <3>1, Recursion
  <2>3. \E h : R(h)
    <3>1. PICK f \in [D -> V] :
            \A i \in D : f[i] = IF i \in {1} THEN base[i] ELSE step[i][f[nxt[i]]]
      <4>. HIDE DEF D, V, base, step, nxt
      <4>. QED BY <2>2 DEF Solves
    <3>2. ASSUME NEW i \in D
          PROVE  f[i] = IF i = 1 THEN seqs[i] ELSE f[i - 1] \o seqs[i]
      <4>1. i # 1 => nxt[i] = i - 1 /\ i - 1 \in D
        BY <2>1
      <4>2. i # 1 => step[i][f[i - 1]] = f[i - 1] \o seqs[i]
        BY <4>1
      <4>3. base[i] = seqs[i]
        OBVIOUS
      <4>. HIDE DEF base, step, nxt
      <4>. QED BY <3>1, <4>1, <4>2, <4>3
    <3>. QED BY <3>2
  <2>4. R(c)
    <3>. HIDE DEF R
    <3>. QED BY <2>3
  <2>5. FlattenSeq(seqs) = c[n]
    BY <1>2 DEF FlattenSeq
  <2>. HIDE DEF c
  <2>6. \A i \in D : c[i] = IF i = 1 THEN seqs[i] ELSE c[i - 1] \o seqs[i]
    BY <2>4
  <2>7. \A i \in D : c[i] \in Seq(S)
    <3>. DEFINE T == {i \in Nat : i \in D => c[i] \in Seq(S)}
    <3>1. 0 \in T
      OBVIOUS
    <3>2. ASSUME NEW i \in Nat, i \in T PROVE i + 1 \in T
      <4>. SUFFICES ASSUME i + 1 \in D PROVE c[i + 1] \in Seq(S)
        OBVIOUS
      <4>1. CASE i = 0
        BY <2>1, <2>6, <4>1
      <4>2. CASE i # 0
        <5>1. i \in D /\ (i + 1) - 1 = i /\ i + 1 # 1
          BY <2>1, <4>2
        <5>2. c[i + 1] = c[i] \o seqs[i + 1]
          <6>1. c[i + 1] = IF i + 1 = 1 THEN seqs[i + 1] ELSE c[(i + 1) - 1] \o seqs[i + 1]
            BY <2>6, <4>2
          <6>. QED BY <5>1, <6>1
        <5>3. c[i] \in Seq(S) /\ seqs[i + 1] \in Seq(S)
          BY <2>1, <3>2, <4>2, <5>1
        <5>4. c[i] \o seqs[i + 1] \in Seq(S)
          <6>. HIDE DEF n, D
          <6>. QED BY <5>3
        <5>. QED BY <5>2, <5>4
      <4>. QED BY <4>1, <4>2
    <3>. HIDE DEF T
    <3>3. \A i \in Nat : i \in T
      BY <3>1, <3>2, Induction
    <3>. QED BY <3>3 DEF T
  <2>. DEFINE f == [i \in 0 .. n |-> IF i = 0 THEN <<>> ELSE c[i]]
  <2>8. f \in [0 .. n -> Seq(S)] /\ f[0] = <<>>
    BY <2>1, <2>7
  <2>9. \A i \in 1 .. n : f[i] = f[i - 1] \o seqs[i]
    <3>. TAKE i \in 1 .. n
    <3>1. CASE i = 1
      BY <2>1, <2>6, <3>1
    <3>2. CASE i # 1
      <4>1. i \in D /\ i - 1 \in D /\ i - 1 \in 0 .. n /\ i \in 0 .. n /\ i # 0 /\ i - 1 # 0
        BY <2>1, <3>2
      <4>2. f[i] = c[i] /\ f[i - 1] = c[i - 1]
        BY <4>1
      <4>3. c[i] = c[i - 1] \o seqs[i]
        BY <2>6, <3>2, <4>1
      <4>. QED BY <4>2, <4>3
    <3>. QED BY <3>1, <3>2
  <2>10. FlattenSeq(seqs) = f[n]
    BY <2>1, <2>5
  <2>. QED BY <2>8, <2>9, <2>10
<1>. QED BY <1>1, <1>2

LEMMA FlattenEmpty ==
  FlattenSeq(<<>>) = <<>>
BY DEF FlattenSeq

LEMMA FlattenType ==
  ASSUME NEW S, NEW seqs \in Seq(Seq(S))
  PROVE  FlattenSeq(seqs) \in Seq(S)
<1>1. PICK f \in [0 .. Len(seqs) -> Seq(S)] : FlattenSeq(seqs) = f[Len(seqs)]
  BY FlattenSteps
<1>2. Len(seqs) \in 0 .. Len(seqs)
  OBVIOUS
<1>. QED BY <1>1, <1>2

LEMMA FlattenAppend ==
  ASSUME NEW S, NEW seqs \in Seq(Seq(S)), NEW x \in Seq(S)
  PROVE  FlattenSeq(Append(seqs, x)) = FlattenSeq(seqs) \o x
<1>. DEFINE n == Len(seqs)
            more == Append(seqs, x)
<1>1. PICK f \in [0 .. n -> Seq(S)] :
         /\ f[0] = <<>>
         /\ \A i \in 1 .. n : f[i] = f[i - 1] \o seqs[i]
         /\ FlattenSeq(seqs) = f[n]
  BY FlattenSteps
<1>2. more \in Seq(Seq(S)) /\ Len(more) = n + 1 /\ n \in Nat
  OBVIOUS
<1>3. PICK g \in [0 .. n + 1 -> Seq(S)] :
         /\ g[0] = <<>>
         /\ \A i \in 1 .. n + 1 : g[i] = g[i - 1] \o more[i]
         /\ FlattenSeq(more) = g[n + 1]
  <2>. HIDE DEF more
  <2>. QED BY <1>2, FlattenSteps
<1>4. (\A i \in 1 .. n : more[i] = seqs[i]) /\ more[n + 1] = x
  OBVIOUS
<1>. HIDE DEF more, n
<1>. DEFINE T == {i \in Nat : i <= n => f[i] = g[i]}
<1>5. 0 \in T
  BY <1>1, <1>3
<1>6. ASSUME NEW i \in Nat, i \in T PROVE i + 1 \in T
  <2>. SUFFICES ASSUME i + 1 <= n PROVE f[i + 1] = g[i + 1]
    OBVIOUS
  <2>1. i + 1 \in 1 .. n /\ i + 1 \in 1 .. n + 1 /\ (i + 1) - 1 = i /\ i <= n
    BY <1>2
  <2>2. f[i + 1] = f[i] \o seqs[i + 1] /\ g[i + 1] = g[i] \o more[i + 1]
    BY <1>1, <1>3, <2>1
  <2>. QED BY <1>4, <1>6, <2>1, <2>2
<1>7. \A i \in Nat : i \in T
  <2>. HIDE DEF T
  <2>. QED BY <1>5, <1>6, Induction
<1>8. f[n] = g[n] /\ n + 1 \in 1 .. n + 1 /\ (n + 1) - 1 = n
  <2>1. n <= n /\ n \in T
    BY <1>2, <1>7
  <2>. QED BY <1>2, <2>1
<1>9. g[n + 1] = g[(n + 1) - 1] \o more[n + 1]
  BY <1>3, <1>8
<1>. QED BY <1>1, <1>3, <1>4, <1>8, <1>9 DEF more

(* The place of each sequence in the whole.                                *)
Before(seqs, i) == Len(FlattenSeq(SubSeq(seqs, 1, i - 1)))

LEMMA FlattenPiece ==
  ASSUME NEW S, NEW seqs \in Seq(Seq(S)), NEW i \in 1 .. Len(seqs)
  PROVE  /\ Before(seqs, i) \in Nat
         /\ Before(seqs, i + 1) = Before(seqs, i) + Len(seqs[i])
         /\ Before(seqs, i) + Len(seqs[i]) <= Len(FlattenSeq(seqs))
         /\ \A k \in 1 .. Len(seqs[i]) : FlattenSeq(seqs)[Before(seqs, i) + k] = seqs[i][k]
<1>. DEFINE from == Before(seqs, i)
            at(n) == FlattenSeq(SubSeq(seqs, 1, n))
            N == Len(seqs)
<1>1. N \in Nat /\ \A n \in 0 .. N : SubSeq(seqs, 1, n) \in Seq(Seq(S))
  OBVIOUS
<1>2. \A n \in 0 .. N : at(n) \in Seq(S)
  BY <1>1, FlattenType
<1>3. \A n \in 1 .. N : seqs[n] \in Seq(S) /\ at(n) = at(n - 1) \o seqs[n]
  <2>. TAKE n \in 1 .. N
  <2>1. SubSeq(seqs, 1, n) = Append(SubSeq(seqs, 1, n - 1), seqs[n])
    OBVIOUS
  <2>2. SubSeq(seqs, 1, n - 1) \in Seq(Seq(S)) /\ seqs[n] \in Seq(S)
    OBVIOUS
  <2>. QED BY <2>1, <2>2, FlattenAppend
<1>4. at(N) = FlattenSeq(seqs)
  <2>1. SubSeq(seqs, 1, N) = seqs
    OBVIOUS
  <2>. QED BY <2>1
<1>5. from = Len(at(i - 1)) /\ Before(seqs, i + 1) = Len(at(i)) /\ i \in 1 .. N
  BY DEF Before
<1>. HIDE DEF at, N, from
<1>. DEFINE piece == seqs[i]
            l == Len(piece)
            Holds(n) == /\ at(n) \in Seq(S)
                        /\ from + l <= Len(at(n))
                        /\ \A k \in 1 .. l : at(n)[from + k] = piece[k]
            T == {n \in Nat : i + n <= N => Holds(i + n)}
<1>6. piece \in Seq(S) /\ at(i - 1) \in Seq(S) /\ at(i) = at(i - 1) \o piece
  <2>1. i - 1 \in 0 .. N
    BY <1>1, <1>5
  <2>. QED BY <1>2, <1>3, <1>5, <2>1
<1>7. l \in Nat /\ from \in Nat
  BY <1>5, <1>6
<1>. HIDE DEF piece
<1>8. Holds(i) /\ Len(at(i)) = from + l
  <2>. DEFINE a == at(i - 1)
  <2>1. a \in Seq(S) /\ from = Len(a) /\ at(i) = a \o piece
    BY <1>5, <1>6
  <2>. HIDE DEF a
  <2>2. at(i) \in Seq(S) /\ Len(at(i)) = from + l
    <3>1. piece \in Seq(S)
      BY <1>6
    <3>2. a \o piece \in Seq(S) /\ Len(a \o piece) = Len(a) + Len(piece)
      BY <2>1, <3>1
    <3>. QED BY <2>1, <3>2
  <2>3. ASSUME NEW k \in 1 .. l PROVE at(i)[from + k] = piece[k]
    BY <1>6, <1>7, <2>1
  <2>. QED BY <1>7, <2>2, <2>3
<1>. HIDE DEF l
<1>9. 0 \in T
  <2>1. i + 0 = i
    BY <1>1, <1>5
  <2>. HIDE DEF Holds
  <2>. QED BY <1>8, <2>1
<1>10. ASSUME NEW n \in Nat, n \in T PROVE n + 1 \in T
  <2>. SUFFICES ASSUME i + (n + 1) <= N PROVE Holds(i + (n + 1))
    <3>. HIDE DEF Holds
    <3>. QED OBVIOUS
  <2>1. i + (n + 1) \in 1 .. N /\ (i + (n + 1)) - 1 = i + n /\ i + n \in 0 .. N /\ i + n <= N
    BY <1>1, <1>5
  <2>2. Holds(i + n)
    <3>. HIDE DEF Holds
    <3>. QED BY <1>10, <2>1
  <2>3. at(i + (n + 1)) = at(i + n) \o seqs[i + (n + 1)] /\ seqs[i + (n + 1)] \in Seq(S)
    BY <1>3, <2>1
  <2>. DEFINE a == at(i + n)  b == seqs[i + (n + 1)]  c == at(i + (n + 1))
  <2>4. c = a \o b /\ a \in Seq(S) /\ b \in Seq(S)
    BY <2>2, <2>3
  <2>5. /\ from + l <= Len(a)
        /\ \A k \in 1 .. l : a[from + k] = piece[k]
    BY <2>2
  <2>. HIDE DEF a, b
  <2>6. c \in Seq(S) /\ Len(c) >= Len(a) /\ \A k \in 1 .. Len(a) : c[k] = a[k]
    <3>. HIDE DEF c
    <3>. QED BY <2>4
  <2>. HIDE DEF c
  <2>7. \A k \in 1 .. l : from + k \in 1 .. Len(a)
    BY <1>7, <2>4, <2>5
  <2>8. /\ c \in Seq(S) /\ from + l <= Len(c)
        /\ \A k \in 1 .. l : c[from + k] = piece[k]
    BY <1>7, <2>4, <2>5, <2>6, <2>7
  <2>. QED BY <2>8 DEF c
<1>11. \A n \in Nat : n \in T
  <2>. HIDE DEF T
  <2>. QED BY <1>9, <1>10, Induction
<1>12. Holds(N)
  <2>1. N - i \in Nat /\ i + (N - i) = N /\ N <= N
    BY <1>1, <1>5
  <2>2. N - i \in T
    BY <1>11, <2>1
  <2>. HIDE DEF Holds
  <2>. QED BY <2>1, <2>2
<1>13. /\ from + l <= Len(FlattenSeq(seqs))
       /\ \A k \in 1 .. l : FlattenSeq(seqs)[from + k] = piece[k]
  BY <1>4, <1>12
<1>. QED BY <1>5, <1>7, <1>8, <1>13 DEF l, piece, from
-----------------------------------------------------------------------------
(* A fold over a sequence of length n goes over the positions, from the    *)
(* last to the first or the other way, as pick chooses them.               *)
FoldSteps(n, V, base, step) ==
  n \in Nat /\ base \in V /\ step \in [1 .. n -> [V -> V]]
Picks(pick, n) ==
  /\ pick \in [SUBSET (1 .. n) -> Nat]
  /\ \A s \in SUBSET (1 .. n) : s # {} => pick[s] \in s
FoldsAs(f, n, V, base, step, pick) ==
  /\ f \in [SUBSET (1 .. n) -> V]
  /\ \A s \in SUBSET (1 .. n) :
       f[s] = IF s = {} THEN base ELSE step[pick[s]][f[s \ {pick[s]}]]

LEMMA Folding ==
  ASSUME NEW n, NEW V, NEW base, NEW step, NEW pick,
         FoldSteps(n, V, base, step), Picks(pick, n)
  PROVE  \E f : FoldsAs(f, n, V, base, step, pick)
<1>. USE DEF FoldSteps, Picks
<1>. DEFINE D == SUBSET (1 .. n)
            b == [s \in D |-> base]
            st == [s \in D |-> IF s = {} THEN [v \in V |-> v] ELSE step[pick[s]]]
            nxt == [s \in D |-> s \ {pick[s]}]
            m == [s \in D |-> Cardinality(s)]
<1>1. \A s \in D : IsFiniteSet(s)
  <2>1. \A a, b1 \in Int : IsFiniteSet(a .. b1)
    BY FS_Interval
  <2>2. IsFiniteSet(1 .. n)
    BY <2>1
  <2>. QED BY <2>2, FS_Subset
<1>2. m \in [D -> Nat]
  BY <1>1, FS_CardinalityType
<1>3. \A s \in D \ {{}} : m[nxt[s]] < m[s]
  <2>. TAKE s \in D \ {{}}
  <2>1. pick[s] \in s /\ nxt[s] = s \ {pick[s]} /\ nxt[s] \in D
    OBVIOUS
  <2>2. Cardinality(s \ {pick[s]}) = Cardinality(s) - 1
    BY <1>1, <2>1, FS_RemoveElement
  <2>3. Cardinality(s) \in Nat
    BY <1>1, FS_CardinalityType
  <2>. QED BY <2>1, <2>2, <2>3
<1>4. b \in [D -> V] /\ st \in [D -> [V -> V]] /\ nxt \in [D -> D]
  <2>1. \A s \in D : s # {} => pick[s] \in 1 .. n
    OBVIOUS
  <2>2. \A s \in D : st[s] \in [V -> V]
    BY <2>1
  <2>. QED BY <2>2
<1>5. Descends(D, V, {{}}, b, st, nxt, m)
  <2>. HIDE DEF D, b, st, nxt, m
  <2>. QED BY <1>2, <1>3, <1>4 DEF Descends
<1>6. PICK f : Solves(f, D, V, {{}}, b, st, nxt)
  <2>. HIDE DEF D, b, st, nxt, m
  <2>. QED BY <1>5, Recursion
<1>7. f \in [D -> V]
  BY <1>6 DEF Solves
<1>8. ASSUME NEW s \in D
      PROVE  f[s] = IF s = {} THEN base ELSE step[pick[s]][f[s \ {pick[s]}]]
  <2>1. f[s] = IF s = {} THEN b[s] ELSE st[s][f[nxt[s]]]
    BY <1>6 DEF Solves
  <2>. QED BY <2>1
<1>. QED BY <1>7, <1>8 DEF FoldsAs

LEMMA MaxOf ==
  /\ \A k \in Nat \ {0} : Max(1 .. k) = k
  /\ \A n \in Nat : \A s \in SUBSET (1 .. n) : s # {} => Max(s) \in s
<1>1. \A k \in Nat \ {0} : Max(1 .. k) = k
  BY DEF Max
<1>2. ASSUME NEW n \in Nat, NEW s \in SUBSET (1 .. n), s # {} PROVE Max(s) \in s
  <2>1. \E x \in s : \A y \in s : y <= x
    <3>1. s \subseteq 0 .. n
      OBVIOUS
    <3>. QED BY <1>2, <3>1, Greatest
  <2>2. \E x \in s : \A y \in s : x >= y
    BY <2>1
  <2>. QED BY <2>2 DEF Max
<1>. QED BY <1>1, <1>2

LEMMA MinOf ==
  /\ \A k, n \in Nat \ {0} : k <= n => Min(k .. n) = k
  /\ \A n \in Nat : \A s \in SUBSET (1 .. n) : s # {} => Min(s) \in s
<1>1. \A k, n \in Nat \ {0} : k <= n => Min(k .. n) = k
  BY DEF Min
<1>2. ASSUME NEW n \in Nat, NEW s \in SUBSET (1 .. n), s # {} PROVE Min(s) \in s
  <2>1. s \subseteq Nat
    OBVIOUS
  <2>2. \E x \in s : \A y \in s : x <= y
    BY <1>2, <2>1, Least
  <2>. QED BY <2>2 DEF Min
<1>. QED BY <1>1, <1>2

(* What FoldLeft has after each position.                                  *)
FoldsUp(f, n, V, base, step) ==
  /\ f[{}] = base
  /\ \A s \in SUBSET (1 .. n) : s # {} /\ f[s \ {Max(s)}] \in V =>
       f[s] = step[Max(s)][f[s \ {Max(s)}]]
After(g, n, V, base, step) ==
  /\ g \in [0 .. n -> V]
  /\ g[0] = base
  /\ \A k \in 1 .. n : g[k] = step[k][g[k - 1]]

LEMMA FoldUp ==
  ASSUME NEW n, NEW V, NEW base, NEW step, NEW f,
         FoldSteps(n, V, base, step), FoldsUp(f, n, V, base, step)
  PROVE  \E g : After(g, n, V, base, step) /\ f[1 .. n] = g[n]
<1>. USE DEF FoldSteps, FoldsUp
<1>. DEFINE g == [k \in 0 .. n |-> f[1 .. k]]
<1>1. ASSUME NEW k \in 1 .. n, f[1 .. k - 1] \in V
      PROVE  f[1 .. k] \in V /\ f[1 .. k] = step[k][f[1 .. k - 1]]
  <2>1. Max(1 .. k) = k /\ (1 .. k) \ {k} = 1 .. k - 1 /\ 1 .. k # {} /\ 1 .. k \in SUBSET (1 .. n)
    BY MaxOf
  <2>2. f[1 .. k] = step[k][f[1 .. k - 1]]
    BY <1>1, <2>1
  <2>. QED BY <1>1, <2>2
<1>2. 1 .. 0 = {}
  OBVIOUS
<1>. DEFINE S == {k \in Nat : k <= n => f[1 .. k] \in V}
<1>3. 0 \in S
  BY <1>2
<1>4. ASSUME NEW k \in Nat, k \in S PROVE k + 1 \in S
  <2>. SUFFICES ASSUME k + 1 <= n PROVE f[1 .. k + 1] \in V
    OBVIOUS
  <2>1. k + 1 \in 1 .. n /\ (k + 1) - 1 = k /\ f[1 .. k] \in V
    BY <1>4
  <2>. QED BY <1>1, <2>1
<1>5. \A k \in Nat : k \in S
  <2>. HIDE DEF S
  <2>. QED BY <1>3, <1>4, Induction
<1>6. g \in [0 .. n -> V] /\ g[0] = base /\ f[1 .. n] = g[n]
  BY <1>2, <1>5
<1>7. \A k \in 1 .. n : g[k] = step[k][g[k - 1]]
  <2>. TAKE k \in 1 .. n
  <2>1. k - 1 \in Nat /\ k - 1 <= n /\ k \in 0 .. n /\ k - 1 \in 0 .. n
    OBVIOUS
  <2>2. f[1 .. k - 1] \in V
    BY <1>5, <2>1
  <2>. QED BY <1>1, <2>1, <2>2
<1>. QED BY <1>6, <1>7 DEF After

(* What FoldRight has at each position.                                    *)
FoldsDown(f, n, V, base, step) ==
  /\ f[{}] = base
  /\ \A s \in SUBSET (1 .. n) : s # {} /\ f[s \ {Min(s)}] \in V =>
       f[s] = step[Min(s)][f[s \ {Min(s)}]]
AfterDown(g, n, V, base, step) ==
  /\ g \in [1 .. n + 1 -> V]
  /\ g[n + 1] = base
  /\ \A k \in 1 .. n : g[k] = step[k][g[k + 1]]

LEMMA FoldDown ==
  ASSUME NEW n, NEW V, NEW base, NEW step, NEW f,
         FoldSteps(n, V, base, step), FoldsDown(f, n, V, base, step)
  PROVE  \E g : AfterDown(g, n, V, base, step) /\ f[1 .. n] = g[1]
<1>. USE DEF FoldSteps, FoldsDown
<1>. DEFINE g == [k \in 1 .. n + 1 |-> f[k .. n]]
<1>1. ASSUME NEW k \in 1 .. n, f[k + 1 .. n] \in V
      PROVE  f[k .. n] \in V /\ f[k .. n] = step[k][f[k + 1 .. n]]
  <2>1. Min(k .. n) = k
    BY MinOf
  <2>2. (k .. n) \ {k} = k + 1 .. n /\ k .. n # {} /\ k .. n \in SUBSET (1 .. n)
    <3>1. k \in k .. n
      OBVIOUS
    <3>2. \A i \in k .. n : i \in 1 .. n
      OBVIOUS
    <3>3. (k .. n) \ {k} = k + 1 .. n
      OBVIOUS
    <3>. QED BY <3>1, <3>2, <3>3
  <2>3. f[k .. n] = step[k][f[k + 1 .. n]]
    BY <1>1, <2>1, <2>2
  <2>. QED BY <1>1, <2>3
<1>2. n + 1 .. n = {}
  OBVIOUS
<1>. DEFINE S == {d \in Nat : d <= n => f[n + 1 - d .. n] \in V}
<1>3. 0 \in S
  <2>1. n + 1 - 0 = n + 1
    OBVIOUS
  <2>. QED BY <1>2, <2>1
<1>4. ASSUME NEW d \in Nat, d \in S PROVE d + 1 \in S
  <2>. SUFFICES ASSUME d + 1 <= n PROVE f[n + 1 - (d + 1) .. n] \in V
    OBVIOUS
  <2>1. n - d \in 1 .. n /\ (n - d) + 1 = n + 1 - d /\ n + 1 - (d + 1) = n - d
    OBVIOUS
  <2>2. f[n + 1 - d .. n] \in V
    BY <1>4
  <2>. QED BY <1>1, <2>1, <2>2
<1>5. \A d \in Nat : d \in S
  <2>. HIDE DEF S
  <2>. QED BY <1>3, <1>4, Induction
<1>6. \A k \in 1 .. n + 1 : f[k .. n] \in V
  <2>. TAKE k \in 1 .. n + 1
  <2>1. CASE k = n + 1 - (n + 1 - k) /\ n + 1 - k <= n
    <3>1. n + 1 - k \in S /\ n + 1 - k \in Nat
      BY <1>5
    <3>. QED BY <2>1, <3>1
  <2>2. CASE k = 1
    <3>1. CASE n = 0
      BY <1>2, <2>2, <3>1
    <3>2. CASE n # 0
      <4>1. n \in S
        <5>. HIDE DEF S
        <5>. QED BY <1>5
      <4>2. n + 1 - n = 1 /\ n <= n
        OBVIOUS
      <4>3. f[n + 1 - n .. n] \in V
        BY <4>1, <4>2
      <4>. QED BY <2>2, <4>2, <4>3
    <3>. QED BY <3>1, <3>2
  <2>. QED BY <2>1, <2>2
<1>7. g \in [1 .. n + 1 -> V] /\ g[n + 1] = base /\ f[1 .. n] = g[1]
  BY <1>2, <1>6
<1>8. \A k \in 1 .. n : g[k] = step[k][g[k + 1]]
  <2>. TAKE k \in 1 .. n
  <2>1. k + 1 \in 1 .. n + 1 /\ k \in 1 .. n + 1
    OBVIOUS
  <2>. QED BY <1>1, <1>6, <2>1
<1>. QED BY <1>7, <1>8 DEF AfterDown

(* A sum is what FoldLeft adds up.                                         *)
Sum(seq) == FoldLeft(LAMBDA n, w : n + w, 0, seq)

LEMMA SumSteps ==
  ASSUME NEW seq \in Seq(Nat)
  PROVE  \E g \in [0 .. Len(seq) -> Nat] :
           /\ g[0] = 0
           /\ \A k \in 1 .. Len(seq) : g[k] = g[k - 1] + seq[k]
           /\ Sum(seq) = g[Len(seq)]
<1>. DEFINE n == Len(seq)
            D == SUBSET (1 .. n)
            step == [k \in 1 .. n |-> [v \in Nat |-> v + seq[k]]]
            pick == [s \in D |-> IF s = {} THEN 0 ELSE Max(s)]
            R(f) == f = [s \in SUBSET DOMAIN seq |->
                           IF s = {} THEN 0 ELSE f[s \ {Max(s)}] + seq[Max(s)]]
            c == CHOOSE f : R(f)
<1>1. n \in Nat /\ DOMAIN seq = 1 .. n /\ \A k \in 1 .. n : seq[k] \in Nat
  OBVIOUS
<1>2. \A s \in D : s # {} => Max(s) \in s /\ Max(s) \in 1 .. n
  BY <1>1, MaxOf
<1>3. step \in [1 .. n -> [Nat -> Nat]]
  BY <1>1
<1>4. \E h : R(h)
  <2>1. Picks(pick, n) /\ FoldSteps(n, Nat, 0, step)
    <3>1. \A s \in D : (IF s = {} THEN 0 ELSE Max(s)) \in Nat
      BY <1>2
    <3>2. pick \in [D -> Nat] /\ \A s \in D : s # {} => pick[s] \in s
      BY <1>2, <3>1
    <3>. QED BY <1>1, <1>3, <3>2 DEF Picks, FoldSteps
  <2>. HIDE DEF n, step, pick
  <2>2. PICK f : FoldsAs(f, n, Nat, 0, step, pick)
    BY <2>1, Folding
  <2>. USE DEF FoldsAs
  <2>3. ASSUME NEW s \in D PROVE f[s] = IF s = {} THEN 0 ELSE f[s \ {Max(s)}] + seq[Max(s)]
    <3>1. s # {} => pick[s] = Max(s) /\ f[s \ {Max(s)}] \in Nat
      BY <2>2 DEF pick
    <3>2. s # {} => step[Max(s)][f[s \ {Max(s)}]] = f[s \ {Max(s)}] + seq[Max(s)]
      BY <1>2, <3>1 DEF step
    <3>. QED BY <2>2, <3>1, <3>2
  <2>4. f = [s \in D |-> f[s]]
    BY <2>2
  <2>. QED BY <1>1, <2>3, <2>4
<1>5. R(c)
  <2>. HIDE DEF R
  <2>. QED BY <1>4
<1>6. Sum(seq) = c[1 .. n]
  BY <1>1 DEF Sum, FoldLeft, MapThenFoldSet
<1>. HIDE DEF c
<1>7. c[{}] = 0 /\ \A s \in D : s # {} => c[s] = c[s \ {Max(s)}] + seq[Max(s)]
  BY <1>1, <1>5
<1>8. \A s \in SUBSET (1 .. n) : s # {} /\ c[s \ {Max(s)}] \in Nat =>
         c[s] = step[Max(s)][c[s \ {Max(s)}]]
  BY <1>2, <1>7
<1>9. FoldSteps(n, Nat, 0, step) /\ FoldsUp(c, n, Nat, 0, step)
  <2>. HIDE DEF n, step
  <2>. QED BY <1>1, <1>3, <1>7, <1>8 DEF FoldSteps, FoldsUp
<1>. HIDE DEF n, step
<1>11. PICK g : After(g, n, Nat, 0, step) /\ c[1 .. n] = g[n]
  BY <1>9, FoldUp
<1>10. \A k \in 1 .. n : g[k] = g[k - 1] + seq[k]
  <2>. TAKE k \in 1 .. n
  <2>1. g[k - 1] \in Nat
    BY <1>1, <1>11 DEF After
  <2>2. g[k] = step[k][g[k - 1]]
    BY <1>11 DEF After
  <2>. QED BY <2>1, <2>2 DEF step
<1>. QED BY <1>6, <1>10, <1>11 DEF n, After
=============================================================================
