---------------------------- MODULE UringProofs ----------------------------
(***************************************************************************)
(* What the two rings promise for any sizes of the queues, any width of    *)
(* their indices and any number of operations: each operation that was     *)
(* started is in one place, and the rings implement operations without     *)
(* rings.                                                                  *)
(***************************************************************************)
EXTENDS Uring, DataLemmas, FiniteSetTheorems, TLAPS

Index  == 0 .. IndexMod - 1
Answer == [op : Ops, res : Int]

TypeOK ==
  /\ sq_head \in Index /\ sq_tail \in Index /\ sq_tail_local \in Index
  /\ cq_head \in Index /\ cq_tail \in Index
  /\ head \in Index /\ tail \in Index
  /\ sqes \in [0 .. SqEntries - 1 -> Ops \union {None}]
  /\ cqes \in [0 .. CqEntries - 1 -> Answer \union {None}]
  /\ kernel \subseteq Ops
  /\ pc \in {"out", "check", "wait", "reap", "callback"}
  /\ status \in [Ops -> {"idle", "started"}]
-----------------------------------------------------------------------------
(* Indices that run freely modulo the number of their values.              *)
LEMMA Constants ==
  /\ SqEntries \in Nat /\ SqEntries > 0 /\ CqEntries \in Nat /\ CqEntries > 0
  /\ IndexMod \in Nat /\ IndexMod > 1 /\ IndexMod > SqEntries /\ IndexMod > CqEntries
  /\ \A o \in Ops : Results[o] \subseteq Int
  /\ None \notin Ops
BY UringAssumption

LEMMA Distances ==
  ASSUME NEW a \in Index, NEW d \in Index
  PROVE  Plus(a, d) \in Index /\ Distance(a, Plus(a, d)) = d
<1>. DEFINE M == IndexMod
<1>1. M \in Nat /\ M > 0 /\ a \in 0 .. M - 1 /\ d \in 0 .. M - 1
  BY Constants DEF Index
<1>. HIDE DEF M
<1>2. \A r \in 0 .. M - 1 : r % M = r
  BY <1>1, SmallRemainder
<1>3. CASE a + d < M
  <2>1. (a + d) % M = a + d
    BY <1>1, <1>2, <1>3
  <2>2. ((a + d) - a) % M = d
    BY <1>1, <1>2
  <2>. QED BY <1>1, <2>1, <2>2 DEF Plus, Distance, Index, M
<1>4. CASE a + d >= M
  <2>1. (a + d) % M = a + d - M
    <3>1. (a + d - M) % M = (a + d) % M
      BY <1>1, AddDivisor
    <3>2. a + d - M \in 0 .. M - 1
      BY <1>1, <1>4
    <3>. QED BY <1>2, <3>1, <3>2
  <2>2. ((a + d - M) - a) % M = d
    <3>1. (d - M) % M = d % M
      BY <1>1, AddDivisor
    <3>2. (a + d - M) - a = d - M
      BY <1>1
    <3>. QED BY <1>1, <1>2, <3>1, <3>2
  <2>. QED BY <1>1, <1>4, <2>1, <2>2 DEF Plus, Distance, Index, M
<1>. QED BY <1>1, <1>3, <1>4

LEMMA Reached ==
  ASSUME NEW a \in Index, NEW b \in Index
  PROVE  Distance(a, b) \in Index /\ Plus(a, Distance(a, b)) = b
<1>. DEFINE M == IndexMod
<1>1. M \in Nat /\ M > 0 /\ a \in 0 .. M - 1 /\ b \in 0 .. M - 1
  BY Constants DEF Index
<1>. HIDE DEF M
<1>2. \A r \in 0 .. M - 1 : r % M = r
  BY <1>1, SmallRemainder
<1>3. CASE a <= b
  <2>1. (b - a) % M = b - a
    BY <1>1, <1>2, <1>3
  <2>2. (a + (b - a)) % M = b
    BY <1>1, <1>2
  <2>. QED BY <1>1, <1>3, <2>1, <2>2 DEF Plus, Distance, Index, M
<1>4. CASE a > b
  <2>1. (b - a) % M = b - a + M
    <3>1. (b - a + M) % M = (b - a) % M
      BY <1>1, AddDivisor
    <3>2. b - a + M \in 0 .. M - 1
      BY <1>1, <1>4
    <3>. QED BY <1>2, <3>1, <3>2
  <2>2. (a + (b - a + M)) % M = b
    <3>1. (b + M) % M = b % M
      BY <1>1, AddDivisor
    <3>2. a + (b - a + M) = b + M
      BY <1>1
    <3>. QED BY <1>1, <1>2, <3>1, <3>2
  <2>. QED BY <1>1, <1>4, <2>1, <2>2 DEF Plus, Distance, Index, M
<1>. QED BY <1>1, <1>3, <1>4

LEMMA Steps ==
  ASSUME NEW a \in Index, NEW m \in Nat, NEW n \in Nat
  PROVE  Plus(Plus(a, m), n) = Plus(a, m + n)
<1>. DEFINE M == IndexMod
<1>1. M \in Nat /\ M > 0 /\ a \in Int
  BY Constants DEF Index
<1>. HIDE DEF M
<1>2. /\ (a + m) % M \in 0 .. M - 1
      /\ (a + m) \div M \in Int
      /\ a + m = M * ((a + m) \div M) + ((a + m) % M)
  BY <1>1, Division
<1>3. PICK r \in 0 .. M - 1, q \in Int : r = (a + m) % M /\ a + m = M * q + r
  BY <1>2
<1>4. (M * q + (r + n)) % M = (r + n) % M
  <2>1. r + n \in Int
    BY <1>1
  <2>2. \A u, v \in Int : (M * u + v) % M = v % M
    BY <1>1, SameRemainder
  <2>. QED BY <2>1, <2>2
<1>5. M * q + (r + n) = a + (m + n)
  BY <1>1, <1>3
<1>. QED BY <1>3, <1>4, <1>5 DEF Plus, M

(* One index lies between two others.                                      *)
LEMMA Between ==
  ASSUME NEW a \in Index, NEW b \in Index, NEW c \in Index,
         Distance(a, b) + Distance(b, c) < IndexMod
  PROVE  Distance(a, c) = Distance(a, b) + Distance(b, c)
<1>1. PICK x \in Index, y \in Index :
        x = Distance(a, b) /\ y = Distance(b, c) /\ b = Plus(a, x) /\ c = Plus(b, y)
  BY Reached
<1>2. x \in Nat /\ y \in Nat /\ x + y \in Index
  BY <1>1, Constants DEF Index
<1>3. c = Plus(a, x + y)
  BY <1>1, <1>2, Steps
<1>. QED BY <1>1, <1>2, <1>3, Distances

(* The distance from an index further on.                                  *)
LEMMA Further ==
  ASSUME NEW a \in Index, NEW i \in Index, NEW n \in Index
  PROVE  Distance(Plus(a, n), i) = IF n <= Distance(a, i) THEN Distance(a, i) - n
                                                         ELSE Distance(a, i) - n + IndexMod
<1>1. PICK x \in Index : x = Distance(a, i) /\ i = Plus(a, x)
  BY Reached
<1>2. /\ Plus(a, n) \in Index /\ IndexMod \in Nat /\ IndexMod > 0
      /\ x \in 0 .. IndexMod - 1 /\ n \in 0 .. IndexMod - 1
  BY Distances, Constants DEF Index
<1>3. CASE n <= x
  <2>1. x - n \in Index /\ x - n \in Nat /\ n \in Nat /\ n + (x - n) = x
    BY <1>2, <1>3 DEF Index
  <2>2. Plus(Plus(a, n), x - n) = i
    BY <1>1, <2>1, Steps
  <2>3. Distance(Plus(a, n), Plus(Plus(a, n), x - n)) = x - n
    BY <1>2, <2>1, Distances
  <2>. QED BY <1>1, <1>3, <2>2, <2>3
<1>4. CASE n > x
  <2>1. /\ x - n + IndexMod \in Index /\ x - n + IndexMod \in Nat /\ n \in Nat
        /\ n + (x - n + IndexMod) = x + IndexMod
    BY <1>2, <1>4 DEF Index
  <2>2. Plus(Plus(a, n), x - n + IndexMod) = Plus(a, x + IndexMod)
    BY <2>1, Steps
  <2>3. Plus(a, x + IndexMod) = i
    <3>1. ((a + x) + IndexMod) % IndexMod = (a + x) % IndexMod
      BY <1>2, AddDivisor DEF Index
    <3>2. (a + x) + IndexMod = a + (x + IndexMod)
      BY <1>2 DEF Index
    <3>. QED BY <1>1, <3>1, <3>2 DEF Plus
  <2>4. Distance(Plus(a, n), Plus(Plus(a, n), x - n + IndexMod)) = x - n + IndexMod
    BY <1>2, <2>1, Distances
  <2>. QED BY <1>1, <1>2, <1>4, <2>2, <2>3, <2>4
<1>. QED BY <1>2, <1>3, <1>4

LEMMA Natural ==
  ASSUME NEW a \in Index, NEW b \in Index
  PROVE  Distance(a, b) \in Nat /\ Distance(a, b) < IndexMod
<1>1. Distance(a, b) \in 0 .. IndexMod - 1 /\ IndexMod \in Nat
  BY Reached, Constants DEF Index
<1>. QED BY <1>1

LEMMA Nowhere ==
  ASSUME NEW a \in Index, NEW b \in Index
  PROVE  Distance(a, b) = 0 <=> a = b
<1>1. Plus(a, 0) = a
  <2>1. a \in 0 .. IndexMod - 1 /\ IndexMod \in Nat /\ IndexMod > 0 /\ a + 0 = a
    BY Constants DEF Index
  <2>. QED BY <2>1, SmallRemainder DEF Plus
<1>2. 0 \in Index
  BY Constants DEF Index
<1>. QED BY <1>1, <1>2, Reached, Distances

-----------------------------------------------------------------------------
(* Windows.                                                                *)
LEMMA InWindow ==
  ASSUME NEW a \in Index, NEW b \in Index
  PROVE  \A i : i \in Window(a, b) <=> i \in Index /\ Distance(a, i) < Distance(a, b)
<1>1. Distance(a, b) \in Index /\ IndexMod \in Nat
  BY Reached, Constants
<1>2. ASSUME NEW n \in 0 .. Distance(a, b) - 1
      PROVE  Plus(a, n) \in Index /\ Distance(a, Plus(a, n)) < Distance(a, b)
  <2>1. n \in Index /\ n < Distance(a, b)
    BY <1>1 DEF Index
  <2>. QED BY <2>1, Distances
<1>3. ASSUME NEW i \in Index, Distance(a, i) < Distance(a, b)
      PROVE  \E n \in 0 .. Distance(a, b) - 1 : i = Plus(a, n)
  <2>1. Distance(a, i) \in Index /\ Plus(a, Distance(a, i)) = i
    BY Reached
  <2>2. Distance(a, i) \in 0 .. Distance(a, b) - 1
    BY <1>1, <1>3, <2>1 DEF Index
  <2>. QED BY <2>1, <2>2
<1>. QED BY <1>2, <1>3 DEF Window

LEMMA Grows ==
  ASSUME NEW a \in Index, NEW b \in Index, Distance(a, b) + 1 < IndexMod
  PROVE  /\ Plus(b, 1) \in Index
         /\ Distance(a, Plus(b, 1)) = Distance(a, b) + 1
         /\ Window(a, Plus(b, 1)) = Window(a, b) \union {b}
         /\ b \notin Window(a, b)
<1>1. Distance(a, b) \in Index /\ Distance(a, b) \in Nat /\ 1 \in Index /\ IndexMod \in Nat
  BY Reached, Constants DEF Index
<1>2. Plus(b, 1) \in Index /\ Distance(b, Plus(b, 1)) = 1
  BY <1>1, Distances
<1>3. Distance(a, Plus(b, 1)) = Distance(a, b) + 1
  BY <1>2, Between
<1>4. ASSUME NEW i \in Index
      PROVE  i \in Window(a, Plus(b, 1)) <=> i \in Window(a, b) \/ i = b
  <2>1. Distance(a, i) \in Index /\ Distance(a, i) \in Nat
    BY Reached, Constants DEF Index
  <2>2. Distance(a, i) = Distance(a, b) => i = b
    BY Reached
  <2>3. Distance(a, i) < Distance(a, b) + 1 <=> Distance(a, i) < Distance(a, b) \/ Distance(a, i) = Distance(a, b)
    BY <1>1, <2>1
  <2>. QED BY <1>2, <1>3, <2>2, <2>3, InWindow
<1>5. b \notin Window(a, b)
  BY <1>1, InWindow
<1>6. Window(a, Plus(b, 1)) \subseteq Index /\ Window(a, b) \subseteq Index
  BY <1>2, InWindow
<1>. QED BY <1>2, <1>3, <1>4, <1>5, <1>6

LEMMA Shrinks ==
  ASSUME NEW a \in Index, NEW b \in Index, NEW n \in Nat, n <= Distance(a, b)
  PROVE  /\ Plus(a, n) \in Index
         /\ Distance(a, Plus(a, n)) = n
         /\ Distance(Plus(a, n), b) = Distance(a, b) - n
         /\ Window(Plus(a, n), b) = Window(a, b) \ Window(a, Plus(a, n))
         /\ Window(a, Plus(a, n)) \subseteq Window(a, b)
<1>. DEFINE d == Distance(a, b)
            c == Plus(a, n)
<1>1. d \in 0 .. IndexMod - 1 /\ IndexMod \in Nat /\ n \in Index
  BY Reached, Constants DEF Index
<1>2. c \in Index /\ Distance(a, c) = n
  BY <1>1, Distances
<1>3. \A i \in Index : Distance(c, i) = IF n <= Distance(a, i) THEN Distance(a, i) - n
                                                              ELSE Distance(a, i) - n + IndexMod
  BY <1>1, Further
<1>4. ASSUME NEW i \in Index
      PROVE  i \in Window(c, b) <=> i \in Window(a, b) /\ i \notin Window(a, c)
  <2>1. Distance(a, i) \in 0 .. IndexMod - 1
    BY Reached DEF Index
  <2>2. Distance(c, b) = d - n
    BY <1>3
  <2>3. Distance(c, i) < d - n <=> Distance(a, i) < d /\ ~ Distance(a, i) < n
    <3>. HIDE DEF d, c
    <3>1. CASE n <= Distance(a, i)
      BY <1>1, <1>3, <2>1, <3>1
    <3>2. CASE ~ n <= Distance(a, i)
      BY <1>1, <1>3, <2>1, <3>2
    <3>. QED BY <3>1, <3>2
  <2>. QED BY <1>2, <2>2, <2>3, InWindow
<1>5. Distance(c, b) = d - n
  BY <1>3
<1>6. Window(c, b) \subseteq Index /\ Window(a, b) \subseteq Index /\ Window(a, c) \subseteq Index
  BY <1>2, InWindow
<1>7. ASSUME NEW i \in Window(a, c)
      PROVE  i \in Window(a, b)
  <2>1. i \in Index /\ Distance(a, i) < n /\ Distance(a, i) \in 0 .. IndexMod - 1
    <3>1. i \in Index /\ Distance(a, i) < Distance(a, c)
      BY <1>2, InWindow
    <3>2. Distance(a, i) \in 0 .. IndexMod - 1
      BY <3>1, Reached DEF Index
    <3>. QED BY <1>2, <3>1, <3>2
  <2>2. Distance(a, i) < d
    BY <1>1, <2>1
  <2>. QED BY <2>1, <2>2, InWindow
<1>8. Window(c, b) = Window(a, b) \ Window(a, c)
  BY <1>4, <1>6
<1>. QED BY <1>2, <1>5, <1>7, <1>8

LEMMA First ==
  ASSUME NEW a \in Index, NEW b \in Index, a # b
  PROVE  /\ Plus(a, 1) \in Index
         /\ Distance(a, Plus(a, 1)) = 1
         /\ Distance(Plus(a, 1), b) = Distance(a, b) - 1
         /\ Window(Plus(a, 1), b) = Window(a, b) \ {a}
         /\ a \in Window(a, b)
<1>1. Distance(a, b) \in Nat /\ Distance(a, b) >= 1 /\ Distance(a, a) = 0
  BY Reached, Nowhere, Constants DEF Index
<1>2. /\ Plus(a, 1) \in Index
      /\ Distance(a, Plus(a, 1)) = 1
      /\ Distance(Plus(a, 1), b) = Distance(a, b) - 1
      /\ Window(Plus(a, 1), b) = Window(a, b) \ Window(a, Plus(a, 1))
  BY <1>1, Shrinks
<1>3. \A i \in Index : Distance(a, i) < 1 <=> i = a
  <2>. TAKE i \in Index
  <2>1. Distance(a, i) \in Nat
    BY Reached, Constants DEF Index
  <2>2. Distance(a, i) < 1 <=> Distance(a, i) = 0
    BY <2>1
  <2>. QED BY <2>2, Nowhere
<1>4. Window(a, Plus(a, 1)) = {a}
  BY <1>2, <1>3, InWindow
<1>5. a \in Window(a, b)
  BY <1>1, InWindow
<1>. QED BY <1>2, <1>4, <1>5

(* Where an index points to in an array whose size divides IndexMod.       *)
LEMMA Slot ==
  ASSUME NEW N \in {SqEntries, CqEntries}, NEW a \in Index, NEW n \in Nat
  PROVE  Plus(a, n) % N = (a + n) % N
<1>. DEFINE M == IndexMod
            k == M \div N
<1>1. M \in Nat /\ M > 0 /\ N \in Nat /\ N > 0 /\ a + n \in Int /\ M % N = 0
  BY UringAssumption DEF Index
<1>. HIDE DEF M
<1>2. k \in Int /\ M = N * k
  <2>1. M \div N \in Int /\ M = N * (M \div N) + (M % N)
    BY <1>1, Division
  <2>. QED BY <1>1, <2>1
<1>. HIDE DEF k
<1>3. PICK q \in Int, r \in Int : a + n = M * q + r /\ r = (a + n) % M
  <2>1. (a + n) % M \in 0 .. M - 1 /\ (a + n) \div M \in Int /\ a + n = M * ((a + n) \div M) + ((a + n) % M)
    BY <1>1, Division
  <2>. QED BY <2>1
<1>4. M * q = N * (k * q)
  BY <1>1, <1>2, <1>3
<1>5. (N * (k * q) + r) % N = r % N
  <2>1. k * q \in Int
    BY <1>2, <1>3
  <2>. QED BY <1>1, <1>3, <2>1, SameRemainder
<1>. QED BY <1>3, <1>4, <1>5 DEF Plus, M

LEMMA OneSlot ==
  ASSUME NEW N \in {SqEntries, CqEntries}, NEW a \in Index, NEW b \in Index,
         Distance(a, b) <= N,
         NEW i \in Window(a, b), NEW j \in Window(a, b), i % N = j % N
  PROVE  i = j
<1>1. N \in Nat /\ N > 0 /\ a \in Int /\ Distance(a, b) \in Nat
  BY Constants, Reached DEF Index
<1>2. PICK m \in 0 .. N - 1, n \in 0 .. N - 1 : i = Plus(a, m) /\ j = Plus(a, n)
  BY <1>1 DEF Window
<1>3. (a + m) % N = (a + n) % N
  BY <1>2, Slot
<1>4. /\ (a + m) % N \in 0 .. N - 1 /\ (a + m) \div N \in Int
      /\ a + m = N * ((a + m) \div N) + ((a + m) % N)
      /\ (a + n) \div N \in Int
      /\ a + n = N * ((a + n) \div N) + ((a + n) % N)
  BY <1>1, Division
<1>5. PICK p \in Int, q \in Int, r \in Int : a + m = N * p + r /\ a + n = N * q + r
  BY <1>3, <1>4
<1>6. N * p + n = N * q + m
  <2>1. N * p \in Int /\ N * q \in Int
    BY <1>1
  <2>. QED BY <1>1, <1>5, <2>1
<1>7. m = n
  BY <1>1, <1>6, OneRemainder
<1>. QED BY <1>2, <1>7

(* The slot at the end of a window that is not full is free.               *)
LEMMA FreeSlot ==
  ASSUME NEW N \in {SqEntries, CqEntries}, NEW a \in Index, NEW b \in Index,
         Distance(a, b) < N,
         NEW i \in Window(a, b)
  PROVE  i % N # b % N
<1>1. /\ N \in Nat /\ Distance(a, b) \in Nat /\ IndexMod \in Nat
      /\ Distance(a, b) + 1 < IndexMod /\ Distance(a, b) + 1 <= N
  BY Constants, Reached DEF Index
<1>2. /\ Plus(b, 1) \in Index
      /\ Distance(a, Plus(b, 1)) <= N
      /\ i \in Window(a, Plus(b, 1)) /\ b \in Window(a, Plus(b, 1)) /\ i # b
  BY <1>1, Grows
<1>. QED BY <1>2, OneSlot

LEMMA SlotType ==
  ASSUME NEW N \in {SqEntries, CqEntries}, NEW i \in Index
  PROVE  i % N \in 0 .. N - 1
BY Constants, Division DEF Index

-----------------------------------------------------------------------------
(* The submission queue holds operations, those submitted before those     *)
(* that are not, and no more than there are entries.                       *)
SubmissionsInOrder ==
  /\ Distance(sq_head, sq_tail) + Distance(sq_tail, sq_tail_local) = Distance(sq_head, sq_tail_local)
  /\ Distance(sq_head, sq_tail_local) <= SqEntries
  /\ \A i \in Window(sq_head, sq_tail_local) : sqes[i % SqEntries] \in Ops

(* The completion queue: head and tail, which for_each_cqe keeps, lie in   *)
(* it in this order.                                                       *)
CompletionsInOrder ==
  /\ Distance(cq_head, cq_tail) <= CqEntries
  /\ pc \in {"reap", "callback"} =>
       Distance(cq_head, head) + Distance(head, tail) + Distance(tail, cq_tail)
         = Distance(cq_head, cq_tail)
  /\ pc = "callback" => head # tail
  /\ \A i \in Window(Unseen, cq_tail) : cqes[i % CqEntries] \in Answer

(* Where an operation is that has this status: in q, a set of places in    *)
(* the submission queue, in the kernel, in p, a set of places in the       *)
(* completion queue, or in none; and there in one place.                   *)
Place(o, st, q, k, p) ==
  \/ st = "idle"    /\ q = {}             /\ o \notin k /\ p = {}
  \/ st = "started" /\ (\E i \in q : q = {i})   /\ o \notin k /\ p = {}
  \/ st = "started" /\ q = {}             /\ o \in k    /\ p = {}
  \/ st = "started" /\ q = {}             /\ o \notin k /\ (\E i \in p : p = {i})

EachInPlace == \A o \in Ops : Place(o, status[o], Queued(o), kernel, Posted(o))

IInv ==
  /\ TypeOK
  /\ SubmissionsInOrder
  /\ CompletionsInOrder
  /\ EachInPlace

LEMMA Taken ==
  ASSUME NEW o, NEW st, NEW q, NEW k, NEW p, Place(o, st, q, k, p),
         NEW T, NEW l, o \in l <=> o \in k \/ q \intersect T # {}
  PROVE  Place(o, st, q \ T, l, p)
BY DEF Place

LEMMA Added ==
  ASSUME NEW o, NEW q, NEW k, NEW p, Place(o, "idle", q, k, p), NEW i
  PROVE  Place(o, "started", q \union {i}, k, p)
BY DEF Place

LEMMA Called ==
  ASSUME NEW o, NEW st, NEW q, NEW k, NEW p, Place(o, st, q, k, p), NEW i \in p
  PROVE  Place(o, "idle", q, k, p \ {i}) /\ p = {i} /\ st = "started"
BY DEF Place

(* What has been seen of the completion queue.                             *)
LEMMA Seen ==
  ASSUME TypeOK, CompletionsInOrder
  PROVE  /\ Unseen \in Index
         /\ Distance(cq_head, Unseen) \in Nat /\ Distance(Unseen, cq_tail) \in Nat
         /\ Distance(cq_head, Unseen) + Distance(Unseen, cq_tail) = Distance(cq_head, cq_tail)
<1>1. /\ IndexMod \in Nat /\ CqEntries \in Nat /\ CqEntries < IndexMod
      /\ cq_head \in Index /\ cq_tail \in Index /\ head \in Index /\ tail \in Index
      /\ pc \in {"out", "check", "wait", "reap", "callback"}
  BY Constants DEF TypeOK
<1>2. CASE pc \in {"out", "check", "wait"}
  <2>1. Unseen = cq_head
    BY <1>2 DEF Unseen
  <2>2. Distance(cq_head, cq_head) = 0 /\ Distance(cq_head, cq_tail) \in Nat
    BY <1>1, Nowhere, Natural
  <2>. QED BY <1>1, <2>1, <2>2
<1>3. CASE pc \in {"reap", "callback"}
  <2>1. /\ Distance(cq_head, head) + Distance(head, tail) + Distance(tail, cq_tail)
             = Distance(cq_head, cq_tail)
        /\ Distance(cq_head, cq_tail) <= CqEntries
    BY <1>3 DEF CompletionsInOrder
  <2>2. PICK u \in Nat, v \in Nat, w \in Nat, d \in Nat :
          /\ u = Distance(cq_head, head) /\ v = Distance(head, tail)
          /\ w = Distance(tail, cq_tail) /\ d = Distance(cq_head, cq_tail)
    BY <1>1, Natural
  <2>3. u + v + w = d /\ d <= CqEntries
    BY <2>1, <2>2
  <2>4. Distance(head, cq_tail) = v + w
    <3>1. v + w < IndexMod
      BY <1>1, <2>3
    <3>. QED BY <1>1, <2>2, <3>1, Between
  <2>5. CASE pc = "reap"
    <3>1. Unseen = head
      BY <2>5 DEF Unseen
    <3>. QED BY <1>1, <2>2, <2>3, <2>4, <3>1
  <2>6. CASE pc = "callback"
    <3>1. Unseen = Plus(head, 1)
      BY <2>6 DEF Unseen
    <3>2. v >= 1 /\ head # cq_tail
      <4>1. head # tail
        BY <2>6 DEF CompletionsInOrder
      <4>2. v # 0
        BY <1>1, <2>2, <4>1, Nowhere
      <4>3. v + w # 0
        BY <4>2
      <4>. QED BY <1>1, <2>4, <4>2, <4>3, Nowhere
    <3>3. /\ Plus(head, 1) \in Index /\ Distance(head, Plus(head, 1)) = 1
          /\ Distance(Plus(head, 1), cq_tail) = v + w - 1
      BY <1>1, <2>4, <3>2, First
    <3>4. Distance(cq_head, Plus(head, 1)) = u + 1
      <4>1. Distance(cq_head, head) + Distance(head, Plus(head, 1)) < IndexMod
        BY <1>1, <2>2, <2>3, <3>2, <3>3
      <4>. QED BY <1>1, <2>2, <3>3, <4>1, Between
    <3>. QED BY <1>1, <2>2, <2>3, <3>1, <3>2, <3>3, <3>4
  <2>. QED BY <1>3, <2>5, <2>6
<1>. QED BY <1>1, <1>2, <1>3

LEMMA InitIInv == Init => IInv
<1>. SUFFICES ASSUME Init PROVE IInv
  OBVIOUS
<1>1. /\ 0 \in Index /\ Distance(0, 0) = 0 /\ Window(0, 0) = {}
      /\ SqEntries \in Nat /\ CqEntries \in Nat
  <2>1. 0 \in Index
    BY Constants DEF Index
  <2>2. Distance(0, 0) = 0
    BY <2>1, Nowhere
  <2>3. Window(0, 0) = {}
    BY <2>2 DEF Window
  <2>. QED BY <2>1, <2>2, <2>3, Constants
<1>2. TypeOK
  BY <1>1 DEF Init, TypeOK
<1>3. Unseen = 0
  BY DEF Init, Unseen
<1>4. SubmissionsInOrder /\ CompletionsInOrder
  BY <1>1, <1>3 DEF Init, SubmissionsInOrder, CompletionsInOrder
<1>5. EachInPlace
  BY <1>1, <1>3 DEF Init, EachInPlace, Place, Queued, Posted
<1>. QED BY <1>2, <1>4, <1>5 DEF IInv

-----------------------------------------------------------------------------
(* The submission queue: what the kernel takes, it takes from the front.   *)
LEMMA Submits ==
  ASSUME TypeOK, SubmissionsInOrder, NEW n, Submit(n)
  PROVE  /\ sq_head' \in Index /\ sq_tail' = sq_tail_local
         /\ Distance(sq_head', sq_tail_local) \in Nat
         /\ Distance(sq_head', sq_tail_local) <= Distance(sq_head, sq_tail_local)
         /\ Distance(sq_head', sq_tail_local) >= Distance(sq_head, sq_tail)
         /\ Window(sq_head', sq_tail_local)
              = Window(sq_head, sq_tail_local) \ Window(sq_head, sq_head')
         /\ kernel' \subseteq Ops
         /\ \A o : o \in kernel' <=>
              o \in kernel \/ Queued(o) \intersect Window(sq_head, sq_head') # {}
<1>1. sq_head \in Index /\ sq_tail \in Index /\ sq_tail_local \in Index /\ kernel \subseteq Ops
  BY DEF TypeOK
<1>2. PICK d \in Nat, l \in Nat, s \in Nat :
        /\ d = Distance(sq_head, sq_tail_local)
        /\ l = Distance(sq_head, sq_tail) /\ s = Distance(sq_tail, sq_tail_local)
  BY <1>1, Natural
<1>3. l + s = d
  BY <1>2 DEF SubmissionsInOrder
<1>4. n \in Nat /\ n <= s /\ n <= d /\ d - n >= l
  BY <1>2, <1>3 DEF Submit, to_submit
<1>5. sq_head' = Plus(sq_head, n) /\ sq_tail' = sq_tail_local
  BY DEF Submit
<1>6. /\ sq_head' \in Index
      /\ Distance(sq_head', sq_tail_local) = d - n
      /\ Window(sq_head', sq_tail_local)
           = Window(sq_head, sq_tail_local) \ Window(sq_head, sq_head')
      /\ Window(sq_head, sq_head') \subseteq Window(sq_head, sq_tail_local)
  BY <1>1, <1>2, <1>4, <1>5, Shrinks
<1>7. kernel' = kernel \union {sqes[i % SqEntries] : i \in Window(sq_head, sq_head')}
  BY DEF Submit
<1>8. kernel' \subseteq Ops
  BY <1>1, <1>6, <1>7 DEF SubmissionsInOrder
<1>9. \A o : o \in kernel' <=>
        o \in kernel \/ Queued(o) \intersect Window(sq_head, sq_head') # {}
  BY <1>6, <1>7 DEF Queued
<1>. QED BY <1>2, <1>4, <1>5, <1>6, <1>8, <1>9

LEMMA Enqueues ==
  ASSUME TypeOK, NEW x \in Ops, Enqueue(x),
         NEW h \in Index, Distance(h, sq_tail_local) < SqEntries
  PROVE  /\ sq_tail_local' \in Index
         /\ sqes' \in [0 .. SqEntries - 1 -> Ops \union {None}]
         /\ Distance(h, sq_tail_local') = Distance(h, sq_tail_local) + 1
         /\ Window(h, sq_tail_local') = Window(h, sq_tail_local) \union {sq_tail_local}
         /\ \A i \in Window(h, sq_tail_local) : sqes'[i % SqEntries] = sqes[i % SqEntries]
         /\ sqes'[sq_tail_local % SqEntries] = x
<1>. DEFINE l == sq_tail_local % SqEntries
<1>1. /\ sq_tail_local \in Index
      /\ sqes \in [0 .. SqEntries - 1 -> Ops \union {None}]
      /\ Distance(h, sq_tail_local) \in Nat
      /\ Distance(h, sq_tail_local) + 1 < IndexMod
  <2>1. sq_tail_local \in Index /\ sqes \in [0 .. SqEntries - 1 -> Ops \union {None}]
    BY DEF TypeOK
  <2>2. Distance(h, sq_tail_local) \in Nat
    BY <2>1, Natural
  <2>. QED BY <2>1, <2>2, Constants
<1>2. sqes' = [sqes EXCEPT ![l] = x] /\ sq_tail_local' = Plus(sq_tail_local, 1)
  BY DEF Enqueue
<1>3. /\ sq_tail_local' \in Index
      /\ Distance(h, sq_tail_local') = Distance(h, sq_tail_local) + 1
      /\ Window(h, sq_tail_local') = Window(h, sq_tail_local) \union {sq_tail_local}
  BY <1>1, <1>2, Grows
<1>4. l \in 0 .. SqEntries - 1
  BY <1>1, SlotType
<1>5. \A i \in Window(h, sq_tail_local) : i % SqEntries # l
  BY <1>1, FreeSlot
<1>6. \A i \in Window(h, sq_tail_local) : i % SqEntries \in 0 .. SqEntries - 1
  BY <1>1, InWindow, SlotType
<1>. HIDE DEF l
<1>7. /\ sqes' \in [0 .. SqEntries - 1 -> Ops \union {None}]
      /\ \A i \in Window(h, sq_tail_local) : sqes'[i % SqEntries] = sqes[i % SqEntries]
      /\ sqes'[l] = x
  BY <1>1, <1>2, <1>4, <1>5, <1>6
<1>. QED BY <1>3, <1>7 DEF l

LEMMA Submitted ==
  ASSUME IInv, NEW n, Submit(n), UNCHANGED <<sq_tail_local, sqes, status, cq_tail, cqes>>,
         Unseen' = Unseen
  PROVE  SubmissionsInOrder' /\ EachInPlace' /\ sq_head' \in Index /\ sq_tail' \in Index
         /\ kernel' \subseteq Ops
<1>. USE DEF IInv
<1>1. /\ sq_head' \in Index /\ sq_tail' = sq_tail_local /\ sq_tail_local \in Index
      /\ Distance(sq_head', sq_tail_local) \in Nat
      /\ Distance(sq_head', sq_tail_local) <= Distance(sq_head, sq_tail_local)
      /\ Window(sq_head', sq_tail_local)
           = Window(sq_head, sq_tail_local) \ Window(sq_head, sq_head')
      /\ kernel' \subseteq Ops
      /\ \A o : o \in kernel' <=>
           o \in kernel \/ Queued(o) \intersect Window(sq_head, sq_head') # {}
  BY Submits DEF TypeOK
<1>2. SubmissionsInOrder'
  <2>1. Distance(sq_tail_local, sq_tail_local) = 0
    BY <1>1, Nowhere
  <2>2. Distance(sq_head', sq_tail_local) <= SqEntries
    <3>1. Distance(sq_head, sq_tail_local) \in Nat /\ SqEntries \in Nat
      BY Natural, Constants DEF TypeOK
    <3>. QED BY <1>1, <3>1 DEF SubmissionsInOrder
  <2>. QED BY <1>1, <2>1, <2>2 DEF SubmissionsInOrder
<1>3. EachInPlace'
  <2>. SUFFICES ASSUME NEW o \in Ops
                PROVE  Place(o, status[o], Queued(o)', kernel', Posted(o)')
    BY DEF EachInPlace, Place
  <2>1. Queued(o)' = Queued(o) \ Window(sq_head, sq_head') /\ Posted(o)' = Posted(o)
    BY <1>1 DEF Queued, Posted
  <2>2. Place(o, status[o], Queued(o), kernel, Posted(o))
    BY DEF EachInPlace
  <2>. QED BY <1>1, <2>1, <2>2, Taken
<1>. QED BY <1>1, <1>2, <1>3

(* A new operation goes behind those that are left in the queue, which     *)
(* has room for it.                                                        *)
LEMMA Started ==
  ASSUME IInv, NEW x \in Ops, status[x] = "idle", Enqueue(x),
         UNCHANGED <<cq_tail, cqes>>, Unseen' = Unseen,
         NEW T,
         sq_head' \in Index, sq_tail' \in Index,
         Distance(sq_head', sq_tail_local) < SqEntries,
         Distance(sq_head', sq_tail') + Distance(sq_tail', sq_tail_local)
           = Distance(sq_head', sq_tail_local),
         Window(sq_head', sq_tail_local) = Window(sq_head, sq_tail_local) \ T,
         \A o : o \in kernel' <=> o \in kernel \/ Queued(o) \intersect T # {}
  PROVE  /\ SubmissionsInOrder' /\ EachInPlace'
         /\ sq_tail_local' \in Index
         /\ sqes' \in [0 .. SqEntries - 1 -> Ops \union {None}]
         /\ status' \in [Ops -> {"idle", "started"}]
<1>. USE DEF IInv
<1>1. sq_tail_local \in Index /\ status \in [Ops -> {"idle", "started"}]
  BY DEF TypeOK
<1>2. PICK d \in Nat, l \in Nat, s \in Nat :
        /\ d = Distance(sq_head', sq_tail_local)
        /\ l = Distance(sq_head', sq_tail') /\ s = Distance(sq_tail', sq_tail_local)
        /\ l + s = d /\ d < SqEntries
  BY <1>1, Natural
<1>3. /\ sq_tail_local' \in Index
      /\ sqes' \in [0 .. SqEntries - 1 -> Ops \union {None}]
      /\ Distance(sq_head', sq_tail_local') = d + 1
      /\ Window(sq_head', sq_tail_local') = Window(sq_head', sq_tail_local) \union {sq_tail_local}
      /\ \A i \in Window(sq_head', sq_tail_local) : sqes'[i % SqEntries] = sqes[i % SqEntries]
      /\ sqes'[sq_tail_local % SqEntries] = x
  <2>1. \A h \in Index : Distance(h, sq_tail_local) < SqEntries =>
          /\ sq_tail_local' \in Index
          /\ sqes' \in [0 .. SqEntries - 1 -> Ops \union {None}]
          /\ Distance(h, sq_tail_local') = Distance(h, sq_tail_local) + 1
          /\ Window(h, sq_tail_local') = Window(h, sq_tail_local) \union {sq_tail_local}
          /\ \A i \in Window(h, sq_tail_local) : sqes'[i % SqEntries] = sqes[i % SqEntries]
          /\ sqes'[sq_tail_local % SqEntries] = x
    BY Enqueues
  <2>. QED BY <1>2, <2>1
<1>4. Distance(sq_tail', sq_tail_local') = s + 1
  <2>1. s < SqEntries
    BY <1>2, Constants
  <2>2. \A h \in Index : Distance(h, sq_tail_local) < SqEntries =>
          Distance(h, sq_tail_local') = Distance(h, sq_tail_local) + 1
    BY Enqueues
  <2>. QED BY <1>2, <2>1, <2>2
<1>5. SubmissionsInOrder'
  <2>1. l + (s + 1) = d + 1 /\ d + 1 <= SqEntries
    BY <1>2, Constants
  <2>2. \A i \in Window(sq_head', sq_tail_local') : sqes'[i % SqEntries] \in Ops
    <3>1. \A i \in Window(sq_head', sq_tail_local) : sqes[i % SqEntries] \in Ops
      BY DEF SubmissionsInOrder
    <3>. QED BY <1>3, <3>1
  <2>. QED BY <1>2, <1>3, <1>4, <2>1, <2>2 DEF SubmissionsInOrder
<1>6. status' = [status EXCEPT ![x] = "started"]
  BY DEF Enqueue
<1>7. EachInPlace'
  <2>. SUFFICES ASSUME NEW o \in Ops
                PROVE  Place(o, status'[o], Queued(o)', kernel', Posted(o)')
    BY DEF EachInPlace, Place
  <2>1. Place(o, status[o], Queued(o) \ T, kernel', Posted(o))
    BY Taken DEF EachInPlace
  <2>2. Posted(o)' = Posted(o)
    BY DEF Posted
  <2>3. Queued(o)' = IF o = x THEN (Queued(o) \ T) \union {sq_tail_local} ELSE Queued(o) \ T
    BY <1>3 DEF Queued
  <2>4. CASE o = x
    <3>1. Place(o, "idle", Queued(o) \ T, kernel', Posted(o))
      BY <2>1, <2>4
    <3>2. status'[o] = "started"
      BY <1>1, <1>6, <2>4
    <3>3. Place(o, "started", (Queued(o) \ T) \union {sq_tail_local}, kernel', Posted(o))
      BY <3>1, Added
    <3>. QED BY <2>2, <2>3, <2>4, <3>2, <3>3
  <2>5. CASE o # x
    <3>1. status'[o] = status[o]
      BY <1>1, <1>6, <2>5
    <3>. QED BY <2>1, <2>2, <2>3, <2>5, <3>1
  <2>. QED BY <2>4, <2>5
<1>8. status' \in [Ops -> {"idle", "started"}]
  BY <1>1, <1>6
<1>. QED BY <1>3, <1>5, <1>7, <1>8

-----------------------------------------------------------------------------
(* What steps leave alone.                                                 *)
LEMMA SameSubmissions ==
  ASSUME SubmissionsInOrder, UNCHANGED sqVars
  PROVE  SubmissionsInOrder'
BY DEF SubmissionsInOrder, sqVars

LEMMA SamePlaces ==
  ASSUME EachInPlace, UNCHANGED <<sqVars, kernel, status, cq_tail, cqes>>, Unseen' = Unseen
  PROVE  EachInPlace'
BY DEF EachInPlace, Place, Queued, Posted, sqVars

LEMMA SameCompletions ==
  ASSUME CompletionsInOrder, UNCHANGED cqVars,
         \/ UNCHANGED <<pc, head, tail>>
         \/ pc \in {"out", "check", "wait"} /\ pc' \in {"out", "check", "wait"}
  PROVE  CompletionsInOrder' /\ Unseen' = Unseen
<1>1. Unseen' = Unseen
  BY DEF Unseen, cqVars
<1>. QED BY <1>1 DEF CompletionsInOrder, cqVars

LEMMA Reaping ==
  ASSUME TypeOK, CompletionsInOrder, UNCHANGED cqVars,
         pc \in {"out", "check", "wait"}, BeginReaping
  PROVE  CompletionsInOrder' /\ Unseen' = Unseen
<1>1. cq_head \in Index /\ cq_tail \in Index
  BY DEF TypeOK
<1>2. Unseen' = Unseen
  BY DEF Unseen, cqVars, BeginReaping
<1>3. /\ Distance(cq_head, cq_head) = 0 /\ Distance(cq_tail, cq_tail) = 0
      /\ Distance(cq_head, cq_tail) \in Nat
  BY <1>1, Nowhere, Natural
<1>. QED BY <1>2, <1>3 DEF CompletionsInOrder, cqVars, BeginReaping

LEMMA StartStep ==
  ASSUME IInv, NEW x \in Ops, start(x)
  PROVE  IInv' /\ Unseen' = Unseen
<1>. USE DEF IInv
<1>1. /\ status[x] = "idle"
      /\ UNCHANGED <<cqVars, pc, mode, head, tail, stop>>
  BY DEF start, loopVars
<1>2. CompletionsInOrder' /\ Unseen' = Unseen
  BY <1>1, SameCompletions
<1>3. /\ sq_head \in Index /\ sq_tail \in Index /\ sq_tail_local \in Index
      /\ Distance(sq_head, sq_tail_local) \in Nat /\ SqEntries \in Nat
  BY Natural, Constants DEF TypeOK
<1>4. CASE Room(sq_head) /\ Enqueue(x) /\ UNCHANGED <<sq_head, sq_tail, kernel>>
  <2>1. Distance(sq_head, sq_tail_local) < SqEntries
    BY <1>4 DEF Room
  <2>2. /\ Distance(sq_head, sq_tail) + Distance(sq_tail, sq_tail_local)
             = Distance(sq_head, sq_tail_local)
        /\ Window(sq_head, sq_tail_local) = Window(sq_head, sq_tail_local) \ {}
    BY DEF SubmissionsInOrder
  <2>3. \A o : o \in kernel <=> o \in kernel \/ Queued(o) \intersect {} # {}
    OBVIOUS
  <2>4. /\ SubmissionsInOrder' /\ EachInPlace'
        /\ sq_tail_local' \in Index
        /\ sqes' \in [0 .. SqEntries - 1 -> Ops \union {None}]
        /\ status' \in [Ops -> {"idle", "started"}]
    BY <1>1, <1>2, <1>3, <1>4, <2>1, <2>2, <2>3, Started DEF cqVars
  <2>. QED BY <1>1, <1>2, <1>4, <2>4 DEF TypeOK, cqVars
<1>5. ASSUME NEW n \in 0 .. SqEntries, Submit(n), Room(sq_head'), Enqueue(x)
      PROVE  IInv'
  <2>1. /\ sq_head' \in Index /\ sq_tail' = sq_tail_local
        /\ Window(sq_head', sq_tail_local)
             = Window(sq_head, sq_tail_local) \ Window(sq_head, sq_head')
        /\ kernel' \subseteq Ops
        /\ \A o : o \in kernel' <=>
             o \in kernel \/ Queued(o) \intersect Window(sq_head, sq_head') # {}
    BY <1>5, Submits
  <2>2. Distance(sq_head', sq_tail_local) < SqEntries
    BY <1>5 DEF Room
  <2>3. Distance(sq_head', sq_tail') + Distance(sq_tail', sq_tail_local)
          = Distance(sq_head', sq_tail_local)
    BY <1>3, <2>1, Nowhere, Natural
  <2>4. /\ SubmissionsInOrder' /\ EachInPlace'
        /\ sq_tail_local' \in Index
        /\ sqes' \in [0 .. SqEntries - 1 -> Ops \union {None}]
        /\ status' \in [Ops -> {"idle", "started"}]
    BY <1>1, <1>2, <1>3, <1>5, <2>1, <2>2, <2>3, Started DEF cqVars
  <2>. QED BY <1>1, <1>2, <1>3, <2>1, <2>4 DEF TypeOK, cqVars
<1>6. ASSUME NEW n \in 0 .. SqEntries, Submit(n), UNCHANGED <<sqes, sq_tail_local, status>>
      PROVE  IInv'
  <2>1. /\ SubmissionsInOrder' /\ EachInPlace' /\ sq_head' \in Index /\ sq_tail' \in Index
        /\ kernel' \subseteq Ops
    BY <1>1, <1>2, <1>6, Submitted DEF cqVars
  <2>. QED BY <1>1, <1>2, <1>6, <2>1 DEF TypeOK, cqVars
<1>. QED BY <1>2, <1>4, <1>5, <1>6 DEF start

LEMMA SubmitStep ==
  ASSUME IInv, \/ submit_and_wait \/ submit_fails \/ run_once
               \/ \E n \in 1 .. SqEntries : submit_partly(n)
  PROVE  IInv' /\ Unseen' = Unseen
<1>. USE DEF IInv
<1>1. PICK n : Submit(n)
  BY DEF submit_and_wait, submit_fails, run_once, submit_partly
<1>2. UNCHANGED <<sq_tail_local, sqes, cqVars, status>>
  BY DEF submit_and_wait, submit_fails, run_once, submit_partly
<1>3. /\ pc \in {"out", "check", "wait"}
      /\ \/ pc' \in {"out", "check", "wait"} /\ UNCHANGED <<head, tail>>
         \/ BeginReaping
  BY DEF submit_and_wait, submit_fails, run_once, submit_partly
<1>4. /\ CompletionsInOrder' /\ Unseen' = Unseen
      /\ head' \in Index /\ tail' \in Index
      /\ pc' \in {"out", "check", "wait", "reap", "callback"}
  BY <1>2, <1>3, SameCompletions, Reaping DEF TypeOK, BeginReaping
<1>5. /\ SubmissionsInOrder' /\ EachInPlace' /\ sq_head' \in Index /\ sq_tail' \in Index
      /\ kernel' \subseteq Ops
  BY <1>1, <1>2, <1>4, Submitted DEF cqVars
<1>6. TypeOK'
  BY <1>2, <1>4, <1>5 DEF TypeOK, cqVars
<1>. QED BY <1>4, <1>5, <1>6

LEMMA LoopStep ==
  ASSUME IInv, \/ run \/ request_stop \/ leave_run \/ interrupt \/ wait_returns
               \/ UNCHANGED vars
  PROVE  IInv' /\ Unseen' = Unseen /\ UNCHANGED <<sqVars, kernel, status, cqVars>>
<1>. USE DEF IInv
<1>1. UNCHANGED <<sqVars, kernel, status, cqVars>>
  BY DEF run, request_stop, leave_run, interrupt, wait_returns, vars
<1>2. \/ UNCHANGED <<pc, head, tail>>
      \/ /\ pc \in {"out", "check", "wait"} /\ pc' \in {"out", "check", "wait"}
         /\ UNCHANGED <<head, tail>>
      \/ pc = "wait" /\ BeginReaping
  BY DEF run, request_stop, leave_run, interrupt, wait_returns, vars, loopVars
<1>3. CompletionsInOrder' /\ Unseen' = Unseen
  BY <1>1, <1>2, SameCompletions, Reaping
<1>4. SubmissionsInOrder' /\ EachInPlace'
  BY <1>1, <1>3, SameSubmissions, SamePlaces DEF cqVars
<1>5. TypeOK'
  BY <1>1, <1>2 DEF TypeOK, BeginReaping, sqVars, cqVars
<1>. QED BY <1>1, <1>3, <1>4, <1>5

-----------------------------------------------------------------------------
(* The completion queue.                                                   *)
LEMMA CallbackStep ==
  ASSUME IInv, callback
  PROVE  \E x \in Ops :
           /\ IInv'
           /\ head \in Posted(x)
           /\ status[x] = "started"
           /\ status' = [status EXCEPT ![x] = "idle"]
           /\ \A o \in Ops : Posted(o)' = IF o = x THEN {} ELSE Posted(o)
<1>. USE DEF IInv
<1>1. /\ pc = "reap" /\ head # tail /\ pc' = "callback"
      /\ UNCHANGED <<sqVars, kernel, cqVars, mode, head, tail, stop>>
  BY DEF callback
<1>2. /\ head \in Index /\ tail \in Index /\ cq_head \in Index /\ cq_tail \in Index
      /\ IndexMod \in Nat /\ CqEntries \in Nat /\ CqEntries < IndexMod
  BY Constants DEF TypeOK
<1>3. Unseen = head /\ Unseen' = Plus(head, 1)
  BY <1>1 DEF Unseen
<1>4. head # cq_tail
  <2>1. PICK u \in Nat, v \in Nat, w \in Nat :
          /\ u = Distance(cq_head, head) /\ v = Distance(head, tail) /\ w = Distance(tail, cq_tail)
    BY <1>2, Natural
  <2>2. u + v + w = Distance(cq_head, cq_tail) /\ Distance(cq_head, cq_tail) \in Nat
        /\ Distance(cq_head, cq_tail) <= CqEntries
    BY <1>1, <1>2, <2>1, Natural DEF CompletionsInOrder
  <2>3. v # 0
    BY <1>1, <1>2, <2>1, Nowhere
  <2>4. v + w < IndexMod /\ v + w # 0
    BY <1>2, <2>1, <2>2, <2>3
  <2>5. Distance(head, cq_tail) = v + w
    BY <1>2, <2>1, <2>4, Between
  <2>. QED BY <1>2, <2>4, <2>5, Nowhere
<1>5. /\ Window(Unseen', cq_tail) = Window(Unseen, cq_tail) \ {head}
      /\ head \in Window(Unseen, cq_tail)
  BY <1>2, <1>3, <1>4, First
<1>6. PICK x \in Ops : x = cqes[head % CqEntries].op
  BY <1>5 DEF CompletionsInOrder, Answer
<1>7. status' = [status EXCEPT ![x] = "idle"]
  BY <1>6 DEF callback
<1>8. head \in Posted(x) /\ \A o \in Ops : o # x => head \notin Posted(o)
  BY <1>5, <1>6 DEF Posted
<1>9. \A o : Posted(o)' = Posted(o) \ {head}
  BY <1>1, <1>5 DEF Posted, cqVars
<1>10. Place(x, "idle", Queued(x), kernel, Posted(x) \ {head})
       /\ Posted(x) = {head} /\ status[x] = "started"
  BY <1>8, Called DEF EachInPlace
<1>11. TypeOK'
  <2>1. status' \in [Ops -> {"idle", "started"}]
    BY <1>7 DEF TypeOK
  <2>. QED BY <1>1, <2>1 DEF TypeOK, sqVars, cqVars
<1>12. EachInPlace'
  <2>. SUFFICES ASSUME NEW o \in Ops
                PROVE  Place(o, status'[o], Queued(o)', kernel, Posted(o) \ {head})
    BY <1>1, <1>9 DEF EachInPlace, Place
  <2>1. Queued(o)' = Queued(o)
    BY <1>1 DEF Queued, sqVars
  <2>2. CASE o = x
    BY <1>7, <1>10, <2>1, <2>2 DEF TypeOK
  <2>3. CASE o # x
    <3>1. Posted(o) \ {head} = Posted(o) /\ status'[o] = status[o]
      BY <1>7, <1>8, <2>3 DEF TypeOK
    <3>. QED BY <2>1, <3>1 DEF EachInPlace
  <2>. QED BY <2>2, <2>3
<1>13. CompletionsInOrder'
  BY <1>1, <1>5 DEF CompletionsInOrder, cqVars
<1>14. SubmissionsInOrder'
  BY <1>1, SameSubmissions
<1>. QED BY <1>7, <1>8, <1>9, <1>10, <1>11, <1>12, <1>13, <1>14

LEMMA ReturnStep ==
  ASSUME IInv, callback_returns
  PROVE  IInv' /\ Unseen' = Unseen
<1>. USE DEF IInv
<1>1. /\ pc = "callback" /\ pc' = "reap" /\ head' = Plus(head, 1) /\ head # tail
      /\ UNCHANGED <<sqVars, kernel, cqVars, mode, tail, stop, status>>
  BY DEF callback_returns, CompletionsInOrder
<1>2. /\ head \in Index /\ tail \in Index /\ cq_head \in Index /\ cq_tail \in Index
      /\ IndexMod \in Nat /\ CqEntries \in Nat /\ CqEntries < IndexMod
  BY Constants DEF TypeOK
<1>3. Unseen' = Unseen
  BY <1>1 DEF Unseen
<1>4. PICK u \in Nat, v \in Nat, w \in Nat, d \in Nat :
        /\ u = Distance(cq_head, head) /\ v = Distance(head, tail)
        /\ w = Distance(tail, cq_tail) /\ d = Distance(cq_head, cq_tail)
  BY <1>2, Natural
<1>5. u + v + w = d /\ d <= CqEntries /\ v # 0
  BY <1>1, <1>2, <1>4, Nowhere DEF CompletionsInOrder
<1>6. /\ head' \in Index /\ Distance(head, head') = 1
      /\ Distance(head', tail) = v - 1
  BY <1>1, <1>2, <1>4, First
<1>7. Distance(cq_head, head') = u + 1
  <2>1. Distance(cq_head, head) + Distance(head, head') < IndexMod
    BY <1>2, <1>4, <1>5, <1>6
  <2>. QED BY <1>2, <1>4, <1>6, <2>1, Between
<1>8. CompletionsInOrder'
  <2>1. (u + 1) + (v - 1) + w = d
    BY <1>5
  <2>. QED BY <1>1, <1>3, <1>4, <1>6, <1>7, <2>1 DEF CompletionsInOrder, cqVars
<1>9. SubmissionsInOrder' /\ EachInPlace'
  BY <1>1, <1>3, SameSubmissions, SamePlaces DEF cqVars
<1>10. TypeOK'
  BY <1>1, <1>6 DEF TypeOK, sqVars, cqVars
<1>. QED BY <1>3, <1>8, <1>9, <1>10

LEMMA ReapedStep ==
  ASSUME IInv, reaped
  PROVE  IInv' /\ Unseen' = Unseen
<1>. USE DEF IInv
<1>1. /\ pc = "reap" /\ head = tail /\ cq_head' = head /\ pc' \in {"check", "out"}
      /\ UNCHANGED <<sqVars, kernel, cq_tail, cqes, head, tail, stop, status>>
  BY DEF reaped, Release
<1>2. Unseen = head /\ Unseen' = Unseen
  BY <1>1 DEF Unseen
<1>3. Distance(head, cq_tail) <= CqEntries
  <2>1. /\ Distance(cq_head, head) \in Nat /\ Distance(head, cq_tail) \in Nat
        /\ Distance(cq_head, head) + Distance(head, cq_tail) = Distance(cq_head, cq_tail)
    BY <1>2, Seen
  <2>2. Distance(cq_head, cq_tail) <= CqEntries /\ CqEntries \in Nat
    BY Constants DEF CompletionsInOrder
  <2>. QED BY <2>1, <2>2
<1>4. CompletionsInOrder'
  BY <1>1, <1>2, <1>3 DEF CompletionsInOrder
<1>5. SubmissionsInOrder' /\ EachInPlace'
  BY <1>1, <1>2, SameSubmissions, SamePlaces
<1>6. TypeOK'
  BY <1>1 DEF TypeOK, sqVars
<1>. QED BY <1>2, <1>4, <1>5, <1>6

LEMMA CompletesStep ==
  ASSUME IInv, NEW x \in Ops, NEW res \in Results[x], kernel_completes(x, res)
  PROVE  /\ IInv'
         /\ status[x] = "started" /\ Posted(x) = {}
         /\ \A o \in Ops : Posted(o)' = IF o = x THEN {cq_tail} ELSE Posted(o)
         /\ cqes'[cq_tail % CqEntries] = [op |-> x, res |-> res]
         /\ \A i \in Window(Unseen, cq_tail) : cqes'[i % CqEntries] = cqes[i % CqEntries]
<1>. USE DEF IInv
<1>. DEFINE l == cq_tail % CqEntries
            e == [op |-> x, res |-> res]
<1>1. /\ x \in kernel /\ kernel' = kernel \ {x}
      /\ Distance(cq_head, cq_tail) < CqEntries
      /\ cqes' = [cqes EXCEPT ![l] = e]
      /\ cq_tail' = Plus(cq_tail, 1)
      /\ UNCHANGED <<sqVars, cq_head, pc, head, tail, stop, status>>
  BY DEF kernel_completes, loopVars
<1>2. /\ head \in Index /\ tail \in Index /\ cq_head \in Index /\ cq_tail \in Index
      /\ cqes \in [0 .. CqEntries - 1 -> Answer \union {None}]
      /\ IndexMod \in Nat /\ CqEntries \in Nat /\ CqEntries < IndexMod
  BY Constants DEF TypeOK
<1>3. Unseen' = Unseen /\ Unseen \in Index
  BY <1>1, Seen DEF Unseen
<1>4. Distance(Unseen, cq_tail) < CqEntries /\ Distance(Unseen, cq_tail) \in Nat
      /\ Distance(cq_head, cq_tail) \in Nat
  <2>1. /\ Distance(cq_head, Unseen) \in Nat /\ Distance(Unseen, cq_tail) \in Nat
        /\ Distance(cq_head, Unseen) + Distance(Unseen, cq_tail) = Distance(cq_head, cq_tail)
    BY Seen
  <2>. QED BY <1>1, <1>2, <2>1
<1>5. /\ cq_tail' \in Index
      /\ Window(Unseen, cq_tail') = Window(Unseen, cq_tail) \union {cq_tail}
      /\ Distance(cq_head, cq_tail') = Distance(cq_head, cq_tail) + 1
  <2>1. Distance(Unseen, cq_tail) + 1 < IndexMod /\ Distance(cq_head, cq_tail) + 1 < IndexMod
    BY <1>1, <1>2, <1>4
  <2>. QED BY <1>1, <1>2, <1>3, <2>1, Grows
<1>6. e \in Answer
  BY Constants DEF Answer
<1>7. \A i \in Window(Unseen, cq_tail) : i % CqEntries # l /\ i % CqEntries \in 0 .. CqEntries - 1
  BY <1>2, <1>3, <1>4, FreeSlot, InWindow, SlotType
<1>8. l \in 0 .. CqEntries - 1
  BY <1>2, SlotType
<1>. HIDE DEF l, e
<1>9. /\ cqes' \in [0 .. CqEntries - 1 -> Answer \union {None}]
      /\ \A i \in Window(Unseen, cq_tail) : cqes'[i % CqEntries] = cqes[i % CqEntries]
      /\ cqes'[l] = e
  BY <1>1, <1>2, <1>6, <1>7, <1>8
<1>10. /\ e.op = x
       /\ \A i \in Window(Unseen, cq_tail) : cqes'[i % CqEntries].op = cqes[i % CqEntries].op
  BY <1>9 DEF e
<1>11. \A o \in Ops : Posted(o)' = IF o = x THEN Posted(o) \union {cq_tail} ELSE Posted(o)
  BY <1>3, <1>5, <1>9, <1>10 DEF Posted, l
<1>12. Place(x, status[x], Queued(x), kernel \ {x}, Posted(x) \union {cq_tail})
       /\ Posted(x) = {} /\ status[x] = "started"
  <2>1. Place(x, status[x], Queued(x), kernel, Posted(x))
    BY DEF EachInPlace
  <2>2. x \in kernel
    BY <1>1
  <2>. QED BY <2>1, <2>2 DEF Place
<1>13. EachInPlace'
  <2>. SUFFICES ASSUME NEW o \in Ops
                PROVE  Place(o, status[o], Queued(o)', kernel', Posted(o)')
    BY <1>1 DEF EachInPlace, Place
  <2>1. Queued(o)' = Queued(o)
    BY <1>1 DEF Queued, sqVars
  <2>2. CASE o = x
    BY <1>1, <1>11, <1>12, <2>1, <2>2
  <2>3. CASE o # x
    <3>1. Place(o, status[o], Queued(o), kernel, Posted(o)) /\ (o \in kernel' <=> o \in kernel)
      BY <1>1, <2>3 DEF EachInPlace
    <3>. QED BY <1>11, <2>1, <2>3, <3>1 DEF Place
  <2>. QED BY <2>2, <2>3
<1>14. CompletionsInOrder'
  <2>1. Distance(cq_head, cq_tail') <= CqEntries
    BY <1>1, <1>2, <1>4, <1>5
  <2>2. ASSUME pc \in {"reap", "callback"}
        PROVE  Distance(cq_head, head) + Distance(head, tail) + Distance(tail, cq_tail')
                 = Distance(cq_head, cq_tail')
    <3>1. PICK u \in Nat, v \in Nat, w \in Nat, d \in Nat :
            /\ u = Distance(cq_head, head) /\ v = Distance(head, tail)
            /\ w = Distance(tail, cq_tail) /\ d = Distance(cq_head, cq_tail)
      BY <1>2, Natural
    <3>2. u + v + w = d /\ d < CqEntries /\ w + 1 < IndexMod
      <4>1. u + v + w = d /\ d < CqEntries
        BY <1>1, <2>2, <3>1 DEF CompletionsInOrder
      <4>. QED BY <1>2, <4>1
    <3>3. Distance(tail, cq_tail') = w + 1
      BY <1>1, <1>2, <3>1, <3>2, Grows
    <3>. QED BY <1>5, <3>1, <3>2, <3>3
  <2>3. \A i \in Window(Unseen, cq_tail') : cqes'[i % CqEntries] \in Answer
    BY <1>5, <1>6, <1>9 DEF CompletionsInOrder, l
  <2>. QED BY <1>1, <1>3, <2>1, <2>2, <2>3 DEF CompletionsInOrder
<1>15. SubmissionsInOrder'
  BY <1>1, SameSubmissions
<1>16. TypeOK'
  BY <1>1, <1>5, <1>9 DEF TypeOK, sqVars
<1>. QED BY <1>9, <1>11, <1>12, <1>13, <1>14, <1>15, <1>16 DEF l, e

-----------------------------------------------------------------------------
LEMMA NextIInv == IInv /\ [Next]_vars => IInv'
<1>. SUFFICES ASSUME IInv, [Next]_vars PROVE IInv'
  OBVIOUS
<1>1. ASSUME NEW o \in Ops, start(o) PROVE IInv'
  BY <1>1, StartStep
<1>2. CASE \/ submit_and_wait \/ submit_fails \/ run_once
           \/ \E n \in 1 .. SqEntries : submit_partly(n)
  BY <1>2, SubmitStep
<1>3. CASE run \/ request_stop \/ leave_run \/ interrupt \/ wait_returns \/ UNCHANGED vars
  BY <1>3, LoopStep
<1>4. CASE callback
  BY <1>4, CallbackStep
<1>5. CASE callback_returns
  BY <1>5, ReturnStep
<1>6. CASE reaped
  BY <1>6, ReapedStep
<1>7. ASSUME NEW o \in Ops, NEW res \in Results[o], kernel_completes(o, res) PROVE IInv'
  BY <1>7, CompletesStep
<1>. QED BY <1>1, <1>2, <1>3, <1>4, <1>5, <1>6, <1>7 DEF Next

(* The rings hold no more than they have room for, in order, and each      *)
(* operation is in one of the places it can be in.                         *)
THEOREM Invariance == Spec => []IInv
<1>. QED BY InitIInv, NextIInv, PTL DEF Spec

LEMMA OnePlace == IInv => InOnePlace
<1>. SUFFICES ASSUME IInv, NEW o \in Ops
              PROVE  Cardinality(Queued(o)) + Cardinality(Posted(o)) + (IF o \in kernel THEN 1 ELSE 0)
                       = IF status[o] = "started" THEN 1 ELSE 0
  BY DEF InOnePlace
<1>1. Place(o, status[o], Queued(o), kernel, Posted(o))
  BY DEF IInv, EachInPlace
<1>2. Cardinality({}) = 0 /\ \A i : Cardinality({i}) = 1
  BY FS_EmptySet, FS_Singleton
<1>3. \/ Cardinality(Queued(o)) = 0 /\ Cardinality(Posted(o)) = 0 /\ o \notin kernel /\ status[o] = "idle"
      \/ Cardinality(Queued(o)) = 1 /\ Cardinality(Posted(o)) = 0 /\ o \notin kernel /\ status[o] = "started"
      \/ Cardinality(Queued(o)) = 0 /\ Cardinality(Posted(o)) = 0 /\ o \in kernel /\ status[o] = "started"
      \/ Cardinality(Queued(o)) = 0 /\ Cardinality(Posted(o)) = 1 /\ o \notin kernel /\ status[o] = "started"
  BY <1>1, <1>2 DEF Place
<1>. QED BY <1>3

(* Whatever get_sqe, submit, for_each_cqe and the kernel do in between,    *)
(* an operation that was started is in one ring entry or with the kernel.  *)
THEOREM EachInOnePlace == Spec => []InOnePlace
<1>. QED BY Invariance, OnePlace, PTL

(* submit tells the kernel of the entries since the last submission only:  *)
(* what it left then, it does not make up for.                             *)
THEOREM StaysBehind == Spec => NeverCatchesUp
<1>1. IInv /\ [Next]_vars => [Left' >= Left]_vars
  <2>. SUFFICES ASSUME IInv, Next PROVE Left' >= Left
    OBVIOUS
  <2>1. /\ sq_head \in Index /\ sq_tail \in Index /\ sq_tail_local \in Index /\ Left \in Nat
    BY Natural DEF IInv, TypeOK, Left
  <2>2. ASSUME NEW n, Submit(n) PROVE Left' >= Left
    <3>1. /\ sq_tail' = sq_tail_local
          /\ Distance(sq_head', sq_tail_local) >= Distance(sq_head, sq_tail)
      BY <2>2, Submits DEF IInv
    <3>. QED BY <3>1 DEF Left
  <2>3. ASSUME UNCHANGED <<sq_head, sq_tail>> PROVE Left' >= Left
    BY <2>1, <2>3 DEF Left
  <2>4. ASSUME NEW o \in Ops, start(o) PROVE Left' >= Left
    BY <2>2, <2>3, <2>4 DEF start
  <2>5. CASE submit_and_wait \/ submit_fails \/ run_once \/ \E n \in 1 .. SqEntries : submit_partly(n)
    BY <2>2, <2>5 DEF submit_and_wait, submit_fails, run_once, submit_partly
  <2>6. CASE \/ run \/ request_stop \/ leave_run \/ interrupt \/ wait_returns
             \/ callback \/ callback_returns \/ reaped
    BY <2>3, <2>6 DEF run, request_stop, leave_run, interrupt, wait_returns, callback,
                      callback_returns, reaped, sqVars
  <2>7. ASSUME NEW o \in Ops, NEW res \in Results[o], kernel_completes(o, res) PROVE Left' >= Left
    BY <2>3, <2>7 DEF kernel_completes, sqVars
  <2>. QED BY <2>4, <2>5, <2>6, <2>7 DEF Next
<1>. QED BY <1>1, Invariance, PTL DEF Spec, NeverCatchesUp
-----------------------------------------------------------------------------
(* The rings implement operations without rings.                           *)
StatusMap == [o \in Ops |-> StatusOf(o)]
ResultMap == [o \in Ops |-> ResultOf(o)]

(* What the abstraction sees of an operation changes only with its status  *)
(* and the completions of it that have not been called back.               *)
SeenAlike(o) ==
  /\ status'[o] = status[o]
  /\ Posted(o)' = Posted(o)
  /\ \A i \in Posted(o) : cqes'[i % CqEntries] = cqes[i % CqEntries]

LEMMA SameSeen ==
  ASSUME NEW o \in Ops, SeenAlike(o)
  PROVE  StatusOf(o)' = StatusOf(o) /\ ResultOf(o)' = ResultOf(o)
<1>1. StatusOf(o)' = StatusOf(o)
  BY DEF SeenAlike, StatusOf
<1>2. CASE Posted(o) = {}
  BY <1>1, <1>2 DEF SeenAlike, ResultOf
<1>3. CASE Posted(o) # {}
  <2>1. Some(Posted(o)) \in Posted(o)
    BY <1>3 DEF Some
  <2>. QED BY <1>1, <1>3, <2>1 DEF SeenAlike, ResultOf
<1>. QED BY <1>1, <1>2, <1>3

LEMMA Unnoticed ==
  ASSUME \A o \in Ops : SeenAlike(o)
  PROVE  UNCHANGED <<StatusMap, ResultMap>>
BY SameSeen DEF StatusMap, ResultMap

LEMMA SameView ==
  ASSUME UNCHANGED <<status, cq_tail, cqes>>, Unseen' = Unseen
  PROVE  UNCHANGED <<StatusMap, ResultMap>>
<1>1. \A o \in Ops : SeenAlike(o)
  BY DEF SeenAlike, Posted
<1>. QED BY <1>1, Unnoticed

LEMMA MapsStart ==
  ASSUME IInv, NEW x \in Ops, start(x)
  PROVE  UNCHANGED <<StatusMap, ResultMap>> \/ Abstract!Start(x)
<1>. USE DEF IInv
<1>1. status[x] = "idle" /\ UNCHANGED <<cq_tail, cqes>> /\ Unseen' = Unseen
  BY StartStep DEF start, cqVars
<1>2. \A o \in Ops : Posted(o)' = Posted(o)
  BY <1>1 DEF Posted
<1>3. CASE UNCHANGED status
  BY <1>1, <1>3, SameView
<1>4. CASE Enqueue(x)
  <2>1. status \in [Ops -> {"idle", "started"}] /\ status' = [status EXCEPT ![x] = "started"]
    BY <1>4 DEF Enqueue, TypeOK
  <2>2. Posted(x) = {}
    BY <1>1 DEF EachInPlace, Place
  <2>3. \A o \in Ops \ {x} : SeenAlike(o)
    BY <1>1, <1>2, <2>1 DEF SeenAlike
  <2>4. /\ StatusOf(x) = "idle" /\ StatusOf(x)' = "started"
        /\ ResultOf(x) = 0 /\ ResultOf(x)' = 0
    BY <1>1, <1>2, <2>1, <2>2 DEF StatusOf, ResultOf
  <2>5. /\ StatusMap[x] = "idle"
        /\ StatusMap' = [StatusMap EXCEPT ![x] = "started"]
        /\ ResultMap' = ResultMap
    BY <2>3, <2>4, SameSeen DEF StatusMap, ResultMap
  <2>. QED BY <2>5 DEF Abstract!Start, StatusMap, ResultMap
<1>. QED BY <1>3, <1>4 DEF start

LEMMA MapsComplete ==
  ASSUME IInv, callback
  PROVE  \E x \in Ops : Abstract!Complete(x)
<1>1. PICK x \in Ops :
        /\ head \in Posted(x)
        /\ status[x] = "started"
        /\ status' = [status EXCEPT ![x] = "idle"]
        /\ \A o \in Ops : Posted(o)' = IF o = x THEN {} ELSE Posted(o)
  BY CallbackStep
<1>2. status \in [Ops -> {"idle", "started"}] /\ UNCHANGED cqes
  BY DEF IInv, TypeOK, callback, cqVars
<1>3. \A o \in Ops \ {x} : SeenAlike(o)
  BY <1>1, <1>2 DEF SeenAlike
<1>4. StatusOf(x) = "finished" /\ StatusOf(x)' = "idle" /\ ResultOf(x)' = 0
  BY <1>1, <1>2 DEF StatusOf, ResultOf
<1>5. /\ StatusMap[x] = "finished"
      /\ StatusMap' = [StatusMap EXCEPT ![x] = "idle"]
      /\ ResultMap' = [ResultMap EXCEPT ![x] = 0]
  BY <1>3, <1>4, SameSeen DEF StatusMap, ResultMap
<1>. QED BY <1>5 DEF Abstract!Complete, StatusMap, ResultMap

LEMMA MapsFinish ==
  ASSUME IInv, NEW x \in Ops, NEW res \in Results[x], kernel_completes(x, res)
  PROVE  Abstract!Finish(x, res)
<1>1. /\ status[x] = "started" /\ Posted(x) = {}
      /\ \A o \in Ops : Posted(o)' = IF o = x THEN {cq_tail} ELSE Posted(o)
      /\ cqes'[cq_tail % CqEntries] = [op |-> x, res |-> res]
      /\ \A i \in Window(Unseen, cq_tail) : cqes'[i % CqEntries] = cqes[i % CqEntries]
      /\ UNCHANGED status
  BY CompletesStep DEF kernel_completes
<1>2. \A o \in Ops \ {x} : SeenAlike(o)
  BY <1>1 DEF SeenAlike, Posted
<1>3. Some({cq_tail}) = cq_tail
  BY DEF Some
<1>4. StatusOf(x) = "started" /\ StatusOf(x)' = "finished" /\ ResultOf(x)' = res
  <2>1. Posted(x)' = {cq_tail}
    BY <1>1
  <2>2. {cq_tail} # {}
    OBVIOUS
  <2>3. StatusOf(x) = "started" /\ StatusOf(x)' = "finished"
    BY <1>1, <2>1, <2>2 DEF StatusOf
  <2>4. Posted(x)' # {}
    BY <2>1, <2>2
  <2>5. ResultOf(x)' = cqes'[Some(Posted(x)') % CqEntries].res
    BY <2>4 DEF ResultOf
  <2>6. ResultOf(x)' = cqes'[cq_tail % CqEntries].res
    BY <2>5, <2>1, <1>3
  <2>7. [op |-> x, res |-> res].res = res
    OBVIOUS
  <2>. QED BY <2>3, <2>6, <2>7, <1>1
<1>5. /\ StatusMap[x] = "started"
      /\ StatusMap' = [StatusMap EXCEPT ![x] = "finished"]
      /\ ResultMap' = [ResultMap EXCEPT ![x] = res]
  BY <1>2, <1>4, SameSeen DEF StatusMap, ResultMap
<1>. QED BY <1>5 DEF Abstract!Finish, StatusMap, ResultMap

(* uring_context and the operations of socket_ops.hpp implement SocketOps: *)
(* whatever wraps, waits or is refused, each operation that is started is  *)
(* finished at most once, and its receiver gets the result of it, once.    *)
THEOREM ImplementsOperations == Spec => Operations
<1>1. Init => Abstract!OpsInit
  <2>. SUFFICES ASSUME Init PROVE Abstract!OpsInit
    OBVIOUS
  <2>1. \A o \in Ops : Posted(o) = {} /\ status[o] = "idle"
    <3>1. Unseen = 0 /\ cq_tail = 0
      BY DEF Init, Unseen
    <3>2. 0 \in Index /\ Distance(0, 0) = 0
      BY Nowhere, Constants DEF Index
    <3>3. Window(0, 0) = {}
      BY <3>2 DEF Window
    <3>. QED BY <3>1, <3>3 DEF Posted, Init
  <2>. QED BY <2>1 DEF Abstract!OpsInit, StatusOf, ResultOf
<1>2. IInv /\ [Next]_vars => [Abstract!OpsNext]_<<StatusMap, ResultMap>>
  <2>. SUFFICES ASSUME IInv, [Next]_vars
                PROVE  [Abstract!OpsNext]_<<StatusMap, ResultMap>>
    OBVIOUS
  <2>1. ASSUME NEW o \in Ops, start(o)
        PROVE  [Abstract!OpsNext]_<<StatusMap, ResultMap>>
    BY <2>1, MapsStart DEF Abstract!OpsNext
  <2>2. CASE submit_and_wait \/ submit_fails \/ run_once \/ \E n \in 1 .. SqEntries : submit_partly(n)
    <3>1. UNCHANGED <<status, cq_tail, cqes>> /\ Unseen' = Unseen
      BY <2>2, SubmitStep DEF submit_and_wait, submit_fails, run_once, submit_partly, cqVars
    <3>. QED BY <3>1, SameView
  <2>3. CASE run \/ request_stop \/ leave_run \/ interrupt \/ wait_returns \/ UNCHANGED vars
    <3>1. UNCHANGED <<status, cq_tail, cqes>> /\ Unseen' = Unseen
      BY <2>3, LoopStep DEF cqVars
    <3>. QED BY <3>1, SameView
  <2>4. CASE callback
    BY <2>4, MapsComplete DEF Abstract!OpsNext
  <2>5. CASE callback_returns \/ reaped
    <3>1. UNCHANGED <<status, cq_tail, cqes>> /\ Unseen' = Unseen
      BY <2>5, ReturnStep, ReapedStep DEF callback_returns, reaped, cqVars
    <3>. QED BY <3>1, SameView
  <2>6. ASSUME NEW o \in Ops, NEW res \in Results[o], kernel_completes(o, res)
        PROVE  [Abstract!OpsNext]_<<StatusMap, ResultMap>>
    BY <2>6, MapsFinish DEF Abstract!OpsNext
  <2>. QED BY <2>1, <2>2, <2>3, <2>4, <2>5, <2>6 DEF Next
<1>. QED BY Invariance, <1>1, <1>2, PTL
         DEF Spec, Operations, Abstract!OpsSpec, Abstract!opVars, StatusMap, ResultMap
=============================================================================
