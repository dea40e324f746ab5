-------------------------- MODULE ConnectionProofs --------------------------
(***************************************************************************)
(* What a connection promises for streams of any length, pieces of any     *)
(* size, buffers of any size and any types and values: the server decodes  *)
(* what the client encoded.                                                *)
(***************************************************************************)
EXTENDS Connection, DataLemmas, TLAPS

LEMMA Constants ==
  /\ Byte \subseteq Nat /\ Cookie \in Byte /\ MaxPayload \in Nat /\ MaxFed \in Nat
  /\ Base \in Nat /\ Base > 1 /\ Byte = 0 .. Base - 1
  /\ PoolSize \in Nat /\ BufSize \in Nat
BY FramerAssumption, CodecAssumption, ConnectionAssumption

LEMMA Associative ==
  /\ \A s, t, u \in Seq(Byte) : (s \o t) \o u = s \o (t \o u)
  /\ \A s, t, u \in Seq(Seq(Byte)) : (s \o t) \o u = s \o (t \o u)
<1>1. ASSUME NEW S
      PROVE  \A s, t, u \in Seq(S) : (s \o t) \o u = s \o (t \o u)
  BY ConcatAssociative
<1>2. PICK T : T = Seq(Byte)
  OBVIOUS
<1>3. \A s, t, u \in Seq(Byte) : (s \o t) \o u = s \o (t \o u)
  BY <1>1
<1>4. \A s, t, u \in Seq(T) : (s \o t) \o u = s \o (t \o u)
  BY <1>1
<1>. QED BY <1>2, <1>3, <1>4

(* What a sequence begins with does not change when something follows.     *)
LEMMA FromType ==
  ASSUME NEW s \in Seq(Byte), NEW i \in 1 .. Len(s) + 1
  PROVE  From(s, i) \in Seq(Byte) /\ Len(From(s, i)) = Len(s) - i + 1
BY DEF From

LEMMA FromConcat ==
  ASSUME NEW K \in Seq(Byte), NEW t \in Seq(Byte), NEW i \in 1 .. Len(K) + 1
  PROVE  /\ From(K \o t, i) = From(K, i) \o t
         /\ SubSeq(K \o t, 1, i - 1) = SubSeq(K, 1, i - 1)
BY DEF From

LEMMA SameHeader ==
  ASSUME NEW K \in Seq(Byte), NEW t \in Seq(Byte), HasHeader(K)
  PROVE  /\ K \o t \in Seq(Byte) /\ HasHeader(K \o t)
         /\ IsCookie(K \o t) <=> IsCookie(K)
         /\ TooLarge(K \o t) <=> TooLarge(K)
         /\ message_size(K \o t) = message_size(K)
         /\ message_size(K) \in Nat /\ message_size(K) >= 2
         /\ IsCookie(K) => message_size(K) = 2
<1>1. Len(K \o t) = Len(K) + Len(t) /\ K \o t \in Seq(Byte)
  OBVIOUS
<1>2. 1 \in 1 .. Len(K) /\ 2 \in 1 .. Len(K)
  BY DEF HasHeader, header_size
<1>3. (K \o t)[1] = K[1] /\ (K \o t)[2] = K[2]
  BY <1>2
<1>4. K[2] \in Nat
  BY <1>2, Constants
<1>. QED BY <1>1, <1>2, <1>3, <1>4
       DEF HasHeader, IsCookie, TooLarge, message_size, payload_length, header_size

(* The two functions on streams are what their definitions say.            *)
Skips(s) == HasHeader(s) /\ (IsCookie(s) \/ TooLarge(s))
Skipped(s) == IF IsCookie(s) THEN From(s, 3) ELSE From(s, 2)

LEMMA SkipsSome ==
  ASSUME NEW s \in Seq(Byte), HasHeader(s)
  PROVE  /\ From(s, 3) \in Seq(Byte) /\ Len(From(s, 3)) < Len(s)
         /\ From(s, 2) \in Seq(Byte) /\ Len(From(s, 2)) < Len(s)
         /\ Skipped(s) \in Seq(Byte) /\ Len(Skipped(s)) < Len(s)
<1>1. 3 \in 1 .. Len(s) + 1 /\ 2 \in 1 .. Len(s) + 1 /\ Len(s) \in Nat
  BY DEF HasHeader, header_size
<1>. QED BY <1>1, FromType DEF Skipped

LEMMA Rescan ==
  /\ rescan \in [Seq(Byte) -> Seq(Byte)]
  /\ \A s \in Seq(Byte) : rescan[s] = IF Skips(s) THEN rescan[Skipped(s)] ELSE s
<1>. DEFINE D == Seq(Byte)
            Stop == {s \in D : ~ Skips(s)}
            base == [s \in D |-> s]
            step == [s \in D |-> [v \in D |-> v]]
            nxt == [s \in D |-> IF Skips(s) THEN Skipped(s) ELSE s]
            m == [s \in D |-> Len(s)]
            R(f) == f = [s \in Seq(Byte) |->
                           IF HasHeader(s) /\ IsCookie(s) THEN f[From(s, header_size + 1)]
                           ELSE IF HasHeader(s) /\ TooLarge(s) THEN f[SkipLarge(s)]
                           ELSE s]
            c == CHOOSE f : R(f)
<1>1. \E f : Solves(f, D, D, Stop, base, step, nxt)
  <2>1. nxt \in [D -> D] /\ \A s \in D \ Stop : m[nxt[s]] < m[s]
    BY SkipsSome DEF Skips
  <2>2. base \in [D -> D] /\ step \in [D -> [D -> D]] /\ m \in [D -> Nat]
    OBVIOUS
  <2>3. Descends(D, D, Stop, base, step, nxt, m)
    <3>. HIDE DEF D, Stop, base, step, nxt, m
    <3>. QED BY <2>1, <2>2 DEF Descends
  <2>. HIDE DEF D, Stop, base, step, nxt, m
  <2>. QED BY <2>3, Recursion
<1>2. \E f : R(f)
  <2>1. PICK f : Solves(f, D, D, Stop, base, step, nxt)
    <3>. HIDE DEF D, Stop, base, step, nxt
    <3>. QED BY <1>1
  <2>2. header_size + 1 = 3
    BY DEF header_size
  <2>3. ASSUME NEW s \in D
        PROVE  f[s] = IF HasHeader(s) /\ IsCookie(s) THEN f[From(s, header_size + 1)]
                      ELSE IF HasHeader(s) /\ TooLarge(s) THEN f[SkipLarge(s)]
                      ELSE s
    <3>1. f[s] = IF s \in Stop THEN base[s] ELSE step[s][f[nxt[s]]]
      BY <2>1 DEF Solves
    <3>2. CASE ~ Skips(s)
      BY <3>1, <3>2 DEF Skips
    <3>3. CASE Skips(s)
      <4>1. Skipped(s) \in D /\ nxt[s] = Skipped(s) /\ s \notin Stop
        BY <3>3, SkipsSome DEF Skips
      <4>2. f[Skipped(s)] \in D
        BY <2>1, <4>1 DEF Solves
      <4>3. f[s] = f[Skipped(s)]
        BY <3>1, <4>1, <4>2
      <4>. QED BY <2>2, <3>3, <4>3 DEF Skips, Skipped, SkipLarge
    <3>. QED BY <3>2, <3>3
  <2>4. f = [s \in D |-> f[s]]
    BY <2>1 DEF Solves
  <2>. HIDE DEF Stop, base, step, nxt, m
  <2>. QED BY <2>3, <2>4
<1>3. rescan = c
  BY DEF rescan
<1>4. R(c)
  <2>. HIDE DEF R
  <2>. QED BY <1>2
<1>. HIDE DEF c
<1>5. ASSUME NEW s \in D PROVE c[s] = IF Skips(s) THEN c[Skipped(s)] ELSE s
  <2>1. c[s] = IF HasHeader(s) /\ IsCookie(s) THEN c[From(s, header_size + 1)]
               ELSE IF HasHeader(s) /\ TooLarge(s) THEN c[SkipLarge(s)]
               ELSE s
    BY <1>4
  <2>2. header_size + 1 = 3 /\ SkipLarge(s) = From(s, 2)
    BY DEF header_size, SkipLarge
  <2>. QED BY <2>1, <2>2 DEF Skips, Skipped
<1>6. \A s \in D : c[s] \in D
  <2>. DEFINE P == {s \in D : c[s] \in D}
  <2>1. ASSUME NEW s \in D, \A r \in D : m[r] < m[s] => r \in P
        PROVE  s \in P
    <3>1. CASE Skips(s)
      <4>1. Skipped(s) \in P
        BY <2>1, <3>1, SkipsSome DEF Skips
      <4>. QED BY <1>5, <3>1, <4>1
    <3>. QED BY <1>5, <3>1
  <2>2. m \in [D -> Nat]
    OBVIOUS
  <2>3. \A s \in D : s \in P
    <3>. HIDE DEF P, D, m
    <3>. QED BY <2>1, <2>2, Descent
  <2>. QED BY <2>3
<1>7. c \in [D -> D]
  <2>1. c = [s \in D |-> c[s]]
    BY <1>4
  <2>. QED BY <1>6, <2>1
<1>. QED BY <1>3, <1>5, <1>7

Ready(s)    == HasHeader(s) /\ ~ Skips(s) /\ Whole(s)
FirstOf(s)  == SubSeq(s, 1, message_size(s))
AfterIt(s)  == From(s, message_size(s) + 1)

LEMMA ReadyOne ==
  ASSUME NEW s \in Seq(Byte), Ready(s)
  PROVE  /\ FirstOf(s) \in Seq(Byte) /\ Len(FirstOf(s)) = message_size(s)
         /\ AfterIt(s) \in Seq(Byte) /\ Len(AfterIt(s)) < Len(s)
<1>1. message_size(s) \in Nat /\ message_size(s) >= 2
  <2>1. <<>> \in Seq(Byte)
    OBVIOUS
  <2>. QED BY <2>1, SameHeader DEF Ready
<1>2. message_size(s) + 1 \in 1 .. Len(s) + 1 /\ Len(s) \in Nat
  BY <1>1 DEF Ready, Whole
<1>3. AfterIt(s) \in Seq(Byte) /\ Len(AfterIt(s)) = Len(s) - (message_size(s) + 1) + 1
  BY <1>2, FromType DEF AfterIt
<1>4. FirstOf(s) \in Seq(Byte) /\ Len(FirstOf(s)) = message_size(s)
  BY <1>1, <1>2 DEF FirstOf
<1>. QED BY <1>1, <1>2, <1>3, <1>4

LEMMA MessagesOf ==
  /\ Messages \in [Seq(Byte) -> Seq(Seq(Byte))]
  /\ \A s \in Seq(Byte) :
       Messages[s] = IF Skips(s) THEN Messages[Skipped(s)]
                     ELSE IF Ready(s) THEN <<FirstOf(s)>> \o Messages[AfterIt(s)]
                     ELSE <<>>
<1>. DEFINE D == Seq(Byte)
            V == Seq(Seq(Byte))
            Stop == {s \in D : ~ Skips(s) /\ ~ Ready(s)}
            base == [s \in D |-> <<>>]
            step == [s \in D |-> [v \in V |-> IF Ready(s) THEN <<FirstOf(s)>> \o v ELSE v]]
            nxt == [s \in D |-> IF Skips(s) THEN Skipped(s)
                                 ELSE IF Ready(s) THEN AfterIt(s) ELSE s]
            m == [s \in D |-> Len(s)]
            Value(f, s) == IF ~ HasHeader(s) THEN <<>>
                           ELSE IF IsCookie(s) THEN f[From(s, header_size + 1)]
                           ELSE IF TooLarge(s) THEN f[From(s, 2)]
                           ELSE IF Len(s) < message_size(s) THEN <<>>
                           ELSE <<SubSeq(s, 1, message_size(s))>>
                                  \o f[From(s, message_size(s) + 1)]
            Short(f, s) == IF Skips(s) THEN f[Skipped(s)]
                           ELSE IF Ready(s) THEN <<FirstOf(s)>> \o f[AfterIt(s)]
                           ELSE <<>>
            R(f) == f = [s \in Seq(Byte) |-> Value(f, s)]
            c == CHOOSE f : R(f)
<1>1. \E f : Solves(f, D, V, Stop, base, step, nxt)
  <2>1. nxt \in [D -> D] /\ \A s \in D \ Stop : m[nxt[s]] < m[s]
    BY SkipsSome, ReadyOne DEF Skips
  <2>2. base \in [D -> V] /\ m \in [D -> Nat]
    OBVIOUS
  <2>3. ASSUME NEW s \in D, NEW v \in V
        PROVE  (IF Ready(s) THEN <<FirstOf(s)>> \o v ELSE v) \in V
    BY ReadyOne
  <2>4. step \in [D -> [V -> V]]
    BY <2>3
  <2>5. Descends(D, V, Stop, base, step, nxt, m)
    <3>. HIDE DEF D, V, Stop, base, step, nxt, m
    <3>. QED BY <2>1, <2>2, <2>4 DEF Descends
  <2>. HIDE DEF D, V, Stop, base, step, nxt, m
  <2>. QED BY <2>5, Recursion
<1>2. ASSUME NEW f, NEW s \in D
      PROVE  Value(f, s) = Short(f, s)
  <2>1. header_size + 1 = 3 /\ Len(s) \in Nat /\ (HasHeader(s) => message_size(s) \in Nat)
    <3>1. <<>> \in Seq(Byte)
      OBVIOUS
    <3>. QED BY <3>1, SameHeader DEF header_size
  <2>2. HasHeader(s) => (~ (Len(s) < message_size(s)) <=> Whole(s))
    BY <2>1 DEF Whole
  <2>. QED BY <2>1, <2>2 DEF Skips, Skipped, Ready, FirstOf, AfterIt
<1>3. \E f : R(f)
  <2>1. PICK f : Solves(f, D, V, Stop, base, step, nxt)
    <3>. HIDE DEF D, V, Stop, base, step, nxt
    <3>. QED BY <1>1
  <2>2. ASSUME NEW s \in D PROVE f[s] = Short(f, s)
    <3>1. f[s] = IF s \in Stop THEN base[s] ELSE step[s][f[nxt[s]]]
      BY <2>1 DEF Solves
    <3>2. CASE Skips(s) \/ Ready(s)
      <4>1. nxt[s] \in D /\ s \notin Stop
        BY <3>2, SkipsSome, ReadyOne DEF Skips
      <4>2. f[nxt[s]] \in V
        BY <2>1, <4>1 DEF Solves
      <4>3. f[s] = IF Skips(s) THEN f[nxt[s]] ELSE <<FirstOf(s)>> \o f[nxt[s]]
        BY <3>1, <3>2, <4>1, <4>2 DEF Ready
      <4>4. nxt[s] = IF Skips(s) THEN Skipped(s) ELSE AfterIt(s)
        BY <3>2
      <4>. HIDE DEF nxt
      <4>. QED BY <3>2, <4>3, <4>4
    <3>3. CASE ~ Skips(s) /\ ~ Ready(s)
      BY <3>1, <3>3
    <3>. QED BY <3>2, <3>3
  <2>3. \A s \in D : f[s] = Value(f, s)
    <3>. HIDE DEF D, Value, Short
    <3>. QED BY <1>2, <2>2
  <2>4. f = [s \in D |-> f[s]]
    BY <2>1 DEF Solves
  <2>. HIDE DEF Stop, base, step, nxt, m, Value
  <2>. QED BY <2>3, <2>4
<1>4. Messages = c
  BY DEF Messages
<1>5. R(c)
  <2>. HIDE DEF R
  <2>. QED BY <1>3
<1>. HIDE DEF c
<1>6. \A s \in D : c[s] = Short(c, s)
  <2>1. \A s \in D : c[s] = Value(c, s)
    <3>. HIDE DEF Value
    <3>. QED BY <1>5
  <2>. HIDE DEF D, Value, Short
  <2>. QED BY <1>2, <2>1
<1>7. \A s \in D : c[s] \in V
  <2>. DEFINE P == {s \in D : c[s] \in V}
  <2>1. ASSUME NEW s \in D, \A r \in D : m[r] < m[s] => r \in P
        PROVE  s \in P
    <3>1. CASE Skips(s)
      <4>1. Skipped(s) \in P
        BY <2>1, <3>1, SkipsSome DEF Skips
      <4>. QED BY <1>6, <3>1, <4>1
    <3>2. CASE ~ Skips(s) /\ Ready(s)
      <4>1. AfterIt(s) \in P /\ FirstOf(s) \in Seq(Byte)
        BY <2>1, <3>2, ReadyOne
      <4>2. <<FirstOf(s)>> \o c[AfterIt(s)] \in V
        BY <4>1
      <4>3. c[s] = <<FirstOf(s)>> \o c[AfterIt(s)]
        BY <1>6, <3>2
      <4>. QED BY <4>2, <4>3
    <3>3. CASE ~ Skips(s) /\ ~ Ready(s)
      <4>1. <<>> \in V
        OBVIOUS
      <4>. QED BY <1>6, <3>3, <4>1
    <3>. QED BY <3>1, <3>2, <3>3
  <2>2. m \in [D -> Nat]
    OBVIOUS
  <2>3. \A s \in D : s \in P
    <3>. HIDE DEF P, D, m
    <3>. QED BY <2>1, <2>2, Descent
  <2>. QED BY <2>3
<1>8. c \in [D -> V]
  <2>1. c = [s \in D |-> c[s]]
    <3>. HIDE DEF Value
    <3>. QED BY <1>5
  <2>. QED BY <1>7, <2>1
<1>. QED BY <1>4, <1>6, <1>8
-----------------------------------------------------------------------------
(* The messages of a stream that begins with K: what next_message does to  *)
(* K, before what follows is known, does not change them.                  *)
LEMMA MessagesRescan ==
  \A K \in Seq(Byte) :
    /\ ~ Skips(rescan[K])
    /\ \A t \in Seq(Byte) : Messages[K \o t] = Messages[rescan[K] \o t]
<1>. DEFINE D == Seq(Byte)
            m == [K \in D |-> Len(K)]
            P == {K \in D : /\ ~ Skips(rescan[K])
                            /\ \A t \in D : Messages[K \o t] = Messages[rescan[K] \o t]}
<1>1. ASSUME NEW K \in D, \A r \in D : m[r] < m[K] => r \in P
      PROVE  K \in P
  <2>1. CASE ~ Skips(K)
    BY <2>1, Rescan
  <2>2. CASE Skips(K)
    <3>1. Skipped(K) \in P /\ rescan[K] = rescan[Skipped(K)]
      BY <1>1, <2>2, SkipsSome, Rescan DEF Skips
    <3>2. ASSUME NEW t \in D PROVE Messages[K \o t] = Messages[Skipped(K) \o t]
      <4>1. K \o t \in D /\ Skips(K \o t)
        BY <2>2, SameHeader DEF Skips
      <4>2. 2 \in 1 .. Len(K) + 1 /\ 3 \in 1 .. Len(K) + 1
        BY <2>2 DEF Skips, HasHeader, header_size
      <4>3. From(K \o t, 2) = From(K, 2) \o t /\ From(K \o t, 3) = From(K, 3) \o t
        BY <4>2, FromConcat
      <4>4. Skipped(K \o t) = Skipped(K) \o t
        BY <2>2, <4>3, SameHeader DEF Skips, Skipped
      <4>. QED BY <4>1, <4>4, MessagesOf
    <3>. QED BY <3>1, <3>2
  <2>. QED BY <2>1, <2>2
<1>2. m \in [D -> Nat]
  OBVIOUS
<1>3. \A K \in D : K \in P
  <2>. HIDE DEF P, D, m
  <2>. QED BY <1>1, <1>2, Descent
<1>. QED BY <1>3

LEMMA MessagesReady ==
  ASSUME NEW s \in Seq(Byte), Ready(s), NEW t \in Seq(Byte)
  PROVE  Messages[s \o t] = <<FirstOf(s)>> \o Messages[AfterIt(s) \o t]
<1>1. /\ s \o t \in Seq(Byte) /\ HasHeader(s \o t) /\ ~ Skips(s \o t)
      /\ message_size(s \o t) = message_size(s)
      /\ message_size(s) \in Nat
  BY SameHeader DEF Ready, Skips
<1>2. message_size(s) + 1 \in 1 .. Len(s) + 1 /\ (message_size(s) + 1) - 1 = message_size(s)
  BY <1>1 DEF Ready, Whole
<1>3. Len(s \o t) >= message_size(s)
  BY <1>1, <1>2
<1>4. Ready(s \o t)
  BY <1>1, <1>3 DEF Ready, Whole
<1>5. FirstOf(s \o t) = FirstOf(s) /\ AfterIt(s \o t) = AfterIt(s) \o t
  BY <1>1, <1>2, FromConcat DEF FirstOf, AfterIt
<1>. QED BY <1>1, <1>4, <1>5, MessagesOf

(* The inductive invariant of the framer: whatever follows, the messages   *)
(* of the stream are those handed out and those of what is kept.           *)
FramerInv ==
  /\ buf \in Seq(Byte) /\ fed \in Seq(Byte) /\ emitted \in Seq(Seq(Byte))
  /\ consumed \in 0 .. Len(buf) /\ drained \in BOOLEAN
  /\ \A t \in Seq(Byte) : Messages[fed \o t] = emitted \o Messages[Kept \o t]
  /\ drained => Messages[Kept] = <<>>

LEMMA KeptType ==
  ASSUME FramerInv
  PROVE  Kept \in Seq(Byte)
<1>1. consumed + 1 \in 1 .. Len(buf) + 1
  BY DEF FramerInv
<1>. QED BY <1>1, FromType DEF FramerInv, Kept

Fresh == buf = <<>> /\ consumed = 0 /\ fed = <<>> /\ emitted = <<>> /\ drained = FALSE

LEMMA FramerStart ==
  Fresh => FramerInv
<1>. SUFFICES ASSUME Fresh PROVE FramerInv
  OBVIOUS
<1>. USE DEF Fresh
<1>1. Kept = <<>>
  BY DEF Kept, From
<1>2. \A t \in Seq(Byte) : fed \o t = t /\ Kept \o t = t /\ Messages[t] \in Seq(Seq(Byte))
  BY <1>1, MessagesOf
<1>3. \A t \in Seq(Byte) : emitted \o Messages[t] = Messages[t]
  BY <1>2, ConcatEmptySeq
<1>4. \A t \in Seq(Byte) : Messages[fed \o t] = emitted \o Messages[Kept \o t]
  BY <1>2, <1>3
<1>5. /\ buf \in Seq(Byte) /\ fed \in Seq(Byte) /\ emitted \in Seq(Seq(Byte))
      /\ consumed \in 0 .. Len(buf) /\ drained \in BOOLEAN
  <2>1. Len(buf) = 0 /\ \A S : <<>> \in Seq(S)
    BY EmptySeq
  <2>2. consumed \in 0 .. Len(buf)
    BY <2>1
  <2>. QED BY <2>1, <2>2
<1>6. drained => Messages[Kept] = <<>>
  OBVIOUS
<1>. QED BY <1>4, <1>5, <1>6 DEF FramerInv

LEMMA FramerFeeds ==
  ASSUME FramerInv, NEW piece \in Seq(Byte), feed(piece)
  PROVE  FramerInv'
<1>1. /\ buf' = buf \o piece /\ fed' = fed \o piece /\ drained' = FALSE
      /\ consumed' = consumed /\ emitted' = emitted
  BY DEF feed
<1>2. Kept \in Seq(Byte) /\ buf \in Seq(Byte) /\ fed \in Seq(Byte)
  BY KeptType DEF FramerInv
<1>3. Kept' = Kept \o piece
  <2>1. consumed + 1 \in 1 .. Len(buf) + 1
    BY DEF FramerInv
  <2>2. From(buf \o piece, consumed + 1) = From(buf, consumed + 1) \o piece
    BY <1>2, <2>1, FromConcat
  <2>. QED BY <1>1, <2>2 DEF Kept
<1>4. ASSUME NEW t \in Seq(Byte)
      PROVE  Messages[fed' \o t] = emitted' \o Messages[Kept' \o t]
  <2>1. piece \o t \in Seq(Byte)
    OBVIOUS
  <2>2. (fed \o piece) \o t = fed \o (piece \o t) /\ (Kept \o piece) \o t = Kept \o (piece \o t)
    BY <1>2, Associative
  <2>. QED BY <1>1, <1>3, <2>1, <2>2 DEF FramerInv
<1>5. buf' \in Seq(Byte) /\ fed' \in Seq(Byte) /\ consumed' \in 0 .. Len(buf')
  BY <1>1, <1>2 DEF FramerInv
<1>. QED BY <1>1, <1>4, <1>5 DEF FramerInv

LEMMA FramerTakes ==
  ASSUME FramerInv, next_message
  PROVE  FramerInv'
<1>. DEFINE s == rescan[Kept]
<1>1. Kept \in Seq(Byte) /\ s \in Seq(Byte) /\ ~ Skips(s)
  BY KeptType, Rescan, MessagesRescan
<1>2. ASSUME NEW t \in Seq(Byte) PROVE Messages[fed \o t] = emitted \o Messages[s \o t]
  BY <1>1, MessagesRescan DEF FramerInv
<1>3. buf' = s /\ fed' = fed
  BY DEF next_message
<1>4. CASE HasHeader(s) /\ Whole(s)
  <2>1. /\ consumed' = message_size(s) /\ drained' = FALSE
        /\ emitted' = Append(emitted, FirstOf(s))
    BY <1>4 DEF next_message, FirstOf
  <2>2. Ready(s) /\ message_size(s) \in Nat /\ message_size(s) \in 0 .. Len(s)
    <3>1. <<>> \in Seq(Byte)
      OBVIOUS
    <3>2. message_size(s) \in Nat
      BY <1>1, <1>4, <3>1, SameHeader
    <3>. QED BY <1>1, <1>4, <3>2 DEF Ready, Whole
  <2>3. Kept' = AfterIt(s)
    BY <1>3, <2>1 DEF Kept, AfterIt
  <2>4. FirstOf(s) \in Seq(Byte) /\ AfterIt(s) \in Seq(Byte) /\ emitted \in Seq(Seq(Byte))
    BY <1>1, <2>2, ReadyOne DEF FramerInv
  <2>5. ASSUME NEW t \in Seq(Byte)
        PROVE  Messages[fed' \o t] = emitted' \o Messages[Kept' \o t]
    <3>1. Messages[fed \o t] = emitted \o (<<FirstOf(s)>> \o Messages[AfterIt(s) \o t])
      BY <1>1, <1>2, <2>2, MessagesReady
    <3>2. Messages[AfterIt(s) \o t] \in Seq(Seq(Byte))
      <4>1. AfterIt(s) \o t \in Seq(Byte)
        BY <2>4
      <4>. QED BY <4>1, MessagesOf
    <3>3. emitted \o (<<FirstOf(s)>> \o Messages[AfterIt(s) \o t])
            = Append(emitted, FirstOf(s)) \o Messages[AfterIt(s) \o t]
      <4>1. <<FirstOf(s)>> \in Seq(Seq(Byte))
        BY <2>4
      <4>2. Append(emitted, FirstOf(s)) = emitted \o <<FirstOf(s)>>
        BY <2>4, AppendIsConcat
      <4>3. ASSUME NEW a \in Seq(Seq(Byte)), NEW b \in Seq(Seq(Byte)), NEW d \in Seq(Seq(Byte))
            PROVE  a \o (b \o d) = (a \o b) \o d
        BY Associative
      <4>4. emitted \o (<<FirstOf(s)>> \o Messages[AfterIt(s) \o t])
              = (emitted \o <<FirstOf(s)>>) \o Messages[AfterIt(s) \o t]
        <5>. HIDE DEF s
        <5>. QED BY <2>4, <3>2, <4>1, <4>3
      <4>. QED BY <4>2, <4>4
    <3>. QED BY <1>3, <2>1, <2>3, <3>1, <3>3
  <2>6. /\ buf' \in Seq(Byte) /\ fed' \in Seq(Byte) /\ emitted' \in Seq(Seq(Byte))
        /\ consumed' \in 0 .. Len(buf')
    <3>. HIDE DEF s
    <3>. QED BY <1>1, <1>3, <2>1, <2>2, <2>4 DEF FramerInv
  <2>. QED BY <2>1, <2>5, <2>6 DEF FramerInv
<1>5. CASE ~ (HasHeader(s) /\ Whole(s))
  <2>1. consumed' = 0 /\ drained' = TRUE /\ emitted' = emitted
    BY <1>5 DEF next_message
  <2>2. Kept' = s
    BY <1>1, <1>3, <2>1 DEF Kept, From
  <2>3. Messages[s] = <<>>
    BY <1>1, <1>5, MessagesOf DEF Ready
  <2>4. /\ buf' \in Seq(Byte) /\ fed' \in Seq(Byte) /\ emitted' \in Seq(Seq(Byte))
        /\ consumed' \in 0 .. Len(buf')
    <3>. HIDE DEF s
    <3>. QED BY <1>1, <1>3, <2>1 DEF FramerInv
  <2>. QED BY <1>2, <1>3, <2>1, <2>2, <2>3, <2>4 DEF FramerInv
<1>. QED BY <1>4, <1>5

(* What the runs check follows.                                            *)
LEMMA FramerPromises ==
  ASSUME FramerInv
  PROVE  PiecesDoNotMatter /\ NothingHeldBack
<1>1. <<>> \in Seq(Byte) /\ fed \in Seq(Byte) /\ Kept \in Seq(Byte)
  BY KeptType DEF FramerInv
<1>2. fed \o <<>> = fed /\ Kept \o <<>> = Kept
  BY <1>1
<1>3. Messages[fed] = emitted \o Messages[Kept]
  BY <1>1, <1>2 DEF FramerInv
<1>4. drained => emitted \o Messages[Kept] = emitted
  BY DEF FramerInv
<1>. QED BY <1>3, <1>4 DEF PiecesDoNotMatter, NothingHeldBack
-----------------------------------------------------------------------------
(* The codec.  Powers of the base, and a sum.                              *)
LEMMA Powers ==
  /\ Power \in [Nat -> Nat \ {0}]
  /\ Power[0] = 1
  /\ \A w \in Nat : Power[w + 1] = Base * Power[w]
<1>. DEFINE D == Nat
            V == Nat \ {0}
            base == [w \in D |-> 1]
            step == [w \in D |-> [v \in V |-> Base * v]]
            nxt == [w \in D |-> IF w = 0 THEN 0 ELSE w - 1]
            m == [w \in D |-> w]
            R(f) == f = [w \in Nat |-> IF w = 0 THEN 1 ELSE Base * f[w - 1]]
            c == CHOOSE f : R(f)
<1>1. \A v \in V : Base * v \in V
  BY Constants
<1>2. Descends(D, V, {0}, base, step, nxt, m)
  <2>1. base \in [D -> V] /\ nxt \in [D -> D] /\ m \in [D -> Nat]
    OBVIOUS
  <2>2. step \in [D -> [V -> V]]
    <3>. HIDE DEF V
    <3>. QED BY <1>1
  <2>3. \A w \in D \ {0} : m[nxt[w]] < m[w]
    OBVIOUS
  <2>. HIDE DEF D, V, base, step, nxt, m
  <2>. QED BY <2>1, <2>2, <2>3 DEF Descends
<1>3. PICK f : Solves(f, D, V, {0}, base, step, nxt)
  <2>. HIDE DEF D, V, base, step, nxt, m
  <2>. QED BY <1>2, Recursion
<1>4. \E h : R(h)
  <2>1. ASSUME NEW w \in D PROVE f[w] = IF w = 0 THEN 1 ELSE Base * f[w - 1]
    <3>1. f[w] = IF w \in {0} THEN base[w] ELSE step[w][f[nxt[w]]]
      BY <1>3 DEF Solves
    <3>2. w # 0 => nxt[w] = w - 1 /\ w - 1 \in D /\ f[w - 1] \in V
      BY <1>3 DEF Solves
    <3>. HIDE DEF V
    <3>. QED BY <3>1, <3>2
  <2>2. f = [w \in D |-> f[w]]
    BY <1>3 DEF Solves
  <2>. HIDE DEF base, step, nxt, m
  <2>. QED BY <2>1, <2>2
<1>5. R(c)
  <2>. HIDE DEF R
  <2>. QED BY <1>4
<1>6. Power = c
  BY DEF Power
<1>. HIDE DEF c
<1>7. \A w \in Nat : c[w] = IF w = 0 THEN 1 ELSE Base * c[w - 1]
  BY <1>5
<1>. DEFINE P == {w \in Nat : c[w] \in V}
<1>8. 0 \in P
  BY <1>7
<1>9. ASSUME NEW w \in Nat, w \in P PROVE w + 1 \in P
  <2>1. c[w + 1] = Base * c[w]
    <3>1. w + 1 \in Nat /\ w + 1 # 0 /\ (w + 1) - 1 = w
      OBVIOUS
    <3>. QED BY <1>7, <3>1
  <2>. QED BY <1>1, <1>9, <2>1
<1>10. \A w \in Nat : w \in P
  <2>. HIDE DEF P
  <2>. QED BY <1>8, <1>9, Induction
<1>11. c \in [Nat -> V]
  <2>1. c = [w \in Nat |-> c[w]]
    BY <1>5
  <2>. QED BY <1>10, <2>1
<1>12. \A w \in Nat : c[w + 1] = Base * c[w]
  <2>. TAKE w \in Nat
  <2>1. w + 1 \in Nat /\ w + 1 # 0 /\ (w + 1) - 1 = w
    OBVIOUS
  <2>. QED BY <1>7, <2>1
<1>. QED BY <1>6, <1>7, <1>11, <1>12

(* An offset is the length of what comes before it.                        *)
Measure(widths, seqs, S) ==
  /\ seqs \in Seq(Seq(S)) /\ widths \in Seq(Nat) /\ Len(widths) = Len(seqs)
  /\ \A i \in 1 .. Len(seqs) : widths[i] = Len(seqs[i])

LEMMA Offsets ==
  ASSUME NEW S, NEW seqs, NEW widths, Measure(widths, seqs, S),
         NEW i \in 1 .. Len(seqs) + 1
  PROVE  OffsetOf(widths, i) = Before(seqs, i)
<1>. USE DEF Measure
<1>. DEFINE n == i - 1
            ws == SubSeq(widths, 1, n)
            ss == SubSeq(seqs, 1, n)
<1>1. /\ n \in Nat /\ ws \in Seq(Nat) /\ Len(ws) = n
      /\ ss \in Seq(Seq(S)) /\ Len(ss) = n
      /\ \A k \in 1 .. n : ws[k] = Len(ss[k]) /\ ss[k] \in Seq(S)
  OBVIOUS
<1>2. OffsetOf(widths, i) = Sum(ws)
  BY DEF OffsetOf, Sum
<1>. HIDE DEF n, ws, ss
<1>3. PICK g \in [0 .. n -> Nat] :
        /\ g[0] = 0
        /\ \A k \in 1 .. n : g[k] = g[k - 1] + ws[k]
        /\ Sum(ws) = g[n]
  BY <1>1, SumSteps
<1>4. PICK f \in [0 .. n -> Seq(S)] :
        /\ f[0] = <<>>
        /\ \A k \in 1 .. n : f[k] = f[k - 1] \o ss[k]
        /\ FlattenSeq(ss) = f[n]
  <2>1. \E f \in [0 .. Len(ss) -> Seq(S)] :
          /\ f[0] = <<>>
          /\ \A k \in 1 .. Len(ss) : f[k] = f[k - 1] \o ss[k]
          /\ FlattenSeq(ss) = f[Len(ss)]
    BY <1>1, FlattenSteps
  <2>. QED BY <1>1, <2>1
<1>. DEFINE T == {k \in Nat : k <= n => Len(f[k]) = g[k]}
<1>5. 0 \in T
  BY <1>3, <1>4
<1>6. ASSUME NEW k \in Nat, k \in T PROVE k + 1 \in T
  <2>. SUFFICES ASSUME k + 1 <= n PROVE Len(f[k + 1]) = g[k + 1]
    OBVIOUS
  <2>1. k + 1 \in 1 .. n /\ (k + 1) - 1 = k /\ k <= n /\ k \in 0 .. n
    BY <1>1
  <2>2. f[k + 1] = f[k] \o ss[k + 1] /\ g[k + 1] = g[k] + ws[k + 1]
    BY <1>3, <1>4, <2>1
  <2>3. f[k] \in Seq(S) /\ ss[k + 1] \in Seq(S) /\ Len(f[k]) = g[k] /\ ws[k + 1] = Len(ss[k + 1])
    BY <1>1, <1>6, <2>1
  <2>4. Len(f[k] \o ss[k + 1]) = Len(f[k]) + Len(ss[k + 1])
    BY <2>3, ConcatProperties
  <2>. QED BY <2>2, <2>3, <2>4
<1>7. \A k \in Nat : k \in T
  <2>. HIDE DEF T
  <2>. QED BY <1>5, <1>6, Induction
<1>8. Len(f[n]) = g[n]
  BY <1>1, <1>7
<1>. QED BY <1>2, <1>3, <1>4, <1>8 DEF ss, n, Before

LEMMA OffsetOfAll ==
  ASSUME NEW S, NEW seqs, NEW widths, Measure(widths, seqs, S)
  PROVE  OffsetOf(widths, Len(widths) + 1) = Len(FlattenSeq(seqs))
<1>1. /\ SubSeq(seqs, 1, (Len(seqs) + 1) - 1) = seqs
      /\ Len(seqs) + 1 \in 1 .. Len(seqs) + 1 /\ Len(widths) = Len(seqs)
  BY DEF Measure
<1>. QED BY <1>1, Offsets DEF Before
-----------------------------------------------------------------------------
(* Numbers and their digits.                                               *)
LEMMA Digits ==
  ASSUME NEW n \in Nat, NEW w \in Nat
  PROVE  /\ BigEndian(n, w) \in Seq(Byte) /\ Len(BigEndian(n, w)) = w
         /\ \A k \in 1 .. w : BigEndian(n, w)[k] = (n \div Power[w - k]) % Base
<1>. DEFINE q(k) == n \div Power[w - k]
            digit(k) == q(k) % Base
<1>1. ASSUME NEW k \in 1 .. w PROVE digit(k) \in Byte
  <2>1. w - k \in Nat /\ Power[w - k] \in Nat /\ Power[w - k] > 0
    BY Powers
  <2>2. q(k) \in Int
    BY <2>1, Division
  <2>. HIDE DEF q
  <2>. QED BY <2>2, Constants, Division
<1>2. BigEndian(n, w) = [k \in 1 .. w |-> digit(k)]
  BY DEF BigEndian
<1>. HIDE DEF digit
<1>3. [k \in 1 .. w |-> digit(k)] \in [1 .. w -> Byte]
  BY <1>1
<1>4. BigEndian(n, w) \in Seq(Byte) /\ Len(BigEndian(n, w)) = w
  BY <1>2, <1>3
<1>. QED BY <1>2, <1>4 DEF digit

LEMMA ByBase ==
  /\ \A a \in Nat : /\ a = (a \div Base) * Base + (a % Base)
                    /\ a \div Base \in Int /\ a % Base \in 0 .. Base - 1
  /\ \A a, b \in Nat : a * Base + b \in Nat
<1>1. ASSUME NEW a \in Nat
      PROVE  /\ a = (a \div Base) * Base + (a % Base)
             /\ a \div Base \in Int /\ a % Base \in 0 .. Base - 1
  <2>1. a = Base * (a \div Base) + (a % Base) /\ a \div Base \in Int /\ a % Base \in 0 .. Base - 1
    BY Constants, Division
  <2>2. \A x \in Int : Base * x = x * Base
    BY Constants
  <2>. QED BY <2>1, <2>2
<1>2. ASSUME NEW a \in Nat, NEW b \in Nat PROVE a * Base + b \in Nat
  <2>1. a * Base \in Nat
    BY Constants
  <2>. QED BY <2>1
<1>. QED BY <1>1, <1>2

(* Number, digit by digit.                                                 *)
LEMMA NumberSteps ==
  ASSUME NEW bytes \in Seq(Nat)
  PROVE  \E g \in [0 .. Len(bytes) -> Nat] :
           /\ g[0] = 0
           /\ \A k \in 1 .. Len(bytes) : g[k] = g[k - 1] * Base + bytes[k]
           /\ Number(bytes) = g[Len(bytes)]
<1>. DEFINE n == Len(bytes)
            D == SUBSET (1 .. n)
            step == [k \in 1 .. n |-> [v \in Nat |-> v * Base + bytes[k]]]
            pick == [s \in D |-> IF s = {} THEN 0 ELSE Max(s)]
            R(f) == f = [s \in SUBSET DOMAIN bytes |->
                           IF s = {} THEN 0 ELSE f[s \ {Max(s)}] * Base + bytes[Max(s)]]
            c == CHOOSE f : R(f)
<1>1. n \in Nat /\ DOMAIN bytes = 1 .. n /\ \A k \in 1 .. n : bytes[k] \in Nat
  OBVIOUS
<1>2. \A s \in D : s # {} => Max(s) \in s /\ Max(s) \in 1 .. n
  BY <1>1, MaxOf
<1>3. step \in [1 .. n -> [Nat -> Nat]]
  <2>1. \A k \in 1 .. n : \A v \in Nat : v * Base + bytes[k] \in Nat
    BY <1>1, ByBase
  <2>. QED BY <2>1
<1>4. \E h : R(h)
  <2>1. Picks(pick, n) /\ FoldSteps(n, Nat, 0, step)
    <3>1. \A s \in D : (IF s = {} THEN 0 ELSE Max(s)) \in Nat
      BY <1>2
    <3>2. pick \in [D -> Nat] /\ \A s \in D : s # {} => pick[s] \in s
      BY <1>2, <3>1
    <3>. QED BY <1>1, <1>3, <3>2 DEF Picks, FoldSteps
  <2>. HIDE DEF n, step, pick
  <2>2. PICK f : FoldsAs(f, n, Nat, 0, step, pick)
    BY <2>1, Folding
  <2>. USE DEF FoldsAs
  <2>3. ASSUME NEW s \in D
        PROVE  f[s] = IF s = {} THEN 0 ELSE f[s \ {Max(s)}] * Base + bytes[Max(s)]
    <3>1. s # {} => pick[s] = Max(s) /\ f[s \ {Max(s)}] \in Nat
      BY <2>2 DEF pick
    <3>2. s # {} => step[Max(s)][f[s \ {Max(s)}]] = f[s \ {Max(s)}] * Base + bytes[Max(s)]
      BY <1>2, <3>1 DEF step
    <3>. QED BY <2>2, <3>1, <3>2
  <2>4. f = [s \in D |-> f[s]]
    BY <2>2
  <2>. QED BY <1>1, <2>3, <2>4
<1>5. R(c)
  <2>. HIDE DEF R
  <2>. QED BY <1>4
<1>6. Number(bytes) = c[1 .. n]
  BY <1>1 DEF Number, FoldLeft, MapThenFoldSet
<1>. HIDE DEF c
<1>7. c[{}] = 0 /\ \A s \in D : s # {} => c[s] = c[s \ {Max(s)}] * Base + bytes[Max(s)]
  BY <1>1, <1>5
<1>8. \A s \in SUBSET (1 .. n) : s # {} /\ c[s \ {Max(s)}] \in Nat =>
         c[s] = step[Max(s)][c[s \ {Max(s)}]]
  BY <1>2, <1>7
<1>9. FoldSteps(n, Nat, 0, step) /\ FoldsUp(c, n, Nat, 0, step)
  <2>. HIDE DEF n, step
  <2>. QED BY <1>1, <1>3, <1>7, <1>8 DEF FoldSteps, FoldsUp
<1>. HIDE DEF n, step
<1>10. PICK g : After(g, n, Nat, 0, step) /\ c[1 .. n] = g[n]
  BY <1>9, FoldUp
<1>11. \A k \in 1 .. n : g[k] = g[k - 1] * Base + bytes[k]
  <2>. TAKE k \in 1 .. n
  <2>1. g[k - 1] \in Nat
    BY <1>1, <1>10 DEF After
  <2>2. g[k] = step[k][g[k - 1]]
    BY <1>10 DEF After
  <2>. QED BY <2>1, <2>2 DEF step
<1>. QED BY <1>6, <1>10, <1>11 DEF n, After

(* Reading the digits of a number gives the number.                        *)
LEMMA NumberOfDigits ==
  ASSUME NEW n \in Nat, NEW w \in Nat, n < Power[w]
  PROVE  Number(BigEndian(n, w)) = n
<1>. DEFINE bytes == BigEndian(n, w)
            q(k) == n \div Power[w - k]
<1>1. bytes \in Seq(Nat) /\ Len(bytes) = w /\ \A k \in 1 .. w : bytes[k] = q(k) % Base
  <2>1. bytes \in Seq(Byte) /\ Byte \subseteq Nat
    BY Digits, Constants
  <2>2. bytes \in Seq(Nat)
    <3>. HIDE DEF bytes
    <3>. QED BY <2>1, SeqMonotonic
  <2>. QED BY <2>2, Digits
<1>2. \A k \in 0 .. w : w - k \in Nat /\ Power[w - k] \in Nat /\ Power[w - k] > 0 /\ q(k) \in Nat
  <2>. TAKE k \in 0 .. w
  <2>1. w - k \in Nat /\ Power[w - k] \in Nat /\ Power[w - k] > 0
    BY Powers
  <2>. QED BY <2>1, Constants, DivideTwice
<1>3. q(0) = 0
  <2>. DEFINE M == Power[w]
  <2>1. M \in Nat /\ M > 0
    BY Powers
  <2>. HIDE DEF M
  <2>2. n < M
    BY DEF M
  <2>3. n % M = n
    BY <2>1, <2>2, SmallRemainder
  <2>4. n \div M \in Int /\ n = M * (n \div M) + (n % M)
    BY <2>1, Division
  <2>5. ~ (n \div M >= 1) /\ ~ (-(n \div M) >= 1)
    <3>1. M * (n \div M) = 0 /\ M * (-(n \div M)) = 0
      BY <2>1, <2>3, <2>4
    <3>. QED BY <2>1, <2>4, <3>1, Multiple
  <2>6. n \div M = 0
    BY <2>4, <2>5
  <2>. QED BY <2>6 DEF M
<1>4. q(w) = n
  <2>1. w - w = 0 /\ Power[0] = 1
    BY Powers
  <2>. QED BY <2>1
<1>5. \A k \in 1 .. w : q(k) = q(k - 1) * Base + bytes[k]
  <2>. TAKE k \in 1 .. w
  <2>. DEFINE P == Power[w - k]
  <2>1. P \in Nat /\ P > 0 /\ q(k) \in Nat
    BY <1>2
  <2>2. Power[w - (k - 1)] = Base * P
    <3>1. w - k \in Nat /\ w - (k - 1) = (w - k) + 1
      OBVIOUS
    <3>. QED BY <3>1, Powers
  <2>3. q(k - 1) = q(k) \div Base
    <3>1. n \div (P * Base) = (n \div P) \div Base
      <4>. HIDE DEF P
      <4>. QED BY <2>1, Constants, DivideTwice
    <3>2. P * Base = Base * P
      <4>. HIDE DEF P
      <4>. QED BY <2>1, Constants
    <3>. QED BY <2>2, <3>1, <3>2
  <2>. HIDE DEF q
  <2>4. q(k) = (q(k) \div Base) * Base + (q(k) % Base)
    BY <2>1, ByBase
  <2>. QED BY <1>1, <2>3, <2>4
<1>. HIDE DEF bytes, q
<1>6. PICK g \in [0 .. Len(bytes) -> Nat] :
        /\ g[0] = 0
        /\ \A k \in 1 .. Len(bytes) : g[k] = g[k - 1] * Base + bytes[k]
        /\ Number(bytes) = g[Len(bytes)]
  BY <1>1, NumberSteps
<1>. DEFINE T == {k \in Nat : k <= w => g[k] = q(k)}
<1>7. 0 \in T
  BY <1>3, <1>6
<1>8. ASSUME NEW k \in Nat, k \in T PROVE k + 1 \in T
  <2>. SUFFICES ASSUME k + 1 <= w PROVE g[k + 1] = q(k + 1)
    OBVIOUS
  <2>1. k + 1 \in 1 .. w /\ (k + 1) - 1 = k /\ k <= w
    OBVIOUS
  <2>2. g[k + 1] = g[k] * Base + bytes[k + 1]
    BY <1>1, <1>6, <2>1
  <2>3. q(k + 1) = q(k) * Base + bytes[k + 1]
    BY <1>5, <2>1
  <2>. QED BY <1>8, <2>1, <2>2, <2>3
<1>9. \A k \in Nat : k \in T
  <2>. HIDE DEF T
  <2>. QED BY <1>7, <1>8, Induction
<1>10. Number(bytes) = n
  BY <1>1, <1>4, <1>6, <1>9
<1>. QED BY <1>10 DEF bytes
-----------------------------------------------------------------------------
(* What is written of a primitive, a member and a value is what is read.   *)
LEMMA PrimitiveRead ==
  ASSUME NEW p \in Primitives, NEW v, InRange(p, v)
  PROVE  /\ serialize_primitive(p, v) \in Seq(Byte)
         /\ Len(serialize_primitive(p, v)) = p.width
         /\ p.width \in Nat /\ p.width >= 1
         /\ deserialize_primitive(p, serialize_primitive(p, v)) = v
<1>. DEFINE w == p.width
            M == Power[w]
            n == IF p.as = "bool" THEN IF v THEN 1 ELSE 0 ELSE v % M
<1>1. w \in Nat /\ w >= 1 /\ p.as \in {"unsigned", "signed", "bool"}
  BY DEF Primitives
<1>2. M \in Nat /\ M > 1
  <2>1. Power[(w - 1) + 1] = Base * Power[w - 1] /\ Power[w - 1] \in Nat /\ Power[w - 1] >= 1
    BY <1>1, Powers
  <2>2. (w - 1) + 1 = w
    BY <1>1
  <2>3. Base * Power[w - 1] >= Base
    BY <2>1, Constants, Multiple
  <2>4. M \in Nat
    BY <1>1, Powers
  <2>. QED BY <2>1, <2>2, <2>3, <2>4, Constants
<1>. HIDE DEF w, M
<1>3. /\ n \in Nat /\ n < M
      /\ v = IF p.as = "bool" THEN n # 0
              ELSE IF p.as = "signed" /\ 2 * n >= M THEN n - M ELSE n
  <2>1. CASE p.as = "bool"
    <3>1. v \in BOOLEAN
      BY <2>1 DEF InRange
    <3>2. n = IF v THEN 1 ELSE 0
      BY <2>1
    <3>3. n \in Nat /\ n < M
      BY <1>2, <3>1, <3>2
    <3>4. v = (n # 0)
      <4>1. CASE v = TRUE
        <5>1. n = 1
          BY <3>2, <4>1
        <5>. HIDE DEF n
        <5>2. n # 0
          BY <5>1
        <5>. QED BY <4>1, <5>2, Zenon
      <4>2. CASE v = FALSE
        BY <3>2, <4>2
      <4>. QED BY <3>1, <4>1, <4>2
    <3>. HIDE DEF n
    <3>. QED BY <2>1, <3>3, <3>4
  <2>2. CASE p.as = "unsigned"
    <3>1. v \in 0 .. M - 1
      BY <1>2, <2>2 DEF InRange, M, w
    <3>2. v % M = v
      BY <1>2, <3>1, SmallRemainder
    <3>. QED BY <1>2, <2>2, <3>1, <3>2
  <2>3. CASE p.as = "signed"
    <3>1. v \in Int /\ -M <= 2 * v /\ 2 * v < M
      BY <2>3 DEF InRange, M, w
    <3>2. CASE v >= 0
      <4>1. v \in 0 .. M - 1
        BY <1>2, <3>1, <3>2
      <4>2. v % M = v
        BY <1>2, <4>1, SmallRemainder
      <4>. QED BY <1>2, <2>3, <3>1, <4>1, <4>2
    <3>3. CASE v < 0
      <4>1. v + M \in 0 .. M - 1
        BY <1>2, <3>1, <3>3
      <4>2. (v + M) % M = v + M
        BY <1>2, <4>1, SmallRemainder
      <4>3. (v + M) % M = v % M
        BY <1>2, <3>1, AddDivisor
      <4>4. n = v + M
        BY <2>3, <4>2, <4>3
      <4>. HIDE DEF n
      <4>. QED BY <1>2, <2>3, <3>1, <4>1, <4>4
    <3>. QED BY <3>1, <3>2, <3>3
  <2>. QED BY <1>1, <2>1, <2>2, <2>3
<1>4. serialize_primitive(p, v) = BigEndian(n, w)
  BY DEF serialize_primitive, w, M
<1>. HIDE DEF n
<1>5. Number(BigEndian(n, w)) = n
  BY <1>1, <1>3, NumberOfDigits DEF M
<1>6. deserialize_primitive(p, BigEndian(n, w))
        = IF p.as = "bool" THEN n # 0
          ELSE IF p.as = "signed" /\ 2 * n >= M THEN n - M ELSE n
  BY <1>5 DEF deserialize_primitive, w, M
<1>7. deserialize_primitive(p, serialize_primitive(p, v)) = v
  BY <1>3, <1>4, <1>6
<1>8. serialize_primitive(p, v) \in Seq(Byte) /\ Len(serialize_primitive(p, v)) = w
  BY <1>1, <1>3, <1>4, Digits
<1>. QED BY <1>1, <1>7, <1>8 DEF w

LEMMA PieceAt ==
  ASSUME NEW S, NEW seqs, NEW widths, Measure(widths, seqs, S), NEW i \in 1 .. Len(seqs)
  PROVE  /\ OffsetOf(widths, i) \in Nat
         /\ OffsetOf(widths, i) + widths[i] <= Len(FlattenSeq(seqs))
         /\ SubSeq(FlattenSeq(seqs), OffsetOf(widths, i) + 1, OffsetOf(widths, i) + widths[i])
              = seqs[i]
<1>. DEFINE F == FlattenSeq(seqs)   l == widths[i]   at == OffsetOf(widths, i)
<1>1. at = Before(seqs, i)
  <2>1. i \in 1 .. Len(seqs) + 1
    BY DEF Measure
  <2>. QED BY <2>1, Offsets
<1>2. seqs \in Seq(Seq(S)) /\ l = Len(seqs[i])
  BY DEF Measure
<1>3. F \in Seq(S) /\ seqs[i] \in Seq(S) /\ l \in Nat
  BY <1>2, FlattenType
<1>. HIDE DEF at
<1>6. /\ at \in Nat /\ at + l <= Len(F)
      /\ \A k \in 1 .. l : F[at + k] = seqs[i][k]
  <2>1. /\ at \in Nat /\ at + Len(seqs[i]) <= Len(FlattenSeq(seqs))
        /\ \A k \in 1 .. Len(seqs[i]) : FlattenSeq(seqs)[at + k] = seqs[i][k]
    <3>. HIDE DEF F, l
    <3>. QED BY <1>1, <1>2, FlattenPiece
  <2>. QED BY <1>2, <2>1
<1>. HIDE DEF F, l
<1>4. /\ SubSeq(F, at + 1, at + l) \in Seq(S) /\ Len(SubSeq(F, at + 1, at + l)) = l
      /\ \A k \in 1 .. l : SubSeq(F, at + 1, at + l)[k] = F[at + k]
  BY <1>3, <1>6
<1>5. SubSeq(F, at + 1, at + l) = seqs[i]
  <2>. DEFINE a == SubSeq(F, at + 1, at + l)   b == seqs[i]
  <2>1. a \in Seq(S) /\ b \in Seq(S) /\ Len(a) = Len(b) /\ \A k \in 1 .. Len(a) : a[k] = b[k]
    BY <1>2, <1>3, <1>4, <1>6
  <2>. HIDE DEF a, b
  <2>2. a = b
    BY <2>1, SeqEqual
  <2>. QED BY <2>2 DEF a, b
<1>. QED BY <1>5, <1>6 DEF F, l, at

LEMMA FieldRead ==
  ASSUME NEW member \in Seq(Primitives), NEW value,
         value = [j \in DOMAIN member |-> value[j]],
         \A j \in DOMAIN member : InRange(member[j], value[j])
  PROVE  /\ serialize_field(member, value) \in Seq(Byte)
         /\ Len(serialize_field(member, value)) = Width(member)
         /\ Width(member) \in Nat
         /\ member # <<>> => Width(member) >= 1
         /\ deserialize_field(member, serialize_field(member, value)) = value
<1>. DEFINE N == Len(member)
            widths == Widths(member)
            seqs == [j \in DOMAIN member |-> serialize_primitive(member[j], value[j])]
            F == FlattenSeq(seqs)
            at(j) == OffsetOf(widths, j)
<1>1. N \in Nat /\ DOMAIN member = 1 .. N /\ \A j \in 1 .. N : member[j] \in Primitives
  OBVIOUS
<1>2. \A j \in 1 .. N : /\ serialize_primitive(member[j], value[j]) \in Seq(Byte)
                         /\ Len(serialize_primitive(member[j], value[j])) = member[j].width
                         /\ member[j].width \in Nat /\ member[j].width >= 1
                         /\ deserialize_primitive(member[j],
                              serialize_primitive(member[j], value[j])) = value[j]
  BY <1>1, PrimitiveRead
<1>3. /\ seqs \in Seq(Seq(Byte)) /\ Len(seqs) = N
      /\ widths \in Seq(Nat) /\ Len(widths) = N
      /\ \A j \in 1 .. N : seqs[j] = serialize_primitive(member[j], value[j])
                           /\ widths[j] = member[j].width /\ widths[j] = Len(seqs[j])
  BY <1>1, <1>2 DEF Widths
<1>4. serialize_field(member, value) = F
  BY DEF serialize_field
<1>5. Width(member) = OffsetOf(widths, N + 1)
  BY DEF Width
<1>. HIDE DEF widths, seqs, N, F
<1>12. Measure(widths, seqs, Byte)
  BY <1>3 DEF Measure
<1>6. F \in Seq(Byte) /\ OffsetOf(widths, N + 1) = Len(F)
  BY <1>3, <1>12, FlattenType, OffsetOfAll DEF F
<1>7. \A j \in 1 .. N : /\ at(j) \in Nat /\ at(j) + widths[j] <= Len(F)
                         /\ SubSeq(F, at(j) + 1, at(j) + widths[j]) = seqs[j]
  <2>. TAKE j \in 1 .. N
  <2>1. j \in 1 .. Len(seqs)
    BY <1>3
  <2>. QED BY <1>12, <2>1, PieceAt DEF F
<1>8. deserialize_field(member, F) = [j \in 1 .. N |-> value[j]]
  <2>1. deserialize_field(member, F)
          = [j \in 1 .. N |-> deserialize_primitive(member[j],
                                SubSeq(F, at(j) + 1, at(j) + member[j].width))]
    BY <1>1 DEF deserialize_field, widths
  <2>2. \A j \in 1 .. N : deserialize_primitive(member[j],
                            SubSeq(F, at(j) + 1, at(j) + member[j].width)) = value[j]
    BY <1>2, <1>3, <1>7
  <2>. HIDE DEF at
  <2>. QED BY <2>1, <2>2
<1>9. member # <<>> => Len(F) >= 1
  <2>1. member # <<>> => 1 \in 1 .. N
    BY <1>1 DEF N
  <2>2. 1 \in 1 .. N => Len(F) >= 1
    <3>1. 1 \in 1 .. N => at(1) \in Nat /\ at(1) + widths[1] <= Len(F) /\ widths[1] >= 1
                          /\ widths[1] \in Nat
      BY <1>2, <1>3, <1>7
    <3>. QED BY <1>6, <3>1
  <2>. QED BY <2>1, <2>2
<1>10. deserialize_field(member, F) = value
  BY <1>1, <1>8
<1>11. Len(F) \in Nat
  BY <1>6
<1>. QED BY <1>4, <1>5, <1>6, <1>9, <1>10, <1>11

LEMMA TypeRead ==
  ASSUME NEW type, IsType(type), NEW value, HasType(value, type)
  PROVE  /\ Serialized(type, value) \in Seq(Byte)
         /\ Len(Serialized(type, value)) = Size(type)
         /\ Size(type) \in Nat
         /\ type # <<>> => Size(type) >= 1
         /\ Readable(type, Size(type))
         /\ Deserialized(type, Serialized(type, value)) = value
<1>. DEFINE N == Len(type)
            widths == MemberWidths(type)
            seqs == [i \in DOMAIN type |-> serialize_field(type[i], value[i])]
            F == FlattenSeq(seqs)
            at(i) == OffsetOf(widths, i)
<1>1. N \in Nat /\ DOMAIN type = 1 .. N /\ \A i \in 1 .. N : type[i] \in Seq(Primitives) /\ type[i] # <<>>
  BY DEF IsType
<1>2. ASSUME NEW i \in 1 .. N
      PROVE  /\ serialize_field(type[i], value[i]) \in Seq(Byte)
             /\ Len(serialize_field(type[i], value[i])) = Width(type[i])
             /\ Width(type[i]) \in Nat /\ Width(type[i]) >= 1
             /\ deserialize_field(type[i], serialize_field(type[i], value[i])) = value[i]
  <2>1. value[i] = [j \in DOMAIN type[i] |-> value[i][j]]
    BY <1>1 DEF HasType
  <2>2. \A j \in DOMAIN type[i] : InRange(type[i][j], value[i][j])
    BY <1>1 DEF HasType
  <2>3. type[i] \in Seq(Primitives) /\ type[i] # <<>>
    BY <1>1
  <2>. DEFINE member == type[i]   v == value[i]
  <2>. HIDE DEF member, v
  <2>4. /\ serialize_field(member, v) \in Seq(Byte)
        /\ Len(serialize_field(member, v)) = Width(member)
        /\ Width(member) \in Nat
        /\ member # <<>> => Width(member) >= 1
        /\ deserialize_field(member, serialize_field(member, v)) = v
    <3>1. member \in Seq(Primitives) /\ v = [j \in DOMAIN member |-> v[j]]
          /\ \A j \in DOMAIN member : InRange(member[j], v[j])
      BY <2>1, <2>2, <2>3 DEF member, v
    <3>. QED BY <3>1, FieldRead
  <2>. QED BY <2>3, <2>4 DEF member, v
<1>3. /\ seqs \in Seq(Seq(Byte)) /\ Len(seqs) = N
      /\ widths \in Seq(Nat) /\ Len(widths) = N
      /\ \A i \in 1 .. N : seqs[i] = serialize_field(type[i], value[i])
                           /\ widths[i] = Width(type[i]) /\ widths[i] = Len(seqs[i])
  BY <1>1, <1>2 DEF MemberWidths
<1>4. Serialized(type, value) = F
  BY DEF Serialized
<1>5. Size(type) = OffsetOf(widths, N + 1)
  BY DEF Size
<1>. HIDE DEF widths, seqs, N, F
<1>6. Measure(widths, seqs, Byte)
  BY <1>3 DEF Measure
<1>7. F \in Seq(Byte) /\ OffsetOf(widths, N + 1) = Len(F) /\ Len(F) \in Nat
  BY <1>3, <1>6, FlattenType, OffsetOfAll DEF F
<1>8. \A i \in 1 .. N : /\ at(i) \in Nat /\ at(i) + widths[i] <= Len(F)
                         /\ SubSeq(F, at(i) + 1, at(i) + widths[i]) = seqs[i]
  <2>. TAKE i \in 1 .. N
  <2>1. i \in 1 .. Len(seqs)
    BY <1>3
  <2>. QED BY <1>6, <2>1, PieceAt DEF F
<1>9. Deserialized(type, F) = value
  <2>1. Deserialized(type, F)
          = [i \in 1 .. N |-> deserialize_field(type[i],
                                SubSeq(F, at(i) + 1, at(i) + Width(type[i])))]
    BY <1>1 DEF Deserialized, widths
  <2>2. \A i \in 1 .. N : deserialize_field(type[i],
                            SubSeq(F, at(i) + 1, at(i) + Width(type[i]))) = value[i]
    BY <1>2, <1>3, <1>8
  <2>3. value = [i \in 1 .. N |-> value[i]]
    BY <1>1 DEF HasType
  <2>. HIDE DEF at
  <2>. QED BY <2>1, <2>2, <2>3
<1>10. \A i \in 1 .. N : at(i) < Len(F)
  BY <1>2, <1>3, <1>7, <1>8
<1>11. Readable(type, Len(F))
  BY <1>1, <1>10 DEF Readable, widths
<1>12. type # <<>> => Len(F) >= 1
  <2>1. type # <<>> => 1 \in 1 .. N
    BY <1>1 DEF N, IsType
  <2>2. 1 \in 1 .. N => at(1) < Len(F) /\ at(1) \in Nat
    BY <1>8, <1>10
  <2>. HIDE DEF at
  <2>. QED BY <1>7, <2>1, <2>2
<1>. QED BY <1>4, <1>5, <1>7, <1>9, <1>11, <1>12
-----------------------------------------------------------------------------
(* A message that the client sends is read again as it is, and a magic     *)
(* cookie as nothing.                                                      *)
LEMMA Payload ==
  ASSUME NEW m \in Values
  PROVE  /\ IsType(Type[m.id]) /\ HasType(m.value, Type[m.id])
         /\ m.id \in Byte /\ m = [id |-> m.id, value |-> m.value]
         /\ Size(Type[m.id]) \in Byte /\ Size(Type[m.id]) <= MaxPayload
         /\ Size(Type[m.id]) \in Nat
         /\ m.id # Cookie \/ Size(Type[m.id]) # 0
<1>. DEFINE type == Type[m.id]
<1>1. /\ m = [id |-> m.id, value |-> m.value] /\ m.id \in Byte
      /\ IsType(type) /\ HasType(m.value, type)
      /\ Size(type) <= MaxPayload
      /\ m.id # Cookie \/ type # <<>>
  BY ConnectionAssumption DEF Sendable
<1>. HIDE DEF type
<1>2. Size(type) \in Nat /\ (type # <<>> => Size(type) >= 1)
  BY <1>1, TypeRead
<1>3. Size(type) \in Byte
  BY <1>1, <1>2, ConnectionAssumption, Constants
<1>. QED BY <1>1, <1>2, <1>3 DEF type

LEMMA HeaderFirst ==
  ASSUME NEW h \in Seq(Byte), NEW b \in Seq(Byte), Len(h) = 2
  PROVE  /\ h \o b \in Seq(Byte) /\ Len(h \o b) = Len(b) + 2
         /\ (h \o b)[1] = h[1] /\ (h \o b)[2] = h[2]
         /\ From(h \o b, 3) = b
<1>1. /\ h \o b \in Seq(Byte) /\ Len(h \o b) = Len(b) + 2
      /\ (h \o b)[1] = h[1] /\ (h \o b)[2] = h[2]
  <2>1. h \o b \in Seq(Byte) /\ Len(h \o b) = Len(h) + Len(b)
    BY ConcatProperties
  <2>2. 1 \in 1 .. Len(h) /\ 2 \in 1 .. Len(h) /\ Len(b) \in Nat
    OBVIOUS
  <2>3. \A i \in 1 .. Len(h) : (h \o b)[i] = h[i]
    BY ConcatProperties
  <2>. QED BY <2>1, <2>2, <2>3
<1>2. From(h \o b, 3) = From(h, 3) \o b
  <2>1. 3 \in 1 .. Len(h) + 1
    OBVIOUS
  <2>. QED BY <2>1, FromConcat
<1>3. From(h, 3) = <<>> /\ <<>> \o b = b
  BY DEF From
<1>. QED BY <1>1, <1>2, <1>3

LEMMA MessageRead ==
  ASSUME NEW m \in Values
  PROVE  /\ serialize_message(m) \in Seq(Byte)
         /\ serialize_message(m) # <<>>
         /\ serialize_message(m)[1] = m.id
         /\ deserialize_payload(serialize_message(m)) = m.value
         /\ \A t \in Seq(Byte) :
              Messages[serialize_message(m) \o t] = <<serialize_message(m)>> \o Messages[t]
<1>. DEFINE type == Type[m.id]
            size == Size(type)
            body == Serialized(type, m.value)
            s == serialize_message(m)
<1>1. /\ IsType(type) /\ HasType(m.value, type) /\ m.id \in Byte
      /\ size \in Byte /\ size <= MaxPayload /\ size \in Nat
      /\ m.id # Cookie \/ size # 0
  BY Payload
<1>2. /\ body \in Seq(Byte) /\ Len(body) = size
      /\ Readable(type, size) /\ Deserialized(type, body) = m.value
  BY <1>1, TypeRead
<1>3. s = <<m.id, size>> \o body
  BY DEF serialize_message
<1>. HIDE DEF size, body, s
<1>4. /\ s \in Seq(Byte) /\ Len(s) = size + 2
      /\ s[1] = m.id /\ s[2] = size
      /\ From(s, 3) = body
  <2>. DEFINE h == <<m.id, size>>   id == m.id
  <2>1. h \in Seq(Byte) /\ Len(h) = 2 /\ h[1] = id /\ h[2] = size
    BY <1>1
  <2>. HIDE DEF h, id
  <2>2. s = h \o body
    BY <1>3 DEF h
  <2>3. /\ s \in Seq(Byte) /\ Len(s) = size + 2 /\ s[1] = id /\ s[2] = size
        /\ From(s, 3) = body
    BY <1>2, <2>1, <2>2, HeaderFirst
  <2>. QED BY <2>3 DEF id
<1>5. s # <<>> /\ message_size(s) = Len(s) /\ Ready(s)
  <2>1. HasHeader(s) /\ message_size(s) = Len(s) /\ s # <<>>
    BY <1>1, <1>4 DEF HasHeader, message_size, payload_length, header_size
  <2>2. ~ IsCookie(s) /\ ~ TooLarge(s)
    BY <1>1, <1>4, Constants DEF IsCookie, TooLarge, payload_length
  <2>. QED BY <1>1, <1>4, <2>1, <2>2 DEF Ready, Skips, Whole
<1>6. FirstOf(s) = s /\ AfterIt(s) = <<>>
  <2>1. SubSeq(s, 1, Len(s)) = s /\ SubSeq(s, Len(s) + 1, Len(s)) = <<>>
    BY <1>4
  <2>. QED BY <1>5, <2>1 DEF FirstOf, AfterIt, From
<1>7. \A t \in Seq(Byte) : Messages[s \o t] = <<s>> \o Messages[t]
  <2>. TAKE t \in Seq(Byte)
  <2>1. <<>> \o t = t
    OBVIOUS
  <2>. QED BY <1>4, <1>5, <1>6, <2>1, MessagesReady
<1>8. deserialize_payload(s) = m.value
  <2>1. header_size + 1 = 3
    BY DEF header_size
  <2>. QED BY <1>2, <1>4, <2>1 DEF deserialize_payload, type
<1>. QED BY <1>4, <1>5, <1>7, <1>8 DEF s

LEMMA CookieRead ==
  /\ <<Cookie, 0>> \in Seq(Byte)
  /\ \A t \in Seq(Byte) : Messages[<<Cookie, 0>> \o t] = Messages[t]
<1>. DEFINE s == <<Cookie, 0>>
<1>1. s \in Seq(Byte) /\ Len(s) = 2 /\ s[1] = Cookie /\ s[2] = 0
  BY Constants
<1>. HIDE DEF s
<1>2. HasHeader(s) /\ IsCookie(s) /\ Skips(s)
  BY <1>1 DEF HasHeader, IsCookie, Skips, payload_length, header_size
<1>3. ASSUME NEW t \in Seq(Byte) PROVE Messages[s \o t] = Messages[t]
  <2>1. s \o t \in Seq(Byte) /\ Skips(s \o t) /\ IsCookie(s \o t)
    BY <1>1, <1>2, SameHeader DEF Skips
  <2>2. From(s \o t, 3) = t
    <3>1. From(s \o t, 3) = From(s, 3) \o t
      <4>1. 3 \in 1 .. Len(s) + 1
        BY <1>1
      <4>. QED BY <1>1, <4>1, FromConcat
    <3>2. From(s, 3) = <<>> /\ <<>> \o t = t
      BY <1>1 DEF From
    <3>. QED BY <3>1, <3>2
  <2>. QED BY <2>1, <2>2, MessagesOf DEF Skipped
<1>. QED BY <1>1, <1>3 DEF s

LEMMA EncodedType ==
  ASSUME NEW item \in Values \union RawItems
  PROVE  Encoded(item) \in Seq(Byte)
<1>1. CASE item \in Values
  <2>1. "id" \in DOMAIN item
    BY <1>1, Payload
  <2>. QED BY <1>1, <2>1, MessageRead DEF Encoded
<1>2. CASE item \in RawItems
  <2>1. DOMAIN item = {"bytes"} /\ item.bytes \in RawPieces
    BY <1>2 DEF RawItems
  <2>2. "id" \notin DOMAIN item
    BY <2>1
  <2>. QED BY <2>1, <2>2, ConnectionAssumption DEF Encoded
<1>. QED BY <1>1, <1>2
-----------------------------------------------------------------------------
(* What has been written grows with each item.                             *)
Items == Values \union RawItems
WrittenBy(s) == FlattenSeq([i \in DOMAIN s |-> Encoded(s[i])])
ValuesOf(s) == FlattenSeq([i \in DOMAIN s |-> IF "id" \in DOMAIN s[i] THEN <<s[i]>> ELSE <<>>])

LEMMA WithBuffers ==
  WithBuffer = {"send", "recv"}
BY ConnectionAssumption DEF WithBuffer, Kind, accept_op, connect_op, send_op, recv_op, close_op

LEMMA IsValue ==
  ASSUME NEW item \in Items
  PROVE  /\ "id" \in DOMAIN item <=> item \in Values
         /\ item \in Values => Encoded(item) = serialize_message(item)
         /\ item \notin Values => Encoded(item) = item.bytes
<1>1. item \in Values => "id" \in DOMAIN item
  BY Payload
<1>2. item \in RawItems => "id" \notin DOMAIN item
  BY DEF RawItems
<1>. QED BY <1>1, <1>2 DEF Items, Encoded

LEMMA Writing ==
  ASSUME NEW s \in Seq(Items), NEW item \in Items
  PROVE  /\ WrittenBy(s) \in Seq(Byte)
         /\ WrittenBy(Append(s, item)) = WrittenBy(s) \o Encoded(item)
         /\ ValuesOf(s) \in Seq(Values)
         /\ ValuesOf(Append(s, item))
              = IF item \in Values THEN Append(ValuesOf(s), item) ELSE ValuesOf(s)
<1>. DEFINE seqs == [i \in DOMAIN s |-> Encoded(s[i])]
            ones == [i \in DOMAIN s |-> IF "id" \in DOMAIN s[i] THEN <<s[i]>> ELSE <<>>]
            n == Len(s)
            more == Append(s, item)
            one == IF item \in Values THEN <<item>> ELSE <<>>
<1>1. n \in Nat /\ DOMAIN s = 1 .. n /\ \A i \in 1 .. n : s[i] \in Items
  OBVIOUS
<1>2. \A i \in 1 .. n : Encoded(s[i]) \in Seq(Byte)
  BY <1>1, EncodedType DEF Items
<1>3. \A i \in 1 .. n : (IF "id" \in DOMAIN s[i] THEN <<s[i]>> ELSE <<>>) \in Seq(Values)
  <2>. TAKE i \in 1 .. n
  <2>1. "id" \in DOMAIN s[i] => s[i] \in Values
    BY <1>1, IsValue
  <2>. QED BY <2>1
<1>4. seqs \in Seq(Seq(Byte)) /\ Len(seqs) = n /\ ones \in Seq(Seq(Values)) /\ Len(ones) = n
  BY <1>1, <1>2, <1>3
<1>5. Encoded(item) \in Seq(Byte) /\ one \in Seq(Values)
  BY EncodedType DEF Items
<1>6. /\ more \in Seq(Items) /\ Len(more) = n + 1 /\ DOMAIN more = 1 .. n + 1
      /\ more[n + 1] = item /\ \A i \in 1 .. n : more[i] = s[i]
  BY <1>1
<1>7. [i \in DOMAIN more |-> Encoded(more[i])] = Append(seqs, Encoded(item))
  <2>. DEFINE a == [i \in DOMAIN more |-> Encoded(more[i])]   b == Append(seqs, Encoded(item))
  <2>1. DOMAIN a = 1 .. n + 1 /\ DOMAIN b = 1 .. n + 1
    BY <1>1, <1>4, <1>5, <1>6
  <2>2. \A i \in 1 .. n + 1 : a[i] = b[i]
    BY <1>1, <1>4, <1>5, <1>6
  <2>. QED BY <2>1, <2>2, <1>4, <1>5
<1>8. [i \in DOMAIN more |-> IF "id" \in DOMAIN more[i] THEN <<more[i]>> ELSE <<>>]
        = Append(ones, one)
  <2>. DEFINE a == [i \in DOMAIN more |-> IF "id" \in DOMAIN more[i] THEN <<more[i]>> ELSE <<>>]
              b == Append(ones, one)
  <2>1. DOMAIN a = 1 .. n + 1 /\ DOMAIN b = 1 .. n + 1
    BY <1>1, <1>4, <1>5, <1>6
  <2>2. \A i \in 1 .. n + 1 : a[i] = b[i]
    BY <1>1, <1>4, <1>5, <1>6, IsValue
  <2>3. a = [i \in DOMAIN a |-> a[i]]
    OBVIOUS
  <2>4. b = [i \in DOMAIN b |-> b[i]]
    BY <1>4, <1>5
  <2>. HIDE DEF a, b
  <2>5. a = b
    BY <2>1, <2>2, <2>3, <2>4
  <2>. QED BY <2>5 DEF a, b
<1>. HIDE DEF seqs, ones, more, one
<1>9. /\ FlattenSeq(seqs) \in Seq(Byte)
      /\ FlattenSeq(Append(seqs, Encoded(item))) = FlattenSeq(seqs) \o Encoded(item)
  BY <1>4, <1>5, FlattenType, FlattenAppend
<1>10. /\ FlattenSeq(ones) \in Seq(Values)
       /\ FlattenSeq(Append(ones, one)) = FlattenSeq(ones) \o one
  BY <1>4, <1>5, FlattenType, FlattenAppend
<1>11. FlattenSeq(ones) \o one
         = IF item \in Values THEN Append(FlattenSeq(ones), item) ELSE FlattenSeq(ones)
  <2>. DEFINE f == FlattenSeq(ones)
  <2>1. f \in Seq(Values)
    BY <1>10
  <2>. HIDE DEF f
  <2>2. item \in Values => f \o <<item>> = Append(f, item)
    BY <2>1, AppendIsConcat
  <2>3. f \o <<>> = f
    BY <2>1
  <2>. QED BY <2>2, <2>3 DEF f, one
<1>. QED BY <1>7, <1>8, <1>9, <1>10, <1>11 DEF WrittenBy, ValuesOf, seqs, ones, more

LEMMA WrittenNothing ==
  WrittenBy(<<>>) = <<>> /\ ValuesOf(<<>>) = <<>>
<1>1. /\ [i \in DOMAIN <<>> |-> Encoded(<<>>[i])] = <<>>
      /\ [i \in DOMAIN <<>> |-> IF "id" \in DOMAIN <<>>[i] THEN <<<<>>[i]>> ELSE <<>>] = <<>>
  OBVIOUS
<1>. QED BY <1>1, FlattenEmpty DEF WrittenBy, ValuesOf
-----------------------------------------------------------------------------
(* The inductive invariant of a connection.  Its types:                    *)
Statuses == {"idle", "started", "finished"}
Sides    == {"send", "recv"}
Blocks   == 0 .. PoolSize - 1
ConnTypeOK ==
  /\ status \in [Ops -> Statuses] /\ result \in [Ops -> Int]
  /\ peers \subseteq {"client", "backlog", "server"}
  /\ stream \in Seq(Byte) /\ memory \in [Blocks -> Seq(Byte)]
  /\ free_list \in Seq(Blocks) /\ holds \in [Sides -> Blocks \union {None}]
  /\ sent \in Seq(Items) /\ broken \in BOOLEAN

(* A buffer is free or held, and held by one.                              *)
Distinct(f) == \A i, j \in DOMAIN f : f[i] = f[j] => i = j
IsFree(b, f) == \E i \in DOMAIN f : f[i] = b
Unshared ==
  /\ Distinct(free_list)
  /\ \A o \in Sides : ~ IsFree(holds[o], free_list)
  /\ holds["send"] # None => holds["send"] # holds["recv"]

(* An operation works on a buffer, and its count is within the buffer.     *)
Counts ==
  /\ status["send"] # "idle" => holds["send"] # None
  /\ status["recv"] # "idle" <=> holds["recv"] # None
  /\ status["send"] = "finished" /\ ~ Failed(result["send"]) =>
       result["send"] \in 1 .. Len(Buffer("send"))
  /\ status["recv"] = "finished" => result["recv"] \in 0 .. Len(Buffer("recv"))

(* Which operations may be under way, and what the kernel and the framer   *)
(* may hold, in each phase of a connection.                                *)
Phases ==
  /\ status["connect"] = "started" => peers = {}
  /\ status["recv"] # "idle" => "server" \in peers /\ status["close_server"] # "started"
  /\ status["close_server"] = "started" => "server" \in peers /\ "client" \notin peers
  /\ "client" \in peers => "backlog" \in peers \/ "server" \in peers
  /\ holds["send"] # None => "client" \in peers /\ status["close"] # "started" /\ ~ broken
  /\ status["recv"] = "finished" /\ result["recv"] = 0 => "client" \notin peers /\ stream = <<>>
  /\ status["close_server"] = "started" \/ ("backlog" \notin peers /\ "server" \notin peers) =>
       sent = <<>> /\ fed = <<>> /\ stream = <<>>

(* Every byte is where BytesInOrder says, and what has been written holds  *)
(* the messages that have been sent, whatever follows.                     *)
Placed(rest) == ((fed \o Arrived) \o stream) \o rest = Written
InOrder == \E rest \in Seq(Byte) : Placed(rest) /\ (~ broken => rest = Unsent)

Sends == [i \in DOMAIN SentValues |-> serialize_message(SentValues[i])]
Decodes ==
  OnlyValues => \A t \in Seq(Byte) : Messages[Written \o t] = Sends \o Messages[t]

ConnInv ==
  /\ ConnTypeOK /\ Unshared /\ Counts /\ Phases /\ FramerInv /\ InOrder /\ Decodes

LEMMA TheOps ==
  /\ Ops = {"accept", "connect", "send", "recv", "close", "close_server"}
  /\ \A o \in Ops : Results[o] \subseteq Int
BY ConnectionAssumption, SocketOpsAssumption

LEMMA BufferTypes ==
  ASSUME ConnTypeOK, NEW o \in Sides, holds[o] # None
  PROVE  holds[o] \in Blocks /\ Buffer(o) \in Seq(Byte)
BY DEF ConnTypeOK, Buffer

LEMMA PlaceTypes ==
  ASSUME ConnTypeOK, Counts
  PROVE  Arrived \in Seq(Byte) /\ Unsent \in Seq(Byte)
<1>1. Arrived \in Seq(Byte)
  <2>1. CASE status["recv"] = "finished"
    <3>1. Buffer("recv") \in Seq(Byte) /\ result["recv"] \in 0 .. Len(Buffer("recv"))
      BY <2>1, BufferTypes DEF Counts, Sides
    <3>2. SubSeq(Buffer("recv"), 1, result["recv"]) \in Seq(Byte)
      BY <3>1
    <3>. QED BY <2>1, <3>2 DEF Arrived
  <2>. QED BY <2>1 DEF Arrived
<1>2. Unsent \in Seq(Byte)
  <2>1. CASE holds["send"] = None
    <3>1. Unsent = <<>>
      BY <2>1 DEF Unsent
    <3>. QED BY <3>1
  <2>2. CASE holds["send"] # None
    <3>1. Buffer("send") \in Seq(Byte)
      BY <2>2, BufferTypes DEF Sides
    <3>2. CASE status["send"] = "finished" /\ ~ Failed(result["send"])
      <4>1. result["send"] \in 1 .. Len(Buffer("send"))
        BY <3>2 DEF Counts
      <4>2. result["send"] + 1 \in 1 .. Len(Buffer("send")) + 1
        BY <4>1
      <4>3. From(Buffer("send"), result["send"] + 1) \in Seq(Byte)
        BY <3>1, <4>2, FromType
      <4>. QED BY <2>2, <3>2, <4>3 DEF Unsent
    <3>3. CASE ~ (status["send"] = "finished" /\ ~ Failed(result["send"]))
      BY <2>2, <3>1, <3>3 DEF Unsent
    <3>. QED BY <3>2, <3>3
  <2>. QED BY <2>1, <2>2
<1>. QED BY <1>1, <1>2

(* The free list.                                                          *)
LEMMA Acquiring ==
  ASSUME NEW f \in Seq(Blocks), f # <<>>, Distinct(f)
  PROVE  /\ Last(f) \in Blocks /\ IsFree(Last(f), f)
         /\ Front(f) \in Seq(Blocks) /\ Distinct(Front(f))
         /\ ~ IsFree(Last(f), Front(f))
         /\ \A b : IsFree(b, Front(f)) => IsFree(b, f)
<1>1. Len(f) \in Nat /\ Len(f) >= 1 /\ DOMAIN f = 1 .. Len(f)
  OBVIOUS
<1>2. /\ Front(f) \in Seq(Blocks) /\ DOMAIN Front(f) = 1 .. Len(f) - 1
      /\ \A i \in 1 .. Len(f) - 1 : Front(f)[i] = f[i]
  BY <1>1 DEF Front
<1>3. Last(f) = f[Len(f)] /\ Last(f) \in Blocks
  BY <1>1 DEF Last
<1>. QED BY <1>1, <1>2, <1>3 DEF Distinct, IsFree

LEMMA Releasing ==
  ASSUME NEW f \in Seq(Blocks), NEW b \in Blocks, Distinct(f), ~ IsFree(b, f)
  PROVE  /\ Append(f, b) \in Seq(Blocks) /\ Distinct(Append(f, b))
         /\ \A c : IsFree(c, Append(f, b)) => c = b \/ IsFree(c, f)
<1>1. /\ Len(f) \in Nat /\ DOMAIN f = 1 .. Len(f)
      /\ Append(f, b) \in Seq(Blocks) /\ DOMAIN Append(f, b) = 1 .. Len(f) + 1
      /\ Append(f, b)[Len(f) + 1] = b
      /\ \A i \in 1 .. Len(f) : Append(f, b)[i] = f[i]
  OBVIOUS
<1>. QED BY <1>1 DEF Distinct, IsFree

LEMMA ConnTypes ==
  ASSUME ConnTypeOK, Unshared, Counts, Phases, FramerInv, ConnectionNext
  PROVE  ConnTypeOK'
<1>. DEFINE OpsOK == status' \in [Ops -> Statuses] /\ result' \in [Ops -> Int]
            MemoryOK == memory' \in [Blocks -> Seq(Byte)]
            PoolOK == /\ free_list' \in Seq(Blocks)
                      /\ holds' \in [Sides -> Blocks \union {None}]
            RestOK == /\ peers' \subseteq {"client", "backlog", "server"}
                      /\ stream' \in Seq(Byte)
                      /\ sent' \in Seq(Items) /\ broken' \in BOOLEAN
<1>0. "send" \in Sides /\ "recv" \in Sides
  BY DEF Sides
<1>1. ASSUME NEW o \in Ops, Start(o) PROVE OpsOK
  BY <1>1 DEF ConnTypeOK, Start, Statuses
<1>2. ASSUME NEW o \in Ops, NEW res \in Int, Finish(o, res) PROVE OpsOK
  BY <1>2 DEF ConnTypeOK, Finish, Statuses
<1>3. ASSUME NEW o \in Ops, Complete(o) PROVE OpsOK
  BY <1>3 DEF ConnTypeOK, Complete, Statuses
<1>4. ASSUME NEW o \in Sides, acquire(o) PROVE PoolOK
  BY <1>4, Acquiring DEF ConnTypeOK, acquire, Unshared
<1>5. ASSUME NEW o \in Sides, holds[o] # None, release(o) PROVE PoolOK /\ MemoryOK
  <2>1. holds[o] \in Blocks /\ ~ IsFree(holds[o], free_list) /\ Distinct(free_list)
    BY <1>5, BufferTypes DEF Unshared
  <2>2. Append(free_list, holds[o]) \in Seq(Blocks)
    BY <2>1, Releasing DEF ConnTypeOK
  <2>3. <<>> \in Seq(Byte)
    OBVIOUS
  <2>. QED BY <1>5, <2>1, <2>2, <2>3 DEF ConnTypeOK, release
<1>6. ASSUME NEW o \in Sides, holds[o] # None, NEW bytes \in Seq(Byte), Fill(o, bytes)
      PROVE  MemoryOK
  BY <1>6 DEF ConnTypeOK, Fill
<1>7. /\ UNCHANGED opVars => OpsOK
      /\ UNCHANGED memory => MemoryOK
      /\ UNCHANGED <<free_list, holds>> => PoolOK
      /\ UNCHANGED <<peers, stream, sent, broken>> => RestOK
  BY DEF ConnTypeOK, opVars
<1>. USE <1>0, TheOps DEF bufferVars, connVars
<1>8. OpsOK /\ MemoryOK /\ PoolOK /\ RestOK => ConnTypeOK'
  BY DEF ConnTypeOK
<1>9. CASE connect
  BY <1>1, <1>7, <1>8, <1>9 DEF connect, ConnTypeOK
<1>10. CASE accept
  <2>. HIDE DEF OpsOK, MemoryOK, PoolOK, RestOK
  <2>. QED BY <1>1, <1>7, <1>8, <1>10 DEF accept
<1>11. CASE send
  <2>. HIDE DEF OpsOK, MemoryOK, PoolOK, RestOK
  <2>. QED BY <1>1, <1>7, <1>8, <1>11 DEF send
<1>12. CASE recv
  <2>. HIDE DEF OpsOK, MemoryOK, PoolOK, RestOK
  <2>. QED BY <1>1, <1>4, <1>7, <1>8, <1>12 DEF recv
<1>13. CASE close
  <2>. HIDE DEF OpsOK, MemoryOK, PoolOK, RestOK
  <2>. QED BY <1>1, <1>7, <1>8, <1>13 DEF close
<1>14. ASSUME NEW item \in Items, encode(item) PROVE ConnTypeOK'
  <2>1. OpsOK /\ PoolOK
    BY <1>4, <1>7, <1>14 DEF encode
  <2>2. Encoded(item) \in Seq(Byte)
    BY EncodedType DEF Items
  <2>3. MemoryOK
    <3>1. memory' = [memory EXCEPT ![holds'["send"]] = Encoded(item)]
      BY <1>14 DEF encode
    <3>. QED BY <2>2, <3>1 DEF ConnTypeOK
  <2>4. RestOK
    BY <1>14 DEF encode, ConnTypeOK
  <2>. HIDE DEF OpsOK, MemoryOK, PoolOK, RestOK
  <2>. QED BY <1>8, <2>1, <2>3, <2>4
<1>15. ASSUME NEW res \in Results["connect"], kernel_connects(res) PROVE ConnTypeOK'
  <2>1. RestOK
    BY <1>15 DEF kernel_connects, ConnTypeOK
  <2>2. res \in Int
    OBVIOUS
  <2>. HIDE DEF OpsOK, MemoryOK, PoolOK, RestOK
  <2>. QED BY <1>2, <1>7, <1>8, <1>15, <2>1, <2>2 DEF kernel_connects
<1>16. CASE kernel_accepts
  <2>1. RestOK
    BY <1>16 DEF kernel_accepts, ConnTypeOK
  <2>. HIDE DEF OpsOK, MemoryOK, PoolOK, RestOK
  <2>. QED BY <1>2, <1>7, <1>8, <1>16, <2>1 DEF kernel_accepts
<1>17. ASSUME NEW res \in Results["send"], kernel_sends(res) PROVE ConnTypeOK'
  <2>1. holds["send"] # None
    BY <1>17 DEF kernel_sends, Counts
  <2>2. SubSeq(Buffer("send"), 1, res) \in Seq(Byte)
    <3>1. Buffer("send") \in Seq(Byte) /\ res \in 1 .. Len(Buffer("send"))
      BY <1>17, <2>1, BufferTypes DEF kernel_sends
    <3>. QED BY <3>1
  <2>3. RestOK
    BY <1>17, <2>2 DEF kernel_sends, ConnTypeOK
  <2>4. res \in Int
    OBVIOUS
  <2>. HIDE DEF OpsOK, MemoryOK, PoolOK, RestOK
  <2>. QED BY <1>2, <1>7, <1>8, <1>17, <2>3, <2>4 DEF kernel_sends
<1>18. ASSUME NEW res \in Results["send"], kernel_fails("send", res) PROVE ConnTypeOK'
  <2>1. res \in Int
    OBVIOUS
  <2>. HIDE DEF OpsOK, MemoryOK, PoolOK, RestOK
  <2>. QED BY <1>2, <1>7, <1>8, <1>18, <2>1 DEF kernel_fails
<1>19. ASSUME NEW res \in Results["recv"], kernel_receives(res) PROVE ConnTypeOK'
  <2>1. holds["recv"] # None /\ res \in 0 .. Len(stream) /\ stream \in Seq(Byte)
    BY <1>19 DEF kernel_receives, Counts, ConnTypeOK
  <2>2. SubSeq(stream, 1, res) \in Seq(Byte)
    BY <2>1
  <2>3. From(stream, res + 1) \in Seq(Byte)
    <3>1. res + 1 \in 1 .. Len(stream) + 1
      BY <2>1
    <3>. QED BY <2>1, <3>1, FromType
  <2>4. RestOK
    BY <1>19, <2>3 DEF kernel_receives, ConnTypeOK
  <2>5. MemoryOK /\ PoolOK
    BY <1>6, <1>7, <1>19, <2>1, <2>2 DEF kernel_receives
  <2>6. res \in Int
    OBVIOUS
  <2>. HIDE DEF OpsOK, MemoryOK, PoolOK, RestOK
  <2>. QED BY <1>2, <1>8, <1>19, <2>4, <2>5, <2>6 DEF kernel_receives
<1>20. CASE kernel_closes("close", "client") \/ kernel_closes("close_server", "server")
  <2>1. RestOK
    BY <1>20 DEF kernel_closes, ConnTypeOK
  <2>. HIDE DEF OpsOK, MemoryOK, PoolOK, RestOK
  <2>. QED BY <1>2, <1>7, <1>8, <1>20, <2>1 DEF kernel_closes
<1>21. CASE completed
  <2>. HIDE DEF OpsOK, MemoryOK, PoolOK, RestOK
  <2>. QED BY <1>3, <1>7, <1>8, <1>21 DEF completed
<1>22. CASE sent_bytes
  <2>. DEFINE rest == From(Buffer("send"), result["send"] + 1)
  <2>1. holds["send"] # None /\ result["send"] \in 1 .. Len(Buffer("send"))
    BY <1>22 DEF sent_bytes, Complete, Counts
  <2>2. rest \in Seq(Byte)
    <3>1. Buffer("send") \in Seq(Byte) /\ result["send"] + 1 \in 1 .. Len(Buffer("send")) + 1
      BY <2>1, BufferTypes
    <3>. QED BY <3>1, FromType
  <2>3. release("send") \/ (Fill("send", rest) /\ UNCHANGED <<free_list, holds>>)
    BY <1>22 DEF sent_bytes
  <2>. HIDE DEF OpsOK, MemoryOK, PoolOK, RestOK, rest
  <2>4. MemoryOK /\ PoolOK
    BY <1>5, <1>6, <1>7, <2>1, <2>2, <2>3
  <2>. QED BY <1>3, <1>7, <1>8, <1>22, <2>4 DEF sent_bytes
<1>23. CASE send_failed
  <2>1. holds["send"] # None
    BY <1>23 DEF send_failed, Complete, Counts
  <2>2. RestOK
    BY <1>23 DEF send_failed, ConnTypeOK
  <2>. HIDE DEF OpsOK, MemoryOK, PoolOK, RestOK
  <2>. QED BY <1>3, <1>5, <1>8, <1>23, <2>1, <2>2 DEF send_failed
<1>24. CASE received
  <2>1. holds["recv"] # None
    BY <1>24 DEF received, Complete, Counts
  <2>. HIDE DEF OpsOK, MemoryOK, PoolOK, RestOK
  <2>. QED BY <1>3, <1>5, <1>7, <1>8, <1>24, <2>1 DEF received
<1>25. CASE disconnected
  <2>1. holds["recv"] # None
    BY <1>25 DEF disconnected, Counts
  <2>2. OpsOK /\ RestOK
    <3>1. <<>> \in Seq(Items)
      OBVIOUS
    <3>. QED BY <1>25, <3>1 DEF disconnected, ConnTypeOK, Statuses
  <2>. HIDE DEF OpsOK, MemoryOK, PoolOK, RestOK
  <2>. QED BY <1>5, <1>8, <1>25, <2>1, <2>2 DEF disconnected
<1>26. CASE take_message
  <2>. HIDE DEF OpsOK, MemoryOK, PoolOK, RestOK
  <2>. QED BY <1>7, <1>8, <1>26 DEF take_message
<1>. QED BY <1>9, <1>10, <1>11, <1>12, <1>13, <1>14, <1>15, <1>16, <1>17, <1>18, <1>19,
            <1>20, <1>21, <1>22, <1>23, <1>24, <1>25, <1>26 DEF ConnectionNext, Items
-----------------------------------------------------------------------------
(* The two sides do not touch each other's operation and buffer.           *)
SendStep ==
  \/ \E item \in Items : encode(item)
  \/ send
  \/ \E res \in Results["send"] : kernel_sends(res) \/ kernel_fails("send", res)
  \/ sent_bytes \/ send_failed
RecvStep ==
  \/ recv
  \/ \E res \in Results["recv"] : kernel_receives(res)
  \/ received \/ disconnected
OtherStep ==
  \/ connect \/ accept \/ close
  \/ \E res \in Results["connect"] : kernel_connects(res)
  \/ kernel_accepts
  \/ kernel_closes("close", "client") \/ kernel_closes("close_server", "server")
  \/ completed
  \/ take_message
Same(o) ==
  /\ status'[o] = status[o] /\ result'[o] = result[o] /\ holds'[o] = holds[o]
  /\ holds[o] # None => memory'[holds[o]] = memory[holds[o]]

LEMMA StepKinds ==
  ConnectionNext => SendStep \/ RecvStep \/ OtherStep
BY DEF ConnectionNext, SendStep, RecvStep, OtherStep, Items

LEMMA OtherBuffer ==
  ASSUME ConnTypeOK, Unshared, NEW o \in Sides, NEW p \in Sides, o # p,
         NEW b, b = holds[o] \/ (b = Last(free_list) /\ free_list # <<>>),
         holds[p] # None, NEW bytes, memory' = [memory EXCEPT ![b] = bytes]
  PROVE  memory'[holds[p]] = memory[holds[p]]
<1>1. holds[p] \in Blocks
  BY BufferTypes
<1>2. holds[p] # b
  <2>1. CASE b = holds[o]
    BY <2>1 DEF Unshared, Sides
  <2>2. CASE b = Last(free_list) /\ free_list # <<>>
    BY <2>2, Acquiring DEF Unshared, ConnTypeOK
  <2>. QED BY <2>1, <2>2
<1>. QED BY <1>1, <1>2 DEF ConnTypeOK

LEMMA Apart ==
  ASSUME ConnTypeOK, Unshared, Counts
  PROVE  /\ SendStep => Same("recv")
         /\ RecvStep => Same("send")
         /\ OtherStep => Same("send") /\ Same("recv")
<1>0. "send" \in Sides /\ "recv" \in Sides /\ "send" # "recv"
  BY DEF Sides
<1>1. ASSUME NEW o \in Sides, UNCHANGED <<holds, memory>>,
             status'[o] = status[o], result'[o] = result[o]
      PROVE  Same(o)
  BY <1>1 DEF Same
<1>2. \A o, p \in Ops :
        o # p /\ (Start(o) \/ Complete(o) \/ \E res \in Int : Finish(o, res)) =>
           status'[p] = status[p] /\ result'[p] = result[p]
  BY DEF ConnTypeOK, Start, Finish, Complete
<1>3. ASSUME NEW o \in Sides, NEW p \in Sides, o # p, holds[o] # None, release(o),
             status'[p] = status[p], result'[p] = result[p]
      PROVE  Same(p)
  <2>1. holds'[p] = holds[p]
    BY <1>3 DEF release, ConnTypeOK
  <2>2. holds[p] # None => memory'[holds[p]] = memory[holds[p]]
    BY <1>3, OtherBuffer DEF release
  <2>. QED BY <1>3, <2>1, <2>2 DEF Same
<1>4. ASSUME NEW o \in Sides, NEW p \in Sides, o # p, holds[o] # None,
             NEW bytes, Fill(o, bytes), holds' = holds,
             status'[p] = status[p], result'[p] = result[p]
      PROVE  Same(p)
  <2>2. holds[p] # None => memory'[holds[p]] = memory[holds[p]]
    BY <1>4, OtherBuffer DEF Fill
  <2>. QED BY <1>4, <2>2 DEF Same
<1>. USE <1>0, TheOps
<1>5. ASSUME NEW item \in Items, encode(item) PROVE Same("recv")
  <2>1. /\ free_list # <<>> /\ holds'["recv"] = holds["recv"]
        /\ holds'["send"] = Last(free_list)
        /\ memory' = [memory EXCEPT ![Last(free_list)] = Encoded(item)]
    BY <1>5 DEF encode, acquire, ConnTypeOK
  <2>2. holds["recv"] # None => memory'[holds["recv"]] = memory[holds["recv"]]
    BY <2>1, OtherBuffer
  <2>. QED BY <1>5, <2>1, <2>2 DEF Same, encode, opVars
<1>6. send => Same("recv")
  BY <1>1, <1>2 DEF send, bufferVars
<1>7. ASSUME NEW res \in Results["send"], kernel_sends(res) \/ kernel_fails("send", res)
      PROVE  Same("recv")
  <2>1. res \in Int /\ Finish("send", res) /\ UNCHANGED <<holds, memory>>
    BY <1>7 DEF kernel_sends, kernel_fails, bufferVars
  <2>. QED BY <1>1, <1>2, <2>1
<1>8. sent_bytes => Same("recv")
  <2>. SUFFICES ASSUME sent_bytes PROVE Same("recv")
    OBVIOUS
  <2>1. Complete("send") /\ holds["send"] # None
    BY DEF sent_bytes, Complete, Counts
  <2>2. status'["recv"] = status["recv"] /\ result'["recv"] = result["recv"]
    BY <1>2, <2>1
  <2>3. release("send") \/ \E bytes : Fill("send", bytes) /\ holds' = holds
    BY DEF sent_bytes
  <2>. QED BY <1>3, <1>4, <2>1, <2>2, <2>3
<1>9. send_failed => Same("recv")
  <2>. SUFFICES ASSUME send_failed PROVE Same("recv")
    OBVIOUS
  <2>1. Complete("send") /\ holds["send"] # None /\ release("send")
    BY DEF send_failed, Complete, Counts
  <2>2. status'["recv"] = status["recv"] /\ result'["recv"] = result["recv"]
    BY <1>2, <2>1
  <2>. QED BY <1>3, <2>1, <2>2
<1>10. recv => Same("send")
  <2>. SUFFICES ASSUME recv PROVE Same("send")
    OBVIOUS
  <2>1. holds'["send"] = holds["send"] /\ memory' = memory /\ Start("recv")
    BY DEF recv, acquire, ConnTypeOK
  <2>2. status'["send"] = status["send"] /\ result'["send"] = result["send"]
    BY <1>2, <2>1
  <2>. QED BY <2>1, <2>2 DEF Same
<1>11. ASSUME NEW res \in Results["recv"], kernel_receives(res) PROVE Same("send")
  <2>1. /\ res \in Int /\ Finish("recv", res) /\ holds["recv"] # None /\ holds' = holds
        /\ Fill("recv", SubSeq(stream, 1, res))
    BY <1>11 DEF kernel_receives, Counts
  <2>2. status'["send"] = status["send"] /\ result'["send"] = result["send"]
    BY <1>2, <2>1
  <2>. QED BY <1>4, <2>1, <2>2
<1>12. received => Same("send")
  <2>. SUFFICES ASSUME received PROVE Same("send")
    OBVIOUS
  <2>1. Complete("recv") /\ holds["recv"] # None /\ release("recv")
    BY DEF received, Complete, Counts
  <2>2. status'["send"] = status["send"] /\ result'["send"] = result["send"]
    BY <1>2, <2>1
  <2>. QED BY <1>3, <2>1, <2>2
<1>13. disconnected => Same("send")
  <2>. SUFFICES ASSUME disconnected PROVE Same("send")
    OBVIOUS
  <2>1. /\ holds["recv"] # None /\ release("recv")
        /\ status'["send"] = status["send"] /\ result'["send"] = result["send"]
    BY DEF disconnected, Counts, ConnTypeOK
  <2>. QED BY <1>3, <2>1
<1>14. OtherStep => Same("send") /\ Same("recv")
  <2>. SUFFICES ASSUME OtherStep PROVE Same("send") /\ Same("recv")
    OBVIOUS
  <2>1. /\ UNCHANGED <<holds, memory>>
        /\ \/ UNCHANGED opVars
           \/ \E o \in {"connect", "accept", "close", "close_server"} :
                Start(o) \/ Complete(o) \/ \E res \in Int : Finish(o, res)
    <3>1. CASE connect \/ accept \/ close
      BY <3>1 DEF connect, accept, close, bufferVars
    <3>2. CASE \E res \in Results["connect"] : kernel_connects(res)
      BY <3>2 DEF kernel_connects, bufferVars
    <3>3. CASE kernel_accepts \/ completed \/ take_message
      BY <3>3 DEF kernel_accepts, completed, take_message, bufferVars
    <3>4. CASE kernel_closes("close", "client") \/ kernel_closes("close_server", "server")
      BY <3>4 DEF kernel_closes, bufferVars
    <3>. QED BY <3>1, <3>2, <3>3, <3>4 DEF OtherStep
  <2>2. ASSUME NEW o \in Sides PROVE status'[o] = status[o] /\ result'[o] = result[o]
    <3>1. o \in Ops /\ o \notin {"connect", "accept", "close", "close_server"}
      BY DEF Sides
    <3>. QED BY <1>2, <2>1, <3>1 DEF opVars
  <2>. QED BY <1>1, <2>1, <2>2
<1>. QED BY <1>5, <1>6, <1>7, <1>8, <1>9, <1>10, <1>11, <1>12, <1>13, <1>14
       DEF SendStep, RecvStep

LEMMA ConnUnshared ==
  ASSUME ConnTypeOK, Unshared, Counts, ConnectionNext
  PROVE  Unshared'
<1>0. "send" \in Sides /\ "recv" \in Sides /\ \A o \in Sides : o = "send" \/ o = "recv"
  BY DEF Sides
<1>1. UNCHANGED <<free_list, holds>> => Unshared'
  BY DEF Unshared
<1>2. ASSUME NEW o \in Sides, holds[o] = None, acquire(o) PROVE Unshared'
  <2>1. free_list # <<>> /\ free_list' = Front(free_list)
        /\ holds' = [holds EXCEPT ![o] = Last(free_list)]
    BY <1>2 DEF acquire
  <2>2. /\ IsFree(Last(free_list), free_list) /\ Distinct(Front(free_list))
        /\ ~ IsFree(Last(free_list), Front(free_list))
        /\ \A b : IsFree(b, Front(free_list)) => IsFree(b, free_list)
    BY <2>1, Acquiring DEF ConnTypeOK, Unshared
  <2>3. \A p \in Sides : holds'[p] = IF p = o THEN Last(free_list) ELSE holds[p]
    BY <2>1 DEF ConnTypeOK
  <2>4. \A p \in Sides : p # o => holds[p] # Last(free_list)
    BY <2>2 DEF Unshared
  <2>5. Distinct(free_list') /\ \A p \in Sides : ~ IsFree(holds'[p], free_list')
    BY <2>1, <2>2, <2>3 DEF Unshared
  <2>6. holds'["send"] # None => holds'["send"] # holds'["recv"]
    BY <1>0, <1>2, <2>3, <2>4
  <2>. QED BY <2>5, <2>6 DEF Unshared
<1>3. ASSUME NEW o \in Sides, holds[o] # None, release(o) PROVE Unshared'
  <2>1. /\ free_list' = Append(free_list, holds[o]) /\ holds' = [holds EXCEPT ![o] = None]
        /\ holds[o] \in Blocks
    BY <1>3, BufferTypes DEF release
  <2>2. /\ Distinct(Append(free_list, holds[o])) /\ Append(free_list, holds[o]) \in Seq(Blocks)
        /\ \A c : IsFree(c, Append(free_list, holds[o])) => c = holds[o] \/ IsFree(c, free_list)
    BY <2>1, Releasing DEF ConnTypeOK, Unshared
  <2>3. \A p \in Sides : holds'[p] = IF p = o THEN None ELSE holds[p]
    BY <2>1 DEF ConnTypeOK
  <2>4. ~ IsFree(None, free_list')
    <3>1. None \notin Blocks
      BY ConnectionAssumption DEF Blocks
    <3>. QED BY <2>1, <2>2, <3>1 DEF IsFree
  <2>5. \A p \in Sides : p # o => holds[p] # holds[o]
    BY <1>0, <1>3 DEF Unshared
  <2>6. \A p \in Sides : ~ IsFree(holds'[p], free_list')
    BY <2>1, <2>2, <2>3, <2>4, <2>5 DEF Unshared
  <2>7. holds'["send"] # None => holds'["send"] # holds'["recv"]
    BY <1>0, <2>3, <2>5
  <2>. QED BY <2>1, <2>2, <2>6, <2>7 DEF Unshared
<1>. USE <1>0
<1>4. CASE SendStep
  <2>1. CASE \E item \in Items : encode(item)
    BY <1>2, <2>1 DEF encode
  <2>2. CASE send \/ \E res \in Results["send"] : kernel_sends(res) \/ kernel_fails("send", res)
    BY <1>1, <2>2 DEF send, kernel_sends, kernel_fails, bufferVars
  <2>3. CASE sent_bytes \/ send_failed
    <3>1. holds["send"] # None
      BY <2>3 DEF sent_bytes, send_failed, Complete, Counts
    <3>2. release("send") \/ UNCHANGED <<free_list, holds>>
      BY <2>3 DEF sent_bytes, send_failed
    <3>. QED BY <1>1, <1>3, <3>1, <3>2
  <2>. QED BY <1>4, <2>1, <2>2, <2>3 DEF SendStep
<1>5. CASE RecvStep
  <2>1. CASE recv
    BY <1>2, <2>1 DEF recv
  <2>2. CASE \E res \in Results["recv"] : kernel_receives(res)
    BY <1>1, <2>2 DEF kernel_receives
  <2>3. CASE received \/ disconnected
    <3>1. holds["recv"] # None /\ release("recv")
      BY <2>3 DEF received, disconnected, Complete, Counts
    <3>. QED BY <1>3, <3>1
  <2>. QED BY <1>5, <2>1, <2>2, <2>3 DEF RecvStep
<1>6. CASE OtherStep
  <2>1. UNCHANGED <<free_list, holds>>
    BY <1>6 DEF OtherStep, connect, accept, close, kernel_connects, kernel_accepts,
                kernel_closes, completed, take_message, bufferVars
  <2>. QED BY <1>1, <2>1
<1>. QED BY <1>4, <1>5, <1>6, StepKinds

SendCounts ==
  /\ status["send"] # "idle" => holds["send"] # None
  /\ status["send"] = "finished" /\ ~ Failed(result["send"]) =>
       result["send"] \in 1 .. Len(Buffer("send"))
RecvCounts ==
  /\ status["recv"] # "idle" <=> holds["recv"] # None
  /\ status["recv"] = "finished" => result["recv"] \in 0 .. Len(Buffer("recv"))

LEMMA ConnCounts ==
  ASSUME ConnTypeOK, Unshared, Counts, ConnectionNext
  PROVE  Counts'
<1>0. "send" \in Sides /\ "recv" \in Sides
  BY DEF Sides
<1>1. Same("send") => SendCounts'
  BY DEF Same, Counts, SendCounts, Buffer
<1>2. Same("recv") => RecvCounts'
  BY DEF Same, Counts, RecvCounts, Buffer
<1>. USE <1>0, TheOps
<1>3. CASE SendStep
  <2>1. ASSUME NEW item \in Items, encode(item) PROVE SendCounts'
    BY <2>1 DEF encode, opVars, Counts, SendCounts, ConnTypeOK
  <2>2. ASSUME send PROVE SendCounts'
    BY <2>2 DEF send, Start, bufferVars, SendCounts, ConnTypeOK
  <2>3. ASSUME NEW res \in Results["send"], kernel_sends(res) PROVE SendCounts'
    <3>1. /\ status'["send"] = "finished" /\ result'["send"] = res
          /\ holds' = holds /\ memory' = memory
      BY <2>3 DEF kernel_sends, Finish, bufferVars, ConnTypeOK
    <3>2. holds["send"] # None /\ res \in 1 .. Len(Buffer("send"))
      BY <2>3 DEF kernel_sends, Counts
    <3>. QED BY <3>1, <3>2 DEF SendCounts, Buffer
  <2>4. ASSUME NEW res \in Results["send"], kernel_fails("send", res) PROVE SendCounts'
    <3>1. /\ status'["send"] = "finished" /\ Failed(result'["send"]) /\ holds' = holds
      BY <2>4 DEF kernel_fails, Finish, bufferVars, ConnTypeOK
    <3>2. holds["send"] # None
      BY <2>4 DEF kernel_fails, Finish, Counts
    <3>. QED BY <3>1, <3>2 DEF SendCounts
  <2>5. ASSUME sent_bytes \/ send_failed PROVE SendCounts'
    <3>1. status'["send"] = "idle"
      BY <2>5 DEF sent_bytes, send_failed, Complete, ConnTypeOK
    <3>. QED BY <3>1 DEF SendCounts
  <2>6. SendCounts'
    BY <1>3, <2>1, <2>2, <2>3, <2>4, <2>5 DEF SendStep
  <2>7. RecvCounts'
    BY <1>2, <1>3, Apart
  <2>. QED BY <2>6, <2>7 DEF Counts, SendCounts, RecvCounts
<1>4. CASE RecvStep
  <2>1. ASSUME recv PROVE RecvCounts'
    <3>1. status'["recv"] = "started" /\ holds'["recv"] = Last(free_list) /\ free_list # <<>>
      BY <2>1 DEF recv, Start, acquire, ConnTypeOK
    <3>2. Last(free_list) \in Blocks
      BY <3>1, Acquiring DEF ConnTypeOK, Unshared
    <3>3. None \notin Blocks
      BY ConnectionAssumption DEF Blocks
    <3>. QED BY <3>1, <3>2, <3>3 DEF RecvCounts
  <2>2. ASSUME NEW res \in Results["recv"], kernel_receives(res) PROVE RecvCounts'
    <3>1. /\ status'["recv"] = "finished" /\ result'["recv"] = res /\ holds' = holds
          /\ memory' = [memory EXCEPT ![holds["recv"]] = SubSeq(stream, 1, res)]
      BY <2>2 DEF kernel_receives, Finish, Fill, ConnTypeOK
    <3>2. holds["recv"] # None /\ res \in 0 .. Len(stream) /\ stream \in Seq(Byte)
      BY <2>2 DEF kernel_receives, Counts, ConnTypeOK
    <3>3. memory'[holds'["recv"]] = SubSeq(stream, 1, res)
      BY <3>1, <3>2, BufferTypes DEF ConnTypeOK
    <3>4. Len(SubSeq(stream, 1, res)) = res
      BY <3>2
    <3>. QED BY <3>1, <3>2, <3>3, <3>4 DEF RecvCounts, Buffer
  <2>3. ASSUME received \/ disconnected PROVE RecvCounts'
    <3>1. status'["recv"] = "idle" /\ holds'["recv"] = None
      BY <2>3 DEF received, disconnected, Complete, release, ConnTypeOK
    <3>. QED BY <3>1 DEF RecvCounts
  <2>4. RecvCounts'
    BY <1>4, <2>1, <2>2, <2>3 DEF RecvStep
  <2>5. SendCounts'
    BY <1>1, <1>4, Apart
  <2>. QED BY <2>4, <2>5 DEF Counts, SendCounts, RecvCounts
<1>5. CASE OtherStep
  BY <1>1, <1>2, <1>5, Apart DEF Counts, SendCounts, RecvCounts
<1>. QED BY <1>3, <1>4, <1>5, StepKinds

LEMMA ConnPhases ==
  ASSUME ConnTypeOK, Unshared, Counts, Phases, ConnectionNext
  PROVE  Phases'
<1>0. "send" \in Sides /\ "recv" \in Sides
  BY DEF Sides
<1>. USE <1>0, TheOps DEF ConnTypeOK, bufferVars, connVars, opVars, vars
<1>1. CASE SendStep
  <2>0. /\ status'["recv"] = status["recv"] /\ result'["recv"] = result["recv"]
    BY <1>1, Apart DEF Same
  <2>1. ASSUME NEW item \in Items, encode(item) PROVE Phases'
    BY <2>1 DEF encode, Phases
  <2>2. ASSUME send PROVE Phases'
    BY <2>2 DEF send, Start, Phases
  <2>3. ASSUME NEW res \in Results["send"], kernel_sends(res) PROVE Phases'
    BY <2>0, <2>3 DEF kernel_sends, Finish, Phases, Counts
  <2>4. ASSUME NEW res \in Results["send"], kernel_fails("send", res) PROVE Phases'
    BY <2>0, <2>4 DEF kernel_fails, Finish, Phases
  <2>5. ASSUME sent_bytes PROVE Phases'
    BY <2>0, <2>5 DEF sent_bytes, Complete, release, Phases, Counts
  <2>6. ASSUME send_failed PROVE Phases'
    BY <2>0, <2>6 DEF send_failed, Complete, release, Phases, Counts
  <2>. QED BY <1>1, <2>1, <2>2, <2>3, <2>4, <2>5, <2>6 DEF SendStep
<1>2. CASE RecvStep
  <2>0. /\ status'["send"] = status["send"] /\ holds'["send"] = holds["send"]
    BY <1>2, Apart DEF Same
  <2>1. ASSUME recv PROVE Phases'
    BY <2>0, <2>1 DEF recv, Start, Phases
  <2>2. ASSUME NEW res \in Results["recv"], kernel_receives(res) PROVE Phases'
    <3>1. stream = <<>> => stream' = <<>>
      BY <2>2 DEF kernel_receives, From
    <3>2. status'["recv"] = "finished" /\ result'["recv"] = res /\ status["recv"] = "started"
      BY <2>2 DEF kernel_receives, Finish
    <3>3. \A o \in Ops : o # "recv" => status'[o] = status[o]
      BY <2>2 DEF kernel_receives, Finish
    <3>4. UNCHANGED <<peers, holds, sent, broken, fed>>
      BY <2>2 DEF kernel_receives
    <3>5. res = 0 => "client" \notin peers /\ stream = <<>>
      BY <2>2 DEF kernel_receives
    <3>. QED BY <3>1, <3>2, <3>3, <3>4, <3>5 DEF Phases
  <2>3. ASSUME received PROVE Phases'
    BY <2>0, <2>3 DEF received, Complete, feed, Phases
  <2>4. ASSUME disconnected PROVE Phases'
    BY <2>0, <2>4 DEF disconnected, reset, Phases
  <2>. QED BY <1>2, <2>1, <2>2, <2>3, <2>4 DEF RecvStep
<1>3. CASE OtherStep
  <2>1. ASSUME connect PROVE Phases'
    BY <2>1 DEF connect, Start, Phases
  <2>2. ASSUME accept PROVE Phases'
    BY <2>2 DEF accept, Start, Phases
  <2>3. ASSUME close PROVE Phases'
    BY <2>3 DEF close, Start, Phases
  <2>4. ASSUME NEW res \in Results["connect"], kernel_connects(res) PROVE Phases'
    BY <2>4 DEF kernel_connects, Finish, Phases
  <2>5. ASSUME kernel_accepts PROVE Phases'
    BY <2>5 DEF kernel_accepts, Finish, Phases
  <2>6. ASSUME kernel_closes("close", "client") PROVE Phases'
    BY <2>6 DEF kernel_closes, Finish, Phases
  <2>7. ASSUME kernel_closes("close_server", "server") PROVE Phases'
    BY <2>7 DEF kernel_closes, Finish, Phases
  <2>8. ASSUME completed PROVE Phases'
    BY <2>8 DEF completed, Complete, Phases
  <2>9. ASSUME take_message PROVE Phases'
    BY <2>9 DEF take_message, next_message, Phases
  <2>. QED BY <1>3, <2>1, <2>2, <2>3, <2>4, <2>5, <2>6, <2>7, <2>8, <2>9 DEF OtherStep
<1>. QED BY <1>1, <1>2, <1>3, StepKinds
-----------------------------------------------------------------------------
(* The framer's own invariant, in each step of the connection.             *)
LEMMA FramerReset ==
  ASSUME reset
  PROVE  FramerInv'
<1>1. Fresh'
  BY DEF reset, Fresh
<1>. QED BY <1>1, FramerStart, PTL

LEMMA ConnFramer ==
  ASSUME ConnTypeOK, Unshared, Counts, FramerInv, ConnectionNext
  PROVE  FramerInv'
<1>1. UNCHANGED vars => FramerInv'
  BY DEF vars, FramerInv, Kept
<1>2. CASE received
  <2>1. holds["recv"] # None /\ result["recv"] \in 0 .. Len(Buffer("recv"))
    BY <1>2 DEF received, Complete, Counts
  <2>2. Buffer("recv") \in Seq(Byte)
    BY <2>1, BufferTypes DEF Sides
  <2>3. SubSeq(Buffer("recv"), 1, result["recv"]) \in Seq(Byte)
    BY <2>1, <2>2
  <2>. QED BY <1>2, <2>3, FramerFeeds DEF received
<1>3. CASE disconnected
  BY <1>3, FramerReset DEF disconnected
<1>4. CASE take_message
  BY <1>4, FramerTakes DEF take_message
<1>5. CASE SendStep
  BY <1>1, <1>5 DEF SendStep, encode, send, kernel_sends, kernel_fails, sent_bytes, send_failed
<1>6. CASE recv \/ \E res \in Results["recv"] : kernel_receives(res)
  BY <1>1, <1>6 DEF recv, kernel_receives
<1>7. CASE OtherStep
  BY <1>1, <1>4, <1>7 DEF OtherStep, connect, accept, close, kernel_connects, kernel_accepts,
              kernel_closes, completed
<1>. QED BY <1>2, <1>3, <1>4, <1>5, <1>6, <1>7, StepKinds DEF RecvStep

(* The bytes stay in order.                                                *)
LEMMA Cut ==
  ASSUME NEW s \in Seq(Byte), NEW n \in 0 .. Len(s)
  PROVE  /\ SubSeq(s, 1, n) \in Seq(Byte) /\ From(s, n + 1) \in Seq(Byte)
         /\ s = SubSeq(s, 1, n) \o From(s, n + 1)
<1>1. SubSeq(s, 1, n) \in Seq(Byte) /\ Len(SubSeq(s, 1, n)) = n
  OBVIOUS
<1>2. From(s, n + 1) \in Seq(Byte) /\ Len(From(s, n + 1)) = Len(s) - n
  BY DEF From
<1>. DEFINE a == SubSeq(s, 1, n)   b == From(s, n + 1)
<1>3. a \o b \in Seq(Byte) /\ Len(a \o b) = Len(s)
  <2>. HIDE DEF a, b
  <2>1. a \in Seq(Byte) /\ b \in Seq(Byte) /\ Len(a) = n /\ Len(b) = Len(s) - n
    BY <1>1, <1>2 DEF a, b
  <2>. QED BY <2>1
<1>4. ASSUME NEW i \in 1 .. Len(s) PROVE (a \o b)[i] = s[i]
  <2>1. i <= n => a[i] = s[i]
    BY <1>1
  <2>2. i > n => b[i - n] = s[i]
    BY <1>2 DEF From
  <2>. HIDE DEF a, b
  <2>3. a \in Seq(Byte) /\ b \in Seq(Byte) /\ Len(a) = n /\ Len(b) = Len(s) - n
    BY <1>1, <1>2 DEF a, b
  <2>4. (a \o b)[i] = IF i <= n THEN a[i] ELSE b[i - n]
    BY <2>3, ConcatProperties
  <2>. QED BY <2>1, <2>2, <2>4
<1>. QED BY <1>1, <1>2, <1>3, <1>4, SeqEqual

Moves == <<fed, stream, sent, broken>>

LEMMA SameArrived ==
  ASSUME ConnTypeOK, Counts, Same("recv")
  PROVE  Arrived' = Arrived
<1>1. status["recv"] = "finished" => holds["recv"] # None
  BY DEF Counts
<1>. QED BY <1>1 DEF Same, Arrived, Buffer

LEMMA SameUnsent ==
  ASSUME ConnTypeOK, Counts, Same("send")
  PROVE  Unsent' = Unsent
BY DEF Same, Unsent, Buffer

LEMMA StayInOrder ==
  ASSUME InOrder, UNCHANGED Moves, Arrived' = Arrived, Unsent' = Unsent
  PROVE  InOrder'
<1>1. Written' = Written
  BY DEF Moves, Written
<1>. QED BY <1>1 DEF InOrder, Placed, Moves

LEMMA ConnInOrder ==
  ASSUME ConnTypeOK, Unshared, Counts, Phases, FramerInv, InOrder, ConnectionNext
  PROVE  InOrder'
<1>0. /\ "send" \in Sides /\ "recv" \in Sides
      /\ fed \in Seq(Byte) /\ stream \in Seq(Byte) /\ Arrived \in Seq(Byte) /\ Unsent \in Seq(Byte)
      /\ Written = WrittenBy(sent) /\ Written' = WrittenBy(sent') /\ sent \in Seq(Items)
  BY PlaceTypes DEF Sides, FramerInv, ConnTypeOK, Written, WrittenBy
<1>1. PICK rest \in Seq(Byte) : Placed(rest) /\ (~ broken => rest = Unsent)
  BY DEF InOrder
<1>2. /\ fed \o Arrived \in Seq(Byte) /\ (fed \o Arrived) \o stream \in Seq(Byte)
      /\ ((fed \o Arrived) \o stream) \o rest = Written
      /\ Written \in Seq(Byte)
  <2>1. fed \o Arrived \in Seq(Byte)
    BY <1>0
  <2>2. (fed \o Arrived) \o stream \in Seq(Byte)
    BY <1>0, <2>1
  <2>3. ((fed \o Arrived) \o stream) \o rest \in Seq(Byte)
    BY <2>2
  <2>. QED BY <1>1, <2>1, <2>2, <2>3 DEF Placed
<1>3. SendStep => Arrived' = Arrived
  BY Apart, SameArrived
<1>4. RecvStep => Unsent' = Unsent
  BY Apart, SameUnsent
<1>. USE TheOps DEF bufferVars, connVars, vars
<1>5. ASSUME NEW item \in Items, encode(item) PROVE InOrder'
  <2>1. Encoded(item) \in Seq(Byte)
    BY EncodedType DEF Items
  <2>2. /\ holds["send"] = None /\ ~ broken /\ broken' = broken /\ fed' = fed /\ stream' = stream
        /\ sent' = Append(sent, item)
    BY <1>5 DEF encode
  <2>3. Unsent = <<>> /\ rest = <<>>
    BY <1>1, <2>2 DEF Unsent
  <2>4. Unsent' = Encoded(item)
    <3>1. /\ holds'["send"] = Last(free_list) /\ Last(free_list) \in Blocks
          /\ memory'[holds'["send"]] = Encoded(item)
      <4>1. free_list # <<>> /\ holds' = [holds EXCEPT !["send"] = Last(free_list)]
            /\ memory' = [memory EXCEPT ![holds'["send"]] = Encoded(item)]
        BY <1>5 DEF encode, acquire
      <4>2. Last(free_list) \in Blocks
        BY <4>1, Acquiring DEF ConnTypeOK, Unshared
      <4>. QED BY <1>0, <4>1, <4>2 DEF ConnTypeOK
    <3>2. None \notin Blocks
      BY ConnectionAssumption DEF Blocks
    <3>3. status'["send"] = "idle"
      BY <1>5 DEF encode, opVars, Counts, ConnTypeOK
    <3>. QED BY <3>1, <3>2, <3>3 DEF Unsent, Buffer
  <2>5. Written' = Written \o Encoded(item)
    BY <1>0, <2>2, Writing
  <2>6. ((fed \o Arrived) \o stream) \o <<>> = (fed \o Arrived) \o stream
    BY <1>2
  <2>7. Placed(Encoded(item))'
    <3>1. Arrived' = Arrived
      BY <1>3, <1>5 DEF SendStep
    <3>. QED BY <1>2, <2>2, <2>3, <2>5, <2>6, <3>1 DEF Placed
  <2>. QED BY <2>1, <2>4, <2>7 DEF InOrder
<1>6. ASSUME send \/ \E res \in Results["send"] : kernel_fails("send", res) PROVE InOrder'
  <2>1. UNCHANGED Moves /\ SendStep /\ holds' = holds /\ memory' = memory
    BY <1>6 DEF send, kernel_fails, SendStep, Moves
  <2>2. /\ ~ (status["send"] = "finished" /\ ~ Failed(result["send"]))
        /\ ~ (status'["send"] = "finished" /\ ~ Failed(result'["send"]))
    BY <1>6 DEF send, Start, kernel_fails, Finish, ConnTypeOK
  <2>3. Unsent' = Unsent
    BY <2>1, <2>2 DEF Unsent, Buffer
  <2>. QED BY <1>3, <2>1, <2>3, StayInOrder
<1>7. ASSUME NEW n \in Results["send"], kernel_sends(n) PROVE InOrder'
  <2>. DEFINE b == Buffer("send")
  <2>1. /\ holds["send"] # None /\ ~ broken /\ status["send"] = "started"
        /\ n \in 0 .. Len(b) /\ b \in Seq(Byte)
    BY <1>0, <1>7, BufferTypes DEF kernel_sends, Counts, Phases
  <2>2. /\ stream' = stream \o SubSeq(b, 1, n) /\ broken' = broken /\ fed' = fed /\ sent' = sent
        /\ status'["send"] = "finished" /\ result'["send"] = n
        /\ holds' = holds /\ memory' = memory
    BY <1>7 DEF kernel_sends, Finish, ConnTypeOK
  <2>3. Unsent = b /\ rest = b
    BY <1>1, <2>1 DEF Unsent
  <2>4. Unsent' = From(b, n + 1)
    BY <2>1, <2>2 DEF Unsent, Buffer, Failed
  <2>. HIDE DEF b
  <2>5. /\ SubSeq(b, 1, n) \in Seq(Byte) /\ From(b, n + 1) \in Seq(Byte)
        /\ b = SubSeq(b, 1, n) \o From(b, n + 1)
    BY <2>1, Cut
  <2>. DEFINE x == fed \o Arrived   y == SubSeq(b, 1, n)   z == From(b, n + 1)
  <2>6. x \in Seq(Byte) /\ y \in Seq(Byte) /\ z \in Seq(Byte) /\ b = y \o z
        /\ (x \o stream) \o b = Written
    BY <1>2, <2>3, <2>5
  <2>7. (x \o (stream \o y)) \o z = Written
    <3>. HIDE DEF x, y, z
    <3>1. stream \o y \in Seq(Byte) /\ x \o stream \in Seq(Byte)
      BY <1>0, <2>6
    <3>2. x \o (stream \o y) = (x \o stream) \o y
      BY <1>0, <2>6, Associative
    <3>3. ((x \o stream) \o y) \o z = (x \o stream) \o (y \o z)
      BY <2>6, <3>1, Associative
    <3>. QED BY <2>6, <3>2, <3>3
  <2>8. Arrived' = Arrived
    BY <1>3, <1>7 DEF SendStep
  <2>9. ((fed' \o Arrived') \o stream') \o Unsent' = Written' /\ Unsent' \in Seq(Byte)
    BY <1>0, <2>2, <2>4, <2>6, <2>7, <2>8
  <2>. QED BY <2>9 DEF InOrder, Placed
<1>8. ASSUME sent_bytes PROVE InOrder'
  <2>. DEFINE more == From(Buffer("send"), result["send"] + 1)
  <2>1. /\ UNCHANGED Moves /\ SendStep /\ holds["send"] # None /\ status'["send"] = "idle"
        /\ Unsent = more
    BY <1>8 DEF sent_bytes, SendStep, Moves, Complete, Counts, ConnTypeOK, Unsent
  <2>2. CASE more = <<>>
    <3>1. holds'["send"] = None
      BY <1>0, <1>8, <2>2 DEF sent_bytes, release, ConnTypeOK
    <3>. QED BY <1>3, <2>1, <2>2, <3>1, StayInOrder DEF Unsent
  <2>3. CASE more # <<>>
    <3>1. holds' = holds /\ memory' = [memory EXCEPT ![holds["send"]] = more]
      BY <1>8, <2>3 DEF sent_bytes, Fill
    <3>2. memory'[holds'["send"]] = more
      BY <1>0, <2>1, <3>1, BufferTypes DEF ConnTypeOK
    <3>. HIDE DEF more
    <3>3. Unsent' = more
      BY <2>1, <3>1, <3>2 DEF Unsent, Buffer
    <3>. QED BY <1>3, <2>1, <3>3, StayInOrder
  <2>. QED BY <2>2, <2>3
<1>9. ASSUME send_failed PROVE InOrder'
  <2>1. SendStep /\ fed' = fed /\ stream' = stream /\ sent' = sent /\ broken' = TRUE
    BY <1>9 DEF send_failed, SendStep
  <2>2. Arrived' = Arrived
    BY <1>3, <2>1
  <2>3. Placed(rest)'
    BY <1>0, <1>2, <2>1, <2>2 DEF Placed
  <2>. QED BY <2>1, <2>3 DEF InOrder
<1>10. ASSUME recv PROVE InOrder'
  <2>1. UNCHANGED Moves /\ RecvStep
    BY <1>10 DEF recv, RecvStep, Moves
  <2>2. Arrived = <<>> /\ Arrived' = <<>>
    BY <1>10 DEF recv, Start, Arrived, ConnTypeOK
  <2>. QED BY <1>4, <2>1, <2>2, StayInOrder
<1>11. ASSUME NEW n \in Results["recv"], kernel_receives(n) PROVE InOrder'
  <2>. DEFINE y == SubSeq(stream, 1, n)   z == From(stream, n + 1)
  <2>1. /\ n \in 0 .. Len(stream) /\ holds["recv"] # None /\ status["recv"] = "started"
    BY <1>11 DEF kernel_receives, Counts
  <2>2. /\ stream' = z /\ broken' = broken /\ fed' = fed /\ sent' = sent
        /\ status'["recv"] = "finished" /\ result'["recv"] = n
        /\ holds' = holds /\ memory' = [memory EXCEPT ![holds["recv"]] = y]
    BY <1>11 DEF kernel_receives, Finish, Fill, ConnTypeOK
  <2>3. y \in Seq(Byte) /\ z \in Seq(Byte) /\ stream = y \o z /\ Len(y) = n
    <3>1. Len(y) = n
      BY <1>0, <2>1
    <3>. QED BY <1>0, <2>1, <3>1, Cut
  <2>4. memory'[holds'["recv"]] = y
    BY <1>0, <2>1, <2>2, BufferTypes DEF ConnTypeOK
  <2>. HIDE DEF y, z
  <2>5. Arrived = <<>> /\ Arrived' = y
    <3>1. SubSeq(y, 1, n) = y
      BY <2>3
    <3>. QED BY <2>1, <2>2, <2>4, <3>1 DEF Arrived, Buffer
  <2>6. (fed \o y) \o z = fed \o stream
    BY <1>0, <2>3, Associative
  <2>7. (fed \o Arrived) \o stream = fed \o stream
    BY <1>0, <2>5
  <2>8. Placed(rest)'
    BY <1>0, <1>2, <2>2, <2>5, <2>6, <2>7 DEF Placed
  <2>9. Unsent' = Unsent
    BY <1>4, <1>11 DEF RecvStep
  <2>. QED BY <1>1, <2>2, <2>8, <2>9 DEF InOrder
<1>12. ASSUME received PROVE InOrder'
  <2>1. /\ fed' = fed \o Arrived /\ Arrived' = <<>> /\ stream' = stream /\ sent' = sent
        /\ broken' = broken
    BY <1>12 DEF received, Complete, feed, Arrived, ConnTypeOK
  <2>2. (fed \o Arrived) \o <<>> = fed \o Arrived
    BY <1>2
  <2>3. Placed(rest)'
    BY <1>0, <1>2, <2>1, <2>2 DEF Placed
  <2>4. Unsent' = Unsent
    BY <1>4, <1>12 DEF RecvStep
  <2>. QED BY <1>1, <2>1, <2>3, <2>4 DEF InOrder
<1>13. ASSUME disconnected PROVE InOrder'
  <2>1. /\ holds["send"] = None /\ stream = <<>> /\ stream' = <<>>
        /\ fed' = <<>> /\ sent' = <<>> /\ status'["recv"] = "idle"
    BY <1>13 DEF disconnected, reset, Phases, ConnTypeOK
  <2>2. holds'["send"] = None
    BY <1>13, <2>1, Apart DEF RecvStep, Same
  <2>3. Arrived' = <<>> /\ Unsent' = <<>> /\ Written' = <<>>
    BY <1>0, <2>1, <2>2, WrittenNothing DEF Arrived, Unsent
  <2>4. Placed(<<>>)'
    BY <2>1, <2>3 DEF Placed
  <2>5. <<>> \in Seq(Byte)
    OBVIOUS
  <2>. QED BY <2>3, <2>4, <2>5 DEF InOrder
<1>14. ASSUME connect PROVE InOrder'
  <2>1. /\ sent' = <<>> /\ fed' = <<>> /\ stream' = <<>>
        /\ holds'["send"] = None /\ status'["recv"] = "idle"
    BY <1>14 DEF connect, Start, Phases, ConnTypeOK
  <2>2. Arrived' = <<>> /\ Unsent' = <<>> /\ Written' = <<>>
    BY <1>0, <2>1, WrittenNothing DEF Arrived, Unsent
  <2>3. Placed(<<>>)'
    BY <2>1, <2>2 DEF Placed
  <2>4. <<>> \in Seq(Byte)
    OBVIOUS
  <2>. QED BY <2>2, <2>3, <2>4 DEF InOrder
<1>15. ASSUME OtherStep, ~ connect PROVE InOrder'
  <2>1. UNCHANGED Moves
    BY <1>15 DEF OtherStep, accept, close, kernel_connects, kernel_accepts, kernel_closes,
                completed, take_message, next_message, Moves
  <2>2. Arrived' = Arrived /\ Unsent' = Unsent
    BY <1>15, Apart, SameArrived, SameUnsent
  <2>. QED BY <2>1, <2>2, StayInOrder
<1>. QED BY <1>5, <1>6, <1>7, <1>8, <1>9, <1>10, <1>11, <1>12, <1>13, <1>14, <1>15, StepKinds
       DEF SendStep, RecvStep
-----------------------------------------------------------------------------
(* What is written holds the messages that are sent.                       *)
SendsOf(ms) == [i \in DOMAIN ms |-> serialize_message(ms[i])]

LEMMA Sending ==
  ASSUME NEW ms \in Seq(Values)
  PROVE  /\ SendsOf(ms) \in Seq(Seq(Byte)) /\ Len(SendsOf(ms)) = Len(ms)
         /\ \A i \in 1 .. Len(ms) : SendsOf(ms)[i] = serialize_message(ms[i])
         /\ \A m \in Values : SendsOf(Append(ms, m)) = SendsOf(ms) \o <<serialize_message(m)>>
<1>1. \A i \in 1 .. Len(ms) : ms[i] \in Values /\ serialize_message(ms[i]) \in Seq(Byte)
  <2>. TAKE i \in 1 .. Len(ms)
  <2>1. ms[i] \in Values
    OBVIOUS
  <2>. QED BY <2>1, MessageRead
<1>2. /\ SendsOf(ms) \in Seq(Seq(Byte)) /\ Len(SendsOf(ms)) = Len(ms)
      /\ \A i \in 1 .. Len(ms) : SendsOf(ms)[i] = serialize_message(ms[i])
  BY <1>1 DEF SendsOf
<1>3. ASSUME NEW m \in Values
      PROVE  SendsOf(Append(ms, m)) = SendsOf(ms) \o <<serialize_message(m)>>
  <2>. DEFINE a == SendsOf(Append(ms, m))   b == Append(SendsOf(ms), serialize_message(m))
              n == Len(ms) + 1
  <2>1. serialize_message(m) \in Seq(Byte)
    BY MessageRead
  <2>2. /\ DOMAIN Append(ms, m) = 1 .. n /\ Append(ms, m)[n] = m
        /\ \A i \in 1 .. Len(ms) : Append(ms, m)[i] = ms[i]
    OBVIOUS
  <2>3. a = [i \in 1 .. n |-> serialize_message(Append(ms, m)[i])]
    BY <2>2 DEF SendsOf
  <2>4. b \in Seq(Seq(Byte)) /\ Len(b) = n /\ b[n] = serialize_message(m)
        /\ \A i \in 1 .. Len(ms) : b[i] = serialize_message(ms[i])
    <3>. DEFINE s == SendsOf(ms)   x == serialize_message(m)
    <3>1. s \in Seq(Seq(Byte)) /\ x \in Seq(Byte) /\ Len(s) = Len(ms)
          /\ \A i \in 1 .. Len(ms) : s[i] = serialize_message(ms[i])
      BY <1>2, <2>1
    <3>. HIDE DEF s, x
    <3>2. Append(s, x) \in Seq(Seq(Byte)) /\ Len(Append(s, x)) = Len(s) + 1
          /\ Append(s, x)[Len(s) + 1] = x /\ \A i \in 1 .. Len(s) : Append(s, x)[i] = s[i]
      BY <3>1
    <3>. QED BY <3>1, <3>2 DEF s, x
  <2>5. b = [i \in 1 .. n |-> b[i]]
    <3>. HIDE DEF b
    <3>. QED BY <2>4
  <2>6. \A i \in 1 .. n : b[i] = serialize_message(Append(ms, m)[i])
    <3>. HIDE DEF b
    <3>. QED BY <2>2, <2>4
  <2>7. a = b
    <3>. HIDE DEF a, b
    <3>. QED BY <2>3, <2>5, <2>6
  <2>8. b = SendsOf(ms) \o <<serialize_message(m)>>
    BY <1>2, <2>1, AppendIsConcat
  <2>. QED BY <2>7, <2>8
<1>. QED BY <1>2, <1>3

LEMMA ConnDecodes ==
  ASSUME ConnTypeOK, Decodes, ConnectionNext
  PROVE  Decodes'
<1>. DEFINE vs == ValuesOf(sent)
<1>0. /\ sent \in Seq(Items) /\ Written = WrittenBy(sent) /\ Written' = WrittenBy(sent')
      /\ Sends = SendsOf(ValuesOf(sent)) /\ Sends' = SendsOf(ValuesOf(sent'))
  BY DEF ConnTypeOK, Written, WrittenBy, Sends, SendsOf, SentValues, ValuesOf
<1>1. ASSUME sent' = sent PROVE Decodes'
  <2>1. OnlyValues' <=> OnlyValues
    BY <1>1 DEF OnlyValues
  <2>. QED BY <1>0, <1>1, <2>1 DEF Decodes
<1>2. ASSUME sent' = <<>> PROVE Decodes'
  <2>1. Written' = <<>> /\ Sends' = <<>>
    BY <1>0, <1>2, WrittenNothing DEF SendsOf
  <2>2. \A t \in Seq(Byte) : <<>> \o t = t /\ Messages[t] \in Seq(Seq(Byte))
    BY MessagesOf
  <2>3. \A t \in Seq(Byte) : <<>> \o Messages[t] = Messages[t]
    BY <2>2, ConcatEmptySeq
  <2>. QED BY <2>1, <2>2, <2>3 DEF Decodes
<1>3. ASSUME NEW item \in Items, sent' = Append(sent, item) PROVE Decodes'
  <2>. DEFINE e == Encoded(item)
  <2>. SUFFICES ASSUME OnlyValues', NEW t \in Seq(Byte)
                PROVE  Messages[Written' \o t] = Sends' \o Messages[t]
    BY DEF Decodes
  <2>1. Len(sent) \in Nat /\ DOMAIN sent = 1 .. Len(sent) /\ DOMAIN sent' = 1 .. Len(sent) + 1
        /\ sent'[Len(sent) + 1] = item /\ \A i \in 1 .. Len(sent) : sent'[i] = sent[i]
    BY <1>0, <1>3
  <2>2. OnlyValues
    BY <2>1 DEF OnlyValues
  <2>3. item \in Values \/ item.bytes = <<Cookie, 0>>
    <3>1. "id" \in DOMAIN item \/ item.bytes = <<Cookie, 0>>
      BY <2>1 DEF OnlyValues
    <3>. QED BY <3>1, IsValue
  <2>4. /\ e \in Seq(Byte) /\ Written \in Seq(Byte) /\ Written' = Written \o e
        /\ vs \in Seq(Values)
        /\ ValuesOf(sent') = IF item \in Values THEN Append(vs, item) ELSE vs
    BY <1>0, <1>3, EncodedType, Writing DEF Items
  <2>. HIDE DEF e, vs
  <2>5. Sends \in Seq(Seq(Byte)) /\ Sends = SendsOf(vs) /\ Messages[t] \in Seq(Seq(Byte))
    BY <1>0, <2>4, Sending, MessagesOf DEF vs
  <2>6. Messages[Written' \o t] = Sends \o Messages[e \o t]
    <3>1. e \o t \in Seq(Byte)
      BY <2>4
    <3>2. (Written \o e) \o t = Written \o (e \o t)
      BY <2>4, Associative
    <3>. QED BY <2>2, <2>4, <3>1, <3>2 DEF Decodes
  <2>7. CASE item \in Values
    <3>0. e = serialize_message(item)
      BY <2>7, IsValue DEF e
    <3>1. Messages[e \o t] = <<e>> \o Messages[t] /\ Sends' = Sends \o <<e>>
      <4>1. Messages[serialize_message(item) \o t] = <<serialize_message(item)>> \o Messages[t]
        BY <2>7, MessageRead
      <4>2. Sends' = SendsOf(Append(vs, item))
        BY <1>0, <2>4, <2>7
      <4>3. SendsOf(Append(vs, item)) = SendsOf(vs) \o <<serialize_message(item)>>
        BY <2>4, <2>7, Sending
      <4>. QED BY <2>5, <3>0, <4>1, <4>2, <4>3
    <3>2. <<e>> \in Seq(Seq(Byte))
      BY <2>4
    <3>3. (Sends \o <<e>>) \o Messages[t] = Sends \o (<<e>> \o Messages[t])
      BY <2>5, <3>2, Associative
    <3>. QED BY <2>6, <3>1, <3>3
  <2>8. CASE item \notin Values
    <3>1. e = <<Cookie, 0>> /\ Sends' = Sends
      BY <1>0, <2>3, <2>4, <2>5, <2>8, IsValue DEF e
    <3>. QED BY <2>6, <3>1, CookieRead
  <2>. QED BY <2>7, <2>8
<1>4. CASE SendStep
  <2>1. CASE \E item \in Items : encode(item)
    BY <1>3, <2>1 DEF encode
  <2>2. CASE ~ \E item \in Items : encode(item)
    <3>1. sent' = sent
      BY <1>4, <2>2 DEF SendStep, send, kernel_sends, kernel_fails, sent_bytes, send_failed,
                        connVars
    <3>. QED BY <1>1, <3>1
  <2>. QED BY <2>1, <2>2
<1>5. CASE RecvStep
  BY <1>1, <1>2, <1>5 DEF RecvStep, recv, kernel_receives, received, disconnected, connVars
<1>6. CASE OtherStep
  <2>1. sent' = sent
    BY <1>6 DEF OtherStep, connect, accept, close, kernel_connects, kernel_accepts, kernel_closes,
                completed, take_message, connVars
  <2>. QED BY <1>1, <2>1
<1>. QED BY <1>4, <1>5, <1>6, StepKinds
-----------------------------------------------------------------------------
(* The invariant holds in every state.                                     *)
LEMMA ConnInitInv ==
  ConnectionInit => ConnInv
<1>. SUFFICES ASSUME ConnectionInit PROVE ConnInv
  OBVIOUS
<1>. USE TheOps
<1>1. /\ fed = <<>> /\ stream = <<>> /\ sent = <<>> /\ peers = {} /\ broken = FALSE
      /\ holds = [o \in Sides |-> None] /\ memory = [i \in Blocks |-> <<>>]
      /\ status = [o \in Ops |-> "idle"] /\ result = [o \in Ops |-> 0]
      /\ holds["send"] = None /\ holds["recv"] = None
      /\ \A o \in Ops : status[o] = "idle"
  BY WithBuffers DEF ConnectionInit, Init, OpsInit, Sides, Blocks
<1>2. Fresh
  BY DEF ConnectionInit, Init, Fresh
<1>3. FramerInv
  BY <1>2, FramerStart
<1>4. free_list \in Seq(Blocks) /\ Distinct(free_list)
  <2>1. free_list = [i \in 1 .. PoolSize |-> PoolSize - i] /\ PoolSize \in Nat
    BY Constants DEF ConnectionInit
  <2>2. \A i \in 1 .. PoolSize : PoolSize - i \in Blocks
    BY <2>1 DEF Blocks
  <2>3. free_list \in Seq(Blocks)
    BY <2>1, <2>2
  <2>4. Distinct(free_list)
    BY <2>1 DEF Distinct
  <2>. QED BY <2>3, <2>4
<1>5. ConnTypeOK
  <2>1. status \in [Ops -> Statuses] /\ result \in [Ops -> Int] /\ holds \in [Sides -> Blocks \union {None}]
    BY <1>1 DEF Statuses
  <2>2. stream \in Seq(Byte) /\ memory \in [Blocks -> Seq(Byte)]
    BY <1>1
  <2>3. sent \in Seq(Items) /\ peers = {} /\ broken \in BOOLEAN
    <3>1. <<>> \in Seq(Items)
      OBVIOUS
    <3>. QED BY <1>1, <3>1
  <2>. QED BY <1>4, <2>1, <2>2, <2>3 DEF ConnTypeOK
<1>6. Unshared
  <2>1. None \notin Blocks
    BY ConnectionAssumption DEF Blocks
  <2>2. ~ IsFree(None, free_list)
    BY <1>4, <2>1 DEF IsFree
  <2>. QED BY <1>1, <1>4, <2>2 DEF Unshared
<1>7. Counts
  BY <1>1 DEF Counts
<1>8. Phases
  BY <1>1 DEF Phases
<1>9. Arrived = <<>> /\ Unsent = <<>> /\ Written = <<>> /\ SentValues = <<>>
  BY <1>1, WrittenNothing DEF Arrived, Unsent, Written, WrittenBy, SentValues, ValuesOf
<1>10. InOrder
  <2>1. Placed(<<>>) /\ <<>> \in Seq(Byte)
    BY <1>1, <1>9 DEF Placed
  <2>. QED BY <1>9, <2>1 DEF InOrder
<1>11. Decodes
  <2>1. Sends = <<>>
    BY <1>9 DEF Sends
  <2>2. \A t \in Seq(Byte) : <<>> \o t = t /\ Messages[t] \in Seq(Seq(Byte))
    BY MessagesOf
  <2>3. \A t \in Seq(Byte) : <<>> \o Messages[t] = Messages[t]
    BY <2>2, ConcatEmptySeq
  <2>. QED BY <1>9, <2>1, <2>2, <2>3 DEF Decodes
<1>. QED BY <1>3, <1>5, <1>6, <1>7, <1>8, <1>10, <1>11 DEF ConnInv

LEMMA ConnStutters ==
  ASSUME ConnInv, UNCHANGED allVars
  PROVE  ConnInv'
<1>. USE DEF ConnInv, allVars, vars, opVars, bufferVars, connVars
<1>1. ConnTypeOK' /\ Unshared' /\ Counts' /\ Phases'
  BY DEF ConnTypeOK, Unshared, Counts, Phases, Buffer
<1>2. FramerInv'
  BY DEF FramerInv, Kept
<1>3. InOrder'
  BY DEF InOrder, Placed, Arrived, Unsent, Buffer, Written
<1>4. Decodes'
  BY DEF Decodes, OnlyValues, Written, Sends, SentValues
<1>. QED BY <1>1, <1>2, <1>3, <1>4

LEMMA ConnNextInv ==
  ConnInv /\ [ConnectionNext]_allVars => ConnInv'
<1>1. ASSUME ConnInv, ConnectionNext PROVE ConnInv'
  BY <1>1, ConnTypes, ConnUnshared, ConnCounts, ConnPhases, ConnFramer, ConnInOrder, ConnDecodes
     DEF ConnInv
<1>. QED BY <1>1, ConnStutters

(* The inductive invariant holds in every reachable state: whatever the    *)
(* kernel takes, gives, refuses or fails, and whatever comes in the stream.*)
THEOREM ConnectionInvariance ==
  ConnectionSpec => []ConnInv
BY ConnInitInv, ConnNextInv, PTL DEF ConnectionSpec

(* Every variable of a connection has its type, and no buffer of the pool  *)
(* is free twice, free and in use, or used by both sides.                  *)
THEOREM ConnectionTypes ==
  ConnectionSpec => [](ConnTypeOK /\ Unshared)
<1>1. ConnInv => ConnTypeOK /\ Unshared
  BY DEF ConnInv
<1>. QED BY <1>1, ConnectionInvariance, PTL

(* How the stream is cut into pieces makes no difference to the messages.  *)
THEOREM PiecesNeverMatter ==
  ConnectionSpec => []PiecesDoNotMatter
<1>1. ConnInv => PiecesDoNotMatter
  BY FramerPromises DEF ConnInv
<1>. QED BY <1>1, ConnectionInvariance, PTL

(* No complete message waits for bytes that it does not need.              *)
THEOREM NothingIsHeldBack ==
  ConnectionSpec => []NothingHeldBack
<1>1. ConnInv => NothingHeldBack
  BY FramerPromises DEF ConnInv
<1>. QED BY <1>1, ConnectionInvariance, PTL

LEMMA PrefixOf ==
  ASSUME NEW S, NEW s \in Seq(S), NEW t \in Seq(S)
  PROVE  IsPrefix(s, s \o t) /\ (s \o t = s => t = <<>>)
<1>1. s \o t \in Seq(S) /\ Len(s \o t) = Len(s) + Len(t)
      /\ \A i \in 1 .. Len(s) : (s \o t)[i] = s[i]
  BY ConcatProperties
<1>. DEFINE u == s \o t
<1>. HIDE DEF u
<1>2. u \in Seq(S) /\ Len(u) >= Len(s) /\ \A i \in 1 .. Len(s) : u[i] = s[i]
  BY <1>1 DEF u
<1>3. SubSeq(s, 1, Len(s)) = SubSeq(u, 1, Len(s))
  BY <1>2
<1>4. s \o t = s => t = <<>>
  <2>1. s \o t = s => Len(t) = 0
    BY <1>1
  <2>. QED BY <2>1
<1>. QED BY <1>2, <1>3, <1>4 DEF IsPrefix, u

(* Every byte that was encoded is in one place, in order.                  *)
THEOREM BytesStayInOrder ==
  ConnectionSpec => []BytesInOrder
<1>1. ASSUME ConnInv PROVE BytesInOrder
  <2>1. PICK rest \in Seq(Byte) : Placed(rest) /\ (~ broken => rest = Unsent)
    BY <1>1 DEF ConnInv, InOrder
  <2>. DEFINE s == (fed \o Arrived) \o stream
  <2>2. s \in Seq(Byte)
    <3>1. fed \in Seq(Byte) /\ Arrived \in Seq(Byte) /\ stream \in Seq(Byte)
      BY <1>1, PlaceTypes DEF ConnInv, ConnTypeOK, FramerInv
    <3>2. fed \o Arrived \in Seq(Byte)
      BY <3>1
    <3>. QED BY <3>1, <3>2
  <2>3. s \o rest = Written
    BY <2>1 DEF Placed
  <2>4. IsPrefix(s, s \o rest)
    <3>. HIDE DEF s
    <3>. QED BY <2>2, PrefixOf
  <2>5. broken => IsPrefix(s, Written)
    BY <2>3, <2>4
  <2>. QED BY <2>1, <2>3, <2>5 DEF BytesInOrder
<1>. QED BY <1>1, ConnectionInvariance, PTL

(* The server decodes the values the client encoded, all of them, in order *)
(* and equal, whatever types they have and however the stream is cut.      *)
THEOREM DecodedWereSent ==
  ConnectionSpec => []DecodedAreSent
<1>1. ASSUME ConnInv, OnlyValues
      PROVE  /\ IsPrefix(Decoded, SentValues)
             /\ drained /\ fed = Written => Decoded = SentValues
  <2>. DEFINE vs == ValuesOf(sent)
              ss == SendsOf(vs)
              decode(b) == [id |-> b[1], value |-> deserialize_payload(b)]
  <2>1. /\ sent \in Seq(Items) /\ Written = WrittenBy(sent) /\ SentValues = vs /\ Sends = ss
    BY <1>1 DEF ConnInv, ConnTypeOK, Written, WrittenBy, Sends, SendsOf, SentValues, ValuesOf
  <2>2. Written \in Seq(Byte) /\ vs \in Seq(Values)
    <3>1. sent = <<>> \/ \E s \in Seq(Items), item \in Items : sent = Append(s, item)
      <4>1. sent # <<>> => /\ SubSeq(sent, 1, Len(sent) - 1) \in Seq(Items)
                           /\ sent[Len(sent)] \in Items
                           /\ sent = Append(SubSeq(sent, 1, Len(sent) - 1), sent[Len(sent)])
        BY <2>1
      <4>. QED BY <4>1
    <3>2. <<>> \in Seq(Byte) /\ <<>> \in Seq(Values)
      OBVIOUS
    <3>3. WrittenBy(sent) \in Seq(Byte) /\ ValuesOf(sent) \in Seq(Values)
      <4>1. CASE sent = <<>>
        BY <3>2, <4>1, WrittenNothing
      <4>2. CASE Items # {}
        BY <2>1, <4>2, Writing
      <4>. QED BY <3>1, <4>1, <4>2
    <3>. QED BY <2>1, <3>3
  <2>3. /\ ss \in Seq(Seq(Byte)) /\ Len(ss) = Len(vs)
        /\ \A i \in 1 .. Len(vs) : ss[i] = serialize_message(vs[i]) /\ vs[i] \in Values
    BY <2>2, Sending
  <2>. HIDE DEF vs, ss
  <2>4. Messages[Written] = ss
    <3>1. <<>> \in Seq(Byte) /\ Written \o <<>> = Written
      BY <2>2
    <3>2. Messages[<<>>] = <<>>
      <4>1. ~ HasHeader(<<>>)
        BY DEF HasHeader, header_size
      <4>. QED BY <3>1, <4>1, MessagesOf DEF Skips, Ready
    <3>3. Messages[Written] = Sends \o <<>>
      BY <1>1, <3>1, <3>2 DEF ConnInv, Decodes
    <3>. QED BY <2>1, <2>3, <3>3
  <2>5. \E rest \in Seq(Byte) : fed \o rest = Written
    <3>1. PICK r \in Seq(Byte) : Placed(r)
      BY <1>1 DEF ConnInv, InOrder
    <3>2. fed \in Seq(Byte) /\ Arrived \in Seq(Byte) /\ stream \in Seq(Byte)
      BY <1>1, PlaceTypes DEF ConnInv, ConnTypeOK, FramerInv
    <3>3. Arrived \o stream \in Seq(Byte) /\ (Arrived \o stream) \o r \in Seq(Byte)
      <4>1. Arrived \o stream \in Seq(Byte)
        BY <3>2
      <4>. QED BY <4>1
    <3>4. (fed \o Arrived) \o stream = fed \o (Arrived \o stream)
      BY <3>2, Associative
    <3>5. (fed \o (Arrived \o stream)) \o r = fed \o ((Arrived \o stream) \o r)
      BY <3>2, <3>3, Associative
    <3>. QED BY <3>1, <3>3, <3>4, <3>5 DEF Placed
  <2>6. emitted \in Seq(Seq(Byte)) /\ \E more \in Seq(Seq(Byte)) : emitted \o more = ss
    <3>1. PICK rest \in Seq(Byte) : fed \o rest = Written
      BY <2>5
    <3>2. Kept \in Seq(Byte) /\ emitted \in Seq(Seq(Byte))
      BY <1>1, KeptType DEF ConnInv, FramerInv
    <3>3. Messages[fed \o rest] = emitted \o Messages[Kept \o rest]
      BY <1>1 DEF ConnInv, FramerInv
    <3>4. Messages[Kept \o rest] \in Seq(Seq(Byte))
      <4>1. Kept \o rest \in Seq(Byte)
        BY <3>2
      <4>. QED BY <4>1, MessagesOf
    <3>. QED BY <2>4, <3>1, <3>2, <3>3, <3>4
  <2>7. Len(emitted) <= Len(ss) /\ \A i \in 1 .. Len(emitted) : emitted[i] = ss[i]
    <3>1. PICK more \in Seq(Seq(Byte)) : emitted \o more = ss
      BY <2>6
    <3>2. /\ Len(emitted \o more) = Len(emitted) + Len(more)
          /\ \A i \in 1 .. Len(emitted) + Len(more) :
               (emitted \o more)[i] = IF i <= Len(emitted) THEN emitted[i] ELSE more[i - Len(emitted)]
      BY <2>6, ConcatProperties
    <3>3. Len(emitted) \in Nat /\ Len(more) \in Nat
      BY <2>6
    <3>. QED BY <3>1, <3>2, <3>3
  <2>8. Decoded = [i \in 1 .. Len(emitted) |-> decode(emitted[i])]
    BY <2>6 DEF Decoded
  <2>9. \A i \in 1 .. Len(emitted) : decode(emitted[i]) = vs[i]
    <3>. TAKE i \in 1 .. Len(emitted)
    <3>1. i \in 1 .. Len(vs) /\ emitted[i] = serialize_message(vs[i]) /\ vs[i] \in Values
      BY <2>2, <2>3, <2>6, <2>7
    <3>2. vs[i] = [id |-> vs[i].id, value |-> vs[i].value]
      BY <3>1, Payload
    <3>3. emitted[i][1] = vs[i].id /\ deserialize_payload(emitted[i]) = vs[i].value
      BY <3>1, MessageRead
    <3>. QED BY <3>2, <3>3
  <2>10. Decoded = [i \in 1 .. Len(emitted) |-> vs[i]]
    <3>. HIDE DEF decode
    <3>. QED BY <2>8, <2>9
  <2>11. Decoded = SubSeq(vs, 1, Len(emitted)) /\ Len(Decoded) = Len(emitted)
    BY <2>2, <2>3, <2>6, <2>7, <2>10
  <2>12. IsPrefix(Decoded, vs)
    <3>1. Decoded \in Seq(Values) /\ SubSeq(Decoded, 1, Len(Decoded)) = Decoded
      BY <2>2, <2>3, <2>6, <2>7, <2>11
    <3>. QED BY <2>2, <2>3, <2>7, <2>11, <3>1 DEF IsPrefix
  <2>13. ASSUME drained, fed = Written PROVE Decoded = vs
    <3>1. emitted = ss
      BY <1>1, <2>4, <2>13, FramerPromises DEF ConnInv, NothingHeldBack
    <3>2. SubSeq(vs, 1, Len(vs)) = vs
      BY <2>2
    <3>. QED BY <2>3, <2>11, <3>1, <3>2
  <2>. QED BY <2>1, <2>12, <2>13
<1>2. ConnInv => DecodedAreSent
  BY <1>1 DEF DecodedAreSent
<1>. QED BY <1>2, ConnectionInvariance, PTL
=============================================================================
