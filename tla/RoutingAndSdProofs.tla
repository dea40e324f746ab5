------------------------- MODULE RoutingAndSdProofs -------------------------
(***************************************************************************)
(* What Routing promises for any number of threads, keys, handlers and     *)
(* nested calls: notifications add up, the owner of a key has them in      *)
(* order, and for_each sees a registry that does not change.  And what     *)
(* SdMessage promises over UDP, for offers of any number and options of    *)
(* any size: what is written is what is read.                              *)
(***************************************************************************)
EXTENDS Routing, SdOverUdp, DataLemmas, TLAPS

NotifyFrame == [at : {"notify"}, key : Keys, up : BOOLEAN, next : Nat \ {0}]
VisitFrame  == [at : {"visit"}, seen : SUBSET Keys]
Frame       == NotifyFrame \union VisitFrame

TypeOK ==
  /\ services \in [Keys -> Target]
  /\ readers \subseteq Threads
  /\ stack \in [Threads -> Seq(Frame)]
  /\ \A t \in Threads : Len(stack[t]) <= MaxDepth
  /\ handlers \in 0 .. MaxHandlers
  /\ heard \in [1 .. MaxHandlers -> [Keys -> {"nothing", "up", "down"}]]
  /\ balance \in [1 .. MaxHandlers -> [Keys -> Int]]

(* Who visits the registry holds the mutex, and does nothing else.         *)
VisitsHold ==
  \A t \in Threads : \A i \in 1 .. Len(stack[t]) :
    stack[t][i].at = "visit" => t \in readers /\ i = Len(stack[t])

(* Where a key has an owner, there is one notification of it at a time,    *)
(* and it says what is so.                                                 *)
OneAtATime ==
  \A k \in Keys, t \in Threads : \A i \in 1 .. Len(stack[t]) :
    Owner[k] # Anyone /\ stack[t][i].at = "notify" /\ stack[t][i].key = k =>
      /\ t = Owner[k]
      /\ stack[t][i].up <=> k \in Registered
      /\ \A j \in 1 .. Len(stack[t]) :
           stack[t][j].at = "notify" /\ stack[t][j].key = k => j = i

(* A handler that has not been registered has heard nothing.               *)
NoneTooEarly ==
  \A h \in 1 .. MaxHandlers, k \in Keys : h > handlers => heard[h][k] = "nothing"

IInv ==
  /\ TypeOK
  /\ VisitsHold
  /\ VisitIsCurrent
  /\ OneAtATime
  /\ NoneTooEarly
  /\ LastHeardIsRight
  /\ NotificationsBalance
-----------------------------------------------------------------------------
LEMMA Notification ==
  ASSUME NEW k \in Keys, NEW up \in BOOLEAN
  PROVE  [at |-> "notify", key |-> k, up |-> up, next |-> 1] \in NotifyFrame
BY DEF NotifyFrame

LEMMA Registering ==
  ASSUME TypeOK, NEW h \in Handlers, NEW k \in Keys
  PROVE  /\ h \in 1 .. MaxHandlers /\ h \in Nat /\ h >= 1
         /\ heard[h][k] \in {"nothing", "up", "down"}
         /\ balance[h][k] \in Int
<1>1. h \in 1 .. MaxHandlers /\ h \in Nat /\ h >= 1
  BY RoutingAssumption DEF TypeOK, Handlers
<1>. QED BY <1>1 DEF TypeOK

(* What happens to a stack.                                                *)
LEMMA Pushed ==
  ASSUME TypeOK, NEW t \in Threads, NEW f \in Frame, Push(t, f)
  PROVE  /\ stack' \in [Threads -> Seq(Frame)]
         /\ Len(stack'[t]) = Len(stack[t]) + 1
         /\ \A i \in 1 .. Len(stack[t]) : stack'[t][i] = stack[t][i]
         /\ stack'[t][Len(stack[t]) + 1] = f
         /\ \A u \in Threads \ {t} : stack'[u] = stack[u]
BY DEF TypeOK, Push

LEMMA Shorter ==
  ASSUME NEW S, NEW s \in Seq(S), s # <<>>
  PROVE  /\ SubSeq(s, 1, Len(s) - 1) \in Seq(S)
         /\ Len(SubSeq(s, 1, Len(s) - 1)) = Len(s) - 1
         /\ \A i \in 1 .. Len(s) - 1 : SubSeq(s, 1, Len(s) - 1)[i] = s[i]
<1>. DEFINE m == 1
            n == Len(s) - 1
<1>1. /\ m = 1 /\ n = Len(s) - 1 /\ n \in Nat
      /\ \A i \in m .. n : s[i] \in S
  OBVIOUS
<1>. HIDE DEF m, n
<1>2. /\ SubSeq(s, m, n) \in Seq(S)
      /\ Len(SubSeq(s, m, n)) = IF m <= n THEN n - m + 1 ELSE 0
      /\ \A i \in 1 .. n - m + 1 : SubSeq(s, m, n)[i] = s[m + i - 1]
  BY <1>1, SubSeqProperties
<1>3. \A i \in 1 .. n : SubSeq(s, 1, n)[i] = s[i]
  BY <1>1, <1>2
<1>. QED BY <1>1, <1>2, <1>3

LEMMA Popped ==
  ASSUME TypeOK, NEW t \in Threads, stack[t] # <<>>, Pop(t)
  PROVE  /\ stack' \in [Threads -> Seq(Frame)]
         /\ Len(stack'[t]) = Len(stack[t]) - 1
         /\ \A i \in 1 .. Len(stack[t]) - 1 : stack'[t][i] = stack[t][i]
         /\ \A u \in Threads \ {t} : stack'[u] = stack[u]
<1>1. stack[t] \in Seq(Frame) /\ stack \in [Threads -> Seq(Frame)]
  BY DEF TypeOK
<1>2. SubSeq(stack[t], 1, Len(stack[t]) - 1) \in Seq(Frame)
  BY <1>1, Shorter
<1>3. stack' = [stack EXCEPT ![t] = SubSeq(stack[t], 1, Len(stack[t]) - 1)]
  BY DEF Pop
<1>. QED BY <1>1, <1>2, <1>3, Shorter

LEMMA Became ==
  ASSUME TypeOK, NEW t \in Threads, stack[t] # <<>>, NEW f \in Frame, Become(t, f)
  PROVE  /\ stack' \in [Threads -> Seq(Frame)]
         /\ Len(stack'[t]) = Len(stack[t])
         /\ \A i \in 1 .. Len(stack[t]) - 1 : stack'[t][i] = stack[t][i]
         /\ stack'[t][Len(stack[t])] = f
         /\ \A u \in Threads \ {t} : stack'[u] = stack[u]
BY DEF TypeOK, Become

(* The top of a stack.                                                     *)
LEMMA TopFrame ==
  ASSUME TypeOK, NEW t \in Threads, stack[t] # <<>>
  PROVE  /\ Len(stack[t]) \in 1 .. MaxDepth
         /\ Top(t) = stack[t][Len(stack[t])]
         /\ Top(t) \in Frame
         /\ Top(t).at = "notify" => Top(t) \in NotifyFrame
         /\ Top(t).at = "visit" => Top(t) \in VisitFrame
<1>1. Len(stack[t]) \in 1 .. MaxDepth
  BY RoutingAssumption DEF TypeOK
<1>2. Top(t) \in Frame
  BY <1>1 DEF Top, TypeOK
<1>. QED BY <1>1, <1>2 DEF Top, Frame, NotifyFrame, VisitFrame
-----------------------------------------------------------------------------
(* What happens to the notifications that are still to be told.            *)
LEMMA FewToTell ==
  ASSUME TypeOK, NEW h, NEW k, NEW up
  PROVE  /\ IsFiniteSet(ToTell(h, k, up))
         /\ Cardinality(ToTell(h, k, up)) \in Nat
<1>1. IsFiniteSet(1 .. MaxDepth)
  BY FS_Interval, RoutingAssumption
<1>2. IsFiniteSet(Threads \X (1 .. MaxDepth))
  BY <1>1, FS_Product, RoutingAssumption
<1>3. ToTell(h, k, up) \in SUBSET (Threads \X (1 .. MaxDepth))
  BY DEF ToTell, Frames
<1>4. IsFiniteSet(ToTell(h, k, up))
  BY <1>2, <1>3, FS_Subset
<1>. QED BY <1>4, FS_CardinalityType

LEMMA TellPushed ==
  ASSUME TypeOK, NEW t \in Threads, NEW f \in Frame, Push(t, f), Len(stack[t]) < MaxDepth,
         NEW h, NEW k, NEW up
  PROVE  /\ <<t, Len(stack[t]) + 1>> \notin ToTell(h, k, up)
         /\ ToTell(h, k, up)' = IF Tells(f, h, k, up)
                                THEN ToTell(h, k, up) \union {<<t, Len(stack[t]) + 1>>}
                                ELSE ToTell(h, k, up)
<1>. DEFINE n == Len(stack[t]) + 1
<1>1. /\ Len(stack'[t]) = n /\ stack'[t][n] = f
      /\ \A i \in 1 .. n - 1 : stack'[t][i] = stack[t][i]
      /\ \A u \in Threads \ {t} : stack'[u] = stack[u]
  BY Pushed
<1>2. n \in 1 .. MaxDepth /\ MaxDepth \in Nat
  BY RoutingAssumption DEF TypeOK
<1>3. \A u \in Threads : Len(stack[u]) \in Nat
  BY DEF TypeOK
<1>4. <<t, n>> \notin ToTell(h, k, up)
  BY <1>2, <1>3 DEF ToTell, Frames
<1>5. <<t, n>> \in ToTell(h, k, up)' <=> Tells(f, h, k, up)
  BY <1>1, <1>2 DEF ToTell, Frames
<1>6. ASSUME NEW p \in Threads \X (1 .. MaxDepth), p # <<t, n>>
      PROVE  p \in ToTell(h, k, up)' <=> p \in ToTell(h, k, up)
  <2>1. CASE p[1] = t
    <3>1. p[2] # n
      BY <1>6, <2>1
    <3>2. p[2] <= n <=> p[2] <= n - 1
      BY <1>2, <3>1
    <3>. QED BY <1>1, <1>2, <1>3, <2>1, <3>1, <3>2 DEF ToTell, Frames
  <2>2. CASE p[1] # t
    BY <1>1, <2>2 DEF ToTell, Frames
  <2>. QED BY <2>1, <2>2
<1>7. /\ ToTell(h, k, up) \subseteq Threads \X (1 .. MaxDepth)
      /\ ToTell(h, k, up)' \subseteq Threads \X (1 .. MaxDepth)
      /\ <<t, n>> \in Threads \X (1 .. MaxDepth)
  BY <1>2 DEF ToTell, Frames
<1>. HIDE DEF n
<1>8. ToTell(h, k, up)' = IF Tells(f, h, k, up) THEN ToTell(h, k, up) \union {<<t, n>>}
                                               ELSE ToTell(h, k, up)
  BY <1>4, <1>5, <1>6, <1>7
<1>. QED BY <1>4, <1>8 DEF n

LEMMA TellPopped ==
  ASSUME TypeOK, NEW t \in Threads, stack[t] # <<>>, Pop(t),
         NEW h, NEW k, NEW up
  PROVE  ToTell(h, k, up)' = ToTell(h, k, up) \ {<<t, Len(stack[t])>>}
<1>. DEFINE n == Len(stack[t])
<1>1. /\ Len(stack'[t]) = n - 1
      /\ \A i \in 1 .. n - 1 : stack'[t][i] = stack[t][i]
      /\ \A u \in Threads \ {t} : stack'[u] = stack[u]
  BY Popped
<1>2. n \in 1 .. MaxDepth /\ MaxDepth \in Nat
  BY TopFrame, RoutingAssumption
<1>3. <<t, n>> \notin ToTell(h, k, up)'
  BY <1>1, <1>2 DEF ToTell, Frames
<1>4. ASSUME NEW p \in Threads \X (1 .. MaxDepth), p # <<t, n>>
      PROVE  p \in ToTell(h, k, up)' <=> p \in ToTell(h, k, up)
  <2>1. CASE p[1] = t
    <3>1. p[2] # n
      BY <1>4, <2>1
    <3>2. p[2] <= n <=> p[2] <= n - 1
      BY <1>2, <3>1
    <3>. QED BY <1>1, <1>2, <2>1, <3>1, <3>2 DEF ToTell, Frames
  <2>2. CASE p[1] # t
    BY <1>1, <2>2 DEF ToTell, Frames
  <2>. QED BY <2>1, <2>2
<1>5. /\ ToTell(h, k, up) \subseteq Threads \X (1 .. MaxDepth)
      /\ ToTell(h, k, up)' \subseteq Threads \X (1 .. MaxDepth)
  BY DEF ToTell, Frames
<1>. HIDE DEF n
<1>6. ToTell(h, k, up)' = ToTell(h, k, up) \ {<<t, n>>}
  BY <1>3, <1>4, <1>5
<1>. QED BY <1>6 DEF n

LEMMA TellBecame ==
  ASSUME TypeOK, NEW t \in Threads, stack[t] # <<>>, NEW f \in Frame, Become(t, f),
         NEW h, NEW k, NEW up
  PROVE  ToTell(h, k, up)' = IF Tells(f, h, k, up)
                              THEN ToTell(h, k, up) \union {<<t, Len(stack[t])>>}
                              ELSE ToTell(h, k, up) \ {<<t, Len(stack[t])>>}
<1>. DEFINE n == Len(stack[t])
<1>1. /\ Len(stack'[t]) = n /\ stack'[t][n] = f
      /\ \A i \in 1 .. n - 1 : stack'[t][i] = stack[t][i]
      /\ \A u \in Threads \ {t} : stack'[u] = stack[u]
  BY Became
<1>2. n \in 1 .. MaxDepth /\ MaxDepth \in Nat
  BY TopFrame, RoutingAssumption
<1>3. <<t, n>> \in ToTell(h, k, up)' <=> Tells(f, h, k, up)
  BY <1>1, <1>2 DEF ToTell, Frames
<1>4. ASSUME NEW p \in Threads \X (1 .. MaxDepth), p # <<t, n>>
      PROVE  p \in ToTell(h, k, up)' <=> p \in ToTell(h, k, up)
  <2>1. CASE p[1] = t
    <3>1. p[2] # n
      BY <1>4, <2>1
    <3>2. p[2] <= n <=> p[2] <= n - 1
      BY <1>2, <3>1
    <3>. QED BY <1>1, <1>2, <2>1, <3>1, <3>2 DEF ToTell, Frames
  <2>2. CASE p[1] # t
    BY <1>1, <2>2 DEF ToTell, Frames
  <2>. QED BY <2>1, <2>2
<1>5. /\ ToTell(h, k, up) \subseteq Threads \X (1 .. MaxDepth)
      /\ ToTell(h, k, up)' \subseteq Threads \X (1 .. MaxDepth)
      /\ <<t, n>> \in Threads \X (1 .. MaxDepth)
  BY <1>2 DEF ToTell, Frames
<1>. HIDE DEF n
<1>6. ToTell(h, k, up)' = IF Tells(f, h, k, up) THEN ToTell(h, k, up) \union {<<t, n>>}
                                               ELSE ToTell(h, k, up) \ {<<t, n>>}
  BY <1>3, <1>4, <1>5
<1>. QED BY <1>6 DEF n
-----------------------------------------------------------------------------
LEMMA InitIInv == Init => IInv
<1>. SUFFICES ASSUME Init PROVE IInv
  OBVIOUS
<1>1. TypeOK
  BY RoutingAssumption DEF Init, TypeOK, Target
<1>2. \A t \in Threads : Len(stack[t]) = 0
  BY DEF Init
<1>3. handlers = 0
  BY DEF Init
<1>4. VisitsHold /\ VisitIsCurrent /\ OneAtATime
  BY <1>2 DEF VisitsHold, VisitIsCurrent, OneAtATime
<1>5. NoneTooEarly
  BY DEF Init, NoneTooEarly
<1>6. LastHeardIsRight /\ NotificationsBalance
  BY <1>3 DEF LastHeardIsRight, NotificationsBalance, Handlers
<1>. QED BY <1>1, <1>4, <1>5, <1>6 DEF IInv

(* A change of the registry: either nothing is to be told, or one          *)
(* notification of it begins.                                              *)
Changes(t, k) ==
  /\ readers = {}
  /\ UserRuns(t) /\ MayChange(t, k)
  /\ services' \in [Keys -> Target]
  /\ \A j \in Keys \ {k} : services'[j] = services[j]
  /\ \/ (k \in Registered <=> k \in Registered') /\ stack' = stack
     \/ \E up \in BOOLEAN :
          /\ k \in Registered' <=> up
          /\ k \in Registered <=> ~ up
          /\ Push(t, [at |-> "notify", key |-> k, up |-> up, next |-> 1])
  /\ UNCHANGED <<readers, handlers, heard, balance>>

LEMMA ChangesRegistry ==
  ASSUME IInv, NEW t \in Threads, NEW k \in Keys,
         \/ offer_service(t, k) \/ add_remote_service(t, k)
         \/ stop_offer_service(t, k) \/ remove_remote_service(t, k)
  PROVE  Changes(t, k)
<1>. USE DEF IInv
<1>1. ASSUME NEW where \in {"local", "remote"}, Change(t, k), Insert(t, k, where)
      PROVE  Changes(t, k)
  <2>1. services' = [services EXCEPT ![k] = where] /\ services \in [Keys -> Target]
    BY <1>1 DEF Insert, TypeOK
  <2>2. /\ services' \in [Keys -> Target]
        /\ \A j \in Keys \ {k} : services'[j] = services[j]
        /\ k \in Registered'
    BY <2>1 DEF Target, Registered
  <2>3. \/ k \in Registered /\ stack' = stack
        \/ /\ k \notin Registered
           /\ Push(t, [at |-> "notify", key |-> k, up |-> TRUE, next |-> 1])
    BY <1>1 DEF Insert
  <2>. QED BY <1>1, <2>2, <2>3 DEF Changes, Change, Insert, Exclusive
<1>2. ASSUME Change(t, k), Erase(t, k)
      PROVE  Changes(t, k)
  <2>1. services' = [services EXCEPT ![k] = "unknown"] /\ services \in [Keys -> Target]
    BY <1>2 DEF Erase, TypeOK
  <2>2. /\ services' \in [Keys -> Target]
        /\ \A j \in Keys \ {k} : services'[j] = services[j]
        /\ k \notin Registered'
    BY <2>1 DEF Target, Registered
  <2>3. \/ k \notin Registered /\ stack' = stack
        \/ /\ k \in Registered
           /\ Push(t, [at |-> "notify", key |-> k, up |-> FALSE, next |-> 1])
    BY <1>2 DEF Erase
  <2>. QED BY <1>2, <2>2, <2>3 DEF Changes, Change, Erase, Exclusive
<1>. QED BY <1>1, <1>2 DEF offer_service, add_remote_service, stop_offer_service,
                           remove_remote_service

(* Nobody visits the registry while it changes.                            *)
LEMMA NoVisits ==
  ASSUME IInv, readers = {}, NEW t \in Threads, NEW i \in 1 .. Len(stack[t])
  PROVE  stack[t][i] \in NotifyFrame
<1>1. stack[t][i] \in Frame
  BY DEF IInv, TypeOK
<1>2. stack[t][i].at # "visit"
  BY DEF IInv, VisitsHold
<1>. QED BY <1>1, <1>2 DEF Frame, VisitFrame

(* Without a notification to begin, nothing is seen of a change.           *)
LEMMA QuietStep ==
  ASSUME IInv, NEW t \in Threads, NEW k \in Keys, Changes(t, k), stack' = stack
  PROVE  IInv'
<1>. USE DEF IInv
<1>1. /\ services' \in [Keys -> Target]
      /\ UNCHANGED <<readers, stack, handlers, heard, balance>>
      /\ readers = {}
  BY DEF Changes
<1>2. \A j \in Keys : j \in Registered <=> j \in Registered'
  <2>1. k \in Registered <=> k \in Registered'
    <3>1. ASSUME NEW up \in BOOLEAN, Push(t, [at |-> "notify", key |-> k, up |-> up, next |-> 1])
          PROVE  FALSE
      <4>. PICK f \in Frame : f = [at |-> "notify", key |-> k, up |-> up, next |-> 1]
        BY Notification DEF Frame
      <4>1. Len(stack'[t]) = Len(stack[t]) + 1 /\ Len(stack[t]) \in Nat
        BY <3>1, Pushed DEF TypeOK
      <4>. QED BY <1>1, <4>1
    <3>. QED BY <3>1 DEF Changes
  <2>2. \A j \in Keys \ {k} : services'[j] = services[j]
    BY DEF Changes
  <2>. QED BY <2>1, <2>2 DEF Registered
<1>3. TypeOK'
  BY <1>1 DEF TypeOK
<1>4. VisitsHold' /\ NoneTooEarly'
  BY <1>1 DEF VisitsHold, NoneTooEarly
<1>5. VisitIsCurrent'
  BY <1>1, NoVisits DEF VisitIsCurrent, NotifyFrame
<1>6. OneAtATime'
  <2>. SUFFICES ASSUME NEW j \in Keys, NEW u \in Threads, NEW i \in 1 .. Len(stack[u]),
                       Owner[j] # Anyone, stack[u][i].at = "notify", stack[u][i].key = j
                PROVE  /\ u = Owner[j]
                       /\ stack[u][i].up <=> j \in Registered'
                       /\ \A l \in 1 .. Len(stack[u]) :
                            stack[u][l].at = "notify" /\ stack[u][l].key = j => l = i
    BY <1>1 DEF OneAtATime
  <2>. QED BY <1>2 DEF OneAtATime
<1>7. \A h, j, up : ToTell(h, j, up)' = ToTell(h, j, up)
  BY <1>1 DEF ToTell, Frames
<1>8. LastHeardIsRight'
  BY <1>1, <1>2, <1>7, Zenon DEF LastHeardIsRight, Handlers
<1>9. NotificationsBalance'
  BY <1>1, <1>2, <1>7, Zenon DEF NotificationsBalance, Handlers
<1>. QED BY <1>3, <1>4, <1>5, <1>6, <1>8, <1>9

(* The notification that a change begins is still to be told to everybody. *)
LEMMA LoudStep ==
  ASSUME IInv, NEW t \in Threads, NEW k \in Keys, Changes(t, k), stack' # stack
  PROVE  IInv'
<1>. USE DEF IInv
<1>1. /\ services' \in [Keys -> Target]
      /\ \A j \in Keys \ {k} : services'[j] = services[j]
      /\ UNCHANGED <<readers, handlers, heard, balance>>
      /\ readers = {}
      /\ Len(stack[t]) < MaxDepth
      /\ MayChange(t, k)
      /\ k \in Registered <=> k \notin Registered'
  BY DEF Changes, UserRuns
<1>2. PICK f \in NotifyFrame :
        /\ f.at = "notify" /\ f.key = k /\ f.next = 1
        /\ f.up <=> k \in Registered'
        /\ Push(t, f)
  <2>1. PICK up \in BOOLEAN :
          /\ k \in Registered' <=> up
          /\ Push(t, [at |-> "notify", key |-> k, up |-> up, next |-> 1])
    BY DEF Changes
  <2>2. PICK f \in NotifyFrame : f = [at |-> "notify", key |-> k, up |-> up, next |-> 1]
    BY Notification
  <2>. QED BY <2>1, <2>2
<1>3. Push(t, f) /\ f \in Frame
  BY <1>2 DEF Frame
<1>. DEFINE n == Len(stack[t]) + 1
<1>4. /\ stack' \in [Threads -> Seq(Frame)]
      /\ Len(stack'[t]) = n
      /\ \A i \in 1 .. n - 1 : stack'[t][i] = stack[t][i]
      /\ stack'[t][n] = f
      /\ \A u \in Threads \ {t} : stack'[u] = stack[u]
  BY <1>3, Pushed
<1>5. \A u \in Threads : Len(stack[u]) \in Nat /\ Len(stack[u]) <= MaxDepth
  BY DEF TypeOK
<1>6. \A j \in Keys \ {k} : j \in Registered <=> j \in Registered'
  BY <1>1 DEF Registered
<1>7. TypeOK'
  <2>1. \A u \in Threads : Len(stack'[u]) <= MaxDepth
    <3>1. n <= MaxDepth
      BY <1>1, <1>5, RoutingAssumption
    <3>. QED BY <1>4, <1>5, <3>1
  <2>. QED BY <1>1, <1>4, <2>1 DEF TypeOK
<1>8. \A u \in Threads : \A i \in 1 .. Len(stack'[u]) :
        \/ u = t /\ i = n /\ stack'[u][i] = f
        \/ i \in 1 .. Len(stack[u]) /\ stack'[u][i] = stack[u][i]
  BY <1>4, <1>5
<1>9. \A u \in Threads : \A i \in 1 .. Len(stack'[u]) : stack'[u][i] \in NotifyFrame
  BY <1>1, <1>8, NoVisits
<1>10. VisitsHold' /\ VisitIsCurrent'
  BY <1>9 DEF VisitsHold, VisitIsCurrent, NotifyFrame
<1>11. OneAtATime'
  <2>. SUFFICES ASSUME NEW j \in Keys, NEW u \in Threads, NEW i \in 1 .. Len(stack'[u]),
                       Owner[j] # Anyone, stack'[u][i].at = "notify", stack'[u][i].key = j
                PROVE  /\ u = Owner[j]
                       /\ stack'[u][i].up <=> j \in Registered'
                       /\ \A l \in 1 .. Len(stack'[u]) :
                            stack'[u][l].at = "notify" /\ stack'[u][l].key = j => l = i
    BY DEF OneAtATime
  <2>1. CASE j # k
    <3>1. i \in 1 .. Len(stack[u]) /\ stack'[u][i] = stack[u][i]
      BY <1>2, <1>8, <2>1
    <3>2. /\ u = Owner[j]
          /\ stack[u][i].up <=> j \in Registered
          /\ \A l \in 1 .. Len(stack[u]) :
               stack[u][l].at = "notify" /\ stack[u][l].key = j => l = i
      BY <3>1 DEF OneAtATime
    <3>3. j \in Registered <=> j \in Registered'
      BY <1>6, <2>1
    <3>4. ASSUME NEW l \in 1 .. Len(stack'[u]), stack'[u][l].at = "notify", stack'[u][l].key = j
          PROVE  l = i
      <4>1. l \in 1 .. Len(stack[u]) /\ stack'[u][l] = stack[u][l]
        BY <1>2, <1>8, <2>1, <3>4
      <4>. QED BY <3>2, <3>4, <4>1
    <3>. QED BY <3>1, <3>2, <3>3, <3>4
  <2>2. CASE j = k
    <3>1. /\ Owner[k] = t
          /\ \A l \in 1 .. Len(stack[t]) : stack[t][l].key # k
      BY <1>1, <2>2 DEF MayChange
    <3>2. ASSUME NEW w \in Threads, NEW l \in 1 .. Len(stack[w]), stack[w][l].key = k
          PROVE  FALSE
      <4>1. stack[w][l].at = "notify"
        BY <1>1, NoVisits DEF NotifyFrame
      <4>2. w = t
        BY <2>2, <3>1, <3>2, <4>1 DEF OneAtATime
      <4>. QED BY <3>1, <3>2, <4>2
    <3>3. \A w \in Threads : \A l \in 1 .. Len(stack'[w]) :
            stack'[w][l].key = k => w = t /\ l = n /\ stack'[w][l] = f
      BY <1>8, <3>2
    <3>4. u = t /\ i = n /\ stack'[u][i] = f
      BY <2>2, <3>3
    <3>5. f.up <=> k \in Registered'
      BY <1>2
    <3>. QED BY <2>2, <3>1, <3>3, <3>4, <3>5
  <2>. QED BY <2>1, <2>2
<1>12. NoneTooEarly'
  BY <1>1 DEF NoneTooEarly
<1>. HIDE DEF n
<1>13. \A h, j, up :
         /\ <<t, n>> \notin ToTell(h, j, up)
         /\ ToTell(h, j, up)' = IF Tells(f, h, j, up) THEN ToTell(h, j, up) \union {<<t, n>>}
                                                     ELSE ToTell(h, j, up)
  BY <1>1, <1>3, TellPushed DEF n
<1>14. \A h \in Handlers, j \in Keys, up \in BOOLEAN :
         Tells(f, h, j, up) <=> j = k /\ (up <=> k \in Registered')
  BY <1>2, Registering DEF Tells, NotifyFrame
<1>15. Handlers' = Handlers
  BY <1>1 DEF Handlers
<1>16. LastHeardIsRight'
  <2>. SUFFICES ASSUME NEW h \in Handlers, NEW j \in Keys,
                       Owner[j] # Anyone, heard[h][j] # "nothing",
                       ToTell(h, j, TRUE)' = {}, ToTell(h, j, FALSE)' = {}
                PROVE  heard[h][j] = IF j \in Registered' THEN "up" ELSE "down"
    BY <1>1, <1>15 DEF LastHeardIsRight
  <2>1. \A up \in BOOLEAN : ~ Tells(f, h, j, up)
    BY <1>13
  <2>2. j # k
    <3>1. CASE k \in Registered'
      BY <1>14, <2>1, <3>1
    <3>2. CASE k \notin Registered'
      BY <1>14, <2>1, <3>2
    <3>. QED BY <3>1, <3>2
  <2>3. ToTell(h, j, TRUE) = {} /\ ToTell(h, j, FALSE) = {}
    BY <1>13, <2>1
  <2>. QED BY <1>6, <2>2, <2>3 DEF LastHeardIsRight
<1>17. NotificationsBalance'
  <2>. SUFFICES ASSUME NEW h \in Handlers, NEW j \in Keys
                PROVE  balance[h][j] + Cardinality(ToTell(h, j, TRUE)')
                         - Cardinality(ToTell(h, j, FALSE)')
                         = IF j \in Registered' THEN 1 ELSE 0
    BY <1>1, <1>15 DEF NotificationsBalance
  <2>1. balance[h][j] + Cardinality(ToTell(h, j, TRUE)) - Cardinality(ToTell(h, j, FALSE))
          = IF j \in Registered THEN 1 ELSE 0
    BY DEF NotificationsBalance
  <2>2. /\ balance[h][j] \in Int
        /\ Cardinality(ToTell(h, j, TRUE)) \in Nat
        /\ Cardinality(ToTell(h, j, FALSE)) \in Nat
    BY FewToTell, Registering
  <2>3. PICK b \in Int, m \in Nat, l \in Nat :
          /\ b = balance[h][j]
          /\ m = Cardinality(ToTell(h, j, TRUE))
          /\ l = Cardinality(ToTell(h, j, FALSE))
    BY <2>2
  <2>4. \A up \in BOOLEAN :
          Cardinality(ToTell(h, j, up)') = IF Tells(f, h, j, up)
                                          THEN Cardinality(ToTell(h, j, up)) + 1
                                          ELSE Cardinality(ToTell(h, j, up))
    BY <1>13, FewToTell, FS_AddElement
  <2>5. /\ Cardinality(ToTell(h, j, TRUE)') = IF Tells(f, h, j, TRUE) THEN m + 1 ELSE m
        /\ Cardinality(ToTell(h, j, FALSE)') = IF Tells(f, h, j, FALSE) THEN l + 1 ELSE l
    BY <2>3, <2>4
  <2>6. b + m - l = IF j \in Registered THEN 1 ELSE 0
    BY <2>1, <2>3
  <2>7. CASE j # k
    BY <1>6, <1>14, <2>3, <2>5, <2>6, <2>7
  <2>8. CASE j = k /\ k \in Registered'
    <3>1. /\ Tells(f, h, j, TRUE)
          /\ ~ Tells(f, h, j, FALSE)
          /\ j \notin Registered
      BY <1>1, <1>14, <2>8
    <3>2. b + (m + 1) - l = 1
      BY <2>6, <3>1
    <3>. QED BY <2>3, <2>5, <2>8, <3>1, <3>2
  <2>9. CASE j = k /\ k \notin Registered'
    <3>1. /\ ~ Tells(f, h, j, TRUE)
          /\ Tells(f, h, j, FALSE)
          /\ j \in Registered
      BY <1>1, <1>14, <2>9
    <3>2. b + m - (l + 1) = 0
      BY <2>6, <3>1
    <3>. QED BY <2>3, <2>5, <2>9, <3>1, <3>2
  <2>. QED BY <2>7, <2>8, <2>9
<1>. QED BY <1>7, <1>10, <1>11, <1>12, <1>16, <1>17
-----------------------------------------------------------------------------
(* What does not change what is to be told keeps what is said of it.       *)
LEMMA SameTold ==
  ASSUME IInv, UNCHANGED <<services, handlers, heard, balance>>,
         \A h \in Handlers, k \in Keys, up \in BOOLEAN : ToTell(h, k, up)' = ToTell(h, k, up)
  PROVE  NoneTooEarly' /\ LastHeardIsRight' /\ NotificationsBalance'
<1>. USE DEF IInv
<1>1. NoneTooEarly'
  BY DEF NoneTooEarly
<1>2. \A h \in Handlers, k \in Keys :
        ToTell(h, k, TRUE)' = ToTell(h, k, TRUE) /\ ToTell(h, k, FALSE)' = ToTell(h, k, FALSE)
  OBVIOUS
<1>3. LastHeardIsRight'
  <2>. SUFFICES ASSUME NEW h \in Handlers, NEW k \in Keys,
                       Owner[k] # Anyone, heard[h][k] # "nothing",
                       ToTell(h, k, TRUE)' = {}, ToTell(h, k, FALSE)' = {}
                PROVE  heard[h][k] = IF k \in Registered THEN "up" ELSE "down"
    BY DEF LastHeardIsRight, Handlers, Registered
  <2>. QED BY <1>2 DEF LastHeardIsRight
<1>4. NotificationsBalance'
  <2>. SUFFICES ASSUME NEW h \in Handlers, NEW k \in Keys
                PROVE  balance[h][k] + Cardinality(ToTell(h, k, TRUE)')
                         - Cardinality(ToTell(h, k, FALSE)')
                         = IF k \in Registered THEN 1 ELSE 0
    BY DEF NotificationsBalance, Handlers, Registered
  <2>. QED BY <1>2 DEF NotificationsBalance
<1>. QED BY <1>1, <1>3, <1>4

LEMMA SameNotifications ==
  ASSUME IInv, UNCHANGED services,
         \A u \in Threads : \A i \in 1 .. Len(stack'[u]) :
           stack'[u][i].at = "notify" =>
             /\ i \in 1 .. Len(stack[u])
             /\ stack[u][i].at = "notify"
             /\ stack[u][i].key = stack'[u][i].key
             /\ stack[u][i].up <=> stack'[u][i].up
  PROVE  OneAtATime'
<1>. SUFFICES ASSUME NEW k \in Keys, NEW u \in Threads, NEW i \in 1 .. Len(stack'[u]),
                     Owner[k] # Anyone, stack'[u][i].at = "notify", stack'[u][i].key = k
              PROVE  /\ u = Owner[k]
                     /\ stack'[u][i].up <=> k \in Registered
                     /\ \A j \in 1 .. Len(stack'[u]) :
                          stack'[u][j].at = "notify" /\ stack'[u][j].key = k => j = i
  BY DEF OneAtATime, Registered
<1>1. /\ i \in 1 .. Len(stack[u]) /\ stack[u][i].at = "notify" /\ stack[u][i].key = k
      /\ stack[u][i].up <=> stack'[u][i].up
  OBVIOUS
<1>2. /\ u = Owner[k]
      /\ stack[u][i].up <=> k \in Registered
      /\ \A j \in 1 .. Len(stack[u]) :
           stack[u][j].at = "notify" /\ stack[u][j].key = k => j = i
  BY <1>1 DEF IInv, OneAtATime
<1>3. ASSUME NEW j \in 1 .. Len(stack'[u]), stack'[u][j].at = "notify", stack'[u][j].key = k
      PROVE  j = i
  <2>1. j \in 1 .. Len(stack[u]) /\ stack[u][j].at = "notify" /\ stack[u][j].key = k
    BY <1>3
  <2>. QED BY <1>2, <2>1
<1>. QED BY <1>1, <1>2, <1>3

(* Set-up: nothing is being told, and the new handler has heard nothing.   *)
LEMMA SetupStep ==
  ASSUME IInv, on_availability
  PROVE  IInv'
<1>. USE DEF IInv
<1>1. /\ \A t \in Threads : stack[t] = <<>> /\ Len(stack[t]) = 0
      /\ handlers' = handlers + 1 /\ handlers' \in 1 .. MaxHandlers
      /\ balance' = [balance EXCEPT ![handlers + 1] =
                       [k \in Keys |-> IF k \in Registered THEN 1 ELSE 0]]
      /\ UNCHANGED <<services, readers, stack, heard>>
  BY RoutingAssumption DEF on_availability, TypeOK
<1>2. TypeOK'
  BY <1>1, RoutingAssumption DEF TypeOK
<1>3. VisitsHold' /\ VisitIsCurrent' /\ OneAtATime'
  BY <1>1 DEF VisitsHold, VisitIsCurrent, OneAtATime
<1>4. handlers \in Nat
  BY RoutingAssumption DEF TypeOK
<1>5. NoneTooEarly'
  BY <1>1, <1>4, RoutingAssumption DEF NoneTooEarly
<1>6. \A h, k, up : ToTell(h, k, up) = {} /\ ToTell(h, k, up)' = {}
  BY <1>1 DEF ToTell, Frames
<1>7. \A h \in Handlers' : h \in 1 .. MaxHandlers /\ (h \in Handlers \/ h = handlers + 1)
  BY <1>1, <1>4, RoutingAssumption DEF Handlers
<1>8. LastHeardIsRight'
  <2>. SUFFICES ASSUME NEW h \in Handlers', NEW k \in Keys,
                       Owner[k] # Anyone, heard[h][k] # "nothing"
                PROVE  heard[h][k] = IF k \in Registered THEN "up" ELSE "down"
    BY <1>1 DEF LastHeardIsRight, Registered
  <2>1. h \in Handlers
    BY <1>4, <1>7 DEF NoneTooEarly
  <2>. QED BY <1>6, <2>1 DEF LastHeardIsRight
<1>9. NotificationsBalance'
  <2>. SUFFICES ASSUME NEW h \in Handlers', NEW k \in Keys
                PROVE  balance'[h][k] + Cardinality({}) - Cardinality({})
                         = IF k \in Registered THEN 1 ELSE 0
    BY <1>1, <1>6 DEF NotificationsBalance, Registered
  <2>1. Cardinality({}) = 0
    BY FS_EmptySet
  <2>2. balance'[h][k] = IF k \in Registered THEN 1 ELSE 0
    <3>1. CASE h = handlers + 1
      BY <1>1, <1>7, <3>1 DEF TypeOK
    <3>2. CASE h # handlers + 1
      <4>1. h \in Handlers /\ balance'[h] = balance[h]
        BY <1>1, <1>7, <3>2 DEF TypeOK
      <4>2. balance[h][k] + Cardinality({}) - Cardinality({}) = IF k \in Registered THEN 1 ELSE 0
        BY <1>6, <4>1 DEF NotificationsBalance
      <4>3. balance[h][k] \in Int
        BY <4>1, Registering
      <4>. QED BY <2>1, <4>1, <4>2, <4>3
    <3>. QED BY <3>1, <3>2
  <2>. QED BY <2>1, <2>2
<1>. QED BY <1>2, <1>3, <1>5, <1>8, <1>9

(* A handler hears the innermost notification of its thread.               *)
LEMMA CallStep ==
  ASSUME IInv, NEW t \in Threads, call_handler(t)
  PROVE  IInv'
<1>. USE DEF IInv
<1>. DEFINE n == Len(stack[t])
<1>1. /\ stack[t] # <<>> /\ Top(t).at = "notify"
      /\ UNCHANGED <<services, readers, handlers>>
      /\ Registered' = Registered /\ Handlers' = Handlers
  BY DEF call_handler, In, Registered, Handlers
<1>2. PICK f \in NotifyFrame : f = Top(t) /\ f = stack[t][n] /\ n \in 1 .. MaxDepth
  BY <1>1, TopFrame
<1>3. f.key \in Keys /\ f.up \in BOOLEAN /\ f.next \in Nat \ {0} /\ f.at = "notify"
  BY DEF NotifyFrame
<1>4. f.next \in Handlers /\ f.next \in 1 .. MaxHandlers
  BY <1>1, <1>2, <1>3, RoutingAssumption DEF call_handler, More, Handlers, TypeOK
<1>5. PICK g \in NotifyFrame :
        /\ g.at = "notify" /\ g.key = f.key /\ (g.up <=> f.up) /\ g.next = f.next + 1
        /\ Become(t, g)
  <2>1. [f EXCEPT !.next = @ + 1] \in NotifyFrame
    BY DEF NotifyFrame
  <2>2. Become(t, [f EXCEPT !.next = @ + 1])
    BY <1>2 DEF call_handler
  <2>. QED BY <2>1, <2>2 DEF NotifyFrame
<1>6. Become(t, g) /\ g \in Frame
  BY <1>5 DEF Frame
<1>7. /\ stack' \in [Threads -> Seq(Frame)]
      /\ Len(stack'[t]) = n
      /\ \A i \in 1 .. n - 1 : stack'[t][i] = stack[t][i]
      /\ stack'[t][n] = g
      /\ \A u \in Threads \ {t} : stack'[u] = stack[u]
  BY <1>1, <1>6, Became
<1>8. /\ heard' = [heard EXCEPT ![f.next][f.key] = IF f.up THEN "up" ELSE "down"]
      /\ balance' = [balance EXCEPT ![f.next][f.key] = IF f.up THEN @ + 1 ELSE @ - 1]
  BY <1>2 DEF call_handler
<1>9. /\ heard' \in [1 .. MaxHandlers -> [Keys -> {"nothing", "up", "down"}]]
      /\ balance' \in [1 .. MaxHandlers -> [Keys -> Int]]
  BY <1>3, <1>4, <1>8 DEF TypeOK
<1>10. TypeOK'
  <2>1. \A u \in Threads : Len(stack'[u]) <= MaxDepth
    BY <1>7 DEF TypeOK
  <2>. QED BY <1>1, <1>7, <1>9, <2>1 DEF TypeOK
<1>11. \A u \in Threads : \A i \in 1 .. Len(stack'[u]) :
         \/ u = t /\ i = n /\ stack'[u][i] = g
         \/ i \in 1 .. Len(stack[u]) /\ stack'[u][i] = stack[u][i] /\ Len(stack'[u]) = Len(stack[u])
  BY <1>2, <1>7
<1>12. VisitsHold'
  BY <1>1, <1>5, <1>11 DEF VisitsHold
<1>13. VisitIsCurrent'
  BY <1>1, <1>5, <1>11 DEF VisitIsCurrent
<1>14. OneAtATime'
  <2>1. n \in 1 .. Len(stack[t])
    BY <1>2
  <2>. QED BY <1>1, <1>2, <1>3, <1>5, <1>11, <2>1, SameNotifications
<1>15. NoneTooEarly'
  <2>. SUFFICES ASSUME NEW h \in 1 .. MaxHandlers, NEW k \in Keys, h > handlers
                PROVE  heard'[h][k] = "nothing"
    BY <1>1 DEF NoneTooEarly
  <2>1. h # f.next
    BY <1>4, RoutingAssumption DEF Handlers, TypeOK
  <2>. QED BY <1>8, <2>1 DEF NoneTooEarly, TypeOK
<1>. HIDE DEF n
<1>16. \A h, j, up : ToTell(h, j, up)' = IF Tells(g, h, j, up) THEN ToTell(h, j, up) \union {<<t, n>>}
                                                              ELSE ToTell(h, j, up) \ {<<t, n>>}
  BY <1>1, <1>6, TellBecame DEF n
<1>17. \A h, j, up : <<t, n>> \in ToTell(h, j, up) <=> Tells(f, h, j, up)
  BY <1>2 DEF ToTell, Frames, n
<1>18. \A h \in Handlers, j \in Keys, up \in BOOLEAN :
         /\ Tells(f, h, j, up) <=> j = f.key /\ (up <=> f.up) /\ f.next <= h
         /\ Tells(g, h, j, up) <=> j = f.key /\ (up <=> f.up) /\ f.next + 1 <= h
  BY <1>3, <1>5 DEF Tells, NotifyFrame
<1>19. \A h \in Handlers, j \in Keys, up \in BOOLEAN :
         /\ Tells(g, h, j, up) <=> Tells(f, h, j, up) /\ h # f.next
         /\ ToTell(h, j, up)' = IF h = f.next /\ Tells(f, h, j, up)
                                THEN ToTell(h, j, up) \ {<<t, n>>} ELSE ToTell(h, j, up)
  <2>. SUFFICES ASSUME NEW h \in Handlers, NEW j \in Keys, NEW up \in BOOLEAN
                PROVE  /\ Tells(g, h, j, up) <=> Tells(f, h, j, up) /\ h # f.next
                       /\ ToTell(h, j, up)' = IF h = f.next /\ Tells(f, h, j, up)
                                              THEN ToTell(h, j, up) \ {<<t, n>>} ELSE ToTell(h, j, up)
    OBVIOUS
  <2>1. h \in Nat
    BY Registering
  <2>2. Tells(g, h, j, up) <=> Tells(f, h, j, up) /\ h # f.next
    BY <1>3, <1>18, <2>1
  <2>. QED BY <1>16, <1>17, <2>2
<1>20. LastHeardIsRight'
  <2>. SUFFICES ASSUME NEW h \in Handlers, NEW j \in Keys,
                       Owner[j] # Anyone, heard'[h][j] # "nothing",
                       ToTell(h, j, TRUE)' = {}, ToTell(h, j, FALSE)' = {}
                PROVE  heard'[h][j] = IF j \in Registered THEN "up" ELSE "down"
    BY <1>1 DEF LastHeardIsRight
  <2>1. CASE h = f.next /\ j = f.key
    <3>1. heard'[h][j] = IF f.up THEN "up" ELSE "down"
      BY <1>3, <1>4, <1>8, <2>1 DEF TypeOK
    <3>2. f.up <=> j \in Registered
      BY <1>2, <1>3, <2>1 DEF OneAtATime, n
    <3>. QED BY <3>1, <3>2
  <2>2. CASE ~ (h = f.next /\ j = f.key)
    <3>1. heard'[h][j] = heard[h][j]
      BY <1>3, <1>4, <1>8, <2>2, Registering DEF TypeOK
    <3>2. \A up \in BOOLEAN : ToTell(h, j, up)' = ToTell(h, j, up)
      BY <1>18, <1>19, <2>2
    <3>. QED BY <3>1, <3>2 DEF LastHeardIsRight
  <2>. QED BY <2>1, <2>2
<1>21. NotificationsBalance'
  <2>. SUFFICES ASSUME NEW h \in Handlers, NEW j \in Keys
                PROVE  balance'[h][j] + Cardinality(ToTell(h, j, TRUE)')
                         - Cardinality(ToTell(h, j, FALSE)')
                         = IF j \in Registered THEN 1 ELSE 0
    BY <1>1 DEF NotificationsBalance
  <2>1. balance[h][j] + Cardinality(ToTell(h, j, TRUE)) - Cardinality(ToTell(h, j, FALSE))
          = IF j \in Registered THEN 1 ELSE 0
    BY DEF NotificationsBalance
  <2>2. /\ balance[h][j] \in Int
        /\ Cardinality(ToTell(h, j, TRUE)) \in Nat
        /\ Cardinality(ToTell(h, j, FALSE)) \in Nat
    BY FewToTell, Registering
  <2>3. PICK b \in Int, m \in Nat, l \in Nat :
          /\ b = balance[h][j]
          /\ m = Cardinality(ToTell(h, j, TRUE))
          /\ l = Cardinality(ToTell(h, j, FALSE))
    BY <2>2
  <2>4. b + m - l = IF j \in Registered THEN 1 ELSE 0
    BY <2>1, <2>3
  <2>5. CASE h = f.next /\ j = f.key
    <3>1. balance'[h][j] = IF f.up THEN b + 1 ELSE b - 1
      BY <1>3, <1>4, <1>8, <2>3, <2>5 DEF TypeOK
    <3>2. \A up \in BOOLEAN : Tells(f, h, j, up) <=> (up <=> f.up)
      BY <1>3, <1>18, <2>5
    <3>3. \A up \in BOOLEAN :
            Cardinality(ToTell(h, j, up)') = IF up <=> f.up THEN Cardinality(ToTell(h, j, up)) - 1
                                                          ELSE Cardinality(ToTell(h, j, up))
      BY <1>17, <1>19, <2>5, <3>2, FewToTell, FS_RemoveElement
    <3>4. /\ Cardinality(ToTell(h, j, TRUE)') = IF f.up THEN m - 1 ELSE m
          /\ Cardinality(ToTell(h, j, FALSE)') = IF f.up THEN l ELSE l - 1
      BY <1>3, <2>3, <3>3
    <3>5. CASE f.up
      <4>1. /\ balance'[h][j] = b + 1
            /\ Cardinality(ToTell(h, j, TRUE)') = m - 1
            /\ Cardinality(ToTell(h, j, FALSE)') = l
        BY <3>1, <3>4, <3>5
      <4>2. (b + 1) + (m - 1) - l = b + m - l
        OBVIOUS
      <4>. QED BY <2>4, <4>1, <4>2
    <3>6. CASE ~ f.up
      <4>1. /\ balance'[h][j] = b - 1
            /\ Cardinality(ToTell(h, j, TRUE)') = m
            /\ Cardinality(ToTell(h, j, FALSE)') = l - 1
        BY <3>1, <3>4, <3>6
      <4>2. (b - 1) + m - (l - 1) = b + m - l
        OBVIOUS
      <4>. QED BY <2>4, <4>1, <4>2
    <3>. QED BY <3>5, <3>6
  <2>6. CASE ~ (h = f.next /\ j = f.key)
    <3>1. balance'[h][j] = balance[h][j]
      BY <1>3, <1>4, <1>8, <2>6, Registering DEF TypeOK
    <3>2. \A up \in BOOLEAN : ToTell(h, j, up)' = ToTell(h, j, up)
      BY <1>18, <1>19, <2>6
    <3>. QED BY <2>1, <3>1, <3>2
  <2>. QED BY <2>5, <2>6
<1>. QED BY <1>10, <1>12, <1>13, <1>14, <1>15, <1>20, <1>21

(* A notification that has reached everybody is not missed.                *)
LEMMA ReturnStep ==
  ASSUME IInv, NEW t \in Threads, notify_returns(t)
  PROVE  IInv'
<1>. USE DEF IInv
<1>. DEFINE n == Len(stack[t])
<1>1. /\ stack[t] # <<>> /\ Top(t).at = "notify" /\ ~ More(Top(t))
      /\ Pop(t)
      /\ UNCHANGED <<services, readers, handlers, heard, balance>>
      /\ Registered' = Registered
  BY DEF notify_returns, In, Registered
<1>2. PICK f \in NotifyFrame : f = Top(t) /\ f = stack[t][n] /\ n \in 1 .. MaxDepth
  BY <1>1, TopFrame
<1>3. /\ stack' \in [Threads -> Seq(Frame)]
      /\ Len(stack'[t]) = n - 1
      /\ \A i \in 1 .. n - 1 : stack'[t][i] = stack[t][i]
      /\ \A u \in Threads \ {t} : stack'[u] = stack[u]
  BY <1>1, Popped
<1>4. \A u \in Threads : Len(stack[u]) \in Nat /\ Len(stack[u]) <= MaxDepth
  BY DEF TypeOK
<1>5. TypeOK'
  <2>1. ASSUME NEW u \in Threads PROVE Len(stack'[u]) <= MaxDepth
    <3>1. CASE u = t
      <4>1. n \in 1 .. MaxDepth /\ MaxDepth \in Nat /\ Len(stack'[u]) = n - 1
        BY <1>2, <1>3, <3>1, RoutingAssumption
      <4>. HIDE DEF n
      <4>. QED BY <4>1
    <3>2. CASE u # t
      BY <1>3, <1>4, <3>2
    <3>. QED BY <3>1, <3>2
  <2>. QED BY <1>1, <1>3, <2>1 DEF TypeOK
<1>6. \A u \in Threads : \A i \in 1 .. Len(stack'[u]) :
        /\ i \in 1 .. Len(stack[u]) /\ stack'[u][i] = stack[u][i]
        /\ u = t => i # n
  BY <1>2, <1>3, <1>4
<1>7. VisitsHold'
  <2>. SUFFICES ASSUME NEW u \in Threads, NEW i \in 1 .. Len(stack'[u]), stack'[u][i].at = "visit"
                PROVE  u \in readers /\ i = Len(stack'[u])
    BY <1>1 DEF VisitsHold
  <2>1. u \in readers /\ i = Len(stack[u])
    BY <1>6 DEF VisitsHold
  <2>2. u # t
    BY <1>6, <2>1
  <2>. QED BY <1>3, <2>1, <2>2
<1>8. VisitIsCurrent'
  BY <1>1, <1>6 DEF VisitIsCurrent
<1>9. OneAtATime'
  BY <1>1, <1>6, SameNotifications
<1>10. \A h \in Handlers, k \in Keys, up \in BOOLEAN : ToTell(h, k, up)' = ToTell(h, k, up)
  <2>. SUFFICES ASSUME NEW h \in Handlers, NEW k \in Keys, NEW up \in BOOLEAN
                PROVE  ToTell(h, k, up)' = ToTell(h, k, up)
    OBVIOUS
  <2>1. h \in 1 .. handlers /\ handlers \in Nat /\ f.next \in Nat /\ ~ f.next <= handlers
    BY <1>1, <1>2, RoutingAssumption DEF Handlers, TypeOK, More, NotifyFrame
  <2>2. ~ Tells(f, h, k, up)
    BY <2>1 DEF Tells
  <2>3. <<t, n>> \notin ToTell(h, k, up)
    BY <1>2, <2>2 DEF ToTell
  <2>4. ToTell(h, k, up)' = ToTell(h, k, up) \ {<<t, n>>}
    BY <1>1, TellPopped
  <2>. QED BY <2>3, <2>4
<1>11. NoneTooEarly' /\ LastHeardIsRight' /\ NotificationsBalance'
  BY <1>1, <1>10, SameTold
<1>. QED BY <1>5, <1>7, <1>8, <1>9, <1>11

(* A visit tells nobody of anything.                                       *)
LEMMA NothingToTell ==
  ASSUME NEW f \in VisitFrame, NEW h, NEW k, NEW up
  PROVE  f \in Frame /\ f.at # "notify" /\ ~ Tells(f, h, k, up)
BY DEF VisitFrame, Frame, Tells

LEMMA ForEachStep ==
  ASSUME IInv, NEW t \in Threads, for_each(t)
  PROVE  IInv'
<1>. USE DEF IInv
<1>. DEFINE n == Len(stack[t]) + 1
<1>1. /\ Len(stack[t]) < MaxDepth
      /\ readers' = readers \union {t}
      /\ UNCHANGED <<services, handlers, heard, balance>>
      /\ Registered' = Registered
  BY DEF for_each, UserRuns, Registered
<1>2. PICK f \in VisitFrame : f.at = "visit" /\ f.seen = {} /\ Push(t, f)
  <2>1. [at |-> "visit", seen |-> {}] \in VisitFrame
    BY DEF VisitFrame
  <2>. QED BY <2>1 DEF for_each
<1>3. Push(t, f) /\ f \in Frame
  BY <1>2, NothingToTell
<1>4. /\ stack' \in [Threads -> Seq(Frame)]
      /\ Len(stack'[t]) = n
      /\ \A i \in 1 .. n - 1 : stack'[t][i] = stack[t][i]
      /\ stack'[t][n] = f
      /\ \A u \in Threads \ {t} : stack'[u] = stack[u]
  BY <1>3, Pushed
<1>5. \A u \in Threads : Len(stack[u]) \in Nat /\ Len(stack[u]) <= MaxDepth
  BY DEF TypeOK
<1>6. TypeOK'
  <2>1. \A u \in Threads : Len(stack'[u]) <= MaxDepth
    BY <1>1, <1>4, <1>5, RoutingAssumption
  <2>. QED BY <1>1, <1>4, <2>1 DEF TypeOK
<1>7. \A u \in Threads : \A i \in 1 .. Len(stack'[u]) :
        \/ u = t /\ i = n /\ stack'[u][i] = f
        \/ i \in 1 .. Len(stack[u]) /\ stack'[u][i] = stack[u][i]
  BY <1>4, <1>5
<1>8. \A i \in 1 .. Len(stack[t]) : stack[t][i].at # "visit"
  <2>1. SUFFICES ASSUME NEW i \in 1 .. Len(stack[t]), stack[t][i].at = "visit"
                 PROVE  FALSE
    OBVIOUS
  <2>2. i = Len(stack[t]) /\ stack[t] # <<>>
    BY <2>1 DEF VisitsHold
  <2>3. stack[t][i].at = "notify"
    BY <2>2 DEF for_each, UserRuns, Top
  <2>. QED BY <2>1, <2>3
<1>9. VisitsHold'
  <2>. SUFFICES ASSUME NEW u \in Threads, NEW i \in 1 .. Len(stack'[u]), stack'[u][i].at = "visit"
                PROVE  u \in readers' /\ i = Len(stack'[u])
    BY DEF VisitsHold
  <2>1. CASE u = t
    BY <1>1, <1>4, <1>7, <1>8, <2>1
  <2>2. CASE u # t
    BY <1>1, <1>4, <2>2 DEF VisitsHold
  <2>. QED BY <2>1, <2>2
<1>10. VisitIsCurrent'
  BY <1>1, <1>2, <1>7 DEF VisitIsCurrent
<1>11. OneAtATime'
  BY <1>1, <1>2, <1>7, SameNotifications
<1>12. \A h \in Handlers, k \in Keys, up \in BOOLEAN : ToTell(h, k, up)' = ToTell(h, k, up)
  <2>. HIDE DEF n
  <2>1. \A h, k, up :
          /\ <<t, n>> \notin ToTell(h, k, up)
          /\ ToTell(h, k, up)' = IF Tells(f, h, k, up) THEN ToTell(h, k, up) \union {<<t, n>>}
                                                      ELSE ToTell(h, k, up)
    BY <1>1, <1>3, TellPushed DEF n
  <2>2. \A h, k, up : ~ Tells(f, h, k, up)
    BY <1>2, NothingToTell
  <2>. QED BY <2>1, <2>2
<1>13. NoneTooEarly' /\ LastHeardIsRight' /\ NotificationsBalance'
  BY <1>1, <1>12, SameTold
<1>. QED BY <1>6, <1>9, <1>10, <1>11, <1>13

LEMMA VisitNextStep ==
  ASSUME IInv, NEW t \in Threads, visit_next(t)
  PROVE  IInv'
<1>. USE DEF IInv
<1>. DEFINE n == Len(stack[t])
<1>1. /\ stack[t] # <<>> /\ Top(t).at = "visit"
      /\ UNCHANGED <<services, readers, handlers, heard, balance>>
      /\ Registered' = Registered
  BY DEF visit_next, In, Registered
<1>2. PICK f \in VisitFrame : f = Top(t) /\ f = stack[t][n] /\ n \in 1 .. MaxDepth
  BY <1>1, TopFrame
<1>3. f.seen \subseteq Registered /\ Registered \subseteq Keys
  BY <1>2 DEF VisitIsCurrent, VisitFrame, Registered
<1>4. PICK g \in VisitFrame : g.at = "visit" /\ g.seen \subseteq Registered /\ Become(t, g)
  <2>1. PICK k \in Registered : Become(t, [f EXCEPT !.seen = @ \union {k}])
    BY <1>2 DEF visit_next
  <2>2. [f EXCEPT !.seen = @ \union {k}] = [at |-> "visit", seen |-> f.seen \union {k}]
    BY DEF VisitFrame
  <2>3. [at |-> "visit", seen |-> f.seen \union {k}] \in VisitFrame
    BY <1>3 DEF VisitFrame
  <2>. QED BY <1>3, <2>1, <2>2, <2>3
<1>5. Become(t, g) /\ g \in Frame
  BY <1>4, NothingToTell
<1>6. /\ stack' \in [Threads -> Seq(Frame)]
      /\ Len(stack'[t]) = n
      /\ \A i \in 1 .. n - 1 : stack'[t][i] = stack[t][i]
      /\ stack'[t][n] = g
      /\ \A u \in Threads \ {t} : stack'[u] = stack[u]
  BY <1>1, <1>5, Became
<1>7. TypeOK'
  <2>1. \A u \in Threads : Len(stack'[u]) <= MaxDepth
    BY <1>6 DEF TypeOK
  <2>. QED BY <1>1, <1>6, <2>1 DEF TypeOK
<1>8. \A u \in Threads : \A i \in 1 .. Len(stack'[u]) :
        /\ i \in 1 .. Len(stack[u]) /\ Len(stack'[u]) = Len(stack[u])
        /\ \/ u = t /\ i = n /\ stack'[u][i] = g
           \/ stack'[u][i] = stack[u][i]
  BY <1>2, <1>6
<1>9. VisitsHold'
  <2>. SUFFICES ASSUME NEW u \in Threads, NEW i \in 1 .. Len(stack'[u]), stack'[u][i].at = "visit"
                PROVE  u \in readers /\ i = Len(stack'[u])
    BY <1>1 DEF VisitsHold
  <2>1. t \in readers
    BY <1>1, <1>2 DEF VisitsHold
  <2>. QED BY <1>8, <2>1 DEF VisitsHold
<1>10. VisitIsCurrent'
  BY <1>1, <1>4, <1>8 DEF VisitIsCurrent
<1>11. OneAtATime'
  BY <1>1, <1>4, <1>8, SameNotifications
<1>12. \A h \in Handlers, k \in Keys, up \in BOOLEAN : ToTell(h, k, up)' = ToTell(h, k, up)
  <2>. SUFFICES ASSUME NEW h \in Handlers, NEW k \in Keys, NEW up \in BOOLEAN
                PROVE  ToTell(h, k, up)' = ToTell(h, k, up)
    OBVIOUS
  <2>1. <<t, n>> \notin ToTell(h, k, up)
    BY <1>2, NothingToTell DEF ToTell
  <2>2. ~ Tells(g, h, k, up)
    BY <1>4, NothingToTell
  <2>3. ToTell(h, k, up)' = IF Tells(g, h, k, up) THEN ToTell(h, k, up) \union {<<t, n>>}
                                                  ELSE ToTell(h, k, up) \ {<<t, n>>}
    BY <1>1, <1>5, TellBecame
  <2>. QED BY <2>1, <2>2, <2>3
<1>13. NoneTooEarly' /\ LastHeardIsRight' /\ NotificationsBalance'
  BY <1>1, <1>12, SameTold
<1>. QED BY <1>7, <1>9, <1>10, <1>11, <1>13

LEMMA ForEachReturnsStep ==
  ASSUME IInv, NEW t \in Threads, for_each_returns(t)
  PROVE  IInv'
<1>. USE DEF IInv
<1>. DEFINE n == Len(stack[t])
<1>1. /\ stack[t] # <<>> /\ Top(t).at = "visit"
      /\ Pop(t)
      /\ readers' = readers \ {t}
      /\ UNCHANGED <<services, handlers, heard, balance>>
      /\ Registered' = Registered
  BY DEF for_each_returns, In, Registered
<1>2. PICK f \in VisitFrame : f = Top(t) /\ f = stack[t][n] /\ n \in 1 .. MaxDepth
  BY <1>1, TopFrame
<1>3. /\ stack' \in [Threads -> Seq(Frame)]
      /\ Len(stack'[t]) = n - 1
      /\ \A i \in 1 .. n - 1 : stack'[t][i] = stack[t][i]
      /\ \A u \in Threads \ {t} : stack'[u] = stack[u]
  BY <1>1, Popped
<1>4. \A u \in Threads : Len(stack[u]) \in Nat /\ Len(stack[u]) <= MaxDepth
  BY DEF TypeOK
<1>5. TypeOK'
  <2>1. ASSUME NEW u \in Threads PROVE Len(stack'[u]) <= MaxDepth
    <3>1. CASE u = t
      <4>1. n \in 1 .. MaxDepth /\ MaxDepth \in Nat /\ Len(stack'[u]) = n - 1
        BY <1>2, <1>3, <3>1, RoutingAssumption
      <4>. HIDE DEF n
      <4>. QED BY <4>1
    <3>2. CASE u # t
      BY <1>3, <1>4, <3>2
    <3>. QED BY <3>1, <3>2
  <2>. QED BY <1>1, <1>3, <2>1 DEF TypeOK
<1>6. \A u \in Threads : \A i \in 1 .. Len(stack'[u]) :
        /\ i \in 1 .. Len(stack[u]) /\ stack'[u][i] = stack[u][i]
        /\ u = t => i # n
  BY <1>2, <1>3, <1>4
<1>7. VisitsHold'
  <2>. SUFFICES ASSUME NEW u \in Threads, NEW i \in 1 .. Len(stack'[u]), stack'[u][i].at = "visit"
                PROVE  u \in readers' /\ i = Len(stack'[u])
    BY DEF VisitsHold
  <2>1. u \in readers /\ i = Len(stack[u])
    BY <1>6 DEF VisitsHold
  <2>2. u # t
    BY <1>6, <2>1
  <2>. QED BY <1>1, <1>3, <2>1, <2>2
<1>8. VisitIsCurrent'
  BY <1>1, <1>6 DEF VisitIsCurrent
<1>9. OneAtATime'
  BY <1>1, <1>6, SameNotifications
<1>10. \A h \in Handlers, k \in Keys, up \in BOOLEAN : ToTell(h, k, up)' = ToTell(h, k, up)
  <2>. SUFFICES ASSUME NEW h \in Handlers, NEW k \in Keys, NEW up \in BOOLEAN
                PROVE  ToTell(h, k, up)' = ToTell(h, k, up)
    OBVIOUS
  <2>1. <<t, n>> \notin ToTell(h, k, up)
    BY <1>2, NothingToTell DEF ToTell
  <2>2. ToTell(h, k, up)' = ToTell(h, k, up) \ {<<t, n>>}
    BY <1>1, TellPopped
  <2>. QED BY <2>1, <2>2
<1>11. NoneTooEarly' /\ LastHeardIsRight' /\ NotificationsBalance'
  BY <1>1, <1>10, SameTold
<1>. QED BY <1>5, <1>7, <1>8, <1>9, <1>11
-----------------------------------------------------------------------------
LEMMA NextIInv == IInv /\ [Next]_vars => IInv'
<1>. SUFFICES ASSUME IInv, [Next]_vars PROVE IInv'
  OBVIOUS
<1>1. CASE on_availability
  BY <1>1, SetupStep
<1>2. ASSUME NEW t \in Threads, NEW k \in Keys, Changes(t, k)
      PROVE  IInv'
  BY <1>2, QuietStep, LoudStep
<1>3. ASSUME NEW t \in Threads, NEW k \in Keys, offer_service(t, k)
      PROVE  IInv'
  BY <1>2, <1>3, ChangesRegistry
<1>4. ASSUME NEW t \in Threads, NEW k \in Keys, add_remote_service(t, k)
      PROVE  IInv'
  BY <1>2, <1>4, ChangesRegistry
<1>5. ASSUME NEW t \in Threads, NEW k \in Keys, stop_offer_service(t, k)
      PROVE  IInv'
  BY <1>2, <1>5, ChangesRegistry
<1>6. ASSUME NEW t \in Threads, NEW k \in Keys, remove_remote_service(t, k)
      PROVE  IInv'
  BY <1>2, <1>6, ChangesRegistry
<1>7. ASSUME NEW t \in Threads, call_handler(t) PROVE IInv'
  BY <1>7, CallStep
<1>8. ASSUME NEW t \in Threads, notify_returns(t) PROVE IInv'
  BY <1>8, ReturnStep
<1>9. ASSUME NEW t \in Threads, for_each(t) PROVE IInv'
  BY <1>9, ForEachStep
<1>10. ASSUME NEW t \in Threads, visit_next(t) PROVE IInv'
  BY <1>10, VisitNextStep
<1>11. ASSUME NEW t \in Threads, for_each_returns(t) PROVE IInv'
  BY <1>11, ForEachReturnsStep
<1>12. CASE UNCHANGED vars
  <2>1. UNCHANGED <<services, readers, stack, handlers, heard, balance>>
    BY <1>12 DEF vars
  <2>2. Registered' = Registered /\ Handlers' = Handlers
    BY <2>1 DEF Registered, Handlers
  <2>3. \A h, k, up : ToTell(h, k, up)' = ToTell(h, k, up)
    BY <2>1 DEF ToTell, Frames
  <2>4. TypeOK' /\ VisitsHold' /\ NoneTooEarly'
    BY <2>1 DEF IInv, TypeOK, VisitsHold, NoneTooEarly
  <2>5. VisitIsCurrent' /\ OneAtATime'
    BY <2>1, <2>2 DEF IInv, VisitIsCurrent, OneAtATime
  <2>6. LastHeardIsRight'
    BY <2>1, <2>2, <2>3 DEF IInv, LastHeardIsRight
  <2>7. NotificationsBalance'
    BY <2>1, <2>2, <2>3 DEF IInv, NotificationsBalance
  <2>. QED BY <2>4, <2>5, <2>6, <2>7 DEF IInv
<1>. QED BY <1>1, <1>3, <1>4, <1>5, <1>6, <1>7, <1>8, <1>9, <1>10, <1>11, <1>12 DEF Next

(* The inductive invariant: the mutex keeps changes away from visits, and  *)
(* the owner of a key finishes one notification before the next change.    *)
THEOREM Invariance == Spec => []IInv
<1>. QED BY InitIInv, NextIInv, PTL DEF Spec

(* No notification is lost or invented: dispatcher::notify_availability    *)
(* runs once for each change that registry::offer or stop_offer reports,   *)
(* whatever threads do between the two.                                    *)
THEOREM Balanced == Spec => []NotificationsBalance
<1>. QED BY Invariance, PTL DEF IInv

(* What a handler was last told by notify_availability of a key with one   *)
(* owner is so, once nothing more is on its way.                           *)
THEOREM OwnerIsHeard == Spec => []LastHeardIsRight
<1>. QED BY Invariance, PTL DEF IInv

(* registry::for_each shows its function one state of the registry.        *)
THEOREM VisitsAreCurrent == Spec => []VisitIsCurrent
<1>. QED BY Invariance, PTL DEF IInv
-----------------------------------------------------------------------------
(* Service-discovery messages.  What is written is what is read, whatever  *)
(* is offered and in buffers of any size.                                  *)
LEMMA SdConstants ==
  /\ Types \subseteq KnownTypes
  /\ \A t \in Types \union PeerTypes : OptionSize[t] \in Nat
  /\ HeaderSize \in Nat /\ EntrySize \in Nat /\ LengthSize \in Nat /\ FlagsSize \in Nat
  /\ EntrySize > 0 /\ HeaderSize > 0
  /\ IndexMod \in Nat /\ CountMod \in Nat /\ TtlMod \in Nat
  /\ IndexMod > 0 /\ CountMod > 0 /\ TtlMod > 1
  /\ MaxOffers \in Nat /\ MaxOptions \in Nat /\ MaxRoom \in Nat
  /\ OfferTtl \in 1 .. TtlMod - 1
  /\ MaxOptions < CountMod /\ MaxOptions < IndexMod
  /\ (MaxOffers - 1) * MaxOptions < IndexMod
BY SdMessageAssumption

LEMMA SublistOf ==
  ASSUME NEW T, NEW list \in Seq(T), NEW S
  PROVE  /\ Sublist(list, S) \in Seq(T)
         /\ Len(Sublist(list, S)) <= Len(list)
         /\ (\A i \in 1 .. Len(list) : list[i] \in S) => Sublist(list, S) = list
<1>. DEFINE n == Len(list)
            seqs == [i \in DOMAIN list |-> IF list[i] \in S THEN <<list[i]>> ELSE <<>>]
            All == \A i \in 1 .. n : list[i] \in S
<1>1. n \in Nat /\ DOMAIN list = 1 .. n /\ \A i \in 1 .. n : list[i] \in T
  OBVIOUS
<1>2. \A i \in 1 .. n : (IF list[i] \in S THEN <<list[i]>> ELSE <<>>) \in Seq(T)
  BY <1>1
<1>3. seqs \in Seq(Seq(T)) /\ Len(seqs) = n
      /\ \A i \in 1 .. n : seqs[i] = IF list[i] \in S THEN <<list[i]>> ELSE <<>>
  BY <1>1, <1>2
<1>. HIDE DEF seqs
<1>4. PICK f \in [0 .. Len(seqs) -> Seq(T)] :
        /\ f[0] = <<>>
        /\ \A i \in 1 .. Len(seqs) : f[i] = f[i - 1] \o seqs[i]
        /\ FlattenSeq(seqs) = f[Len(seqs)]
  BY <1>3, FlattenSteps
<1>. DEFINE Good(k) == Len(f[k]) <= k /\ (All => f[k] = SubSeq(list, 1, k))
            G == {k \in Nat : k <= n => Good(k)}
<1>5. 0 \in G
  BY <1>1, <1>4
<1>6. ASSUME NEW k \in Nat, k \in G PROVE k + 1 \in G
  <2>. SUFFICES ASSUME k + 1 <= n PROVE Good(k + 1)
    OBVIOUS
  <2>. DEFINE a == f[k]   x == list[k + 1]
  <2>1. k + 1 \in 1 .. n /\ (k + 1) - 1 = k /\ k <= n /\ k \in 0 .. n /\ Good(k)
    BY <1>1, <1>6
  <2>2. a \in Seq(T) /\ Len(a) <= k /\ x \in T
    BY <1>1, <1>3, <1>4, <2>1
  <2>3. f[k + 1] = a \o (IF x \in S THEN <<x>> ELSE <<>>)
    BY <1>3, <1>4, <2>1
  <2>4. All => a = SubSeq(list, 1, k) /\ x \in S
    BY <2>1
  <2>. HIDE DEF a, x, Good, All
  <2>5. CASE x \in S
    <3>1. a \o <<x>> = Append(a, x) /\ Len(Append(a, x)) = Len(a) + 1
      BY <2>2, AppendIsConcat
    <3>2. Append(SubSeq(list, 1, k), x) = SubSeq(list, 1, k + 1)
      BY <1>1, <2>1 DEF x
    <3>3. Len(f[k + 1]) <= k + 1
      BY <2>2, <2>3, <2>5, <3>1
    <3>. QED BY <2>3, <2>4, <2>5, <3>1, <3>2, <3>3 DEF Good
  <2>6. CASE x \notin S
    <3>1. a \o <<>> = a
      BY <2>2
    <3>2. Len(f[k + 1]) <= k + 1
      BY <2>2, <2>3, <2>6, <3>1
    <3>. QED BY <2>4, <2>6, <3>2 DEF Good
  <2>. QED BY <2>5, <2>6
<1>7. \A k \in Nat : k \in G
  <2>. HIDE DEF G
  <2>. QED BY <1>5, <1>6, Induction
<1>8. Good(n)
  <2>1. n \in G /\ n <= n
    BY <1>1, <1>7
  <2>. HIDE DEF Good
  <2>. QED BY <2>1
<1>9. Sublist(list, S) = f[n] /\ f[n] \in Seq(T)
  BY <1>1, <1>3, <1>4 DEF Sublist, seqs
<1>10. SubSeq(list, 1, n) = list
  BY <1>1
<1>. QED BY <1>8, <1>9, <1>10
-----------------------------------------------------------------------------
(* Offers, and the runs of their options.                                  *)
Options == [type : Types \union PeerTypes, of : Services]

LEMMA OfferShape ==
  ASSUME NEW types, types \subseteq Types \union PeerTypes, NEW o \in OffersWith(types)
  PROVE  /\ o.service \in Services
         /\ o.options \in Seq(Options) /\ Len(o.options) <= MaxOptions
         /\ \A k \in 1 .. Len(o.options) : o.options[k].of = o.service
<1>1. PICK s \in Services, n \in 0 .. MaxOptions :
        o.service = s /\ o.options \in [1 .. n -> [type : types, of : {s}]]
  BY DEF OffersWith
<1>2. Len(o.options) = n
  <2>1. n \in Nat /\ DOMAIN o.options = 1 .. n
    BY <1>1, SdConstants
  <2>2. o.options = [k \in 1 .. n |-> o.options[k]]
    BY <1>1
  <2>. QED BY <2>1, <2>2
<1>3. \A k \in 1 .. n : o.options[k] \in Options /\ o.options[k].of = s
  BY <1>1 DEF Options
<1>4. o.options \in Seq(Options)
  <2>1. n \in Nat /\ o.options = [k \in 1 .. n |-> o.options[k]]
    BY <1>1, SdConstants
  <2>. QED BY <1>3, <2>1
<1>. QED BY <1>1, <1>2, <1>3, <1>4

LEMMA RunsOf ==
  ASSUME NEW types, types \subseteq Types \union PeerTypes,
         NEW due \in Seq(OffersWith(types))
  PROVE  /\ OptionsOf(due) \in Seq(Options)
         /\ \A i \in 1 .. Len(due) :
              /\ First(due, i) \in Nat
              /\ First(due, i) <= (i - 1) * MaxOptions
              /\ \A k \in 1 .. Len(due[i].options) :
                   OptionsOf(due)[First(due, i) + k].of = due[i].service
<1>. DEFINE n == Len(due)
            runs == [i \in 1 .. n |-> due[i].options]
            from(i) == Before(runs, i)
<1>1. n \in Nat /\ \A i \in 1 .. n : due[i] \in OffersWith(types)
  OBVIOUS
<1>2. \A i \in 1 .. n : /\ due[i].options \in Seq(Options) /\ Len(due[i].options) <= MaxOptions
                         /\ \A k \in 1 .. Len(due[i].options) :
                              due[i].options[k].of = due[i].service
  BY <1>1, OfferShape
<1>3. runs \in Seq(Seq(Options)) /\ Len(runs) = n /\ \A i \in 1 .. n : runs[i] = due[i].options
  BY <1>1, <1>2
<1>4. OptionsOf(due) = FlattenSeq(runs)
  BY DEF OptionsOf
<1>5. ASSUME NEW i \in 1 .. n PROVE First(due, i) = from(i)
  <2>. DEFINE some == SubSeq(due, 1, i - 1)
  <2>1. Len(some) = i - 1 /\ \A k \in 1 .. i - 1 : some[k] = due[k]
    BY <1>1
  <2>2. SubSeq(runs, 1, i - 1) = [k \in 1 .. i - 1 |-> due[k].options]
    BY <1>1, <1>3
  <2>. HIDE DEF some, runs
  <2>3. [k \in 1 .. Len(some) |-> some[k].options] = SubSeq(runs, 1, i - 1)
    BY <2>1, <2>2
  <2>. QED BY <2>3 DEF First, OptionsOf, Before, some
<1>. HIDE DEF runs, from
<1>6. ASSUME NEW i \in 1 .. n
      PROVE  /\ from(i) \in Nat /\ from(i + 1) = from(i) + Len(runs[i])
             /\ \A k \in 1 .. Len(runs[i]) : FlattenSeq(runs)[from(i) + k] = runs[i][k]
  BY <1>3, FlattenPiece DEF from
<1>7. from(1) = 0
  <2>1. SubSeq(runs, 1, 1 - 1) = <<>>
    BY <1>3
  <2>2. Len(<<>>) = 0
    OBVIOUS
  <2>. QED BY <2>1, <2>2, FlattenEmpty DEF from, Before
<1>. DEFINE Bounded(k) == from(k + 1) <= k * MaxOptions
            B == {k \in Nat : k + 1 <= n => Bounded(k)}
<1>8. 0 \in B
  BY <1>7, SdConstants
<1>9. ASSUME NEW k \in Nat, k \in B PROVE k + 1 \in B
  <2>. SUFFICES ASSUME (k + 1) + 1 <= n PROVE from((k + 1) + 1) <= (k + 1) * MaxOptions
    OBVIOUS
  <2>1. k + 1 \in 1 .. n /\ Bounded(k)
    BY <1>1, <1>9
  <2>2. Len(runs[k + 1]) \in Nat /\ Len(runs[k + 1]) <= MaxOptions
    <3>1. runs[k + 1] = due[k + 1].options
      BY <1>3, <2>1
    <3>2. due[k + 1].options \in Seq(Options) /\ Len(due[k + 1].options) <= MaxOptions
      BY <1>2, <2>1
    <3>. QED BY <3>1, <3>2, LenProperties
  <2>3. from((k + 1) + 1) = from(k + 1) + Len(runs[k + 1]) /\ from(k + 1) \in Nat
    BY <1>6, <2>1
  <2>4. (k + 1) * MaxOptions = k * MaxOptions + MaxOptions /\ k * MaxOptions \in Nat
    BY SdConstants
  <2>. QED BY <2>1, <2>2, <2>3, <2>4, SdConstants
<1>10. \A k \in Nat : k \in B
  <2>. HIDE DEF B
  <2>. QED BY <1>8, <1>9, Induction
<1>11. \A i \in 1 .. n : from(i) <= (i - 1) * MaxOptions
  <2>. TAKE i \in 1 .. n
  <2>1. i - 1 \in Nat /\ (i - 1) + 1 = i /\ i <= n
    BY <1>1
  <2>2. i - 1 \in B
    BY <1>10, <2>1
  <2>. QED BY <2>1, <2>2
<1>12. FlattenSeq(runs) \in Seq(Options)
  BY <1>3, FlattenType
<1>13. ASSUME NEW i \in 1 .. n
       PROVE  /\ First(due, i) \in Nat /\ First(due, i) <= (i - 1) * MaxOptions
              /\ \A k \in 1 .. Len(due[i].options) :
                   OptionsOf(due)[First(due, i) + k].of = due[i].service
  <2>1. First(due, i) = from(i) /\ from(i) \in Nat /\ from(i) <= (i - 1) * MaxOptions
    BY <1>5, <1>6, <1>11
  <2>2. runs[i] = due[i].options
    BY <1>3
  <2>3. \A k \in 1 .. Len(due[i].options) : FlattenSeq(runs)[from(i) + k] = due[i].options[k]
    BY <1>6, <2>2
  <2>. QED BY <1>2, <1>4, <2>1, <2>3
<1>. QED BY <1>4, <1>12, <1>13

(* Positions fit into their fields.                                        *)
LEMMA PositionFits ==
  ASSUME NEW types, types \subseteq Types \union PeerTypes,
         NEW due \in Seq(OffersWith(types)), Len(due) <= MaxOffers \/ Len(due) <= 2,
         NEW i \in 1 .. Len(due)
  PROVE  First(due, i) \in 0 .. IndexMod - 1
<1>1. First(due, i) \in Nat /\ First(due, i) <= (i - 1) * MaxOptions
  BY RunsOf
<1>2. CASE Len(due) <= MaxOffers
  <2>1. i - 1 \in Nat /\ (MaxOffers - 1) - (i - 1) \in Nat
    BY <1>2, SdConstants
  <2>2. (MaxOffers - 1) * MaxOptions = (i - 1) * MaxOptions + ((MaxOffers - 1) - (i - 1)) * MaxOptions
    BY SdConstants
  <2>3. ((MaxOffers - 1) - (i - 1)) * MaxOptions \in Nat /\ (i - 1) * MaxOptions \in Nat
    BY <2>1, SdConstants
  <2>. QED BY <1>1, <2>2, <2>3, SdConstants
<1>3. CASE Len(due) <= 2
  <2>1. i = 1 \/ i = 2
    BY <1>3
  <2>2. (1 - 1) * MaxOptions = 0 /\ (2 - 1) * MaxOptions = MaxOptions
    BY SdConstants
  <2>. QED BY <1>1, <2>1, <2>2, SdConstants
<1>. QED BY <1>2, <1>3
-----------------------------------------------------------------------------
(* Messages whose fields have their widths.                                *)
Entries ==
  {e \in [type : {"find", "offer", "subscribe", "ack"}, service : Services,
          ttl : 0 .. TtlMod - 1, index : 0 .. IndexMod - 1, count : 0 .. CountMod - 1,
          minor : {0, 1}, group : {0, 1}] :
     IF is_service_entry(e.type) THEN e.group = 0 ELSE e.minor = 0}
Empty == {e \in Entries : e.index = 0 /\ e.count = 0}
RunBelongs(e, options) ==
  \A k \in e.index + 1 .. e.index + e.count : k <= Len(options) => options[k].of = e.service
Messages ==
  {m \in [entries : Seq(Entries), options : Seq(Options)] :
     \A i \in 1 .. Len(m.entries) : RunBelongs(m.entries[i], m.options)}

(* What write_entry writes of an entry, read_entry reads.                  *)
LEMMA EntryReadsBack ==
  ASSUME NEW e \in Entries
  PROVE  read_entry(write_entry(e)) = e
<1>1. /\ e.ttl \in 0 .. TtlMod - 1 /\ e.index \in 0 .. IndexMod - 1
      /\ e.count \in 0 .. CountMod - 1
      /\ e = [type |-> e.type, service |-> e.service, ttl |-> e.ttl, index |-> e.index,
              count |-> e.count, minor |-> e.minor, group |-> e.group]
      /\ IF is_service_entry(e.type) THEN e.group = 0 ELSE e.minor = 0
  BY DEF Entries
<1>2. e.ttl % TtlMod = e.ttl /\ e.index % IndexMod = e.index /\ e.count % CountMod = e.count
  BY <1>1, SdConstants, SmallRemainder
<1>3. CASE is_service_entry(e.type)
  BY <1>1, <1>2, <1>3 DEF write_entry, read_entry
<1>4. CASE ~ is_service_entry(e.type)
  BY <1>1, <1>2, <1>4 DEF write_entry, read_entry
<1>. QED BY <1>3, <1>4

LEMMA EntriesMade ==
  ASSUME NEW s \in Services, NEW ttl \in 0 .. TtlMod - 1
  PROVE  /\ \A type \in {"find", "offer"} :
              service_entry(type, s, ttl) \in Empty /\ service_entry(type, s, ttl).service = s
         /\ \A type \in {"subscribe", "ack"} :
              eventgroup_entry(type, s, ttl) \in Empty /\ eventgroup_entry(type, s, ttl).service = s
<1>1. 0 \in 0 .. IndexMod - 1 /\ 0 \in 0 .. CountMod - 1
  BY SdConstants
<1>. QED BY <1>1 DEF Empty, Entries, service_entry, eventgroup_entry, is_service_entry

LEMMA EmptyBelongs ==
  ASSUME NEW e \in Empty, NEW options
  PROVE  RunBelongs(e, options)
<1>1. e.index + 1 .. e.index + e.count = {}
  BY DEF Empty
<1>. QED BY <1>1 DEF RunBelongs

(* An entry with the run of the options of its offer.                      *)
LEMMA RunBelongsToOffer ==
  ASSUME NEW types, types \subseteq Types \union PeerTypes,
         NEW due \in Seq(OffersWith(types)), Len(due) <= MaxOffers \/ Len(due) <= 2,
         NEW i \in 1 .. Len(due),
         NEW e \in Empty, e.service = due[i].service
  PROVE  WithRun(e, due, i) \in Entries /\ RunBelongs(WithRun(e, due, i), OptionsOf(due))
<1>. DEFINE w == WithRun(e, due, i)  n == Len(due[i].options)  f == First(due, i)
<1>1. CASE due[i].options = <<>>
  <2>1. w = e
    BY <1>1 DEF WithRun
  <2>2. e \in Entries /\ RunBelongs(e, OptionsOf(due))
    BY EmptyBelongs DEF Empty
  <2>. QED BY <2>1, <2>2
<1>2. CASE due[i].options # <<>>
  <2>1. f \in 0 .. IndexMod - 1
    BY PositionFits
  <2>2. due[i] \in OffersWith(types)
    OBVIOUS
  <2>3. n \in Nat /\ n <= MaxOptions
    <3>1. due[i].options \in Seq(Options) /\ n <= MaxOptions
      BY <2>2, OfferShape
    <3>. QED BY <3>1, LenProperties
  <2>4. n \in 0 .. IndexMod - 1 /\ n \in 0 .. CountMod - 1
    BY <2>3, SdConstants
  <2>5. \A k \in 1 .. n : OptionsOf(due)[f + k].of = due[i].service
    BY RunsOf
  <2>. HIDE DEF n, f
  <2>6. f % IndexMod = f /\ n % IndexMod = n
    BY <2>1, <2>4, SdConstants, SmallRemainder
  <2>7. w = [e EXCEPT !.index = f, !.count = n]
    BY <1>2, <2>6 DEF WithRun, n, f
  <2>8. w \in Entries /\ w.index = f /\ w.count = n /\ w.service = due[i].service
    BY <2>1, <2>4, <2>7 DEF Entries, Empty
  <2>. HIDE DEF w
  <2>9. ASSUME NEW k \in w.index + 1 .. w.index + w.count
        PROVE  OptionsOf(due)[k].of = w.service
    <3>1. k - f \in 1 .. n /\ f + (k - f) = k
      BY <2>1, <2>3, <2>8
    <3>2. OptionsOf(due)[f + (k - f)].of = due[i].service
      BY <2>5, <3>1
    <3>. QED BY <2>8, <3>1, <3>2
  <2>. QED BY <2>8, <2>9 DEF RunBelongs, w
<1>. QED BY <1>1, <1>2

(* The messages that tick makes, and those of the peer.                    *)
LEMMA OfferMessage ==
  ASSUME NEW due \in Seq(OffersWith(Types)), Len(due) <= MaxOffers,
         stops \in Seq(OffersWith(Types))
  PROVE  offer_message(due) \in Messages
<1>. DEFINE a == [i \in 1 .. Len(stops) |-> make_stop_offer(stops[i].service)]
            b == [i \in 1 .. Len(due) |-> WithRun(make_offer_service(due[i].service), due, i)]
            o == OptionsOf(due)
            Good(e) == e \in Entries /\ RunBelongs(e, o)
<1>0. OfferTtl \in 0 .. TtlMod - 1 /\ 0 \in 0 .. TtlMod - 1
  BY SdConstants
<1>1. ASSUME NEW i \in 1 .. Len(stops) PROVE Good(make_stop_offer(stops[i].service))
  <2>1. stops[i] \in OffersWith(Types)
    OBVIOUS
  <2>2. stops[i].service \in Services
    BY <2>1, OfferShape
  <2>3. make_stop_offer(stops[i].service) \in Empty
    BY <1>0, <2>2, EntriesMade DEF make_stop_offer
  <2>. QED BY <2>3, EmptyBelongs DEF Empty
<1>2. ASSUME NEW i \in 1 .. Len(due)
      PROVE  Good(WithRun(make_offer_service(due[i].service), due, i))
  <2>1. due[i] \in OffersWith(Types)
    OBVIOUS
  <2>2. due[i].service \in Services
    BY <2>1, OfferShape
  <2>3. /\ make_offer_service(due[i].service) \in Empty
        /\ make_offer_service(due[i].service).service = due[i].service
    BY <1>0, <2>2, EntriesMade DEF make_offer_service
  <2>. QED BY <2>3, RunBelongsToOffer
<1>3. o \in Seq(Options)
  BY RunsOf
<1>4. Len(stops) \in Nat /\ Len(due) \in Nat
  OBVIOUS
<1>. HIDE DEF Good
<1>5. (\A i \in 1 .. Len(a) : Good(a[i])) /\ Len(a) = Len(stops)
  BY <1>1, <1>4
<1>6. (\A i \in 1 .. Len(b) : Good(b[i])) /\ Len(b) = Len(due)
  BY <1>2, <1>4
<1>7. a \in Seq(Entries) /\ b \in Seq(Entries)
  BY <1>1, <1>2, <1>4 DEF Good
<1>8. offer_message(due) = [entries |-> a \o b, options |-> o]
  BY DEF offer_message
<1>. HIDE DEF a, b, o
<1>9. /\ a \o b \in Seq(Entries)
      /\ \A i \in 1 .. Len(a \o b) : Good((a \o b)[i])
  <2>1. /\ a \o b \in Seq(Entries) /\ Len(a \o b) = Len(a) + Len(b)
        /\ \A i \in 1 .. Len(a) + Len(b) :
             (a \o b)[i] = IF i <= Len(a) THEN a[i] ELSE b[i - Len(a)]
    BY <1>7, ConcatProperties
  <2>2. Len(a) \in Nat /\ Len(b) \in Nat
    BY <1>7
  <2>3. ASSUME NEW i \in 1 .. Len(a) + Len(b) PROVE Good((a \o b)[i])
    <3>1. CASE i <= Len(a)
      <4>1. i \in 1 .. Len(a)
        BY <2>2, <3>1
      <4>. QED BY <1>5, <2>1, <3>1, <4>1
    <3>2. CASE ~ (i <= Len(a))
      <4>1. i - Len(a) \in 1 .. Len(b)
        BY <2>2, <3>2
      <4>2. (a \o b)[i] = b[i - Len(a)]
        BY <2>1, <3>2
      <4>. QED BY <1>6, <4>1, <4>2
    <3>. QED BY <3>1, <3>2
  <2>. QED BY <2>1, <2>3
<1>. DEFINE c == a \o b
<1>. HIDE DEF c
<1>10. c \in Seq(Entries) /\ \A i \in 1 .. Len(c) : RunBelongs(c[i], o)
  BY <1>9 DEF c, Good
<1>11. offer_message(due) = [entries |-> c, options |-> o]
  BY <1>8 DEF c
<1>. QED BY <1>3, <1>10, <1>11 DEF Messages

LEMMA FindMessage ==
  ASSUME NEW due \in Seq(Services)
  PROVE  find_message(due) \in Messages
<1>. DEFINE a == [i \in 1 .. Len(due) |-> make_find_service(due[i])]
<1>1. \A i \in 1 .. Len(due) : make_find_service(due[i]) \in Empty
  <2>1. OfferTtl \in 0 .. TtlMod - 1
    BY SdConstants
  <2>. QED BY <2>1, EntriesMade DEF make_find_service
<1>2. a \in Seq(Empty) /\ Len(due) \in Nat
  BY <1>1
<1>3. find_message(due) = [entries |-> a, options |-> <<>>]
  BY DEF find_message
<1>. HIDE DEF a
<1>4. a \in Seq(Entries) /\ \A i \in 1 .. Len(a) : a[i] \in Empty
  <2>1. Empty \subseteq Entries
    BY DEF Empty
  <2>. QED BY <1>2, <2>1
<1>5. <<>> \in Seq(Options)
  OBVIOUS
<1>6. \A i \in 1 .. Len(a) : RunBelongs(a[i], <<>>)
  BY <1>4, EmptyBelongs
<1>. QED BY <1>3, <1>4, <1>5, <1>6 DEF Messages

LEMMA TwoAtMost ==
  ASSUME NEW S, NEW those \in UpTo2(S)
  PROVE  those \in Seq(S) /\ Len(those) <= 2
<1>1. CASE those = <<>>
  BY <1>1
<1>2. CASE \E x \in S : those = <<x>>
  BY <1>2
<1>3. CASE those \in S \X S
  <2>1. PICK x \in S, y \in S : those = <<x, y>>
    BY <1>3
  <2>. QED BY <2>1
<1>. QED BY <1>1, <1>2, <1>3 DEF UpTo2

LEMMA PeerMessage ==
  ASSUME NEW type \in {"offer", "subscribe", "ack"}, NEW ttl \in 0 .. TtlMod - 1,
         NEW those \in UpTo2(OffersWith(PeerTypes)), peer_message(type, ttl, those)
  PROVE  \E m \in Messages : outbox' = <<m>>
<1>. DEFINE e(s) == IF type = "offer" THEN service_entry(type, s, ttl)
                                      ELSE eventgroup_entry(type, s, ttl)
            a == [i \in 1 .. Len(those) |-> WithRun(e(those[i].service), those, i)]
            o == OptionsOf(those)
            m == [entries |-> a, options |-> o]
<1>1. outbox' = <<m>>
  BY DEF peer_message
<1>2. those \in Seq(OffersWith(PeerTypes)) /\ Len(those) <= 2
  BY TwoAtMost
<1>3. ASSUME NEW i \in 1 .. Len(those)
      PROVE  /\ WithRun(e(those[i].service), those, i) \in Entries
             /\ RunBelongs(WithRun(e(those[i].service), those, i), o)
  <2>1. those[i] \in OffersWith(PeerTypes)
    BY <1>2
  <2>2. those[i].service \in Services
    BY <2>1, OfferShape
  <2>3. e(those[i].service) \in Empty /\ e(those[i].service).service = those[i].service
    <3>1. CASE type = "offer"
      BY <2>2, <3>1, EntriesMade
    <3>2. CASE type # "offer"
      BY <2>2, <3>2, EntriesMade
    <3>. QED BY <3>1, <3>2
  <2>. HIDE DEF e
  <2>. QED BY <1>2, <2>3, RunBelongsToOffer
<1>4. o \in Seq(Options)
  BY <1>2, RunsOf
<1>. HIDE DEF e, o
<1>5. Len(those) \in Nat /\ a \in Seq(Entries) /\ Len(a) = Len(those)
      /\ \A i \in 1 .. Len(a) : RunBelongs(a[i], o)
  BY <1>2, <1>3
<1>. HIDE DEF a
<1>6. m \in Messages
  BY <1>4, <1>5 DEF Messages
<1>. QED BY <1>1, <1>6
-----------------------------------------------------------------------------
(* Sizes.                                                                  *)
LEMMA Sizes ==
  ASSUME NEW m \in Messages
  PROVE  /\ BytesOf(m.options) \in Nat /\ Len(m.entries) * EntrySize \in Nat
         /\ Total(m) \in Nat /\ HeaderSize <= Total(m)
<1>. DEFINE n == Len(m.options)
            sizes == [i \in DOMAIN m.options |-> OptionSize[m.options[i].type]]
<1>1. m.options \in Seq(Options) /\ m.entries \in Seq(Entries)
  BY DEF Messages
<1>2. n \in Nat /\ DOMAIN m.options = 1 .. n /\ \A i \in 1 .. n : m.options[i] \in Options
  BY <1>1
<1>3. \A i \in 1 .. n : OptionSize[m.options[i].type] \in Nat
  BY <1>2, SdConstants DEF Options
<1>4. sizes \in Seq(Nat)
  BY <1>2, <1>3
<1>5. BytesOf(m.options) = Sum(sizes)
  BY DEF BytesOf, Sum
<1>. HIDE DEF sizes
<1>6. Sum(sizes) \in Nat
  <2>1. PICK g \in [0 .. Len(sizes) -> Nat] : Sum(sizes) = g[Len(sizes)]
    BY <1>4, SumSteps
  <2>2. Len(sizes) \in 0 .. Len(sizes)
    BY <1>4
  <2>. QED BY <2>1, <2>2
<1>7. Len(m.entries) \in Nat
  BY <1>1
<1>8. Len(m.entries) * EntrySize \in Nat
  BY <1>7, SdConstants
<1>. DEFINE p == Len(m.entries) * EntrySize  q == BytesOf(m.options)
<1>9. p \in Nat /\ q \in Nat
  BY <1>5, <1>6, <1>8
<1>10. Total(m) = HeaderSize + (FlagsSize + 2 * LengthSize) + p + q
  BY DEF Total, MinSize
<1>. HIDE DEF p, q
<1>11. Total(m) \in Nat /\ HeaderSize <= Total(m)
  BY <1>9, <1>10, SdConstants
<1>. QED BY <1>9, <1>11 DEF p, q

(* Some of the bytes of a message.  They are read only when all are there, *)
(* and then they are the message.                                          *)
Datagrams(m) == {[serialize_sd(m) EXCEPT !.size = s] : s \in 0 .. Total(m)}

LEMMA Written ==
  ASSUME NEW m \in Messages
  PROVE  serialize_sd(m) \in Datagrams(m)
         /\ [serialize_sd(m) EXCEPT !.size = HeaderSize] \in Datagrams(m)
<1>1. Total(m) \in 0 .. Total(m) /\ HeaderSize \in 0 .. Total(m)
  BY Sizes, SdConstants
<1>2. serialize_sd(m) = [serialize_sd(m) EXCEPT !.size = Total(m)]
  BY DEF serialize_sd
<1>. QED BY <1>1, <1>2 DEF Datagrams

LEMMA CutOff ==
  ASSUME NEW m \in Messages, NEW d \in Datagrams(m), NEW s \in Nat, s < d.size
  PROVE  [d EXCEPT !.size = s] \in Datagrams(m)
<1>1. PICK k \in 0 .. Total(m) : d = [serialize_sd(m) EXCEPT !.size = k]
  BY DEF Datagrams
<1>2. d.size = k
  BY <1>1 DEF serialize_sd
<1>3. s \in 0 .. Total(m)
  BY <1>2, Sizes
<1>4. [d EXCEPT !.size = s] = [serialize_sd(m) EXCEPT !.size = s]
  BY <1>1 DEF serialize_sd
<1>. QED BY <1>3, <1>4 DEF Datagrams

LEMMA ReadBack ==
  ASSUME NEW m \in Messages, NEW d \in Datagrams(m), Valid(d)
  PROVE  /\ d.size = Total(m) /\ Parsed(d).entries = m.entries
         /\ PeerTypes \subseteq KnownTypes => Parsed(d) = m
<1>1. PICK k \in 0 .. Total(m) : d = [serialize_sd(m) EXCEPT !.size = k]
  BY DEF Datagrams
<1>2. /\ d.size = k /\ d.options = m.options /\ d.options_len = BytesOf(m.options)
      /\ d.entries = [i \in 1 .. Len(m.entries) |-> write_entry(m.entries[i])]
      /\ d.entries_len = Len(m.entries) * EntrySize
  BY <1>1 DEF serialize_sd
<1>3. d.size = Total(m)
  <2>1. EntriesEnd(d) + LengthSize + d.options_len <= d.size
    BY DEF Valid
  <2>2. EntriesEnd(d) + LengthSize + d.options_len = Total(m)
    <3>. DEFINE p == Len(m.entries) * EntrySize  q == BytesOf(m.options)
    <3>1. p \in Nat /\ q \in Nat
      BY Sizes
    <3>2. Total(m) = HeaderSize + (FlagsSize + 2 * LengthSize) + p + q
          /\ EntriesEnd(d) = HeaderSize + FlagsSize + LengthSize + p /\ d.options_len = q
      BY <1>2 DEF EntriesEnd, Total, MinSize
    <3>. HIDE DEF p, q
    <3>. QED BY <3>1, <3>2, SdConstants
  <2>. QED BY <1>2, <2>1, <2>2, Sizes
<1>4. /\ m.entries \in Seq(Entries) /\ m.options \in Seq(Options)
      /\ m = [entries |-> m.entries, options |-> m.options]
  BY DEF Messages
<1>5. [i \in 1 .. Len(d.entries) |-> read_entry(d.entries[i])] = m.entries
  <2>. DEFINE n == Len(m.entries)
              a == [i \in 1 .. n |-> write_entry(m.entries[i])]
  <2>1. n \in Nat /\ \A i \in 1 .. n : m.entries[i] \in Entries
    BY <1>4
  <2>2. Len(a) = n /\ \A i \in 1 .. n : a[i] = write_entry(m.entries[i])
    BY <2>1
  <2>3. d.entries = a
    BY <1>2
  <2>4. m.entries = [i \in 1 .. n |-> m.entries[i]]
    BY <1>4
  <2>5. \A i \in 1 .. n : read_entry(write_entry(m.entries[i])) = m.entries[i]
    BY <2>1, EntryReadsBack
  <2>. HIDE DEF a, n
  <2>6. \A i \in 1 .. n : read_entry(a[i]) = m.entries[i]
    BY <2>2, <2>5
  <2>7. [i \in 1 .. n |-> read_entry(a[i])] = [i \in 1 .. n |-> m.entries[i]]
    BY <2>6
  <2>. QED BY <2>2, <2>3, <2>4, <2>7
<1>6. ASSUME PeerTypes \subseteq KnownTypes
      PROVE  Sublist(d.options, {o \in ToSet(d.options) : o.type \in KnownTypes}) = m.options
  <2>. DEFINE S == {o \in ToSet(m.options) : o.type \in KnownTypes}
  <2>1. \A i \in 1 .. Len(m.options) : m.options[i] \in S
    <3>1. \A i \in 1 .. Len(m.options) : m.options[i] \in Options /\ i \in DOMAIN m.options
      BY <1>4
    <3>2. \A o \in Options : o.type \in KnownTypes
      BY <1>6, SdConstants DEF Options
    <3>. QED BY <3>1, <3>2 DEF ToSet
  <2>. HIDE DEF S
  <2>2. Sublist(m.options, S) = m.options
    BY <1>4, <2>1, SublistOf
  <2>. QED BY <1>2, <2>2 DEF S
<1>. QED BY <1>3, <1>4, <1>5, <1>6 DEF Parsed
-----------------------------------------------------------------------------
(* The invariant: what is kept, what is under way, and what has arrived.   *)
SdKept ==
  /\ offers \in Seq(OffersWith(Types)) /\ Len(offers) <= MaxOffers
  /\ stops \in Seq(OffersWith(Types))
  /\ finds \in Seq(Services)
  /\ outbox \in Seq(Messages)
UnderWay == datagram # None => about \in Messages /\ datagram \in Datagrams(about)
Arrived ==
  received # None =>
    /\ about \in Messages
    /\ received.size = Total(about) /\ received.message.entries = about.entries
    /\ PeerTypes \subseteq KnownTypes => received.message = about
SdInv == SdKept /\ UnderWay /\ Arrived

LEMMA InitSdInv ==
  UdpInit => SdInv
<1>1. <<>> \in Seq(OffersWith(Types)) /\ Len(<<>>) = 0
      /\ <<>> \in Seq(Services) /\ <<>> \in Seq(Messages)
  OBVIOUS
<1>. QED BY <1>1, SdConstants DEF UdpInit, SdInit, SdInv, SdKept, UnderWay, Arrived

(* What the calls do.                                                      *)
LEMMA RestKept ==
  ASSUME Quiet
  PROVE  UnderWay' /\ Arrived'
BY DEF Quiet, UnderWay, Arrived

LEMMA CalledKeeps ==
  ASSUME SdKept, Called
  PROVE  SdKept'
<1>. USE DEF SdKept
<1>1. ASSUME NEW o \in OffersWith(Types), start_offer(o) PROVE SdKept'
  <2>1. offers' \in Seq(OffersWith(Types)) /\ Len(offers') <= MaxOffers
    <3>1. offers' = Append(offers, o) /\ Len(offers) < MaxOffers /\ MaxOffers \in Nat
      BY <1>1, SdConstants DEF start_offer
    <3>2. Append(offers, o) \in Seq(OffersWith(Types)) /\ Len(Append(offers, o)) = Len(offers) + 1
      OBVIOUS
    <3>3. Len(offers) \in Nat
      OBVIOUS
    <3>. QED BY <3>1, <3>2, <3>3
  <2>. QED BY <1>1, <2>1 DEF start_offer
<1>2. ASSUME NEW s \in Services, stop_offer(s) PROVE SdKept'
  <2>1. PICK i \in 1 .. Len(offers) :
          stops' = Append(stops, offers[i]) /\ offers' = RemoveAt(offers, i)
    BY <1>2 DEF stop_offer
  <2>2. offers[i] \in OffersWith(Types)
    OBVIOUS
  <2>3. Append(stops, offers[i]) \in Seq(OffersWith(Types))
    BY <2>2
  <2>4. RemoveAt(offers, i) \in Seq(OffersWith(Types)) /\ Len(RemoveAt(offers, i)) <= Len(offers)
    <3>. DEFINE a == SubSeq(offers, 1, i - 1)  b == SubSeq(offers, i + 1, Len(offers))
    <3>1. a \in Seq(OffersWith(Types)) /\ b \in Seq(OffersWith(Types))
          /\ Len(a) = i - 1 /\ Len(b) = Len(offers) - i /\ Len(offers) \in Nat
      OBVIOUS
    <3>2. RemoveAt(offers, i) = a \o b
      BY DEF RemoveAt
    <3>. HIDE DEF a, b
    <3>3. a \o b \in Seq(OffersWith(Types)) /\ Len(a \o b) = Len(a) + Len(b)
      BY <3>1, ConcatProperties
    <3>. QED BY <3>1, <3>2, <3>3
  <2>5. Len(RemoveAt(offers, i)) \in Nat /\ Len(offers) \in Nat
    BY <2>4, LenProperties
  <2>6. offers' \in Seq(OffersWith(Types)) /\ Len(offers') <= MaxOffers
        /\ stops' \in Seq(OffersWith(Types))
    <3>1. Len(offers') <= Len(offers) /\ Len(offers') \in Nat
      BY <2>1, <2>4, <2>5
    <3>. QED BY <2>1, <2>3, <2>4, <2>5, <3>1, SdConstants
  <2>. QED BY <1>2, <2>6 DEF stop_offer
<1>3. ASSUME NEW s \in Services, start_find(s) PROVE SdKept'
  BY <1>3 DEF start_find
<1>4. ASSUME NEW due \in DueLists(offers), NEW sought \in DueLists(finds), tick(due, sought)
      PROVE  SdKept'
  <2>. DEFINE unless_empty(m) == IF m.entries = <<>> THEN <<>> ELSE <<m>>
              a == offer_message(due)  b == find_message(sought)
  <2>1. due \in Seq(OffersWith(Types)) /\ Len(due) <= Len(offers)
    BY SublistOf DEF DueLists
  <2>2. sought \in Seq(Services)
    BY SublistOf DEF DueLists
  <2>3. Len(due) <= MaxOffers
    BY <2>1, SdConstants
  <2>4. a \in Messages /\ b \in Messages
    BY <2>1, <2>2, <2>3, OfferMessage, FindMessage
  <2>5. outbox' = unless_empty(a) \o unless_empty(b)
    BY <1>4 DEF tick
  <2>. HIDE DEF a, b
  <2>6. unless_empty(a) \in Seq(Messages) /\ unless_empty(b) \in Seq(Messages)
    BY <2>4
  <2>. HIDE DEF unless_empty
  <2>7. outbox' \in Seq(Messages)
    BY <2>5, <2>6, ConcatProperties
  <2>8. <<>> \in Seq(OffersWith(Types))
    OBVIOUS
  <2>. QED BY <1>4, <2>7, <2>8 DEF tick
<1>5. ASSUME NEW type \in {"offer", "subscribe", "ack"}, NEW ttl \in {0, OfferTtl},
             NEW those \in UpTo2(OffersWith(PeerTypes)), peer_message(type, ttl, those)
      PROVE  SdKept'
  <2>1. ttl \in 0 .. TtlMod - 1
    BY SdConstants
  <2>2. PICK m \in Messages : outbox' = <<m>>
    BY <1>5, <2>1, PeerMessage
  <2>3. <<m>> \in Seq(Messages)
    OBVIOUS
  <2>. QED BY <1>5, <2>2, <2>3 DEF peer_message
<1>. QED BY <1>1, <1>2, <1>3, <1>4, <1>5 DEF Called

LEMMA CalledWhenQuiet ==
  Called => Quiet
BY DEF Called, start_offer, stop_offer, start_find, tick, peer_message

(* What building, sending and reading do.                                  *)
LEMMA BuildKeeps ==
  ASSUME SdInv, NEW room, build_sd_message(room)
  PROVE  SdInv'
<1>. DEFINE m == Head(outbox)
<1>1. outbox \in Seq(Messages) /\ outbox # <<>>
  BY DEF build_sd_message, SdInv, SdKept
<1>2. m \in Messages /\ Tail(outbox) \in Seq(Messages)
  BY <1>1
<1>3. datagram' # None => datagram' \in {serialize_sd(m), [serialize_sd(m) EXCEPT !.size = HeaderSize]}
  BY DEF build_sd_message
<1>. HIDE DEF m
<1>4. about' = m /\ outbox' = Tail(outbox) /\ received' = None
      /\ UNCHANGED <<offers, stops, finds>>
  BY DEF build_sd_message, m
<1>5. datagram' # None => datagram' \in Datagrams(m)
  BY <1>2, <1>3, Written
<1>. QED BY <1>2, <1>4, <1>5 DEF SdInv, SdKept, UnderWay, Arrived

LEMMA CutKeeps ==
  ASSUME SdInv, NEW s \in Nat, cut(s)
  PROVE  SdInv'
<1>1. /\ datagram # None /\ s < datagram.size
      /\ datagram' = [datagram EXCEPT !.size = s]
      /\ UNCHANGED <<offers, stops, finds, outbox, received, about>>
  BY DEF cut
<1>2. about \in Messages /\ datagram \in Datagrams(about)
  BY <1>1 DEF SdInv, UnderWay
<1>3. datagram' \in Datagrams(about)
  BY <1>1, <1>2, CutOff
<1>. QED BY <1>1, <1>2, <1>3 DEF SdInv, SdKept, UnderWay, Arrived

LEMMA ReadKeeps ==
  ASSUME SdInv, deserialize_sd
  PROVE  SdInv'
<1>1. /\ datagram # None /\ datagram' = None
      /\ received' = IF Valid(datagram)
                     THEN [size |-> datagram.size, message |-> Parsed(datagram)] ELSE None
      /\ UNCHANGED <<offers, stops, finds, outbox, about>>
  BY DEF deserialize_sd
<1>2. about \in Messages /\ datagram \in Datagrams(about)
  BY <1>1 DEF SdInv, UnderWay
<1>3. Valid(datagram) =>
        /\ datagram.size = Total(about) /\ Parsed(datagram).entries = about.entries
        /\ PeerTypes \subseteq KnownTypes => Parsed(datagram) = about
  BY <1>2, ReadBack
<1>4. received' # None =>
        /\ about \in Messages
        /\ received'.size = Total(about) /\ received'.message.entries = about.entries
        /\ PeerTypes \subseteq KnownTypes => received'.message = about
  BY <1>1, <1>2, <1>3
<1>. QED BY <1>1, <1>4 DEF SdInv, SdKept, UnderWay, Arrived

LEMMA DropKeeps ==
  ASSUME SdInv, datagram' = None,
         UNCHANGED <<offers, stops, finds, outbox, received, about>>
  PROVE  SdInv'
BY DEF SdInv, SdKept, UnderWay, Arrived

LEMMA StayKeeps ==
  ASSUME SdInv, UNCHANGED sdVars
  PROVE  SdInv'
BY DEF SdInv, SdKept, UnderWay, Arrived, sdVars

LEMMA NextSdInv ==
  ASSUME SdInv, [UdpNext]_udpVars
  PROVE  SdInv'
<1>1. CASE Called
  <2>1. Quiet
    BY <1>1, CalledWhenQuiet
  <2>. QED BY <1>1, <2>1, CalledKeeps, RestKept DEF SdInv
<1>2. ASSUME NEW room \in 0 .. MaxRoom, build(room) PROVE SdInv'
  BY <1>2, BuildKeeps DEF build
<1>3. CASE sendto \/ recvfrom \/ kernel_sends
  BY <1>3, StayKeeps DEF sendto, recvfrom, kernel_sends
<1>4. CASE kernel_refuses
  BY <1>4, DropKeeps DEF kernel_refuses
<1>5. CASE lose
  BY <1>5, DropKeeps DEF lose
<1>6. ASSUME NEW room \in HeaderSize .. MaxRoom, kernel_receives(room) PROVE SdInv'
  <2>1. UNCHANGED sdVars \/ cut(room)
    BY <1>6 DEF kernel_receives
  <2>2. room \in Nat
    BY SdConstants
  <2>. QED BY <2>1, <2>2, StayKeeps, CutKeeps
<1>7. ASSUME NEW o \in Ops, completes(o) PROVE SdInv'
  BY <1>7, StayKeeps DEF completes
<1>8. CASE deserialize
  BY <1>8, ReadKeeps DEF deserialize
<1>9. CASE UNCHANGED udpVars
  BY <1>9, StayKeeps DEF udpVars
<1>. QED BY <1>1, <1>2, <1>3, <1>4, <1>5, <1>6, <1>7, <1>8, <1>9 DEF UdpNext

LEMMA SdInvariance ==
  UdpSpec => []SdInv
<1>1. UdpInit => SdInv
  BY InitSdInv
<1>2. SdInv /\ [UdpNext]_udpVars => SdInv'
  BY NextSdInv
<1>. QED BY <1>1, <1>2, PTL DEF UdpSpec

(* Whatever deserialize_sd accepts was written by build_sd_message: a      *)
(* datagram that was cut is refused, and no field of an entry loses bits,  *)
(* for any number of offers whose options the index of an entry can reach. *)
THEOREM EntriesArriveWhole ==
  UdpSpec => [](received # None =>
                  received.size = Total(about) /\ received.message.entries = about.entries)
<1>1. SdInv => (received # None =>
                  received.size = Total(about) /\ received.message.entries = about.entries)
  BY DEF SdInv, Arrived
<1>. QED BY <1>1, SdInvariance, PTL

(* The options too, when the peer attaches only those of types that this   *)
(* code knows: the others deserialize_sd leaves out.                       *)
THEOREM WhatIsReceivedWasSent ==
  ASSUME PeerTypes \subseteq KnownTypes
  PROVE  UdpSpec => []ReceivedIsSent
<1>1. SdInv => ReceivedIsSent
  BY DEF SdInv, Arrived, ReceivedIsSent
<1>. QED BY <1>1, SdInvariance, PTL

(* The options an entry of a received message refers to are those of its   *)
(* own offer, when tick puts several offers into one message.  Were an     *)
(* option left out, the positions of those behind it would change.         *)
THEOREM OptionsAreTheirOffers ==
  ASSUME PeerTypes \subseteq KnownTypes
  PROVE  UdpSpec => []OptionsBelong
<1>1. SdInv => OptionsBelong
  <2>. SUFFICES ASSUME SdInv, received # None PROVE OptionsBelong
    BY DEF OptionsBelong
  <2>1. about \in Messages /\ received.message = about
    BY DEF SdInv, Arrived
  <2>2. \A i \in 1 .. Len(about.entries) : RunBelongs(about.entries[i], about.options)
    BY <2>1 DEF Messages
  <2>. QED BY <2>1, <2>2 DEF OptionsBelong, RunBelongs
<1>. QED BY <1>1, SdInvariance, PTL

(* A message with entries leaves build_sd_message whole and inside of its  *)
(* buffer, or not at all.                                                  *)
THEOREM NothingIsBuiltInPart ==
  UdpSpec => BuiltWhole
<1>1. [UdpNext]_udpVars =>
        [outbox' # outbox /\ datagram' # None /\ about'.entries # <<>> =>
           \A room \in 0 .. MaxRoom :
             build_sd_message(room) => datagram'.size = Total(about') /\ datagram'.size <= room]_sdVars
  <2>. SUFFICES ASSUME datagram' # None, about'.entries # <<>>,
                       NEW room \in 0 .. MaxRoom, build_sd_message(room)
                PROVE  datagram'.size = Total(about') /\ datagram'.size <= room
    OBVIOUS
  <2>. DEFINE m == Head(outbox)
  <2>1. about' = m /\ m.entries # <<>>
    BY DEF build_sd_message
  <2>2. HasRoom(room, m) /\ datagram' = serialize_sd(m)
    BY <2>1 DEF build_sd_message
  <2>3. datagram'.size = Total(m)
    BY <2>2 DEF serialize_sd
  <2>4. Total(about') = Total(m)
    BY <2>1 DEF Total
  <2>. QED BY <2>2, <2>3, <2>4 DEF HasRoom
<1>. QED BY <1>1, PTL DEF UdpSpec, BuiltWhole
=============================================================================
