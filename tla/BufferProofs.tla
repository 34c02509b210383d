----------------------------- MODULE BufferProofs -----------------------------
(***************************************************************************)
(* Theorems about the containers that hold values on their way.            *)
(* NoValueIsLost of the deque between threads, for any threads and any     *)
(* number of pushes, is not inductive: a reader who has looked at the front *)
(* takes off what it saw, so what it saw must still be there, and that     *)
(* holds because the waiters are not there together with a reader          *)
(* (RoleInv). BuffersAreTrue of the pull queue and the running average, for *)
(* any length, any signed type and any number of values, rests on what the *)
(* ring of values and the accumulator are at any time (AverageInv).        *)
(***************************************************************************)
EXTENDS AsyncDeque, PullBuffers, FiniteSetTheorems, SequenceTheorems, WellFoundedInduction, TLAPS

DequeTypeOK ==
  /\ reading \in BOOLEAN /\ locker \subseteq Lockers
  /\ deque \in Seq(Nat) /\ taken \in Seq(Nat) /\ pushes \in Nat
  /\ asleep \subseteq Waiters /\ woken \subseteq Waiters /\ asleep \cap woken = {}

(* What a reader saw is the front, and nobody else takes while there is one *)
RoleInv ==
  /\ reading => asleep = {} /\ woken = {}
  /\ seen # <<>> => reading /\ deque # <<>> /\ seen = <<deque[1]>>

(* The first half of NoValueIsLost, element by element                      *)
NumberedInv ==
  /\ Len(taken) + Len(deque) = pushes
  /\ \A k \in 1..Len(taken) : taken[k] = k
  /\ \A k \in 1..Len(deque) : deque[k] = Len(taken) + k

(* The second half                                                          *)
AwakeInv == asleep # {} => Len(deque) <= Cardinality(woken)

DequeInv == DequeTypeOK /\ RoleInv /\ NumberedInv /\ AwakeInv

-----------------------------------------------------------------------------
(* Two sequences that number their elements on are the numbers in order     *)
LEMMA NumberedOn ==
  ASSUME NEW s \in Seq(Nat), NEW t \in Seq(Nat), NEW n \in Nat, Len(s) + Len(t) = n,
         \A k \in 1..Len(s) : s[k] = k, \A k \in 1..Len(t) : t[k] = Len(s) + k
  PROVE  s \o t = [k \in 1..n |-> k]
<1> DEFINE u == s \o t
<1>1. /\ u \in Seq(Nat) /\ Len(u) = n /\ Len(s) \in Nat /\ Len(t) \in Nat
      /\ \A k \in 1..Len(s) + Len(t) : u[k] = IF k <= Len(s) THEN s[k] ELSE t[k - Len(s)]
  BY ConcatProperties, LenProperties
<1> HIDE DEF u
<1>2. ASSUME NEW k \in 1..n PROVE u[k] = k
  <2>1. CASE k <= Len(s)
    <3>1. k \in 1..Len(s) /\ k \in 1..Len(s) + Len(t)
      BY <1>1, <2>1
    <3> QED BY <1>1, <2>1, <3>1
  <2>2. CASE ~(k <= Len(s))
    <3> DEFINE i == k - Len(s)
    <3>1. i \in 1..Len(t) /\ Len(s) + i = k /\ u[k] = t[i]
      BY <1>1, <2>2
    <3> HIDE DEF i
    <3>2. t[i] = Len(s) + i
      BY <3>1
    <3> QED BY <3>1, <3>2
  <2> QED BY <2>1, <2>2
<1>3. DOMAIN u = 1..n /\ u \in [1..n -> Nat]
  BY <1>1, LenProperties
<1>4. u = [k \in 1..n |-> u[k]]
  BY <1>3, Zenon
<1>5. u = [k \in 1..n |-> k]
  BY <1>2, <1>4
<1> QED BY <1>5 DEF u

LEMMA NumberedIsFifo ==
  ASSUME DequeTypeOK, NumberedInv
  PROVE  taken \o deque = [k \in 1..pushes |-> k]
BY NumberedOn DEF DequeTypeOK, NumberedInv

(* The threads that a notification has gone to are finitely many            *)
LEMMA WokenFinite == ASSUME DequeTypeOK PROVE IsFiniteSet(woken) /\ Cardinality(woken) \in Nat
BY DequeAssumption, FS_Subset, FS_CardinalityType DEF DequeTypeOK

LEMMA NotifiedIsCounted ==
  ASSUME DequeTypeOK, NEW t \in asleep
  PROVE  Cardinality(woken \cup {t}) = Cardinality(woken) + 1
BY WokenFinite, FS_AddElement DEF DequeTypeOK

LEMMA ReturnIsCounted ==
  ASSUME DequeTypeOK, NEW t \in woken
  PROVE  /\ Cardinality(woken \ {t}) = Cardinality(woken) - 1
         /\ Cardinality(woken \ {t}) \in Nat
BY WokenFinite, FS_RemoveElement, FS_CardinalityType DEF DequeTypeOK

(* Taking the front leaves the numbers as they are                          *)
LEMMA TakeKeepsNumbers ==
  ASSUME DequeTypeOK, NumberedInv, deque # <<>>, Take, pushes' = pushes
  PROVE  /\ deque' \in Seq(Nat) /\ taken' \in Seq(Nat) /\ NumberedInv'
         /\ Len(deque') = Len(deque) - 1
<1>1. /\ deque' = Tail(deque) /\ taken' = Append(taken, deque[1])
      /\ deque[1] \in Nat /\ deque[1] = Len(taken) + 1 /\ Len(deque) \in Nat \ {0}
  BY DEF Take, DequeTypeOK, NumberedInv
<1>2. /\ deque' \in Seq(Nat) /\ Len(deque') = Len(deque) - 1
      /\ \A k \in 1..Len(deque') : deque'[k] = deque[k + 1]
  BY <1>1 DEF DequeTypeOK
<1>3. /\ taken' \in Seq(Nat) /\ Len(taken') = Len(taken) + 1
      /\ \A k \in 1..Len(taken') : taken'[k] = IF k = Len(taken) + 1 THEN deque[1] ELSE taken[k]
  BY <1>1 DEF DequeTypeOK
<1>4. Len(taken') + Len(deque') = pushes'
  <2>1. Len(taken) \in Nat /\ Len(taken) + Len(deque) = pushes
    BY DEF DequeTypeOK, NumberedInv
  <2> QED BY <1>1, <1>2, <1>3, <2>1
<1>5. \A k \in 1..Len(taken') : taken'[k] = k
  BY <1>1, <1>3 DEF NumberedInv, DequeTypeOK
<1>6. \A k \in 1..Len(deque') : deque'[k] = Len(taken') + k
  <2> TAKE k \in 1..Len(deque')
  <2>1. k + 1 \in 1..Len(deque) /\ Len(taken) \in Nat /\ k \in Nat
    BY <1>1, <1>2 DEF DequeTypeOK
  <2>2. deque[k + 1] = Len(taken) + (k + 1)
    BY <2>1 DEF NumberedInv
  <2> QED BY <1>2, <1>3, <2>1, <2>2
<1> QED BY <1>2, <1>3, <1>4, <1>5, <1>6 DEF NumberedInv

-----------------------------------------------------------------------------
LEMMA DequeInvInit == DequeInit => DequeInv
BY DEF DequeInit, DequeInv, DequeTypeOK, RoleInv, NumberedInv, AwakeInv

LEMMA PushKeepsInv == ASSUME DequeInv, PushBack, UNCHANGED reading PROVE DequeInv'
<1> USE DEF DequeInv
<1>1. /\ pushes' = pushes + 1 /\ deque' = Append(deque, pushes + 1)
      /\ taken' = taken /\ locker' = locker /\ seen' = seen /\ reading' = reading
  BY DEF PushBack
<1>2. /\ deque' \in Seq(Nat) /\ Len(deque') = Len(deque) + 1 /\ deque' # <<>>
      /\ \A k \in 1..Len(deque) : deque'[k] = deque[k]
      /\ deque'[Len(deque) + 1] = pushes + 1
  BY <1>1 DEF DequeTypeOK
<1>3. NumberedInv'
  BY <1>1, <1>2, SMTT(30) DEF NumberedInv, DequeTypeOK
<1>4. CASE asleep = {}
  <2>1. asleep' = asleep /\ woken' = woken
    BY <1>4 DEF PushBack
  <2>2. DequeTypeOK'
    BY <1>1, <1>2, <2>1 DEF DequeTypeOK
  <2>3. RoleInv'
    BY <1>1, <1>2, <2>1 DEF RoleInv, DequeTypeOK
  <2> QED BY <1>3, <1>4, <2>1, <2>2, <2>3 DEF AwakeInv
<1>5. CASE asleep # {}
  <2>1. PICK t \in asleep : asleep' = asleep \ {t} /\ woken' = woken \cup {t}
    BY <1>5 DEF PushBack
  <2>2. DequeTypeOK'
    BY <1>1, <1>2, <2>1 DEF DequeTypeOK
  <2>3. RoleInv'
    BY <1>1, <1>2, <1>5 DEF RoleInv, DequeTypeOK
  <2>4. AwakeInv'
    BY <1>2, <1>5, <2>1, NotifiedIsCounted, WokenFinite, SMTT(30) DEF AwakeInv, DequeTypeOK
  <2> QED BY <1>3, <2>2, <2>3, <2>4
<1> QED BY <1>4, <1>5

(* try_pop_front and wait_and_pop_front, from the beginning and after a wait *)
LEMMA WaiterKeepsInv ==
  ASSUME DequeInv, UNCHANGED reading, NEW t \in Waiters,
         TryPopFront(t) \/ WaitAndPopFront(t) \/ Wake(t) \/ WakeForNothing(t)
  PROVE  DequeInv'
<1> USE DEF DequeInv
<1>1. ~reading /\ seen = <<>> /\ seen' = seen /\ pushes' = pushes /\ locker' = locker
  BY DEF TryPopFront, WaitAndPopFront, Wake, WakeForNothing, RoleInv
<1>2. CASE WakeForNothing(t)
  <2>1. /\ t \in asleep /\ asleep' = asleep \ {t} /\ woken' = woken \cup {t}
        /\ deque' = deque /\ taken' = taken
    BY <1>2 DEF WakeForNothing
  <2>2. DequeTypeOK' /\ RoleInv' /\ NumberedInv'
    BY <1>1, <2>1 DEF DequeTypeOK, RoleInv, NumberedInv
  <2>3. AwakeInv'
    BY <2>1, NotifiedIsCounted, WokenFinite DEF AwakeInv, DequeTypeOK
  <2> QED BY <2>2, <2>3
<1>3. CASE deque = <<>> /\ (WaitAndPopFront(t) \/ Wake(t))
  <2>1. /\ deque' = deque /\ taken' = taken /\ asleep' = asleep \cup {t}
        /\ woken' = woken \ {t}
    BY <1>3 DEF WaitAndPopFront, Wake, DequeTypeOK
  <2>2. DequeTypeOK' /\ RoleInv' /\ NumberedInv'
    BY <1>1, <2>1 DEF DequeTypeOK, RoleInv, NumberedInv
  <2>3. AwakeInv'
    BY <1>3, <2>1, <2>2, WokenFinite, FS_Subset, FS_CardinalityType DEF AwakeInv, DequeTypeOK
  <2> QED BY <2>2, <2>3
<1>4. CASE deque # <<>> /\ (TryPopFront(t) \/ WaitAndPopFront(t) \/ Wake(t))
  <2>1. Take /\ asleep' = asleep /\ (woken' = woken \/ (t \in woken /\ woken' = woken \ {t}))
    BY <1>4 DEF TryPopFront, WaitAndPopFront, Wake
  <2>2. deque' \in Seq(Nat) /\ taken' \in Seq(Nat) /\ NumberedInv' /\ Len(deque') = Len(deque) - 1
    BY <1>1, <1>4, <2>1, TakeKeepsNumbers
  <2>3. DequeTypeOK' /\ RoleInv'
    BY <1>1, <2>1, <2>2 DEF DequeTypeOK, RoleInv
  <2>4. Cardinality(woken') \in Nat /\ Cardinality(woken) <= Cardinality(woken') + 1
    <3>1. CASE woken' = woken
      BY <3>1, WokenFinite
    <3>2. CASE t \in woken /\ woken' = woken \ {t}
      <4>1. Cardinality(woken') = Cardinality(woken) - 1 /\ Cardinality(woken') \in Nat
        BY <3>2, ReturnIsCounted
      <4> QED BY <4>1, WokenFinite
    <3> QED BY <2>1, <3>1, <3>2
  <2>5. AwakeInv'
    BY <2>1, <2>2, <2>4, WokenFinite, LenProperties, SMTT(30) DEF AwakeInv, DequeTypeOK
  <2> QED BY <2>2, <2>3, <2>5
<1>5. deque = <<>> => ~TryPopFront(t)
  BY DEF TryPopFront
<1> QED BY <1>2, <1>3, <1>4, <1>5

LEMMA ReaderKeepsInv ==
  ASSUME DequeInv, UNCHANGED reading, NEW t \in Readers, LookAtFront(t) \/ PopFront(t)
  PROVE  DequeInv'
<1> USE DEF DequeInv
<1>1. CASE LookAtFront(t)
  BY <1>1 DEF LookAtFront, DequeTypeOK, RoleInv, NumberedInv, AwakeInv
<1>2. CASE PopFront(t)
  <2>1. reading /\ deque # <<>> /\ seen[1] = deque[1] /\ asleep = {}
    BY <1>2 DEF PopFront, RoleInv
  <2>2. Take /\ pushes' = pushes /\ asleep' = {} /\ woken' = woken /\ seen' = <<>> /\ locker' = locker
    BY <1>2, <2>1 DEF PopFront, Take
  <2>3. deque' \in Seq(Nat) /\ taken' \in Seq(Nat) /\ NumberedInv'
    BY <2>1, <2>2, TakeKeepsNumbers
  <2> QED BY <2>1, <2>2, <2>3 DEF DequeTypeOK, RoleInv, AwakeInv
<1> QED BY <1>1, <1>2

LEMMA DequeInvStep == DequeInv /\ [DequeNext]_dequeVars => DequeInv'
<1> SUFFICES ASSUME DequeInv, [DequeNext]_dequeVars PROVE DequeInv'
  OBVIOUS
<1>1. CASE UNCHANGED dequeVars
  BY <1>1 DEF dequeVars, DequeInv, DequeTypeOK, RoleInv, NumberedInv, AwakeInv
<1>2. CASE UNCHANGED reading /\ PushBack
  BY <1>2, PushKeepsInv
<1>3. CASE UNCHANGED reading /\ \E t \in Waiters :
             TryPopFront(t) \/ WaitAndPopFront(t) \/ Wake(t) \/ WakeForNothing(t)
  BY <1>3, WaiterKeepsInv
<1>4. CASE UNCHANGED reading /\ \E t \in Readers : LookAtFront(t) \/ PopFront(t)
  BY <1>4, ReaderKeepsInv
<1>5. CASE UNCHANGED reading /\ \E t \in Lockers : Lock(t) \/ Unlock(t)
  BY <1>5 DEF Lock, Unlock, DequeInv, DequeTypeOK, RoleInv, NumberedInv, AwakeInv
<1> QED BY <1>1, <1>2, <1>3, <1>4, <1>5 DEF DequeNext, DequeStep

-----------------------------------------------------------------------------
(* Every value is taken once and in the order of the pushes, also by a      *)
(* reader who looks at the front first and then takes it off, and while     *)
(* threads sleep in wait_and_pop_front every value has a thread on its way, *)
(* for any number of threads and of pushes                                  *)
THEOREM NothingIsLost == DequeSpec => []NoValueIsLost
<1>1. DequeInv => NoValueIsLost
  BY NumberedIsFifo DEF DequeInv, AwakeInv, NoValueIsLost
<1> QED BY <1>1, DequeInvInit, DequeInvStep, PTL DEF DequeSpec

-----------------------------------------------------------------------------
(* The running average, first of all its arithmetic: the conversion to a    *)
(* signed type takes remainders, and taking them early makes no difference. *)

(* Numbers are reached from zero                                            *)
LEMMA NatInduct ==
  ASSUME NEW T, 0 \in T, \A n \in Nat : n \in T => n + 1 \in T
  PROVE  \A n \in Nat : n \in T
<1> DEFINE R == OpToRel(<, Nat)
           M == Nat \ T
<1>1. IsWellFoundedOn(R, Nat)
  BY NatLessThanWellFounded
<1>2. \A x, y \in Nat : <<y, x>> \in R <=> y < x
  BY DEF OpToRel
<1> HIDE DEF R
<1>3. SUFFICES ASSUME M # {} PROVE FALSE
  OBVIOUS
<1>4. PICK x \in M : \A y \in M : ~(<<y, x>> \in R)
  <2>1. M \subseteq Nat
    OBVIOUS
  <2> HIDE DEF M
  <2> QED BY <1>1, <1>3, <2>1, WFMin
<1>5. x \in Nat /\ x # 0
  BY <1>4
<1>6. x - 1 \in Nat /\ x - 1 < x /\ x - 1 + 1 = x
  BY <1>5
<1>7. x - 1 \in M
  BY <1>4, <1>5, <1>6
<1> QED BY <1>2, <1>4, <1>5, <1>6, <1>7

LEMMA Remainder ==
  ASSUME NEW m \in Nat \ {0}, NEW a \in Int
  PROVE  /\ a % m \in 0..m - 1 /\ \E q \in Int : a = q * m + (a % m)
<1>1. a % m \in 0..m - 1
  OBVIOUS
<1>2. a \div m \in Int /\ a = (a \div m) * m + (a % m)
  OBVIOUS
<1> QED BY <1>1, <1>2
LEMMA OneRemainder ==
  ASSUME NEW m \in Nat \ {0}, NEW q \in Int, NEW r \in 0..m - 1, NEW p \in Int, NEW s \in 0..m - 1,
         q * m + r = p * m + s
  PROVE  r = s
<1>1. CASE q = p
  BY <1>1
<1>2. CASE q < p
  <2>1. PICK d \in Nat : p = q + 1 + d
    <3>1. p - q - 1 \in Nat /\ p = q + 1 + (p - q - 1)
      BY <1>2
    <3> QED BY <3>1
  <2>2. p * m = q * m + m + d * m
    BY <2>1
  <2>3. d * m >= 0
    OBVIOUS
  <2> QED BY <2>2, <2>3
<1>3. CASE p < q
  <2>1. PICK d \in Nat : q = p + 1 + d
    <3>1. q - p - 1 \in Nat /\ q = p + 1 + (q - p - 1)
      BY <1>3
    <3> QED BY <3>1
  <2>2. q * m = p * m + m + d * m
    BY <2>1
  <2>3. d * m >= 0
    OBVIOUS
  <2> QED BY <2>2, <2>3
<1> QED BY <1>1, <1>2, <1>3
LEMMA Wrapped ==
  ASSUME NEW m \in Nat \ {0}, NEW x \in Int, NEW y \in Int
  PROVE  ((x % m) + y) % m = (x + y) % m
<1> DEFINE u == (x % m) + y
           v == x + y
<1>1. PICK i \in Int : x = i * m + (x % m)
  BY Remainder
<1>2. x % m \in Int /\ u \in Int /\ v \in Int
  OBVIOUS
<1>4. v = i * m + u
  BY <1>1, <1>2
<1> HIDE DEF u, v
<1> DEFINE r == u % m
           t == v % m
<1>5. PICK j \in Int : u = j * m + r
  BY <1>2, Remainder
<1>6. PICK k \in Int : v = k * m + t
  BY <1>2, Remainder
<1>7. r \in 0..m - 1 /\ t \in 0..m - 1
  BY <1>2, Remainder
<1> HIDE DEF r, t
<1>8. (i + j) * m = i * m + j * m
  OBVIOUS
<1> DEFINE e == i + j
<1>9. e * m + r = k * m + t /\ e \in Int
  BY <1>4, <1>5, <1>6, <1>7, <1>8
<1> HIDE DEF e
<1>10. r = t
  BY <1>7, <1>9, OneRemainder
<1> QED BY <1>10 DEF r, t, u, v

(* What the first k values come to, one by one         *)
Totalling(g, s) == g = [k \in 0..Len(s) |-> IF k = 0 THEN 0 ELSE g[k - 1] + s[k]]

LEMMA TotallingStep ==
  ASSUME NEW g, NEW s, Totalling(g, s), NEW k \in 0..Len(s), NEW p, p = k - 1
  PROVE  g[k] = IF k = 0 THEN 0 ELSE g[p] + s[k]
<1> DEFINE F == [i \in 0..Len(s) |-> IF i = 0 THEN 0 ELSE g[i - 1] + s[i]]
<1>1. g = F
  BY DEF Totalling
<1>2. F[k] = IF k = 0 THEN 0 ELSE g[p] + s[k]
  OBVIOUS
<1> HIDE DEF F
<1> QED BY <1>1, <1>2

LEMMA TotallingExists ==
  ASSUME NEW S, NEW s \in Seq(S)
  PROVE  \E g : Totalling(g, s)
<1> DEFINE Up(n, g) == g = [k \in 0..n |-> IF k = 0 THEN 0 ELSE g[k - 1] + s[k]]
           T == {n \in Nat : \E g : Up(n, g)}
<1>1. 0 \in T
  <2> DEFINE g == [k \in 0..0 |-> 0]
  <2>1. Up(0, g)
    OBVIOUS
  <2> QED BY <2>1
<1>2. ASSUME NEW n \in Nat, n \in T PROVE n + 1 \in T
  <2>1. PICK g : Up(n, g)
    BY <1>2
  <2> DEFINE f == [k \in 0..n + 1 |-> IF k = n + 1 THEN g[n] + s[n + 1] ELSE g[k]]
  <2>2. ASSUME NEW k \in 0..n + 1 PROVE f[k] = IF k = 0 THEN 0 ELSE f[k - 1] + s[k]
    <3>1. CASE k = n + 1
      <4>1. k # 0 /\ k - 1 = n /\ f[n] = g[n] /\ f[k] = g[n] + s[n + 1]
        BY <3>1
      <4> QED BY <3>1, <4>1
    <3>2. CASE k \in 0..n
      <4>1. f[k] = g[k] /\ (k # 0 => k - 1 \in 0..n /\ f[k - 1] = g[k - 1])
        BY <3>2
      <4> QED BY <2>1, <3>2, <4>1
    <3> QED BY <3>1, <3>2
  <2>3. Up(n + 1, f)
    BY <2>2
  <2> HIDE DEF f, Up
  <2>4. \E q : Up(n + 1, q)
    BY <2>3
  <2> QED BY <2>4
<1> HIDE DEF T
<1>3. \A n \in Nat : n \in T
  BY <1>1, <1>2, NatInduct
<1>4. Len(s) \in T
  BY <1>3, LenProperties
<1> QED BY <1>4 DEF T, Totalling

LEMMA TotalsAdd ==
  ASSUME NEW S, NEW s \in Seq(S)
  PROVE  Totalling(Totals(s), s)
<1> DEFINE c == CHOOSE g : Totalling(g, s)
<1>1. Totalling(c, s)
  <2>1. \E g : Totalling(g, s)
    BY TotallingExists
  <2> QED BY <2>1, Zenon
<1>2. Totals(s) = c
  BY DEF Totals, Totalling
<1> HIDE DEF c
<1> QED BY <1>1, <1>2

LEMMA TotalsAreWhole ==
  ASSUME NEW s \in Seq(Int)
  PROVE  \A k \in 0..Len(s) : Totals(s)[k] \in Int
<1> DEFINE g == Totals(s)
           l == Len(s)
           T == {k \in Nat : k <= l => g[k] \in Int}
<1>1. l \in Nat /\ Totalling(g, s) /\ \A k \in 1..l : s[k] \in Int
  BY TotalsAdd, LenProperties
<1> HIDE DEF g
<1>2. 0 \in T
  <2>1. 0 \in 0..Len(s)
    BY <1>1
  <2> QED BY <1>1, <2>1, TotallingStep
<1>3. ASSUME NEW k \in Nat, k \in T PROVE k + 1 \in T
  <2> SUFFICES ASSUME k + 1 <= l PROVE g[k + 1] \in Int
    OBVIOUS
  <2>1. k + 1 \in 0..Len(s) /\ k + 1 \in 1..l /\ k + 1 # 0 /\ k = k + 1 - 1 /\ k <= l
    BY <1>1
  <2>2. g[k + 1] = g[k] + s[k + 1]
    BY <1>1, <2>1, TotallingStep
  <2> QED BY <1>1, <1>3, <2>1, <2>2
<1> HIDE DEF T
<1>4. \A k \in Nat : k \in T
  BY <1>2, <1>3, NatInduct
<1> QED BY <1>1, <1>4 DEF T, g

LEMMA TotalsAppended ==
  ASSUME NEW s \in Seq(Int), NEW v \in Int
  PROVE  /\ \A k \in 0..Len(s) : Totals(Append(s, v))[k] = Totals(s)[k]
         /\ Totals(Append(s, v))[Len(s) + 1] = Totals(s)[Len(s)] + v
<1> DEFINE t == Append(s, v)
           l == Len(s)
           g == Totals(s)
           h == Totals(t)
           T == {k \in Nat : k <= l => h[k] = g[k]}
<1>1. t \in Seq(Int) /\ l \in Nat /\ Len(t) = l + 1 /\ t[l + 1] = v /\ \A k \in 1..l : t[k] = s[k]
  BY AppendProperties, LenProperties
<1> HIDE DEF t
<1>2. Totalling(g, s) /\ Totalling(h, t)
  BY <1>1, TotalsAdd
<1> HIDE DEF g, h
<1>3. 0 \in T
  <2>1. 0 \in 0..Len(t) /\ 0 \in 0..Len(s)
    BY <1>1
  <2> QED BY <1>2, <2>1, TotallingStep
<1>4. ASSUME NEW k \in Nat, k \in T PROVE k + 1 \in T
  <2> SUFFICES ASSUME k + 1 <= l PROVE h[k + 1] = g[k + 1]
    OBVIOUS
  <2>1. k + 1 \in 0..Len(s) /\ k + 1 \in 0..Len(t) /\ k + 1 \in 1..l /\ k + 1 # 0 /\ k = k + 1 - 1 /\ k <= l
    BY <1>1
  <2>2. g[k + 1] = g[k] + s[k + 1]
    BY <1>2, <2>1, TotallingStep
  <2>3. h[k + 1] = h[k] + t[k + 1]
    BY <1>2, <2>1, TotallingStep
  <2> QED BY <1>1, <1>4, <2>1, <2>2, <2>3
<1> HIDE DEF T
<1>5. \A k \in Nat : k \in T
  BY <1>3, <1>4, NatInduct
<1>6. \A k \in 0..l : h[k] = g[k]
  BY <1>1, <1>5 DEF T
<1> HIDE DEF l
<1>7. h[l + 1] = h[l] + t[l + 1]
  <2> DEFINE n == l + 1
  <2>1. n \in 0..Len(t) /\ n # 0 /\ l = n - 1
    BY <1>1
  <2> HIDE DEF n
  <2>2. h[n] = h[l] + t[n]
    BY <1>2, <2>1, TotallingStep
  <2> QED BY <2>2 DEF n
<1>8. l \in 0..l
  BY <1>1
<1> QED BY <1>1, <1>6, <1>7, <1>8 DEF g, h, t, l


-----------------------------------------------------------------------------
(* A conversion to the signed type may be left out before another           *)
LEMMA SignedSum ==
  ASSUME PullAssumption, NEW x \in Int, NEW y \in Int
  PROVE  Signed(Signed(x) + y) = Signed(x + y)
<1> DEFINE m == 2 * AverageLimit
           a == x + AverageLimit
<1>1. m \in Nat \ {0} /\ AverageLimit \in Nat \ {0} /\ a \in Int
  BY DEF PullAssumption
<1>2. a % m \in Int
  BY <1>1
<1>3. Signed(x) + y + AverageLimit = (a % m) + y
  <2> DEFINE r == a % m
  <2>1. Signed(x) = r - AverageLimit
    BY DEF Signed
  <2> HIDE DEF r
  <2> QED BY <1>1, <1>2, <2>1 DEF r
<1>4. Signed(Signed(x) + y) = (((a % m) + y) % m) - AverageLimit
  BY <1>3 DEF Signed
<1>5. Signed(x + y) = ((a + y) % m) - AverageLimit
  <2>1. x + y + AverageLimit = a + y
    BY <1>1
  <2> QED BY <2>1 DEF Signed
<1> HIDE DEF m, a
<1>6. ((a % m) + y) % m = (a + y) % m
  BY <1>1, Wrapped
<1> QED BY <1>4, <1>5, <1>6

LEMMA SignedIsWhole == ASSUME PullAssumption, NEW x \in Int PROVE Signed(x) \in Int
<1> DEFINE m == 2 * AverageLimit
           a == x + AverageLimit
<1>1. m \in Nat \ {0} /\ AverageLimit \in Nat /\ a \in Int
  BY DEF PullAssumption
<1>2. Signed(x) = (a % m) - AverageLimit
  BY DEF Signed
<1> HIDE DEF m, a
<1> QED BY <1>1, <1>2

LEMMA SignedFits ==
  ASSUME PullAssumption, NEW x \in 0..AverageLimit - 1
  PROVE  Signed(x) = x
<1> DEFINE m == 2 * AverageLimit
           a == x + AverageLimit
<1>1. AverageLimit \in Nat \ {0} /\ x \in Int /\ 0 <= x /\ x < AverageLimit
  BY DEF PullAssumption
<1>2. m \in Nat \ {0} /\ a \in 0..m - 1
  BY <1>1
<1>3. Signed(x) = (a % m) - AverageLimit
  BY DEF Signed
<1>4. a % m = a
  <2> HIDE DEF m, a
  <2> QED BY <1>2
<1>5. a - AverageLimit = x
  BY <1>1
<1> QED BY <1>3, <1>4, <1>5

(* The mean of a sum that fits is right                                     *)
LEMMA QuotientFits ==
  ASSUME PullAssumption, NEW x \in 0..AverageLimit - 1, NEW n \in Nat \ {0}
  PROVE  Quotient(Signed(x), n) = x \div n
<1>1. /\ AverageLimit \in Nat \ {0} /\ x \in Nat /\ x < AverageLimit
      /\ SizeLimit \in Nat /\ SizeLimit >= 2 * AverageLimit
  BY DEF PullAssumption
<1>2. SizeLimit \in Nat \ {0} /\ x < SizeLimit
  BY <1>1
<1>3. Signed(x) = x
  BY SignedFits
<1>4. x % SizeLimit = x
  BY <1>1, <1>2
<1> DEFINE q == x \div n
<1>5. q \in Int /\ 0 <= q /\ q <= x
  <2>1. q \in Int /\ x = n * q + (x % n) /\ x % n \in 0..n - 1
    BY <1>1
  <2>2. 0 <= q
    BY <1>1
  <2> DEFINE r == x % n
  <2>3. x = n * q + r /\ r >= 0 /\ r \in Int /\ n >= 1
    BY <2>1
  <2> HIDE DEF q, r
  <2>4. n * q >= q
    <3>1. (n - 1) * q >= 0
      BY <2>1, <2>2
    <3>2. n * q = (n - 1) * q + q
      BY <2>1
    <3>3. (n - 1) * q \in Int
      BY <2>1
    <3> QED BY <2>1, <3>1, <3>2, <3>3
  <2>5. n * q \in Int
    BY <2>1
  <2> QED BY <1>1, <2>1, <2>2, <2>3, <2>4, <2>5
<1>6. Quotient(Signed(x), n) = Signed(q)
  BY <1>3, <1>4 DEF Quotient
<1> HIDE DEF q
<1>7. q \in 0..AverageLimit - 1
  BY <1>1, <1>5
<1>8. Signed(q) = q
  BY <1>7, SignedFits
<1> QED BY <1>6, <1>8 DEF q

(* The values the ring holds are the last ones added: the one added j       *)
(* values ago is j + 1 places behind the tail.                              *)
Behind(tail, j) == IF j < tail THEN tail - 1 - j ELSE tail - 1 - j + AverageLength
Places == 0..AverageLength - 1
Averages == [fifo : [Places -> Int], head : Places, tail : Places, size : 0..AverageLength,
             sum : Int, mean : Int]
Kept(values) == IF Len(values) < AverageLength THEN Len(values) ELSE AverageLength

AverageInv ==
  /\ added \in Seq(Int) /\ average \in Averages
  /\ average.size = Kept(added)
  /\ average.head = IF average.size < AverageLength THEN 0 ELSE average.tail
  /\ average.size < AverageLength => average.tail = average.size
  /\ \A j \in 0..average.size - 1 : average.fifo[Behind(average.tail, j)] = added[Len(added) - j]
  /\ average.sum = Signed(Totals(added)[Len(added)] - Totals(added)[Len(added) - average.size])
  /\ average.size > 0 => average.mean = Quotient(average.sum, average.size)

LEMMA AfterTail ==
  ASSUME PullAssumption, NEW t \in Places
  PROVE  (t + 1) % AverageLength = IF t + 1 = AverageLength THEN 0 ELSE t + 1
<1>1. AverageLength \in Nat \ {0} /\ t \in Nat /\ t < AverageLength
  BY DEF PullAssumption, Places
<1>2. CASE t + 1 = AverageLength
  BY <1>1, <1>2
<1>3. CASE t + 1 < AverageLength
  BY <1>1, <1>3
<1> QED BY <1>1, <1>2, <1>3

LEMMA FreedFields ==
  ASSUME PullAssumption, NEW a \in Averages, NEW b, b = Freed(a)
  PROVE  /\ b \in Averages /\ b.fifo = a.fifo /\ b.tail = a.tail
         /\ a.size = AverageLength =>
              /\ b.size = a.size /\ b.head = (a.head + 1) % AverageLength
              /\ b.sum = Signed(a.sum - a.fifo[a.head])
         /\ a.size # AverageLength => b.size = a.size + 1 /\ b.head = a.head /\ b.sum = a.sum
<1>0. AverageLength \in Nat \ {0}
  BY DEF PullAssumption
<1>1. CASE a.size = AverageLength
  <2> DEFINE s == Signed(a.sum - a.fifo[a.head])
             h == (a.head + 1) % AverageLength
  <2>1. s \in Int
    <3>1. a.sum - a.fifo[a.head] \in Int
      BY DEF Averages
    <3> QED BY <3>1, SignedIsWhole
  <2>2. h \in Places
    <3>1. a.head \in Places
      BY DEF Averages
    <3> HIDE DEF h
    <3>2. h = IF a.head + 1 = AverageLength THEN 0 ELSE a.head + 1
      BY <3>1, AfterTail DEF h
    <3> QED BY <1>0, <3>1, <3>2 DEF Places
  <2>3. b = [a EXCEPT !.sum = s, !.head = h]
    BY <1>1 DEF Freed, Averages
  <2> HIDE DEF s, h
  <2>4. b \in Averages /\ b.fifo = a.fifo /\ b.tail = a.tail /\ b.size = a.size /\ b.head = h /\ b.sum = s
    BY <2>1, <2>2, <2>3 DEF Averages
  <2> QED BY <1>1, <2>4 DEF s, h
<1>2. CASE a.size # AverageLength
  <2>1. b = [a EXCEPT !.size = a.size + 1]
    BY <1>2 DEF Freed, Averages
  <2>2. a.size + 1 \in 0..AverageLength
    BY <1>0, <1>2 DEF Averages
  <2> QED BY <1>2, <2>1, <2>2 DEF Averages
<1> QED BY <1>1, <1>2

LEMMA QuotientIsWhole ==
  ASSUME PullAssumption, NEW x \in Int, NEW n \in Nat \ {0}
  PROVE  Quotient(x, n) \in Int
<1>1. SizeLimit \in Nat \ {0}
  BY DEF PullAssumption
<1> DEFINE y == (x % SizeLimit) \div n
<1>2. x % SizeLimit \in Int
  BY <1>1
<1>3. y \in Int
  <2> DEFINE r == x % SizeLimit
  <2> HIDE DEF r
  <2> QED BY <1>2 DEF r
<1> HIDE DEF y
<1> QED BY <1>3, SignedIsWhole DEF Quotient, y

LEMMA StoredFields ==
  ASSUME PullAssumption, NEW a \in Averages, a.size > 0, NEW v \in Int, NEW b, b = Stored(a, v)
  PROVE  /\ b \in Averages /\ b.size = a.size /\ b.head = a.head
         /\ b.fifo = [a.fifo EXCEPT ![a.tail] = v] /\ b.tail = (a.tail + 1) % AverageLength
         /\ b.sum = Signed(a.sum + v) /\ b.mean = Quotient(b.sum, b.size)
<1>0. AverageLength \in Nat \ {0}
  BY DEF PullAssumption
<1> DEFINE s == Signed(a.sum + v)
           t == (a.tail + 1) % AverageLength
           q == Quotient(s, a.size)
           f == [a.fifo EXCEPT ![a.tail] = v]
<1>1. s \in Int
  <2>1. a.sum + v \in Int
    BY DEF Averages
  <2> QED BY <2>1, SignedIsWhole
<1>2. t \in Places
  <2>1. a.tail \in Places
    BY DEF Averages
  <2> HIDE DEF t
  <2>2. t = IF a.tail + 1 = AverageLength THEN 0 ELSE a.tail + 1
    BY <2>1, AfterTail DEF t
  <2> QED BY <1>0, <2>1, <2>2 DEF Places
<1>3. q \in Int
  <2>1. a.size \in Nat \ {0}
    BY <1>0 DEF Averages
  <2> HIDE DEF s
  <2> QED BY <1>1, <2>1, QuotientIsWhole
<1>4. f \in [Places -> Int]
  BY DEF Averages
<1>5. b = [a EXCEPT !.fifo = f, !.tail = t, !.sum = s, !.mean = q]
  BY DEF Stored, Averages
<1> HIDE DEF s, t, q, f
<1>6. /\ b \in Averages /\ b.size = a.size /\ b.head = a.head
      /\ b.fifo = f /\ b.tail = t /\ b.sum = s /\ b.mean = q
  BY <1>1, <1>2, <1>3, <1>4, <1>5 DEF Averages
<1> QED BY <1>6 DEF s, t, q, f

LEMMA Around ==
  ASSUME PullAssumption, NEW t \in Places, NEW u, u = (t + 1) % AverageLength
  PROVE  /\ u \in Places /\ Behind(u, 0) = t /\ Behind(t, AverageLength - 1) = t
         /\ \A j \in 1..AverageLength - 1 :
              /\ Behind(u, j) = Behind(t, j - 1)
              /\ Behind(t, j - 1) \in Places /\ Behind(t, j - 1) # t
<1>1. AverageLength \in Nat \ {0} /\ t \in Int /\ 0 <= t /\ t < AverageLength
  BY DEF PullAssumption, Places
<1>2. u = IF t + 1 = AverageLength THEN 0 ELSE t + 1
  BY AfterTail
<1>3. u \in Places /\ Behind(u, 0) = t /\ Behind(t, AverageLength - 1) = t
  BY <1>1, <1>2 DEF Places, Behind
<1>4. ASSUME NEW j \in 1..AverageLength - 1
      PROVE  /\ Behind(u, j) = Behind(t, j - 1)
             /\ Behind(t, j - 1) \in Places /\ Behind(t, j - 1) # t
  BY <1>1, <1>2 DEF Places, Behind
<1> QED BY <1>3, <1>4

LEMMA AddKeepsAverage == ASSUME PullAssumption, AverageInv, AddSample PROVE AverageInv'
<1>1. PICK v \in Samples : average' = Stored(Freed(average), v) /\ added' = Append(added, v)
  BY DEF AddSample
<1> DEFINE N == AverageLength
           a == average
           b == Freed(a)
           c == average'
           n == Len(added)
           g == Totals(added)
           h == Totals(added')
<1>2. N \in Nat \ {0} /\ v \in Int
  BY DEF PullAssumption
<1>3. /\ added \in Seq(Int) /\ a \in Averages /\ a.size = Kept(added)
      /\ a.head = IF a.size < N THEN 0 ELSE a.tail
      /\ a.size < N => a.tail = a.size
      /\ \A j \in 0..a.size - 1 : a.fifo[Behind(a.tail, j)] = added[n - j]
      /\ a.sum = Signed(g[n] - g[n - a.size])
  BY DEF AverageInv
<1>4. /\ added' \in Seq(Int) /\ n \in Nat /\ Len(added') = n + 1
      /\ \A k \in 1..n : added'[k] = added[k] /\ added[k] \in Int
      /\ added'[n + 1] = v
  BY <1>1, <1>2, <1>3, AppendProperties, LenProperties
<1>5. /\ \A k \in 0..n : g[k] \in Int /\ h[k] = g[k]
      /\ h[n + 1] = g[n] + v
  <2>1. \A k \in 0..Len(added) : Totals(added)[k] \in Int
    BY <1>3, TotalsAreWhole
  <2>2. /\ \A k \in 0..Len(added) : Totals(Append(added, v))[k] = Totals(added)[k]
        /\ Totals(Append(added, v))[Len(added) + 1] = Totals(added)[Len(added)] + v
    BY <1>2, <1>3, TotalsAppended
  <2> QED BY <1>1, <2>1, <2>2
<1>6. ASSUME NEW k \in 1..n PROVE g[k] = g[k - 1] + added[k]
  <2> DEFINE p == k - 1
  <2>1. Totalling(g, added)
    BY <1>3, TotalsAdd
  <2>2. k \in 0..Len(added) /\ k # 0 /\ p = k - 1
    BY <1>4
  <2> HIDE DEF g, p
  <2>3. g[k] = g[p] + added[k]
    BY <2>1, <2>2, TotallingStep
  <2> QED BY <2>3 DEF p
<1>7. /\ b \in Averages /\ b.fifo = a.fifo /\ b.tail = a.tail
      /\ a.size = N =>
           b.size = a.size /\ b.head = (a.head + 1) % N /\ b.sum = Signed(a.sum - a.fifo[a.head])
      /\ a.size # N => b.size = a.size + 1 /\ b.head = a.head /\ b.sum = a.sum
  BY <1>3, FreedFields
<1>8. a.tail \in Places /\ a.head \in Places /\ a.size \in 0..N /\ a.sum \in Int /\ a.fifo \in [Places -> Int]
  BY <1>3 DEF Averages
<1>9. b.size > 0
  BY <1>2, <1>7, <1>8
<1>10. /\ c \in Averages /\ c.size = b.size /\ c.head = b.head
       /\ c.fifo = [b.fifo EXCEPT ![b.tail] = v] /\ c.tail = (b.tail + 1) % N
       /\ c.sum = Signed(b.sum + v) /\ c.mean = Quotient(c.sum, c.size)
  <2> HIDE DEF b
  <2> QED BY <1>1, <1>2, <1>7, <1>9, StoredFields DEF b
<1> HIDE DEF b, g, h
<1> DEFINE t == a.tail
           u == c.tail
           s == a.size
<1>11. /\ u = (t + 1) % N /\ t \in Places /\ s \in 0..N
       /\ c.fifo = [a.fifo EXCEPT ![t] = v] /\ c.size = IF s = N THEN N ELSE s + 1
       /\ s = IF n < N THEN n ELSE N
  BY <1>3, <1>7, <1>8, <1>10 DEF Kept
<1>12. /\ u \in Places /\ Behind(u, 0) = t /\ Behind(t, N - 1) = t
       /\ \A j \in 1..N - 1 :
            Behind(u, j) = Behind(t, j - 1) /\ Behind(t, j - 1) \in Places /\ Behind(t, j - 1) # t
  <2> HIDE DEF t, u
  <2> QED BY <1>11, Around
<1>13. c.size = Kept(added')
  BY <1>2, <1>4, <1>11 DEF Kept
<1>14. c.head = IF c.size < N THEN 0 ELSE u
  <2>1. CASE s = N
    BY <1>2, <1>3, <1>7, <1>10, <1>11, <2>1
  <2>2. CASE s < N
    <3>1. t = s /\ c.head = 0
      BY <1>2, <1>3, <1>7, <1>10, <2>2
    <3>2. u = IF t + 1 = N THEN 0 ELSE t + 1
      BY <1>11, AfterTail
    <3> QED BY <1>2, <1>11, <2>2, <3>1, <3>2
  <2> QED BY <1>2, <1>11, <2>1, <2>2
<1>15. c.size < N => u = c.size
  <2> SUFFICES ASSUME c.size < N PROVE u = c.size
    OBVIOUS
  <2>1. s < N /\ c.size = s + 1 /\ t = s
    BY <1>2, <1>3, <1>11
  <2>2. u = IF t + 1 = N THEN 0 ELSE t + 1
    BY <1>11, AfterTail
  <2> QED BY <1>2, <2>1, <2>2
<1>16. ASSUME NEW j \in 0..c.size - 1 PROVE c.fifo[Behind(u, j)] = added'[n + 1 - j]
  <2>1. CASE j = 0
    <3>1. n + 1 - j = n + 1 /\ c.fifo[t] = v
      BY <1>4, <1>8, <1>11, <2>1
    <3> QED BY <1>4, <1>12, <2>1, <3>1
  <2>2. CASE j # 0
    <3>1. j \in 1..N - 1 /\ j - 1 \in 0..s - 1 /\ n + 1 - j \in 1..n /\ n - (j - 1) = n + 1 - j
      BY <1>2, <1>4, <1>11, <2>2
    <3> DEFINE i == Behind(t, j - 1)
               k == n + 1 - j
    <3>2. Behind(u, j) = i /\ i \in Places /\ i # t
      BY <1>12, <3>1
    <3>3. a.fifo[i] = added[n - (j - 1)]
      BY <1>3, <3>1
    <3>4. a.fifo[i] = added[k] /\ k \in 1..n
      BY <3>1, <3>3
    <3> HIDE DEF i, k
    <3>5. c.fifo[i] = a.fifo[i]
      BY <1>8, <1>11, <3>2
    <3> QED BY <1>4, <3>2, <3>4, <3>5 DEF k
  <2> QED BY <2>1, <2>2
<1> DEFINE o == Len(added') - c.size
<1>17. o = IF s = N THEN n + 1 - N ELSE 0
  BY <1>2, <1>4, <1>11
<1> HIDE DEF o
<1>18. c.sum = Signed(h[n + 1] - h[o])
  <2>1. CASE s = N
    <3> DEFINE k == n - N + 1
               l == n - N
               old == added[k]
    <3>1. /\ k \in 1..n /\ k - 1 = l /\ l \in 0..n /\ n \in 0..n /\ N - 1 \in 0..s - 1 /\ k \in 0..n
          /\ n - (N - 1) = k /\ n - s = l /\ n \in Int /\ o = k
      <4>1. N \in Nat \ {0} /\ n \in Nat /\ N <= n /\ s = N
        BY <1>2, <1>4, <1>11, <2>1
      <4>2. o = n + 1 - N
        BY <1>17, <2>1
      <4> QED BY <4>1, <4>2
    <3> HIDE DEF k, l
    <3>2. a.fifo[t] = old
      <4>1. a.fifo[Behind(t, N - 1)] = added[n - (N - 1)]
        BY <1>3, <3>1
      <4> QED BY <1>12, <3>1, <4>1
    <3> DEFINE x == g[n] - g[l]
    <3>4. x \in Int /\ old \in Int /\ g[k] = g[l] + old /\ g[k] \in Int /\ g[n] \in Int /\ g[l] \in Int
      <4>1. g[k] \in Int /\ g[n] \in Int /\ g[l] \in Int
        BY <1>5, <3>1
      <4>2. old \in Int
        BY <1>4, <3>1
      <4>3. g[k] = g[l] + old
        BY <1>6, <3>1
      <4> QED BY <4>1, <4>2, <4>3
    <3>3. b.sum = Signed(Signed(x) + (0 - old))
      <4>1. b.sum = Signed(a.sum - old) /\ a.sum = Signed(x)
        <5>1. a.head = t
          BY <1>2, <1>3, <2>1
        <5>2. b.sum = Signed(a.sum - a.fifo[t])
          BY <1>7, <2>1, <5>1
        <5>3. a.sum = Signed(g[n] - g[n - s])
          BY <1>3
        <5> QED BY <3>1, <3>2, <5>2, <5>3
      <4> HIDE DEF old, x
      <4>2. a.sum - old = a.sum + (0 - old)
        BY <1>8, <3>4
      <4>3. a.sum - old = Signed(x) + (0 - old)
        BY <4>1, <4>2
      <4> QED BY <4>1, <4>3
    <3>5. h[k] = g[k] /\ h[n + 1] = g[n] + v
      BY <1>5, <3>1
    <3>7. h[n + 1] - h[o] = x + (0 - old) + v
      <4>2. h[o] = g[l] + old
        BY <3>1, <3>4, <3>5
      <4> DEFINE new == h[n + 1]
                 was == h[o]
                 all == g[n]
                 older == g[l]
      <4>4. /\ new = all + v /\ was = older + old
            /\ all \in Int /\ older \in Int /\ old \in Int /\ v \in Int
        BY <1>2, <3>4, <3>5, <4>2
      <4> HIDE DEF new, was, all, older, old
      <4>5. new - was = all - older + (0 - old) + v
        BY <4>4
      <4> QED BY <4>5 DEF new, was, all, older
    <3> HIDE DEF x, old, k
    <3> DEFINE y == x + (0 - old)
    <3>8. b.sum = Signed(y)
      BY <3>3, <3>4, SignedSum
    <3>9. y \in Int
      BY <3>4
    <3> HIDE DEF y
    <3>10. c.sum = Signed(y + v)
      BY <1>2, <1>10, <3>8, <3>9, SignedSum
    <3> QED BY <3>7, <3>10 DEF y
  <2>2. CASE s # N
    <3>1. /\ s = n /\ c.size = n + 1 /\ n - s = 0 /\ o = 0
          /\ 0 \in 0..n /\ n \in 0..n
      BY <1>2, <1>4, <1>11, <1>17, <2>2
    <3> DEFINE x == g[n] - g[0]
    <3>2. x \in Int /\ h[0] = g[0] /\ g[0] \in Int /\ g[n] \in Int
      BY <1>5, <3>1
    <3>3. h[n + 1] - h[0] = x + v
      BY <1>2, <1>5, <3>2
    <3>4. b.sum = Signed(x)
      BY <1>3, <1>7, <2>2, <3>1
    <3> HIDE DEF x
    <3>5. c.sum = Signed(x + v)
      BY <1>2, <1>10, <3>2, <3>4, SignedSum
    <3> QED BY <3>1, <3>3, <3>5
  <2> QED BY <2>1, <2>2
<1>19. c.sum = Signed(Totals(added')[Len(added')] - Totals(added')[Len(added') - c.size])
  BY <1>4, <1>18 DEF h, o
<1>20. \A j \in 0..c.size - 1 : c.fifo[Behind(u, j)] = added'[Len(added') - j]
  BY <1>4, <1>16
<1>21. c.size > 0 => c.mean = Quotient(c.sum, c.size)
  BY <1>10
<1> QED BY <1>4, <1>10, <1>13, <1>14, <1>15, <1>19, <1>20, <1>21 DEF AverageInv

LEMMA NothingAdded ==
  ASSUME PullAssumption
  PROVE  /\ <<>> \in Seq(Int) /\ Len(<<>>) = 0 /\ Kept(<<>>) = 0
         /\ Totals(<<>>)[0] - Totals(<<>>)[0] = 0 /\ Signed(0) = 0
<1> DEFINE s == <<>>
           g == Totals(s)
<1>1. s \in Seq(Int) /\ Len(s) = 0
  BY EmptySeq
<1> HIDE DEF s
<1>2. Totalling(g, s)
  BY <1>1, TotalsAdd
<1>3. 0 \in 0..Len(s)
  BY <1>1
<1> HIDE DEF g
<1>4. g[0] = 0
  BY <1>2, <1>3, TotallingStep
<1>5. Kept(s) = 0
  BY <1>1 DEF Kept, PullAssumption
<1>6. 0 \in 0..AverageLimit - 1
  BY DEF PullAssumption
<1>7. Signed(0) = 0
  BY <1>6, SignedFits
<1> QED BY <1>1, <1>4, <1>5, <1>7 DEF s, g

LEMMA AverageStarts ==
  ASSUME PullAssumption, NEW a \in Averages, a.head = 0, a.tail = 0, a.size = 0, a.sum = 0
  PROVE  /\ a.size = Kept(<<>>)
         /\ a.head = IF a.size < AverageLength THEN 0 ELSE a.tail
         /\ a.size < AverageLength => a.tail = a.size
         /\ \A j \in 0..a.size - 1 : a.fifo[Behind(a.tail, j)] = <<>>[Len(<<>>) - j]
         /\ a.sum = Signed(Totals(<<>>)[Len(<<>>)] - Totals(<<>>)[Len(<<>>) - a.size])
         /\ a.size > 0 => a.mean = Quotient(a.sum, a.size)
<1> DEFINE s == <<>>
<1>1. Len(s) = 0 /\ Kept(s) = 0 /\ Totals(s)[0] - Totals(s)[0] = 0 /\ Signed(0) = 0
  BY NothingAdded
<1> HIDE DEF s
<1>2. 0..a.size - 1 = {}
  OBVIOUS
<1>3. Len(s) - a.size = 0
  BY <1>1
<1>4. a.sum = Signed(Totals(s)[Len(s)] - Totals(s)[Len(s) - a.size])
  BY <1>1, <1>3
<1> QED BY <1>1, <1>2, <1>4 DEF s

LEMMA AverageInvInit == ASSUME PullAssumption, AverageInit PROVE AverageInv
<1>1. added = <<>> /\ average.head = 0 /\ average.tail = 0 /\ average.size = 0 /\ average.sum = 0
  BY DEF AverageInit
<1>2. average \in Averages
  <2>1. AverageLength \in Nat \ {0}
    BY DEF PullAssumption
  <2>2. 0 \in Places /\ 0 \in 0..AverageLength /\ [k \in 0..AverageLength - 1 |-> 0] \in [Places -> Int]
    BY <2>1 DEF Places
  <2> QED BY <2>2 DEF AverageInit, Averages
<1>3. <<>> \in Seq(Int)
  BY NothingAdded
<1> QED BY <1>1, <1>2, <1>3, AverageStarts DEF AverageInv

LEMMA ClearedFields ==
  ASSUME PullAssumption, NEW a \in Averages, NEW b,
         b = [a EXCEPT !.head = 0, !.tail = 0, !.size = 0, !.sum = 0, !.mean = 0]
  PROVE  b \in Averages /\ b.head = 0 /\ b.tail = 0 /\ b.size = 0 /\ b.sum = 0
<1>1. 0 \in Places /\ 0 \in 0..AverageLength
  BY DEF PullAssumption, Places
<1>2. b = [fifo |-> a.fifo, head |-> 0, tail |-> 0, size |-> 0, sum |-> 0, mean |-> 0]
  BY DEF Averages
<1>3. a.fifo \in [Places -> Int]
  BY DEF Averages
<1> QED BY <1>1, <1>2, <1>3 DEF Averages

LEMMA ClearKeepsAverage == ASSUME PullAssumption, AverageInv, ClearAverage PROVE AverageInv'
<1>1. /\ added' = <<>> /\ average \in Averages
      /\ average' = [average EXCEPT !.head = 0, !.tail = 0, !.size = 0, !.sum = 0, !.mean = 0]
  BY DEF ClearAverage, AverageInv
<1>2. <<>> \in Seq(Int)
  BY NothingAdded
<1> DEFINE a == average'
<1>3. a \in Averages /\ a.head = 0 /\ a.tail = 0 /\ a.size = 0 /\ a.sum = 0
  BY <1>1, ClearedFields
<1> HIDE DEF a
<1>4. /\ a.size = Kept(<<>>)
      /\ a.head = IF a.size < AverageLength THEN 0 ELSE a.tail
      /\ a.size < AverageLength => a.tail = a.size
      /\ \A j \in 0..a.size - 1 : a.fifo[Behind(a.tail, j)] = <<>>[Len(<<>>) - j]
      /\ a.sum = Signed(Totals(<<>>)[Len(<<>>)] - Totals(<<>>)[Len(<<>>) - a.size])
      /\ a.size > 0 => a.mean = Quotient(a.sum, a.size)
  BY <1>3, AverageStarts
<1> QED BY <1>1, <1>2, <1>3, <1>4 DEF AverageInv, a

LEMMA AverageInvStep == PullAssumption /\ AverageInv /\ [AverageNext]_averageVars => AverageInv'
<1> SUFFICES ASSUME PullAssumption, AverageInv, [AverageNext]_averageVars PROVE AverageInv'
  OBVIOUS
<1>1. CASE UNCHANGED averageVars
  <2>1. average' = average /\ added' = added
    BY <1>1 DEF averageVars
  <2> QED BY <2>1 DEF AverageInv
<1> QED BY <1>1, AddKeepsAverage, ClearKeepsAverage DEF AverageNext

LEMMA MeanIsRight == ASSUME PullAssumption, AverageInv PROVE AverageIsMean
<1> DEFINE n == Kept(added)
           x == Totals(added)[Len(added)] - Totals(added)[Len(added) - n]
<1>1. /\ average.size = n /\ average.sum = Signed(x)
      /\ n > 0 => average.mean = Quotient(Signed(x), n)
  BY DEF AverageInv
<1>2. n \in Nat
  BY LenProperties DEF AverageInv, Kept, PullAssumption
<1> HIDE DEF n, x
<1>3. ASSUME n > 0, x \in 0..AverageLimit - 1 PROVE average.mean = x \div n
  <2>1. n \in Nat \ {0}
    BY <1>2, <1>3
  <2>2. Quotient(Signed(x), n) = x \div n
    BY <1>3, <2>1, QuotientFits
  <2> QED BY <1>1, <1>3, <2>2
<1> QED BY <1>1, <1>3 DEF AverageIsMean, n, x, Kept

-----------------------------------------------------------------------------
(* The pull queue                                                           *)
PullInv ==
  /\ queue \in Seq(Nat) /\ popped \in Seq(Nat) /\ pulls \in Nat
  /\ Len(popped) + Len(queue) = pulls
  /\ \A k \in 1..Len(popped) : popped[k] = k
  /\ \A k \in 1..Len(queue) : queue[k] = Len(popped) + k

LEMMA PullTakes ==
  ASSUME PullInv, queue # <<>>, popped' = Append(popped, Head(queue)), queue' = Tail(queue), pulls' = pulls
  PROVE  PullInv'
<1>1. /\ queue \in Seq(Nat) /\ popped \in Seq(Nat) /\ pulls \in Nat
      /\ Len(popped) + Len(queue) = pulls
      /\ \A k \in 1..Len(popped) : popped[k] = k
      /\ \A k \in 1..Len(queue) : queue[k] = Len(popped) + k
  BY DEF PullInv
<1> DEFINE l == Len(popped)
           m == Len(queue)
<1>2. /\ l \in Nat /\ m \in Nat \ {0}
      /\ queue' \in Seq(Nat) /\ Len(queue') = m - 1 /\ \A k \in 1..m - 1 : queue'[k] = queue[k + 1]
      /\ Head(queue) = queue[1] /\ Head(queue) \in Nat
  BY <1>1, HeadTailProperties, LenProperties, EmptySeq
<1>3. /\ popped' \in Seq(Nat) /\ Len(popped') = l + 1 /\ popped'[l + 1] = Head(queue)
      /\ \A k \in 1..l : popped'[k] = popped[k]
  BY <1>1, <1>2, AppendProperties, LenProperties
<1> HIDE DEF l, m
<1>4. Head(queue) = l + 1
  <2>1. 1 \in 1..m
    BY <1>2
  <2> QED BY <1>1, <1>2, <2>1 DEF l, m
<1>5. \A k \in 1..l : popped[k] = k
  BY <1>1 DEF l
<1>6. ASSUME NEW k \in 1..l + 1 PROVE popped'[k] = k
  <2>1. k = l + 1 \/ k \in 1..l
    BY <1>2
  <2> QED BY <1>3, <1>4, <1>5, <2>1
<1>7. ASSUME NEW k \in 1..m - 1 PROVE queue'[k] = l + 1 + k
  <2> DEFINE i == k + 1
  <2>1. i \in 1..m /\ queue'[k] = queue[i] /\ l + i = l + 1 + k
    BY <1>2
  <2> HIDE DEF i
  <2>2. queue[i] = l + i
    BY <1>1, <2>1 DEF l, m
  <2> QED BY <2>1, <2>2
<1>8. l + 1 + (m - 1) = pulls
  <2>1. l + m = pulls
    BY <1>1 DEF l, m
  <2> QED BY <1>2, <2>1
<1> QED BY <1>1, <1>2, <1>3, <1>6, <1>7, <1>8 DEF PullInv

LEMMA PullInvStep == PullInv /\ [PullNext]_pullVars => PullInv'
<1> SUFFICES ASSUME PullInv, [PullNext]_pullVars PROVE PullInv'
  OBVIOUS
<1>1. CASE UNCHANGED <<queue, pulls, popped>>
  BY <1>1 DEF PullInv
<1>2. CASE queue # <<>> /\ popped' = Append(popped, Head(queue)) /\ queue' = Tail(queue) /\ pulls' = pulls
  BY <1>2, PullTakes
<1>3. CASE PullPush
  <2> DEFINE n == pulls + 1
  <2>1. pulls' = n /\ queue' = Append(queue, n) /\ popped' = popped
    BY <1>3 DEF PullPush
  <2>2. /\ queue \in Seq(Nat) /\ popped \in Seq(Nat) /\ pulls \in Nat /\ n \in Nat
        /\ Len(popped) + Len(queue) = pulls
        /\ \A k \in 1..Len(popped) : popped[k] = k
        /\ \A k \in 1..Len(queue) : queue[k] = Len(popped) + k
    BY DEF PullInv
  <2> DEFINE m == Len(queue)
  <2>3. /\ m \in Nat /\ Len(popped) \in Nat /\ queue' \in Seq(Nat) /\ Len(queue') = m + 1
        /\ queue'[m + 1] = n /\ \A k \in 1..m : queue'[k] = queue[k]
    BY <2>1, <2>2, AppendProperties, LenProperties
  <2> HIDE DEF m
  <2>4. ASSUME NEW k \in 1..m + 1 PROVE queue'[k] = Len(popped) + k
    <3>1. k = m + 1 \/ k \in 1..m
      BY <2>3
    <3>2. Len(popped) + (m + 1) = n
      <4>1. Len(popped) + m = pulls
        BY <2>2 DEF m
      <4> QED BY <2>2, <2>3, <4>1
    <3> QED BY <2>2, <2>3, <3>1, <3>2 DEF m
  <2>5. Len(popped) + (m + 1) = n
    <3>1. Len(popped) + m = pulls
      BY <2>2 DEF m
    <3> QED BY <2>2, <2>3, <3>1
  <2> HIDE DEF n
  <2> QED BY <2>1, <2>2, <2>3, <2>4, <2>5 DEF PullInv
<1>4. CASE SetLowCallback
  BY <1>1, <1>4 DEF SetLowCallback
<1>5. CASE Pull
  BY <1>1, <1>2, <1>5 DEF Pull
<1>6. CASE CallbackReturns
  <2>1. UNCHANGED pulls
    BY <1>6 DEF CallbackReturns
  <2>2. CASE Last(asking) # "pop"
    <3>1. UNCHANGED <<queue, popped>>
      BY <1>6, <2>2 DEF CallbackReturns
    <3> QED BY <1>1, <2>1, <3>1
  <2>3. CASE Last(asking) = "pop" /\ queue = <<>>
    <3>1. UNCHANGED <<queue, popped>>
      BY <1>6, <2>3 DEF CallbackReturns
    <3> QED BY <1>1, <2>1, <3>1
  <2>4. CASE Last(asking) = "pop" /\ queue # <<>>
    <3>1. popped' = Append(popped, Head(queue)) /\ queue' = Tail(queue)
      BY <1>6, <2>4 DEF CallbackReturns
    <3> QED BY <1>2, <2>1, <2>4, <3>1
  <2> QED BY <2>2, <2>3, <2>4
<1>7. CASE UNCHANGED pullVars
  BY <1>1, <1>7 DEF pullVars
<1> QED BY <1>3, <1>4, <1>5, <1>6, <1>7 DEF PullNext

LEMMA PullInvInit == PullInit => PullInv
<1> SUFFICES ASSUME PullInit PROVE PullInv
  OBVIOUS
<1>1. queue = <<>> /\ popped = <<>> /\ pulls = 0
  BY DEF PullInit
<1>2. <<>> \in Seq(Nat) /\ Len(<<>>) = 0
  BY EmptySeq
<1> QED BY <1>1, <1>2 DEF PullInv

(* However the callback pushes and pops, the pull queue returns what was    *)
(* pushed in that order; and the running average is the mean of the last N  *)
(* values whenever their sum fits the type and is not negative, whatever    *)
(* was added before: for every N, every width of the type and of size_t,    *)
(* and any number of values.                                                *)
THEOREM BuffersStayTrue == PullSpec /\ AverageSpec => []BuffersAreTrue
<1>1. AverageInit => AverageInv
  BY PullAssumption, AverageInvInit
<1>2. AverageInv /\ [AverageNext]_averageVars => AverageInv'
  BY PullAssumption, AverageInvStep
<1>3. PullInv /\ AverageInv => BuffersAreTrue
  BY PullAssumption, NumberedOn, MeanIsRight DEF PullInv, BuffersAreTrue, PulledInOrder
<1> QED BY <1>1, <1>2, <1>3, PullInvInit, PullInvStep, PTL DEF PullSpec, AverageSpec
===============================================================================
