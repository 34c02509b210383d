----------------------------- MODULE AsyncDeque -----------------------------
(***************************************************************************)
(* zc_async_deque (include/zc_async_deque.h): a queue between threads that *)
(* can also be looked at. Every member holds the mutex from its beginning  *)
(* to its end, so that each is one step, but for the wait on the condition *)
(* and for a thread that locks the deque by hand, which must not call any  *)
(* other member: the mutex is not recursive. Who looks at the front and    *)
(* then takes it off must be the only one who takes ("Caller must ensure   *)
(* the queue is not empty"). The values are numbered as they are pushed.   *)
(***************************************************************************)
EXTENDS Naturals, Sequences, FiniteSets

CONSTANTS Waiters,      (* threads that wait_and_pop_front or try_pop_front  *)
          Readers,      (* one that calls front and pop_front                *)
          Lockers,      (* threads that lock the deque by hand               *)
          MaxPushes     (* bound                                             *)

ASSUME DequeAssumption ==
  Cardinality(Readers) <= 1 /\ IsFiniteSet(Waiters) /\ MaxPushes \in Nat

VARIABLES reading,      (* rigid: a reader is there, or the waiters          *)
          deque,        (* queue_                                            *)
          locker,       (* who has locked the mutex by hand: a set           *)
          asleep,       (* threads in cond_.wait                             *)
          woken,        (* those that were notified and want the mutex back  *)
          seen,         (* the front as the reader saw it, <<>> before       *)
          taken, pushes (* the values in the order they were taken; a count  *)

dequeVars == <<reading, deque, locker, asleep, woken, seen, taken, pushes>>

DequeInit ==
  /\ reading \in BOOLEAN /\ deque = <<>> /\ locker = {} /\ asleep = {} /\ woken = {} /\ seen = <<>>
  /\ taken = <<>> /\ pushes = 0

Free == locker = {}

PushBack ==
  /\ Free /\ pushes < MaxPushes
  /\ pushes' = pushes + 1 /\ deque' = Append(deque, pushes + 1)
  /\ IF asleep = {} THEN UNCHANGED <<asleep, woken>>
     ELSE \E t \in asleep : asleep' = asleep \ {t} /\ woken' = woken \cup {t}
  /\ UNCHANGED <<locker, seen, taken>>

Take == taken' = Append(taken, deque[1]) /\ deque' = Tail(deque)

(* It returns false when the deque is empty                                 *)
TryPopFront(t) ==
  /\ Free /\ ~reading /\ t \in Waiters \ (asleep \cup woken) /\ deque # <<>>
  /\ Take /\ UNCHANGED <<locker, asleep, woken, seen, pushes>>

WaitAndPopFront(t) ==
  /\ Free /\ ~reading /\ t \in Waiters \ (asleep \cup woken)
  /\ \/ deque = <<>> /\ asleep' = asleep \cup {t} /\ UNCHANGED <<deque, taken>>
     \/ deque # <<>> /\ Take /\ UNCHANGED asleep
  /\ UNCHANGED <<locker, woken, seen, pushes>>

(* mutant: a thread that was notified does not look again                   *)
WakeWithoutLooking(t) ==
  /\ Free /\ t \in woken
  /\ deque' = (IF deque = <<>> THEN deque ELSE Tail(deque))
  /\ taken' = Append(taken, IF deque = <<>> THEN 0 ELSE deque[1])
  /\ woken' = woken \ {t}
  /\ UNCHANGED <<locker, asleep, seen, pushes>>

(* Another thread may have been quicker                                     *)
Wake(t) ==
  /\ Free /\ t \in woken /\ woken' = woken \ {t}
  /\ \/ deque = <<>> /\ asleep' = asleep \cup {t} /\ UNCHANGED <<deque, taken>>
     \/ deque # <<>> /\ Take /\ UNCHANGED asleep
  /\ UNCHANGED <<locker, seen, pushes>>

(* The condition may also let a thread go without a notification            *)
WakeForNothing(t) ==
  /\ t \in asleep /\ asleep' = asleep \ {t} /\ woken' = woken \cup {t}
  /\ UNCHANGED <<deque, locker, seen, taken, pushes>>

(* front and pop_front, after empty was false                               *)
LookAtFront(t) ==
  /\ Free /\ reading /\ t \in Readers /\ seen = <<>> /\ deque # <<>>
  /\ seen' = <<deque[1]>>
  /\ UNCHANGED <<deque, locker, asleep, woken, taken, pushes>>
PopFront(t) ==
  /\ Free /\ reading /\ t \in Readers /\ seen # <<>>
  /\ taken' = Append(taken, seen[1]) /\ deque' = Tail(deque) /\ seen' = <<>>
  /\ UNCHANGED <<locker, asleep, woken, pushes>>

(* lock, or try_lock when it succeeds                                       *)
Lock(t) ==
  /\ Free /\ t \in Lockers /\ locker' = {t}
  /\ UNCHANGED <<deque, asleep, woken, seen, taken, pushes>>
Unlock(t) ==
  /\ t \in locker /\ locker' = {}
  /\ UNCHANGED <<deque, asleep, woken, seen, taken, pushes>>

DequeStep ==
  \/ PushBack
  \/ \E t \in Waiters : TryPopFront(t) \/ WaitAndPopFront(t) \/ Wake(t) \/ WakeForNothing(t)
  \/ \E t \in Readers : LookAtFront(t) \/ PopFront(t)
  \/ \E t \in Lockers : Lock(t) \/ Unlock(t)
DequeNext == DequeStep /\ UNCHANGED reading
DequeSpec == DequeInit /\ [][DequeNext]_dequeVars
-----------------------------------------------------------------------------
(* Every value is taken once and in the order of the pushes, also by a      *)
(* reader who looks first, and there is always a thread on its way for      *)
(* every value while others sleep                                           *)
NoValueIsLost ==
  /\ taken \o deque = [k \in 1..pushes |-> k]
  /\ asleep # {} => Len(deque) <= Cardinality(woken)
=============================================================================
