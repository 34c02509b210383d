--------------------------- MODULE AsyncQueueProofs ---------------------------
(***************************************************************************)
(* Safety of AsyncQueue for any number of threads and pushes.              *)
(*                                                                         *)
(* None of the properties is inductive alone. SafeInv adds what the code   *)
(* relies on without saying so: which labels a thread of each role can be  *)
(* at, that a waiter holds the mutex exactly between its lock and its      *)
(* unlock or wait, and that a waiter about to sleep saw, under the mutex   *)
(* it still holds, an empty queue and a flag whose raiser, if any, has yet *)
(* to take the mutex and notify.                                           *)
(***************************************************************************)
EXTENDS AsyncQueue, FiniteSetTheorems, SequenceTheorems, TLAPS

Holding == {"wait_test", "wait_sleep", "wait_take"}

PcOK ==
  /\ \A p \in Producers : /\ pc[p] \in {"idle", "push_lock"}
                          /\ pc[p] = "push_lock" => sent[p] \in 1..MaxPushes
  /\ \A c \in Waiters : pc[c] \in Holding \union {"idle", "in_wait", "done"}
  /\ \A c \in Pollers : pc[c] \in {"idle", "try_lock", "done"}
  /\ \A c \in Peekers : pc[c] \in {"idle", "peek_front", "peek_pop"}
  /\ \A t \in Cleaners : pc[t] \in {"idle", "done"}
  /\ \A t \in Closers : pc[t] \in {"idle", "shutdown_lock", "done"}

LockInv == \A c \in Waiters : pc[c] \in Holding <=> mutex = c

Notifying == \E t \in Closers : pc[t] = "shutdown_lock"

SleepInv ==
  /\ \A c \in waitset : pc[c] = "in_wait"
  /\ \A c \in Waiters : pc[c] = "wait_sleep" => queue = <<>> /\ (shutdown => Notifying)
  /\ shutdown => Notifying \/ waitset = {}

(* A consumer that relies on its test of empty() is alone.                 *)
AloneInv == \A c \in Peekers : pc[c] \in {"peek_front", "peek_pop"} => Alone

SafeInv == TypeOK /\ PcOK /\ LockInv /\ SleepInv /\ PopNeverEmpty /\ AloneInv

-----------------------------------------------------------------------------
(* Facts about the sequences the actions build.                            *)
LEMMA AppendProperty ==
  ASSUME NEW S, NEW s \in Seq(S), NEW v \in S
  PROVE  Append(s, v) \in Seq(S) /\ Append(s, v) # <<>>
BY AppendProperties

LEMMA DequeueProperty ==
  ASSUME NEW S, NEW s \in Seq(S), s # <<>>
  PROVE  Head(s) \in S /\ Tail(s) \in Seq(S)
BY HeadTailProperties

(* A thread has one role.                                                  *)
LEMMA OneRole ==
  /\ \A t \in Producers : t \notin Waiters /\ t \notin Pollers /\ t \notin Peekers
                           /\ t \notin Cleaners /\ t \notin Closers
  /\ \A t \in Waiters : t \notin Pollers /\ t \notin Peekers /\ t \notin Cleaners
                         /\ t \notin Closers /\ t # NoThread
  /\ \A t \in Pollers : t \notin Peekers /\ t \notin Cleaners /\ t \notin Closers
  /\ \A t \in Peekers : t \notin Cleaners /\ t \notin Closers
  /\ \A t \in Cleaners : t \notin Closers
BY RolesAssumption DEF Threads, Consumers

(* What moving one thread does to the labels.                              *)
LEMMA GotoProperty ==
  ASSUME pc \in [Threads -> PcValues], NEW t \in Threads, NEW label \in PcValues, Goto(t, label)
  PROVE  /\ pc' \in [Threads -> PcValues]
         /\ pc'[t] = label
         /\ \A u \in Threads : u # t => pc'[u] = pc[u]
BY DEF Goto

(* The initial state satisfies the invariant.                              *)
LEMMA SafeInvInit == Init => SafeInv
<1> SUFFICES ASSUME Init PROVE SafeInv
  OBVIOUS
<1> USE RolesAssumption DEF Init, Threads, Consumers
<1>0. \A t \in Threads : pc[t] = "idle" \/ (pc[t] = "done" /\ t \in Takers)
  <2>1. PICK absent \in Absences : pc = [t \in Threads |-> IF t \in absent THEN "done" ELSE "idle"]
    OBVIOUS
  <2>2. absent \subseteq Takers
    BY <2>1
  <2> QED BY <2>1, <2>2
<1>1. TypeOK
  <2>1. <<>> \in Seq(Values)
    BY EmptySeq
  <2>2. MaxPushes \in Nat
    BY RolesAssumption
  <2>3. /\ pc \in [Threads -> PcValues]
        /\ sent \in [Producers -> 0..MaxPushes]
        /\ got \in [Consumers -> Seq(Values)]
    BY <2>1, <2>2 DEF PcValues
  <2> QED BY <2>1, <2>3 DEF TypeOK
<1>2. PcOK /\ SleepInv /\ PopNeverEmpty /\ AloneInv
  BY <1>0, OneRole DEF PcOK, Holding, SleepInv, PopNeverEmpty, AloneInv, Takers
<1>3. LockInv
  BY <1>0, OneRole DEF LockInv, Holding
<1> QED BY <1>1, <1>2, <1>3 DEF SafeInv

(* A consumer that has stopped, or was never there, stays away.            *)
LEMMA DoneStays ==
  ASSUME TypeOK, [Next]_vars, NEW d \in Takers, pc[d] = "done"
  PROVE  pc'[d] = "done"
<1>0. /\ d \in Threads /\ d \notin Producers /\ d \notin Peekers /\ d \notin Closers
      /\ pc \in [Threads -> PcValues]
  BY RolesAssumption DEF Takers, Threads, Consumers, TypeOK
<1>1. ASSUME NEW t \in Threads, NEW label \in PcValues, pc[t] # "done", Goto(t, label)
      PROVE  pc'[d] = "done"
  BY <1>0, <1>1 DEF Goto
<1> USE <1>0 DEF Threads, Consumers, PcValues
<1>2. ASSUME NEW t \in Producers, PushCheck(t) \/ PushLocked(t) PROVE pc'[d] = "done"
  BY <1>1, <1>2 DEF PushCheck, PushLocked
<1>3. ASSUME NEW t \in Waiters, WaitStep(t) \/ SpuriousWakeup(t) PROVE pc'[d] = "done"
  BY <1>1, <1>3 DEF WaitStep, WaitEnter, WaitTest, WaitSleep, WaitReacquire, WaitTake, SpuriousWakeup
<1>4. ASSUME NEW t \in Pollers, TryPopCheck(t) \/ TryPopLocked(t) PROVE pc'[d] = "done"
  BY <1>1, <1>4 DEF TryPopCheck, TryPopLocked
<1>5. ASSUME NEW t \in Peekers, PeekStep(t) PROVE pc'[d] = "done"
  BY <1>1, <1>5 DEF PeekStep, PeekEmpty, PeekFront, PeekPop
<1>6. ASSUME NEW t \in Cleaners, Clear(t) PROVE pc'[d] = "done"
  BY <1>1, <1>6 DEF Clear
<1>7. ASSUME NEW t \in Closers, ShutdownStore(t) \/ ShutdownNotify(t) PROVE pc'[d] = "done"
  BY <1>1, <1>7 DEF ShutdownStore, ShutdownNotify
<1>8. CASE UNCHANGED vars
  BY <1>8 DEF vars
<1> QED BY <1>2, <1>3, <1>4, <1>5, <1>6, <1>7, <1>8 DEF Next

(* A lone consumer is still alone when it comes back for its value.        *)
LEMMA AloneStep == ASSUME TypeOK, AloneInv, [Next]_vars PROVE AloneInv'
<1> SUFFICES ASSUME NEW c \in Peekers, pc'[c] \in {"peek_front", "peek_pop"} PROVE Alone'
  BY DEF AloneInv
<1>0. c \in Threads /\ pc \in [Threads -> PcValues]
  BY DEF Threads, Consumers, TypeOK
<1>1. Alone
  <2>1. CASE pc[c] \in {"peek_front", "peek_pop"}
    BY <2>1 DEF AloneInv
  <2>2. CASE pc[c] \notin {"peek_front", "peek_pop"}
    <3>1. pc'[c] # pc[c]
      BY <2>2
    <3>2. ASSUME NEW t \in Threads, NEW label, Goto(t, label) PROVE c = t /\ pc'[c] = label
      BY <1>0, <3>1, <3>2 DEF Goto
    <3> USE <1>0, <3>1, OneRole DEF Threads, Consumers
    <3>3. ASSUME NEW t \in Producers, PushCheck(t) \/ PushLocked(t) PROVE FALSE
      BY <3>2, <3>3 DEF PushCheck, PushLocked
    <3>4. ASSUME NEW t \in Waiters, WaitStep(t) \/ SpuriousWakeup(t) PROVE FALSE
      BY <3>2, <3>4 DEF WaitStep, WaitEnter, WaitTest, WaitSleep, WaitReacquire, WaitTake, SpuriousWakeup
    <3>5. ASSUME NEW t \in Pollers, TryPopCheck(t) \/ TryPopLocked(t) PROVE FALSE
      BY <3>2, <3>5 DEF TryPopCheck, TryPopLocked
    <3>6. ASSUME NEW t \in Peekers, PeekStep(t) PROVE Alone
      BY <2>2, <3>2, <3>6 DEF PeekStep, PeekEmpty, PeekFront, PeekPop
    <3>7. ASSUME NEW t \in Cleaners, Clear(t) PROVE FALSE
      BY <3>2, <3>7 DEF Clear
    <3>8. ASSUME NEW t \in Closers, ShutdownStore(t) \/ ShutdownNotify(t) PROVE FALSE
      BY <3>2, <3>8 DEF ShutdownStore, ShutdownNotify
    <3>9. CASE UNCHANGED vars
      BY <3>9 DEF vars
    <3> QED BY <3>3, <3>4, <3>5, <3>6, <3>7, <3>8, <3>9 DEF Next
  <2> QED BY <2>1, <2>2
<1> QED BY <1>1, DoneStays DEF Alone

(* Every step preserves it.                                                *)
LEMMA SafeInvStep == SafeInv /\ [Next]_vars => SafeInv'
<1> SUFFICES ASSUME SafeInv, [Next]_vars PROVE SafeInv'
  OBVIOUS
<1> USE OneRole DEF SafeInv, Holding, history
<1>0. /\ Producers \subseteq Threads /\ Waiters \subseteq Threads /\ Pollers \subseteq Threads
      /\ Peekers \subseteq Threads /\ Cleaners \subseteq Threads /\ Closers \subseteq Threads
      /\ Waiters \subseteq Consumers /\ Pollers \subseteq Consumers /\ Peekers \subseteq Consumers
  BY DEF Threads, Consumers
<1>n. MaxPushes \in Nat
  BY RolesAssumption
<1>p. pc \in [Threads -> PcValues]
  BY DEF TypeOK
<1>a. AloneInv'
  BY AloneStep
<1>1. ASSUME NEW p \in Producers, PushCheck(p) PROVE SafeInv'
  <2> USE <1>1 DEF PushCheck
  <2>1. /\ pc' \in [Threads -> PcValues] /\ pc'[p] \in {"idle", "push_lock"}
        /\ \A u \in Threads : u # p => pc'[u] = pc[u]
    BY <1>0, <1>p, GotoProperty DEF PcValues
  <2>s. /\ sent' \in [Producers -> 0..MaxPushes] /\ sent'[p] \in 1..MaxPushes
        /\ \A q \in Producers : q # p => sent'[q] = sent[q]
    BY <1>n DEF TypeOK
  <2>2. TypeOK' BY <2>1, <2>s DEF TypeOK
  <2>3. PcOK' BY <1>0, <2>1, <2>s DEF PcOK
  <2>4. LockInv' BY <1>0, <2>1 DEF LockInv
  <2>5. SleepInv' BY <1>0, <2>1 DEF SleepInv, Notifying, TypeOK
  <2>6. PopNeverEmpty' BY <1>0, <2>1 DEF PopNeverEmpty
  <2> QED BY <1>a, <2>2, <2>3, <2>4, <2>5, <2>6
<1>2. ASSUME NEW p \in Producers, PushLocked(p) PROVE SafeInv'
  <2> USE <1>2 DEF PushLocked, Enqueue
  <2>1. /\ pc' \in [Threads -> PcValues] /\ pc'[p] = "idle"
        /\ \A u \in Threads : u # p => pc'[u] = pc[u]
    BY <1>0, <1>p, GotoProperty DEF PcValues
  <2>a. <<p, sent[p]>> \in Values
    BY <1>n DEF PcOK, TypeOK, Values
  <2>b. queue' \in Seq(Values) /\ log' \in Seq(Values) /\ queue' # <<>>
    BY <2>a, AppendProperty DEF TypeOK
  <2>c. waitset' \subseteq waitset /\ waitset' \subseteq Waiters /\ (waitset = {} => waitset' = {})
    BY DEF NotifyOne, TypeOK
  <2>2. TypeOK' BY <1>0, <2>1, <2>b, <2>c DEF TypeOK
  <2>3. PcOK' BY <1>0, <2>1 DEF PcOK
  <2>4. LockInv' BY <1>0, <2>1 DEF LockInv, TypeOK
  <2>5. SleepInv' BY <1>0, <2>1, <2>4, <2>b, <2>c DEF SleepInv, Notifying, TypeOK, LockInv
  <2>6. PopNeverEmpty' BY <1>0, <2>1, <2>4, <2>b DEF PopNeverEmpty, LockInv
  <2> QED BY <1>a, <2>2, <2>3, <2>4, <2>5, <2>6
<1>3. ASSUME NEW c \in Waiters, WaitEnter(c) \/ WaitReacquire(c) PROVE SafeInv'
  <2> USE <1>3 DEF WaitEnter, WaitReacquire
  <2>1. /\ pc' \in [Threads -> PcValues] /\ pc'[c] = "wait_test"
        /\ \A u \in Threads : u # c => pc'[u] = pc[u]
    BY <1>0, <1>p, GotoProperty DEF PcValues
  <2>2. TypeOK' BY <1>0, <2>1 DEF TypeOK
  <2>3. PcOK' BY <1>0, <2>1 DEF PcOK
  <2>4. LockInv' BY <1>0, <2>1 DEF LockInv, TypeOK
  <2>5. SleepInv' BY <1>0, <2>1, <2>4 DEF SleepInv, Notifying, TypeOK, LockInv
  <2>6. PopNeverEmpty' BY <1>0, <2>1, <2>4 DEF PopNeverEmpty, LockInv
  <2> QED BY <1>a, <2>2, <2>3, <2>4, <2>5, <2>6
<1>4. ASSUME NEW c \in Waiters, WaitTest(c) PROVE SafeInv'
  <2> USE <1>4 DEF WaitTest
  <2> DEFINE label == IF queue = <<>> /\ ~shutdown THEN "wait_sleep" ELSE "wait_take"
  <2>1. /\ pc' \in [Threads -> PcValues] /\ pc'[c] = label
        /\ \A u \in Threads : u # c => pc'[u] = pc[u]
    BY <1>0, <1>p, GotoProperty DEF PcValues
  <2>2. TypeOK' BY <2>1 DEF TypeOK
  <2>3. PcOK' BY <1>0, <2>1 DEF PcOK
  <2>4. LockInv' BY <1>0, <2>1 DEF LockInv
  <2>5. SleepInv' BY <1>0, <2>1 DEF SleepInv, Notifying, TypeOK
  <2>6. PopNeverEmpty' BY <1>0, <2>1 DEF PopNeverEmpty
  <2> QED BY <1>a, <2>2, <2>3, <2>4, <2>5, <2>6
<1>5. ASSUME NEW c \in Waiters, WaitSleep(c) PROVE SafeInv'
  <2> USE <1>5 DEF WaitSleep
  <2>1. /\ pc' \in [Threads -> PcValues] /\ pc'[c] = "in_wait"
        /\ \A u \in Threads : u # c => pc'[u] = pc[u]
    BY <1>0, <1>p, GotoProperty DEF PcValues
  <2>2. TypeOK' BY <1>0, <2>1 DEF TypeOK
  <2>3. PcOK' BY <1>0, <2>1 DEF PcOK
  <2>4. LockInv' BY <1>0, <2>1 DEF LockInv, TypeOK
  <2>5. SleepInv' BY <1>0, <2>1, <2>4 DEF SleepInv, Notifying, TypeOK, LockInv
  <2>6. PopNeverEmpty' BY <1>0, <2>1, <2>4 DEF PopNeverEmpty, LockInv
  <2> QED BY <1>a, <2>2, <2>3, <2>4, <2>5, <2>6
<1>6. ASSUME NEW c \in Waiters, SpuriousWakeup(c) PROVE SafeInv'
  <2> USE <1>6 DEF SpuriousWakeup
  <2>1. TypeOK' BY DEF TypeOK
  <2>2. PcOK' /\ LockInv' /\ PopNeverEmpty' BY DEF PcOK, LockInv, PopNeverEmpty
  <2>3. SleepInv' BY DEF SleepInv, Notifying
  <2> QED BY <1>a, <2>1, <2>2, <2>3
<1>7. ASSUME NEW c \in Waiters, WaitTake(c) PROVE SafeInv'
  <2> USE <1>7 DEF WaitTake
  <2>1. /\ pc' \in [Threads -> PcValues] /\ pc'[c] \in {"idle", "done"}
        /\ \A u \in Threads : u # c => pc'[u] = pc[u]
    BY <1>0, <1>p, GotoProperty DEF PcValues
  <2>o. \A d \in Peekers : pc[d] = "idle"
    BY DEF PcOK, AloneInv, Alone, Takers, WaitTake
  <2>2. TypeOK'
    <3>1. CASE shutdown /\ queue = <<>>
      BY <3>1, <2>1 DEF TypeOK
    <3>2. CASE ~(shutdown /\ queue = <<>>)
      <4>1. queue # <<>> BY <3>2 DEF PopNeverEmpty
      <4>2. Dequeue(c) BY <3>2
      <4>3. Tail(queue) \in Seq(Values) /\ Head(queue) \in Values
        BY <4>1, DequeueProperty DEF TypeOK
      <4>4. Append(got[c], Head(queue)) \in Seq(Values)
        BY <1>0, <4>3, AppendProperty DEF TypeOK
      <4>5. got' \in [Consumers -> Seq(Values)]
        BY <4>2, <4>4 DEF TypeOK, Dequeue
      <4> QED BY <4>2, <4>3, <4>5, <2>1 DEF TypeOK, Dequeue
    <3> QED BY <3>1, <3>2
  <2>3. PcOK' BY <1>0, <2>1 DEF PcOK
  <2>4. LockInv' BY <1>0, <2>1 DEF LockInv
  <2>5. SleepInv' BY <1>0, <2>1, <2>4 DEF SleepInv, Notifying, TypeOK, LockInv
  <2>6. PopNeverEmpty' BY <1>0, <2>1, <2>4, <2>o DEF PopNeverEmpty, LockInv
  <2> QED BY <1>a, <2>2, <2>3, <2>4, <2>5, <2>6
<1>8. ASSUME NEW c \in Pollers, TryPopCheck(c) PROVE SafeInv'
  <2> USE <1>8 DEF TryPopCheck
  <2>1. /\ pc' \in [Threads -> PcValues] /\ pc'[c] = "try_lock"
        /\ \A u \in Threads : u # c => pc'[u] = pc[u]
    BY <1>0, <1>p, GotoProperty DEF PcValues
  <2>2. TypeOK' BY <1>0, <2>1 DEF TypeOK
  <2>3. PcOK' BY <1>0, <2>1 DEF PcOK
  <2>4. LockInv' BY <1>0, <2>1 DEF LockInv, TypeOK
  <2>5. SleepInv' BY <1>0, <2>1, <2>4 DEF SleepInv, Notifying, TypeOK, LockInv
  <2>6. PopNeverEmpty' BY <1>0, <2>1, <2>4 DEF PopNeverEmpty, LockInv
  <2> QED BY <1>a, <2>2, <2>3, <2>4, <2>5, <2>6
<1>9. ASSUME NEW c \in Pollers, TryPopLocked(c) PROVE SafeInv'
  <2> USE <1>9 DEF TryPopLocked
  <2>1. /\ pc' \in [Threads -> PcValues] /\ pc'[c] = "idle"
        /\ \A u \in Threads : u # c => pc'[u] = pc[u]
    BY <1>0, <1>p, GotoProperty DEF PcValues
  <2>a. /\ queue' \in Seq(Values) /\ got' \in [Consumers -> Seq(Values)] /\ log' = log
        /\ taken' \in Nat /\ closedAt' = closedAt
    <3>1. CASE queue = <<>> BY <3>1 DEF TypeOK
    <3>2. CASE queue # <<>>
      <4>1. Head(queue) \in Values /\ Tail(queue) \in Seq(Values)
        BY <3>2, DequeueProperty DEF TypeOK
      <4>2. Append(got[c], Head(queue)) \in Seq(Values)
        BY <1>0, <4>1, AppendProperty DEF TypeOK
      <4>3. Dequeue(c) BY <3>2
      <4>4. got' \in [Consumers -> Seq(Values)]
        BY <4>2, <4>3 DEF TypeOK, Dequeue
      <4> QED BY <4>1, <4>3, <4>4 DEF TypeOK, Dequeue
    <3> QED BY <3>1, <3>2
  <2>o. \A d \in Peekers : pc[d] = "idle"
    BY DEF PcOK, AloneInv, Alone, Takers, TryPopLocked
  <2>2. TypeOK' BY <1>0, <2>1, <2>a DEF TypeOK
  <2>3. PcOK' BY <1>0, <2>1 DEF PcOK
  <2>4. LockInv' BY <1>0, <2>1 DEF LockInv, TypeOK
  <2>5. SleepInv' BY <1>0, <2>1, <2>4 DEF SleepInv, Notifying, TypeOK, LockInv
  <2>6. PopNeverEmpty' BY <1>0, <2>1, <2>4, <2>o DEF PopNeverEmpty, LockInv
  <2> QED BY <1>a, <2>2, <2>3, <2>4, <2>5, <2>6
<1>10. ASSUME NEW c \in Peekers, PeekEmpty(c) PROVE SafeInv'
  <2> USE <1>10 DEF PeekEmpty
  <2>1. /\ pc' \in [Threads -> PcValues] /\ pc'[c] = "peek_front"
        /\ \A u \in Threads : u # c => pc'[u] = pc[u]
    BY <1>0, <1>p, GotoProperty DEF PcValues
  <2>2. TypeOK' BY <1>0, <2>1 DEF TypeOK
  <2>3. PcOK' BY <1>0, <2>1 DEF PcOK
  <2>4. LockInv' BY <1>0, <2>1 DEF LockInv, TypeOK
  <2>5. SleepInv' BY <1>0, <2>1, <2>4 DEF SleepInv, Notifying, TypeOK, LockInv
  <2>6. PopNeverEmpty' BY <1>0, <2>1, <2>4 DEF PopNeverEmpty, LockInv
  <2> QED BY <1>a, <2>2, <2>3, <2>4, <2>5, <2>6
<1>11. ASSUME NEW c \in Peekers, PeekFront(c) PROVE SafeInv'
  <2> USE <1>11 DEF PeekFront
  <2>1. /\ pc' \in [Threads -> PcValues] /\ pc'[c] = "peek_pop"
        /\ \A u \in Threads : u # c => pc'[u] = pc[u]
    BY <1>0, <1>p, GotoProperty DEF PcValues
  <2>a. Head(queue) \in Values
    BY DequeueProperty DEF PopNeverEmpty, TypeOK
  <2>b. got' \in [Consumers -> Seq(Values)]
    BY <1>0, <2>a, AppendProperty DEF TypeOK
  <2>2. TypeOK' BY <1>0, <2>1, <2>b DEF TypeOK
  <2>3. PcOK' BY <1>0, <2>1 DEF PcOK
  <2>4. LockInv' BY <1>0, <2>1 DEF LockInv, TypeOK
  <2>5. SleepInv' BY <1>0, <2>1, <2>4 DEF SleepInv, Notifying, TypeOK, LockInv
  <2>6. PopNeverEmpty' BY <1>0, <2>1, <2>4 DEF PopNeverEmpty, LockInv
  <2> QED BY <1>a, <2>2, <2>3, <2>4, <2>5, <2>6
<1>12. ASSUME NEW c \in Peekers, PeekPop(c) PROVE SafeInv'
  <2> USE <1>12 DEF PeekPop
  <2>1. /\ pc' \in [Threads -> PcValues] /\ pc'[c] = "idle"
        /\ \A u \in Threads : u # c => pc'[u] = pc[u]
    BY <1>0, <1>p, GotoProperty DEF PcValues
  <2>a. Tail(queue) \in Seq(Values)
    BY DequeueProperty DEF PopNeverEmpty, TypeOK
  <2>b. (\A d \in Waiters : pc[d] = "done") /\ Peekers = {c}
    BY RolesAssumption DEF AloneInv, Alone, Takers
  <2>2. TypeOK' BY <1>0, <2>1, <2>a DEF TypeOK
  <2>3. PcOK' BY <1>0, <2>1 DEF PcOK
  <2>4. LockInv' BY <1>0, <2>1 DEF LockInv, TypeOK
  <2>5. SleepInv' BY <1>0, <2>1, <2>4, <2>b DEF SleepInv, Notifying, TypeOK, LockInv
  <2>6. PopNeverEmpty' BY <1>0, <2>1, <2>4, <2>b DEF PopNeverEmpty, LockInv
  <2> QED BY <1>a, <2>2, <2>3, <2>4, <2>5, <2>6
<1>13. ASSUME NEW t \in Cleaners, Clear(t) PROVE SafeInv'
  <2> USE <1>13 DEF Clear
  <2>1. /\ pc' \in [Threads -> PcValues] /\ pc'[t] = "done"
        /\ \A u \in Threads : u # t => pc'[u] = pc[u]
    BY <1>0, <1>p, GotoProperty DEF PcValues
  <2>a. taken' \in Nat
    BY LenProperties DEF TypeOK
  <2>o. \A d \in Peekers : pc[d] = "idle"
    BY DEF PcOK, AloneInv, Alone, Takers, Clear
  <2>2. TypeOK' BY <1>0, <2>1, <2>a DEF TypeOK
  <2>3. PcOK' BY <1>0, <2>1 DEF PcOK
  <2>4. LockInv' BY <1>0, <2>1 DEF LockInv, TypeOK
  <2>5. SleepInv' BY <1>0, <2>1, <2>4 DEF SleepInv, Notifying, TypeOK, LockInv
  <2>6. PopNeverEmpty' BY <1>0, <2>1, <2>4, <2>o DEF PopNeverEmpty, LockInv
  <2> QED BY <1>a, <2>2, <2>3, <2>4, <2>5, <2>6
<1>14. ASSUME NEW t \in Closers, ShutdownStore(t) PROVE SafeInv'
  <2> USE <1>14 DEF ShutdownStore
  <2>1. /\ pc' \in [Threads -> PcValues] /\ pc'[t] = "shutdown_lock"
        /\ \A u \in Threads : u # t => pc'[u] = pc[u]
    BY <1>0, <1>p, GotoProperty DEF PcValues
  <2>a. closedAt' \in Nat
    BY LenProperties DEF TypeOK
  <2>2. TypeOK' BY <1>0, <2>1, <2>a DEF TypeOK
  <2>3. PcOK' BY <1>0, <2>1 DEF PcOK
  <2>4. LockInv' BY <1>0, <2>1 DEF LockInv, TypeOK
  <2>5. SleepInv' BY <1>0, <2>1, <2>4 DEF SleepInv, Notifying, TypeOK, LockInv
  <2>6. PopNeverEmpty' BY <1>0, <2>1, <2>4 DEF PopNeverEmpty, LockInv
  <2> QED BY <1>a, <2>2, <2>3, <2>4, <2>5, <2>6
<1>15. ASSUME NEW t \in Closers, ShutdownNotify(t) PROVE SafeInv'
  <2> USE <1>15 DEF ShutdownNotify, NotifyAll
  <2>1. /\ pc' \in [Threads -> PcValues] /\ pc'[t] = "done"
        /\ \A u \in Threads : u # t => pc'[u] = pc[u]
    BY <1>0, <1>p, GotoProperty DEF PcValues
  <2>2. TypeOK' BY <1>0, <2>1 DEF TypeOK
  <2>3. PcOK' BY <1>0, <2>1 DEF PcOK
  <2>4. LockInv' BY <1>0, <2>1 DEF LockInv, TypeOK
  <2>5. SleepInv' BY <1>0, <2>1, <2>4 DEF SleepInv, Notifying, TypeOK, LockInv
  <2>6. PopNeverEmpty' BY <1>0, <2>1, <2>4 DEF PopNeverEmpty, LockInv
  <2> QED BY <1>a, <2>2, <2>3, <2>4, <2>5, <2>6
<1>16. CASE UNCHANGED vars
  BY <1>16, <1>a DEF vars, TypeOK, PcOK, LockInv, SleepInv, Notifying, PopNeverEmpty
<1> QED
  BY <1>1, <1>2, <1>3, <1>4, <1>5, <1>6, <1>7, <1>8, <1>9, <1>10, <1>11, <1>12, <1>13,
     <1>14, <1>15, <1>16 DEF Next, WaitStep, PeekStep

THEOREM SafeInvariant == Spec => []SafeInv
BY SafeInvInit, SafeInvStep, PTL DEF Spec

(* Type correctness of the queue for any number of threads.                *)
THEOREM TypeCorrect == Spec => []TypeOK
BY SafeInvariant, PTL DEF SafeInv

(* No pop or front on an empty queue_, with any number of waiters.         *)
THEOREM PopNeverOnEmpty == Spec => []PopNeverEmpty
BY SafeInvariant, PTL DEF SafeInv

(* After a completed shutdown() nobody sleeps.                             *)
THEOREM ShutdownLeavesNoSleeper == Spec => []ShutdownWakesAll
<1>1. SafeInv => ShutdownWakesAll
  BY DEF SafeInv, SleepInv, Notifying, ShutdownWakesAll
<1> QED BY <1>1, SafeInvariant, PTL

-----------------------------------------------------------------------------
(* The set of threads on their way to the queue, against the queue's length. *)
LEMMA WokenFinite ==
  /\ IsFiniteSet(Woken) /\ Cardinality(Woken) \in Nat
  /\ IsFiniteSet(Woken') /\ Cardinality(Woken') \in Nat
<1>1. Woken \subseteq Waiters /\ Woken' \subseteq Waiters
  BY DEF Woken
<1>2. IsFiniteSet(Waiters)
  BY RolesAssumption
<1> QED BY <1>1, <1>2, FS_Subset, FS_CardinalityType

LEMMA NoLostWakeupStep ==
  ASSUME SafeInv, NoLostWakeup, [Next]_vars PROVE NoLostWakeup'
<1> USE OneRole DEF SafeInv, Holding, history
<1>0. /\ Producers \subseteq Threads /\ Waiters \subseteq Threads /\ Pollers \subseteq Threads
      /\ Peekers \subseteq Threads /\ Cleaners \subseteq Threads /\ Closers \subseteq Threads
  BY DEF Threads, Consumers
<1>p. pc \in [Threads -> PcValues]
  BY DEF TypeOK
<1>q. queue \in Seq(Values) /\ Len(queue) \in Nat
  BY LenProperties DEF TypeOK
<1>m. ASSUME Woken \subseteq Woken', Len(queue') \in Nat, Len(queue') <= Len(queue),
             waitset' # {} => waitset # {}
      PROVE  NoLostWakeup'
  <2>1. Cardinality(Woken) <= Cardinality(Woken')
    BY <1>m, WokenFinite, FS_Subset
  <2> QED BY <2>1, <1>m, <1>q, WokenFinite DEF NoLostWakeup
<1>e. ASSUME queue' = <<>> PROVE NoLostWakeup'
  BY <1>e, WokenFinite DEF NoLostWakeup
<1>1. ASSUME NEW p \in Producers, PushCheck(p) PROVE NoLostWakeup'
  <2>1. \A c \in Waiters : pc'[c] = pc[c]
    BY <1>0, <1>1, <1>p, GotoProperty DEF PushCheck, PcValues
  <2>2. Woken \subseteq Woken'
    BY <1>1, <2>1 DEF Woken, PushCheck
  <2> QED BY <1>1, <1>m, <1>q, <2>2 DEF PushCheck
<1>2. ASSUME NEW p \in Producers, PushLocked(p) PROVE NoLostWakeup'
  <2>1. \A c \in Waiters : pc'[c] = pc[c]
    BY <1>0, <1>2, <1>p, GotoProperty DEF PushLocked, PcValues
  <2>2. CASE waitset = {}
    BY <1>2, <2>2 DEF PushLocked, NotifyOne, NoLostWakeup
  <2>3. CASE waitset # {}
    <3>1. PICK w \in waitset : waitset' = waitset \ {w}
      BY <1>2, <2>3 DEF PushLocked, NotifyOne
    <3>2. w \in Waiters /\ pc[w] = "in_wait"
      BY DEF SleepInv, TypeOK
    <3>3. Woken' = Woken \union {w} /\ w \notin Woken
      BY <2>1, <3>1, <3>2 DEF Woken
    <3>4. Cardinality(Woken') = Cardinality(Woken) + 1
      BY <3>3, WokenFinite, FS_AddElement
    <3>5. <<p, sent[p]>> \in Values
      BY <1>2, RolesAssumption DEF PcOK, TypeOK, Values, PushLocked
    <3>6. Len(queue') = Len(queue) + 1
      BY <1>2, <1>q, <3>5, AppendProperties DEF PushLocked, Enqueue
    <3> QED BY <2>3, <3>4, <3>6, <1>q, WokenFinite DEF NoLostWakeup
  <2> QED BY <2>2, <2>3
<1>3. ASSUME NEW c \in Waiters, WaitEnter(c) \/ WaitReacquire(c) PROVE NoLostWakeup'
  <2>1. pc'[c] = "wait_test" /\ \A u \in Waiters : u # c => pc'[u] = pc[u]
    BY <1>0, <1>3, <1>p, GotoProperty DEF WaitEnter, WaitReacquire, PcValues
  <2>2. Woken \subseteq Woken'
    BY <1>3, <2>1 DEF Woken, WaitEnter, WaitReacquire
  <2> QED BY <1>3, <1>m, <1>q, <2>2 DEF WaitEnter, WaitReacquire
<1>4. ASSUME NEW c \in Waiters, WaitTest(c) PROVE NoLostWakeup'
  <2>1. CASE queue = <<>>
    BY <1>4, <1>e, <2>1 DEF WaitTest
  <2>2. CASE queue # <<>>
    <3>1. pc'[c] = "wait_take" /\ \A u \in Waiters : u # c => pc'[u] = pc[u]
      BY <1>0, <1>4, <1>p, <2>2, GotoProperty DEF WaitTest, PcValues
    <3>2. Woken \subseteq Woken'
      BY <1>4, <3>1 DEF Woken, WaitTest
    <3> QED BY <1>4, <1>m, <1>q, <3>2 DEF WaitTest
  <2> QED BY <2>1, <2>2
<1>5. ASSUME NEW c \in Waiters, WaitSleep(c) PROVE NoLostWakeup'
  BY <1>5, <1>e DEF WaitSleep, SleepInv
<1>6. ASSUME NEW c \in Waiters, SpuriousWakeup(c) PROVE NoLostWakeup'
  <2>1. Woken \subseteq Woken'
    BY <1>6 DEF Woken, SpuriousWakeup
  <2> QED BY <1>6, <1>m, <1>q, <2>1 DEF SpuriousWakeup
<1>7. ASSUME NEW c \in Waiters, WaitTake(c) PROVE NoLostWakeup'
  <2>1. CASE shutdown /\ queue = <<>>
    BY <1>7, <1>e, <2>1 DEF WaitTake
  <2>2. CASE ~(shutdown /\ queue = <<>>)
    <3>1. queue # <<>> /\ Dequeue(c) /\ Goto(c, "idle")
      BY <1>7, <2>2 DEF WaitTake, PopNeverEmpty
    <3>2. pc'[c] = "idle" /\ \A u \in Waiters : u # c => pc'[u] = pc[u]
      BY <1>0, <1>p, <3>1, GotoProperty DEF PcValues
    <3>3. Woken' = Woken \ {c} /\ c \in Woken
      BY <1>7, <3>2 DEF Woken, WaitTake
    <3>4. Cardinality(Woken') = Cardinality(Woken) - 1
      BY <3>3, WokenFinite, FS_RemoveElement
    <3>5. Len(queue') = Len(queue) - 1
      BY <1>q, <3>1, HeadTailProperties DEF Dequeue
    <3> QED BY <1>7, <1>q, <3>4, <3>5, WokenFinite DEF NoLostWakeup, WaitTake
  <2> QED BY <2>1, <2>2
<1>8. ASSUME NEW c \in Pollers, TryPopCheck(c) \/ TryPopLocked(c) PROVE NoLostWakeup'
  <2>1. \A u \in Waiters : pc'[u] = pc[u]
    BY <1>0, <1>8, <1>p, GotoProperty DEF TryPopCheck, TryPopLocked, PcValues
  <2>2. Woken \subseteq Woken'
    BY <1>8, <2>1 DEF Woken, TryPopCheck, TryPopLocked
  <2>3. Len(queue') \in Nat /\ Len(queue') <= Len(queue)
    <3>1. CASE queue' = queue BY <3>1, <1>q
    <3>2. CASE queue' # queue
      <4>1. queue # <<>> /\ queue' = Tail(queue)
        BY <1>8, <3>2 DEF TryPopCheck, TryPopLocked, Dequeue
      <4> QED BY <4>1, <1>q, HeadTailProperties, LenProperties
    <3> QED BY <3>1, <3>2
  <2> QED BY <1>8, <1>m, <2>2, <2>3 DEF TryPopCheck, TryPopLocked
<1>9. ASSUME NEW c \in Peekers, PeekStep(c) PROVE NoLostWakeup'
  <2>1. \A d \in Waiters : pc[d] = "done"
    BY <1>9 DEF PeekStep, PeekEmpty, PeekFront, PeekPop, AloneInv, Alone, Takers
  <2>2. waitset = {} /\ waitset' = waitset
    BY <1>9, <2>1 DEF PeekStep, PeekEmpty, PeekFront, PeekPop, SleepInv, TypeOK
  <2> QED BY <2>2 DEF NoLostWakeup
<1>10. ASSUME NEW t \in Cleaners, Clear(t) PROVE NoLostWakeup'
  BY <1>10, <1>e DEF Clear
<1>11. ASSUME NEW t \in Closers, ShutdownStore(t) PROVE NoLostWakeup'
  <2>1. \A u \in Waiters : pc'[u] = pc[u]
    BY <1>0, <1>11, <1>p, GotoProperty DEF ShutdownStore, PcValues
  <2>2. Woken \subseteq Woken'
    BY <1>11, <2>1 DEF Woken, ShutdownStore
  <2> QED BY <1>11, <1>m, <1>q, <2>2 DEF ShutdownStore
<1>12. ASSUME NEW t \in Closers, ShutdownNotify(t) PROVE NoLostWakeup'
  BY <1>12 DEF ShutdownNotify, NotifyAll, NoLostWakeup
<1>13. CASE UNCHANGED vars
  BY <1>13 DEF vars, NoLostWakeup, Woken
<1> QED
  BY <1>1, <1>2, <1>3, <1>4, <1>5, <1>6, <1>7, <1>8, <1>9, <1>10, <1>11, <1>12, <1>13
     DEF Next, WaitStep

(* No wakeup is lost, for any number of producers, waiters and pollers.    *)
THEOREM NoWakeupIsLost == Spec => []NoLostWakeup
<1>1. Init => NoLostWakeup
  BY DEF Init, NoLostWakeup
<1>2. SafeInv /\ NoLostWakeup /\ [Next]_vars => NoLostWakeup'
  BY NoLostWakeupStep
<1> QED BY <1>1, <1>2, SafeInvariant, PTL DEF Spec

-----------------------------------------------------------------------------
(* Every step of the queue is a step of the channel, or changes nothing    *)
(* the channel shows.                                                      *)
LEMMA ChannelStep ==
  ASSUME SafeInv, [Next]_vars PROVE [Channel!Next]_(Channel!cvars)
<1> USE OneRole DEF SafeInv, Holding, history, Channel!cvars
<1>0. /\ Producers \subseteq Threads /\ Waiters \subseteq Threads /\ Pollers \subseteq Threads
      /\ Peekers \subseteq Threads /\ Cleaners \subseteq Threads /\ Closers \subseteq Threads
  BY DEF Threads, Consumers
<1>p. pc \in [Threads -> PcValues]
  BY DEF TypeOK
<1>s. ASSUME \A c \in Waiters : pc'[c] = pc[c] PROVE Parked' = Parked
  BY <1>s DEF Parked
<1>1. ASSUME NEW p \in Producers, PushCheck(p) PROVE UNCHANGED <<queue, shutdown, Parked>>
  <2>1. \A c \in Waiters : pc'[c] = pc[c]
    BY <1>0, <1>1, <1>p, GotoProperty DEF PushCheck, PcValues
  <2> QED BY <1>1, <1>s, <2>1 DEF PushCheck
<1>2. ASSUME NEW p \in Producers, PushLocked(p) PROVE Channel!Next
  <2>1. \A c \in Waiters : pc'[c] = pc[c]
    BY <1>0, <1>2, <1>p, GotoProperty DEF PushLocked, PcValues
  <2>2. <<p, sent[p]>> \in Values
    BY <1>2, RolesAssumption DEF PcOK, TypeOK, Values, PushLocked
  <2>3. Channel!Send(<<p, sent[p]>>)
    BY <1>2, <1>s, <2>1 DEF PushLocked, Enqueue, Channel!Send
  <2> QED BY <2>2, <2>3 DEF Channel!Next
<1>3. ASSUME NEW c \in Waiters, WaitEnter(c) PROVE Channel!Next
  <2>1. pc'[c] = "wait_test" /\ \A u \in Waiters : u # c => pc'[u] = pc[u]
    BY <1>0, <1>3, <1>p, GotoProperty DEF WaitEnter, PcValues
  <2>2. c \notin Parked /\ Parked' = Parked \union {c}
    BY <1>3, <2>1 DEF Parked, WaitEnter
  <2> QED BY <1>3, <2>2 DEF WaitEnter, Channel!Next, Channel!Park
<1>4. ASSUME NEW c \in Waiters, WaitReacquire(c) \/ WaitTest(c) \/ WaitSleep(c) \/ SpuriousWakeup(c)
      PROVE UNCHANGED <<queue, shutdown, Parked>>
  <2>1. \/ UNCHANGED pc
        \/ /\ pc[c] \in {"wait_test", "wait_sleep", "in_wait"}
           /\ pc'[c] \in {"wait_test", "wait_sleep", "in_wait", "wait_take"}
           /\ \A u \in Waiters : u # c => pc'[u] = pc[u]
    BY <1>0, <1>4, <1>p, GotoProperty DEF WaitReacquire, WaitTest, WaitSleep, SpuriousWakeup, PcValues
  <2>2. Parked' = Parked
    BY <2>1 DEF Parked
  <2> QED BY <1>4, <2>2 DEF WaitReacquire, WaitTest, WaitSleep, SpuriousWakeup
<1>5. ASSUME NEW c \in Waiters, WaitTake(c) PROVE Channel!Next
  <2>1. pc'[c] \in {"idle", "done"} /\ \A u \in Waiters : u # c => pc'[u] = pc[u]
    BY <1>0, <1>5, <1>p, GotoProperty DEF WaitTake, PcValues
  <2>2. c \in Parked /\ Parked' = Parked \ {c}
    BY <1>5, <2>1 DEF Parked, WaitTake
  <2>3. CASE shutdown /\ queue = <<>>
    <3>1. Channel!Dismiss(c)
      BY <1>5, <2>2, <2>3 DEF WaitTake, Channel!Dismiss
    <3> QED BY <3>1 DEF Channel!Next
  <2>4. CASE ~(shutdown /\ queue = <<>>)
    <3>1. queue # <<>> /\ queue' = Tail(queue) /\ shutdown' = shutdown
      BY <1>5, <2>4 DEF WaitTake, Dequeue, PopNeverEmpty
    <3>2. Channel!Deliver(c)
      BY <2>2, <3>1 DEF Channel!Deliver
    <3> QED BY <3>2 DEF Channel!Next
  <2> QED BY <2>3, <2>4
<1>6. ASSUME NEW c \in Pollers, TryPopCheck(c) \/ TryPopLocked(c)
      PROVE  Channel!Next \/ UNCHANGED <<queue, shutdown, Parked>>
  <2>1. \A u \in Waiters : pc'[u] = pc[u]
    BY <1>0, <1>6, <1>p, GotoProperty DEF TryPopCheck, TryPopLocked, PcValues
  <2>2. \/ queue' = queue
        \/ queue # <<>> /\ queue' = Tail(queue)
    BY <1>6 DEF TryPopCheck, TryPopLocked, Dequeue
  <2>3. shutdown' = shutdown
    BY <1>6 DEF TryPopCheck, TryPopLocked
  <2> QED BY <1>s, <2>1, <2>2, <2>3 DEF Channel!Next, Channel!Receive
<1>7. ASSUME NEW c \in Peekers, PeekStep(c)
      PROVE  Channel!Next \/ UNCHANGED <<queue, shutdown, Parked>>
  <2>1. \A u \in Waiters : pc'[u] = pc[u]
    BY <1>0, <1>7, <1>p, GotoProperty DEF PeekStep, PeekEmpty, PeekFront, PeekPop, PcValues
  <2>2. \/ queue' = queue
        \/ queue # <<>> /\ queue' = Tail(queue)
    BY <1>7 DEF PeekStep, PeekEmpty, PeekFront, PeekPop, PopNeverEmpty
  <2>3. shutdown' = shutdown
    BY <1>7 DEF PeekStep, PeekEmpty, PeekFront, PeekPop
  <2> QED BY <1>s, <2>1, <2>2, <2>3 DEF Channel!Next, Channel!Receive
<1>8. ASSUME NEW t \in Cleaners, Clear(t) PROVE Channel!Next
  <2>1. \A u \in Waiters : pc'[u] = pc[u]
    BY <1>0, <1>8, <1>p, GotoProperty DEF Clear, PcValues
  <2> QED BY <1>8, <1>s, <2>1 DEF Clear, Channel!Next, Channel!Discard
<1>9. ASSUME NEW t \in Closers, ShutdownStore(t) PROVE Channel!Next
  <2>1. \A u \in Waiters : pc'[u] = pc[u]
    BY <1>0, <1>9, <1>p, GotoProperty DEF ShutdownStore, PcValues
  <2> QED BY <1>9, <1>s, <2>1 DEF ShutdownStore, Channel!Next, Channel!Close
<1>10. ASSUME NEW t \in Closers, ShutdownNotify(t) PROVE UNCHANGED <<queue, shutdown, Parked>>
  <2>1. \A u \in Waiters : pc'[u] = pc[u]
    BY <1>0, <1>10, <1>p, GotoProperty DEF ShutdownNotify, PcValues
  <2> QED BY <1>10, <1>s, <2>1 DEF ShutdownNotify
<1>11. CASE UNCHANGED vars
  BY <1>11 DEF vars, Parked
<1> QED
  BY <1>1, <1>2, <1>3, <1>4, <1>5, <1>6, <1>7, <1>8, <1>9, <1>10, <1>11 DEF Next, WaitStep

(* The queue implements the safety of the channel it promises its callers. *)
THEOREM QueueImplementsChannel == Spec => ChannelSafety
<1>1. Init => Channel!Init
  <2> SUFFICES ASSUME Init PROVE Channel!Init
    OBVIOUS
  <2>1. \A c \in Waiters : pc[c] \in {"idle", "done"}
    BY DEF Init, Threads, Consumers
  <2> QED BY <2>1 DEF Init, Channel!Init, Parked
<1>2. SafeInv /\ [Next]_vars => [Channel!Next]_(Channel!cvars)
  BY ChannelStep
<1> QED
  BY <1>1, <1>2, SafeInvariant, PTL DEF Spec, ChannelSafety, Channel!SafeSpec

-----------------------------------------------------------------------------
(* First in, first out, index by index: the form the steps preserve.       *)
FifoInv ==
  /\ Len(log) = taken + Len(queue)
  /\ \A i \in 1..Len(queue) : queue[i] = log[taken + i]

(* Taking the head of the queue, whoever takes it.                         *)
LEMMA FifoTake ==
  ASSUME TypeOK, FifoInv, queue # <<>>, queue' = Tail(queue), taken' = taken + 1, log' = log
  PROVE  FifoInv'
<1>1. /\ Len(queue) \in Nat /\ Len(queue') = Len(queue) - 1
      /\ \A i \in 1..Len(queue') : queue'[i] = queue[i + 1]
  BY LenProperties, HeadTailProperties DEF TypeOK
<1>2. Len(queue') \in Nat
  BY LenProperties, HeadTailProperties DEF TypeOK
<1>3. ASSUME NEW i \in 1..Len(queue') PROVE queue'[i] = log'[taken' + i]
  <2>1. i + 1 \in 1..Len(queue)
    BY <1>1, <1>2
  <2>2. queue'[i] = log[taken + (i + 1)]
    BY <1>1, <2>1 DEF FifoInv
  <2> QED BY <2>2 DEF TypeOK
<1>4. Len(log') = taken' + Len(queue')
  <2>1. Len(log) = taken + Len(queue) /\ taken \in Nat
    BY DEF FifoInv, TypeOK
  <2> QED BY <1>1, <2>1
<1>5. \A i \in 1..Len(queue') : queue'[i] = log'[taken' + i]
  BY <1>3
<1> QED BY <1>4, <1>5 DEF FifoInv

LEMMA FifoStep == ASSUME SafeInv, FifoInv, [Next]_vars PROVE FifoInv'
<1> USE DEF SafeInv, history
<1>t. Len(queue) \in Nat /\ Len(log) \in Nat /\ taken \in Nat
  BY LenProperties DEF TypeOK
<1>u. ASSUME UNCHANGED <<queue, log, taken>> PROVE FifoInv'
  BY <1>u DEF FifoInv
<1>1. ASSUME NEW p \in Producers, PushLocked(p) PROVE FifoInv'
  <2> DEFINE v == <<p, sent[p]>>
  <2>1. v \in Values
    BY <1>1, RolesAssumption DEF PcOK, TypeOK, Values, PushLocked
  <2>2. /\ Len(queue') = Len(queue) + 1 /\ queue'[Len(queue) + 1] = v
        /\ \A i \in 1..Len(queue) : queue'[i] = queue[i]
    BY <1>1, <2>1, AppendProperties DEF PushLocked, Enqueue, TypeOK
  <2>3. /\ Len(log') = Len(log) + 1 /\ log'[Len(log) + 1] = v
        /\ \A i \in 1..Len(log) : log'[i] = log[i]
    BY <1>1, <2>1, AppendProperties DEF PushLocked, Enqueue, TypeOK
  <2>4. taken' = taken
    BY <1>1 DEF PushLocked, Enqueue
  <2> HIDE DEF v
  <2>5. ASSUME NEW i \in 1..Len(queue') PROVE queue'[i] = log'[taken' + i]
    <3>1. CASE i \in 1..Len(queue)
      <4>1. taken + i \in 1..Len(log)
        BY <1>t, <3>1 DEF FifoInv
      <4> QED BY <2>2, <2>3, <2>4, <3>1, <4>1 DEF FifoInv
    <3>2. CASE i = Len(queue) + 1
      <4>1. taken + i = Len(log) + 1
        BY <1>t, <3>2 DEF FifoInv
      <4> QED BY <2>2, <2>3, <2>4, <3>2, <4>1
    <3> QED BY <1>t, <2>2, <3>1, <3>2
  <2>6. Len(log') = taken' + Len(queue')
    BY <1>t, <2>2, <2>3, <2>4 DEF FifoInv
  <2>7. \A i \in 1..Len(queue') : queue'[i] = log'[taken' + i]
    BY <2>5
  <2> QED BY <2>6, <2>7 DEF FifoInv
<1>2. ASSUME NEW c \in Waiters, WaitTake(c) PROVE FifoInv'
  BY <1>2, <1>u, FifoTake DEF WaitTake, Dequeue, PopNeverEmpty
<1>3. ASSUME NEW c \in Pollers, TryPopLocked(c) PROVE FifoInv'
  BY <1>3, <1>u, FifoTake DEF TryPopLocked, Dequeue
<1>4. ASSUME NEW c \in Peekers, PeekPop(c) PROVE FifoInv'
  BY <1>4, FifoTake DEF PeekPop, PopNeverEmpty
<1>5. ASSUME NEW t \in Cleaners, Clear(t) PROVE FifoInv'
  <2>1. queue' = <<>> /\ taken' = Len(log') /\ log' = log
    BY <1>5 DEF Clear
  <2> QED BY <1>t, <2>1, EmptySeq DEF FifoInv
<1>6. CASE UNCHANGED vars
  BY <1>6, <1>u DEF vars
<1> QED
  <2>1. ASSUME NEW p \in Producers, PushCheck(p) PROVE FifoInv'
    BY <2>1, <1>u DEF PushCheck
  <2>2. ASSUME NEW c \in Waiters,
               WaitEnter(c) \/ WaitTest(c) \/ WaitSleep(c) \/ WaitReacquire(c) \/ SpuriousWakeup(c)
        PROVE  FifoInv'
    BY <2>2, <1>u DEF WaitEnter, WaitTest, WaitSleep, WaitReacquire, SpuriousWakeup
  <2>3. ASSUME NEW c \in Pollers, TryPopCheck(c) PROVE FifoInv'
    BY <2>3, <1>u DEF TryPopCheck
  <2>4. ASSUME NEW c \in Peekers, PeekEmpty(c) \/ PeekFront(c) PROVE FifoInv'
    BY <2>4, <1>u DEF PeekEmpty, PeekFront
  <2>5. ASSUME NEW t \in Closers, ShutdownStore(t) \/ ShutdownNotify(t) PROVE FifoInv'
    BY <2>5, <1>u DEF ShutdownStore, ShutdownNotify
  <2> QED BY <1>1, <1>2, <1>3, <1>4, <1>5, <1>6, <2>1, <2>2, <2>3, <2>4, <2>5
             DEF Next, WaitStep, PeekStep

LEMMA FifoMeansSuffix == ASSUME TypeOK, FifoInv PROVE QueueIsUntakenLog
<1>1. Len(queue) \in Nat /\ Len(log) \in Nat /\ taken \in Nat
  BY LenProperties DEF TypeOK
<1>2. \A i \in (taken + 1)..Len(log) : log[i] \in Values
  BY <1>1, ElementOfSeq DEF TypeOK
<1> DEFINE rest == SubSeq(log, taken + 1, Len(log))
<1>3. /\ rest \in Seq(Values)
      /\ Len(rest) = IF taken + 1 <= Len(log) THEN Len(log) - (taken + 1) + 1 ELSE 0
      /\ \A i \in 1..(Len(log) - (taken + 1) + 1) : rest[i] = log[(taken + 1) + i - 1]
  BY <1>1, <1>2, SubSeqProperties
<1> HIDE DEF rest
<1>4. Len(rest) = Len(queue)
  BY <1>1, <1>3 DEF FifoInv
<1>5. ASSUME NEW i \in 1..Len(queue) PROVE queue[i] = rest[i]
  <2>1. i \in 1..(Len(log) - (taken + 1) + 1) /\ (taken + 1) + i - 1 = taken + i
    BY <1>1 DEF FifoInv
  <2>2. queue[i] = log[taken + i]
    BY DEF FifoInv
  <2>3. rest[i] = log[taken + i]
    BY <1>3, <2>1
  <2> QED BY <2>2, <2>3
<1>6. queue = rest
  BY <1>3, <1>4, <1>5, SeqEqual DEF TypeOK
<1> QED BY <1>1, <1>6 DEF FifoInv, QueueIsUntakenLog, rest

(* Values leave in the order they were pushed, and none is lost, whoever   *)
(* takes them.                                                             *)
THEOREM QueueIsFifo == Spec => []QueueIsUntakenLog
<1>1. Init => FifoInv
  BY EmptySeq DEF Init, FifoInv
<1>2. SafeInv /\ FifoInv /\ [Next]_vars => FifoInv'
  BY FifoStep
<1>3. SafeInv /\ FifoInv => QueueIsUntakenLog
  BY FifoMeansSuffix DEF SafeInv
<1> QED BY <1>1, <1>2, <1>3, SafeInvariant, PTL DEF Spec

-----------------------------------------------------------------------------
(* The values of p that were pushed after the flag was raised. A producer   *)
(* that is between its test of the flag and the lock has none yet.          *)
Late(p) == {i \in (closedAt + 1)..Len(log) : log[i][1] = p}

LateInv ==
  shutdown => \A p \in Producers :
    /\ pc[p] = "push_lock" => Late(p) = {}
    /\ \A i, j \in Late(p) : i = j

LEMMA LateStep == ASSUME SafeInv, LateInv, [Next]_vars PROVE LateInv'
<1> USE DEF SafeInv, history
<1>0. pc \in [Threads -> PcValues] /\ Producers \subseteq Threads
  BY DEF TypeOK, Threads
<1>t. Len(log) \in Nat /\ closedAt \in Nat
  BY LenProperties DEF TypeOK
<1>u. ASSUME UNCHANGED <<shutdown, log, closedAt>>,
             shutdown => \A p \in Producers : pc'[p] = "push_lock" => pc[p] = "push_lock"
      PROVE  LateInv'
  <2>1. \A p \in Producers : Late(p)' = Late(p)
    BY <1>u DEF Late
  <2> QED BY <1>u, <2>1 DEF LateInv
<1>v. ASSUME NEW t \in Threads \ Producers, NEW label, Goto(t, label), UNCHANGED <<shutdown, log, closedAt>>
      PROVE  LateInv'
  <2>1. \A p \in Producers : pc'[p] = pc[p]
    BY <1>0, <1>v DEF Goto
  <2> QED BY <1>u, <1>v, <2>1
<1>r. /\ Consumers \subseteq Threads \ Producers /\ Cleaners \subseteq Threads \ Producers
      /\ Closers \subseteq Threads \ Producers /\ Waiters \subseteq Consumers
      /\ Pollers \subseteq Consumers /\ Peekers \subseteq Consumers
  BY RolesAssumption DEF Threads, Consumers
<1>1. ASSUME NEW p \in Producers, PushCheck(p) PROVE LateInv'
  <2>1. UNCHANGED <<shutdown, log, closedAt>> /\ (shutdown => pc' = pc)
    BY <1>1 DEF PushCheck
  <2> QED BY <1>u, <2>1
<1>2. ASSUME NEW p \in Producers, PushLocked(p) PROVE LateInv'
  <2> SUFFICES ASSUME shutdown, NEW q \in Producers
               PROVE  (pc'[q] = "push_lock" => Late(q)' = {}) /\ \A i, j \in Late(q)' : i = j
    BY <1>2 DEF PushLocked, LateInv
  <2> DEFINE v == <<p, sent[p]>>
  <2>1. v \in Values /\ v[1] = p
    BY <1>2, RolesAssumption DEF PcOK, TypeOK, Values, PushLocked
  <2>2. log' = Append(log, v) /\ closedAt' = closedAt
    BY <1>2 DEF PushLocked, Enqueue
  <2> HIDE DEF v
  <2>3. /\ Len(log') = Len(log) + 1 /\ log'[Len(log) + 1] = v
        /\ \A i \in 1..Len(log) : log'[i] = log[i]
    BY <2>1, <2>2, AppendProperties DEF TypeOK
  <2>4. ASSUME NEW i \in Late(q)' PROVE i \in Late(q) \/ (i = Len(log) + 1 /\ q = p)
    <3>1. i \in (closedAt + 1)..(Len(log) + 1) /\ log'[i][1] = q
      BY <2>2, <2>3 DEF Late
    <3>2. i = Len(log) + 1 \/ (i \in (closedAt + 1)..Len(log) /\ i \in 1..Len(log))
      BY <1>t, <3>1
    <3> QED BY <2>1, <2>3, <3>1, <3>2 DEF Late
  <2>5. CASE q = p
    <3>1. pc[p] = "push_lock" /\ pc'[p] = "idle"
      BY <1>0, <1>2 DEF PushLocked, Goto
    <3>2. Late(p) = {}
      BY <3>1 DEF LateInv
    <3> QED BY <2>4, <2>5, <3>1, <3>2
  <2>6. CASE q # p
    <3>1. pc'[q] = pc[q]
      BY <1>0, <1>2, <2>6 DEF PushLocked, Goto
    <3>2. \A i \in Late(q)' : i \in Late(q)
      BY <2>4, <2>6
    <3> QED BY <3>1, <3>2 DEF LateInv
  <2> QED BY <2>5, <2>6
<1>3. ASSUME NEW c \in Waiters, WaitStep(c) PROVE LateInv'
  <2>1. UNCHANGED <<shutdown, log, closedAt>> /\ \E label : Goto(c, label)
    BY <1>3 DEF WaitStep, WaitEnter, WaitTest, WaitSleep, WaitReacquire, WaitTake, Dequeue
  <2> QED BY <1>r, <1>v, <2>1
<1>4. ASSUME NEW c \in Waiters, SpuriousWakeup(c) PROVE LateInv'
  BY <1>4, <1>u DEF SpuriousWakeup
<1>5. ASSUME NEW c \in Pollers, TryPopCheck(c) \/ TryPopLocked(c) PROVE LateInv'
  <2>1. UNCHANGED <<shutdown, log, closedAt>> /\ \E label : Goto(c, label)
    BY <1>5 DEF TryPopCheck, TryPopLocked, Dequeue
  <2> QED BY <1>r, <1>v, <2>1
<1>6. ASSUME NEW c \in Peekers, PeekStep(c) PROVE LateInv'
  <2>1. UNCHANGED <<shutdown, log, closedAt>> /\ \E label : Goto(c, label)
    BY <1>6 DEF PeekStep, PeekEmpty, PeekFront, PeekPop
  <2> QED BY <1>r, <1>v, <2>1
<1>7. ASSUME NEW t \in Cleaners, Clear(t) PROVE LateInv'
  <2>1. UNCHANGED <<shutdown, log, closedAt>> /\ \E label : Goto(t, label)
    BY <1>7 DEF Clear
  <2> QED BY <1>r, <1>v, <2>1
<1>8. ASSUME NEW t \in Closers, ShutdownStore(t) PROVE LateInv'
  <2>1. log' = log /\ shutdown' = TRUE /\ closedAt' = (IF shutdown THEN closedAt ELSE Len(log))
        /\ \E label : Goto(t, label)
    BY <1>8 DEF ShutdownStore
  <2>2. CASE shutdown
    BY <1>r, <1>v, <2>1, <2>2 DEF TypeOK
  <2>3. CASE ~shutdown
    <3>1. \A p \in Producers : Late(p)' = {}
      BY <1>t, <2>1, <2>3 DEF Late
    <3> QED BY <3>1 DEF LateInv
  <2> QED BY <2>2, <2>3
<1>9. ASSUME NEW t \in Closers, ShutdownNotify(t) PROVE LateInv'
  <2>1. UNCHANGED <<shutdown, log, closedAt>> /\ \E label : Goto(t, label)
    BY <1>9 DEF ShutdownNotify
  <2> QED BY <1>r, <1>v, <2>1
<1>10. CASE UNCHANGED vars
  BY <1>10, <1>u DEF vars
<1> QED
  BY <1>1, <1>2, <1>3, <1>4, <1>5, <1>6, <1>7, <1>8, <1>9, <1>10 DEF Next

(* At most one push of each producer lands after the shutdown, however many *)
(* it makes and however many threads raise the flag.                        *)
THEOREM OnePushIsLate == Spec => []OneLatePushEach
<1>1. Init => LateInv
  BY DEF Init, LateInv
<1>2. SafeInv /\ LateInv /\ [Next]_vars => LateInv'
  BY LateStep
<1>3. LateInv => OneLatePushEach
  <2> SUFFICES ASSUME LateInv, shutdown, NEW p \in Producers PROVE Cardinality(Late(p)) <= 1
    BY DEF OneLatePushEach, Late
  <2>1. \A i, j \in Late(p) : i = j
    BY DEF LateInv
  <2>2. Late(p) = {} \/ \E i \in Late(p) : Late(p) = {i}
    BY <2>1
  <2>3. CASE Late(p) = {}
    BY <2>3, FS_EmptySet
  <2>4. ASSUME NEW i \in Late(p), Late(p) = {i} PROVE Cardinality(Late(p)) <= 1
    <3>1. Cardinality({i}) = 1
      BY FS_Singleton
    <3> QED BY <2>4, <3>1
  <2> QED BY <2>2, <2>3, <2>4
<1> QED BY <1>1, <1>2, <1>3, SafeInvariant, PTL DEF Spec
==============================================================================
