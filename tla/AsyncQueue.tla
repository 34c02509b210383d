------------------------------ MODULE AsyncQueue ------------------------------
(***************************************************************************)
(* zc_async_queue (include/zc_async_queue.h): a std::queue guarded by a    *)
(* mutex, a condition variable for the consumers, and an atomic flag that  *)
(* shutdown() raises and push() and try_pop() read OUTSIDE the mutex.      *)
(*                                                                         *)
(* One action per stretch of code that is atomic to the other threads: the *)
(* unlocked read of shutdown_ is a step of its own, as is each point where *)
(* wait_and_pop holds the mutex and reads the flag that another thread may *)
(* raise meanwhile.                                                        *)
(***************************************************************************)
EXTENDS Naturals, Sequences, FiniteSets

CONSTANTS Producers,   (* threads that call push                             *)
          Waiters,     (* threads that call wait_and_pop in a loop           *)
          Pollers,     (* threads that call try_pop in a loop                *)
          Peekers,     (* threads that call empty, front and pop in a loop   *)
          Cleaners,    (* threads that call clear                            *)
          Closers,     (* threads that call shutdown (or the destructor)     *)
          Absences,    (* sets of consumers of which one is not there at all *)
          NoThread,    (* the holder of a free mutex                         *)
          MaxPushes    (* bound: pushes a producer attempts                  *)

Consumers == Waiters \union Pollers \union Peekers
Threads == Producers \union Consumers \union Cleaners \union Closers

Takers == Waiters \union Pollers \union Cleaners

ASSUME RolesAssumption ==
  /\ MaxPushes \in Nat
  /\ NoThread \notin Threads
  /\ IsFiniteSet(Waiters)
  /\ Producers \intersect (Consumers \union Cleaners \union Closers) = {}
  /\ Waiters \intersect (Pollers \union Peekers \union Cleaners \union Closers) = {}
  /\ Pollers \intersect (Peekers \union Cleaners \union Closers) = {}
  /\ Peekers \intersect (Cleaners \union Closers) = {}
  /\ Cleaners \intersect Closers = {}
  /\ \A c, d \in Peekers : c = d
  /\ Absences \subseteq SUBSET Takers

VARIABLES queue,      (* queue_                                              *)
          shutdown,   (* shutdown_                                           *)
          mutex,      (* the thread that holds mutex_, or NoThread           *)
          waitset,    (* the threads asleep on cond_                         *)
          pc,         (* where each thread is inside the operation it calls  *)
          sent,       (* pushes each producer has attempted                  *)
          log,        (* history: every value queue_ ever received, in order *)
          taken,      (* history: how many of them have left queue_          *)
          got,        (* history: what each consumer received                *)
          closedAt    (* history: Len(log) when the flag was first raised    *)

vars == <<queue, shutdown, mutex, waitset, pc, sent, log, taken, got, closedAt>>
history == <<log, taken, got, closedAt>>

Values == Producers \X (1..MaxPushes)

PcValues == {"idle", "push_lock", "try_lock", "wait_test", "wait_sleep", "in_wait",
             "wait_take", "peek_front", "peek_pop", "shutdown_lock", "done"}

Init ==
  /\ queue = <<>>
  /\ shutdown = FALSE
  /\ mutex = NoThread
  /\ waitset = {}
  /\ \E absent \in Absences : pc = [t \in Threads |-> IF t \in absent THEN "done" ELSE "idle"]
  /\ sent = [p \in Producers |-> 0]
  /\ log = <<>>
  /\ taken = 0
  /\ got = [c \in Consumers |-> <<>>]
  /\ closedAt = 0

Goto(t, label) == pc' = [pc EXCEPT ![t] = label]

(* cond_.notify_one() and cond_.notify_all()                                *)
NotifyOne == IF waitset = {} THEN waitset' = {}
             ELSE \E w \in waitset : waitset' = waitset \ {w}
NotifyAll == waitset' = {}

(* queue_.push, and queue_.front() + queue_.pop() into c's variable.        *)
Enqueue(v) ==
  /\ queue' = Append(queue, v)
  /\ log' = Append(log, v)
  /\ UNCHANGED <<taken, got, closedAt>>

Dequeue(c) ==
  /\ queue' = Tail(queue)
  /\ taken' = taken + 1
  /\ got' = [got EXCEPT ![c] = Append(@, Head(queue))]
  /\ UNCHANGED <<log, closedAt>>

-----------------------------------------------------------------------------
(* push *)
(* mutant: the flag is not tested                                           *)
PushCheckNoFlag(p) ==
  /\ pc[p] = "idle"
  /\ sent[p] < MaxPushes
  /\ sent' = [sent EXCEPT ![p] = @ + 1]
  /\ Goto(p, "push_lock")
  /\ UNCHANGED <<queue, shutdown, mutex, waitset, history>>

PushCheck(p) ==
  /\ pc[p] = "idle"
  /\ sent[p] < MaxPushes
  /\ sent' = [sent EXCEPT ![p] = @ + 1]
  /\ IF shutdown THEN UNCHANGED pc ELSE Goto(p, "push_lock")
  /\ UNCHANGED <<queue, shutdown, mutex, waitset, history>>

(* mutants: the mutex is never released; a notification only when the queue *)
(* was empty; no notification                                               *)
PushKeepsMutex(p) ==
  /\ pc[p] = "push_lock"
  /\ mutex = NoThread
  /\ mutex' = p
  /\ Enqueue(<<p, sent[p]>>)
  /\ NotifyOne
  /\ Goto(p, "idle")
  /\ UNCHANGED <<shutdown, sent>>

PushNotifiesIfEmpty(p) ==
  /\ pc[p] = "push_lock"
  /\ mutex = NoThread
  /\ Enqueue(<<p, sent[p]>>)
  /\ IF queue = <<>> THEN NotifyOne ELSE UNCHANGED waitset
  /\ Goto(p, "idle")
  /\ UNCHANGED <<shutdown, mutex, sent>>

PushDoesNotNotify(p) ==
  /\ pc[p] = "push_lock"
  /\ mutex = NoThread
  /\ Enqueue(<<p, sent[p]>>)
  /\ Goto(p, "idle")
  /\ UNCHANGED <<shutdown, mutex, waitset, sent>>

PushLocked(p) ==
  /\ pc[p] = "push_lock"
  /\ mutex = NoThread
  /\ Enqueue(<<p, sent[p]>>)
  /\ NotifyOne
  /\ Goto(p, "idle")
  /\ UNCHANGED <<shutdown, mutex, sent>>

-----------------------------------------------------------------------------
(* wait_and_pop. A waiter that was told the queue is shutting down stops.   *)
WaitEnter(c) ==
  /\ pc[c] = "idle"
  /\ mutex = NoThread
  /\ mutex' = c
  /\ Goto(c, "wait_test")
  /\ UNCHANGED <<queue, shutdown, waitset, sent, history>>

WaitTest(c) ==
  /\ pc[c] = "wait_test"
  /\ IF queue = <<>> /\ ~shutdown THEN Goto(c, "wait_sleep") ELSE Goto(c, "wait_take")
  /\ UNCHANGED <<queue, shutdown, mutex, waitset, sent, history>>

(* cond_.wait releases the mutex and joins the wait set in one step         *)
WaitSleep(c) ==
  /\ pc[c] = "wait_sleep"
  /\ waitset' = waitset \union {c}
  /\ mutex' = NoThread
  /\ Goto(c, "in_wait")
  /\ UNCHANGED <<queue, shutdown, sent, history>>

(* a condition variable may wake a thread that nobody notified              *)
SpuriousWakeup(c) ==
  /\ c \in waitset
  /\ waitset' = waitset \ {c}
  /\ UNCHANGED <<queue, shutdown, mutex, pc, sent, history>>

(* mutant: `if' in place of `while'                                         *)
WaitReacquireNoLoop(c) ==
  /\ pc[c] = "in_wait"
  /\ c \notin waitset
  /\ mutex = NoThread
  /\ mutex' = c
  /\ Goto(c, "wait_take")
  /\ UNCHANGED <<queue, shutdown, waitset, sent, history>>

(* back from cond_.wait with the mutex, to the loop's condition             *)
WaitReacquire(c) ==
  /\ pc[c] = "in_wait"
  /\ c \notin waitset
  /\ mutex = NoThread
  /\ mutex' = c
  /\ Goto(c, "wait_test")
  /\ UNCHANGED <<queue, shutdown, waitset, sent, history>>

(* mutant: a queue that shuts down is abandoned, not drained                *)
WaitTakeNoDrain(c) ==
  /\ pc[c] = "wait_take"
  /\ mutex' = NoThread
  /\ \/ /\ shutdown
        /\ Goto(c, "done")
        /\ UNCHANGED <<queue, history>>
     \/ /\ ~shutdown
        /\ Goto(c, "idle")
        /\ Dequeue(c)
  /\ UNCHANGED <<shutdown, waitset, sent>>

WaitTake(c) ==
  /\ pc[c] = "wait_take"
  /\ mutex' = NoThread
  /\ \/ /\ shutdown /\ queue = <<>>
        /\ Goto(c, "done")
        /\ UNCHANGED <<queue, history>>
     \/ /\ ~(shutdown /\ queue = <<>>)
        /\ Goto(c, "idle")
        /\ Dequeue(c)
  /\ UNCHANGED <<shutdown, waitset, sent>>

-----------------------------------------------------------------------------
(* try_pop *)
TryPopCheck(c) ==
  /\ pc[c] = "idle"
  /\ ~shutdown
  /\ Goto(c, "try_lock")
  /\ UNCHANGED <<queue, shutdown, mutex, waitset, sent, history>>

TryPopLocked(c) ==
  /\ pc[c] = "try_lock"
  /\ mutex = NoThread
  /\ Goto(c, "idle")
  /\ IF queue = <<>> THEN UNCHANGED <<queue, history>> ELSE Dequeue(c)
  /\ UNCHANGED <<shutdown, mutex, waitset, sent>>

-----------------------------------------------------------------------------
(* empty, front, pop: three separate locks. "Caller must ensure the queue   *)
(* is not empty": a peeker can only do that when nobody else takes values.  *)
Alone == \A d \in Takers : pc[d] = "done"

PeekEmpty(c) ==
  /\ pc[c] = "idle"
  /\ mutex = NoThread
  /\ Alone /\ queue # <<>>
  /\ Goto(c, "peek_front")
  /\ UNCHANGED <<queue, shutdown, mutex, waitset, sent, history>>

PeekFront(c) ==
  /\ pc[c] = "peek_front"
  /\ mutex = NoThread
  /\ got' = [got EXCEPT ![c] = Append(@, Head(queue))]
  /\ Goto(c, "peek_pop")
  /\ UNCHANGED <<queue, shutdown, mutex, waitset, sent, log, taken, closedAt>>

PeekPop(c) ==
  /\ pc[c] = "peek_pop"
  /\ mutex = NoThread
  /\ queue' = Tail(queue)
  /\ taken' = taken + 1
  /\ Goto(c, "idle")
  /\ UNCHANGED <<shutdown, mutex, waitset, sent, log, got, closedAt>>

-----------------------------------------------------------------------------
(* mutant: `if' in place of `while'                                         *)
ClearOne(t) ==
  /\ pc[t] = "idle"
  /\ mutex = NoThread
  /\ queue' = IF queue = <<>> THEN queue ELSE Tail(queue)
  /\ taken' = Len(log)
  /\ Goto(t, "done")
  /\ UNCHANGED <<shutdown, mutex, waitset, sent, log, got, closedAt>>

Clear(t) ==
  /\ pc[t] = "idle"
  /\ mutex = NoThread
  /\ queue' = <<>>
  /\ taken' = Len(log)
  /\ Goto(t, "done")
  /\ UNCHANGED <<shutdown, mutex, waitset, sent, log, got, closedAt>>

(* shutdown: the store comes before the lock                                *)
ShutdownStore(t) ==
  /\ pc[t] = "idle"
  /\ shutdown' = TRUE
  /\ closedAt' = IF shutdown THEN closedAt ELSE Len(log)
  /\ Goto(t, "shutdown_lock")
  /\ UNCHANGED <<queue, mutex, waitset, sent, log, taken, got>>

(* mutant: shutdown() notifies without taking the mutex                     *)
ShutdownNotifyUnlocked(t) ==
  /\ pc[t] = "shutdown_lock"
  /\ NotifyAll
  /\ Goto(t, "done")
  /\ UNCHANGED <<queue, shutdown, mutex, sent, history>>

ShutdownNotify(t) ==
  /\ pc[t] = "shutdown_lock"
  /\ mutex = NoThread
  /\ NotifyAll
  /\ Goto(t, "done")
  /\ UNCHANGED <<queue, shutdown, mutex, sent, history>>

-----------------------------------------------------------------------------
WaitStep(c) == WaitEnter(c) \/ WaitTest(c) \/ WaitSleep(c) \/ WaitReacquire(c) \/ WaitTake(c)
PeekStep(c) == PeekEmpty(c) \/ PeekFront(c) \/ PeekPop(c)

Next ==
  \/ \E p \in Producers : PushCheck(p) \/ PushLocked(p)
  \/ \E c \in Waiters : WaitStep(c) \/ SpuriousWakeup(c)
  \/ \E c \in Pollers : TryPopCheck(c) \/ TryPopLocked(c)
  \/ \E c \in Peekers : PeekStep(c)
  \/ \E t \in Cleaners : Clear(t)
  \/ \E t \in Closers : ShutdownStore(t) \/ ShutdownNotify(t)

Spec == Init /\ [][Next]_vars

(* A thread that has begun an operation is scheduled again, and a waiter    *)
(* keeps calling wait_and_pop. Nobody has to begin a push or a shutdown.    *)
Fairness ==
  /\ \A c \in Waiters : WF_vars(WaitStep(c))
  /\ \A p \in Producers : WF_vars(PushLocked(p))
  /\ \A t \in Closers : WF_vars(ShutdownNotify(t))

FairSpec == Spec /\ Fairness

-----------------------------------------------------------------------------
TypeOK ==
  /\ queue \in Seq(Values)
  /\ shutdown \in BOOLEAN
  /\ mutex \in Waiters \union {NoThread}
  /\ waitset \in SUBSET Waiters
  /\ pc \in [Threads -> PcValues]
  /\ sent \in [Producers -> 0..MaxPushes]
  /\ log \in Seq(Values)
  /\ taken \in Nat
  /\ got \in [Consumers -> Seq(Values)]
  /\ closedAt \in Nat

(* Waiters that will look at the queue before they can sleep: notified and  *)
(* not yet back with the mutex, or holding it before their next test.       *)
Woken == {c \in Waiters : \/ pc[c] = "in_wait" /\ c \notin waitset
                          \/ pc[c] \in {"wait_test", "wait_take"}}

(* Every value in the queue has a consumer on its way to it for as long as  *)
(* anyone sleeps: notify_one is called once for each push, a waiter goes    *)
(* to sleep only on an empty queue it inspected under the mutex, and it     *)
(* inspects again after each wakeup, so no wakeup is lost however push,     *)
(* try_pop and wait_and_pop interleave.                                     *)
NoLostWakeup == waitset # {} => Len(queue) <= Cardinality(Woken)

(* Once shutdown() has finished no thread is asleep in wait_and_pop, and    *)
(* none falls asleep afterwards, although the flag is raised outside the    *)
(* mutex that the sleepers test it under.                                   *)
ShutdownWakesAll ==
  shutdown /\ (\A t \in Closers : pc[t] # "shutdown_lock") => waitset = {}

(* wait_and_pop never calls front() or pop() on an empty std::queue, nor    *)
(* does a lone consumer that tests empty() first: the value it tested for   *)
(* is still there when it takes the mutex again.                            *)
PopNeverEmpty ==
  /\ \A c \in Waiters : pc[c] = "wait_take" /\ queue = <<>> => shutdown
  /\ \A c \in Peekers : pc[c] \in {"peek_front", "peek_pop"} => queue # <<>>

(* The flag is tested outside the mutex, so a push may land after the       *)
(* shutdown; at most one for each producer does, the one that had already   *)
(* passed the test.                                                         *)
OneLatePushEach ==
  shutdown => \A p \in Producers :
    Cardinality({i \in (closedAt + 1)..Len(log) : log[i][1] = p}) <= 1

(* queue_ is exactly what was pushed and has not left, in push order.       *)
QueueIsUntakenLog ==
  /\ taken <= Len(log)
  /\ queue = SubSeq(log, taken + 1, Len(log))

(* Every value pushed while a waiter keeps calling wait_and_pop leaves the  *)
(* queue.                                                                   *)
ValuesAreConsumed ==
  (\E c \in Waiters : pc[c] # "done") /\ queue # <<>> /\ ~shutdown ~> queue = <<>> \/ shutdown

-----------------------------------------------------------------------------
(* The queue implements the channel it promises, wait_and_pop being inside  *)
(* a blocking receive from its first lock to its last unlock.               *)
Parked == {c \in Waiters : pc[c] \in {"wait_test", "wait_sleep", "in_wait", "wait_take"}}

Channel == INSTANCE BlockingChannel WITH
             Clients <- Waiters, chan <- queue, closed <- shutdown, parked <- Parked

ChannelSafety == Channel!SafeSpec
ChannelSpec == Channel!Spec
==============================================================================
