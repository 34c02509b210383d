---------------------------- MODULE PullBuffers ----------------------------
(***************************************************************************)
(* Two containers of one thread: zc_active_queue, which asks for values    *)
(* when it has none (include/zc_active_queue.h), and zc_running_average    *)
(* of whole numbers (include/zc_running_average.h). The callback of the    *)
(* queue may push and pop itself. Values are numbered as they are pushed.  *)
(***************************************************************************)
EXTENDS Integers, Sequences, SequencesExt

CONSTANTS AverageLength,       (* N                                          *)
          AverageLimit,        (* T, a signed type, has the values from      *)
                               (* -AverageLimit up to AverageLimit - 1       *)
          SizeLimit,           (* size_t has the values up to SizeLimit - 1  *)
          Samples,             (* the values that are added                  *)
          MaxSamples, MaxPulls, MaxDepth   (* bounds                         *)

ASSUME PullAssumption ==
  /\ AverageLength \in Nat \ {0} /\ AverageLimit \in Nat \ {0} /\ SizeLimit \in Nat
  /\ SizeLimit >= 2 * AverageLimit
  /\ Samples \subseteq -AverageLimit..AverageLimit - 1

VARIABLES queue, pulls,
          asking,              (* who waits for low_callback_, innermost last *)
          listening,           (* a callback is set                          *)
          popped,              (* the values pop has returned                *)
          average, added       (* the object; all the values added since clear *)

pullVars == <<queue, pulls, asking, listening, popped>>
averageVars == <<average, added>>
-----------------------------------------------------------------------------
PullInit == queue = <<>> /\ pulls = 0 /\ asking = <<>> /\ listening = FALSE /\ popped = <<>>

SetLowCallback ==
  /\ asking = <<>> /\ listening' = TRUE
  /\ \E immediate \in BOOLEAN : asking' = IF immediate /\ queue = <<>> THEN <<"set_low_callback">> ELSE <<>>
  /\ UNCHANGED <<queue, pulls, popped>>

PullPush ==
  /\ pulls < MaxPulls /\ pulls' = pulls + 1 /\ queue' = Append(queue, pulls')
  /\ UNCHANGED <<asking, listening, popped>>

(* pop, by the application or by the callback                               *)
Pull ==
  \/ /\ queue # <<>> /\ popped' = Append(popped, Head(queue)) /\ queue' = Tail(queue)
     /\ UNCHANGED <<pulls, asking, listening>>
  \/ /\ queue = <<>> /\ listening /\ Len(asking) < MaxDepth /\ asking' = Append(asking, "pop")
     /\ UNCHANGED <<queue, pulls, listening, popped>>

(* The callback returns to a pop, which takes a value if there is one now   *)
(* and throws through all the callbacks if not                              *)
CallbackReturns ==
  /\ asking # <<>>
  /\ CASE Last(asking) # "pop" -> asking' = Front(asking) /\ UNCHANGED <<queue, popped>>
       [] Last(asking) = "pop" /\ queue = <<>> -> asking' = <<>> /\ UNCHANGED <<queue, popped>>
       [] OTHER -> asking' = Front(asking) /\ popped' = Append(popped, Head(queue)) /\ queue' = Tail(queue)
  /\ UNCHANGED <<pulls, listening>>

PullNext == SetLowCallback \/ PullPush \/ Pull \/ CallbackReturns
PullSpec == PullInit /\ [][PullNext]_pullVars
-----------------------------------------------------------------------------
Signed(x) == ((x + AverageLimit) % (2 * AverageLimit)) - AverageLimit

(* accumulator_ / size_: the accumulator becomes unsigned                   *)
Quotient(sum, size) == Signed((sum % SizeLimit) \div size)

AverageInit ==
  /\ added = <<>>
  /\ average = [fifo |-> [k \in 0..AverageLength - 1 |-> 0], head |-> 0, tail |-> 0, size |-> 0, sum |-> 0,
                mean |-> 0]

(* mutant: the oldest value stays in the sum                                *)
FreedKept(a) ==
  IF a.size = AverageLength THEN [a EXCEPT !.head = (@ + 1) % AverageLength] ELSE [a EXCEPT !.size = @ + 1]

(* Room for one more                                                        *)
Freed(a) ==
  IF a.size = AverageLength
  THEN [a EXCEPT !.sum = Signed(@ - a.fifo[a.head]), !.head = (@ + 1) % AverageLength]
  ELSE [a EXCEPT !.size = @ + 1]

Stored(a, value) ==
  LET sum == Signed(a.sum + value)
  IN  [a EXCEPT !.fifo[a.tail] = value, !.tail = (@ + 1) % AverageLength, !.sum = sum,
       !.mean = Quotient(sum, a.size)]

AddSample ==
  /\ Len(added) < MaxSamples
  /\ \E value \in Samples : average' = Stored(Freed(average), value) /\ added' = Append(added, value)

ClearAverage ==
  /\ added # <<>> /\ added' = <<>>
  /\ average' = [average EXCEPT !.head = 0, !.tail = 0, !.size = 0, !.sum = 0, !.mean = 0]

AverageNext == AddSample \/ ClearAverage
AverageSpec == AverageInit /\ [][AverageNext]_averageVars
-----------------------------------------------------------------------------
(* What is popped is what was pushed, in that order, however the callback   *)
(* pushes and pops                                                          *)
PulledInOrder == popped \o queue = [k \in 1..pulls |-> k]

(* What the first k values come to                                          *)
Totals(values) ==
  LET upto[k \in 0..Len(values)] == IF k = 0 THEN 0 ELSE upto[k - 1] + values[k]
  IN  upto

(* The mean is that of the last N values whenever their sum (that of all    *)
(* less that of the older) fits the type and is not negative, also after    *)
(* sums that did not fit                                                    *)
AverageIsMean ==
  LET n == IF Len(added) < AverageLength THEN Len(added) ELSE AverageLength
      sum == Totals(added)[Len(added)] - Totals(added)[Len(added) - n]
  IN  /\ average.size = n
      /\ n > 0 /\ sum \in 0..AverageLimit - 1 => average.mean = sum \div n

BuffersAreTrue == PulledInOrder /\ AverageIsMean
=============================================================================
