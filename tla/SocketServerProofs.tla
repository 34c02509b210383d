-------------------------- MODULE SocketServerProofs --------------------------
(***************************************************************************)
(* ThreadQuiesced and ServedInTurn for any clients, segments, runs and     *)
(* ring, whichever protocol and however often the server is run and closed. *)
(*                                                                         *)
(* The main thread is a stack of calls, and FLTK may enter cb_th_packet    *)
(* again on top of any of them. Stacked says once what a step that replaces *)
(* the innermost call can do to the others; each action is shown to be such *)
(* a step, and the invariants then speak of the calls in progress (At) and *)
(* of the packets in the application's hands (InHand), not of their places. *)
(***************************************************************************)
EXTENDS SocketServer, SequenceTheorems, TLAPS

Frames == [at : Calls, packet : Packets \union {<<>>}]

(* Calls that begin while others are in progress                            *)
Inner == {"drain", "serving", "error", "shut"}

At == {main[k].at : k \in 1..Len(main)}

(* Packets that do_request is being called with, and those still queued     *)
InHand == {main[k].packet : k \in {j \in 1..Len(main) : main[j].at = "serving"}}
Queued == {q_packet[k] : k \in 1..Len(q_packet)}

(* run_server and close_server(true) begin in FLTK's loop, below all else   *)
StackInv ==
  \A k \in 1..Len(main) :
    /\ main[k].at \in {"start", "return"} => k = Len(main)
    /\ main[k].at = "serving" => main[k].packet \in Packets

RunInv ==
  /\ world \in Worlds /\ runs <= world.runs
  /\ "start" \in At => runs < world.runs
  /\ \A i \in Runs : tpc[i] = "none" <=> i > runs
  /\ DOMAIN buffer = Runs
  /\ \A i \in Runs : tpc[i] = "push" => buffer[i] \in Packets

(* A thread exists for each run, and one that pushes has something to push  *)
TypeInv == TypeOK /\ StackInv /\ RunInv

-----------------------------------------------------------------------------
(* The main thread's calls: the innermost is replaced by others             *)
LEMMA CallIsFrame ==
  ASSUME NEW at \in Calls
  PROVE  Call(at) \in Frames /\ Call(at).at = at
BY DEF Call, Frames

LEMMA Replaced ==
  ASSUME NEW S, main \in Seq(S), main # <<>>, NEW pre \in Seq(S), main' = pre \o Tail(main)
  PROVE  /\ main' \in Seq(S) /\ Len(main') = Len(pre) + Len(main) - 1
         /\ \A k \in 1..Len(main') :
              \/ k \in 1..Len(pre) /\ main'[k] = pre[k]
              \/ \E j \in 2..Len(main) : main'[k] = main[j] /\ (j = Len(main) <=> k = Len(main'))
         /\ \A j \in 2..Len(main) : \E k \in 1..Len(main') : main'[k] = main[j]
<1>1. /\ Len(main) \in Nat \ {0} /\ Len(pre) \in Nat
      /\ Tail(main) \in Seq(S) /\ Len(Tail(main)) = Len(main) - 1
      /\ \A j \in 1..Len(main) - 1 : Tail(main)[j] = main[j + 1]
  BY LenProperties, EmptySeq, HeadTailProperties
<1>2. /\ main' \in Seq(S) /\ Len(main') = Len(pre) + Len(Tail(main))
      /\ \A k \in 1..Len(pre) + Len(Tail(main)) :
           main'[k] = IF k <= Len(pre) THEN pre[k] ELSE Tail(main)[k - Len(pre)]
  BY <1>1, ConcatProperties
<1>3. Len(main') = Len(pre) + Len(main) - 1
  BY <1>1, <1>2
<1>4. ASSUME NEW k \in 1..Len(main'), ~(k \in 1..Len(pre))
      PROVE  \E j \in 2..Len(main) : main'[k] = main[j] /\ (j = Len(main) <=> k = Len(main'))
  <2>1. k - Len(pre) \in 1..Len(main) - 1 /\ ~(k <= Len(pre)) /\ k \in 1..Len(pre) + Len(Tail(main))
    BY <1>1, <1>2, <1>3, <1>4
  <2>2. main'[k] = Tail(main)[k - Len(pre)]
    BY <1>2, <2>1
  <2>3. main'[k] = main[k - Len(pre) + 1]
    BY <1>1, <2>1, <2>2
  <2>4. k - Len(pre) + 1 \in 2..Len(main) /\ (k - Len(pre) + 1 = Len(main) <=> k = Len(main'))
    BY <1>1, <1>3, <2>1
  <2> QED BY <2>3, <2>4
<1>5. ASSUME NEW k \in 1..Len(pre) PROVE main'[k] = pre[k]
  BY <1>1, <1>2
<1>6. ASSUME NEW j \in 2..Len(main) PROVE \E k \in 1..Len(main') : main'[k] = main[j]
  <2>1. j - 1 + Len(pre) \in 1..Len(pre) + Len(Tail(main)) /\ ~(j - 1 + Len(pre) <= Len(pre))
        /\ j - 1 + Len(pre) - Len(pre) = j - 1 /\ j - 1 \in 1..Len(main) - 1 /\ j - 1 + 1 = j
    BY <1>1
  <2>2. main'[j - 1 + Len(pre)] = Tail(main)[j - 1]
    BY <1>2, <2>1
  <2>3. main'[j - 1 + Len(pre)] = main[j]
    BY <1>1, <2>1, <2>2
  <2> QED BY <1>2, <2>1, <2>3
<1> QED BY <1>2, <1>3, <1>4, <1>5, <1>6

(* What becomes of the stack in such a step                                 *)
Stacked ==
  /\ main' \in Seq(Frames) /\ StackInv'
  /\ At' \subseteq At \union Inner
  /\ \A at \in At : at = Top.at \/ at \in At'
  /\ Top.at \in {"start", "return"} => At' \subseteq Inner /\ At = {Top.at}
  /\ InHand' \subseteq InHand \union Queued

Beginning(f) == f.at \in Inner /\ (f.at = "serving" => f.packet \in Packets \cap Queued)

LEMMA StackReplaced ==
  ASSUME main \in Seq(Frames), StackInv, main # <<>>, NEW pre \in Seq(Frames),
         \A k \in 1..Len(pre) : Beginning(pre[k]),
         main' = pre \o Tail(main)
  PROVE  Stacked
<1>1. /\ main' \in Seq(Frames) /\ Len(main') = Len(pre) + Len(main) - 1
      /\ \A k \in 1..Len(main') :
           \/ k \in 1..Len(pre) /\ main'[k] = pre[k]
           \/ \E j \in 2..Len(main) : main'[k] = main[j] /\ (j = Len(main) <=> k = Len(main'))
      /\ \A j \in 2..Len(main) : \E k \in 1..Len(main') : main'[k] = main[j]
  BY Replaced
<1>2. Len(main) \in Nat \ {0} /\ Top = main[1]
  BY LenProperties, EmptySeq, HeadTailProperties DEF Top
<1>3. StackInv'
  <2>1. SUFFICES ASSUME NEW k \in 1..Len(main')
                 PROVE  /\ main'[k].at \in {"start", "return"} => k = Len(main')
                        /\ main'[k].at = "serving" => main'[k].packet \in Packets
    BY DEF StackInv
  <2>2. CASE k \in 1..Len(pre) /\ main'[k] = pre[k]
    BY <2>2 DEF Inner, Beginning
  <2>3. CASE \E j \in 2..Len(main) : main'[k] = main[j] /\ (j = Len(main) <=> k = Len(main'))
    <3>1. PICK j \in 2..Len(main) : main'[k] = main[j] /\ (j = Len(main) <=> k = Len(main'))
      BY <2>3
    <3>2. j \in 1..Len(main)
      BY <1>2
    <3> QED BY <3>1, <3>2 DEF StackInv
  <2> QED BY <1>1, <2>2, <2>3
<1>4. At' \subseteq At \union Inner
  <2> SUFFICES ASSUME NEW k \in 1..Len(main') PROVE main'[k].at \in At \union Inner
    BY DEF At
  <2>1. CASE k \in 1..Len(pre) /\ main'[k] = pre[k]
    BY <2>1 DEF Beginning
  <2>2. CASE \E j \in 2..Len(main) : main'[k] = main[j]
    <3>1. PICK j \in 2..Len(main) : main'[k] = main[j]
      BY <2>2
    <3>2. j \in 1..Len(main)
      BY <1>2
    <3> QED BY <3>1, <3>2 DEF At
  <2> QED BY <1>1, <2>1, <2>2
<1>5. \A at \in At : at = Top.at \/ at \in At'
  <2> SUFFICES ASSUME NEW j \in 1..Len(main) PROVE main[j].at = Top.at \/ main[j].at \in At'
    BY DEF At
  <2>1. j = 1 \/ j \in 2..Len(main)
    BY <1>2
  <2> QED BY <1>1, <1>2, <2>1 DEF At
<1>6. ASSUME Top.at \in {"start", "return"} PROVE At' \subseteq Inner /\ At = {Top.at}
  <2>0. 1 \in 1..Len(main)
    BY <1>2
  <2>1. Len(main) = 1
    BY <1>2, <1>6, <2>0 DEF StackInv
  <2>2. \A k \in 1..Len(main') : main'[k].at \in Inner
    BY <1>1, <2>1 DEF Beginning
  <2>3. 1..Len(main) = {1}
    BY <2>1
  <2>4. At = {Top.at}
    BY <1>2, <2>3 DEF At
  <2> QED BY <2>2, <2>4 DEF At
<1>7. InHand' \subseteq InHand \union Queued
  <2> SUFFICES ASSUME NEW k \in 1..Len(main'), main'[k].at = "serving"
               PROVE  main'[k].packet \in InHand \union Queued
    BY DEF InHand
  <2>1. CASE k \in 1..Len(pre) /\ main'[k] = pre[k]
    BY <2>1 DEF Beginning
  <2>2. CASE \E j \in 2..Len(main) : main'[k] = main[j]
    <3>1. PICK j \in 2..Len(main) : main'[k] = main[j]
      BY <2>2
    <3>2. j \in 1..Len(main)
      BY <1>2
    <3> QED BY <3>1, <3>2 DEF InHand
  <2> QED BY <1>1, <2>1, <2>2
<1> QED BY <1>1, <1>3, <1>4, <1>5, <1>6, <1>7 DEF Stacked

LEMMA Returned ==
  ASSUME main \in Seq(Frames), StackInv, main # <<>>, Return
  PROVE  Stacked
<1>1. Tail(main) \in Seq(Frames)
  BY HeadTailProperties
<1>2. main' = <<>> \o Tail(main) /\ <<>> \in Seq(Frames) /\ Len(<<>>) = 0
  BY <1>1, ConcatEmptySeq, EmptySeq DEF Return
<1> DEFINE pre == <<>>
<1>3. \A k \in 1..Len(pre) : Beginning(pre[k])
  BY <1>2
<1>4. pre \in Seq(Frames) /\ main' = pre \o Tail(main)
  BY <1>2
<1> HIDE DEF pre
<1> QED BY <1>3, <1>4, StackReplaced

LEMMA WentTo ==
  ASSUME main \in Seq(Frames), StackInv, main # <<>>, NEW at \in {"drain", "error", "shut"}, Goto(at)
  PROVE  Stacked
<1>1. Call(at) \in Frames /\ Call(at).at = at
  BY CallIsFrame DEF Calls, CheckPoints
<1>2. <<Call(at)>> \in Seq(Frames) /\ Len(<<Call(at)>>) = 1 /\ <<Call(at)>>[1] = Call(at)
  BY <1>1
<1> DEFINE pre == <<Call(at)>>
<1>3. main' = pre \o Tail(main) /\ pre \in Seq(Frames)
  BY <1>2 DEF Goto
<1>4. \A k \in 1..Len(pre) : Beginning(pre[k])
  BY <1>1, <1>2 DEF Inner, Beginning
<1> HIDE DEF pre
<1> QED BY <1>3, <1>4, StackReplaced

(* What a step of the main thread does to its calls                         *)
LEMMA Began ==
  ASSUME NEW a \in Calls \ {"start", "return", "serving"}, NEW b \in {"start", "return"},
         main' = <<Call(a), Call(b)>>
  PROVE  main' \in Seq(Frames) /\ StackInv' /\ At' = {a, b} /\ InHand' = {}
<1>1. Call(a) \in Frames /\ Call(b) \in Frames /\ Call(a).at = a /\ Call(b).at = b
  BY CallIsFrame DEF Calls
<1>2. main' \in Seq(Frames) /\ Len(main') = 2 /\ main'[1] = Call(a) /\ main'[2] = Call(b)
  BY <1>1
<1>3. 1..Len(main') = {1, 2}
  BY <1>2
<1>4. At' = {main'[1].at, main'[2].at}
  BY <1>3 DEF At
<1>5. StackInv'
  BY <1>1, <1>2, <1>3 DEF StackInv
<1>6. InHand' = {}
  BY <1>1, <1>2, <1>3 DEF InHand
<1> QED BY <1>1, <1>2, <1>4, <1>5, <1>6

LEMMA Pushed ==
  ASSUME main \in Seq(Frames), StackInv, main' = <<Call("drain")>> \o main
  PROVE  /\ main' \in Seq(Frames) /\ StackInv'
         /\ At' \subseteq At \union Inner /\ At \subseteq At' /\ InHand' \subseteq InHand
<1>1. Call("drain") \in Frames /\ Call("drain").at = "drain"
  BY CallIsFrame DEF Calls
<1>2. <<Call("drain")>> \in Seq(Frames) /\ Len(<<Call("drain")>>) = 1
  BY <1>1
<1>3. /\ Len(main) \in Nat /\ main' \in Seq(Frames) /\ Len(main') = 1 + Len(main)
      /\ \A k \in 1..1 + Len(main) : main'[k] = IF k <= 1 THEN <<Call("drain")>>[k] ELSE main[k - 1]
  BY <1>2, ConcatProperties, LenProperties
<1>4. main'[1] = Call("drain") /\ \A k \in 1..Len(main) : main'[k + 1] = main[k]
  BY <1>3
<1>5. \A k \in 1..Len(main') : k = 1 \/ (k - 1 \in 1..Len(main) /\ main'[k] = main[k - 1])
  BY <1>3
<1>6. StackInv'
  <2> SUFFICES ASSUME NEW k \in 1..Len(main')
               PROVE  /\ main'[k].at \in {"start", "return"} => k = Len(main')
                      /\ main'[k].at = "serving" => main'[k].packet \in Packets
    BY DEF StackInv
  <2>1. CASE k = 1
    BY <1>1, <1>4, <2>1
  <2>2. CASE k - 1 \in 1..Len(main) /\ main'[k] = main[k - 1]
    <3>1. /\ main[k - 1].at \in {"start", "return"} => k - 1 = Len(main)
          /\ main[k - 1].at = "serving" => main[k - 1].packet \in Packets
      BY <2>2 DEF StackInv
    <3> QED BY <1>3, <2>2, <3>1
  <2> QED BY <1>5, <2>1, <2>2
<1>7. At' \subseteq At \union Inner
  <2> SUFFICES ASSUME NEW k \in 1..Len(main') PROVE main'[k].at \in At \union Inner
    BY DEF At
  <2> QED BY <1>1, <1>4, <1>5 DEF At, Inner
<1>8. At \subseteq At'
  <2> SUFFICES ASSUME NEW k \in 1..Len(main) PROVE main[k].at \in At'
    BY DEF At
  <2>1. k + 1 \in 1..Len(main')
    BY <1>3
  <2> QED BY <1>4, <2>1 DEF At
<1>9. InHand' \subseteq InHand
  <2> SUFFICES ASSUME NEW k \in 1..Len(main'), main'[k].at = "serving" PROVE main'[k].packet \in InHand
    BY DEF InHand
  <2> QED BY <1>1, <1>4, <1>5 DEF InHand
<1> QED BY <1>3, <1>6, <1>7, <1>8, <1>9

LEMMA DrainStacked ==
  ASSUME TypeOK, StackInv, Drain
  PROVE  Stacked
<1>1. main \in Seq(Frames) /\ main # <<>> /\ q_packet \in Seq(Packets)
  BY DEF TypeOK, Frames, Drain, In
<1>2. CASE q_packet = <<>>
  BY <1>1, <1>2, Returned DEF Drain
<1>3. CASE q_packet # <<>>
  <2> DEFINE f == [at |-> "serving", packet |-> Head(q_packet)]
             pre == <<f>>
  <2>1. Head(q_packet) \in Packets /\ Head(q_packet) \in Queued
    <3>1. Len(q_packet) \in Nat \ {0} /\ Head(q_packet) = q_packet[1] /\ q_packet[1] \in Packets
      BY <1>1, <1>3, LenProperties, EmptySeq, HeadTailProperties
    <3>2. 1 \in 1..Len(q_packet)
      BY <3>1
    <3> QED BY <3>1, <3>2 DEF Queued
  <2>2. f \in Frames /\ f.at = "serving" /\ f.packet \in Packets \cap Queued
    BY <2>1 DEF Frames, Calls, CheckPoints
  <2>3. main' = pre \o Tail(main)
    BY <1>3 DEF Drain
  <2> HIDE DEF f
  <2>4. pre \in Seq(Frames) /\ Len(pre) = 1 /\ pre[1] = f
    BY <2>2
  <2>5. \A k \in 1..Len(pre) : Beginning(pre[k])
    BY <2>2, <2>4 DEF Inner, Beginning
  <2> HIDE DEF pre
  <2> QED BY <1>1, <2>3, <2>4, <2>5, StackReplaced
<1> QED BY <1>2, <1>3

LEMMA ServeStacked ==
  ASSUME TypeOK, StackInv, NEW answer \in Answers, Serve(answer)
  PROVE  Stacked
<1>1. main \in Seq(Frames) /\ main # <<>>
  BY DEF TypeOK, Frames, Serve, In
<1>2. CASE Goto("drain")
  BY <1>1, <1>2, WentTo
<1>3. CASE main' = <<Call("error"), Call("drain")>> \o Tail(main)
  <2> DEFINE pre == <<Call("error"), Call("drain")>>
  <2>1. /\ Call("error") \in Frames /\ Call("error").at = "error"
        /\ Call("drain") \in Frames /\ Call("drain").at = "drain"
    BY CallIsFrame DEF Calls, CheckPoints
  <2>2. pre \in Seq(Frames) /\ Len(pre) = 2 /\ pre[1] = Call("error") /\ pre[2] = Call("drain")
    BY <2>1
  <2>3. main' = pre \o Tail(main)
    BY <1>3
  <2> HIDE DEF pre
  <2>4. \A k \in 1..Len(pre) : Beginning(pre[k])
    <3>1. \A k \in 1..Len(pre) : k = 1 \/ k = 2
      BY <2>2
    <3> QED BY <2>1, <2>2, <3>1 DEF Inner, Beginning
  <2> QED BY <1>1, <2>2, <2>3, <2>4, StackReplaced
<1> QED BY <1>2, <1>3 DEF Serve

(* The rest of the main thread's steps                                      *)
LEMMA MainStacked ==
  ASSUME TypeOK, StackInv,
         (\E ok \in BOOLEAN : Created(ok)) \/ StartThread \/ ErrorClose \/ Shut \/ CloseWait \/ CloseEnd
  PROVE  Stacked
<1>1. main \in Seq(Frames) /\ main # <<>>
  BY DEF TypeOK, Frames, Created, StartThread, ErrorClose, Shut, CloseWait, CloseEnd, In
<1>2. Return \/ Goto("error") \/ Goto("shut")
  BY DEF Created, StartThread, ErrorClose, Shut, CloseWait, CloseEnd
<1> QED BY <1>1, <1>2, Returned, WentTo

-----------------------------------------------------------------------------
LEMMA TypeInvInit == Init => TypeInv
<1> SUFFICES ASSUME Init PROVE TypeInv
  OBVIOUS
<1>1. main = <<>> /\ Len(main) = 0 /\ main \in Seq(Frames)
  BY DEF Init
<1>2. TypeOK
  <2>1. 0 \in 0..MaxRuns /\ 0 \in 0..MaxSegments
    BY ServerAssumption
  <2>2. <<>> \in Seq(Packets) /\ <<>> \in Seq(Segments)
    OBVIOUS
  <2>3. sent \in [Clients -> 0..MaxSegments] /\ stream \in [Clients -> Seq(Segments)]
    BY <2>1, <2>2 DEF Init
  <2>4. tpc \in [Runs -> ThreadLabels] /\ \A i \in Runs : buffer[i] = <<>>
    BY DEF Init, ThreadLabels
  <2>5. RingOK
    <3>1. world.others \in Nat /\ RingSize \in Nat /\ <<>> \in Seq({"packet", "other"}) /\ Len(<<>>) = 0
      BY ServerAssumption DEF Init
    <3>2. 0 <= RingSize
      BY <3>1
    <3> QED BY <3>1, <3>2 DEF Init, RingOK
  <2> QED BY <1>1, <2>1, <2>2, <2>3, <2>4, <2>5 DEF Init, TypeOK, Frames
<1>3. StackInv /\ At = {}
  BY <1>1 DEF StackInv, At
<1>4. RunInv
  <2>1. 0 <= world.runs /\ world \in Worlds /\ runs = 0
    BY ServerAssumption DEF Init
  <2>2. \A i \in Runs : i > runs /\ tpc[i] = "none"
    BY DEF Init, Runs
  <2>3. DOMAIN buffer = Runs
    BY DEF Init
  <2> QED BY <1>3, <2>1, <2>2, <2>3 DEF RunInv
<1> QED BY <1>2, <1>3, <1>4 DEF TypeInv

(* What recvfrom or recv returns                                            *)
LEMMA IncomingIsPacket ==
  ASSUME TypeOK, NEW p \in Incoming
  PROVE  /\ p \in Packets
         /\ [stream EXCEPT ![p.from] = SubSeq(@, Len(p.data) + 1, Len(@))] \in [Clients -> Seq(Segments)]
         /\ world.protocol # "UDP" => p.from = peer
<1>1. stream \in [Clients -> Seq(Segments)]
  BY DEF TypeOK
<1>2. p \in Packets /\ (world.protocol # "UDP" => p.from = peer)
  <2>1. CASE world.protocol = "UDP"
    <3>1. PICK c \in Clients : stream[c] # <<>> /\ p = [from |-> c, data |-> <<stream[c][1]>>]
      BY <2>1 DEF Incoming
    <3>2. stream[c][1] \in Segments
      BY <1>1, <3>1
    <3> QED BY <2>1, <3>1, <3>2 DEF Packets
  <2>2. CASE world.protocol # "UDP"
    <3>1. /\ peer # NoClient
          /\ \E n \in 1..Len(stream[peer]) : p = [from |-> peer, data |-> SubSeq(stream[peer], 1, n)]
      BY <2>2 DEF Incoming
    <3>2. PICK n \in 1..Len(stream[peer]) : p = [from |-> peer, data |-> SubSeq(stream[peer], 1, n)]
      BY <3>1
    <3>3. peer \in Clients /\ stream[peer] \in Seq(Segments)
      BY <1>1, <3>1 DEF TypeOK
    <3>4. \A k \in 1..n : stream[peer][k] \in Segments
      BY <3>2, <3>3
    <3>5. n \in Nat \ {0}
      BY <3>2, <3>3
    <3>6. SubSeq(stream[peer], 1, n) \in Seq(Segments) /\ Len(SubSeq(stream[peer], 1, n)) = n
      BY <3>4, <3>5, SubSeqProperties
    <3>7. SubSeq(stream[peer], 1, n) # <<>>
      BY <3>5, <3>6
    <3> QED BY <2>2, <3>2, <3>3, <3>6, <3>7 DEF Packets
  <2> QED BY <2>1, <2>2
<1>3. p.from \in Clients /\ Len(p.data) \in Nat
  BY <1>2 DEF Packets
<1>4. stream[p.from] \in Seq(Segments)
  BY <1>1, <1>3
<1>5. SubSeq(stream[p.from], Len(p.data) + 1, Len(stream[p.from])) \in Seq(Segments)
  <2> DEFINE s == stream[p.from]
             m == Len(p.data) + 1
  <2>1. m \in Int /\ m >= 1 /\ Len(s) \in Int /\ s \in Seq(Segments)
    BY <1>3, <1>4
  <2> HIDE DEF s, m
  <2>2. \A k \in m..Len(s) : s[k] \in Segments
    BY <2>1
  <2>3. SubSeq(s, m, Len(s)) \in Seq(Segments)
    BY <2>1, <2>2, SubSeqProperties
  <2> QED BY <2>3 DEF s, m
<1> QED BY <1>1, <1>2, <1>3, <1>5

(* FLTK's ring, which others write to and read from as well                 *)
LEMMA RingKeepsType ==
  ASSUME RingOK, Next
  PROVE  RingOK'
<1> DEFINE Entries == {"packet", "other"}
<1>1. ring \in Seq(Entries) /\ Len(ring) \in Nat /\ RingSize \in Nat /\ others \in Nat /\ lost \in BOOLEAN
  BY LenProperties, ServerAssumption DEF RingOK
<1>2. ASSUME NEW e \in Entries, Len(ring) < RingSize, ring' = Append(ring, e)
      PROVE  ring' \in Seq(Entries) /\ Len(ring') <= RingSize
  <2>1. ring' \in Seq(Entries) /\ Len(ring') = Len(ring) + 1
    BY <1>1, <1>2, AppendProperties
  <2> QED BY <1>1, <1>2, <2>1
<1>3. ASSUME ring # <<>>, ring' = Tail(ring)
      PROVE  ring' \in Seq(Entries) /\ Len(ring') <= RingSize
  <2>1. ring' \in Seq(Entries) /\ Len(ring') = Len(ring) - 1
    BY <1>1, <1>3, HeadTailProperties
  <2> QED BY <1>1, <2>1 DEF RingOK
<1>4. CASE UNCHANGED ringVars
  BY <1>4 DEF RingOK, ringVars
<1>5. CASE MainAwake \/ MainOther
  <2>1. ring # <<>> /\ ring' = Tail(ring) /\ UNCHANGED <<others, lost>>
    BY <1>5 DEF MainAwake, MainOther
  <2> QED BY <1>1, <1>3, <2>1 DEF RingOK
<1>6. CASE OthersAwake
  <2>1. Len(ring) < RingSize /\ ring' = Append(ring, "other") /\ lost' = lost
        /\ others > 0 /\ others' = others - 1
    BY <1>6 DEF OthersAwake
  <2> QED BY <1>1, <1>2, <2>1 DEF RingOK
<1>7. ASSUME NEW i \in Runs, Awake(i) PROVE RingOK'
  <2>1. others' = others /\ lost' \in BOOLEAN
    BY <1>7 DEF Awake
  <2>2. ring' = ring \/ (Len(ring) < RingSize /\ ring' = Append(ring, "packet"))
    BY <1>7 DEF Awake
  <2>3. ring' \in Seq(Entries) /\ Len(ring') <= RingSize
    BY <1>2, <2>2 DEF RingOK
  <2> QED BY <1>1, <2>1, <2>3 DEF RingOK
<1>8. CASE Network \/ MainChoice
  <2>1. UNCHANGED ringVars
    BY <1>8 DEF Network, MainChoice, Connect, Transmit, Disconnect, CloseBegin, RunServer
  <2> QED BY <1>4, <2>1
<1>9. CASE MainProgress /\ ~MainAwake /\ ~MainOther
  <2>1. UNCHANGED ringVars
    BY <1>9 DEF MainProgress, Created, StartThread, ErrorClose, Shut, CloseWait, CloseEnd, Drain, Serve
  <2> QED BY <1>4, <2>1
<1>10. ASSUME NEW i \in Runs, ThreadStep(i), ~Awake(i) PROVE RingOK'
  <2>1. UNCHANGED ringVars
    BY <1>10 DEF ThreadStep, ThreadStart, Accept, Receive, ReceiveNothing, QueuePacket, LoopTest, ThreadExit
  <2> QED BY <1>4, <2>1
<1> QED BY <1>5, <1>6, <1>7, <1>8, <1>9, <1>10 DEF Next, Elsewhere

(* A step of the others, or FLTK's call for one of their entries, changes   *)
(* nothing but the ring                                                    *)
LEMMA RingOnly ==
  ASSUME MainOther \/ OthersAwake
  PROVE  /\ UNCHANGED <<closing, closed, server, peer, tpc, buffer, q_packet, main, runs, quiet>>
         /\ UNCHANGED <<sent, stream, backlog, gone, received, served, replies>>
BY DEF MainOther, OthersAwake, threadVars, mainVars, netVars, history

LEMMA RingOnlyKeepsTypes ==
  ASSUME TypeInv, (MainOther \/ OthersAwake) /\ UNCHANGED world
  PROVE  TypeInv'
<1>1. RingOK'
  <2>1. Next
    BY DEF Next, MainProgress, Elsewhere
  <2> QED BY <2>1, RingKeepsType DEF TypeInv, TypeOK
<1> QED BY <1>1, RingOnly DEF TypeInv, TypeOK, StackInv, RunInv, At

LEMMA ThreadKeepsTypes ==
  ASSUME TypeInv, NEW i \in Runs, ThreadStep(i)
  PROVE  TypeInv'
<1>0. RingOK'
  BY RingKeepsType DEF TypeInv, TypeOK, Next
<1>1. UNCHANGED <<world, server, mainVars, sent, gone>>
  BY DEF ThreadStep, ThreadStart, Accept, Receive, ReceiveNothing, QueuePacket, Awake, LoopTest, ThreadExit,
     netVars
<1>2. StackInv' /\ At' = At
  BY <1>1 DEF mainVars, StackInv, At, TypeInv
<1>3. CASE ThreadStart(i)
  <2>1. stream' \in [Clients -> Seq(Segments)]
    <3>1. stream' = stream \/ stream' = LeaveClient
      BY <1>3 DEF ThreadStart
    <3>2. stream \in [Clients -> Seq(Segments)] /\ <<>> \in Seq(Segments)
      BY DEF TypeInv, TypeOK
    <3>3. LeaveClient \in [Clients -> Seq(Segments)]
      BY <3>2 DEF LeaveClient
    <3> QED BY <3>1, <3>2, <3>3
  <2>2. UNCHANGED <<buffer, q_packet, backlog>>
    BY <1>3 DEF ThreadStart
  <2>3. peer' \in Clients \union {NoClient} /\ closed' \in BOOLEAN /\ closing' \in BOOLEAN
    <3>1. peer' = peer \/ peer' = NoClient
      BY <1>3 DEF ThreadStart
    <3>2. peer \in Clients \union {NoClient} /\ closing \in BOOLEAN
      BY DEF TypeInv, TypeOK
    <3> QED BY <1>3, <3>1, <3>2 DEF ThreadStart
  <2>4. tpc' = [tpc EXCEPT ![i] = "accept"] \/ tpc' = [tpc EXCEPT ![i] = "recv"]
    BY <1>3 DEF ThreadStart
  <2>5. tpc[i] = "new"
    BY <1>3 DEF ThreadStart
  <2>6. TypeOK'
    BY <1>0, <1>1, <2>1, <2>2, <2>3, <2>4 DEF TypeInv, TypeOK, mainVars, ThreadLabels
  <2>7. RunInv'
    BY <1>1, <1>2, <2>2, <2>4, <2>5 DEF TypeInv, TypeOK, RunInv, mainVars
  <2> QED BY <1>2, <2>6, <2>7 DEF TypeInv
<1>4. CASE Accept(i)
  <2>1. UNCHANGED <<buffer, q_packet, stream, closing, closed>>
    BY <1>4 DEF Accept
  <2>2. tpc' = [tpc EXCEPT ![i] = "recv"] \/ tpc' = tpc
    BY <1>4 DEF Accept
  <2>3. peer' \in Clients \union {NoClient} /\ backlog' \in SUBSET Clients
    BY <1>4 DEF Accept, TypeInv, TypeOK
  <2>4. TypeOK'
    BY <1>0, <1>1, <2>1, <2>2, <2>3 DEF TypeInv, TypeOK, mainVars, ThreadLabels
  <2>5. RunInv'
    BY <1>1, <1>2, <1>4, <2>1, <2>2 DEF TypeInv, TypeOK, RunInv, mainVars, Accept
  <2> QED BY <1>2, <2>4, <2>5 DEF TypeInv
<1>5. CASE Receive(i)
  <2>1. /\ UNCHANGED <<q_packet, closing, closed, backlog>>
        /\ tpc[i] = "recv" /\ tpc' = [tpc EXCEPT ![i] = "push"]
    BY <1>5 DEF Receive
  <2>2. PICK p \in Incoming :
          /\ peer' = p.from /\ buffer' = [buffer EXCEPT ![i] = p]
          /\ stream' = [stream EXCEPT ![p.from] = SubSeq(@, Len(p.data) + 1, Len(@))]
    BY <1>5 DEF Receive
  <2>3. p \in Packets /\ p.from \in Clients /\ stream' \in [Clients -> Seq(Segments)]
    BY <2>2, IncomingIsPacket DEF TypeInv, Packets
  <2>4. TypeOK'
    BY <1>0, <1>1, <2>1, <2>2, <2>3 DEF TypeInv, TypeOK, RunInv, mainVars, ThreadLabels
  <2>5. RunInv'
    BY <1>1, <1>2, <2>1, <2>2, <2>3 DEF TypeInv, TypeOK, RunInv, mainVars
  <2> QED BY <1>2, <2>4, <2>5 DEF TypeInv
<1>6. CASE QueuePacket(i)
  <2>1. /\ UNCHANGED <<peer, closing, closed, backlog, stream>>
        /\ tpc' = [tpc EXCEPT ![i] = "awake"] /\ tpc[i] = "push"
        /\ q_packet' = Append(q_packet, buffer[i]) /\ buffer' = [buffer EXCEPT ![i] = <<>>]
    BY <1>6 DEF QueuePacket, netVars
  <2>2. buffer[i] \in Packets /\ q_packet \in Seq(Packets)
    BY <2>1 DEF TypeInv, RunInv, TypeOK
  <2>3. q_packet' \in Seq(Packets)
    BY <2>1, <2>2, AppendProperties
  <2>4. TypeOK'
    BY <1>0, <1>1, <2>1, <2>3 DEF TypeInv, TypeOK, RunInv, mainVars, ThreadLabels
  <2>5. RunInv'
    BY <1>1, <1>2, <2>1 DEF TypeInv, TypeOK, RunInv, mainVars
  <2> QED BY <1>2, <2>4, <2>5 DEF TypeInv
<1>7. CASE ReceiveNothing(i) \/ Awake(i) \/ LoopTest(i) \/ ThreadExit(i)
  <2>1. UNCHANGED <<peer, buffer, q_packet, closing, backlog, stream>>
    BY <1>7 DEF ReceiveNothing, Awake, LoopTest, ThreadExit, netVars
  <2>2. closed' \in BOOLEAN
    <3>1. closed \in BOOLEAN
      BY DEF TypeInv, TypeOK
    <3>2. closed' = closed \/ closed' = TRUE
      BY <1>7 DEF ReceiveNothing, Awake, LoopTest, ThreadExit
    <3> QED BY <3>1, <3>2
  <2>3. /\ tpc[i] \in {"recv", "awake", "test", "exit"}
        /\ \E l \in {"test", "exit", "recv", "done"} : tpc' = [tpc EXCEPT ![i] = l]
    BY <1>7 DEF ReceiveNothing, Awake, LoopTest, ThreadExit
  <2>4. TypeOK'
    BY <1>0, <1>1, <2>1, <2>2, <2>3 DEF TypeInv, TypeOK, mainVars, ThreadLabels
  <2>5. RunInv'
    BY <1>1, <1>2, <2>1, <2>3 DEF TypeInv, TypeOK, RunInv, mainVars
  <2> QED BY <1>2, <2>4, <2>5 DEF TypeInv
<1> QED BY <1>3, <1>4, <1>5, <1>6, <1>7 DEF ThreadStep

LEMMA NetworkKeepsTypes ==
  ASSUME TypeInv, Network
  PROVE  TypeInv'
<1>1. PICK c \in Clients : Connect(c) \/ Transmit(c) \/ Disconnect(c)
  BY DEF Network
<1>2. UNCHANGED <<world, closing, closed, server, peer, tpc, buffer, q_packet, ringVars, main, runs, quiet>>
  BY <1>1 DEF Network, Connect, Transmit, Disconnect, mainVars, threadVars
<1>3. StackInv' /\ RunInv'
  BY <1>2 DEF TypeInv, StackInv, RunInv, At
<1>4. backlog' \in SUBSET Clients /\ gone' \in SUBSET Clients
  BY <1>1 DEF Connect, Transmit, Disconnect, TypeInv, TypeOK
<1>5. sent' \in [Clients -> 0..MaxSegments] /\ stream' \in [Clients -> Seq(Segments)]
  <2>1. sent \in [Clients -> 0..MaxSegments] /\ stream \in [Clients -> Seq(Segments)]
    BY DEF TypeInv, TypeOK
  <2>2. CASE Transmit(c)
    <3>1. /\ sent[c] \in 0..MaxSegments /\ sent[c] < world.segments
          /\ world.segments \in 0..MaxSegments /\ MaxSegments \in Nat
      BY <2>1, <2>2, ServerAssumption DEF Transmit, TypeInv, RunInv
    <3>2. sent[c] + 1 \in 0..MaxSegments /\ sent[c] + 1 \in 1..MaxSegments
      BY <3>1
    <3>3. sent' \in [Clients -> 0..MaxSegments] /\ sent'[c] = sent[c] + 1
      BY <2>1, <2>2, <3>2 DEF Transmit
    <3>4. <<c, sent'[c]>> \in Segments
      BY <3>2, <3>3 DEF Segments
    <3>5. stream[c] \in Seq(Segments)
      BY <2>1
    <3>6. Append(stream[c], <<c, sent'[c]>>) \in Seq(Segments)
      BY <3>4, <3>5, AppendProperties
    <3>7. stream' = [stream EXCEPT ![c] = Append(stream[c], <<c, sent'[c]>>)]
      BY <2>2 DEF Transmit
    <3> QED BY <2>1, <3>3, <3>6, <3>7
  <2>3. CASE Connect(c) \/ Disconnect(c)
    BY <2>1, <2>3 DEF Connect, Disconnect
  <2> QED BY <1>1, <2>2, <2>3
<1> QED BY <1>2, <1>3, <1>4, <1>5 DEF TypeInv, TypeOK, RingOK, ringVars

(* Every step of the main thread: what it changes keeps its type            *)
LEMMA MainKeepsTypes ==
  ASSUME TypeInv, MainProgress \/ MainChoice, ~MainOther
  PROVE  TypeInv'
<1>1. UNCHANGED <<world, peer, closed, buffer, sent, gone>>
  BY DEF MainProgress, MainChoice, Created, StartThread, ErrorClose, Shut, CloseWait, CloseEnd, MainAwake,
     Drain, Serve, CloseBegin, RunServer, netVars, threadVars
<1>2. main \in Seq(Frames) /\ StackInv /\ TypeOK
  BY DEF TypeInv, TypeOK, Frames
<1>3. closing' \in BOOLEAN /\ quiet' \in BOOLEAN
  BY DEF TypeInv, TypeOK, MainProgress, MainChoice, Created, StartThread, ErrorClose, Shut, CloseWait,
     CloseEnd, MainAwake, Drain, Serve, CloseBegin, RunServer
<1>4. q_packet' \in Seq(Packets)
  <2>1. q_packet \in Seq(Packets)
    BY <1>2 DEF TypeOK
  <2>2. q_packet' = q_packet \/ (q_packet # <<>> /\ q_packet' = Tail(q_packet))
    BY DEF MainProgress, MainChoice, Created, StartThread, ErrorClose, Shut, CloseWait, CloseEnd, MainAwake,
       Drain, Serve, CloseBegin, RunServer
  <2> QED BY <2>1, <2>2, HeadTailProperties
<1>5. RingOK'
  BY RingKeepsType DEF TypeInv, TypeOK, Next
<1>6. stream' \in [Clients -> Seq(Segments)] /\ backlog' \in SUBSET Clients
  <2>1. stream \in [Clients -> Seq(Segments)] /\ backlog \in SUBSET Clients /\ <<>> \in Seq(Segments)
    BY <1>2 DEF TypeOK
  <2>2. CASE Shut
    BY <2>1, <2>2 DEF Shut, ForgetServer
  <2>3. CASE ~Shut
    BY <2>1, <2>3 DEF MainProgress, MainChoice, Created, StartThread, ErrorClose, CloseWait, CloseEnd,
       MainAwake, Drain, Serve, CloseBegin, RunServer, netVars
  <2> QED BY <2>2, <2>3
<1>7. world \in Worlds /\ world.runs \in 1..MaxRuns /\ MaxRuns \in Nat \ {0} /\ runs \in 0..MaxRuns
      /\ server \in 0..MaxRuns
  BY <1>2, ServerAssumption DEF TypeInv, RunInv, TypeOK
<1>8. server' \in 0..MaxRuns
  <2>1. server' = server \/ server' = 0 \/ (server' = runs + 1 /\ runs < world.runs)
    BY DEF MainProgress, MainChoice, Created, StartThread, ErrorClose, Shut, CloseWait, CloseEnd, MainAwake,
       Drain, Serve, CloseBegin, RunServer
  <2> QED BY <1>7, <2>1
<1>9. CASE StartThread
  <2>1. Stacked
    BY <1>2, <1>9, MainStacked
  <2>2. main # <<>> /\ Top.at = "start"
    BY <1>9 DEF StartThread, In
  <2>3. "start" \in At
    <3>1. Len(main) \in Nat \ {0} /\ Top = main[1]
      BY <1>2, <2>2, LenProperties, EmptySeq, HeadTailProperties DEF Top
    <3>2. 1 \in 1..Len(main)
      BY <3>1
    <3> QED BY <2>2, <3>1, <3>2 DEF At
  <2>4. "start" \notin At'
    BY <2>1, <2>2 DEF Stacked, Inner
  <2>5. runs < world.runs
    BY <2>3 DEF TypeInv, RunInv
  <2>6. runs' = runs + 1 /\ runs + 1 \in Runs /\ runs + 1 \in 0..MaxRuns /\ runs + 1 <= world.runs
    BY <1>7, <1>9, <2>5 DEF StartThread, Runs
  <2>7. tpc' = [tpc EXCEPT ![runs + 1] = "new"] /\ tpc \in [Runs -> ThreadLabels]
    BY <1>2, <1>9 DEF StartThread, TypeOK
  <2>8. TypeOK'
    BY <1>1, <1>2, <1>3, <1>4, <1>5, <1>6, <1>8, <2>1, <2>6, <2>7 DEF TypeOK, Stacked, Frames, ThreadLabels
  <2>9. ASSUME NEW i \in Runs
        PROVE  (tpc'[i] = "none" <=> i > runs') /\ (tpc'[i] = "push" => buffer'[i] \in Packets)
    <3>1. CASE i = runs + 1
      BY <2>6, <2>7, <3>1, <1>7
    <3>2. CASE i # runs + 1
      <4>1. tpc'[i] = tpc[i]
        BY <2>6, <2>7, <3>2
      <4>2. i > runs + 1 <=> i > runs
        BY <1>7, <3>2 DEF Runs
      <4> QED BY <1>1, <2>6, <4>1, <4>2 DEF TypeInv, RunInv
    <3> QED BY <3>1, <3>2
  <2>10. RunInv'
    BY <1>1, <1>7, <2>4, <2>6, <2>9 DEF TypeInv, RunInv
  <2> QED BY <2>1, <2>8, <2>10 DEF TypeInv, Stacked
<1>10. CASE ~StartThread
  <2>1. tpc' = tpc /\ runs' = runs
    BY <1>10 DEF MainProgress, MainChoice, Created, ErrorClose, Shut, CloseWait, CloseEnd, MainAwake,
       Drain, Serve, CloseBegin, RunServer, threadVars
  <2>2. main' \in Seq(Frames) /\ StackInv' /\ ("start" \in At' => runs < world.runs)
    <3>1. CASE \E opened \in BOOLEAN : RunServer(opened)
      <4>1. PICK opened \in BOOLEAN : RunServer(opened)
        BY <3>1
      <4> DEFINE a == IF opened THEN "opened" ELSE "error"
      <4>2. a \in Calls \ {"start", "return", "serving"}
        BY DEF Calls, CheckPoints
      <4>3. main' = <<Call(a), Call("start")>> /\ runs < world.runs
        BY <4>1 DEF RunServer
      <4> HIDE DEF a
      <4> QED BY <4>2, <4>3, Began
    <3>2. CASE CloseBegin
      <4>1. main' = <<Call("wait"), Call("return")>>
        BY <3>2 DEF CloseBegin
      <4>2. "wait" \in Calls \ {"start", "return", "serving"}
        BY DEF Calls, CheckPoints
      <4>3. main' \in Seq(Frames) /\ StackInv' /\ At' = {"wait", "return"}
        BY <4>1, <4>2, Began
      <4> QED BY <4>3
    <3>3. CASE MainAwake
      <4>1. main' = <<Call("drain")>> \o main
        BY <3>3 DEF MainAwake
      <4>2. main' \in Seq(Frames) /\ StackInv' /\ At' \subseteq At \union Inner
        BY <1>2, <4>1, Pushed
      <4> QED BY <4>2 DEF Inner, TypeInv, RunInv
    <3>4. CASE Stacked
      BY <3>4 DEF Stacked, Inner, TypeInv, RunInv
    <3>5. CASE ~(\E opened \in BOOLEAN : RunServer(opened)) /\ ~CloseBegin /\ ~MainAwake
      <4>1. \/ Drain \/ \E a \in Answers : Serve(a)
            \/ \E ok \in BOOLEAN : Created(ok)
            \/ ErrorClose \/ Shut \/ CloseWait \/ CloseEnd
        BY <1>10, <3>5 DEF MainProgress, MainChoice
      <4>2. Stacked
        BY <1>2, <4>1, MainStacked, DrainStacked, ServeStacked
      <4> QED BY <3>4, <4>2
    <3> QED BY <3>1, <3>2, <3>3, <3>5
  <2>3. TypeOK'
    BY <1>1, <1>2, <1>3, <1>4, <1>5, <1>6, <1>8, <2>1, <2>2 DEF TypeOK, Frames
  <2>4. RunInv'
    BY <1>1, <2>1, <2>2 DEF TypeInv, RunInv
  <2> QED BY <2>2, <2>3, <2>4 DEF TypeInv
<1> QED BY <1>9, <1>10

LEMMA TypeInvStep == TypeInv /\ [Next]_vars => TypeInv'
<1> SUFFICES ASSUME TypeInv, [Next]_vars PROVE TypeInv'
  OBVIOUS
<1>1. CASE UNCHANGED vars
  BY <1>1 DEF vars, mainVars, netVars, threadVars, ringVars, TypeInv, TypeOK, RingOK, StackInv, RunInv, At
<1>2. CASE Next
  <2>1. CASE (MainOther \/ OthersAwake) /\ UNCHANGED world
    BY <2>1, RingOnlyKeepsTypes
  <2>2. CASE (MainProgress \/ MainChoice) /\ ~MainOther
    BY <2>2, MainKeepsTypes
  <2>3. CASE Network
    BY <2>3, NetworkKeepsTypes
  <2>4. CASE \E i \in Runs : ThreadStep(i)
    BY <2>4, ThreadKeepsTypes
  <2>5. MainOther /\ (MainProgress \/ MainChoice) => UNCHANGED world
    BY DEF MainProgress, MainChoice
  <2> QED BY <1>2, <2>1, <2>2, <2>3, <2>4, <2>5 DEF Next, Elsewhere
<1> QED BY <1>1, <1>2

(* Every variable keeps its type in every behaviour, a packet held by a    *)
(* thread or by a call of do_request included.                             *)
THEOREM SocketTypeCorrect == Spec => []TypeOK
<1>1. TypeInv => TypeOK
  BY DEF TypeInv
<1> QED BY <1>1, TypeInvInit, TypeInvStep, PTL DEF Spec

-----------------------------------------------------------------------------
(* At most one thread is between "new" and "done": that of the latest run. *)
(* It is out of its loop, and closed_ is FALSE until then, before           *)
(* close_server(true) returns.                                             *)
Quiescing ==
  /\ \A i \in Runs : i < runs => tpc[i] = "done"
  /\ quiet => runs > 0 /\ tpc[runs] = "done"
  /\ "start" \in At /\ runs > 0 => quiet
  /\ runs > 0 /\ tpc[runs] \notin {"new", "done"} => ~closed
  /\ "wait" \in At \/ "return" \in At => runs > 0 /\ tpc[runs] # "new"
  /\ "return" \in At => "wait" \in At \/ tpc[runs] = "done"

QuietInv == world.patient => Quiescing

LEMMA TopIsAt ==
  ASSUME TypeOK, main # <<>>
  PROVE  Top.at \in At
<1>1. main \in Seq(Frames)
  BY DEF TypeOK, Frames
<1>2. Len(main) \in Nat \ {0} /\ Top = main[1]
  BY <1>1, LenProperties, EmptySeq, HeadTailProperties DEF Top
<1>3. 1 \in 1..Len(main)
  BY <1>2
<1> QED BY <1>2, <1>3 DEF At

LEMMA QuietInvStep ==
  ASSUME TypeInv, QuietInv, [Next]_vars
  PROVE  QuietInv'
<1> SUFFICES ASSUME world'.patient PROVE Quiescing'
  BY DEF QuietInv
<1>0. world' = world
  BY DEF Next, MainProgress, MainChoice, Network, Elsewhere, ThreadStep, vars
<1>1. Quiescing /\ TypeOK /\ RunInv /\ StackInv /\ main \in Seq(Frames)
  BY <1>0 DEF QuietInv, TypeInv, TypeOK, Frames
<1>2. /\ runs \in Nat /\ MaxRuns \in Nat /\ Runs \subseteq Nat /\ (runs > 0 => runs \in Runs)
      /\ tpc \in [Runs -> ThreadLabels]
  BY <1>1, ServerAssumption DEF TypeOK, Runs
<1>3. CASE UNCHANGED <<tpc, closed, runs, quiet, main>>
  BY <1>1, <1>3 DEF At, Quiescing
<1>4. ASSUME NEW i \in Runs, ThreadStep(i) PROVE Quiescing'
  <2>1. UNCHANGED mainVars /\ At' = At
    BY <1>4 DEF ThreadStep, ThreadStart, Accept, Receive, ReceiveNothing, QueuePacket, Awake, LoopTest,
       ThreadExit, mainVars, At
  <2>2. tpc[i] \notin {"none", "done"}
    BY <1>4 DEF ThreadStep, ThreadStart, Accept, Receive, ReceiveNothing, QueuePacket, Awake, LoopTest,
       ThreadExit
  <2>3. i = runs /\ runs > 0
    BY <1>1, <1>2, <2>2 DEF RunInv, Runs, Quiescing
  <2>4. \E l \in ThreadLabels \ {"none", "new"} :
          tpc' = [tpc EXCEPT ![i] = l] /\ (l = "done" <=> ThreadExit(i))
    <3>1. CASE ThreadExit(i)
      BY <3>1 DEF ThreadExit, ThreadLabels
    <3>2. CASE Accept(i)
      <4>1. tpc' = [tpc EXCEPT ![i] = "recv"] \/ tpc' = [tpc EXCEPT ![i] = "accept"]
        BY <1>2, <3>2 DEF Accept
      <4> QED BY <3>2, <4>1 DEF ThreadLabels, Accept, ThreadExit
    <3>3. CASE ~ThreadExit(i) /\ ~Accept(i)
      BY <1>4, <3>3 DEF ThreadStep, ThreadStart, Receive, ReceiveNothing, QueuePacket, Awake, LoopTest,
         ThreadLabels
    <3> QED BY <3>1, <3>2, <3>3
  <2>5. PICK l \in ThreadLabels \ {"none", "new"} :
          tpc' = [tpc EXCEPT ![i] = l] /\ (l = "done" <=> ThreadExit(i))
    BY <2>4
  <2>6. tpc'[i] = l /\ \A j \in Runs : j # i => tpc'[j] = tpc[j]
    BY <1>2, <2>5
  <2>7. l # "done" => ~closed'
    BY <1>1, <1>4, <2>2, <2>3, <2>5 DEF Quiescing, ThreadStep, ThreadStart, Accept, Receive, ReceiveNothing,
       QueuePacket, Awake, LoopTest
  <2>8. \A j \in Runs : j < runs => tpc'[j] = "done"
    BY <1>1, <1>2, <2>3, <2>6 DEF Quiescing
  <2>9. ~quiet
    BY <1>1, <2>2, <2>3 DEF Quiescing
  <2>10. "return" \in At => "wait" \in At
    BY <1>1, <2>2, <2>3 DEF Quiescing
  <2> QED BY <1>1, <2>1, <2>3, <2>5, <2>6, <2>7, <2>8, <2>9, <2>10 DEF mainVars, Quiescing
<1>5. CASE Network
  BY <1>3, <1>5 DEF Network, Connect, Transmit, Disconnect, mainVars, threadVars
<1>6. CASE StartThread
  <2>1. Stacked /\ main # <<>> /\ Top.at = "start"
    BY <1>1, <1>6, MainStacked DEF StartThread, In
  <2>2. At' \subseteq Inner /\ "start" \in At
    BY <1>1, <2>1, TopIsAt DEF Stacked
  <2>3. runs' = runs + 1 /\ tpc' = [tpc EXCEPT ![runs + 1] = "new"] /\ ~quiet'
    BY <1>6 DEF StartThread
  <2>4. runs + 1 \in Runs
    BY <1>1, <1>2, <2>2, ServerAssumption DEF RunInv, Runs
  <2>5. tpc'[runs'] = "new"
    BY <1>2, <2>3, <2>4
  <2>6. ASSUME NEW j \in Runs, j < runs' PROVE tpc'[j] = "done"
    <3>1. j < runs \/ (j = runs /\ runs > 0)
      BY <1>2, <2>3, <2>6 DEF Runs
    <3>2. j # runs + 1
      BY <1>2, <2>3, <2>6
    <3>3. tpc'[j] = tpc[j]
      BY <1>2, <2>3, <2>4, <3>2
    <3> QED BY <1>1, <2>2, <3>1, <3>3 DEF Quiescing
  <2> QED BY <2>2, <2>3, <2>5, <2>6 DEF Inner, Quiescing
<1>7. CASE \E opened \in BOOLEAN : RunServer(opened)
  <2>1. PICK opened \in BOOLEAN : RunServer(opened)
    BY <1>7
  <2>2. UNCHANGED <<tpc, closed, runs, quiet>> /\ (runs > 0 => quiet)
    BY <1>0, <2>1 DEF RunServer, threadVars
  <2>3. "wait" \notin At' /\ "return" \notin At'
    <3> DEFINE a == IF opened THEN "opened" ELSE "error"
    <3>1. a \in {"opened", "error"} /\ main' = <<Call(a), Call("start")>>
      BY <2>1 DEF RunServer
    <3> HIDE DEF a
    <3>2. At' = {a, "start"}
      BY <3>1, Began DEF Calls, CheckPoints
    <3> QED BY <3>1, <3>2
  <2> QED BY <1>1, <2>2, <2>3 DEF Quiescing
<1>8. CASE CloseBegin
  <2>1. main' = <<Call("wait"), Call("return")>> /\ UNCHANGED <<tpc, closed, runs, quiet>>
        /\ runs > 0 /\ tpc[runs] # "new"
    BY <1>0, <1>8 DEF CloseBegin, threadVars
  <2>2. At' = {"wait", "return"}
    BY <2>1, Began DEF Calls, CheckPoints
  <2> QED BY <1>1, <2>1, <2>2 DEF Quiescing
<1>9. CASE MainAwake
  <2>1. main' = <<Call("drain")>> \o main /\ UNCHANGED <<tpc, closed, runs, quiet>>
    BY <1>9 DEF MainAwake, threadVars
  <2>2. At' \subseteq At \union Inner /\ At \subseteq At'
    BY <1>1, <2>1, Pushed
  <2> QED BY <1>1, <2>1, <2>2 DEF Inner, Quiescing
<1>10. CASE CloseWait
  <2>1. Stacked /\ Top.at = "wait" /\ main # <<>> /\ closed /\ UNCHANGED <<tpc, closed, runs, quiet>>
    BY <1>1, <1>10, MainStacked DEF CloseWait, In, threadVars
  <2>2. "wait" \in At
    BY <1>1, <2>1, TopIsAt
  <2>3. runs > 0 /\ tpc[runs] = "done"
    BY <1>1, <2>1, <2>2 DEF Quiescing
  <2> QED BY <1>1, <2>1, <2>3 DEF Stacked, Inner, Quiescing
<1>11. CASE CloseEnd
  <2>1. Stacked /\ Top.at = "return" /\ main # <<>> /\ UNCHANGED <<tpc, closed, runs>>
    BY <1>1, <1>11, MainStacked DEF CloseEnd, In, threadVars
  <2>2. "return" \in At /\ At = {"return"} /\ At' \subseteq Inner
    BY <1>1, <2>1, TopIsAt DEF Stacked
  <2>3. runs > 0 /\ tpc[runs] = "done"
    BY <1>1, <2>2 DEF Quiescing
  <2> QED BY <1>1, <2>1, <2>2, <2>3 DEF Inner, Quiescing
<1>12. ASSUME \/ Drain \/ \E a \in Answers : Serve(a)
              \/ \E ok \in BOOLEAN : Created(ok)
              \/ ErrorClose \/ Shut
       PROVE  Quiescing'
  <2>1. Stacked /\ UNCHANGED <<tpc, closed, runs, quiet>>
    BY <1>1, <1>12, MainStacked, DrainStacked, ServeStacked DEF Drain, Serve, Created, ErrorClose, Shut,
       threadVars
  <2>2. Top.at \notin {"wait", "start", "return"}
    BY <1>12 DEF Drain, Serve, Created, ErrorClose, Shut, In
  <2>3. At' \subseteq At \union Inner /\ ("wait" \in At => "wait" \in At')
    BY <2>1, <2>2 DEF Stacked
  <2> QED BY <1>1, <2>1, <2>3 DEF Inner, Quiescing
<1>13. CASE UNCHANGED vars \/ MainOther \/ OthersAwake
  BY <1>3, <1>13, RingOnly DEF vars, threadVars, mainVars
<1> QED
  BY <1>4, <1>5, <1>6, <1>7, <1>8, <1>9, <1>10, <1>11, <1>12, <1>13 DEF Next, MainProgress, MainChoice,
     Elsewhere

(* Two threads never receive at the same time, however many runs there are, *)
(* when the application closes the server only once its thread is up; and   *)
(* close_server(true) returns to such an application when no thread is, or  *)
(* can start, receiving.                                                   *)
THEOREM ServerQuiesces == Spec => []ThreadQuiesced
<1>1. Init => QuietInv
  BY DEF Init, QuietInv, Quiescing, At, Runs
<1>2. TypeInv /\ QuietInv => ThreadQuiesced
  <2> SUFFICES ASSUME TypeInv, QuietInv, world.patient 
                 PROVE  /\ \A i, j \in Runs : Receiving(i) /\ Receiving(j) => i = j
                        /\ quiet => \A i \in Runs : tpc[i] \in {"none", "done"}
    BY DEF ThreadQuiesced
  <2>1. runs \in Nat /\ Runs \subseteq Nat
    BY ServerAssumption DEF TypeInv, TypeOK, Runs
  <2>2. \A i \in Runs : tpc[i] \notin {"none", "done"} => i = runs
    BY <2>1 DEF TypeInv, RunInv, QuietInv, Quiescing
  <2>3. \A i, j \in Runs : Receiving(i) /\ Receiving(j) => i = j
    BY <2>2 DEF Receiving
  <2>4. quiet => \A i \in Runs : tpc[i] \in {"none", "done"}
    BY <2>2 DEF QuietInv, Quiescing
  <2> QED BY <2>3, <2>4
<1> QED BY <1>1, <1>2, TypeInvInit, TypeInvStep, QuietInvStep, PTL DEF Spec

-----------------------------------------------------------------------------
(* Where the packets received are: given to the application, queued, or in *)
(* the hands of the one thread that can have received them.                *)
InOrder == world.patient \/ world.runs = 1

Ordered ==
  /\ \A k \in 1..Len(served) : received[k] = served[k]
  /\ \A k \in 1..Len(q_packet) : received[Len(served) + k] = q_packet[k]
  /\ Len(received) >= Len(served) + Len(q_packet)
  /\ (\A i \in Runs : tpc[i] # "push") => Len(received) = Len(served) + Len(q_packet)
  /\ \A i \in Runs : tpc[i] = "push" =>
       /\ Len(received) = Len(served) + Len(q_packet) + 1
       /\ received[Len(received)] = buffer[i]

OrderInv ==
  /\ received \in Seq(Packets) /\ served \in Seq(Packets)
  /\ InOrder => Ordered

LEMMA OneThread ==
  ASSUME TypeInv, QuietInv, InOrder, NEW i \in Runs, tpc[i] \notin {"none", "done"}
  PROVE  i = runs
<1>1. runs \in Nat /\ i \in Nat \ {0} /\ world.runs \in Nat /\ runs <= world.runs
  BY ServerAssumption DEF TypeInv, TypeOK, RunInv, Runs
<1>2. i <= runs
  BY <1>1 DEF TypeInv, RunInv
<1>3. world.patient => ~(i < runs)
  BY DEF QuietInv, Quiescing
<1> QED BY <1>1, <1>2, <1>3 DEF InOrder

LEMMA OrderInvStep ==
  ASSUME TypeInv, QuietInv, OrderInv, [Next]_vars
  PROVE  OrderInv'
<1>0. world' = world /\ (InOrder' <=> InOrder)
  BY DEF Next, MainProgress, MainChoice, Network, Elsewhere, ThreadStep, vars, InOrder
<1>1. /\ received \in Seq(Packets) /\ served \in Seq(Packets) /\ q_packet \in Seq(Packets)
      /\ Len(received) \in Nat /\ Len(served) \in Nat /\ Len(q_packet) \in Nat
  BY LenProperties DEF OrderInv, TypeInv, TypeOK
<1>2. CASE \E i \in Runs : Receive(i)
  <2>1. PICK i \in Runs : Receive(i)
    BY <1>2
  <2>2. PICK p \in Incoming : buffer' = [buffer EXCEPT ![i] = p] /\ received' = Append(received, p)
    BY <2>1 DEF Receive
  <2>3. p \in Packets
    BY <2>2, IncomingIsPacket DEF TypeInv
  <2>4. UNCHANGED <<served, q_packet>> /\ tpc[i] = "recv" /\ tpc' = [tpc EXCEPT ![i] = "push"]
    BY <2>1 DEF Receive
  <2>5. /\ received' \in Seq(Packets) /\ Len(received') = Len(received) + 1
        /\ received'[Len(received) + 1] = p
        /\ \A k \in 1..Len(received) : received'[k] = received[k]
    BY <1>1, <2>2, <2>3, AppendProperties
  <2>6. ASSUME Ordered, InOrder PROVE Ordered'
    <3>1. \A j \in Runs : tpc[j] # "push"
      BY <2>4, <2>6, OneThread
    <3>2. Len(received) = Len(served) + Len(q_packet)
      BY <2>6, <3>1 DEF Ordered
    <3>3. ASSUME NEW k \in 1..Len(served) PROVE received'[k] = served[k]
      BY <1>1, <2>5, <2>6, <3>2 DEF Ordered
    <3>4. ASSUME NEW k \in 1..Len(q_packet) PROVE received'[Len(served) + k] = q_packet[k]
      <4>1. Len(served) + k \in 1..Len(received)
        BY <1>1, <3>2
      <4> QED BY <2>5, <2>6, <4>1 DEF Ordered
    <3>5. tpc'[i] = "push" /\ buffer'[i] = p /\ \A j \in Runs : tpc'[j] = "push" => j = i
      BY <2>2, <2>4, <3>1 DEF TypeInv, TypeOK, RunInv
    <3>6. Len(received') = Len(served) + Len(q_packet) + 1 /\ Len(received') >= Len(served) + Len(q_packet)
      BY <1>1, <2>5, <3>2
    <3> QED BY <2>4, <2>5, <3>3, <3>4, <3>5, <3>6 DEF Ordered
  <2> QED BY <1>0, <1>1, <2>4, <2>5, <2>6 DEF OrderInv
<1>3. CASE \E i \in Runs : QueuePacket(i)
  <2>1. PICK i \in Runs : QueuePacket(i)
    BY <1>3
  <2>2. /\ UNCHANGED <<received, served>>
        /\ tpc[i] = "push" /\ tpc' = [tpc EXCEPT ![i] = "awake"] /\ q_packet' = Append(q_packet, buffer[i])
    BY <2>1 DEF QueuePacket, history
  <2>3. buffer[i] \in Packets
    BY <2>2 DEF TypeInv, RunInv
  <2>4. /\ Len(q_packet') = Len(q_packet) + 1 /\ q_packet'[Len(q_packet) + 1] = buffer[i]
        /\ \A k \in 1..Len(q_packet) : q_packet'[k] = q_packet[k]
    BY <1>1, <2>2, <2>3, AppendProperties
  <2>5. ASSUME Ordered, InOrder PROVE Ordered'
    <3>1. \A j \in Runs : tpc'[j] # "push"
      BY <2>2, <2>5, OneThread DEF TypeInv, TypeOK
    <3>2. Len(received) = Len(served) + Len(q_packet) + 1 /\ received[Len(received)] = buffer[i]
      BY <2>2, <2>5 DEF Ordered
    <3>3. ASSUME NEW k \in 1..Len(q_packet') PROVE received[Len(served) + k] = q_packet'[k]
      <4>1. CASE k \in 1..Len(q_packet)
        BY <2>4, <2>5, <4>1 DEF Ordered
      <4>2. CASE k = Len(q_packet) + 1
        <5>1. Len(served) + k = Len(received)
          BY <1>1, <3>2, <4>2
        <5> QED BY <2>4, <3>2, <4>2, <5>1
      <4>3. k \in 1..Len(q_packet) \/ k = Len(q_packet) + 1
        BY <1>1, <2>4
      <4> QED BY <4>1, <4>2, <4>3
    <3>4. Len(received) = Len(served) + Len(q_packet') /\ Len(received) >= Len(served) + Len(q_packet')
      BY <1>1, <2>4, <3>2
    <3> QED BY <2>2, <2>5, <3>1, <3>3, <3>4 DEF Ordered
  <2> QED BY <1>0, <1>1, <2>2, <2>5 DEF OrderInv
<1>4. CASE Drain /\ q_packet # <<>>
  <2>1. /\ UNCHANGED <<received, tpc, buffer>>
        /\ q_packet' = Tail(q_packet) /\ served' = Append(served, Head(q_packet))
    BY <1>4 DEF Drain, threadVars
  <2>2. /\ Head(q_packet) = q_packet[1] /\ Head(q_packet) \in Packets /\ Len(q_packet) # 0
        /\ Len(q_packet') = Len(q_packet) - 1
        /\ \A k \in 1..Len(q_packet) - 1 : q_packet'[k] = q_packet[k + 1]
    BY <1>1, <1>4, <2>1, HeadTailProperties, EmptySeq
  <2>3. /\ served' \in Seq(Packets) /\ Len(served') = Len(served) + 1
        /\ served'[Len(served) + 1] = q_packet[1]
        /\ \A k \in 1..Len(served) : served'[k] = served[k]
    BY <1>1, <2>1, <2>2, AppendProperties
  <2>4. ASSUME Ordered PROVE Ordered'
    <3>1. ASSUME NEW k \in 1..Len(served') PROVE received[k] = served'[k]
      <4>1. CASE k \in 1..Len(served)
        BY <2>3, <2>4, <4>1 DEF Ordered
      <4>2. CASE k = Len(served) + 1
        <5>1. 1 \in 1..Len(q_packet)
          BY <1>1, <2>2
        <5> QED BY <2>3, <2>4, <4>2, <5>1 DEF Ordered
      <4>3. k \in 1..Len(served) \/ k = Len(served) + 1
        BY <1>1, <2>3
      <4> QED BY <4>1, <4>2, <4>3
    <3>2. ASSUME NEW k \in 1..Len(q_packet') PROVE received[Len(served') + k] = q_packet'[k]
      <4>1. /\ k \in 1..Len(q_packet) - 1 /\ k + 1 \in 1..Len(q_packet)
            /\ Len(served') + k = Len(served) + (k + 1)
        BY <1>1, <2>2, <2>3
      <4>2. received[Len(served) + (k + 1)] = q_packet[k + 1]
        BY <2>4, <4>1 DEF Ordered
      <4> QED BY <2>2, <4>1, <4>2
    <3>3. Len(served') + Len(q_packet') = Len(served) + Len(q_packet)
      BY <1>1, <2>2, <2>3
    <3> QED BY <2>1, <2>4, <3>1, <3>2, <3>3 DEF Ordered
  <2> QED BY <1>0, <1>1, <2>1, <2>3, <2>4 DEF OrderInv
<1>5. CASE UNCHANGED <<received, served, q_packet>> /\ (\A i \in Runs : tpc'[i] = "push" <=> tpc[i] = "push")
           /\ UNCHANGED buffer
  BY <1>0, <1>5 DEF OrderInv, Ordered
<1>6. ASSUME NEW i \in Runs, ThreadStep(i), ~Receive(i), ~QueuePacket(i) PROVE OrderInv'
  <2>1. UNCHANGED <<received, served, q_packet, buffer>>
    BY <1>6 DEF ThreadStep, ThreadStart, Accept, ReceiveNothing, Awake, LoopTest, ThreadExit, history
  <2>2. \A j \in Runs : tpc'[j] = "push" <=> tpc[j] = "push"
    <3>1. tpc[i] # "push"
      BY <1>6 DEF ThreadStep, ThreadStart, Accept, ReceiveNothing, Awake, LoopTest, ThreadExit
    <3>2. \/ tpc' = tpc
          \/ \E l \in {"accept", "recv", "test", "exit", "done"} : tpc' = [tpc EXCEPT ![i] = l]
      BY <1>6 DEF ThreadStep, ThreadStart, Accept, ReceiveNothing, Awake, LoopTest, ThreadExit
    <3> QED BY <3>1, <3>2 DEF TypeInv, TypeOK
  <2> QED BY <1>5, <2>1, <2>2
<1>7. CASE Network \/ MainChoice \/ MainOther \/ OthersAwake \/ UNCHANGED vars
  <2>1. UNCHANGED <<received, served, q_packet, buffer, tpc>>
    BY <1>7, RingOnly DEF Network, MainChoice, Connect, Transmit, Disconnect, CloseBegin, RunServer, vars, threadVars,
       history
  <2> QED BY <1>5, <2>1
<1>8. CASE MainProgress /\ ~(Drain /\ q_packet # <<>>) /\ ~MainOther
  <2>1. UNCHANGED <<received, served, q_packet, buffer>>
    BY <1>8 DEF MainProgress, Created, StartThread, ErrorClose, Shut, CloseWait, CloseEnd, MainAwake, Drain,
       Serve, threadVars, history
  <2>2. CASE StartThread
    <3>1. tpc' = [tpc EXCEPT ![runs + 1] = "new"] /\ main # <<>> /\ Top.at = "start"
      BY <2>2 DEF StartThread, In
    <3>2. runs < world.runs
      BY <3>1, TopIsAt DEF TypeInv, RunInv
    <3>3. runs + 1 \in Runs /\ tpc[runs + 1] = "none"
      BY <3>2, ServerAssumption DEF TypeInv, RunInv, TypeOK, Runs
    <3> QED BY <1>5, <2>1, <3>1, <3>3 DEF TypeInv, TypeOK
  <2>3. CASE ~StartThread
    <3>1. tpc' = tpc
      BY <1>8, <2>3 DEF MainProgress, Created, ErrorClose, Shut, CloseWait, CloseEnd, MainAwake, Drain, Serve,
         threadVars
    <3> QED BY <1>5, <2>1, <3>1
  <2> QED BY <2>2, <2>3
<1> QED BY <1>2, <1>3, <1>4, <1>6, <1>7, <1>8 DEF Next, MainProgress, Elsewhere

LEMMA OrderInvInit == Init => OrderInv
<1> SUFFICES ASSUME Init PROVE OrderInv
  OBVIOUS
<1>1. received = <<>> /\ served = <<>> /\ q_packet = <<>> /\ Len(<<>>) = 0 /\ <<>> \in Seq(Packets)
  BY DEF Init
<1>2. \A i \in Runs : tpc[i] # "push"
  BY DEF Init
<1> QED BY <1>1, <1>2 DEF OrderInv, Ordered

LEMMA OrderedIsPrefix ==
  ASSUME OrderInv, InOrder, TypeInv
  PROVE  IsPrefix(served, received)
<1>1. /\ received \in Seq(Packets) /\ served \in Seq(Packets) /\ Len(q_packet) \in Nat
      /\ Len(received) \in Nat /\ Len(served) \in Nat
  BY LenProperties DEF OrderInv, TypeInv, TypeOK
<1>2. Len(served) <= Len(received) /\ \A k \in 1..Len(served) : received[k] = served[k]
  BY <1>1 DEF OrderInv, Ordered
<1> DEFINE s == SubSeq(served, 1, Len(served))
           t == SubSeq(received, 1, Len(served))
<1>3. /\ s \in Seq(Packets) /\ Len(s) = Len(served)
      /\ \A k \in 1..Len(served) : s[k] = served[k]
  <2>1. \A k \in 1..Len(served) : served[k] \in Packets
    BY <1>1
  <2>2. /\ s \in Seq(Packets) /\ Len(s) = IF 1 <= Len(served) THEN Len(served) - 1 + 1 ELSE 0
        /\ \A k \in 1..Len(served) - 1 + 1 : s[k] = served[1 + k - 1]
    BY <1>1, <2>1, SubSeqProperties
  <2> HIDE DEF s
  <2> QED BY <1>1, <2>2
<1>4. /\ t \in Seq(Packets) /\ Len(t) = Len(served)
      /\ \A k \in 1..Len(served) : t[k] = received[k]
  <2>1. \A k \in 1..Len(served) : received[k] \in Packets
    BY <1>1, <1>2
  <2>2. /\ t \in Seq(Packets) /\ Len(t) = IF 1 <= Len(served) THEN Len(served) - 1 + 1 ELSE 0
        /\ \A k \in 1..Len(served) - 1 + 1 : t[k] = received[1 + k - 1]
    BY <1>1, <2>1, SubSeqProperties
  <2> HIDE DEF t
  <2> QED BY <1>1, <2>2
<1>5. s = t
  <2> HIDE DEF s, t
  <2>1. \A k \in 1..Len(s) : s[k] = t[k]
    BY <1>2, <1>3, <1>4
  <2> QED BY <1>3, <1>4, <2>1, SeqEqual
<1> QED BY <1>2, <1>5 DEF IsPrefix

-----------------------------------------------------------------------------
(* The receiving thread writes client_ while the application answers. Over *)
(* HTTP, with one run, it accepts one client, before it receives anything. *)
OneRun == world.protocol = "HTTP" /\ world.runs = 1

OneClient ==
  /\ \A i \in Runs : tpc[i] = "new" => peer = NoClient
  /\ (\A i \in Runs : tpc[i] = "none") => peer = NoClient
  /\ \A p \in Queued \union InHand : p \in Packets /\ p.from = peer
  /\ \A i \in Runs : tpc[i] = "push" => buffer[i].from = peer
  /\ \A k \in 1..Len(replies) : replies[k].to = replies[k].request.from

FromInv == replies \in Seq([to : Clients, request : Packets]) /\ (OneRun => OneClient)

LEMMA OneClientStep ==
  ASSUME TypeInv, OneRun, OneClient, replies \in Seq([to : Clients, request : Packets]), [Next]_vars
  PROVE  OneClient'
<1>1. /\ TypeOK /\ RunInv /\ StackInv /\ NoClient \notin Clients /\ world.runs = 1
      /\ q_packet \in Seq(Packets) /\ Len(q_packet) \in Nat
  BY ServerAssumption, LenProperties DEF TypeInv, TypeOK, OneRun
<1>2. ASSUME NEW i \in Runs, NEW j \in Runs, tpc[i] # "none", tpc[j] # "none" PROVE i = j
  <2>1. i \in Nat \ {0} /\ j \in Nat \ {0} /\ runs \in Nat /\ runs <= 1
    BY <1>1, ServerAssumption DEF TypeOK, RunInv, Runs
  <2>2. ~(i > runs) /\ ~(j > runs)
    BY <1>1, <1>2 DEF RunInv
  <2> QED BY <2>1, <2>2
<1>3. ASSUME peer = NoClient
      PROVE  /\ Queued \union InHand = {} /\ \A i \in Runs : tpc[i] # "push"
  <2>1. \A p \in Queued \union InHand : p.from \in Clients
    BY DEF OneClient, Packets
  <2>2. \A i \in Runs : tpc[i] = "push" => buffer[i].from \in Clients
    BY <1>1 DEF RunInv, Packets
  <2> QED BY <1>1, <1>3, <2>1, <2>2 DEF OneClient
<1>4. ASSUME UNCHANGED <<q_packet, main>> PROVE Queued' = Queued /\ InHand' = InHand
  BY <1>4 DEF Queued, InHand
<1>5. CASE UNCHANGED <<tpc, peer, buffer, replies>> /\ Queued' \union InHand' \subseteq Queued \union InHand
  BY <1>5 DEF OneClient
<1>6. ASSUME NEW i \in Runs, ThreadStep(i) PROVE OneClient'
  <2>1. UNCHANGED <<main, replies>> /\ InHand' = InHand
    BY <1>6 DEF ThreadStep, ThreadStart, Accept, Receive, ReceiveNothing, QueuePacket, Awake, LoopTest,
       ThreadExit, mainVars, history, InHand
  <2>2. tpc[i] # "none" /\ tpc \in [Runs -> ThreadLabels]
    BY <1>1, <1>6 DEF ThreadStep, ThreadStart, Accept, Receive, ReceiveNothing, QueuePacket, Awake, LoopTest,
       ThreadExit, TypeOK
  <2>3. \A j \in Runs : j # i => tpc[j] = "none"
    BY <1>2, <2>2
  <2>4. CASE ThreadStart(i)
    <3>1. UNCHANGED <<buffer, q_packet>> /\ tpc[i] = "new" /\ peer' = NoClient
          /\ tpc' = [tpc EXCEPT ![i] = "accept"]
      BY <2>4 DEF ThreadStart, OneRun
    <3>2. peer = NoClient
      BY <3>1 DEF OneClient
    <3>3. Queued' = {} /\ InHand' = {}
      BY <1>3, <1>4, <2>1, <3>1, <3>2
    <3> QED BY <2>1, <2>2, <2>3, <3>1, <3>3 DEF OneClient
  <2>5. CASE Accept(i)
    <3>1. UNCHANGED <<buffer, q_packet>>
      BY <2>5 DEF Accept
    <3>2. /\ tpc[i] = "accept" /\ (tpc' = tpc \/ tpc' = [tpc EXCEPT ![i] = "recv"])
          /\ peer' = peer \/ peer = NoClient
      BY <2>5 DEF Accept
    <3>3. \A j \in Runs : tpc'[j] # "new" /\ tpc'[j] # "push"
      BY <2>2, <2>3, <3>2
    <3>4. tpc'[i] # "none"
      BY <2>2, <3>2
    <3>5. \A p \in Queued' \union InHand' : p \in Packets /\ p.from = peer'
      BY <1>3, <1>4, <2>1, <3>1, <3>2 DEF OneClient
    <3> QED BY <2>1, <3>3, <3>4, <3>5 DEF OneClient
  <2>6. CASE Receive(i)
    <3>1. PICK p \in Incoming : peer' = p.from /\ buffer' = [buffer EXCEPT ![i] = p]
      BY <2>6 DEF Receive
    <3>2. p.from = peer
      BY <1>1, <3>1, IncomingIsPacket DEF OneRun
    <3>3. UNCHANGED q_packet /\ tpc' = [tpc EXCEPT ![i] = "push"]
      BY <2>6 DEF Receive
    <3>4. Queued' = Queued
      BY <1>4, <2>1, <3>3
    <3>5. tpc'[i] = "push" /\ buffer'[i] = p /\ \A j \in Runs : j # i => tpc'[j] = "none"
      BY <1>1, <2>2, <2>3, <3>1, <3>3 DEF RunInv
    <3> QED BY <2>1, <3>1, <3>2, <3>4, <3>5 DEF OneClient
  <2>7. CASE QueuePacket(i)
    <3>1. UNCHANGED peer /\ tpc[i] = "push" /\ tpc' = [tpc EXCEPT ![i] = "awake"]
          /\ q_packet' = Append(q_packet, buffer[i])
      BY <2>7 DEF QueuePacket
    <3>2. buffer[i] \in Packets /\ buffer[i].from = peer
      BY <1>1, <3>1 DEF RunInv, OneClient
    <3>3. /\ Len(q_packet') = Len(q_packet) + 1 /\ q_packet'[Len(q_packet) + 1] = buffer[i]
          /\ \A k \in 1..Len(q_packet) : q_packet'[k] = q_packet[k]
      BY <1>1, <3>1, <3>2, AppendProperties
    <3>4. Queued' \subseteq Queued \union {buffer[i]}
      <4> SUFFICES ASSUME NEW k \in 1..Len(q_packet') PROVE q_packet'[k] \in Queued \union {buffer[i]}
        BY DEF Queued
      <4>1. k \in 1..Len(q_packet) \/ k = Len(q_packet) + 1
        BY <1>1, <3>3
      <4> QED BY <3>3, <4>1 DEF Queued
    <3>5. tpc'[i] = "awake" /\ \A j \in Runs : j # i => tpc'[j] = "none"
      BY <2>2, <2>3, <3>1
    <3> QED BY <2>1, <3>1, <3>2, <3>4, <3>5 DEF OneClient
  <2>8. CASE ReceiveNothing(i) \/ Awake(i) \/ LoopTest(i) \/ ThreadExit(i)
    <3>1. UNCHANGED <<peer, buffer, q_packet>>
          /\ \E l \in {"test", "exit", "recv", "done"} : tpc' = [tpc EXCEPT ![i] = l]
      BY <2>8 DEF ReceiveNothing, Awake, LoopTest, ThreadExit
    <3>2. \A j \in Runs : tpc'[j] # "new" /\ tpc'[j] # "push"
      BY <2>2, <2>3, <3>1
    <3>3. tpc'[i] # "none"
      BY <2>2, <3>1
    <3>4. Queued' = Queued
      BY <1>4, <2>1, <3>1
    <3> QED BY <2>1, <3>1, <3>2, <3>3, <3>4 DEF OneClient
  <2> QED BY <1>6, <2>4, <2>5, <2>6, <2>7, <2>8 DEF ThreadStep
<1>7. CASE Network \/ MainOther \/ OthersAwake \/ UNCHANGED vars
  <2>1. UNCHANGED <<tpc, peer, buffer, replies, q_packet, main>>
    BY <1>7, RingOnly DEF Network, Connect, Transmit, Disconnect, vars, threadVars, mainVars, history
  <2> QED BY <1>4, <1>5, <2>1
<1>8. CASE MainChoice
  <2>1. UNCHANGED <<tpc, peer, buffer, replies, q_packet>>
    BY <1>8 DEF MainChoice, CloseBegin, RunServer, threadVars, history
  <2>2. InHand' = {}
    <3>1. \E a \in Calls \ {"start", "return", "serving"}, b \in {"start", "return"} :
            main' = <<Call(a), Call(b)>>
      BY <1>8 DEF MainChoice, CloseBegin, RunServer, Calls, CheckPoints
    <3> QED BY <3>1, Began
  <2>3. Queued' = Queued
    BY <2>1 DEF Queued
  <2> QED BY <1>5, <2>1, <2>2, <2>3
<1>9. CASE MainAwake
  <2>1. UNCHANGED <<tpc, peer, buffer, replies, q_packet>> /\ main' = <<Call("drain")>> \o main
    BY <1>9 DEF MainAwake, threadVars, history
  <2>2. InHand' \subseteq InHand
    BY <1>1, <2>1, Pushed DEF TypeOK, Frames
  <2>3. Queued' = Queued
    BY <2>1 DEF Queued
  <2> QED BY <1>5, <2>1, <2>2, <2>3
<1>10. CASE StartThread
  <2>1. UNCHANGED <<peer, buffer, replies, q_packet>> /\ tpc' = [tpc EXCEPT ![runs + 1] = "new"]
        /\ main # <<>> /\ Top.at = "start"
    BY <1>10 DEF StartThread, In, history
  <2>2. InHand' \subseteq InHand \union Queued
    BY <1>1, <1>10, MainStacked DEF Stacked
  <2>3. runs < world.runs
    BY <1>1, <2>1, TopIsAt DEF RunInv
  <2>4. runs = 0 /\ 1 \in Runs /\ \A i \in Runs : i > 0
    BY <1>1, <2>3, ServerAssumption DEF RunInv, TypeOK, Runs
  <2>5. \A i \in Runs : tpc[i] = "none"
    BY <1>1, <2>4 DEF RunInv
  <2>6. peer = NoClient
    BY <2>5 DEF OneClient
  <2>7. \A i \in Runs : tpc'[i] # "push"
    BY <1>1, <2>1, <2>5 DEF TypeOK
  <2>8. Queued' = Queued
    BY <2>1 DEF Queued
  <2> QED BY <2>1, <2>2, <2>6, <2>7, <2>8 DEF OneClient
<1>11. ASSUME NEW answer \in Answers, Serve(answer) PROVE OneClient'
  <2>1. UNCHANGED <<tpc, peer, buffer, q_packet>> /\ main # <<>> /\ Top.at = "serving"
    BY <1>11 DEF Serve, In, threadVars
  <2>2. InHand' \subseteq InHand \union Queued /\ Queued' = Queued
    BY <1>1, <1>11, <2>1, ServeStacked DEF Stacked, Queued
  <2>3. replies' = replies \/ replies' = Append(replies, [to |-> peer, request |-> Top.packet])
    BY <1>11 DEF Serve
  <2>4. Top.packet.from = peer /\ peer \in Clients /\ Top.packet \in Packets
    <3>1. Len(main) \in Nat \ {0} /\ Top = main[1]
      BY <1>1, <2>1, LenProperties, EmptySeq, HeadTailProperties DEF TypeOK, Top
    <3>2. 1 \in 1..Len(main)
      BY <3>1
    <3>3. Top.packet \in InHand
      BY <2>1, <3>1, <3>2 DEF InHand
    <3> QED BY <3>3 DEF OneClient, Packets
  <2>5. ASSUME NEW k \in 1..Len(replies') PROVE replies'[k].to = replies'[k].request.from
    <3>1. CASE replies' = replies
      BY <3>1 DEF OneClient
    <3>2. CASE replies' = Append(replies, [to |-> peer, request |-> Top.packet])
      <4> DEFINE r == [to |-> peer, request |-> Top.packet]
      <4>1. r \in [to : Clients, request : Packets] /\ r.to = r.request.from
        BY <2>4
      <4>2. replies' = Append(replies, r)
        BY <3>2
      <4> HIDE DEF r
      <4>3. /\ Len(replies) \in Nat /\ Len(replies') = Len(replies) + 1 /\ replies'[Len(replies) + 1] = r
            /\ \A j \in 1..Len(replies) : replies'[j] = replies[j]
        BY <4>1, <4>2, AppendProperties, LenProperties
      <4>4. k \in 1..Len(replies) \/ k = Len(replies) + 1
        BY <4>3
      <4> QED BY <4>1, <4>3, <4>4 DEF OneClient
    <3> QED BY <2>3, <3>1, <3>2
  <2> QED BY <2>1, <2>2, <2>5 DEF OneClient
<1>12. CASE Drain
  <2>1. UNCHANGED <<tpc, peer, buffer, replies>> /\ InHand' \subseteq InHand \union Queued
    BY <1>1, <1>12, DrainStacked DEF Drain, threadVars, Stacked
  <2>2. Queued' \subseteq Queued
    <3>1. CASE q_packet' = q_packet
      BY <3>1 DEF Queued
    <3>2. CASE q_packet # <<>> /\ q_packet' = Tail(q_packet)
      <4>1. /\ Len(q_packet') = Len(q_packet) - 1
            /\ \A k \in 1..Len(q_packet) - 1 : q_packet'[k] = q_packet[k + 1]
        BY <1>1, <3>2, HeadTailProperties
      <4> SUFFICES ASSUME NEW k \in 1..Len(q_packet') PROVE q_packet'[k] \in Queued
        BY DEF Queued
      <4>2. k \in 1..Len(q_packet) - 1 /\ k + 1 \in 1..Len(q_packet)
        BY <1>1, <4>1
      <4> QED BY <4>1, <4>2 DEF Queued
    <3> QED BY <1>12, <3>1, <3>2 DEF Drain
  <2> QED BY <1>5, <2>1, <2>2
<1>13. ASSUME (\E ok \in BOOLEAN : Created(ok)) \/ ErrorClose \/ Shut \/ CloseWait \/ CloseEnd
       PROVE  OneClient'
  <2>1. UNCHANGED <<tpc, peer, buffer, replies, q_packet>>
    BY <1>13 DEF Created, ErrorClose, Shut, CloseWait, CloseEnd, threadVars, history
  <2>2. InHand' \subseteq InHand \union Queued /\ Queued' = Queued
    BY <1>1, <1>13, <2>1, MainStacked DEF Stacked, Queued
  <2> QED BY <1>5, <2>1, <2>2
<1> QED
  BY <1>6, <1>7, <1>8, <1>9, <1>10, <1>11, <1>12, <1>13 DEF Next, MainProgress, Elsewhere

LEMMA FromInvStep ==
  ASSUME TypeInv, FromInv, [Next]_vars
  PROVE  FromInv'
<1>1. world' = world
  BY DEF Next, MainProgress, MainChoice, Network, Elsewhere, ThreadStep, vars
<1>2. replies' \in Seq([to : Clients, request : Packets])
  <2>1. CASE replies' = replies
    BY <2>1 DEF FromInv
  <2>2. CASE \E a \in Answers :
               Serve(a) /\ CanSend /\ replies' = Append(replies, [to |-> peer, request |-> Top.packet])
    <3>1. main # <<>> /\ Top.at = "serving" /\ peer \in Clients
      BY <2>2 DEF Serve, In, CanSend, TypeInv, TypeOK
    <3>2. Len(main) \in Nat \ {0} /\ Top = main[1]
      BY <3>1, LenProperties, EmptySeq, HeadTailProperties DEF TypeInv, TypeOK, Top
    <3>3. 1 \in 1..Len(main)
      BY <3>2
    <3>4. Top.packet \in Packets
      BY <3>1, <3>2, <3>3 DEF TypeInv, StackInv
    <3> QED BY <2>2, <3>1, <3>4, AppendProperties DEF FromInv
  <2>3. CASE \E a \in Answers : Serve(a)
    BY <2>1, <2>2, <2>3 DEF Serve
  <2>4. CASE ~(\E a \in Answers : Serve(a))
    <3>1. replies' = replies
      BY <2>4, RingOnly DEF Next, MainProgress, MainChoice, Network, Elsewhere, ThreadStep, vars, Connect, Transmit, Disconnect,
         ThreadStart, Accept, Receive, ReceiveNothing, QueuePacket, Awake, LoopTest, ThreadExit, Created,
         StartThread, ErrorClose, Shut, CloseWait, CloseEnd, MainAwake, Drain, CloseBegin, RunServer, history
    <3> QED BY <2>1, <3>1
  <2> QED BY <2>3, <2>4
<1> QED BY <1>1, <1>2, OneClientStep DEF FromInv, OneRun

LEMMA FromInvInit == Init => FromInv
<1> SUFFICES ASSUME Init PROVE FromInv
  OBVIOUS
<1>1. replies = <<>> /\ q_packet = <<>> /\ main = <<>> /\ Len(<<>>) = 0 /\ peer = NoClient
  BY DEF Init
<1>2. \A i \in Runs : tpc[i] = "none"
  BY DEF Init
<1>3. Queued = {} /\ InHand = {}
  BY <1>1 DEF Queued, InHand
<1> QED BY <1>1, <1>2, <1>3 DEF FromInv, OneClient

(* The packets that do_request is called with are, one by one and in the   *)
(* same order, those the threads received, however often cb_th_packet is   *)
(* entered again while the application answers; and over HTTP the answer   *)
(* goes to the client that asked.                                          *)
THEOREM PacketsServedInTurn == Spec => []ServedInTurn
<1>1. TypeInv /\ OrderInv /\ FromInv => ServedInTurn
  <2> SUFFICES ASSUME TypeInv, OrderInv, FromInv PROVE ServedInTurn
    OBVIOUS
  <2>1. DOMAIN replies = 1..Len(replies)
    BY LenProperties DEF FromInv
  <2> QED BY <2>1, OrderedIsPrefix DEF ServedInTurn, InOrder, FromInv, OneRun, OneClient
<1>2. Init => QuietInv
  BY DEF Init, QuietInv, Quiescing, At, Runs
<1> QED BY <1>1, <1>2, TypeInvInit, TypeInvStep, QuietInvStep, OrderInvInit, OrderInvStep, FromInvInit,
           FromInvStep, PTL DEF Spec

===============================================================================
