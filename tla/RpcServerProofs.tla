---------------------------- MODULE RpcServerProofs ----------------------------
(***************************************************************************)
(* RepliesMatchRequests for any clients, segments and ring, however TCP    *)
(* cuts up the requests and however often FLTK enters cb_th_packet again;  *)
(* and the XML-RPC server as one of SocketServer's servers.                *)
(*                                                                         *)
(* The argument follows the segments. Those a client has sent are in the   *)
(* kernel or in packets, each in one (CutInv); each packet is with the     *)
(* application once and answered once (AccountInv). So the replies to a    *)
(* client can be numbered by segments it has sent, each by another: any    *)
(* reply by a segment of its packet, one that a method has come to by the  *)
(* first segment of its request, and by the last one where requests are    *)
(* not cut among their parameters (AnsweredInv). With requests of one      *)
(* segment, from a client that waits, the number is the reply's own        *)
(* (WaitInv).                                                              *)
(***************************************************************************)
EXTENDS RpcServer, SocketServerProofs, FunctionTheorems, FiniteSetTheorems

(* The server of XML-RPC calls is a socket server whose application answers *)
(* what handle_request decides: each of its steps is one of SocketServer's. *)
LEMMA RpcStepIsServerStep ==
  ASSUME [RpcNext]_vars
  PROVE  [Next]_vars
<1>1. CASE RpcProgress
  <2>1. (\E a \in Answers : Serve(a)) \/ ~HandleRequest
    BY DEF HandleRequest
  <2> QED BY <1>1, <2>1 DEF RpcProgress, Next, MainProgress, Elsewhere
<1>2. CASE RpcClient
  <2>1. \A c \in Clients : SendRequest(c) => Transmit(c)
    BY DEF SendRequest
  <2> QED BY <1>2, <2>1 DEF RpcClient, Next, Network
<1> QED BY <1>1, <1>2 DEF RpcNext, Next

-----------------------------------------------------------------------------
(* Where the segments a client has sent are: the last ones in the kernel,   *)
(* in their order; those before them in packets, each in one at most.       *)
Holds(p) == {p.data[k] : k \in 1..Len(p.data)}
InTurn(data, c, first) == \A k \in 1..Len(data) : data[k] = <<c, first + k - 1>>
Taken == [c \in Clients |-> sent[c] - Len(stream[c])]
Cut(p, n) == \E first \in Nat \ {0} : InTurn(p.data, p.from, first) /\ first + Len(p.data) - 1 <= n

CutInv ==
  /\ \A c \in Clients : Len(stream[c]) <= sent[c] /\ InTurn(stream[c], c, Taken[c] + 1)
  /\ \A i \in 1..Len(received) : Cut(received[i], Taken[received[i].from])
  /\ \A i, j \in 1..Len(received) : i # j => Holds(received[i]) \cap Holds(received[j]) = {}

LEMMA IncomingIsFront ==
  ASSUME TypeOK, NEW p \in Incoming
  PROVE  /\ p \in Packets /\ Len(p.data) \in 1..Len(stream[p.from])
         /\ \A k \in 1..Len(p.data) : p.data[k] = stream[p.from][k]
<1>0. p \in Packets /\ stream \in [Clients -> Seq(Segments)]
  BY IncomingIsPacket DEF TypeOK
<1>1. CASE world.protocol = "UDP"
  <2>1. PICK c \in Clients : stream[c] # <<>> /\ p = [from |-> c, data |-> <<stream[c][1]>>]
    BY <1>1 DEF Incoming
  <2>2. stream[c] \in Seq(Segments) /\ Len(stream[c]) \in Nat \ {0}
    BY <1>0, <2>1, EmptySeq, LenProperties
  <2>3. p.from = c /\ Len(p.data) = 1 /\ p.data[1] = stream[c][1]
    BY <2>1
  <2> QED BY <1>0, <2>2, <2>3
<1>2. CASE world.protocol # "UDP"
  <2>1. PICK n \in 1..Len(stream[peer]) :
          peer # NoClient /\ p = [from |-> peer, data |-> SubSeq(stream[peer], 1, n)]
    BY <1>2 DEF Incoming
  <2>2. peer \in Clients /\ stream[peer] \in Seq(Segments) /\ Len(stream[peer]) \in Nat
    BY <1>0, <2>1, LenProperties DEF TypeOK
  <2>3. n \in Nat \ {0} /\ n <= Len(stream[peer]) /\ \A k \in 1..n : stream[peer][k] \in Segments
    BY <2>1, <2>2
  <2> DEFINE s == stream[peer]
             d == SubSeq(s, 1, n)
  <2>4. s \in Seq(Segments) /\ \A k \in 1..n : s[k] \in Segments
    BY <2>2, <2>3
  <2>5. p.from = peer /\ p.data = d
    BY <2>1
  <2> HIDE DEF s
  <2>6. Len(d) = n /\ \A k \in 1..n : d[k] = s[k]
    <3>1. Len(d) = (IF 1 <= n THEN n - 1 + 1 ELSE 0) /\ \A k \in 1..n - 1 + 1 : d[k] = s[1 + k - 1]
      BY <2>3, <2>4, SubSeqProperties
    <3> QED BY <2>3, <3>1
  <2> HIDE DEF d
  <2> QED BY <1>0, <2>2, <2>3, <2>5, <2>6 DEF s
<1> QED BY <1>1, <1>2

LEMMA SentIsNumber ==
  ASSUME TypeInv, NEW c \in Clients
  PROVE  /\ sent[c] \in Nat /\ stream[c] \in Seq(Segments) /\ Len(stream[c]) \in Nat
         /\ \A k \in 1..Len(stream[c]) : stream[c][k] \in Segments
BY ServerAssumption, LenProperties DEF TypeInv, TypeOK

LEMMA PacketParts ==
  ASSUME NEW p \in Packets
  PROVE  p.from \in Clients /\ p.data \in Seq(Segments) /\ p.data # <<>> /\ Len(p.data) \in Nat \ {0}
<1>1. p.from \in Clients /\ p.data \in Seq(Segments) /\ p.data # <<>>
  BY DEF Packets
<1> QED BY <1>1, EmptySeq, LenProperties

LEMMA CutStaysCut ==
  ASSUME NEW p \in Packets, NEW m \in Int, NEW n \in Int, m <= n, Cut(p, m)
  PROVE  Cut(p, n)
<1>1. PICK first \in Nat \ {0} : InTurn(p.data, p.from, first) /\ first + Len(p.data) - 1 <= m
  BY DEF Cut
<1>2. Len(p.data) \in Nat
  BY LenProperties DEF Packets
<1>3. first + Len(p.data) - 1 <= n
  BY <1>1, <1>2
<1> QED BY <1>1, <1>3 DEF Cut

(* What the kernel forgets does not come back                               *)
LEMMA ForgettingKeepsCut ==
  ASSUME TypeInv, received \in Seq(Packets), CutInv, UNCHANGED <<sent, received>>,
         \A c \in Clients : stream'[c] = stream[c] \/ stream'[c] = <<>>
  PROVE  CutInv'
<1>1. ASSUME NEW c \in Clients
      PROVE  /\ Len(stream'[c]) <= sent'[c] /\ InTurn(stream'[c], c, Taken'[c] + 1)
             /\ Taken[c] <= Taken'[c] /\ Taken[c] \in Int /\ Taken'[c] \in Int
  <2>1. sent[c] \in Nat /\ Len(stream[c]) \in Nat /\ Len(<<>>) = 0
    BY SentIsNumber
  <2>2. CASE stream'[c] = stream[c]
    BY <2>1, <2>2 DEF CutInv, Taken
  <2>3. CASE stream'[c] = <<>>
    BY <2>1, <2>3 DEF CutInv, Taken, InTurn
  <2> QED BY <2>2, <2>3
<1>2. ASSUME NEW i \in 1..Len(received') PROVE Cut(received'[i], Taken'[received'[i].from])
  <2>1. received[i] \in Packets /\ received[i].from \in Clients
    BY PacketParts
  <2>2. Cut(received[i], Taken[received[i].from])
    BY DEF CutInv
  <2> QED BY <1>1, <2>1, <2>2, CutStaysCut
<1>3. \A i, j \in 1..Len(received') : i # j => Holds(received'[i]) \cap Holds(received'[j]) = {}
  BY DEF CutInv
<1> QED BY <1>1, <1>2, <1>3 DEF CutInv

LEMMA TransmittingKeepsCut ==
  ASSUME TypeInv, received \in Seq(Packets), CutInv, NEW c \in Clients, Transmit(c)
  PROVE  CutInv'
<1>1. UNCHANGED received /\ sent' = [sent EXCEPT ![c] = @ + 1]
      /\ stream' = [stream EXCEPT ![c] = Append(@, <<c, sent'[c]>>)] /\ sent[c] < world.segments
  BY DEF Transmit, history
<1>2. /\ sent \in [Clients -> 0..MaxSegments] /\ stream \in [Clients -> Seq(Segments)]
      /\ MaxSegments \in Nat /\ world.segments \in 0..MaxSegments
  BY ServerAssumption DEF TypeInv, TypeOK, RunInv
<1>3. /\ sent'[c] = sent[c] + 1 /\ sent'[c] \in 1..MaxSegments
      /\ stream'[c] = Append(stream[c], <<c, sent[c] + 1>>)
  BY <1>1, <1>2
<1>4. <<c, sent[c] + 1>> \in Segments
  BY <1>3 DEF Segments
<1>5. /\ Len(stream'[c]) = Len(stream[c]) + 1 /\ stream'[c][Len(stream[c]) + 1] = <<c, sent[c] + 1>>
      /\ \A k \in 1..Len(stream[c]) : stream'[c][k] = stream[c][k]
  BY <1>2, <1>3, <1>4, AppendProperties
<1>6. sent[c] \in Nat /\ Len(stream[c]) \in Nat
  BY SentIsNumber
<1>7. Taken' = Taken
  <2>0. sent'[c] - Len(stream'[c]) = sent[c] - Len(stream[c])
    <3>1. sent'[c] = sent[c] + 1 /\ Len(stream'[c]) = Len(stream[c]) + 1
      BY <1>3, <1>5
    <3>2. \A m, n \in Nat : (m + 1) - (n + 1) = m - n
      OBVIOUS
    <3> QED BY <1>6, <3>1, <3>2
  <2>1. ASSUME NEW d \in Clients PROVE sent'[d] - Len(stream'[d]) = sent[d] - Len(stream[d])
    <3>1. CASE d = c
      BY <2>0, <3>1
    <3>2. CASE d # c
      BY <1>1, <1>2, <3>2
    <3> QED BY <3>1, <3>2
  <2> QED BY <2>1 DEF Taken
<1>8. ASSUME NEW d \in Clients
      PROVE  Len(stream'[d]) <= sent'[d] /\ InTurn(stream'[d], d, Taken[d] + 1)
  <2>1. CASE d # c
    <3>1. stream'[d] = stream[d] /\ sent'[d] = sent[d]
      BY <1>1, <1>2, <2>1
    <3> QED BY <3>1 DEF CutInv
  <2>2. CASE d = c
    <3>1. Len(stream[c]) <= sent[c] /\ Taken[c] = sent[c] - Len(stream[c])
      BY DEF CutInv, Taken
    <3>2. ASSUME NEW k \in 1..Len(stream'[c]) PROVE stream'[c][k] = <<c, Taken[c] + 1 + k - 1>>
      <4>1. CASE k \in 1..Len(stream[c])
        BY <1>5, <4>1 DEF CutInv, InTurn
      <4>2. CASE k = Len(stream[c]) + 1
        <5>1. Taken[c] + 1 + k - 1 = sent[c] + 1
          BY <1>6, <3>1, <4>2
        <5> QED BY <1>5, <4>2, <5>1
      <4> QED BY <1>5, <1>6, <4>1, <4>2
    <3>3. Len(stream'[c]) <= sent'[c]
      BY <1>3, <1>5, <1>6, <3>1
    <3> QED BY <2>2, <3>2, <3>3 DEF InTurn
  <2> QED BY <2>1, <2>2
<1> QED BY <1>1, <1>7, <1>8 DEF CutInv

LEMMA ReceivingKeepsCut ==
  ASSUME TypeInv, received \in Seq(Packets), CutInv, NEW i \in Runs, Receive(i)
  PROVE  CutInv'
<1>1. PICK p \in Incoming :
        /\ stream' = [stream EXCEPT ![p.from] = SubSeq(@, Len(p.data) + 1, Len(@))]
        /\ received' = Append(received, p)
  BY DEF Receive
<1> DEFINE c == p.from
           s == stream[c]
           n == Len(p.data)
<1>2. /\ p \in Packets /\ c \in Clients /\ n \in 1..Len(s) /\ \A k \in 1..n : p.data[k] = s[k]
  BY IncomingIsFront DEF TypeInv, Packets
<1>3. /\ stream \in [Clients -> Seq(Segments)] /\ sent[c] \in Nat /\ s \in Seq(Segments) /\ Len(s) \in Nat
      /\ \A k \in 1..Len(s) : s[k] \in Segments
  BY <1>2, SentIsNumber DEF TypeInv, TypeOK
<1>4. stream'[c] = SubSeq(s, n + 1, Len(s)) /\ \A d \in Clients : d # c => stream'[d] = stream[d]
  BY <1>1, <1>2, <1>3
<1>5. /\ Len(s) <= sent[c] /\ InTurn(s, c, Taken[c] + 1) /\ Taken[c] = sent[c] - Len(s)
  BY <1>2 DEF CutInv, Taken
<1>6. sent' = sent
  BY DEF Receive
<1>7. /\ Len(received) \in Nat /\ Len(received') = Len(received) + 1 /\ received'[Len(received) + 1] = p
      /\ \A j \in 1..Len(received) : received'[j] = received[j]
  BY <1>1, <1>2, AppendProperties, LenProperties
<1> HIDE DEF c, s, n
<1>8. Len(stream'[c]) = Len(s) - n /\ \A k \in 1..Len(s) - n : stream'[c][k] = s[n + k]
  <2>1. n + 1 \in Int /\ Len(s) \in Int /\ \A k \in n + 1..Len(s) : s[k] \in Segments
    BY <1>2, <1>3
  <2>2. /\ Len(stream'[c]) = IF n + 1 <= Len(s) THEN Len(s) - (n + 1) + 1 ELSE 0
        /\ \A k \in 1..Len(s) - (n + 1) + 1 : stream'[c][k] = s[n + 1 + k - 1]
    BY <1>3, <1>4, <2>1, SubSeqProperties
  <2>3. Len(s) - (n + 1) + 1 = Len(s) - n /\ (~(n + 1 <= Len(s)) => Len(s) - n = 0)
    BY <1>2, <1>3
  <2>4. ASSUME NEW k \in 1..Len(s) - n PROVE n + 1 + k - 1 = n + k
    BY <1>2, <1>3
  <2> QED BY <2>2, <2>3, <2>4
<1>9. Taken'[c] = Taken[c] + n /\ Taken[c] \in Nat /\ \A d \in Clients : d # c => Taken'[d] = Taken[d]
  <2>1. Taken'[c] = sent[c] - (Len(s) - n)
    BY <1>2, <1>6, <1>8 DEF Taken
  <2>2. Taken[c] = sent[c] - Len(s) /\ Len(s) <= sent[c] /\ n \in Nat
    BY <1>2, <1>3, <1>5
  <2>3. Taken'[c] = Taken[c] + n /\ Taken[c] \in Nat
    BY <1>3, <2>1, <2>2
  <2> QED BY <1>4, <1>6, <2>3 DEF Taken
<1>10. ASSUME NEW d \in Clients
       PROVE  Len(stream'[d]) <= sent'[d] /\ InTurn(stream'[d], d, Taken'[d] + 1)
  <2>1. CASE d # c
    BY <1>4, <1>6, <1>9, <2>1 DEF CutInv
  <2>2. CASE d = c
    <3>1. Len(stream'[c]) <= sent[c]
      BY <1>2, <1>3, <1>5, <1>8
    <3>2. ASSUME NEW k \in 1..Len(stream'[c]) PROVE stream'[c][k] = <<c, Taken'[c] + 1 + k - 1>>
      <4>1. k \in 1..Len(s) - n /\ n + k \in 1..Len(s)
        BY <1>2, <1>3, <1>8
      <4>2. s[n + k] = <<c, Taken[c] + 1 + (n + k) - 1>>
        BY <1>5, <4>1 DEF InTurn
      <4>3. Taken[c] + 1 + (n + k) - 1 = Taken'[c] + 1 + k - 1
        BY <1>2, <1>9, <4>1
      <4> QED BY <1>8, <4>1, <4>2, <4>3
    <3> QED BY <1>6, <2>2, <3>1, <3>2 DEF InTurn
  <2> QED BY <2>1, <2>2
<1>11. Cut(p, Taken'[c])
  <2>0. ASSUME NEW k \in 1..n PROVE p.data[k] = <<c, Taken[c] + 1 + k - 1>>
    <3>1. p.data[k] = s[k] /\ k \in 1..Len(s)
      BY <1>2, <1>3
    <3> QED BY <1>5, <3>1 DEF InTurn
  <2>1. InTurn(p.data, c, Taken[c] + 1)
    BY <2>0 DEF InTurn, n
  <2>2. Taken[c] + 1 \in Nat \ {0} /\ Taken[c] + 1 + n - 1 <= Taken'[c]
    BY <1>2, <1>9
  <2> QED BY <2>1, <2>2 DEF Cut, c, n
<1>12. ASSUME NEW j \in 1..Len(received) PROVE Cut(received[j], Taken'[received[j].from])
  <2>1. received[j] \in Packets /\ received[j].from \in Clients
    BY PacketParts
  <2>0. Cut(received[j], Taken[received[j].from])
    BY DEF CutInv
  <2>2. CASE received[j].from # c
    BY <1>9, <2>0, <2>1, <2>2
  <2>3. CASE received[j].from = c
    <3>1. Taken[c] \in Int /\ Taken'[c] \in Int /\ Taken[c] <= Taken'[c]
      BY <1>2, <1>9
    <3> QED BY <2>0, <2>1, <2>3, <3>1, CutStaysCut
  <2> QED BY <2>2, <2>3
<1>13. ASSUME NEW j \in 1..Len(received) PROVE Holds(received[j]) \cap Holds(p) = {}
  <2> DEFINE q == received[j]
  <2>0. q \in Packets /\ Cut(q, Taken[q.from])
    BY DEF CutInv
  <2> HIDE DEF q
  <2>1. Len(q.data) \in Nat /\ Cut(q, Taken[q.from])
    BY <2>0, PacketParts
  <2>2. PICK first \in Nat \ {0} :
          InTurn(q.data, q.from, first) /\ first + Len(q.data) - 1 <= Taken[q.from]
    BY <2>1 DEF Cut
  <2>3. ASSUME NEW x \in 1..Len(q.data), NEW y \in 1..n, q.data[x] = p.data[y] PROVE FALSE
    <3>1. q.data[x] = <<q.from, first + x - 1>>
      BY <2>2 DEF InTurn
    <3>2. p.data[y] = s[y] /\ y \in 1..Len(s)
      BY <1>2, <1>3
    <3>3. p.data[y] = <<c, Taken[c] + 1 + y - 1>>
      BY <1>5, <3>2 DEF InTurn
    <3> DEFINE a == first + x - 1
               b == Taken[c] + 1 + y - 1
    <3>0. <<q.from, a>> = <<c, b>>
      BY <2>3, <3>1, <3>3
    <3> HIDE DEF a, b
    <3>4. q.from = c /\ a = b
      BY <3>0
    <3>5. first + Len(q.data) - 1 <= Taken[c]
      BY <2>2, <3>4
    <3>6. Taken[c] \in Nat /\ x <= Len(q.data) /\ x \in Nat /\ y \in Nat /\ y >= 1
      BY <1>2, <1>3, <1>9
    <3> QED BY <2>1, <3>4, <3>5, <3>6 DEF a, b
  <2> QED BY <2>3 DEF Holds, q, n
<1>14. ASSUME NEW j \in 1..Len(received') PROVE Cut(received'[j], Taken'[received'[j].from])
  <2>1. j \in 1..Len(received) \/ j = Len(received) + 1
    BY <1>7
  <2> QED BY <1>7, <1>11, <1>12, <2>1 DEF c
<1>15. ASSUME NEW j \in 1..Len(received'), NEW l \in 1..Len(received'), j # l
       PROVE  Holds(received'[j]) \cap Holds(received'[l]) = {}
  <2>1. (j \in 1..Len(received) \/ j = Len(received) + 1) /\ (l \in 1..Len(received) \/ l = Len(received) + 1)
    BY <1>7
  <2>2. CASE j \in 1..Len(received) /\ l \in 1..Len(received)
    BY <1>7, <1>15, <2>2 DEF CutInv
  <2>3. CASE j = Len(received) + 1 /\ l \in 1..Len(received)
    BY <1>7, <1>13, <2>3
  <2>4. CASE l = Len(received) + 1 /\ j \in 1..Len(received)
    BY <1>7, <1>13, <2>4
  <2> QED BY <1>15, <2>1, <2>2, <2>3, <2>4
<1> QED BY <1>10, <1>14, <1>15 DEF CutInv

LEMMA CutInvStep ==
  ASSUME TypeInv, OrderInv, CutInv, [Next]_vars
  PROVE  CutInv'
<1>0. received \in Seq(Packets)
  BY DEF OrderInv
<1>1. CASE \E i \in Runs : Receive(i)
  BY <1>0, <1>1, ReceivingKeepsCut
<1>2. CASE \E c \in Clients : Transmit(c)
  BY <1>0, <1>2, TransmittingKeepsCut
<1>3. CASE \E i \in Runs : ThreadStart(i)
  <2>1. UNCHANGED <<sent, received>> /\ (stream' = stream \/ stream' = LeaveClient)
    BY <1>3 DEF ThreadStart, history
  <2>2. \A c \in Clients : stream'[c] = stream[c] \/ stream'[c] = <<>>
    BY <2>1 DEF LeaveClient
  <2> QED BY <1>0, <2>1, <2>2, ForgettingKeepsCut
<1>4. CASE Shut
  <2>1. UNCHANGED <<sent, received>> /\ ForgetServer
    BY <1>4 DEF Shut, history
  <2>2. \A c \in Clients : stream'[c] = stream[c] \/ stream'[c] = <<>>
    BY <2>1 DEF ForgetServer
  <2> QED BY <1>0, <2>1, <2>2, ForgettingKeepsCut
<1>5. CASE ~(\E i \in Runs : Receive(i)) /\ ~(\E c \in Clients : Transmit(c))
           /\ ~(\E i \in Runs : ThreadStart(i)) /\ ~Shut
  <2>1. UNCHANGED <<sent, received, stream>>
    BY <1>5, RingOnly DEF Next, MainProgress, MainChoice, Network, Elsewhere, ThreadStep, vars, Connect, Disconnect, Accept,
       ReceiveNothing, QueuePacket, Awake, LoopTest, ThreadExit, Created, StartThread, ErrorClose, CloseWait,
       CloseEnd, MainAwake, Drain, Serve, CloseBegin, RunServer, history, netVars
  <2> QED BY <1>0, <2>1, ForgettingKeepsCut
<1> QED BY <1>1, <1>2, <1>3, <1>4, <1>5

-----------------------------------------------------------------------------
(* What becomes of the packets given to the application: no two calls of    *)
(* do_request in progress have the same one, what is answered is no longer  *)
(* in the application's hands, and nothing is answered twice.               *)
Given == {served[k] : k \in 1..Len(served)}

Apart ==
  \A k, l \in 1..Len(main) :
    main[k].at = "serving" /\ main[l].at = "serving" /\ k # l => main[k].packet # main[l].packet

AccountInv ==
  /\ Apart /\ InHand \subseteq Given
  /\ \A k \in 1..Len(replies) : replies[k].request \in Given \ InHand
  /\ \A k, l \in 1..Len(replies) : k # l => replies[k].request # replies[l].request

LEMMA PacketsDiffer ==
  ASSUME received \in Seq(Packets), CutInv, NEW i \in 1..Len(received), NEW j \in 1..Len(received), i # j
  PROVE  received[i] # received[j]
<1>1. received[i] \in Packets
  OBVIOUS
<1>2. 1 \in 1..Len(received[i].data)
  BY <1>1, PacketParts
<1>3. Holds(received[i]) # {}
  BY <1>2 DEF Holds
<1> QED BY <1>3 DEF CutInv

LEMMA HeadIsNew ==
  ASSUME TypeInv, OrderInv, InOrder, CutInv, q_packet # <<>>
  PROVE  Head(q_packet) \notin Given
<1>1. /\ received \in Seq(Packets) /\ served \in Seq(Packets) /\ q_packet \in Seq(Packets) /\ Ordered
      /\ Len(received) \in Nat /\ Len(served) \in Nat /\ Len(q_packet) \in Nat \ {0}
  BY LenProperties, EmptySeq DEF OrderInv, TypeInv, TypeOK
<1>2. Head(q_packet) = q_packet[1] /\ 1 \in 1..Len(q_packet)
  BY <1>1, HeadTailProperties
<1>3. Head(q_packet) = received[Len(served) + 1] /\ Len(received) >= Len(served) + Len(q_packet)
  BY <1>1, <1>2 DEF Ordered
<1>4. Len(served) + 1 \in 1..Len(received)
  BY <1>1, <1>3
<1>5. ASSUME NEW k \in 1..Len(served) PROVE served[k] # Head(q_packet)
  <2>1. served[k] = received[k] /\ k \in 1..Len(received) /\ k # Len(served) + 1
    BY <1>1, <1>3 DEF Ordered
  <2> QED BY <1>1, <1>3, <1>4, <2>1, PacketsDiffer
<1> QED BY <1>5 DEF Given

(* The calls that are not replaced stay, each at its place from the bottom  *)
LEMMA CallsMove ==
  ASSUME main \in Seq(Frames), main # <<>>, NEW pre \in Seq(Frames), main' = pre \o Tail(main)
  PROVE  /\ Len(pre) \in Nat
         /\ \A k \in 1..Len(main') :
              \/ k \in 1..Len(pre) /\ main'[k] = pre[k]
              \/ k + (1 - Len(pre)) \in 2..Len(main) /\ main'[k] = main[k + (1 - Len(pre))]
<1>1. /\ Len(main) \in Nat \ {0} /\ Len(pre) \in Nat
      /\ Tail(main) \in Seq(Frames) /\ Len(Tail(main)) = Len(main) - 1
      /\ \A j \in 1..Len(main) - 1 : Tail(main)[j] = main[j + 1]
  BY LenProperties, EmptySeq, HeadTailProperties
<1>2. /\ Len(main') = Len(pre) + Len(Tail(main))
      /\ \A k \in 1..Len(pre) + Len(Tail(main)) :
           main'[k] = IF k <= Len(pre) THEN pre[k] ELSE Tail(main)[k - Len(pre)]
  BY <1>1, ConcatProperties
<1>3. ASSUME NEW k \in 1..Len(main'), ~(k <= Len(pre))
      PROVE  k + (1 - Len(pre)) \in 2..Len(main) /\ main'[k] = main[k + (1 - Len(pre))]
  <2>1. k - Len(pre) \in 1..Len(main) - 1 /\ k - Len(pre) + 1 = k + (1 - Len(pre))
    BY <1>1, <1>2, <1>3
  <2>2. main'[k] = Tail(main)[k - Len(pre)]
    BY <1>2, <1>3
  <2>3. main'[k] = main[k + (1 - Len(pre))]
    BY <1>1, <2>1, <2>2
  <2> QED BY <1>1, <2>1, <2>3
<1>4. ASSUME NEW k \in 1..Len(main'), k <= Len(pre) PROVE k \in 1..Len(pre) /\ main'[k] = pre[k]
  BY <1>1, <1>2, <1>4
<1> QED BY <1>1, <1>3, <1>4

LEMMA StayApart ==
  ASSUME Apart, NEW d \in Int,
         \A k \in 1..Len(main') : main'[k].at = "serving" =>
           \/ k + d \in 1..Len(main) /\ main'[k] = main[k + d]
           \/ k = 1 /\ main'[k].packet \notin InHand
  PROVE  Apart'
<1> SUFFICES ASSUME NEW k \in 1..Len(main'), NEW l \in 1..Len(main'), k # l,
                    main'[k].at = "serving", main'[l].at = "serving"
             PROVE  main'[k].packet # main'[l].packet
  BY DEF Apart
<1>1. \A m \in 1..Len(main) : main[m].at = "serving" => main[m].packet \in InHand
  BY DEF InHand
<1>2. CASE k + d \in 1..Len(main) /\ main'[k] = main[k + d]
           /\ l + d \in 1..Len(main) /\ main'[l] = main[l + d]
  <2>1. k + d # l + d
    OBVIOUS
  <2> QED BY <1>2, <2>1 DEF Apart
<1>3. CASE k = 1 /\ main'[k].packet \notin InHand /\ l + d \in 1..Len(main) /\ main'[l] = main[l + d]
  BY <1>1, <1>3
<1>4. CASE l = 1 /\ main'[l].packet \notin InHand /\ k + d \in 1..Len(main) /\ main'[k] = main[k + d]
  BY <1>1, <1>4
<1> QED BY <1>2, <1>3, <1>4

(* The innermost call is replaced by others, none of them of do_request     *)
LEMMA NothingTaken ==
  ASSUME main \in Seq(Frames), main # <<>>, Apart, NEW pre \in Seq(Frames), main' = pre \o Tail(main),
         \A k \in 1..Len(pre) : pre[k].at # "serving"
  PROVE  /\ Apart' /\ InHand' \subseteq InHand
         /\ Top.at = "serving" => Top.packet \in InHand \ InHand'
<1> DEFINE d == 1 - Len(pre)
<1>1. /\ d \in Int
      /\ \A k \in 1..Len(main') :
           main'[k].at = "serving" => k + d \in 2..Len(main) /\ main'[k] = main[k + d]
  BY CallsMove
<1> HIDE DEF d
<1>2. Len(main) \in Nat \ {0} /\ Top = main[1] /\ 2..Len(main) \subseteq 1..Len(main) /\ 1 \in 1..Len(main)
  BY LenProperties, EmptySeq, HeadTailProperties DEF Top
<1>3. Apart'
  <2>1. \A k \in 1..Len(main') : main'[k].at = "serving" => k + d \in 1..Len(main) /\ main'[k] = main[k + d]
    BY <1>1, <1>2
  <2> QED BY <1>1, <2>1, StayApart
<1>4. ASSUME NEW k \in 1..Len(main'), main'[k].at = "serving"
      PROVE  /\ main'[k].packet \in InHand
             /\ Top.at = "serving" => main'[k].packet # Top.packet
  <2>0. k + d \in 2..Len(main) /\ main'[k] = main[k + d]
    BY <1>1, <1>4
  <2>1. k + d \in 1..Len(main) /\ k + d # 1
    BY <1>1, <1>2, <2>0
  <2> QED BY <1>2, <1>4, <2>0, <2>1 DEF InHand, Apart
<1>5. Top.at = "serving" => Top.packet \in InHand
  BY <1>2 DEF InHand
<1>6. InHand' = {main'[k].packet : k \in {j \in 1..Len(main') : main'[j].at = "serving"}}
  BY DEF InHand
<1> QED BY <1>3, <1>4, <1>5, <1>6

LEMMA AccountStays ==
  ASSUME AccountInv, UNCHANGED <<served, replies>>, Apart', InHand' \subseteq InHand
  PROVE  AccountInv'
BY DEF AccountInv, Given

LEMMA DrainKeepsAccount ==
  ASSUME TypeInv, OrderInv, InOrder, CutInv, AccountInv, Drain, q_packet # <<>>
  PROVE  AccountInv'
<1> DEFINE h == Head(q_packet)
           f == [at |-> "serving", packet |-> h]
           pre == <<f>>
<1>1. /\ main \in Seq(Frames) /\ main # <<>> /\ served \in Seq(Packets) /\ h \in Packets /\ h \notin Given
      /\ Len(served) \in Nat
  BY HeadIsNew, HeadTailProperties, LenProperties DEF TypeInv, TypeOK, Frames, Drain, In, OrderInv
<1>2. main' = pre \o Tail(main) /\ served' = Append(served, h) /\ UNCHANGED replies
  BY DEF Drain
<1>3. f \in Frames /\ f.at = "serving" /\ f.packet = h
  BY <1>1 DEF Frames, Calls, CheckPoints
<1> HIDE DEF h, f
<1>4. pre \in Seq(Frames) /\ Len(pre) = 1 /\ pre[1] = f
  BY <1>3
<1> HIDE DEF pre
<1>5. \A k \in 1..Len(main') : (k = 1 /\ main'[k] = f) \/ (k \in 2..Len(main) /\ main'[k] = main[k])
  <2>1. \A k \in 1..Len(main') :
          \/ k \in 1..Len(pre) /\ main'[k] = pre[k]
          \/ k + (1 - Len(pre)) \in 2..Len(main) /\ main'[k] = main[k + (1 - Len(pre))]
    BY <1>1, <1>2, <1>4, CallsMove
  <2> SUFFICES ASSUME NEW k \in 1..Len(main') 
               PROVE  (k = 1 /\ main'[k] = f) \/ (k \in 2..Len(main) /\ main'[k] = main[k])
    OBVIOUS
  <2>2. k + (1 - Len(pre)) = k /\ (k \in 1..Len(pre) => k = 1)
    BY <1>4
  <2> QED BY <1>4, <2>1, <2>2
<1> DEFINE z == 0
<1>6. h \notin InHand /\ z \in Int /\ \A k \in 2..Len(main) : k + z \in 1..Len(main) /\ k + z = k
  BY <1>1 DEF AccountInv
<1> HIDE DEF z
<1>7. Apart'
  <2>1. \A k \in 1..Len(main') : main'[k].at = "serving" =>
          \/ k + z \in 1..Len(main) /\ main'[k] = main[k + z]
          \/ k = 1 /\ main'[k].packet \notin InHand
    BY <1>3, <1>5, <1>6
  <2> QED BY <1>6, <2>1, StayApart DEF AccountInv
<1>8. InHand' \subseteq InHand \union {h}
  <2> SUFFICES ASSUME NEW k \in 1..Len(main'), main'[k].at = "serving"
               PROVE  main'[k].packet \in InHand \union {h}
    BY DEF InHand
  <2> QED BY <1>3, <1>5, <1>6 DEF InHand
<1>9. Given' = Given \union {h}
  <2>1. /\ Len(served') = Len(served) + 1 /\ served'[Len(served) + 1] = h
        /\ \A k \in 1..Len(served) : served'[k] = served[k]
    BY <1>1, <1>2, AppendProperties
  <2>2. 1..Len(served') = 1..Len(served) \union {Len(served) + 1}
    BY <1>1, <2>1
  <2> QED BY <2>1, <2>2 DEF Given
<1>10. \A k \in 1..Len(replies) : replies[k].request \in Given' \ InHand'
  BY <1>1, <1>8, <1>9 DEF AccountInv
<1>11. InHand' \subseteq Given'
  BY <1>8, <1>9 DEF AccountInv
<1> QED BY <1>2, <1>7, <1>10, <1>11 DEF AccountInv

LEMMA ServeTakes ==
  ASSUME TypeInv, Apart, NEW answer \in Answers, Serve(answer)
  PROVE  Apart' /\ InHand' \subseteq InHand /\ Top.packet \in InHand \ InHand' /\ UNCHANGED served
<1>1. main \in Seq(Frames) /\ main # <<>> /\ Top.at = "serving" /\ UNCHANGED served
  BY DEF TypeInv, TypeOK, Frames, Serve, In
<1>2. ASSUME NEW pre, pre = <<Call("drain")>> \/ pre = <<Call("error"), Call("drain")>>
      PROVE  pre \in Seq(Frames) /\ \A k \in 1..Len(pre) : pre[k].at # "serving"
  <2>1. /\ Call("error") \in Frames /\ Call("error").at = "error"
        /\ Call("drain") \in Frames /\ Call("drain").at = "drain"
    BY CallIsFrame DEF Calls, CheckPoints
  <2>2. CASE pre = <<Call("drain")>>
    <3>1. pre \in Seq(Frames) /\ Len(pre) = 1 /\ pre[1] = Call("drain")
      BY <2>1, <2>2
    <3>2. \A k \in 1..Len(pre) : k = 1
      BY <3>1
    <3> QED BY <2>1, <3>1, <3>2
  <2>3. CASE pre = <<Call("error"), Call("drain")>>
    <3>1. pre \in Seq(Frames) /\ Len(pre) = 2 /\ pre[1] = Call("error") /\ pre[2] = Call("drain")
      BY <2>1, <2>3
    <3>2. \A k \in 1..Len(pre) : k = 1 \/ k = 2
      BY <3>1
    <3> QED BY <2>1, <3>1, <3>2
  <2> QED BY <1>2, <2>2, <2>3
<1>3. \E pre : /\ (pre = <<Call("drain")>> \/ pre = <<Call("error"), Call("drain")>>)
              /\ main' = pre \o Tail(main)
  BY DEF Serve, Goto
<1> QED BY <1>1, <1>2, <1>3, NothingTaken

LEMMA ServeKeepsAccount ==
  ASSUME TypeInv, FromInv, AccountInv, NEW answer \in Answers, Serve(answer)
  PROVE  AccountInv'
<1>1. Apart' /\ InHand' \subseteq InHand /\ Top.packet \in InHand \ InHand' /\ UNCHANGED served
  BY ServeTakes DEF AccountInv
<1>2. CASE replies' = replies
  BY <1>1, <1>2, AccountStays
<1>3. CASE replies' # replies
  <2> DEFINE r == [to |-> peer, request |-> Top.packet]
  <2>1. CanSend /\ replies' = Append(replies, r) /\ main # <<>> /\ Top.at = "serving"
    BY <1>3 DEF Serve, In
  <2>2. r.request = Top.packet /\ peer \in Clients
    BY <2>1 DEF CanSend, TypeInv, TypeOK
  <2>3. Top.packet \in Packets
    BY <1>1 DEF TypeInv, StackInv, InHand
  <2>4. r \in [to : Clients, request : Packets]
    BY <2>2, <2>3
  <2> HIDE DEF r
  <2>5. /\ Len(replies) \in Nat /\ Len(replies') = Len(replies) + 1 /\ replies'[Len(replies) + 1] = r
        /\ \A k \in 1..Len(replies) : replies'[k] = replies[k]
    BY <2>1, <2>4, AppendProperties, LenProperties DEF FromInv
  <2>6. \A k \in 1..Len(replies') : k \in 1..Len(replies) \/ k = Len(replies) + 1
    BY <2>5
  <2>7. \A k \in 1..Len(replies') : replies'[k].request \in Given' \ InHand'
    BY <1>1, <2>2, <2>5, <2>6 DEF AccountInv, Given
  <2>8. \A k, l \in 1..Len(replies') : k # l => replies'[k].request # replies'[l].request
    BY <1>1, <2>2, <2>5, <2>6 DEF AccountInv
  <2>9. InHand' \subseteq Given'
    BY <1>1 DEF AccountInv, Given
  <2> QED BY <1>1, <2>7, <2>8, <2>9 DEF AccountInv
<1> QED BY <1>2, <1>3

LEMMA ReplacingKeepsAccount ==
  ASSUME TypeInv, AccountInv, main # <<>>, UNCHANGED <<served, replies>>,
         Return \/ \E at \in {"drain", "error", "shut"} : Goto(at)
  PROVE  AccountInv'
<1>1. main \in Seq(Frames)
  BY DEF TypeInv, TypeOK, Frames
<1>2. \E pre \in Seq(Frames) : main' = pre \o Tail(main) /\ \A k \in 1..Len(pre) : pre[k].at # "serving"
  <2>1. CASE Return
    <3>1. Tail(main) \in Seq(Frames)
      BY <1>1, HeadTailProperties
    <3>2. main' = <<>> \o Tail(main) /\ <<>> \in Seq(Frames) /\ Len(<<>>) = 0
      BY <2>1, <3>1, ConcatEmptySeq, EmptySeq DEF Return
    <3>3. \A k \in 1..Len(<<>>) : <<>>[k].at # "serving"
      BY <3>2
    <3> QED BY <3>2, <3>3
  <2>2. ASSUME NEW at \in {"drain", "error", "shut"}, Goto(at)
        PROVE  \E pre \in Seq(Frames) :
                 main' = pre \o Tail(main) /\ \A k \in 1..Len(pre) : pre[k].at # "serving"
    <3> DEFINE pre == <<Call(at)>>
    <3>1. Call(at) \in Frames /\ Call(at).at = at
      BY CallIsFrame DEF Calls, CheckPoints
    <3>2. main' = pre \o Tail(main)
      BY <2>2 DEF Goto
    <3>3. pre \in Seq(Frames) /\ Len(pre) = 1 /\ pre[1] = Call(at)
      BY <3>1
    <3> HIDE DEF pre
    <3>4. \A k \in 1..Len(pre) : pre[k].at # "serving"
      <4>1. \A k \in 1..Len(pre) : k = 1
        BY <3>3
      <4> QED BY <3>1, <3>3, <4>1
    <3> QED BY <3>2, <3>3, <3>4
  <2> QED BY <2>1, <2>2
<1>3. Apart' /\ InHand' \subseteq InHand
  BY <1>1, <1>2, NothingTaken DEF AccountInv
<1> QED BY <1>3, AccountStays

LEMMA PushingKeepsAccount ==
  ASSUME TypeInv, AccountInv, UNCHANGED <<served, replies>>, main' = <<Call("drain")>> \o main
  PROVE  AccountInv'
<1>1. main \in Seq(Frames) /\ Len(main) \in Nat
  BY LenProperties DEF TypeInv, TypeOK, Frames
<1>2. InHand' \subseteq InHand
  BY <1>1, Pushed DEF TypeInv
<1> DEFINE d == 0 - 1
<1>3. \A k \in 1..Len(main') :
        (k = 1 /\ main'[k].at = "drain") \/ (k + d \in 1..Len(main) /\ main'[k] = main[k + d])
  <2>1. Call("drain") \in Frames /\ Call("drain").at = "drain"
    BY CallIsFrame DEF Calls
  <2>2. /\ <<Call("drain")>> \in Seq(Frames) /\ Len(<<Call("drain")>>) = 1
        /\ <<Call("drain")>>[1] = Call("drain")
    BY <2>1
  <2>3. /\ Len(main') = 1 + Len(main)
        /\ \A k \in 1..1 + Len(main) : main'[k] = IF k <= 1 THEN <<Call("drain")>>[k] ELSE main[k - 1]
    BY <1>1, <2>2, ConcatProperties
  <2>4. ASSUME NEW k \in 1..Len(main'), k # 1
        PROVE  k + d \in 1..Len(main) /\ main'[k] = main[k + d]
    <3>1. k - 1 = k + d /\ k - 1 \in 1..Len(main) /\ ~(k <= 1) /\ k \in 1..1 + Len(main)
      BY <1>1, <2>3, <2>4
    <3> QED BY <2>3, <3>1
  <2>5. main'[1] = Call("drain")
    BY <1>1, <2>2, <2>3
  <2> QED BY <2>1, <2>4, <2>5
<1>4. d \in Int
  OBVIOUS
<1> HIDE DEF d
<1>5. \A k \in 1..Len(main') : main'[k].at = "serving" =>
        \/ k + d \in 1..Len(main) /\ main'[k] = main[k + d]
        \/ k = 1 /\ main'[k].packet \notin InHand
  BY <1>3
<1>6. Apart'
  BY <1>4, <1>5, StayApart DEF AccountInv
<1> QED BY <1>2, <1>6, AccountStays

LEMMA AccountInvStep ==
  ASSUME TypeInv, OrderInv, FromInv, InOrder, CutInv, AccountInv, [Next]_vars
  PROVE  AccountInv'
<1>1. CASE UNCHANGED <<main, served, replies>>
  <2>1. InHand' = InHand
    BY <1>1 DEF InHand
  <2>2. Apart'
    BY <1>1 DEF AccountInv, Apart
  <2> QED BY <1>1, <2>1, <2>2, AccountStays
<1>2. ASSUME NEW i \in Runs, ThreadStep(i) PROVE AccountInv'
  BY <1>1, <1>2 DEF ThreadStep, ThreadStart, Accept, Receive, ReceiveNothing, QueuePacket, Awake, LoopTest,
     ThreadExit, mainVars, history
<1>3. CASE Network
  BY <1>1, <1>3 DEF Network, Connect, Transmit, Disconnect, mainVars, history
<1>4. CASE (\E ok \in BOOLEAN : Created(ok)) \/ StartThread \/ ErrorClose \/ Shut \/ CloseWait \/ CloseEnd
  <2>1. main # <<>> /\ UNCHANGED <<served, replies>>
    BY <1>4 DEF Created, StartThread, ErrorClose, Shut, CloseWait, CloseEnd, In, history
  <2>2. Return \/ Goto("error") \/ Goto("shut")
    BY <1>4 DEF Created, StartThread, ErrorClose, Shut, CloseWait, CloseEnd
  <2> QED BY <2>1, <2>2, ReplacingKeepsAccount
<1>5. CASE MainAwake
  BY <1>5, PushingKeepsAccount DEF MainAwake, history
<1>6. CASE Drain /\ q_packet # <<>>
  BY <1>6, DrainKeepsAccount
<1>7. CASE Drain /\ q_packet = <<>>
  BY <1>7, ReplacingKeepsAccount DEF Drain, In
<1>8. ASSUME NEW answer \in Answers, Serve(answer) PROVE AccountInv'
  BY <1>8, ServeKeepsAccount
<1>9. CASE MainChoice
  <2>1. UNCHANGED <<served, replies>>
    BY <1>9 DEF MainChoice, CloseBegin, RunServer, history
  <2>2. \E a \in Calls \ {"start", "return", "serving"}, b \in {"start", "return"} :
          main' = <<Call(a), Call(b)>>
    BY <1>9 DEF MainChoice, CloseBegin, RunServer, Calls, CheckPoints
  <2>3. InHand' = {}
    BY <2>2, Began
  <2>4. Apart'
    BY <2>3 DEF Apart, InHand
  <2> QED BY <2>1, <2>3, <2>4, AccountStays
<1>10. CASE UNCHANGED vars \/ MainOther \/ OthersAwake
  BY <1>1, <1>10, RingOnly DEF vars, mainVars, history
<1> QED BY <1>2, <1>3, <1>4, <1>5, <1>6, <1>7, <1>8, <1>9, <1>10 DEF Next, MainProgress, Elsewhere

-----------------------------------------------------------------------------
(* What is answered: packets that differ, each with segments of its own,    *)
(* and the whole of a request where a method has come to the reply.         *)
Ends(p) == HasHeader(p) /\ world.cut # "params" => Whole(p)
AnsweredInv == \A k \in 1..Len(replies) : Ends(replies[k].request)

LEMMA WorldIsRpc ==
  ASSUME TypeInv
  PROVE  world.protocol = "HTTP" /\ world.size \in {1, 2} /\ world.waits \in BOOLEAN
BY RpcAssumption DEF TypeInv, RunInv

(* A packet has some segment; one with a header the first of a request, and *)
(* the last of it if it has all of it                                      *)
LEMMA PacketHas ==
  ASSUME world.size \in {1, 2}, NEW p \in Packets, NEW n \in Nat, Cut(p, n)
  PROVE  /\ \E m \in 1..n : <<p.from, m>> \in Holds(p)
         /\ HasHeader(p) => \E m \in 1..((n + world.size - 1) \div world.size) :
                              <<p.from, (m - 1) * world.size + 1>> \in Holds(p)
         /\ HasHeader(p) /\ Whole(p) => \E m \in 1..(n \div world.size) :
                                          <<p.from, m * world.size>> \in Holds(p)
<1>1. PICK first \in Nat \ {0} : InTurn(p.data, p.from, first) /\ first + Len(p.data) - 1 <= n
  BY DEF Cut
<1> DEFINE l == Len(p.data)
<1>2. l \in Nat \ {0} /\ \A k \in 1..l : p.data[k] = <<p.from, first + k - 1>>
  BY <1>1, PacketParts DEF InTurn
<1>3. ASSUME NEW k \in 1..l, NEW x \in Nat, x = first + k - 1 PROVE <<p.from, x>> \in Holds(p)
  <2>1. p.data[k] = <<p.from, x>>
    BY <1>2, <1>3
  <2> QED BY <2>1 DEF Holds
<1>4. p.data[1] = <<p.from, first>>
  <2>1. 1 \in 1..l /\ first + 1 - 1 = first
    BY <1>2
  <2> QED BY <1>2, <2>1
<1>5. first + l - 1 <= n /\ first \in 1..n
  BY <1>1, <1>2
<1>6. <<p.from, first>> \in Holds(p)
  <2>1. 1 \in 1..l /\ first = first + 1 - 1
    BY <1>2
  <2> QED BY <1>3, <2>1
<1>7. HasHeader(p) => first % world.size = 1 % world.size
  BY <1>4 DEF HasHeader, StartsRequest
<1>8. Whole(p) => l >= world.size
  BY DEF Whole
<1> HIDE DEF l
<1>9. CASE world.size = 1
  <2>1. n \div 1 = n /\ (n + 1 - 1) \div 1 = n /\ (first - 1) * 1 + 1 = first /\ first * 1 = first
    BY <1>5
  <2> QED BY <1>5, <1>6, <1>9, <2>1
<1>10. ASSUME world.size = 2, HasHeader(p)
       PROVE  \E m \in 1..((n + 2 - 1) \div 2) :
                /\ <<p.from, (m - 1) * 2 + 1>> \in Holds(p)
                /\ Whole(p) => m \in 1..(n \div 2) /\ <<p.from, m * 2>> \in Holds(p)
  <2>1. first % 2 = 1
    BY <1>7, <1>10
  <2>2. \E j \in Nat : first = 2 * j + 1
    <3>1. first \div 2 \in Nat /\ first = 2 * (first \div 2) + 1
      BY <2>1
    <3> QED BY <3>1
  <2>3. PICK j \in Nat : first = 2 * j + 1
    BY <2>2
  <2> DEFINE m == j + 1
  <2>4. m \in Nat \ {0} /\ (m - 1) * 2 + 1 = first /\ m * 2 = first + 1
    BY <2>3
  <2>5. m \in 1..((n + 2 - 1) \div 2)
    BY <1>5, <2>3, <2>4
  <2>6. ASSUME Whole(p) PROVE m \in 1..(n \div 2) /\ <<p.from, m * 2>> \in Holds(p)
    <3>1. l >= 2 /\ l \in Nat
      BY <1>2, <1>8, <1>10, <2>6
    <3>2. 2 \in 1..l /\ first + 1 = first + 2 - 1 /\ first + 1 \in Nat /\ first + 1 <= n
      BY <1>5, <3>1
    <3>3. m \in 1..(n \div 2)
      BY <2>4, <3>2
    <3> QED BY <1>3, <2>4, <3>2, <3>3
  <2> HIDE DEF m
  <2> QED BY <1>6, <2>4, <2>5, <2>6
<1>11. CASE world.size = 2
  BY <1>5, <1>6, <1>10, <1>11
<1> QED BY <1>9, <1>11

(* Requests that are answered came in different packets                     *)
Distinct ==
  /\ \A k \in 1..Len(replies) :
       replies[k].request \in Packets /\ Cut(replies[k].request, sent[replies[k].request.from])
  /\ \A k, l \in 1..Len(replies) : k # l => Holds(replies[k].request) \cap Holds(replies[l].request) = {}

LEMMA RequestsDisjoint == TypeInv /\ OrderInv /\ FromInv /\ InOrder /\ CutInv /\ AccountInv => Distinct
<1> SUFFICES ASSUME TypeInv, OrderInv, FromInv, InOrder, CutInv, AccountInv PROVE Distinct
  OBVIOUS
<1>1. ASSUME NEW p \in Given PROVE \E i \in 1..Len(received) : received[i] = p
  <2>1. PICK i \in 1..Len(served) : served[i] = p
    BY DEF Given
  <2>2. Len(received) \in Nat /\ Len(served) \in Nat /\ Len(q_packet) \in Nat
        /\ Len(received) >= Len(served) + Len(q_packet) /\ received[i] = served[i]
    BY LenProperties DEF OrderInv, Ordered, TypeInv, TypeOK
  <2> QED BY <2>1, <2>2
<1>2. ASSUME NEW k \in 1..Len(replies)
      PROVE  replies[k].request \in Packets /\ Cut(replies[k].request, sent[replies[k].request.from])
  <2> DEFINE p == replies[k].request
  <2>1. p \in Given
    BY DEF AccountInv
  <2>2. PICK i \in 1..Len(received) : received[i] = p
    BY <1>1, <2>1
  <2>3. p \in Packets /\ Cut(p, Taken[p.from])
    BY <2>2 DEF CutInv, OrderInv
  <2> HIDE DEF p
  <2>4. p.from \in Clients
    BY <2>3, PacketParts
  <2>5. /\ sent[p.from] \in Nat /\ Len(stream[p.from]) \in Nat
        /\ Taken[p.from] = sent[p.from] - Len(stream[p.from])
    BY <2>4, SentIsNumber DEF Taken
  <2>6. Cut(p, sent[p.from])
    <3>1. Taken[p.from] \in Int /\ sent[p.from] \in Int /\ Taken[p.from] <= sent[p.from]
      BY <2>5
    <3> QED BY <2>3, <3>1, CutStaysCut
  <2> QED BY <2>3, <2>6 DEF p
<1>3. ASSUME NEW k \in 1..Len(replies), NEW l \in 1..Len(replies), k # l
      PROVE  Holds(replies[k].request) \cap Holds(replies[l].request) = {}
  <2>1. /\ replies[k].request \in Given /\ replies[l].request \in Given
        /\ replies[k].request # replies[l].request
    BY <1>3 DEF AccountInv
  <2>2. PICK i \in 1..Len(received) : received[i] = replies[k].request
    BY <1>1, <2>1
  <2>3. PICK j \in 1..Len(received) : received[j] = replies[l].request
    BY <1>1, <2>1
  <2> QED BY <2>1, <2>2, <2>3 DEF CutInv
<1> QED BY <1>2, <1>3 DEF Distinct

To(c) == {k \in DOMAIN replies : replies[k].to = c}

(* Replies that can be numbered by segments of their packets are no more    *)
(* than the numbers                                                        *)
LEMMA NumberedReplies ==
  ASSUME Distinct, NEW c, NEW n \in Nat, NEW pos, NEW R \in SUBSET (1..Len(replies)),
         \A k \in R : \E m \in 1..n : <<c, pos[m]>> \in Holds(replies[k].request)
  PROVE  IsFiniteSet(R) /\ Cardinality(R) \in Nat /\ Cardinality(R) <= n
<1> DEFINE Has(k, m) == <<c, pos[m]>> \in Holds(replies[k].request)
           T == 1..n
           f == [k \in R |-> CHOOSE m \in T : Has(k, m)]
<1>1. \A k \in R : \E m \in T : Has(k, m)
  OBVIOUS
<1> HIDE DEF T, Has
<1>2. ASSUME NEW k \in R PROVE f[k] \in T /\ Has(k, f[k])
  <2>1. f[k] = CHOOSE m \in T : Has(k, m)
    OBVIOUS
  <2>2. \E m : m \in T /\ Has(k, m)
    BY <1>1
  <2> QED BY <2>1, <2>2, Zenon
<1> HIDE DEF f
<1>3. ASSUME NEW k \in R, NEW l \in R, f[k] = f[l] PROVE k = l
  <2>1. Has(k, f[k]) /\ Has(l, f[k])
    BY <1>2, <1>3
  <2>2. k \in 1..Len(replies) /\ l \in 1..Len(replies)
    OBVIOUS
  <2>3. k # l => Holds(replies[k].request) \cap Holds(replies[l].request) = {}
    BY <2>2 DEF Distinct
  <2> QED BY <2>1, <2>3 DEF Has
<1>4. f \in [R -> T]
  BY <1>2 DEF f
<1>5. f \in Injection(R, T)
  BY <1>3, <1>4, Fun_IsInj
<1>6. IsFiniteSet(T) /\ Cardinality(T) = n
  <2>1. IsFiniteSet(1..n) /\ Cardinality(1..n) = IF 1 > n THEN 0 ELSE n - 1 + 1
    BY FS_Interval
  <2> QED BY <2>1 DEF T
<1>7. IsFiniteSet(R) /\ Cardinality(R) <= Cardinality(T)
  BY <1>5, <1>6, FS_Injection
<1> QED BY <1>6, <1>7, FS_CardinalityType

(* A client has no more replies than it has sent segments, and no more that *)
(* a method has come to than it has begun requests; or sent whole requests, *)
(* unless those are cut among their parameters.                             *)
LEMMA RepliesAreFew ==
  ASSUME TypeInv, OrderInv, FromInv, InOrder, OneRun, CutInv, AccountInv, AnsweredInv, NEW c \in Clients
  PROVE  /\ Replied(c) <= sent[c]
         /\ Cardinality(Performed(c)) <= IF world.cut = "params" THEN Begun(c) ELSE Complete(c)
<1>1. DOMAIN replies = 1..Len(replies)
  BY LenProperties DEF FromInv
<1>2. sent[c] \in Nat /\ world.size \in {1, 2} /\ Distinct
  BY SentIsNumber, WorldIsRpc, RequestsDisjoint
<1>3. ASSUME NEW k \in To(c)
      PROVE  /\ k \in 1..Len(replies) /\ replies[k].request.from = c /\ replies[k].request \in Packets
             /\ Cut(replies[k].request, sent[c]) /\ Ends(replies[k].request)
  <2>1. k \in 1..Len(replies) /\ replies[k].to = c
    BY <1>1 DEF To
  <2>2. replies[k].request.from = c
    BY <2>1 DEF FromInv, OneClient
  <2>3. replies[k].request \in Packets /\ Cut(replies[k].request, sent[replies[k].request.from])
    BY <1>2, <2>1 DEF Distinct
  <2>4. Ends(replies[k].request)
    BY <2>1 DEF AnsweredInv
  <2> QED BY <2>1, <2>2, <2>3, <2>4
<1>4. To(c) \in SUBSET (1..Len(replies)) /\ Performed(c) \in SUBSET (1..Len(replies))
      /\ \A k \in Performed(c) : k \in To(c) /\ HasHeader(replies[k].request)
  BY <1>1 DEF To, Performed
<1>5. Begun(c) \in Nat /\ Complete(c) \in Nat
  BY <1>2 DEF Begun, Complete
<1>6. Replied(c) <= sent[c]
  <2> DEFINE pos == [m \in 1..sent[c] |-> m]
  <2>1. ASSUME NEW k \in To(c) PROVE \E m \in 1..sent[c] : <<c, pos[m]>> \in Holds(replies[k].request)
    BY <1>2, <1>3, PacketHas
  <2> HIDE DEF pos
  <2>2. Cardinality(To(c)) <= sent[c]
    BY <1>2, <1>4, <2>1, NumberedReplies
  <2> QED BY <2>2 DEF Replied, To
<1>7. CASE world.cut = "params"
  <2> DEFINE pos == [m \in 1..Begun(c) |-> (m - 1) * world.size + 1]
  <2>1. ASSUME NEW k \in Performed(c)
        PROVE  \E m \in 1..Begun(c) : <<c, pos[m]>> \in Holds(replies[k].request)
    <3>1. \E m \in 1..Begun(c) : <<c, (m - 1) * world.size + 1>> \in Holds(replies[k].request)
      BY <1>2, <1>3, <1>4, PacketHas DEF Begun
    <3> QED BY <3>1
  <2> HIDE DEF pos
  <2>2. Cardinality(Performed(c)) <= Begun(c)
    BY <1>2, <1>4, <1>5, <2>1, NumberedReplies
  <2> QED BY <1>6, <1>7, <2>2
<1>8. CASE world.cut # "params"
  <2> DEFINE pos == [m \in 1..Complete(c) |-> m * world.size]
  <2>1. ASSUME NEW k \in Performed(c)
        PROVE  \E m \in 1..Complete(c) : <<c, pos[m]>> \in Holds(replies[k].request)
    <3>0. Whole(replies[k].request)
      BY <1>3, <1>4, <1>8 DEF Ends
    <3>1. \E m \in 1..Complete(c) : <<c, m * world.size>> \in Holds(replies[k].request)
      BY <1>2, <1>3, <1>4, <3>0, PacketHas DEF Complete
    <3> QED BY <3>1
  <2> HIDE DEF pos
  <2>2. Cardinality(Performed(c)) <= Complete(c)
    BY <1>2, <1>4, <1>5, <2>1, NumberedReplies
  <2> QED BY <1>6, <1>8, <2>2
<1> QED BY <1>6, <1>7, <1>8

(* A reply is sent for the packet in hand                                   *)
LEMMA RepliesGrow ==
  ASSUME TypeInv, FromInv, [RpcNext]_vars
  PROVE  \/ replies' = replies
         \/ /\ UNCHANGED sent
            /\ \E r \in [to : Clients, request : Packets] : Ends(r.request) /\ replies' = Append(replies, r)
<1>1. CASE RpcProgress /\ HandleRequest
  <2>1. PICK answer \in Answers, outcome \in Outcomes(Top.packet) :
          Serve(answer) /\ (answer = "silent") = (ReplyKind(Top.packet, outcome) = "none")
    BY <1>1 DEF HandleRequest
  <2>2. CASE answer = "reply" /\ CanSend
    <3> DEFINE p == Top.packet
               r == [to |-> peer, request |-> p]
    <3>1. main # <<>> /\ Top.at = "serving" /\ peer \in Clients
      BY <2>1, <2>2 DEF Serve, In, CanSend, TypeInv, TypeOK
    <3>2. Len(main) \in Nat \ {0} /\ Top = main[1]
      BY <3>1, LenProperties, EmptySeq, HeadTailProperties DEF TypeInv, TypeOK, Top
    <3>3. 1 \in 1..Len(main)
      BY <3>2
    <3>4. p \in Packets
      BY <3>1, <3>2, <3>3 DEF TypeInv, StackInv
    <3>5. Ends(p)
      <4> SUFFICES ASSUME HasHeader(p), world.cut # "params", ~Whole(p) PROVE FALSE
        BY DEF Ends
      <4>1. ReplyKind(p, outcome) # "none" /\ outcome \in Outcomes(p)
        BY <2>1, <2>2
      <4>2. outcome = "unknown"
        BY <4>1 DEF Outcomes
      <4> QED BY <4>1, <4>2 DEF ReplyKind
    <3>6. replies' = Append(replies, r) /\ UNCHANGED sent
      BY <2>1, <2>2 DEF Serve, netVars
    <3> HIDE DEF p
    <3>7. r \in [to : Clients, request : Packets] /\ r.request = p
      BY <3>1, <3>4
    <3> QED BY <3>5, <3>6, <3>7
  <2> QED BY <2>1, <2>2 DEF Serve
<1>2. CASE ~(RpcProgress /\ HandleRequest)
  <2>1. replies' = replies
    BY <1>2, RingOnly DEF RpcNext, Elsewhere, RpcProgress, RpcClient, SendRequest, MainChoice, ThreadStep, vars, Connect, Transmit,
       Disconnect, ThreadStart, Accept, Receive, ReceiveNothing, QueuePacket, Awake, LoopTest, ThreadExit,
       Created, StartThread, ErrorClose, Shut, CloseWait, CloseEnd, MainAwake, Drain, CloseBegin, RunServer,
       history
  <2> QED BY <2>1
<1> QED BY <1>1, <1>2

LEMMA AnsweredInvStep ==
  ASSUME TypeInv, FromInv, AnsweredInv, [RpcNext]_vars
  PROVE  AnsweredInv'
<1>0. world' = world
  BY DEF RpcNext, RpcProgress, MainChoice, RpcClient, Elsewhere, ThreadStep, vars
<1>1. CASE replies' = replies
  BY <1>0, <1>1 DEF AnsweredInv, Ends, HasHeader, Whole, StartsRequest
<1>2. ASSUME NEW r \in [to : Clients, request : Packets], Ends(r.request), replies' = Append(replies, r)
      PROVE  AnsweredInv'
  <2>1. /\ Len(replies) \in Nat /\ Len(replies') = Len(replies) + 1 /\ replies'[Len(replies) + 1] = r
        /\ \A k \in 1..Len(replies) : replies'[k] = replies[k]
    BY <1>2, AppendProperties, LenProperties DEF FromInv
  <2>2. ASSUME NEW k \in 1..Len(replies') PROVE Ends(replies'[k].request)
    <3>1. k \in 1..Len(replies) \/ k = Len(replies) + 1
      BY <2>1
    <3> QED BY <1>2, <2>1, <3>1 DEF AnsweredInv
  <2> QED BY <1>0, <2>2 DEF AnsweredInv, Ends, HasHeader, Whole, StartsRequest
<1> QED BY <1>1, <1>2, RepliesGrow

-----------------------------------------------------------------------------
(* Requests of one segment, from clients that wait: the replies a client    *)
(* has answer its requests one by one, and at most one more is on its way.  *)
Waiting == world.size = 1 /\ world.waits

(* The client's requests that have been answered                            *)
Answered(c, n) == \E k \in To(c) : <<c, n>> \in Holds(replies[k].request)

InStep ==
  /\ \A c \in Clients : sent[c] <= Replied(c) + 1 /\ \A n \in 1..Replied(c) : Answered(c, n)
  /\ \A k \in 1..Len(replies) : <<replies[k].to, Nth(k)>> \in Holds(replies[k].request)

WaitInv == Waiting => InStep

LEMMA RepliedIsNumber ==
  ASSUME replies \in Seq([to : Clients, request : Packets]), NEW c \in Clients
  PROVE  IsFiniteSet(To(c)) /\ Replied(c) = Cardinality(To(c)) /\ Replied(c) \in Nat
<1>1. Len(replies) \in Nat /\ DOMAIN replies = 1..Len(replies)
  BY LenProperties
<1>2. IsFiniteSet(1..Len(replies))
  BY <1>1, FS_Interval
<1>3. To(c) \in SUBSET (1..Len(replies))
  BY <1>1 DEF To
<1>4. IsFiniteSet(To(c))
  BY <1>2, <1>3, FS_Subset
<1>5. Replied(c) = Cardinality(To(c))
  BY DEF Replied, To
<1> QED BY <1>4, <1>5, FS_CardinalityType

(* A new reply: its client has one more, the others have what they had      *)
LEMMA RepliedGrows ==
  ASSUME replies \in Seq([to : Clients, request : Packets]), NEW r \in [to : Clients, request : Packets],
         replies' = Append(replies, r)
  PROVE  /\ Len(replies) \in Nat /\ Len(replies') = Len(replies) + 1 /\ replies'[Len(replies) + 1] = r
         /\ \A k \in 1..Len(replies) : replies'[k] = replies[k]
         /\ \A c \in Clients :
              To(c) \subseteq To(c)' /\ (c # r.to => To(c)' = To(c) /\ Replied(c)' = Replied(c))
         /\ Replied(r.to)' = Replied(r.to) + 1 /\ Len(replies) + 1 \in To(r.to)'
         /\ \A k \in 1..Len(replies) : Nth(k)' = Nth(k)
         /\ \A n : n = Len(replies) + 1 => Nth(n)' = Replied(r.to)'
<1>1. /\ Len(replies) \in Nat /\ Len(replies') = Len(replies) + 1 /\ replies'[Len(replies) + 1] = r
      /\ \A k \in 1..Len(replies) : replies'[k] = replies[k]
      /\ replies' \in Seq([to : Clients, request : Packets])
  BY AppendProperties, LenProperties
<1> DEFINE m == Len(replies) + 1
<1>2. DOMAIN replies = 1..Len(replies) /\ DOMAIN replies' = 1..Len(replies')
  BY <1>1, LenProperties
<1>3. 1..Len(replies') = 1..Len(replies) \union {m} /\ m \notin 1..Len(replies)
  BY <1>1
<1>4. replies'[m] = r /\ r.to \in Clients
  BY <1>1
<1> HIDE DEF m
<1>5. ASSUME NEW c \in Clients
      PROVE  To(c)' = IF c = r.to THEN To(c) \union {m} ELSE To(c)
  <2>1. To(c)' = {k \in 1..Len(replies) \union {m} : replies'[k].to = c}
    BY <1>2, <1>3 DEF To
  <2>2. To(c) = {k \in 1..Len(replies) : replies[k].to = c}
    BY <1>2 DEF To
  <2> QED BY <1>1, <1>4, <2>1, <2>2
<1>6. m \notin To(r.to)
  BY <1>2, <1>3 DEF To
<1>7. \A c \in Clients : Replied(c) = Cardinality(To(c)) /\ IsFiniteSet(To(c))
  BY RepliedIsNumber
<1>8. \A c \in Clients : Replied(c)' = Cardinality(To(c)')
  BY <1>1, <1>2 DEF Replied, To
<1>9. Replied(r.to)' = Replied(r.to) + 1
  <2>1. /\ IsFiniteSet(To(r.to))
        /\ Cardinality(To(r.to) \union {m}) =
             IF m \in To(r.to) THEN Cardinality(To(r.to)) ELSE Cardinality(To(r.to)) + 1
    BY <1>4, <1>7, FS_AddElement
  <2> QED BY <1>4, <1>5, <1>6, <1>7, <1>8, <2>1
<1>10. ASSUME NEW k \in 1..Len(replies) PROVE Nth(k)' = Nth(k)
  <2>1. 1..k \subseteq 1..Len(replies)
    BY <1>1
  <2>2. {j \in 1..k : replies'[j].to = replies'[k].to} = {j \in 1..k : replies[j].to = replies[k].to}
    BY <1>1, <2>1
  <2> QED BY <2>2 DEF Nth
<1>11. ASSUME NEW n, n = m PROVE Nth(n)' = Replied(r.to)'
  <2>1. n = Len(replies')
    BY <1>1, <1>11 DEF m
  <2>2. {j \in 1..n : replies'[j].to = replies'[n].to} = To(r.to)'
    BY <1>2, <1>4, <1>11, <2>1 DEF To
  <2> QED BY <1>4, <1>8, <2>2 DEF Nth
<1> QED BY <1>1, <1>4, <1>5, <1>8, <1>7, <1>9, <1>10, <1>11 DEF m

LEMMA WaitInvStep ==
  ASSUME TypeInv, TypeInv', FromInv, FromInv', OrderInv', CutInv', AccountInv', InOrder', OneRun', WaitInv,
         [RpcNext]_vars
  PROVE  WaitInv'
<1>0. world' = world /\ Distinct'
  <2>1. (TypeInv /\ OrderInv /\ FromInv /\ InOrder /\ CutInv /\ AccountInv => Distinct)'
    BY RequestsDisjoint, PTL
  <2> QED BY <2>1 DEF RpcNext, RpcProgress, MainChoice, RpcClient, Elsewhere, ThreadStep, vars
<1> SUFFICES ASSUME Waiting, InStep PROVE InStep'
  BY <1>0 DEF WaitInv, Waiting
<1>1. CASE UNCHANGED <<sent, replies>>
  <2>1. \A c \in Clients : To(c)' = To(c) /\ Replied(c)' = Replied(c)
    BY <1>1 DEF To, Replied
  <2>2. \A k \in 1..Len(replies) : Nth(k)' = Nth(k)
    BY <1>1 DEF Nth
  <2>3. \A c \in Clients : \A n \in 1..Replied(c) : Answered(c, n)'
    BY <1>1, <2>1 DEF InStep, Answered
  <2> QED BY <1>1, <2>1, <2>2, <2>3 DEF InStep
<1>2. ASSUME NEW c \in Clients, SendRequest(c) PROVE InStep'
  <2>1. UNCHANGED replies /\ sent' = [sent EXCEPT ![c] = @ + 1] /\ Replied(c) >= sent[c] \div world.size
    BY <1>2 DEF SendRequest, Transmit, history, Waiting
  <2>2. \A d \in Clients : To(d)' = To(d) /\ Replied(d)' = Replied(d)
    BY <2>1 DEF To, Replied
  <2>3. \A k \in 1..Len(replies) : Nth(k)' = Nth(k)
    BY <2>1 DEF Nth
  <2>4. \A d \in Clients : \A n \in 1..Replied(d) : Answered(d, n)'
    BY <2>1, <2>2 DEF InStep, Answered
  <2>5. sent \in [Clients -> 0..MaxSegments] /\ sent[c] \in Nat
    BY SentIsNumber DEF TypeInv, TypeOK
  <2>6. sent'[c] <= Replied(c) + 1
    <3>1. sent[c] \div world.size = sent[c] /\ sent'[c] = sent[c] + 1
      BY <2>1, <2>5 DEF Waiting
    <3>2. Replied(c) \in Nat
      BY RepliedIsNumber DEF FromInv
    <3> QED BY <2>1, <2>5, <3>1, <3>2
  <2>7. \A d \in Clients : sent'[d] <= Replied(d)' + 1
    BY <2>1, <2>2, <2>5, <2>6 DEF InStep
  <2> QED BY <2>1, <2>2, <2>3, <2>4, <2>7 DEF InStep
<1>3. ASSUME UNCHANGED sent, NEW r \in [to : Clients, request : Packets], replies' = Append(replies, r)
      PROVE  InStep'
  <2> DEFINE c == r.to
             p == r.request
             l == Len(replies) + 1
  <2>1. /\ Len(replies) \in Nat /\ Len(replies') = l /\ replies'[l] = r
        /\ \A k \in 1..Len(replies) : replies'[k] = replies[k]
        /\ \A d \in Clients : To(d) \subseteq To(d)' /\ (d # c => To(d)' = To(d) /\ Replied(d)' = Replied(d))
        /\ Replied(c)' = Replied(c) + 1 /\ l \in To(c)'
        /\ \A k \in 1..Len(replies) : Nth(k)' = Nth(k)
        /\ \A n : n = l => Nth(n)' = Replied(c)'
    BY <1>3, RepliedGrows DEF FromInv
  <2>2. DOMAIN replies = 1..Len(replies) /\ l \in 1..Len(replies')
    BY <2>1, LenProperties DEF FromInv
  <2>3. p \in Packets /\ p.from = c /\ c \in Clients
    BY <2>1, <2>2, <1>3 DEF FromInv, OneClient
  <2>4. Cut(p, sent[p.from])
    BY <1>0, <1>3, <2>1, <2>2 DEF Distinct
  <2>5. \A k \in 1..Len(replies) : Holds(replies[k].request) \cap Holds(p) = {}
    <3>1. \A k \in 1..Len(replies) : k \in 1..Len(replies') /\ k # l
      BY <2>1
    <3> QED BY <1>0, <2>1, <2>2, <3>1 DEF Distinct
  <2>6. \A k \in 1..Len(replies') : k \in 1..Len(replies) \/ k = l
    BY <2>1
  <2> HIDE DEF c, p, l
  <2>7. sent[c] \in Nat /\ Replied(c) \in Nat /\ sent[c] <= Replied(c) + 1
    BY <2>3, SentIsNumber, RepliedIsNumber DEF FromInv, InStep
  <2>8. <<c, Replied(c) + 1>> \in Holds(p)
    <3>1. world.size \in {1, 2} /\ Cut(p, sent[c])
      BY <2>3, <2>4 DEF Waiting
    <3>2. \E m \in 1..sent[c] : <<c, m>> \in Holds(p)
      BY <2>3, <2>7, <3>1, PacketHas
    <3>3. PICK m \in 1..sent[c] : <<c, m>> \in Holds(p)
      BY <3>2
    <3>5. ~(m \in 1..Replied(c))
      <4>1. SUFFICES ASSUME m \in 1..Replied(c) PROVE FALSE
        OBVIOUS
      <4>2. PICK k \in To(c) : <<c, m>> \in Holds(replies[k].request)
        BY <2>3, <4>1 DEF InStep, Answered
      <4>3. k \in 1..Len(replies)
        BY <2>2 DEF To
      <4> QED BY <2>5, <3>3, <4>2, <4>3
    <3>6. m = Replied(c) + 1
      BY <2>7, <3>5
    <3> QED BY <3>3, <3>6
  <2>9. replies'[l].to = c /\ replies'[l].request = p
    BY <2>1 DEF c, p
  <2>10. ASSUME NEW d \in Clients
         PROVE  sent'[d] <= Replied(d)' + 1 /\ \A n : n \in 1..Replied(d)' => Answered(d, n)'
    <3>1. ASSUME NEW n, n \in 1..Replied(d) PROVE Answered(d, n)'
      <4>1. PICK k \in To(d) : <<d, n>> \in Holds(replies[k].request)
        BY <3>1 DEF InStep, Answered
      <4>2. k \in To(d)' /\ replies'[k] = replies[k]
        BY <2>1, <2>2, <4>1 DEF To
      <4> QED BY <4>1, <4>2 DEF Answered
    <3>2. CASE d # c
      <4>1. Replied(d)' = Replied(d) /\ sent'[d] = sent[d]
        BY <1>3, <2>1, <3>2
      <4> QED BY <3>1, <4>1 DEF InStep
    <3>3. CASE d = c
      <4>1. Replied(c)' = Replied(c) + 1 /\ sent'[c] = sent[c]
        BY <1>3, <2>1
      <4>2. ASSUME NEW n, n = Replied(c) + 1 PROVE Answered(c, n)'
        <5>1. l \in To(c)' /\ <<c, n>> \in Holds(replies'[l].request)
          BY <2>1, <2>8, <2>9, <4>2
        <5> QED BY <5>1 DEF Answered
      <4>3. \A n : n \in 1..Replied(c) + 1 => n \in 1..Replied(c) \/ n = Replied(c) + 1
        BY <2>7
      <4>4. sent'[c] <= Replied(c)' + 1
        BY <2>7, <4>1
      <4> QED BY <3>1, <3>3, <4>1, <4>2, <4>3, <4>4
    <3> QED BY <3>2, <3>3
  <2>11. ASSUME NEW k \in 1..Len(replies') PROVE <<replies'[k].to, Nth(k)'>> \in Holds(replies'[k].request)
    <3>1. CASE k = l
      <4>1. Nth(k)' = Replied(c) + 1
        BY <2>1, <3>1
      <4> QED BY <2>8, <2>9, <3>1, <4>1
    <3>2. CASE k \in 1..Len(replies)
      BY <2>1, <3>2 DEF InStep
    <3> QED BY <2>6, <3>1, <3>2
  <2> QED BY <2>10, <2>11 DEF InStep
<1>4. CASE ~(\E c \in Clients : SendRequest(c))
  <2>1. sent' = sent
    BY <1>4, RingOnly DEF RpcNext, RpcProgress, HandleRequest, Elsewhere, RpcClient, MainChoice, ThreadStep, vars, Connect,
       Disconnect, ThreadStart, Accept, Receive, ReceiveNothing, QueuePacket, Awake, LoopTest, ThreadExit,
       Created, StartThread, ErrorClose, Shut, CloseWait, CloseEnd, MainAwake, Drain, Serve, CloseBegin,
       RunServer, netVars
  <2> QED BY <1>1, <1>3, <2>1, RepliesGrow
<1> QED BY <1>2, <1>4

(* However TCP cuts up what a client sends, no request is performed and     *)
(* answered twice, nor before its end has arrived unless it is cut among    *)
(* its parameters (which handle_request does not notice); and where         *)
(* requests come in one piece and clients wait, the n-th reply of a client  *)
(* answers its n-th request.                                                *)
THEOREM RepliesMatch == RpcSpec => []RepliesMatchRequests
<1> DEFINE Inv == /\ TypeInv /\ QuietInv /\ OrderInv /\ FromInv
                  /\ (world.runs = 1 => CutInv /\ AccountInv /\ AnsweredInv /\ WaitInv)
<1>1. Init => Inv
  <2> SUFFICES ASSUME Init PROVE Inv
    OBVIOUS
  <2>1. /\ main = <<>> /\ received = <<>> /\ replies = <<>> /\ Len(<<>>) = 0
        /\ \A c \in Clients : sent[c] = 0 /\ stream[c] = <<>>
    BY DEF Init
  <2>2. QuietInv
    BY DEF Init, QuietInv, Quiescing, At, Runs
  <2>3. CutInv
    BY <2>1 DEF CutInv, InTurn
  <2>4. AccountInv /\ AnsweredInv
    BY <2>1 DEF AccountInv, Apart, InHand, AnsweredInv
  <2>5. InStep
    <3>1. \A c \in Clients : Replied(c) = 0
      <4>1. ASSUME NEW c \in Clients PROVE {k \in DOMAIN replies : replies[k].to = c} = {}
        BY <2>1
      <4> QED BY <4>1, FS_EmptySet DEF Replied
    <3> QED BY <2>1, <3>1 DEF InStep
  <2> QED BY <2>2, <2>3, <2>4, <2>5, TypeInvInit, OrderInvInit, FromInvInit DEF WaitInv
<1>2. Inv /\ [RpcNext]_vars => Inv'
  <2> SUFFICES ASSUME Inv, [RpcNext]_vars PROVE Inv'
    OBVIOUS
  <2>1. [Next]_vars /\ world' = world
    BY RpcStepIsServerStep DEF RpcNext, RpcProgress, RpcClient, MainChoice, Elsewhere, ThreadStep, vars
  <2>2. TypeInv' /\ QuietInv' /\ OrderInv' /\ FromInv'
    BY <2>1, TypeInvStep, QuietInvStep, OrderInvStep, FromInvStep
  <2>3. ASSUME world.runs = 1 PROVE CutInv' /\ AccountInv' /\ AnsweredInv' /\ WaitInv'
    <3>1. InOrder /\ InOrder' /\ OneRun' /\ CutInv /\ AccountInv /\ AnsweredInv /\ WaitInv
      BY <2>1, <2>3, WorldIsRpc DEF InOrder, OneRun
    <3>2. CutInv' /\ AccountInv' /\ AnsweredInv'
      BY <2>1, <3>1, CutInvStep, AccountInvStep, AnsweredInvStep
    <3>3. WaitInv'
      BY <2>1, <2>2, <3>1, <3>2, WaitInvStep
    <3> QED BY <3>2, <3>3
  <2> QED BY <2>1, <2>2, <2>3
<1>3. Inv => RepliesMatchRequests
  <2> SUFFICES ASSUME Inv, world.runs = 1 PROVE RepliesMatchRequests
    BY DEF RepliesMatchRequests
  <2>1. InOrder /\ OneRun /\ CutInv /\ AccountInv /\ AnsweredInv /\ WaitInv
    BY WorldIsRpc DEF InOrder, OneRun
  <2>2. \A c \in Clients :
          /\ Cardinality(Performed(c)) <= IF world.cut = "params" THEN Begun(c) ELSE Complete(c)
          /\ Replied(c) <= sent[c]
    BY <2>1, RepliesAreFew
  <2>3. ASSUME Waiting, NEW k \in DOMAIN replies
        PROVE  <<replies[k].to, Nth(k)>> \in ToSet(replies[k].request.data)
    <3>0. replies \in Seq([to : Clients, request : Packets]) /\ DOMAIN replies = 1..Len(replies)
      BY LenProperties DEF FromInv
    <3>4. k \in 1..Len(replies)
      BY <2>3, <3>0
    <3>1. k \in 1..Len(replies) /\ replies[k] \in [to : Clients, request : Packets]
      BY <3>0, <3>4, ElementOfSeq
    <3>2. <<replies[k].to, Nth(k)>> \in Holds(replies[k].request)
      BY <2>1, <2>3, <3>1 DEF WaitInv, InStep
    <3>3. ToSet(replies[k].request.data) = Holds(replies[k].request)
      <4>1. replies[k].request.data \in Seq(Segments)
        BY <3>1, PacketParts
      <4> QED BY <4>1, LenProperties DEF ToSet, Holds
    <3> QED BY <3>2, <3>3
  <2> QED BY <2>2, <2>3 DEF RepliesMatchRequests, Waiting
<1> QED BY <1>1, <1>2, <1>3, PTL DEF RpcSpec

(* Whatever handle_request decides, this server is a socket server: what is *)
(* shown of any application's server holds of it.                           *)
THEOREM RpcServerIsSocketServer == RpcSpec => Spec
BY RpcStepIsServerStep, PTL DEF RpcSpec, Spec
=============================================================================
