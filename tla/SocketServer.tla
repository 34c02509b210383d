----------------------------- MODULE SocketServer -----------------------------
(***************************************************************************)
(* zc_socket_server (src/zc_socket_server.cpp), POSIX build: run_server    *)
(* starts a thread that receives packets and queues them; FLTK's main loop *)
(* takes each packet off the queue in cb_th_packet and hands it to the     *)
(* application, which may answer with send_response; close_server(true)    *)
(* raises closing_ and spins until the thread has raised closed_.          *)
(*                                                                         *)
(* A status message may run FLTK's event loop inside any of these calls, so *)
(* the main thread is a stack of calls: cb_th_packet can start again inside *)
(* do_request, or inside close_server.                                      *)
(*                                                                         *)
(* The two sides share server_, client_ (HTTP) or client_addr_ (UDP), the  *)
(* two flags, the packet queue and its mutex, and Fl::awake's ring. They   *)
(* interleave wherever the code holds no lock.                             *)
(***************************************************************************)
EXTENDS Naturals, Sequences, FiniteSets, SequencesExt

CONSTANTS Clients,      (* remote programs                                   *)
          NoClient,     (* INVALID_SOCKET, or no address yet                 *)
          Worlds,       (* the circumstances to consider, see world          *)
          MaxSegments,  (* bound: segments (datagrams) each client sends     *)
          MaxRuns,      (* bound: calls of run_server                        *)
          RingSize,     (* entries Fl::awake can hold                        *)
          InheritsNonblock (* accept() hands O_NONBLOCK on (BSD); on Linux   *)
                        (* it does not and recv(client_) blocks              *)

ASSUME ServerAssumption ==
  /\ NoClient \notin Clients
  /\ MaxSegments \in Nat /\ MaxRuns \in Nat \ {0} /\ RingSize \in Nat \ {0}
  /\ InheritsNonblock \in BOOLEAN
  /\ \A w \in Worlds : /\ w.protocol \in {"UDP", "HTTP"}
                       /\ w.banner \in BOOLEAN /\ w.patient \in BOOLEAN
                       /\ w.runs \in 1..MaxRuns /\ w.segments \in 0..MaxSegments
                       /\ w.others \in Nat

(* Rigid: the protocol the server was constructed for; whether status       *)
(* messages go to a banner, which then lets FLTK handle what is pending     *)
(* (Fl::check); whether the application is patient, that is, closes the     *)
(* server only when its thread is up and restarts it only after a close;    *)
(* how many runs and segments it sees; and how many entries the rest of the *)
(* program makes in FLTK's ring.                                            *)
VARIABLE world

VARIABLES closing,    (* closing_                                            *)
          closed,     (* closed_                                             *)
          server,     (* server_: the run that opened it, 0 when invalid     *)
          peer,       (* client_ or client_addr_                             *)
          tpc,        (* where the thread of each run is in rcv_packet       *)
          buffer,     (* the packet a thread has received and not queued     *)
          q_packet,   (* q_packet_                                           *)
          ring,       (* FLTK's ring: our calls of cb_th_packet, and others' *)
          others,     (* entries other parts of the program have yet to make *)
          lost,       (* history: the last call of Fl::awake found the ring  *)
                      (* full of others' entries                             *)
          main,       (* the main thread's calls, innermost first; <<>> when *)
                      (* it is in FLTK's loop                                *)
          runs,       (* calls of run_server so far                          *)
          quiet,      (* close_server(true) returned, and no run since       *)
          sent,       (* segments each client has sent                       *)
          stream,     (* segments in the kernel for each client              *)
          backlog,    (* clients waiting to be accepted                      *)
          gone,       (* HTTP clients that have closed their connection      *)
          received,   (* history: packets in the order they were received    *)
          served,     (* history: packets in the order do_request had them   *)
          replies     (* history: each reply with the client it was sent to  *)

threadVars == <<tpc, buffer>>
ringVars == <<ring, others, lost>>
mainVars == <<main, runs, quiet>>
netVars == <<sent, stream, backlog, gone>>
history == <<received, served, replies>>
vars == <<world, closing, closed, server, peer, threadVars, q_packet, ringVars, mainVars, netVars, history>>

Runs == 1..MaxRuns
Segments == Clients \X (1..MaxSegments)
Packets == [from : Clients, data : Seq(Segments) \ {<<>>}]

Init ==
  /\ world \in Worlds
  /\ closing = FALSE /\ closed = TRUE
  /\ server = 0 /\ peer = NoClient
  /\ tpc = [i \in Runs |-> "none"]
  /\ buffer = [i \in Runs |-> <<>>]
  /\ q_packet = <<>>
  /\ ring = <<>> /\ others = world.others /\ lost = FALSE
  /\ main = <<>> /\ runs = 0 /\ quiet = FALSE
  /\ sent = [c \in Clients |-> 0]
  /\ stream = [c \in Clients |-> <<>>]
  /\ backlog = {} /\ gone = {}
  /\ received = <<>> /\ served = <<>> /\ replies = <<>>

-----------------------------------------------------------------------------
(* The network, as far as the socket calls show it                         *)
Bound == server # 0 /\ \A k \in DOMAIN main : main[k].at # "opened"

Connect(c) ==
  /\ world.protocol = "HTTP"
  /\ Bound /\ c \notin backlog \union gone /\ c # peer
  /\ backlog' = backlog \union {c}
  /\ UNCHANGED <<closing, closed, server, peer, threadVars, q_packet, ringVars, mainVars, sent, stream, gone,
                 history>>

Transmit(c) ==
  /\ sent[c] < world.segments
  /\ IF world.protocol = "HTTP" THEN c \in (backlog \union {peer}) \ gone ELSE Bound
  /\ sent' = [sent EXCEPT ![c] = @ + 1]
  /\ stream' = [stream EXCEPT ![c] = Append(@, <<c, sent'[c]>>)]
  /\ UNCHANGED <<closing, closed, server, peer, threadVars, q_packet, ringVars, mainVars, backlog, gone, history>>

Disconnect(c) ==
  /\ world.protocol = "HTTP"
  /\ c \in (backlog \union {peer}) \ gone
  /\ gone' = gone \union {c}
  /\ UNCHANGED <<closing, closed, server, peer, threadVars, q_packet, ringVars, mainVars, sent, stream, backlog,
                 history>>

(* shutdown() and close() of server_: what the kernel held for it is lost,  *)
(* the connection of an accepted client is not touched.                     *)
ForgetServer ==
  /\ backlog' = {}
  /\ stream' = [c \in Clients |-> IF world.protocol = "HTTP" /\ c = peer THEN stream[c] ELSE <<>>]

-----------------------------------------------------------------------------
(* rcv_packet, on the thread of run i                                      *)

(* Overwriting client_ loses the connection it stood for                    *)
LeaveClient == [c \in Clients |-> IF c = peer THEN <<>> ELSE stream[c]]

(* mutant: `closed_ = false' missing                                       *)
ThreadStartStaysClosed(i) ==
  /\ tpc[i] = "new"
  /\ IF world.protocol = "HTTP"
     THEN peer' = NoClient /\ tpc' = [tpc EXCEPT ![i] = "accept"] /\ stream' = LeaveClient
     ELSE tpc' = [tpc EXCEPT ![i] = "recv"] /\ UNCHANGED <<peer, stream>>
  /\ UNCHANGED <<closing, closed, server, buffer, q_packet, ringVars, mainVars, sent, backlog, gone, history>>

ThreadStart(i) ==
  /\ tpc[i] = "new"
  /\ closed' = FALSE
  /\ IF world.protocol = "HTTP"
     THEN peer' = NoClient /\ tpc' = [tpc EXCEPT ![i] = "accept"] /\ stream' = LeaveClient
     ELSE tpc' = [tpc EXCEPT ![i] = "recv"] /\ UNCHANGED <<peer, stream>>
  /\ UNCHANGED <<closing, server, buffer, q_packet, ringVars, mainVars, sent, backlog, gone, history>>

(* accept_client, called until there is a client or the server is closing   *)
Accept(i) ==
  /\ tpc[i] = "accept"
  /\ \/ /\ peer # NoClient \/ closing
        /\ tpc' = [tpc EXCEPT ![i] = "recv"]
        /\ UNCHANGED <<peer, backlog>>
     \/ /\ peer = NoClient /\ ~closing
        /\ server # 0
        /\ \E c \in backlog : peer' = c /\ backlog' = backlog \ {c}
        /\ UNCHANGED tpc
  /\ UNCHANGED <<closing, closed, server, buffer, q_packet, ringVars, mainVars, sent, stream, gone, history>>

(* What one recvfrom or recv can return: a datagram of any client; or any   *)
(* non-empty run of what the accepted client has sent.                      *)
Incoming ==
  IF world.protocol = "UDP"
  THEN IF server = 0 THEN {}
       ELSE {[from |-> c, data |-> <<stream[c][1]>>] : c \in {d \in Clients : stream[d] # <<>>}}
  ELSE IF peer = NoClient THEN {}
       ELSE {[from |-> peer, data |-> SubSeq(stream[peer], 1, n)] : n \in 1..Len(stream[peer])}

Receive(i) ==
  /\ tpc[i] = "recv"
  /\ \E p \in Incoming :
       /\ peer' = p.from
       /\ buffer' = [buffer EXCEPT ![i] = p]
       /\ stream' = [stream EXCEPT ![p.from] = SubSeq(@, Len(p.data) + 1, Len(@))]
       /\ received' = Append(received, p)
  /\ tpc' = [tpc EXCEPT ![i] = "push"]
  /\ UNCHANGED <<closing, closed, server, q_packet, ringVars, mainVars, sent, backlog, gone, served, replies>>

(* recv has nothing to return and does not come back                        *)
RecvBlocks == world.protocol = "HTTP" /\ ~InheritsNonblock /\ peer \in Clients \ gone

(* zero or an error: sleep, then the loop's condition                       *)
ReceiveNothing(i) ==
  /\ tpc[i] = "recv"
  /\ Incoming = {} /\ ~RecvBlocks
  /\ tpc' = [tpc EXCEPT ![i] = "test"]
  /\ UNCHANGED <<closing, closed, server, peer, buffer, q_packet, ringVars, mainVars, netVars, history>>

QueuePacket(i) ==
  /\ tpc[i] = "push"
  /\ q_packet' = Append(q_packet, buffer[i])
  /\ buffer' = [buffer EXCEPT ![i] = <<>>]
  /\ tpc' = [tpc EXCEPT ![i] = "awake"]
  /\ UNCHANGED <<closing, closed, server, peer, ringVars, mainVars, netVars, history>>

(* mutant: the main loop is not woken                                       *)
NoAwake(i) ==
  /\ tpc[i] = "awake"
  /\ tpc' = [tpc EXCEPT ![i] = "test"]
  /\ UNCHANGED <<closing, closed, server, peer, buffer, q_packet, ringVars, mainVars, netVars, history>>

(* Fl::awake fails when the ring, which is the whole program's, is full;    *)
(* the result is not looked at                                              *)
Awake(i) ==
  /\ tpc[i] = "awake"
  /\ ring' = IF Len(ring) < RingSize THEN Append(ring, "packet") ELSE ring
  /\ lost' = (Len(ring) = RingSize /\ "packet" \notin ToSet(ring))
  /\ tpc' = [tpc EXCEPT ![i] = "test"]
  /\ UNCHANGED <<closing, closed, server, peer, buffer, q_packet, others, mainVars, netVars, history>>

LoopTest(i) ==
  /\ tpc[i] = "test"
  /\ tpc' = [tpc EXCEPT ![i] = IF closing THEN "exit" ELSE "recv"]
  /\ UNCHANGED <<closing, closed, server, peer, buffer, q_packet, ringVars, mainVars, netVars, history>>

(* mutant: the thread ends without telling close_server                     *)
ThreadExitSilent(i) ==
  /\ tpc[i] = "exit"
  /\ tpc' = [tpc EXCEPT ![i] = "done"]
  /\ UNCHANGED <<closing, closed, server, peer, buffer, q_packet, ringVars, mainVars, netVars, history>>

ThreadExit(i) ==
  /\ tpc[i] = "exit"
  /\ closed' = TRUE
  /\ tpc' = [tpc EXCEPT ![i] = "done"]
  /\ UNCHANGED <<closing, server, peer, buffer, q_packet, ringVars, mainVars, netVars, history>>

-----------------------------------------------------------------------------
(* The main thread: calls in progress                                      *)
Call(at) == [at |-> at, packet |-> <<>>]
Top == Head(main)
In(at) == main # <<>> /\ Top.at = at
Return == main' = Tail(main)
Goto(at) == main' = <<Call(at)>> \o Tail(main)

(* A message is shown here, and zc_banner::add_message calls Fl::check      *)
CheckPoints == {"opened", "error", "shut", "serving"}
Dispatching == main = <<>> \/ (world.banner /\ \E at \in CheckPoints : In(at))

(* Fl::check empties the ring, unless it is itself inside a ring callback   *)
Checked ==
  (world.banner /\ \A k \in DOMAIN main : main[k].at \notin {"drain", "serving"}) => ring = <<>>

(* run_server and create_server up to the first messages: a socket, or not  *)
RunServer(opened) ==
  /\ main = <<>> /\ server = 0 /\ runs < world.runs
  /\ world.patient /\ runs > 0 => quiet
  /\ closing' = FALSE
  /\ server' = IF opened THEN runs + 1 ELSE 0
  /\ main' = <<Call(IF opened THEN "opened" ELSE "error"), Call("start")>>
  /\ UNCHANGED <<closed, peer, threadVars, q_packet, ringVars, runs, quiet, netVars, history>>

(* the rest of create_server: bind and listen                               *)
Created(ok) ==
  /\ In("opened") /\ Checked
  /\ IF ok THEN Return ELSE Goto("error")
  /\ UNCHANGED <<closing, closed, server, peer, threadVars, q_packet, ringVars, runs, quiet, netVars, history>>

(* the end of run_server: the thread is started whatever create_server says *)
StartThread ==
  /\ In("start")
  /\ tpc' = [tpc EXCEPT ![runs + 1] = "new"]
  /\ runs' = runs + 1
  /\ quiet' = FALSE
  /\ Return
  /\ UNCHANGED <<closing, closed, server, peer, buffer, q_packet, ringVars, netVars, history>>

(* handle_error has shown its message: close_server(false)                  *)
ErrorClose ==
  /\ In("error") /\ Checked
  /\ closing' = TRUE
  /\ IF server # 0 THEN Goto("shut") ELSE Return
  /\ UNCHANGED <<closed, server, peer, threadVars, q_packet, ringVars, runs, quiet, netVars, history>>

(* the end of close_server, when the socket is open                         *)
Shut ==
  /\ In("shut") /\ Checked
  /\ server' = 0 /\ ForgetServer
  /\ Return
  /\ UNCHANGED <<closing, closed, peer, threadVars, q_packet, ringVars, runs, quiet, sent, gone, history>>

(* close_server(true), called by the application                            *)
CloseBegin ==
  /\ main = <<>> /\ runs > 0 /\ ~quiet
  /\ world.patient => tpc[runs] # "new"
  /\ closing' = TRUE
  /\ main' = <<Call("wait"), Call("return")>>
  /\ UNCHANGED <<closed, server, peer, threadVars, q_packet, ringVars, runs, quiet, netVars, history>>

CloseWait ==
  /\ In("wait") /\ closed
  /\ IF server # 0 THEN Goto("shut") ELSE Return
  /\ UNCHANGED <<closing, closed, server, peer, threadVars, q_packet, ringVars, runs, quiet, netVars, history>>

CloseEnd ==
  /\ In("return")
  /\ quiet' = TRUE
  /\ Return
  /\ UNCHANGED <<closing, closed, server, peer, threadVars, q_packet, ringVars, runs, netVars, history>>

(* FLTK calls cb_th_packet for an entry of its ring                         *)
MainAwake ==
  /\ Dispatching /\ ring # <<>> /\ Head(ring) = "packet"
  /\ ring' = Tail(ring)
  /\ main' = <<Call("drain")>> \o main
  /\ UNCHANGED <<closing, closed, server, peer, threadVars, q_packet, others, lost, runs, quiet, netVars,
                 history>>

(* The ring is the whole program's: another part of it (a second server, the *)
(* application) makes an entry, and FLTK calls what it asks for             *)
OthersAwake ==
  /\ others > 0 /\ Len(ring) < RingSize
  /\ ring' = Append(ring, "other")
  /\ others' = others - 1
  /\ UNCHANGED <<closing, closed, server, peer, threadVars, q_packet, lost, mainVars, netVars, history>>

MainOther ==
  /\ Dispatching /\ ring # <<>> /\ Head(ring) = "other"
  /\ ring' = Tail(ring)
  /\ UNCHANGED <<closing, closed, server, peer, threadVars, q_packet, others, lost, mainVars, netVars, history>>

(* mutant: the newest packet is taken                                       *)
DrainNewest ==
  /\ In("drain")
  /\ IF q_packet = <<>>
     THEN Return /\ UNCHANGED <<q_packet, served>>
     ELSE /\ main' = <<[at |-> "serving", packet |-> Last(q_packet)]>> \o Tail(main)
          /\ q_packet' = Front(q_packet)
          /\ served' = Append(served, Last(q_packet))
  /\ UNCHANGED <<closing, closed, server, peer, threadVars, ringVars, runs, quiet, netVars, received, replies>>

(* mutant: the packet stays in the queue                                    *)
DrainKeeps ==
  /\ In("drain")
  /\ IF q_packet = <<>>
     THEN Return /\ UNCHANGED <<q_packet, served>>
     ELSE /\ main' = <<[at |-> "serving", packet |-> Head(q_packet)]>> \o Tail(main)
          /\ served' = Append(served, Head(q_packet))
          /\ UNCHANGED q_packet
  /\ UNCHANGED <<closing, closed, server, peer, threadVars, ringVars, runs, quiet, netVars, received, replies>>

(* the loop of cb_th_packet up to the unlock                                *)
Drain ==
  /\ In("drain")
  /\ IF q_packet = <<>>
     THEN Return /\ UNCHANGED <<q_packet, served>>
     ELSE /\ main' = <<[at |-> "serving", packet |-> Head(q_packet)]>> \o Tail(main)
          /\ q_packet' = Tail(q_packet)
          /\ served' = Append(served, Head(q_packet))
  /\ UNCHANGED <<closing, closed, server, peer, threadVars, ringVars, runs, quiet, netVars, received, replies>>

CanSend == IF world.protocol = "UDP" THEN server # 0 /\ peer # NoClient ELSE peer # NoClient

(* do_request: the application answers nothing, or calls send_response,     *)
(* which hands its failure to handle_error                                  *)
Serve(answer) ==
  /\ In("serving")
  /\ IF answer = "reply" /\ CanSend
     THEN Goto("drain") /\ replies' = Append(replies, [to |-> peer, request |-> Top.packet])
     ELSE /\ IF answer = "silent" THEN Goto("drain")
             ELSE main' = <<Call("error"), Call("drain")>> \o Tail(main)
          /\ UNCHANGED replies
  /\ UNCHANGED <<closing, closed, server, peer, threadVars, q_packet, ringVars, runs, quiet, netVars, received,
                 served>>

Answers == {"silent", "reply", "fail"}

-----------------------------------------------------------------------------
ThreadStep(i) ==
  /\ \/ ThreadStart(i) \/ Accept(i) \/ Receive(i) \/ ReceiveNothing(i)
     \/ QueuePacket(i) \/ Awake(i) \/ LoopTest(i) \/ ThreadExit(i)
  /\ UNCHANGED world

Elsewhere == OthersAwake /\ UNCHANGED world

Network == (\E c \in Clients : Connect(c) \/ Transmit(c) \/ Disconnect(c)) /\ UNCHANGED world

MainProgress ==
  /\ \/ \E ok \in BOOLEAN : Created(ok)
     \/ StartThread \/ ErrorClose \/ Shut
     \/ CloseWait \/ CloseEnd
     \/ MainAwake \/ MainOther \/ Drain
     \/ \E a \in Answers : Serve(a)
  /\ UNCHANGED world
MainChoice == (CloseBegin \/ \E opened \in BOOLEAN : RunServer(opened)) /\ UNCHANGED world

Next == MainProgress \/ MainChoice \/ Network \/ Elsewhere \/ \E i \in Runs : ThreadStep(i)

Spec == Init /\ [][Next]_vars

(* Both threads are scheduled; nobody has to run or close the server.       *)
Fairness == WF_vars(MainProgress) /\ \A i \in Runs : WF_vars(ThreadStep(i))
FairSpec == Spec /\ Fairness

-----------------------------------------------------------------------------
ThreadLabels == {"none", "new", "accept", "recv", "push", "awake", "test", "exit", "done"}
Calls == CheckPoints \union {"start", "wait", "return", "drain"}

RingOK ==
  /\ ring \in Seq({"packet", "other"}) /\ Len(ring) <= RingSize
  /\ others \in Nat /\ lost \in BOOLEAN

TypeOK ==
  /\ closing \in BOOLEAN /\ closed \in BOOLEAN /\ quiet \in BOOLEAN
  /\ server \in 0..MaxRuns /\ runs \in 0..MaxRuns
  /\ peer \in Clients \union {NoClient}
  /\ tpc \in [Runs -> ThreadLabels]
  /\ \A i \in Runs : buffer[i] = <<>> \/ buffer[i] \in Packets
  /\ q_packet \in Seq(Packets)
  /\ RingOK
  /\ main \in Seq([at : Calls, packet : Packets \union {<<>>}])
  /\ sent \in [Clients -> 0..MaxSegments]
  /\ stream \in [Clients -> Seq(Segments)]
  /\ backlog \in SUBSET Clients /\ gone \in SUBSET Clients

Receiving(i) == tpc[i] \in {"accept", "recv", "push", "awake", "test"}

(* The application is given the packets in the order they were received,    *)
(* without loss or repetition, although cb_th_packet gives the lock away    *)
(* around each call of do_request; and a reply goes to the client whose     *)
(* packet is being answered, although send_response reads client_, which    *)
(* the receiving thread writes. Over UDP it does not: the address is that   *)
(* of the latest packet received. Nor does it when the server is run again: *)
(* packets stay in the queue when it is closed, and client_ by then is      *)
(* another's. Nor are packets in order while two threads receive.           *)
ServedInTurn ==
  /\ world.patient \/ world.runs = 1 => IsPrefix(served, received)
  /\ world.protocol = "HTTP" /\ world.runs = 1 =>
       \A k \in DOMAIN replies : replies[k].to = replies[k].request.from

(* Two threads never receive at the same time, as long as the application   *)
(* is patient, and close_server(true) "waits for interface to quiesce"      *)
(* (zc_socket_server.h, line 65): when it has returned to such an           *)
(* application no thread is, or can start, receiving. (Before the thread is *)
(* up, closed_ still is TRUE and close_server does not wait for it.)        *)
ThreadQuiesced ==
  world.patient =>
    /\ \A i, j \in Runs : Receiving(i) /\ Receiving(j) => i = j
    /\ quiet => \A i \in Runs : tpc[i] \in {"none", "done"}

(* Its entry could not be made, and nothing else will take the packet: not  *)
(* an entry made before, not a cb_th_packet still in its loop               *)
Stranded ==
  /\ lost /\ q_packet # <<>> /\ "packet" \notin ToSet(ring)
  /\ \A k \in DOMAIN main : main[k].at \notin {"drain", "serving"}

(* Every packet received is given to the application, unless close_server   *)
(* is waiting for a receive that blocks, or the entry for the packet found  *)
(* the ring full of other parts' entries: Fl::awake's result is ignored, and *)
(* the packet stays until a later one's entry is made (which the property   *)
(* says of that later packet: served is in order). A ring that is full of   *)
(* this server's own entries loses nothing.                                 *)
EveryPacketServed ==
  \A k \in 1..(MaxSegments * Cardinality(Clients)) :
    Len(received) >= k ~> Len(served) >= k \/ (In("wait") /\ RecvBlocks) \/ Stranded

(* close_server(true) comes back where recv does not block.                 *)
CloseReturns == In("wait") /\ (InheritsNonblock \/ world.protocol = "UDP") ~> quiet

(* "\param external Waits for interface to quiesce." (zc_socket_server.h,  *)
(* line 65): it comes back for either protocol.                            *)
CloseAlwaysReturns == In("wait") ~> quiet
==============================================================================
