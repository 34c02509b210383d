------------------------------ MODULE RpcServer ------------------------------
(***************************************************************************)
(* The server half of zc_rpc_handler (src/zc_rpc_handler.cpp) on top of    *)
(* the socket server: handle_request is the do_request of SocketServer. It *)
(* decides, from the bytes of ONE packet, what becomes of the request: one *)
(* reply, a refusal, or silence.                                           *)
(*                                                                         *)
(* A request is one or two segments long: its first segment begins with the *)
(* HTTP header, and its last has the end of the XML body. Segments reach    *)
(* the server one by one or glued together, as recv returns them.           *)
(* handle_request does not look whether the request is complete, nor        *)
(* whether its XML is well-formed: pugixml keeps what it has read before an *)
(* error, so a request that is cut after its method's name is performed as  *)
(* if it were whole, and the rest of it, a packet of its own, is refused.   *)
(***************************************************************************)
EXTENDS SocketServer

CONSTANTS Outcome   (* of the method each client calls: "result" (0),        *)
                    (* "fault" (negative), "error" (positive), or "unknown"  *)

(* A world also says how many segments a request has; whether clients send  *)
(* one only when the one before has been answered; and where the first      *)
(* segment of two ends: inside the line of POST, inside the rest of the     *)
(* header, before the end of the method's name, or among its parameters.    *)
ASSUME RpcAssumption ==
  /\ Outcome \in [Clients -> {"result", "fault", "error", "unknown"}]
  /\ \A w \in Worlds : w.protocol = "HTTP" /\ w.size \in {1, 2} /\ w.waits \in BOOLEAN
                       /\ w.cut \in {"line", "header", "name", "params"}

-----------------------------------------------------------------------------
StartsRequest(segment) == segment[2] % world.size = 1 % world.size

(* a packet that starts a request and has all of it                         *)
Whole(p) == Len(p.data) >= world.size

(* strip_header: POST and the resource's name come first                    *)
HasHeader(p) == StartsRequest(p.data[1]) /\ (Whole(p) \/ world.cut # "line")

(* ... but the loops that look for Content-Length and for the empty line do *)
(* not test for the end of the packet: the main thread does not come back   *)
(* (it loops; cut between two lines, substr may throw and end the program)  *)
Spinning ==
  /\ In("serving") /\ HasHeader(Top.packet)
  /\ ~Whole(Top.packet) /\ world.cut = "header"

(* What becomes of the method. Neither doc.load's result nor that of        *)
(* decode_request is looked at: without its name, no method is found; with  *)
(* a part of its parameters the method may come to anything.                *)
Outcomes(p) ==
  IF Whole(p) \/ Outcome[p.from] = "unknown" THEN {Outcome[p.from]}
  ELSE IF world.cut = "params" THEN {"result", "fault", "error"} ELSE {"unknown"}

(* mutant: any error of the method suppresses the response                  *)
ReplyKindNoFaults(p, outcome) ==
  IF ~HasHeader(p) THEN "refused" ELSE IF outcome = "result" THEN "result" ELSE "none"

(* what is sent back, or "none"                                             *)
ReplyKind(p, outcome) ==
  IF ~HasHeader(p) THEN "refused"
  ELSE IF outcome \in {"result", "fault"} THEN outcome ELSE "none"

(* handle_request                                                           *)
HandleRequest ==
  /\ In("serving")
  /\ \E answer \in Answers, outcome \in Outcomes(Top.packet) :
       /\ (answer = "silent") = (ReplyKind(Top.packet, outcome) = "none")
       /\ Serve(answer)

Replied(c) == Cardinality({k \in DOMAIN replies : replies[k].to = c})

(* Clients may wait for the answer to the last request                      *)
SendRequest(c) ==
  /\ world.waits => Replied(c) >= sent[c] \div world.size
  /\ Transmit(c)

-----------------------------------------------------------------------------
RpcProgress ==
  /\ ~Spinning
  /\ \/ \E ok \in BOOLEAN : Created(ok)
     \/ StartThread \/ ErrorClose \/ Shut \/ CloseWait \/ CloseEnd
     \/ MainAwake \/ MainOther \/ Drain \/ HandleRequest
  /\ UNCHANGED world

RpcClient == (\E c \in Clients : Connect(c) \/ SendRequest(c) \/ Disconnect(c)) /\ UNCHANGED world

RpcNext ==
  \/ RpcProgress \/ MainChoice \/ RpcClient \/ Elsewhere
  \/ \E i \in Runs : ThreadStep(i)

RpcSpec == Init /\ [][RpcNext]_vars
RpcFairSpec == RpcSpec /\ WF_vars(RpcProgress) /\ \A i \in Runs : WF_vars(ThreadStep(i))

-----------------------------------------------------------------------------
(* The how-manyth reply to its client the k-th one is                       *)
Nth(k) == Cardinality({j \in 1..k : replies[j].to = replies[k].to})

(* The replies to a client that are the outcome of a method, not a refusal  *)
Performed(c) == {k \in DOMAIN replies : replies[k].to = c /\ HasHeader(replies[k].request)}

(* The requests a client has begun to send, and those it has sent           *)
Begun(c) == (sent[c] + world.size - 1) \div world.size
Complete(c) == sent[c] \div world.size

(* No request is performed and answered twice, however TCP cuts it up, nor  *)
(* before its end has arrived, unless it is cut among its parameters: such  *)
(* a request is answered as soon as it has begun, and its rest is refused;  *)
(* all in all no client gets more replies than it has sent segments. Where  *)
(* requests come in one piece and clients wait, the n-th reply a client     *)
(* receives answers the n-th request it sent. (When the server is run       *)
(* again, what is left in the queue is answered to another, see             *)
(* ServedInTurn.)                                                           *)
RepliesMatchRequests ==
  world.runs = 1 =>
    /\ \A c \in Clients :
         /\ Cardinality(Performed(c)) <= IF world.cut = "params" THEN Begun(c) ELSE Complete(c)
         /\ Replied(c) <= sent[c]
    /\ world.size = 1 /\ world.waits =>
         \A k \in DOMAIN replies : <<replies[k].to, Nth(k)>> \in ToSet(replies[k].request.data)

(* "Decode the request on the input stream, perform the action and send     *)
(* response" (zc_rpc_handler.h): there, a request of the accepted client    *)
(* whose method comes to a result or a fault is answered, unless the client *)
(* leaves, the server is closed first, or the packet is stranded (see       *)
(* EveryPacketServed).                                                      *)
EveryRequestAnswered ==
  \A c \in Clients : \A n \in 1..MaxSegments :
    world.size = 1 /\ world.waits /\ c = peer /\ sent[c] >= n /\ Outcome[c] \in {"result", "fault"}
      ~> Replied(c) >= n \/ closing \/ c \in gone \/ Stranded
=============================================================================
