----------------------------- MODULE MCRpcServer -----------------------------
(* Instance of RpcServer for TLC: a method that returns and one that faults. *)
EXTENDS RpcServer
CONSTANTS c1, c2

MCOutcome == [c \in Clients |-> IF c = c1 THEN "result" ELSE "fault"]

World(size, waits, banner, n, cut, k) ==
  [protocol |-> "HTTP", banner |-> banner, patient |-> TRUE, runs |-> 1, segments |-> n,
   size |-> size, waits |-> waits, cut |-> cut, others |-> k]

(* Requests in one piece from clients that wait, with another part of the    *)
(* program using FLTK's ring or not; requests cut in two, anywhere, from    *)
(* clients that do not wait                                                 *)
MCWorlds == {World(1, TRUE, TRUE, 2, "params", 0), World(1, TRUE, FALSE, 2, "params", 1),
             World(2, FALSE, FALSE, 3, "params", 0)}
            \union {World(2, FALSE, FALSE, 2, cut, 0) : cut \in {"line", "header", "name"}}
=============================================================================
