--------------------------- MODULE MCSocketServer ---------------------------
(* Instances of SocketServer for TLC.                                       *)
EXTENDS SocketServer

World(protocol, banner, patient, r, n, k) ==
  [protocol |-> protocol, banner |-> banner, patient |-> patient, runs |-> r, segments |-> n,
   others |-> k]

(* A web server whose application is impatient; a UDP server that is busy;  *)
(* one that is closed and started again; one beside another part of the     *)
(* program that wakes the main loop                                         *)
MCWorlds == {World("HTTP", FALSE, FALSE, 1, 2, 0), World("UDP", TRUE, TRUE, 1, 2, 0),
             World("UDP", TRUE, TRUE, 2, 1, 0), World("UDP", FALSE, TRUE, 1, 2, 1)}
Silent == {World("HTTP", TRUE, TRUE, 1, 1, 0)}
==============================================================================
