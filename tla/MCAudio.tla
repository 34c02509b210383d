------------------------------- MODULE MCAudio -------------------------------
(* TLC instance of Audio: two devices, which may change names.               *)
EXTENDS Audio, TLC

CONSTANTS speaker, headset

TwoNames == 0 :> speaker @@ 1 :> headset

World(direction, trouble, renames) ==
  [direction |-> direction, stopFails |-> trouble, rateChanges |-> trouble, renames |-> renames]

MCWorlds == {World("OUT", TRUE, FALSE), World("OUT", FALSE, FALSE), World("OUT", FALSE, TRUE),
             World("IN", FALSE, FALSE)}
=============================================================================
