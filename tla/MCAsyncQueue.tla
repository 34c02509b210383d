---------------------------- MODULE MCAsyncQueue ----------------------------
(* Instances of AsyncQueue for TLC: crews that are small enough to check    *)
(* together, each with one sort of consumer that disturbs the waiters.      *)
EXTENDS AsyncQueue

CONSTANTS w1, w2, t1, k1

Crews == {{t1, k1}, {w2, k1}, {w2, t1}, {w1, w2, t1, k1}}
==============================================================================
