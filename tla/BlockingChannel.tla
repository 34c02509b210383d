--------------------------- MODULE BlockingChannel ---------------------------
(***************************************************************************)
(* What zc_async_queue promises its callers, with no mutex, condition      *)
(* variable or flag in sight: values come out in the order they went in,   *)
(* a consumer inside wait_and_pop is "parked" until it is handed a value   *)
(* or is sent away, and it is sent away only from a closed, empty channel. *)
(***************************************************************************)
EXTENDS Naturals, Sequences

CONSTANTS Values,   (* what may be sent                                      *)
          Clients   (* the threads that may park                             *)

VARIABLES chan,     (* the values sent and not yet received                  *)
          closed,   (* the channel accepts no new sender                     *)
          parked    (* the clients inside a blocking receive                 *)

cvars == <<chan, closed, parked>>

Init == chan = <<>> /\ closed = FALSE /\ parked = {}

Send(v) == chan' = Append(chan, v) /\ UNCHANGED <<closed, parked>>

(* A receive that does not block.                                          *)
Receive == chan # <<>> /\ chan' = Tail(chan) /\ UNCHANGED <<closed, parked>>

Discard == chan' = <<>> /\ UNCHANGED <<closed, parked>>

Close == closed' = TRUE /\ UNCHANGED <<chan, parked>>

Park(c) == c \notin parked /\ parked' = parked \union {c} /\ UNCHANGED <<chan, closed>>

(* A parked client is handed the oldest value.                             *)
Deliver(c) ==
  /\ c \in parked
  /\ chan # <<>>
  /\ chan' = Tail(chan)
  /\ parked' = parked \ {c}
  /\ UNCHANGED closed

(* A parked client leaves empty-handed: only when nothing can come.        *)
Dismiss(c) ==
  /\ c \in parked
  /\ closed
  /\ chan = <<>>
  /\ parked' = parked \ {c}
  /\ UNCHANGED <<chan, closed>>

Next ==
  \/ \E v \in Values : Send(v)
  \/ Receive \/ Discard \/ Close
  \/ \E c \in Clients : Park(c) \/ Deliver(c) \/ Dismiss(c)

(* A value and a parked client do not stay side by side for ever, and a    *)
(* client does not stay parked on a closed, empty channel.                 *)
Fairness ==
  /\ WF_cvars(\E c \in Clients : Deliver(c))
  /\ \A c \in Clients : WF_cvars(Dismiss(c))

SafeSpec == Init /\ [][Next]_cvars
Spec == SafeSpec /\ Fairness
==============================================================================
