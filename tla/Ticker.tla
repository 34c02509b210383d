------------------------------- MODULE Ticker -------------------------------
(***************************************************************************)
(* zc_ticker (src/zc_ticker.cpp): a register of objects that want a call   *)
(* every so many ticks, driven by one FLTK timeout that cb_ticker arms     *)
(* again each time it has gone through the register.                       *)
(*                                                                         *)
(* Everything runs on the main thread; what makes it hard is that cb_ticker*)
(* calls other people's code in the middle of its loop over the vector.    *)
(***************************************************************************)
EXTENDS Naturals, Sequences, FiniteSets, SequencesExt

CONSTANTS Objects,      (* who subscribes                                    *)
          Intervals,    (* the intervals asked for, in ticks                 *)
          QuickCap,     (* the longest period with DEBUG_QUICK (3000)        *)
          TickCounts,   (* values of tick_count_ before it wraps (2^32)      *)
          MaxEntries,   (* bound: entries in the register                    *)
          InCallback,   (* what a callback may do besides nothing            *)
          Outside       (* what the application does from FLTK's loop        *)

Operations == {"add", "remove", "activate", "stop"}

ASSUME TickerAssumption ==
  /\ Intervals \subseteq Nat \ {0}
  /\ QuickCap \in Nat \ {0} /\ TickCounts \in Nat \ {0} /\ MaxEntries \in Nat \ {0}
  /\ InCallback \subseteq Operations /\ Outside \subseteq Operations

VARIABLES tickers,      (* tickers_                                          *)
          capacity,     (* entries its vector has room for                   *)
          tick_count,   (* tick_count_                                       *)
          armed,        (* FLTK has the timeout                              *)
          pos,          (* cb_ticker's iterator, 0 outside of it             *)
          moved,        (* the vector moved while cb_ticker iterates         *)
          stopped       (* history: stop_all has been called                 *)

tickerVars == <<tickers, capacity, tick_count, armed, pos, moved, stopped>>

Least(m, n) == IF m <= n THEN m ELSE n

(* idle: ticks since the entry was last called, added or activated          *)
Entry(o, interval, immediate) ==
  [object |-> o, period_ds |-> Least(interval, QuickCap), active |-> TRUE,
   not_ticked |-> immediate, idle |-> 0]

Entries == [object : Objects, period_ds : 1..QuickCap, active : BOOLEAN, not_ticked : BOOLEAN, idle : Nat]

TickerInit ==
  /\ tickers = <<>> /\ capacity = 0
  /\ tick_count = 0 /\ armed = TRUE
  /\ pos = 0 /\ moved = FALSE /\ stopped = FALSE

-----------------------------------------------------------------------------
(* What a call of the interface can make of the register                    *)
Positions(o) == {k \in DOMAIN tickers : tickers[k].object = o}
First(S) == CHOOSE k \in S : \A j \in S : k <= j

Added == IF Len(tickers) = MaxEntries THEN {}
         ELSE {Append(tickers, Entry(o, n, now)) : o \in Objects, n \in Intervals, now \in BOOLEAN}

Removed(o) == IF Positions(o) = {} THEN tickers ELSE RemoveAt(tickers, First(Positions(o)))

Activated(o, on) ==
  IF Positions(o) = {} THEN tickers
  ELSE LET k == First(Positions(o))
       IN  [tickers EXCEPT ![k].active = on, ![k].idle = IF tickers[k].active THEN @ ELSE 0]

Results(op) ==
  CASE op = "add"      -> Added
    [] op = "remove"   -> {Removed(o) : o \in Objects}
    [] op = "activate" -> {Activated(o, on) : o \in Objects, on \in BOOLEAN}
    [] op = "stop"     -> {<<>>}

(* push_back doubles a full vector, which moves its elements                *)
Grown(ts) == IF Len(ts) <= capacity THEN capacity ELSE IF capacity = 0 THEN 1 ELSE 2 * capacity

(* from a button, another timeout, ...: stop_all also takes the timeout away*)
Operate ==
  /\ pos = 0
  /\ \E op \in Outside :
       /\ tickers' \in Results(op)
       /\ armed' = (armed /\ op # "stop")
       /\ stopped' = (stopped \/ op = "stop")
  /\ capacity' = Grown(tickers')
  /\ UNCHANGED <<tick_count, pos, moved>>

-----------------------------------------------------------------------------
(* cb_ticker                                                               *)
Aged(ts) == [k \in DOMAIN ts |-> [ts[k] EXCEPT !.idle = IF ts[k].active THEN @ + 1 ELSE @]]

(* mutant: the count saturates instead of wrapping                          *)
TickBeginSaturating ==
  /\ armed /\ pos = 0
  /\ armed' = FALSE
  /\ tick_count' = Least(tick_count + 1, TickCounts - 1)
  /\ tickers' = Aged(tickers)
  /\ pos' = 1 /\ moved' = FALSE
  /\ UNCHANGED <<capacity, stopped>>

TickBegin ==
  /\ armed /\ pos = 0
  /\ armed' = FALSE
  /\ tick_count' = (tick_count + 1) % TickCounts
  /\ tickers' = Aged(tickers)
  /\ pos' = 1 /\ moved' = FALSE
  /\ UNCHANGED <<capacity, stopped>>

Looping == pos \in DOMAIN tickers /\ ~moved

Due(e) == tick_count % e.period_ds = 0 \/ e.not_ticked

Skip ==
  /\ Looping
  /\ ~(Due(tickers[pos]) /\ tickers[pos].active)
  /\ pos' = pos + 1
  /\ UNCHANGED <<tickers, capacity, tick_count, armed, moved, stopped>>

Ticked(ts, k) == [ts EXCEPT ![k].not_ticked = FALSE, ![k].idle = 0]

(* The object is called and does nothing to the register                    *)
Call ==
  /\ Looping
  /\ Due(tickers[pos]) /\ tickers[pos].active
  /\ tickers' = Ticked(tickers, pos)
  /\ pos' = pos + 1
  /\ UNCHANGED <<capacity, tick_count, armed, moved, stopped>>

(* The object is called and calls the ticker. When it returns, whatever is  *)
(* now at the iterator is marked as ticked.                                 *)
CallBack ==
  /\ Looping
  /\ Due(tickers[pos]) /\ tickers[pos].active
  /\ \E op \in InCallback : \E ts \in Results(op) :
       /\ tickers' = IF pos \in DOMAIN ts THEN Ticked(ts, pos) ELSE ts
       /\ capacity' = Grown(ts)
       /\ stopped' = (stopped \/ op = "stop")
  /\ moved' = (capacity' # capacity)
  /\ pos' = pos + 1
  /\ UNCHANGED <<tick_count, armed>>

(* the timeout is armed again, always                                       *)
TickEnd ==
  /\ pos = Len(tickers) + 1 /\ ~moved
  /\ armed' = TRUE
  /\ pos' = 0
  /\ UNCHANGED <<tickers, capacity, tick_count, moved, stopped>>

Tick == TickBegin \/ Skip \/ Call \/ CallBack \/ TickEnd
TickerNext == Operate \/ Tick

TickerSpec == TickerInit /\ [][TickerNext]_tickerVars

-----------------------------------------------------------------------------
TickerTypeOK ==
  /\ tickers \in Seq(Entries) /\ Len(tickers) <= MaxEntries
  /\ capacity \in Nat /\ Len(tickers) <= capacity
  /\ tick_count \in 0..(TickCounts - 1)
  /\ armed \in BOOLEAN /\ moved \in BOOLEAN /\ stopped \in BOOLEAN
  /\ pos \in 0..(MaxEntries + 2)

(* An object that is active is called at least once in every period, from   *)
(* the moment it subscribed or was reactivated, also across the wrap-around *)
(* of tick_count_; and until stop_all there is always a timeout to do so,   *)
(* whatever the callbacks do.                                               *)
CalledEveryPeriod ==
  pos = 0 =>
    /\ armed \/ stopped
    /\ \A k \in DOMAIN tickers : tickers[k].active => tickers[k].idle < tickers[k].period_ds

(* cb_ticker's iterator stays in the vector it iterates over: "it should be *)
(* safe" (remove_ticker), "avoid the possibility of the ticker callback     *)
(* being active while we are deleting the tickers" (stop_all).              *)
IteratorValid == pos # 0 => ~moved /\ pos <= Len(tickers) + 1
=============================================================================
