------------------------------- MODULE Audio -------------------------------
(***************************************************************************)
(* zc_audio (src/zc_audio.cpp): a state machine around PortAudio. The      *)
(* application's thread picks, opens and closes a port; PortAudio's own    *)
(* thread calls pa_stream, which moves samples between the port and a      *)
(* zc_async_queue.                                                         *)
(*                                                                         *)
(* Every call of PortAudio may fail, and its list of ports is read again   *)
(* at every reset and at every change of the sample rate: port_index_ and  *)
(* stream_ are only as good as the calls that came before.                 *)
(***************************************************************************)
EXTENDS Integers, Sequences, FiniteSets

CONSTANTS Ports,        (* PortAudio's device indices                        *)
          Names,        (* host and port names                               *)
          FirstNames,   (* the devices' names when PortAudio starts          *)
          Worlds,       (* the circumstances to consider, see world          *)
          Channels,     (* channels_                                         *)
          FrameCount,   (* frames of one call of pa_stream                   *)
          MaxSamples    (* bound: samples produced                           *)

None == -1

ASSUME AudioAssumption ==
  /\ Ports \subseteq Nat /\ FirstNames \in [Ports -> Names]
  /\ Channels \in Nat \ {0} /\ FrameCount \in Nat \ {0} /\ MaxSamples \in Nat
  /\ Worlds \subseteq [direction : {"OUT", "IN"}, stopFails : BOOLEAN, rateChanges : BOOLEAN, renames : BOOLEAN]

(* Rigid: direction_; whether Pa_StopStream and Pa_CloseStream can fail;    *)
(* whether sample_rate(s) is called while connected; and whether            *)
(* PortAudio's device list can change under way.                            *)
VARIABLE world

VARIABLES audio,        (* the object: state_, port_index_, port_ids_, the   *)
                        (* device stream_ was opened on, and whether its     *)
                        (* Pa_Initialize has succeeded                       *)
          streams,      (* what PortAudio has open on each device            *)
          names,        (* the devices' names in PortAudio                   *)
          last,         (* the last call: its name, the state it began in    *)
                        (* and its result                                    *)
          gone,         (* the object has been destroyed                     *)
          idle,         (* idle_                                             *)
          queue,        (* app_audio_                                        *)
          left,         (* samples each device's pa_stream has still to do   *)
          produced,     (* samples produced so far: by the application, or,  *)
                        (* for AUDIO_IN, by the port                         *)
          played        (* history: each sample with the channel it came     *)
                        (* out on; silence is left out. A monitor queue, if  *)
                        (* there is one, is pushed the same samples          *)

portVars == <<audio, streams, last, gone>>
dataVars == <<queue, left, produced, played>>
vars == <<world, audio, streams, names, last, gone, idle, queue, left, produced, played>>

States == {"RESET", "DISCONNECTED", "CONNECTING", "CONNECTED", "DISCONNECTING"}

NoPorts == [p \in {} |-> None]

-----------------------------------------------------------------------------
(* What a call can come to: a set of outcomes, each the object, PortAudio's *)
(* streams and the result. A std::map::at() that finds nothing throws.      *)
Outcome(a, s, r) == [audio |-> a, streams |-> s, result |-> r]

Running == {p \in Ports : streams[p] = "running"}

(* enumerate_ports: the ports that support the format, by PortAudio's word; *)
(* none if it has not been initialised                                      *)
Enumerated(a) ==
  {[a EXCEPT !.ids = [p \in S |-> names[p]]] : S \in IF a.up THEN SUBSET Ports ELSE {{}}}

(* disconnect_port: a stream that is not running cannot be stopped          *)
Disconnect(a, s) ==
  LET d == [a EXCEPT !.state = "DISCONNECTING"] IN
  IF a.state = "DISCONNECTED" THEN {Outcome(a, s, "false")}
  ELSE IF a.port \notin DOMAIN a.ids THEN {Outcome(d, s, "throw")}
  ELSE IF d.stream = None \/ s[d.stream] # "running" THEN {Outcome(d, s, "false")}
  ELSE {Outcome([d EXCEPT !.state = "DISCONNECTED", !.port = None, !.stream = None],
                [s EXCEPT ![d.stream] = "none"], "true")}
       \cup IF world.stopFails
            THEN {Outcome(d, s, "false"), Outcome(d, [s EXCEPT ![d.stream] = "stopped"], "false")}
            ELSE {}

(* initialise_port: opens and starts a stream on port_index_; a stream that *)
(* does not start stays open                                                *)
Initialise(a, s) ==
  LET c == [a EXCEPT !.state = "CONNECTING"] IN
  IF a.state \notin {"DISCONNECTED", "CONNECTING"} THEN {Outcome(a, s, "false")}
  ELSE IF names[a.port] # a.ids[a.port] THEN {Outcome(c, s, "false")}
  ELSE {Outcome([c EXCEPT !.state = "DISCONNECTED"], s, "false"),
        Outcome([c EXCEPT !.state = "DISCONNECTED", !.stream = a.port],
                [s EXCEPT ![a.port] = "open"], "false"),
        Outcome([c EXCEPT !.state = "CONNECTED", !.stream = a.port],
                [s EXCEPT ![a.port] = "running"], "true")}

(* get_index: the first port of that name                                   *)
GetIndex(a, name) ==
  LET same == {p \in DOMAIN a.ids : a.ids[p] = name}
  IN  IF same = {} THEN None ELSE CHOOSE p \in same : \A q \in same : p <= q

Pick(a, s, name) ==
  LET n == [a EXCEPT !.port = GetIndex(a, name)]
  IN  IF n.port = None THEN {Outcome(n, s, "false")} ELSE Initialise(n, s)

(* mutant: the port in use is left alone                                    *)
UsePortNoDisconnect(a, s, name) ==
  IF a.state = "RESET" THEN {Outcome(a, s, "false")}
  ELSE Pick([a EXCEPT !.state = "CONNECTING"], s, name)

(* use_port: the outcome of disconnect_port is not looked at                *)
UsePort(a, s, name) ==
  IF a.state = "RESET" THEN {Outcome(a, s, "false")}
  ELSE IF a.state # "CONNECTED" THEN Pick(a, s, name)
  ELSE IF a.port \notin DOMAIN a.ids THEN {Outcome(a, s, "throw")}
  ELSE IF a.ids[a.port] = name THEN {Outcome(a, s, "true")}
  ELSE UNION {Pick(o.audio, o.streams, name) : o \in Disconnect(a, s)}

(* enable                                                                   *)
Enable(a, s) ==
  IF a.state # "DISCONNECTED" THEN {Outcome(a, s, "false")}
  ELSE IF a.port \notin DOMAIN a.ids THEN {Outcome(a, s, "false")}
  ELSE {IF o.result = "true" THEN o
        ELSE Outcome([o.audio EXCEPT !.state = "DISCONNECTED"], o.streams, "false") :
          o \in UsePort([a EXCEPT !.state = "CONNECTING"], s, a.ids[a.port])}

(* reset, once PortAudio is up: the ports are read again, and port_index_ is *)
(* looked up among them                                                     *)
Reread(a, s) ==
  {Outcome(e, s, IF e.port = None THEN "false"
                 ELSE IF e.port \in DOMAIN e.ids THEN "true" ELSE "throw") : e \in Enumerated(a)}

(* reset: waits for idle_, then drops the port it was using                 *)
Reset(a, s) ==
  CASE a.state = "DISCONNECTED" -> {Outcome(a, s, "false")}
    [] a.state = "CONNECTED" ->
         UNION {IF o.result = "throw" THEN {o} ELSE Reread(o.audio, o.streams) :
                  o \in Disconnect([a EXCEPT !.state = "DISCONNECTING"], s)}
    [] a.state = "RESET" ->
         {Outcome(a, s, "false")} \cup Reread([a EXCEPT !.state = "DISCONNECTED", !.up = TRUE], s)
    [] OTHER -> Reread(a, s)

(* ~zc_audio: an exception that leaves a destructor ends the program        *)
Destroy(a, s) == IF a.state = "CONNECTED" THEN Disconnect(a, s) ELSE {Outcome(a, s, "true")}

Fresh == [up |-> FALSE, state |-> "RESET", port |-> None, ids |-> NoPorts, stream |-> None]

(* The constructor ends with reset()                                        *)
Init ==
  /\ world \in Worlds
  /\ streams = [p \in Ports |-> "none"] /\ names = FirstNames
  /\ \E o \in Reset(Fresh, streams) :
       /\ audio = o.audio
       /\ last = [op |-> "reset", before |-> "RESET", result |-> o.result]
  /\ gone = FALSE /\ idle = TRUE
  /\ queue = <<>> /\ left = [p \in Ports |-> 0]
  /\ produced = 0 /\ played = <<>>

-----------------------------------------------------------------------------
(* The application's thread. Pa_StopStream waits for pa_stream to return.   *)
Quiet == \A p \in Ports : left[p] = 0

Returns(op, outcomes) ==
  /\ ~gone
  /\ \E o \in outcomes :
       /\ audio' = o.audio /\ streams' = o.streams
       /\ last' = [op |-> op, before |-> audio.state, result |-> o.result]
  /\ UNCHANGED <<names, idle, dataVars>>

CallEnable == Returns("enable", Enable(audio, streams)) /\ UNCHANGED gone

CallUsePort ==
  /\ Quiet
  /\ \E name \in Names : Returns("use_port", UsePort(audio, streams, name))
  /\ UNCHANGED gone

CallReset ==
  /\ Quiet
  /\ audio.state = "CONNECTED" => idle
  /\ Returns("reset", Reset(audio, streams))
  /\ UNCHANGED gone

CallDisconnect == Quiet /\ Returns("disconnect_port", Disconnect(audio, streams)) /\ UNCHANGED gone

CallDestroy == Quiet /\ Returns("destroy", Destroy(audio, streams)) /\ gone' = TRUE

(* sample_rate(s) enumerates the ports whatever is going on                 *)
CallSampleRate ==
  /\ ~gone
  /\ world.rateChanges \/ audio.state \in {"RESET", "DISCONNECTED"}
  /\ \E a \in IF audio.state = "RESET" THEN {audio} ELSE Enumerated(audio) :
       /\ audio' = a
       /\ last' = [op |-> "sample_rate", before |-> audio.state, result |-> "true"]
  /\ UNCHANGED <<streams, names, gone, idle, dataVars>>

(* External: a device takes another's place in PortAudio's list             *)
Rename ==
  /\ world.renames
  /\ names' \in [Ports -> Names] /\ names' # names
  /\ UNCHANGED <<portVars, idle, dataVars>>

(* The application's side of app_audio_: whole samples, one at a time, the  *)
(* channels in turn. A sample is its number.                                *)
ChannelOf(n) == ((n - 1) % Channels) + 1

AppPush ==
  /\ world.direction = "OUT" /\ produced < MaxSamples
  /\ produced' = produced + 1 /\ queue' = Append(queue, produced')
  /\ UNCHANGED <<portVars, names, idle, left, played>>

AppPop ==
  /\ world.direction = "IN" /\ queue # <<>>
  /\ played' = Append(played, [sample |-> Head(queue), channel |-> ChannelOf(Head(queue))])
  /\ queue' = Tail(queue)
  /\ UNCHANGED <<portVars, names, idle, left, produced>>

(* PortAudio's thread: pa_stream for the stream open on p                   *)
StreamBegin(p) ==
  /\ streams[p] = "running" /\ left[p] = 0
  /\ left' = [left EXCEPT ![p] = FrameCount * Channels]
  /\ UNCHANGED <<portVars, names, idle, queue, produced, played>>

(* The channel the next sample of p comes out on                            *)
Slot(p) == ChannelOf(FrameCount * Channels - left[p] + 1)

Play(p, sample) == played' = Append(played, [sample |-> sample, channel |-> Slot(p)])

(* mutant: a port that is short of samples repeats the last one             *)
FillRepeats(p) ==
  \/ queue # <<>> /\ Play(p, Head(queue)) /\ queue' = Tail(queue)
  \/ queue = <<>> /\ played # <<>> /\ Play(p, played[Len(played)].sample) /\ UNCHANGED queue
  \/ queue = <<>> /\ played = <<>> /\ UNCHANGED <<queue, played>>

(* mutant: only the first channel is written                                *)
FillFirstChannel(p) ==
  \/ queue # <<>> /\ queue' = Tail(queue)
     /\ IF Slot(p) = 1 THEN Play(p, Head(queue)) ELSE UNCHANGED played
  \/ queue = <<>> /\ UNCHANGED <<queue, played>>

(* A sample from the queue, or silence when it is empty                     *)
Fill(p) ==
  \/ queue # <<>> /\ Play(p, Head(queue)) /\ queue' = Tail(queue)
  \/ queue = <<>> /\ UNCHANGED <<queue, played>>

(* The test for idle_ stands inside the loop over samples_to_send, where it *)
(* is never 0                                                               *)
StreamOut(p) ==
  /\ world.direction = "OUT" /\ left[p] > 0
  /\ Fill(p)
  /\ left' = [left EXCEPT ![p] = @ - 1]
  /\ idle' = (idle \/ (left[p] + Channels - 1) \div Channels = 0)
  /\ UNCHANGED <<portVars, names, produced>>

StreamIn(p) ==
  /\ world.direction = "IN" /\ left[p] > 0 /\ produced < MaxSamples
  /\ produced' = produced + 1 /\ queue' = Append(queue, produced')
  /\ left' = [left EXCEPT ![p] = @ - 1]
  /\ UNCHANGED <<portVars, names, idle, played>>

Application ==
  \/ CallEnable \/ CallUsePort \/ CallReset \/ CallDisconnect \/ CallDestroy \/ CallSampleRate

PortAudio == \E p \in Ports : StreamBegin(p) \/ StreamOut(p) \/ StreamIn(p)

Next == (Application \/ Rename \/ AppPush \/ AppPop \/ PortAudio) /\ UNCHANGED world

Spec == Init /\ [][Next]_vars

(* PortAudio goes on calling pa_stream while the stream runs, and pa_stream *)
(* never blocks                                                             *)
FairSpec == Spec /\ WF_vars(PortAudio /\ UNCHANGED world)

-----------------------------------------------------------------------------
TypeOK ==
  /\ audio.state \in States /\ audio.port \in Ports \cup {None}
  /\ DOMAIN audio.ids \subseteq Ports /\ \A p \in DOMAIN audio.ids : audio.ids[p] \in Names
  /\ audio.stream \in Ports \cup {None} /\ audio.up \in BOOLEAN
  /\ streams \in [Ports -> {"none", "open", "running", "stopped"}]
  /\ left \in [Ports -> 0..(FrameCount * Channels)]
  /\ idle \in BOOLEAN /\ gone \in BOOLEAN

(* At most one port plays, and it can be stopped: stream_ names it. (use_port *)
(* moves from port to port, and a disconnect that failed must not be followed *)
(* by another connect.) enabled() says what is so: the state is CONNECTED     *)
(* exactly when the port in use plays, or a disconnect has failed and left    *)
(* the state DISCONNECTING. And disconnect_port never hands PortAudio a       *)
(* stream that has been closed: outside RESET and DISCONNECTED there is one   *)
(* to stop, as long as PortAudio's list stays as it was (initialise_port      *)
(* stays CONNECTING when a port has changed its name).                        *)
StreamsAreKnown ==
  /\ \A p \in Running : audio.stream = p
  /\ audio.state = "CONNECTED" => audio.port \in Running
  /\ Running # {} => audio.state \in {"CONNECTED", "DISCONNECTING"}
  /\ ~world.renames /\ audio.state \in {"CONNECTING", "CONNECTED", "DISCONNECTING"} /\ audio.port \in Ports =>
       audio.stream # None /\ streams[audio.stream] # "none"

(* Whatever the ports do, samples come out once each and in order           *)
SamplesInOrder ==
  /\ \A k \in 1..Len(played) : played[k].sample = k
  /\ queue = [k \in 1..(produced - Len(played)) |-> Len(played) + k]

(* While a port stays connected, what the application pushes is played      *)
PushedIsPlayed ==
  \A n \in 1..MaxSamples :
    (world.direction = "OUT" /\ produced >= n /\ Running # {}) ~> (Len(played) >= n \/ Running = {})
=============================================================================
