------------------------------ MODULE AudioProofs ------------------------------
(***************************************************************************)
(* StreamsAreKnown and SamplesInOrder for any devices and names, any       *)
(* number of channels and frames, and any number of samples.               *)
(*                                                                         *)
(* A call of the application is a set of outcomes, and a call is made of   *)
(* others (enable calls use_port, which calls disconnect_port): Known says *)
(* of an object and of PortAudio's streams what every call may rely on,    *)
(* and each call is shown to keep it, whatever it comes to.                *)
(***************************************************************************)
EXTENDS Audio, SequenceTheorems, WellFoundedInduction, TLAPS

Objects == [up : BOOLEAN, state : States, port : Ports \cup {None},
            ids : UNION {[S -> Names] : S \in SUBSET Ports}, stream : Ports \cup {None}]

StreamStates == {"none", "open", "running", "stopped"}

(* What StreamsAreKnown says of the object, and what it needs besides: while *)
(* the devices keep their names, a disconnect that failed left a stream to   *)
(* stop                                                                      *)
Known(a, s) ==
  /\ a \in Objects /\ s \in [Ports -> StreamStates]
  /\ \A p \in Ports : s[p] = "running" => a.stream = p /\ a.state \in {"CONNECTED", "DISCONNECTING"}
  /\ a.state = "CONNECTED" => a.port \in Ports /\ s[a.port] = "running"
  /\ a.up => a.state # "RESET"
  /\ ~a.up => a.ids = NoPorts /\ a.port = None /\ a.state \in {"RESET", "DISCONNECTING"}
  /\ ~world.renames =>
       /\ \A p \in DOMAIN a.ids : a.ids[p] = names[p]
       /\ a.up /\ a.state = "DISCONNECTING" => a.stream # None /\ s[a.stream] # "none"

(* ... and nothing is left CONNECTING, except between enable and the         *)
(* use_port that it calls                                                    *)
Settled(a) == ~world.renames => a.state # "CONNECTING"

KnownNames == names \in [Ports -> Names]

-----------------------------------------------------------------------------
LEMMA NoneIsNoPort == None \notin Ports
BY AudioAssumption DEF None

LEMMA OutcomeFields ==
  ASSUME NEW a, NEW s, NEW r
  PROVE  Outcome(a, s, r).audio = a /\ Outcome(a, s, r).streams = s /\ Outcome(a, s, r).result = r
BY DEF Outcome

LEMMA IndexIsThere ==
  ASSUME NEW a \in Objects, NEW name
  PROVE  GetIndex(a, name) \in DOMAIN a.ids \cup {None} /\ DOMAIN a.ids \subseteq Ports
<1> DEFINE same == {p \in DOMAIN a.ids : a.ids[p] = name}
<1>1. DOMAIN a.ids \subseteq Ports
  BY DEF Objects
<1>2. CASE same = {}
  BY <1>1, <1>2 DEF GetIndex
<1>3. CASE same # {}
  <2>1. same \in SUBSET Nat
    BY <1>1, AudioAssumption
  <2>2. \E k \in same : \A j \in same : ~(<<j, k>> \in OpToRel(<, Nat))
    BY <1>3, <2>1, NatLessThanWellFounded, WFMin
  <2>3. PICK k \in same : \A j \in same : ~(<<j, k>> \in OpToRel(<, Nat))
    BY <2>2
  <2>4. \A j \in same : k <= j
    <3> TAKE j \in same
    <3>1. OpToRel(<, Nat) = {ss \in Nat \X Nat : ss[1] < ss[2]}
      BY DEF OpToRel
    <3>2. ~(j < k)
      BY <2>1, <2>3, <3>1
    <3> QED BY <2>1, <3>2
  <2>5. GetIndex(a, name) = CHOOSE p \in same : \A q \in same : p <= q
    BY <1>3 DEF GetIndex
  <2>6. GetIndex(a, name) \in same
    BY <2>4, <2>5
  <2> QED BY <1>1, <2>6
<1> QED BY <1>2, <1>3

LEMMA EnumeratedIsKnown ==
  ASSUME NEW a, NEW s, Known(a, s), KnownNames, a.state # "RESET", NEW e \in Enumerated(a)
  PROVE  Known(e, s) /\ e.state = a.state
<1>1. a \in Objects
  BY DEF Known
<1>2. PICK S \in SUBSET Ports : e = [a EXCEPT !.ids = [p \in S |-> names[p]]] /\ (~a.up => S = {})
  BY DEF Enumerated
<1>3. [p \in S |-> names[p]] \in [S -> Names]
  BY DEF KnownNames
<1>4. /\ e \in Objects /\ e.ids = [p \in S |-> names[p]]
      /\ e.up = a.up /\ e.state = a.state /\ e.port = a.port /\ e.stream = a.stream
  BY <1>1, <1>2, <1>3 DEF Objects
<1>5. ~a.up => e.ids = NoPorts
  BY <1>2, <1>4 DEF NoPorts
<1> QED BY <1>4, <1>5 DEF Known

LEMMA DisconnectKeepsKnown ==
  ASSUME NEW a, NEW s, Known(a, s), Settled(a), NEW o \in Disconnect(a, s)
  PROVE  Known(o.audio, o.streams) /\ o.audio.state \in {"DISCONNECTED", "DISCONNECTING"}
<1> DEFINE d == [a EXCEPT !.state = "DISCONNECTING"]
<1>1. a \in Objects /\ s \in [Ports -> StreamStates]
  BY DEF Known
<1>2. /\ d \in Objects /\ d.state = "DISCONNECTING" /\ d.up = a.up /\ d.ids = a.ids
      /\ d.port = a.port /\ d.stream = a.stream
  BY <1>1 DEF Objects, States
<1>3. CASE a.state = "DISCONNECTED"
  <2>1. o = Outcome(a, s, "false")
    BY <1>3 DEF Disconnect
  <2>2. o.audio = a /\ o.streams = s
    BY <2>1, OutcomeFields
  <2> QED BY <1>3, <2>2
<1>4. CASE o.audio = d /\ o.streams = s /\ a.state # "DISCONNECTED"
  BY <1>1, <1>2, <1>4, NoneIsNoPort DEF Known, Settled, Objects, States
<1>5. CASE /\ a.state # "DISCONNECTED" /\ d.stream # None /\ s[d.stream] = "running"
           /\ o.audio = d /\ o.streams = [s EXCEPT ![d.stream] = "stopped"]
  <2>1. d.stream \in Ports
    BY <1>2, <1>5 DEF Objects
  <2>2. o.streams \in [Ports -> StreamStates] /\ o.streams[d.stream] = "stopped"
        /\ \A p \in Ports : o.streams[p] = "running" => s[p] = "running" /\ p # d.stream
    BY <1>1, <1>5, <2>1 DEF StreamStates
  <2> QED BY <1>1, <1>2, <1>5, <2>1, <2>2 DEF Known
<1>6. CASE /\ a.state # "DISCONNECTED" /\ d.stream # None /\ s[d.stream] = "running"
           /\ o.audio = [d EXCEPT !.state = "DISCONNECTED", !.port = None, !.stream = None]
           /\ o.streams = [s EXCEPT ![d.stream] = "none"] /\ a.port \in DOMAIN a.ids
  <2>1. d.stream \in Ports
    BY <1>2, <1>6 DEF Objects
  <2>2. o.streams \in [Ports -> StreamStates]
        /\ \A p \in Ports : o.streams[p] = "running" => s[p] = "running" /\ p # d.stream
    BY <1>1, <1>6, <2>1 DEF StreamStates
  <2>3. \A p \in Ports : o.streams[p] # "running"
    BY <1>2, <2>2 DEF Known
  <2>4. /\ o.audio \in Objects /\ o.audio.state = "DISCONNECTED" /\ o.audio.up = a.up
        /\ o.audio.ids = a.ids
    BY <1>2, <1>6 DEF Objects, States
  <2>5. a.up
    BY <1>6 DEF Known, NoPorts
  <2> QED BY <2>2, <2>3, <2>4, <2>5 DEF Known
<1>7. CASE a.state = "DISCONNECTED" \/ a.port \notin DOMAIN a.ids \/ d.stream = None \/ s[d.stream] # "running"
  <2>1. \/ o = Outcome(a, s, "false") /\ a.state = "DISCONNECTED"
        \/ (o = Outcome(d, s, "throw") \/ o = Outcome(d, s, "false")) /\ a.state # "DISCONNECTED"
    BY <1>7 DEF Disconnect
  <2> QED BY <1>3, <1>4, <2>1, OutcomeFields
<1>8. CASE ~(a.state = "DISCONNECTED" \/ a.port \notin DOMAIN a.ids \/ d.stream = None
             \/ s[d.stream] # "running")
  <2>1. \/ o = Outcome([d EXCEPT !.state = "DISCONNECTED", !.port = None, !.stream = None],
                       [s EXCEPT ![d.stream] = "none"], "true")
        \/ o = Outcome(d, s, "false")
        \/ o = Outcome(d, [s EXCEPT ![d.stream] = "stopped"], "false")
    BY <1>8 DEF Disconnect
  <2> QED BY <1>4, <1>5, <1>6, <1>8, <2>1, OutcomeFields
<1> QED BY <1>7, <1>8

(* initialise_port on a port that there is                                  *)
LEMMA InitialiseKeepsKnown ==
  ASSUME NEW a, NEW s, Known(a, s), a.port \in DOMAIN a.ids, NEW o \in Initialise(a, s)
  PROVE  /\ Known(o.audio, o.streams) 
         /\ a.state \in {"DISCONNECTED", "CONNECTING"} => 
              /\ Settled(o.audio) /\ o.audio.state \in {"DISCONNECTED", "CONNECTING", "CONNECTED"}
              /\ o.result = "true" <=> o.audio.state = "CONNECTED"
         /\ a.state \notin {"DISCONNECTED", "CONNECTING"} => o = Outcome(a, s, "false")
<1> DEFINE c == [a EXCEPT !.state = "CONNECTING"]
           d == [a EXCEPT !.state = "DISCONNECTED"]
           e == [d EXCEPT !.stream = a.port]
           f == [a EXCEPT !.state = "CONNECTED", !.stream = a.port]
<1>1. CASE a.state \notin {"DISCONNECTED", "CONNECTING"}
  BY <1>1, OutcomeFields DEF Initialise
<1>2. CASE a.state \in {"DISCONNECTED", "CONNECTING"}
  <2>1. /\ a \in Objects /\ s \in [Ports -> StreamStates] /\ a.port \in Ports /\ a.up
    BY DEF Known, Objects, NoPorts
  <2>2. \A p \in Ports : s[p] # "running"
    BY <1>2 DEF Known
  <2>3. CASE o = Outcome(c, s, "false") /\ names[a.port] # a.ids[a.port]
    <3>1. /\ c \in Objects /\ c.state = "CONNECTING" /\ c.up = a.up /\ c.ids = a.ids
          /\ c.port = a.port /\ c.stream = a.stream
      BY <2>1 DEF Objects, States
    <3>2. Known(c, s) /\ Settled(c)
      BY <2>1, <2>2, <2>3, <3>1 DEF Known, Settled
    <3>3. o.audio = c /\ o.streams = s /\ o.result = "false"
      BY <2>3, OutcomeFields
    <3> HIDE DEF c
    <3> QED BY <1>2, <3>1, <3>2, <3>3
  <2>4. CASE o = Outcome(d, s, "false")
    <3>1. /\ d \in Objects /\ d.state = "DISCONNECTED" /\ d.up = a.up /\ d.ids = a.ids
          /\ d.port = a.port /\ d.stream = a.stream
      BY <2>1 DEF Objects, States
    <3>2. Known(d, s) /\ Settled(d)
      BY <2>1, <2>2, <2>4, <3>1 DEF Known, Settled
    <3>3. o.audio = d /\ o.streams = s /\ o.result = "false"
      BY <2>4, OutcomeFields
    <3> HIDE DEF d
    <3> QED BY <1>2, <3>1, <3>2, <3>3
  <2>5. CASE o = Outcome(e, [s EXCEPT ![a.port] = "open"], "false")
    <3>1. /\ e \in Objects /\ e.state = "DISCONNECTED" /\ e.up = a.up /\ e.ids = a.ids
          /\ e.port = a.port /\ e.stream = a.port
      BY <2>1 DEF Objects, States
    <3>2. Known(e, [s EXCEPT ![a.port] = "open"]) /\ Settled(e)
      BY <2>1, <2>2, <3>1 DEF Known, Settled, StreamStates
    <3>3. o.audio = e /\ o.streams = [s EXCEPT ![a.port] = "open"] /\ o.result = "false"
      BY <2>5, OutcomeFields
    <3> HIDE DEF e
    <3> QED BY <1>2, <3>1, <3>2, <3>3
  <2>6. CASE o = Outcome(f, [s EXCEPT ![a.port] = "running"], "true")
    <3>1. /\ f \in Objects /\ f.state = "CONNECTED" /\ f.up = a.up /\ f.ids = a.ids
          /\ f.port = a.port /\ f.stream = a.port
      BY <2>1 DEF Objects, States
    <3>2. Known(f, [s EXCEPT ![a.port] = "running"]) /\ Settled(f)
      BY <2>1, <2>2, <3>1 DEF Known, Settled, StreamStates
    <3>3. o.audio = f /\ o.streams = [s EXCEPT ![a.port] = "running"] /\ o.result = "true"
      BY <2>6, OutcomeFields
    <3> HIDE DEF f
    <3> QED BY <1>2, <3>1, <3>2, <3>3
  <2>7. [c EXCEPT !.state = "DISCONNECTED"] = d /\ [c EXCEPT !.state = "DISCONNECTED", !.stream = a.port] = e
        /\ [c EXCEPT !.state = "CONNECTED", !.stream = a.port] = f
    BY <2>1 DEF Objects
  <2> QED BY <1>2, <2>3, <2>4, <2>5, <2>6, <2>7 DEF Initialise
<1> QED BY <1>1, <1>2

(* A port is looked up and opened; nothing plays                            *)
LEMMA PickKeepsKnown ==
  ASSUME NEW a, NEW s, NEW name, Known(a, s), a.state \notin {"RESET", "CONNECTED"}, NEW o \in Pick(a, s, name)
  PROVE  /\ Known(o.audio, o.streams)
         /\ a.state # "CONNECTING" => Settled(o.audio)
         /\ a.state \in {"DISCONNECTED", "CONNECTING"} =>
              /\ o.audio.state \in {"DISCONNECTED", "CONNECTING", "CONNECTED"}
              /\ o.result = "true" <=> o.audio.state = "CONNECTED"
<1> DEFINE n == [a EXCEPT !.port = GetIndex(a, name)]
<1>1. a \in Objects /\ GetIndex(a, name) \in DOMAIN a.ids \cup {None} /\ DOMAIN a.ids \subseteq Ports
  BY IndexIsThere DEF Known
<1>2. /\ n \in Objects /\ n.port = GetIndex(a, name) /\ n.state = a.state /\ n.up = a.up
      /\ n.ids = a.ids /\ n.stream = a.stream
  BY <1>1 DEF Objects
<1>3. Known(n, s)
  <2>1. ~a.up => n.port = None
    BY <1>1, <1>2 DEF Known, NoPorts
  <2> QED BY <1>2, <2>1 DEF Known
<1>4. CASE n.port = None
  <2>1. o = Outcome(n, s, "false")
    BY <1>4 DEF Pick
  <2>2. o.audio = n /\ o.streams = s /\ o.result = "false"
    BY <2>1, OutcomeFields
  <2> HIDE DEF n
  <2> QED BY <1>2, <1>3, <2>2 DEF Settled
<1>5. CASE n.port # None
  <2>1. o \in Initialise(n, s) /\ n.port \in DOMAIN n.ids
    BY <1>1, <1>2, <1>5 DEF Pick
  <2>2. CASE a.state \in {"DISCONNECTED", "CONNECTING"}
    <3>1. n.state \in {"DISCONNECTED", "CONNECTING"}
      BY <1>2, <2>2
    <3> HIDE DEF n
    <3> QED BY <1>3, <2>1, <2>2, <3>1, InitialiseKeepsKnown
  <2>3. CASE a.state \notin {"DISCONNECTED", "CONNECTING"}
    <3>1. n.state \notin {"DISCONNECTED", "CONNECTING"}
      BY <1>2, <2>3
    <3> HIDE DEF n
    <3>2. o = Outcome(n, s, "false")
      BY <1>3, <2>1, <3>1, InitialiseKeepsKnown
    <3>3. o.audio = n /\ o.streams = s /\ o.result = "false"
      BY <3>2, OutcomeFields
    <3> QED BY <1>2, <1>3, <2>3, <3>3 DEF Settled
  <2> QED BY <2>2, <2>3
<1> QED BY <1>4, <1>5

(* use_port, called by the application, and by enable while it is CONNECTING *)
LEMMA UsePortKeepsKnown ==
  ASSUME NEW a, NEW s, NEW name, Known(a, s), NEW o \in UsePort(a, s, name)
  PROVE  /\ Known(o.audio, o.streams)
         /\ a.state # "CONNECTING" => Settled(o.audio)
         /\ a.state = "CONNECTING" =>
              /\ o.audio.state \in {"DISCONNECTED", "CONNECTING", "CONNECTED"}
              /\ o.result = "true" <=> o.audio.state = "CONNECTED"
<1>1. CASE a.state \notin {"RESET", "CONNECTED"}
  <2>1. o \in Pick(a, s, name)
    BY <1>1 DEF UsePort
  <2> QED BY <1>1, <2>1, PickKeepsKnown
<1>2. CASE \E r \in {"false", "throw", "true"} : o = Outcome(a, s, r) /\ a.state # "CONNECTING"
  BY <1>2, OutcomeFields DEF Settled
<1>3. CASE a.state = "CONNECTED" /\ \E x \in Disconnect(a, s) : o \in Pick(x.audio, x.streams, name)
  <2>1. PICK x \in Disconnect(a, s) : o \in Pick(x.audio, x.streams, name)
    BY <1>3
  <2>2. Known(x.audio, x.streams) /\ x.audio.state \in {"DISCONNECTED", "DISCONNECTING"}
    BY <1>3, DisconnectKeepsKnown DEF Settled
  <2> QED BY <1>3, <2>1, <2>2, PickKeepsKnown
<1> QED BY <1>1, <1>2, <1>3 DEF UsePort

LEMMA EnableKeepsKnown ==
  ASSUME NEW a, NEW s, Known(a, s), Settled(a), NEW o \in Enable(a, s)
  PROVE  Known(o.audio, o.streams) /\ Settled(o.audio)
<1> DEFINE c == [a EXCEPT !.state = "CONNECTING"]
<1>1. CASE o = Outcome(a, s, "false")
  BY <1>1, OutcomeFields
<1>2. CASE a.state = "DISCONNECTED" /\ a.port \in DOMAIN a.ids /\ o # Outcome(a, s, "false")
  <2>1. a \in Objects /\ a.up
    BY <1>2 DEF Known, NoPorts
  <2>2. /\ c \in Objects /\ c.state = "CONNECTING" /\ c.up = a.up /\ c.ids = a.ids
        /\ c.port = a.port /\ c.stream = a.stream
    BY <2>1 DEF Objects, States
  <2>3. Known(c, s)
    BY <1>2, <2>1, <2>2 DEF Known
  <2>4. PICK x \in UsePort(c, s, a.ids[a.port]) :
          o = IF x.result = "true" THEN x
              ELSE Outcome([x.audio EXCEPT !.state = "DISCONNECTED"], x.streams, "false")
    BY <1>2 DEF Enable
  <2>5. /\ Known(x.audio, x.streams) /\ x.audio.state \in {"DISCONNECTED", "CONNECTING", "CONNECTED"}
        /\ x.result = "true" <=> x.audio.state = "CONNECTED"
    <3> HIDE DEF c
    <3> QED BY <2>2, <2>3, UsePortKeepsKnown
  <2>6. CASE x.result = "true"
    BY <2>4, <2>5, <2>6 DEF Settled
  <2>7. CASE x.result # "true"
    <3> DEFINE y == x.audio
               d == [y EXCEPT !.state = "DISCONNECTED"]
    <3>1. o.audio = d /\ o.streams = x.streams
      BY <2>4, <2>7, OutcomeFields
    <3>2. y \in Objects /\ y.state \in {"DISCONNECTED", "CONNECTING"} /\ Known(y, x.streams)
      BY <2>5, <2>7 DEF Known
    <3> HIDE DEF y
    <3>3. /\ d \in Objects /\ d.state = "DISCONNECTED" /\ d.up = y.up /\ d.ids = y.ids
          /\ d.port = y.port /\ d.stream = y.stream
      BY <3>2 DEF Objects, States
    <3>4. Known(d, x.streams) /\ Settled(d)
      BY <3>2, <3>3 DEF Known, Settled
    <3> HIDE DEF d
    <3> QED BY <3>1, <3>4
  <2> QED BY <2>6, <2>7
<1> QED BY <1>1, <1>2 DEF Enable

LEMMA RereadKeepsKnown ==
  ASSUME NEW a, NEW s, Known(a, s), Settled(a), KnownNames, a.state # "RESET", NEW o \in Reread(a, s)
  PROVE  Known(o.audio, o.streams) /\ Settled(o.audio)
<1>1. PICK e \in Enumerated(a) : o.audio = e /\ o.streams = s
  BY OutcomeFields DEF Reread
<1>2. Known(e, s) /\ e.state = a.state
  BY EnumeratedIsKnown
<1> QED BY <1>1, <1>2 DEF Settled

LEMMA ResetKeepsKnown ==
  ASSUME NEW a, NEW s, Known(a, s), Settled(a), KnownNames, NEW o \in Reset(a, s)
  PROVE  Known(o.audio, o.streams) /\ Settled(o.audio)
<1>1. a \in Objects
  BY DEF Known
<1>2. CASE o = Outcome(a, s, "false")
  BY <1>2, OutcomeFields
<1>3. CASE a.state = "CONNECTED"
  <2> DEFINE d == [a EXCEPT !.state = "DISCONNECTING"]
  <2>1. /\ d \in Objects /\ d.state = "DISCONNECTING" /\ d.up = a.up /\ d.ids = a.ids
        /\ d.port = a.port /\ d.stream = a.stream
    BY <1>1 DEF Objects, States
  <2>2. Known(d, s) /\ Settled(d)
    BY <1>3, <2>1, NoneIsNoPort DEF Known, Settled
  <2>3. PICK x \in Disconnect(d, s) : o \in IF x.result = "throw" THEN {x} ELSE Reread(x.audio, x.streams)
    BY <1>3 DEF Reset
  <2> HIDE DEF d
  <2>4. Known(x.audio, x.streams) /\ x.audio.state \in {"DISCONNECTED", "DISCONNECTING"} /\ Settled(x.audio)
    BY <2>2, DisconnectKeepsKnown DEF Settled
  <2> QED BY <2>3, <2>4, RereadKeepsKnown
<1>4. CASE a.state = "RESET" /\ o \in Reread([a EXCEPT !.state = "DISCONNECTED", !.up = TRUE], s)
  <2> DEFINE d == [a EXCEPT !.state = "DISCONNECTED", !.up = TRUE]
  <2>1. /\ d \in Objects /\ d.state = "DISCONNECTED" /\ d.up /\ d.ids = a.ids
        /\ d.port = a.port /\ d.stream = a.stream
    BY <1>1 DEF Objects, States
  <2>2. Known(d, s) /\ Settled(d)
    BY <1>4, <2>1 DEF Known, Settled
  <2>3. o \in Reread(d, s)
    BY <1>4
  <2> HIDE DEF d
  <2> QED BY <2>1, <2>2, <2>3, RereadKeepsKnown
<1>5. CASE a.state \in {"CONNECTING", "DISCONNECTING"}
  <2>1. o \in Reread(a, s)
    BY <1>5 DEF Reset
  <2> QED BY <1>5, <2>1, RereadKeepsKnown
<1>6. a.state \in States
  BY <1>1 DEF Objects
<1> QED BY <1>2, <1>3, <1>4, <1>5, <1>6 DEF Reset, States

-----------------------------------------------------------------------------
PortInv ==
  /\ Known(audio, streams) /\ Settled(audio) /\ KnownNames
  /\ left \in [Ports -> 0..(FrameCount * Channels)] /\ idle \in BOOLEAN /\ gone \in BOOLEAN

(* The samples by their numbers, one by one                                 *)
Numbered ==
  /\ produced \in Nat /\ queue \in Seq(Nat) /\ played \in Seq([sample : Nat, channel : Int])
  /\ Len(played) + Len(queue) = produced
  /\ \A k \in 1..Len(played) : played[k].sample = k
  /\ \A k \in 1..Len(queue) : queue[k] = Len(played) + k

LEMMA SlotIsInt == ASSUME NEW n \in Int PROVE ChannelOf(n) \in Int
BY AudioAssumption DEF ChannelOf

LEMMA FrameIsNat == FrameCount * Channels \in Nat
BY AudioAssumption

LEMMA PortInvInit == Init => PortInv
<1> SUFFICES ASSUME Init PROVE PortInv
  OBVIOUS
<1>1. /\ Fresh \in Objects /\ Fresh.state = "RESET" /\ ~Fresh.up /\ Fresh.ids = NoPorts /\ Fresh.port = None
  <2>1. NoPorts \in [{} -> Names]
    BY DEF NoPorts
  <2> QED BY <2>1 DEF Fresh, Objects, States
<1>2. Known(Fresh, streams) /\ Settled(Fresh)
  BY <1>1 DEF Known, Settled, Init, StreamStates, NoPorts
<1>3. KnownNames
  BY AudioAssumption DEF KnownNames, Init
<1>4. PICK o \in Reset(Fresh, streams) : audio = o.audio
  BY DEF Init
<1>5. streams = [p \in Ports |-> "none"]
  BY DEF Init
<1>6. Known(o.audio, o.streams) /\ Settled(o.audio)
  BY <1>2, <1>3, <1>4, ResetKeepsKnown
<1>7. o.streams = streams
  BY <1>1, <1>4, OutcomeFields DEF Reset, Reread
<1>8. left \in [Ports -> 0..(FrameCount * Channels)] /\ idle \in BOOLEAN /\ gone \in BOOLEAN
  <2> DEFINE n == FrameCount * Channels
  <2>1. n \in Nat /\ left = [p \in Ports |-> 0]
    BY FrameIsNat DEF Init
  <2> HIDE DEF n
  <2>2. left \in [Ports -> 0..n]
    BY <2>1
  <2>3. idle \in BOOLEAN /\ gone \in BOOLEAN
    BY DEF Init
  <2> QED BY <2>2, <2>3 DEF n
<1> QED BY <1>3, <1>4, <1>6, <1>7, <1>8 DEF PortInv

LEMMA PortInvStep == PortInv /\ [Next]_vars => PortInv'
<1> SUFFICES ASSUME PortInv, [Next]_vars PROVE PortInv'
  OBVIOUS
<1>1. CASE UNCHANGED vars
  BY <1>1 DEF vars, PortInv, Known, Settled, KnownNames
<1>2. ASSUME NEW op, NEW outcomes, Returns(op, outcomes), UNCHANGED world, gone' \in BOOLEAN,
             \A o \in outcomes : Known(o.audio, o.streams) /\ Settled(o.audio)
      PROVE  PortInv'
  <2>1. PICK o \in outcomes : audio' = o.audio /\ streams' = o.streams
    BY <1>2 DEF Returns
  <2>2. UNCHANGED <<names, world, left, idle>>
    BY <1>2 DEF Returns, dataVars
  <2>3. Known(audio', streams') /\ Settled(audio')
    BY <1>2, <2>1
  <2> QED BY <1>2, <2>2, <2>3 DEF PortInv, Known, Settled, KnownNames
<1>3. CASE Next
  <2>1. UNCHANGED world
    BY <1>3 DEF Next
  <2>2. CASE CallEnable
    <3>1. \A o \in Enable(audio, streams) : Known(o.audio, o.streams) /\ Settled(o.audio)
      BY EnableKeepsKnown DEF PortInv
    <3> QED BY <1>2, <2>1, <2>2, <3>1 DEF CallEnable, PortInv
  <2>3. CASE CallUsePort
    <3>1. PICK name \in Names : Returns("use_port", UsePort(audio, streams, name)) /\ UNCHANGED gone
      BY <2>3 DEF CallUsePort
    <3>2. \A o \in UsePort(audio, streams, name) : Known(o.audio, o.streams) /\ Settled(o.audio)
      <4> TAKE o \in UsePort(audio, streams, name)
      <4>1. Known(o.audio, o.streams) /\ (audio.state # "CONNECTING" => Settled(o.audio))
        BY UsePortKeepsKnown DEF PortInv
      <4>2. CASE audio.state = "CONNECTING"
        BY <4>1, <4>2 DEF PortInv, Settled
      <4> QED BY <4>1, <4>2
    <3> QED BY <1>2, <2>1, <3>1, <3>2 DEF PortInv
  <2>4. CASE CallReset
    <3>1. \A o \in Reset(audio, streams) : Known(o.audio, o.streams) /\ Settled(o.audio)
      BY ResetKeepsKnown DEF PortInv
    <3> QED BY <1>2, <2>1, <2>4, <3>1 DEF CallReset, PortInv
  <2>5. CASE CallDisconnect
    <3>1. \A o \in Disconnect(audio, streams) : Known(o.audio, o.streams) /\ Settled(o.audio)
      BY DisconnectKeepsKnown DEF PortInv, Settled
    <3> QED BY <1>2, <2>1, <2>5, <3>1 DEF CallDisconnect, PortInv
  <2>6. CASE CallDestroy
    <3>1. \A o \in Destroy(audio, streams) : Known(o.audio, o.streams) /\ Settled(o.audio)
      BY DisconnectKeepsKnown, OutcomeFields DEF Destroy, PortInv, Settled
    <3> QED BY <1>2, <2>1, <2>6, <3>1 DEF CallDestroy
  <2>7. CASE CallSampleRate
    <3>1. PICK a \in IF audio.state = "RESET" THEN {audio} ELSE Enumerated(audio) : audio' = a
      BY <2>7 DEF CallSampleRate
    <3>2. UNCHANGED <<streams, names, gone, idle, left>>
      BY <2>7 DEF CallSampleRate, dataVars
    <3>3. Known(a, streams) /\ a.state = audio.state
      BY <3>1, EnumeratedIsKnown DEF PortInv
    <3> QED BY <2>1, <3>1, <3>2, <3>3 DEF PortInv, Known, Settled, KnownNames
  <2>8. CASE Rename
    BY <2>1, <2>8 DEF Rename, portVars, dataVars, PortInv, Known, Settled, KnownNames
  <2>9. CASE AppPush \/ AppPop
    BY <2>1, <2>9 DEF AppPush, AppPop, portVars, PortInv, Known, Settled, KnownNames
  <2>10. ASSUME NEW p \in Ports, StreamBegin(p) \/ StreamOut(p) \/ StreamIn(p) PROVE PortInv'
    <3>1. UNCHANGED portVars /\ UNCHANGED names
      BY <2>10 DEF StreamBegin, StreamOut, StreamIn
    <3>2. idle' \in BOOLEAN
      <4>1. CASE StreamOut(p)
        <5>1. idle' = (idle \/ (left[p] + Channels - 1) \div Channels = 0)
          BY <4>1 DEF StreamOut
        <5> QED BY <5>1, Zenon DEF PortInv
      <4> QED BY <2>10, <4>1 DEF StreamBegin, StreamIn, PortInv
    <3>3. \/ left' = [left EXCEPT ![p] = FrameCount * Channels]
          \/ left[p] > 0 /\ left' = [left EXCEPT ![p] = @ - 1]
      BY <2>10 DEF StreamBegin, StreamOut, StreamIn
    <3>4. left' \in [Ports -> 0..(FrameCount * Channels)]
      <4> DEFINE n == FrameCount * Channels
      <4>1. n \in Nat /\ left \in [Ports -> 0..n]
        BY FrameIsNat DEF PortInv
      <4>2. left' = [left EXCEPT ![p] = n] \/ (left[p] > 0 /\ left' = [left EXCEPT ![p] = @ - 1])
        BY <3>3
      <4> HIDE DEF n
      <4>3. left' \in [Ports -> 0..n]
        BY <4>1, <4>2
      <4> QED BY <4>3 DEF n
    <3> QED BY <2>1, <3>1, <3>2, <3>4 DEF portVars, PortInv, Known, Settled, KnownNames
  <2> QED BY <1>3, <2>2, <2>3, <2>4, <2>5, <2>6, <2>7, <2>8, <2>9, <2>10 DEF Next, Application, PortAudio
<1> QED BY <1>1, <1>3

(* What the object says of its streams is so, whatever PortAudio's calls     *)
(* come to and in whatever order the application makes its own               *)
THEOREM StreamsStayKnown == Spec => []StreamsAreKnown
<1>1. PortInv => StreamsAreKnown
  <2> SUFFICES ASSUME PortInv PROVE StreamsAreKnown
    OBVIOUS
  <2>1. audio.stream = None \/ audio.stream \in Ports
    BY DEF PortInv, Known, Objects
  <2> QED BY <2>1, NoneIsNoPort DEF PortInv, Known, Settled, StreamsAreKnown, Running, NoPorts, Objects
<1> QED BY <1>1, PortInvInit, PortInvStep, PTL DEF Spec

(* The object, PortAudio's streams and pa_stream's counts stay what they are *)
(* declared to be                                                            *)
THEOREM AudioTypeCorrect == Spec => []TypeOK
<1>1. PortInv => TypeOK
  BY DEF PortInv, Known, Objects, StreamStates, TypeOK
<1> QED BY <1>1, PortInvInit, PortInvStep, PTL DEF Spec

-----------------------------------------------------------------------------
LEMMA NumberedInit == Init => Numbered
BY DEF Init, Numbered

(* A sample more at the end of the queue                                    *)
LEMMA PushKeepsNumbered ==
  ASSUME Numbered, produced' = produced + 1, queue' = Append(queue, produced'), UNCHANGED played
  PROVE  Numbered'
<1>1. Len(queue) \in Nat /\ Len(played) \in Nat /\ produced' \in Nat
  BY LenProperties DEF Numbered
<1>2. /\ queue' \in Seq(Nat) /\ Len(queue') = Len(queue) + 1
      /\ \A k \in 1..Len(queue) : queue'[k] = queue[k]
      /\ queue'[Len(queue) + 1] = produced + 1
  BY <1>1, AppendProperties DEF Numbered
<1>3. \A k \in 1..Len(queue') : queue'[k] = Len(played) + k
  <2> TAKE k \in 1..Len(queue')
  <2>1. k \in 1..Len(queue) \/ k = Len(queue) + 1
    BY <1>1, <1>2
  <2>2. Len(played) + Len(queue) = produced
    BY DEF Numbered
  <2>3. CASE k \in 1..Len(queue)
    BY <1>2, <2>3 DEF Numbered
  <2>4. CASE k = Len(queue) + 1
    BY <1>1, <1>2, <2>2, <2>4
  <2> QED BY <2>1, <2>3, <2>4
<1> QED BY <1>1, <1>2, <1>3 DEF Numbered

(* The first sample of the queue comes out                                  *)
LEMMA PopKeepsNumbered ==
  ASSUME Numbered, queue # <<>>, queue' = Tail(queue), UNCHANGED produced, NEW c \in Int,
         played' = Append(played, [sample |-> Head(queue), channel |-> c])
  PROVE  Numbered'
<1> DEFINE r == [sample |-> Head(queue), channel |-> c]
<1>1. Len(queue) \in Nat \ {0} /\ Len(played) \in Nat /\ Head(queue) = queue[1] /\ queue[1] \in Nat
      /\ queue[1] = Len(played) + 1
  BY LenProperties DEF Numbered
<1>2. /\ queue' \in Seq(Nat) /\ Len(queue') = Len(queue) - 1
      /\ \A k \in 1..Len(queue') : queue'[k] = queue[k + 1]
  BY <1>1, HeadTailProperties DEF Numbered
<1>3. r \in [sample : Nat, channel : Int] /\ r.sample = Len(played) + 1
  BY <1>1
<1>4. played' = Append(played, r) /\ played \in Seq([sample : Nat, channel : Int])
  BY DEF Numbered
<1> HIDE DEF r
<1>5. /\ played' \in Seq([sample : Nat, channel : Int]) /\ Len(played') = Len(played) + 1
      /\ \A k \in 1..Len(played) : played'[k] = played[k]
      /\ played'[Len(played) + 1] = r
  BY <1>3, <1>4, AppendProperties
<1>6. \A k \in 1..Len(played') : played'[k].sample = k
  <2> TAKE k \in 1..Len(played')
  <2>1. k \in 1..Len(played) \/ k = Len(played) + 1
    BY <1>1, <1>5
  <2> QED BY <1>3, <1>5, <2>1 DEF Numbered
<1>7. \A k \in 1..Len(queue') : queue'[k] = Len(played') + k
  <2> TAKE k \in 1..Len(queue')
  <2>1. k + 1 \in 1..Len(queue) /\ k \in Nat
    BY <1>1, <1>2
  <2>2. queue[k + 1] = Len(played) + (k + 1)
    BY <2>1 DEF Numbered
  <2> QED BY <1>1, <1>2, <1>5, <2>1, <2>2
<1>8. Len(played') + Len(queue') = produced'
  <2>1. Len(played) + Len(queue) = produced /\ produced' = produced
    BY DEF Numbered
  <2> QED BY <1>1, <1>2, <1>5, <2>1
<1> QED BY <1>2, <1>5, <1>6, <1>7, <1>8 DEF Numbered

LEMMA NumberedStep == PortInv /\ Numbered /\ [Next]_vars => Numbered'
<1> SUFFICES ASSUME PortInv, Numbered, [Next]_vars PROVE Numbered'
  OBVIOUS
<1>1. CASE UNCHANGED <<queue, produced, played>>
  BY <1>1 DEF Numbered
<1>2. CASE AppPush
  BY <1>2, PushKeepsNumbered DEF AppPush
<1>3. CASE AppPop
  <2>1. Head(queue) \in Int
    BY <1>3 DEF AppPop, Numbered
  <2>2. ChannelOf(Head(queue)) \in Int
    BY <2>1, SlotIsInt
  <2> QED BY <1>3, <2>2, PopKeepsNumbered DEF AppPop
<1>4. ASSUME NEW p \in Ports, StreamOut(p) PROVE Numbered'
  <2>1. left[p] \in Int /\ FrameCount * Channels \in Int
    BY FrameIsNat DEF PortInv
  <2>2. Slot(p) \in Int
    BY <2>1, SlotIsInt DEF Slot
  <2>3. UNCHANGED produced
    BY <1>4 DEF StreamOut
  <2>4. CASE queue # <<>> /\ Play(p, Head(queue)) /\ queue' = Tail(queue)
    BY <2>2, <2>3, <2>4, PopKeepsNumbered DEF Play
  <2> QED BY <1>1, <1>4, <2>3, <2>4 DEF StreamOut, Fill
<1>5. ASSUME NEW p \in Ports, StreamIn(p) PROVE Numbered'
  BY <1>5, PushKeepsNumbered DEF StreamIn
<1>6. CASE Application \/ Rename \/ \E p \in Ports : StreamBegin(p)
  <2>1. UNCHANGED <<queue, produced, played>>
    BY <1>6 DEF Application, CallEnable, CallUsePort, CallReset, CallDisconnect, CallDestroy, CallSampleRate,
       Returns, Rename, StreamBegin, dataVars
  <2> QED BY <1>1, <2>1
<1>7. CASE UNCHANGED vars
  BY <1>1, <1>7 DEF vars
<1> QED BY <1>2, <1>3, <1>4, <1>5, <1>6, <1>7 DEF Next, PortAudio

(* No sample is lost, repeated or overtaken between the application and the  *)
(* ports, whichever ports play and however the threads interleave            *)
THEOREM SamplesStayInOrder == Spec => []SamplesInOrder
<1>1. Numbered => SamplesInOrder
  <2> SUFFICES ASSUME Numbered PROVE SamplesInOrder
    OBVIOUS
  <2>1. Len(queue) \in Nat /\ Len(played) \in Nat /\ Len(queue) = produced - Len(played)
    BY LenProperties DEF Numbered
  <2>2. queue = [k \in 1..Len(queue) |-> queue[k]]
    BY SeqDef DEF Numbered
  <2>3. \A k \in 1..Len(queue) : queue[k] = Len(played) + k
    BY DEF Numbered
  <2>4. queue = [k \in 1..Len(queue) |-> Len(played) + k]
    BY <2>2, <2>3, Zenon
  <2>5. queue = [k \in 1..(produced - Len(played)) |-> Len(played) + k]
    BY <2>1, <2>4
  <2> QED BY <2>5 DEF Numbered, SamplesInOrder
<1> QED BY <1>1, PortInvInit, PortInvStep, NumberedInit, NumberedStep, PTL DEF Spec
================================================================================
