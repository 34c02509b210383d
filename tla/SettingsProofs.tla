---------------------------- MODULE SettingsProofs ----------------------------
(***************************************************************************)
(* The types of Settings, and UserDataIsKept, ShippedAlwaysOpens and       *)
(* LastChangeIsWritten for any files, any number of crashes and any        *)
(* settings objects.                                                       *)
(*                                                                         *)
(* The inductive invariant, SettingsInv, has four parts: what a call that  *)
(* is under way has done to its file (BusyInv: a kill may leave it there), *)
(* which versions a file can hold (VersionInv, TornInv), which requests to *)
(* reset still stand (SeenInv, with reading before writing), and the types *)
(* of the settings. LastChangeIsWritten takes two more: an object of a     *)
(* group lives no longer than the tree it points into (HandleInv), and     *)
(* what the tree, the file and the counters have to do with each other     *)
(* (DataInv). Every step of the settings is also one of the files          *)
(* (SettingsStepIsFileStep), so that the files' part is proved once.       *)
(***************************************************************************)
EXTENDS Settings, TLAPS

(* Every shipped file is there: a copy of one that is not can fail in ways  *)
(* that leave the request to reset it standing                              *)
Installed == \A f \in Files : Control[f].reference => f \in Shipped0

Copying(f) == busy = [step |-> "copy", file |-> f]
Writing(f) == busy = [step |-> "write", file |-> f]

(* What a call that is under way has done to its file                       *)
BusyInv ==
  \A f \in Files :
    /\ Copying(f) => Control[f].reference /\ ~Control[f].read_only /\ working[f] = Absent
    /\ Writing(f) => working[f] = Torn /\ version < MaxVersion /\ (world.readsFirst => f \in seen)

VersionInv == \A f \in Files : working[f] <= version

TornInv == ~world.faulty => \A f \in Files : working[f] = Torn => crashes > 0 \/ Writing(f)

(* A file is not to be reset any more once it has been read, and not        *)
(* written before                                                           *)
SeenInv ==
  ~world.faulty /\ world.readsFirst =>
    \A f \in Files :
      IF f \in seen THEN Control[f].reference /\ ~Control[f].read_only => ~ToBeReset(f)
      ELSE working[f] <= base

FileInv == FileTypeOK /\ BusyInv /\ VersionInv /\ TornInv /\ ShippedAlwaysOpens

(* One step of the files, for whichever of them                             *)
FileAny == (\E f \in Files : FileStep(f)) \/ Restart

Kept ==
  \A f \in Files :
    ~world.faulty /\ working'[f] # working[f] /\ busy' # [step |-> "write", file |-> f] =>
      /\ Owned(f) # {} => ToBeReset(f)
      /\ world.readsFirst => working[f] <= base

-----------------------------------------------------------------------------
LEMMA ContentsAreInts == Contents \subseteq Int /\ {Absent, Torn, Shipped} \subseteq Contents
BY FileAssumption DEF Contents, Absent, Torn, Shipped

LEMMA SourceIsContent == ASSUME NEW f PROVE Source(f) \in Contents
BY ContentsAreInts DEF Source

LEMMA ReturnIsTyped ==
  ASSUME FileTypeOK, NEW f \in Files, NEW op \in {"none", "in", "reset", "out"},
         NEW ok \in BOOLEAN, NEW c \in Contents, Return(f, op, ok, c)
  PROVE  /\ last' \in [Files -> [op : {"none", "in", "reset", "out"}, ok : BOOLEAN, read : Contents]]
         /\ \A g \in Files : g # f => last'[g] = last[g]
         /\ last'[f] = [op |-> op, ok |-> ok, read |-> IF ok THEN c ELSE Absent]
BY ContentsAreInts DEF FileTypeOK, Return

LEMMA NothingReturned ==
  ASSUME FileTypeOK, NEW f \in Files, NEW op \in {"none", "in", "reset", "out"},
         NEW ok \in BOOLEAN, Return(f, op, ok, Absent)
  PROVE  /\ last' \in [Files -> [op : {"none", "in", "reset", "out"}, ok : BOOLEAN, read : Contents]]
         /\ \A g \in Files : g # f => last'[g] = last[g]
         /\ last'[f].op = op
<1>1. Absent \in Contents
  BY ContentsAreInts
<1>2. last'[f] = [op |-> op, ok |-> ok, read |-> IF ok THEN Absent ELSE Absent]
  BY <1>1, ReturnIsTyped
<1> QED BY <1>1, <1>2, ReturnIsTyped

(* Files open unless the world is faulty or they are not there              *)
LEMMA OpensOrNot ==
  ASSUME NEW c, NEW ok \in OpenResults(c)
  PROVE  ok \in BOOLEAN /\ (~world.faulty => ok = (c # Absent))
BY DEF OpenResults

LEMMA ReadShippedKeeps ==
  ASSUME FileInv, NEW f \in Files, ReadShipped(f), UNCHANGED world
  PROVE  FileInv'
<1>1. PICK ok \in OpenResults(Source(f)) : Return(f, "in", ok, Source(f))
  BY DEF ReadShipped
<1>2. FileTypeOK /\ busy = Calm /\ Control[f].read_only
      /\ UNCHANGED <<working, reset, busy, version, base, crashes>>
      /\ seen' = seen \cup {f}
  BY DEF ReadShipped, FileInv
<1>3. ok \in BOOLEAN /\ (~world.faulty => ok = (Source(f) # Absent))
  BY <1>1, OpensOrNot
<1>4. /\ last' \in [Files -> [op : {"none", "in", "reset", "out"}, ok : BOOLEAN, read : Contents]]
      /\ \A g \in Files : g # f => last'[g] = last[g]
      /\ last'[f] = [op |-> "in", ok |-> ok, read |-> IF ok THEN Source(f) ELSE Absent]
  BY <1>1, <1>2, <1>3, SourceIsContent, ReturnIsTyped
<1>5. FileTypeOK'
  BY <1>2, <1>4 DEF FileTypeOK
<1>6. (BusyInv /\ VersionInv /\ TornInv)'
  BY <1>2 DEF FileInv, BusyInv, VersionInv, TornInv, Copying, Writing
<1>7. ShippedAlwaysOpens'
  <2>1. f \in Shipped0 => Source(f) = Shipped /\ Source(f) # Absent /\ Source(f) # Torn
    BY DEF Source, Shipped, Absent, Torn
  <2> QED BY <1>2, <1>3, <1>4, <2>1, FileAssumption DEF FileInv, ShippedAlwaysOpens
<1> QED BY <1>5, <1>6, <1>7 DEF FileInv

LEMMA ReadOwnKeeps ==
  ASSUME FileInv, NEW f \in Files, ReadOwn(f), UNCHANGED world
  PROVE  FileInv'
<1>1. FileTypeOK /\ busy = Calm /\ ~Control[f].reference /\ UNCHANGED <<working, busy, version, base, crashes>>
      /\ seen' = seen \cup {f}
  BY DEF ReadOwn, FileInv
<1>2. /\ last' \in [Files -> [op : {"none", "in", "reset", "out"}, ok : BOOLEAN, read : Contents]]
      /\ \A g \in Files : g # f => last'[g] = last[g]
      /\ reset' \subseteq Bits
  <2>1. CASE ToBeReset(f)
    <3>1. Return(f, "reset", FALSE, Absent) /\ reset' = reset \ Control[f].reset_mask
      BY <2>1 DEF ReadOwn
    <3> QED BY <1>1, <3>1, NothingReturned DEF FileTypeOK
  <2>2. CASE ~ToBeReset(f)
    <3>1. PICK ok \in OpenResults(working[f]) : Return(f, "in", ok, working[f])
      BY <2>2 DEF ReadOwn
    <3>2. ok \in BOOLEAN /\ working[f] \in Contents /\ UNCHANGED reset
      BY <1>1, <2>2, <3>1, OpensOrNot DEF ReadOwn, FileTypeOK
    <3>3. reset' \subseteq Bits
      BY <1>1, <3>2 DEF FileTypeOK
    <3> QED BY <1>1, <3>1, <3>2, <3>3, ReturnIsTyped, ZenonT(30)
  <2> QED BY <2>1, <2>2
<1>3. FileTypeOK'
  BY <1>1, <1>2 DEF FileTypeOK
<1>4. (BusyInv /\ VersionInv /\ TornInv)'
  BY <1>1 DEF FileInv, BusyInv, VersionInv, TornInv, Copying, Writing
<1>5. ShippedAlwaysOpens'
  BY <1>1, <1>2, FileAssumption DEF FileInv, ShippedAlwaysOpens
<1> QED BY <1>3, <1>4, <1>5 DEF FileInv

LEMMA ReadWorkingKeeps ==
  ASSUME FileInv, NEW f \in Files, ReadWorking(f), UNCHANGED world
  PROVE  FileInv'
<1>1. FileTypeOK /\ busy = Calm /\ UNCHANGED <<working, reset, busy, version, base, crashes>>
      /\ seen' = seen \cup {f} /\ Return(f, "in", TRUE, working[f])
  BY DEF ReadWorking, FileInv
<1>2. /\ last' \in [Files -> [op : {"none", "in", "reset", "out"}, ok : BOOLEAN, read : Contents]]
      /\ \A g \in Files : g # f => last'[g] = last[g]
      /\ last'[f] = [op |-> "in", ok |-> TRUE, read |-> working[f]]
  <2>1. working[f] \in Contents
    BY <1>1 DEF FileTypeOK
  <2> QED BY <1>1, <2>1, ReturnIsTyped
<1>3. FileTypeOK'
  BY <1>1, <1>2 DEF FileTypeOK
<1>4. (BusyInv /\ VersionInv /\ TornInv)'
  BY <1>1 DEF FileInv, BusyInv, VersionInv, TornInv, Copying, Writing
<1>5. ShippedAlwaysOpens'
  <2>1. ~world.faulty /\ working[f] = Torn => crashes > 0
    BY <1>1 DEF FileInv, TornInv, Writing, Calm
  <2> QED BY <1>1, <1>2, <2>1, FileAssumption DEF FileInv, ShippedAlwaysOpens
<1> QED BY <1>3, <1>4, <1>5 DEF FileInv

(* What is written to one file leaves the others, and the versions, alone   *)
LEMMA StoredIsTyped ==
  ASSUME FileTypeOK, VersionInv, NEW f \in Files, NEW c \in Contents, version' \in Nat,
         version <= version', c <= version', working' = [working EXCEPT ![f] = c]
  PROVE  /\ working' \in [Files -> Contents] /\ working'[f] = c
         /\ \A g \in Files : g # f => working'[g] = working[g]
         /\ VersionInv'
<1>1. /\ working' \in [Files -> Contents] /\ working'[f] = c
      /\ \A g \in Files : g # f => working'[g] = working[g]
  BY DEF FileTypeOK
<1>2. ASSUME NEW g \in Files, g # f PROVE working'[g] <= version'
  <2>1. working[g] <= version
    BY DEF VersionInv
  <2>2. working[g] \in Int /\ version \in Int
    <3>1. working[g] \in Contents /\ version \in Int
      BY FileAssumption DEF FileTypeOK
    <3> QED BY <3>1, ContentsAreInts
  <2>3. working[g] <= version'
    BY <2>1, <2>2
  <2> QED BY <1>1, <1>2, <2>3
<1> QED BY <1>1, <1>2 DEF VersionInv

LEMMA LowContents ==
  ASSUME FileTypeOK
  PROVE  /\ version \in Nat /\ Absent <= version /\ Torn <= version /\ Shipped <= version
         /\ base \in Nat /\ Absent <= base /\ Torn <= base /\ Shipped <= base
BY FileAssumption DEF FileTypeOK, Absent, Torn, Shipped

LEMMA LowIsTyped ==
  ASSUME FileTypeOK, VersionInv, NEW f \in Files, NEW c \in {Absent, Torn, Shipped},
         version' = version, working' = [working EXCEPT ![f] = c]
  PROVE  /\ working' \in [Files -> Contents] /\ working'[f] = c
         /\ \A g \in Files : g # f => working'[g] = working[g]
         /\ VersionInv'
<1>1. c \in Contents /\ version' \in Nat /\ version <= version' /\ c <= version'
  BY ContentsAreInts, LowContents
<1> QED BY <1>1, StoredIsTyped

LEMMA CopyRemoveKeeps ==
  ASSUME FileInv, NEW f \in Files, CopyRemove(f), UNCHANGED world
  PROVE  FileInv'
<1>1. /\ FileTypeOK /\ VersionInv /\ busy = Calm /\ Control[f].reference /\ ~Control[f].read_only
      /\ working' = [working EXCEPT ![f] = Absent] /\ busy' = [step |-> "copy", file |-> f]
      /\ UNCHANGED <<reset, last, version, base, seen, crashes>>
  BY DEF CopyRemove, FileInv
<1>2. /\ working' \in [Files -> Contents] /\ working'[f] = Absent
      /\ \A g \in Files : g # f => working'[g] = working[g]
      /\ VersionInv'
  BY <1>1, LowIsTyped
<1>3. FileTypeOK'
  BY <1>1, <1>2 DEF FileTypeOK
<1>4. BusyInv'
  BY <1>1, <1>2 DEF BusyInv, Copying, Writing
<1>5. TornInv'
  BY <1>1, <1>2 DEF FileInv, TornInv, Writing, Calm, Absent, Torn
<1>6. ShippedAlwaysOpens'
  BY <1>1 DEF FileInv, ShippedAlwaysOpens
<1> QED BY <1>2, <1>3, <1>4, <1>5, <1>6 DEF FileInv

LEMMA CopyFailsKeeps ==
  ASSUME FileInv, NEW f \in Files, CopyFails(f), UNCHANGED world
  PROVE  FileInv'
<1>1. /\ FileTypeOK /\ VersionInv /\ busy = [step |-> "copy", file |-> f]
      /\ world.faulty \/ Source(f) = Absent
      /\ Return(f, "in", FALSE, Absent) /\ busy' = Calm /\ seen' = seen \cup {f}
      /\ UNCHANGED <<reset, version, base, crashes>>
  BY DEF CopyFails, FileInv
<1>2. PICK c \in {Absent, Torn} : working' = [working EXCEPT ![f] = c] /\ (Source(f) = Absent => c = Absent)
  BY DEF CopyFails
<1>3. /\ working' \in [Files -> Contents] /\ working'[f] = c
      /\ \A g \in Files : g # f => working'[g] = working[g]
      /\ VersionInv'
  BY <1>1, <1>2, LowIsTyped
<1>4. /\ last' \in [Files -> [op : {"none", "in", "reset", "out"}, ok : BOOLEAN, read : Contents]]
      /\ \A g \in Files : g # f => last'[g] = last[g]
  BY <1>1, NothingReturned
<1>5. FileTypeOK'
  BY <1>1, <1>3, <1>4 DEF FileTypeOK
<1>6. BusyInv'
  BY <1>1 DEF BusyInv, Copying, Writing, Calm
<1>7. TornInv'
  BY <1>1, <1>2, <1>3 DEF FileInv, TornInv, Writing, Calm, Absent, Torn
<1>8. ShippedAlwaysOpens'
  <2>1. f \in Shipped0 => world.faulty
    BY <1>1 DEF Source, Shipped, Absent
  <2> QED BY <1>1, <1>4, <2>1, FileAssumption DEF FileInv, ShippedAlwaysOpens
<1> QED BY <1>3, <1>5, <1>6, <1>7, <1>8 DEF FileInv

LEMMA CopyShippedKeeps ==
  ASSUME FileInv, NEW f \in Files, CopyShipped(f), UNCHANGED world
  PROVE  FileInv'
<1>1. /\ FileTypeOK /\ VersionInv /\ busy = [step |-> "copy", file |-> f]
      /\ working' = [working EXCEPT ![f] = Shipped] /\ reset' = reset \ Control[f].reset_mask
      /\ busy' = Calm /\ seen' = seen \cup {f} /\ UNCHANGED <<version, base, crashes>>
  BY DEF CopyShipped, FileInv
<1>2. PICK ok \in OpenResults(Shipped) : Return(f, "in", ok, Shipped)
  BY DEF CopyShipped
<1>3. ok \in BOOLEAN /\ (~world.faulty => ok = TRUE)
  BY <1>2, OpensOrNot DEF Shipped, Absent
<1>4. /\ working' \in [Files -> Contents] /\ working'[f] = Shipped
      /\ \A g \in Files : g # f => working'[g] = working[g]
      /\ VersionInv'
  BY <1>1, LowIsTyped
<1>5. /\ last' \in [Files -> [op : {"none", "in", "reset", "out"}, ok : BOOLEAN, read : Contents]]
      /\ \A g \in Files : g # f => last'[g] = last[g]
      /\ last'[f] = [op |-> "in", ok |-> ok, read |-> IF ok THEN Shipped ELSE Absent]
  <2>1. Shipped \in Contents
    BY ContentsAreInts
  <2> QED BY <1>1, <1>2, <1>3, <2>1, ReturnIsTyped
<1>6. FileTypeOK'
  BY <1>1, <1>4, <1>5 DEF FileTypeOK
<1>7. BusyInv'
  BY <1>1 DEF BusyInv, Copying, Writing, Calm
<1>8. TornInv'
  BY <1>1, <1>4 DEF FileInv, TornInv, Writing, Calm, Shipped, Torn
<1>9. ShippedAlwaysOpens'
  BY <1>1, <1>3, <1>5, FileAssumption DEF FileInv, ShippedAlwaysOpens, Shipped, Torn
<1> QED BY <1>4, <1>6, <1>7, <1>8, <1>9 DEF FileInv

LEMMA OpenToWriteKeeps ==
  ASSUME FileInv, NEW f \in Files, OpenToWrite(f), UNCHANGED world
  PROVE  FileInv'
<1>1. /\ FileTypeOK /\ VersionInv /\ busy = Calm /\ (world.readsFirst => f \in seen) /\ version < MaxVersion
      /\ working' = [working EXCEPT ![f] = Torn] /\ busy' = [step |-> "write", file |-> f]
      /\ Return(f, "out", TRUE, Absent) /\ UNCHANGED <<reset, version, base, seen, crashes>>
  BY DEF OpenToWrite, FileInv
<1>2. /\ working' \in [Files -> Contents] /\ working'[f] = Torn
      /\ \A g \in Files : g # f => working'[g] = working[g]
      /\ VersionInv'
  BY <1>1, LowIsTyped
<1>3. /\ last' \in [Files -> [op : {"none", "in", "reset", "out"}, ok : BOOLEAN, read : Contents]]
      /\ \A g \in Files : g # f => last'[g] = last[g]
      /\ last'[f].op = "out"
  BY <1>1, NothingReturned
<1>4. FileTypeOK'
  BY <1>1, <1>2, <1>3 DEF FileTypeOK
<1>5. BusyInv'
  BY <1>1, <1>2 DEF BusyInv, Copying, Writing
<1>6. TornInv'
  BY <1>1, <1>2 DEF FileInv, TornInv, Writing, Calm
<1>7. ShippedAlwaysOpens'
  BY <1>1, <1>3, FileAssumption DEF FileInv, ShippedAlwaysOpens
<1> QED BY <1>2, <1>4, <1>5, <1>6, <1>7 DEF FileInv

LEMMA WriteRefusedKeeps ==
  ASSUME FileInv, NEW f \in Files, WriteRefused(f), UNCHANGED world
  PROVE  FileInv'
<1>1. /\ FileTypeOK /\ Return(f, "out", FALSE, Absent)
      /\ UNCHANGED <<working, reset, busy, version, base, seen, crashes>>
  BY DEF WriteRefused, FileInv
<1>2. /\ last' \in [Files -> [op : {"none", "in", "reset", "out"}, ok : BOOLEAN, read : Contents]]
      /\ \A g \in Files : g # f => last'[g] = last[g]
      /\ last'[f].op = "out"
  BY <1>1, NothingReturned
<1>3. FileTypeOK'
  BY <1>1, <1>2 DEF FileTypeOK
<1>4. (BusyInv /\ VersionInv /\ TornInv)'
  BY <1>1 DEF FileInv, BusyInv, VersionInv, TornInv, Copying, Writing
<1>5. ShippedAlwaysOpens'
  BY <1>1, <1>2, FileAssumption DEF FileInv, ShippedAlwaysOpens
<1> QED BY <1>3, <1>4, <1>5 DEF FileInv

LEMMA WrittenKeeps ==
  ASSUME FileInv, NEW f \in Files, Written(f), UNCHANGED world
  PROVE  FileInv'
<1>1. /\ FileTypeOK /\ VersionInv /\ busy = [step |-> "write", file |-> f]
      /\ version' = version + 1 /\ working' = [working EXCEPT ![f] = version'] /\ busy' = Calm
      /\ UNCHANGED <<reset, last, base, seen, crashes>>
      /\ version < MaxVersion
  BY DEF Written, FileInv, BusyInv, Writing
<1>2. /\ version' \in Nat /\ version <= version' /\ version' <= version' /\ version' \in Contents
      /\ version' \in 0..MaxVersion /\ base \in 0..version'
  BY <1>1, FileAssumption DEF FileTypeOK, Contents
<1>3. /\ working' \in [Files -> Contents] /\ working'[f] = version'
      /\ \A g \in Files : g # f => working'[g] = working[g]
      /\ VersionInv'
  BY <1>1, <1>2, StoredIsTyped
<1>4. FileTypeOK'
  BY <1>1, <1>2, <1>3 DEF FileTypeOK
<1>5. BusyInv'
  BY <1>1 DEF BusyInv, Copying, Writing, Calm
<1>6. TornInv'
  BY <1>1, <1>2, <1>3 DEF FileInv, TornInv, Writing, Calm, Torn
<1>7. ShippedAlwaysOpens'
  BY <1>1 DEF FileInv, ShippedAlwaysOpens
<1> QED BY <1>3, <1>4, <1>5, <1>6, <1>7 DEF FileInv

LEMMA RestartKeeps == ASSUME FileInv, Restart, UNCHANGED world PROVE FileInv'
<1>1. /\ FileTypeOK /\ VersionInv /\ crashes < MaxCrashes /\ crashes' = crashes + 1
      /\ busy' = Calm /\ base' = version /\ seen' = {} /\ reset' \in SUBSET Bits
      /\ last' = [f \in Files |-> Nobody] /\ version' = version
  BY DEF Restart, FileInv
<1>2. working' \in [Files -> Contents] /\ VersionInv'
  <2>1. CASE busy.step = "copy"
    <3>1. PICK c \in {Absent, Torn, Shipped} : working' = [working EXCEPT ![busy.file] = c]
      BY <2>1 DEF Restart
    <3>2. busy.file \in Files
      BY <1>1, <2>1 DEF FileTypeOK, Calm
    <3> QED BY <1>1, <3>1, <3>2, LowIsTyped
  <2>2. CASE busy.step # "copy"
    BY <1>1, <2>2 DEF Restart, FileTypeOK, VersionInv
  <2> QED BY <2>1, <2>2
<1>3. crashes' \in 0..MaxCrashes /\ crashes' > 0 /\ version \in 0..MaxVersion /\ base' \in 0..version'
  BY <1>1, FileAssumption DEF FileTypeOK
<1>4. last' \in [Files -> [op : {"none", "in", "reset", "out"}, ok : BOOLEAN, read : Contents]]
  BY <1>1, ContentsAreInts DEF Nobody
<1>5. FileTypeOK'
  BY <1>1, <1>2, <1>3, <1>4 DEF FileTypeOK
<1>6. (BusyInv /\ TornInv)'
  BY <1>1, <1>3 DEF BusyInv, TornInv, Copying, Writing, Calm
<1>7. ShippedAlwaysOpens'
  BY <1>1, FileAssumption DEF ShippedAlwaysOpens, Nobody
<1> QED BY <1>2, <1>5, <1>6, <1>7 DEF FileInv

LEMMA FileInvStep == ASSUME FileInv, FileAny, UNCHANGED world PROVE FileInv'
<1>1. ASSUME NEW f \in Files, FileStep(f) PROVE FileInv'
  BY <1>1, ReadShippedKeeps, ReadOwnKeeps, ReadWorkingKeeps, CopyRemoveKeeps, CopyFailsKeeps,
     CopyShippedKeeps, OpenToWriteKeeps, WriteRefusedKeeps, WrittenKeeps DEF FileStep
<1> QED BY <1>1, RestartKeeps DEF FileAny

LEMMA FileInvInit == FileInit => FileInv
<1> SUFFICES ASSUME FileInit PROVE FileInv
  OBVIOUS
<1>1. /\ working \in [Files -> {Absent, Shipped}] /\ reset \in SUBSET Bits /\ busy = Calm
      /\ last = [f \in Files |-> Nobody] /\ version = 0 /\ base = 0 /\ seen = {} /\ crashes = 0
  BY DEF FileInit
<1>2. working \in [Files -> Contents]
  BY <1>1, ContentsAreInts
<1>3. last \in [Files -> [op : {"none", "in", "reset", "out"}, ok : BOOLEAN, read : Contents]]
  BY <1>1, ContentsAreInts DEF Nobody
<1>4. FileTypeOK
  BY <1>1, <1>2, <1>3, FileAssumption DEF FileTypeOK
<1>5. BusyInv /\ VersionInv /\ TornInv
  BY <1>1 DEF BusyInv, VersionInv, TornInv, Copying, Writing, Calm, Absent, Torn, Shipped
<1>6. ShippedAlwaysOpens
  BY <1>1, FileAssumption DEF ShippedAlwaysOpens, Nobody
<1> QED BY <1>4, <1>5, <1>6 DEF FileInv

-----------------------------------------------------------------------------
(* What a step may do to a file that is not written                         *)
LEMMA ToBeResetShrinks ==
  ASSUME NEW f, reset' \subseteq reset, ToBeReset(f)'
  PROVE  ToBeReset(f)
BY DEF ToBeReset

LEMMA SeenInvStep ==
  ASSUME Installed, FileInv, SeenInv, FileAny, UNCHANGED world
  PROVE  SeenInv'
<1> SUFFICES ASSUME ~world.faulty, world.readsFirst, NEW g \in Files
             PROVE  IF g \in seen' THEN Control[g].reference /\ ~Control[g].read_only => ~ToBeReset(g)'
                    ELSE working'[g] <= base'
  BY DEF SeenInv
<1>0. /\ FileTypeOK /\ VersionInv /\ BusyInv
      /\ IF g \in seen THEN Control[g].reference /\ ~Control[g].read_only => ~ToBeReset(g)
         ELSE working[g] <= base
  BY DEF FileInv, SeenInv
<1>1. ASSUME NEW f \in Files, FileStep(f)
      PROVE  IF g \in seen' THEN Control[g].reference /\ ~Control[g].read_only => ~ToBeReset(g)'
             ELSE working'[g] <= base'
  <2>1. CASE ReadShipped(f)
    BY <1>0, <2>1 DEF ReadShipped, ToBeReset
  <2>2. CASE ReadOwn(f)
    <3>1. reset' \subseteq reset /\ ~Control[f].reference
      BY <2>2 DEF ReadOwn
    <3> QED BY <1>0, <2>2, <3>1, ToBeResetShrinks DEF ReadOwn
  <2>3. CASE ReadWorking(f)
    BY <1>0, <2>3 DEF ReadWorking, ToBeReset
  <2>4. CASE CopyRemove(f)
    <3>1. working' = [working EXCEPT ![f] = Absent] /\ UNCHANGED <<reset, base, seen>>
      BY <2>4 DEF CopyRemove
    <3>2. working'[g] = working[g] \/ working'[g] = Absent
      BY <1>0, <3>1 DEF FileTypeOK
    <3> QED BY <1>0, <3>1, <3>2, LowContents DEF ToBeReset
  <2>5. CASE CopyFails(f)
    <3>1. Source(f) = Absent /\ Control[f].reference
      BY <1>0, <2>5 DEF CopyFails, BusyInv, Copying
    <3> QED BY <3>1 DEF Installed, Source, Absent, Shipped
  <2>6. CASE CopyShipped(f)
    <3>1. /\ working' = [working EXCEPT ![f] = Shipped] /\ reset' = reset \ Control[f].reset_mask
          /\ seen' = seen \cup {f} /\ UNCHANGED base
      BY <2>6 DEF CopyShipped
    <3>2. CASE g = f
      BY <3>1, <3>2 DEF ToBeReset
    <3>3. CASE g # f
      <4>1. working'[g] = working[g]
        BY <1>0, <3>1, <3>3 DEF FileTypeOK
      <4> QED BY <1>0, <3>1, <3>3, <4>1, ToBeResetShrinks
    <3> QED BY <3>2, <3>3
  <2>7. CASE OpenToWrite(f)
    <3>1. f \in seen /\ working' = [working EXCEPT ![f] = Torn] /\ UNCHANGED <<reset, base, seen>>
      BY <2>7 DEF OpenToWrite
    <3>2. g # f => working'[g] = working[g]
      BY <1>0, <3>1 DEF FileTypeOK
    <3> QED BY <1>0, <3>1, <3>2 DEF ToBeReset
  <2>8. CASE WriteRefused(f)
    BY <1>0, <2>8 DEF WriteRefused, ToBeReset
  <2>9. CASE Written(f)
    <3>1. f \in seen /\ working' = [working EXCEPT ![f] = version'] /\ UNCHANGED <<reset, base, seen>>
      BY <1>0, <2>9 DEF Written, BusyInv, Writing
    <3>2. g # f => working'[g] = working[g]
      BY <1>0, <3>1 DEF FileTypeOK
    <3> QED BY <1>0, <3>1, <3>2 DEF ToBeReset
  <2> QED BY <1>1, <2>1, <2>2, <2>3, <2>4, <2>5, <2>6, <2>7, <2>8, <2>9 DEF FileStep
<1>2. CASE Restart
  <2>1. VersionInv' /\ seen' = {} /\ base' = version'
    BY <1>2, RestartKeeps DEF FileInv, Restart
  <2> QED BY <2>1 DEF VersionInv
<1> QED BY <1>1, <1>2 DEF FileAny

LEMMA KeptStep ==
  ASSUME FileInv, SeenInv, FileAny, UNCHANGED world
  PROVE  Kept
<1> SUFFICES ASSUME NEW g \in Files, ~world.faulty, working'[g] # working[g],
                    busy' # [step |-> "write", file |-> g]
             PROVE  /\ Owned(g) # {} => ToBeReset(g)
                    /\ world.readsFirst => working[g] <= base
  BY DEF Kept
<1>0. FileTypeOK /\ BusyInv
  BY DEF FileInv
<1>1. ASSUME working[g] \in {Absent, Torn} PROVE Owned(g) = {} /\ working[g] <= base
  <2>1. version \in Nat
    BY <1>0, LowContents
  <2> QED BY <1>0, <1>1, <2>1, LowContents DEF Owned, Absent, Torn
<1>2. ASSUME NEW f \in Files, FileStep(f), working[g] \notin {Absent, Torn}
      PROVE  f = g /\ CopyRemove(f) /\ ToBeReset(f)
  <2>1. CASE ReadShipped(f) \/ ReadOwn(f) \/ ReadWorking(f) \/ WriteRefused(f)
    BY <2>1 DEF ReadShipped, ReadOwn, ReadWorking, WriteRefused
  <2>2. CASE CopyRemove(f)
    <3>1. f = g
      BY <1>0, <2>2 DEF CopyRemove, FileTypeOK
    <3>2. ToBeReset(f) \/ FALSE \in OpenResults(working[f])
      BY <2>2 DEF CopyRemove
    <3> QED BY <1>2, <2>2, <3>1, <3>2, OpensOrNot
  <2>3. CASE CopyFails(f) \/ CopyShipped(f)
    <3>1. working[f] = Absent
      BY <1>0, <2>3 DEF CopyFails, CopyShipped, BusyInv, Copying
    <3>2. \E c : working' = [working EXCEPT ![f] = c]
      BY <2>3 DEF CopyFails, CopyShipped
    <3> QED BY <1>0, <1>2, <3>1, <3>2 DEF FileTypeOK
  <2>4. CASE OpenToWrite(f)
    <3>1. working' = [working EXCEPT ![f] = Torn] /\ busy' = [step |-> "write", file |-> f]
      BY <2>4 DEF OpenToWrite
    <3> QED BY <1>0, <3>1 DEF FileTypeOK
  <2>5. CASE Written(f)
    <3>1. working[f] = Torn /\ working' = [working EXCEPT ![f] = version']
      BY <1>0, <2>5 DEF Written, BusyInv, Writing
    <3> QED BY <1>0, <1>2, <3>1 DEF FileTypeOK
  <2> QED BY <1>2, <2>1, <2>2, <2>3, <2>4, <2>5 DEF FileStep
<1>3. ASSUME Restart, working[g] \notin {Absent, Torn} PROVE FALSE
  <2>1. CASE busy.step = "copy"
    <3>1. busy.file \in Files /\ busy = [step |-> "copy", file |-> busy.file]
      BY <1>0, <2>1 DEF FileTypeOK, Calm
    <3>2. working[busy.file] = Absent
      BY <1>0, <3>1 DEF BusyInv, Copying
    <3>3. \E c : working' = [working EXCEPT ![busy.file] = c]
      BY <1>3, <2>1 DEF Restart
    <3> QED BY <1>0, <1>3, <3>1, <3>2, <3>3 DEF FileTypeOK
  <2>2. CASE busy.step # "copy"
    BY <1>3, <2>2 DEF Restart
  <2> QED BY <2>1, <2>2
<1>4. CASE working[g] \notin {Absent, Torn}
  <2>1. CopyRemove(g) /\ ToBeReset(g)
    BY <1>2, <1>3, <1>4 DEF FileAny
  <2>2. world.readsFirst => working[g] <= base
    BY <2>1 DEF CopyRemove, SeenInv
  <2> QED BY <2>1, <2>2
<1> QED BY <1>1, <1>4

-----------------------------------------------------------------------------
(* The settings: what they do to the files is what any application may do   *)
LEMMA SettingsStepIsFileStep ==
  ASSUME world \in Worlds, SettingsNext
  PROVE  (FileAny \/ UNCHANGED fileVars) /\ UNCHANGED world
<1>1. ASSUME NEW r \in Roots, RootStep(r) PROVE FileStep(Settings_) \/ UNCHANGED fileVars
  BY <1>1 DEF RootStep, OpenFirst, OpenNext, SetRoot, ClearRoot, FlushBegin, FlushNowhere, CloseRoot,
     CloseRootNowhere, FileStep
<1>2. ASSUME NEW g \in Groups, GroupStep(g) PROVE UNCHANGED fileVars
  BY <1>2 DEF GroupStep, CloseGroup, SetGroup, ClearGroup, OpenGroup
<1>3. FlushEnd => FileStep(Settings_)
  BY DEF FlushEnd, FileStep
<1>4. Killed => Restart
  BY DEF Killed
<1>5. ASSUME OtherFile PROVE FileAny
  <2>1. PICK f \in world.uses \ {Settings_} : FileStep(f)
    BY <1>5 DEF OtherFile
  <2> QED BY <2>1, FileAssumption DEF FileAny
<1>6. Settings_ \in Files
  BY SettingsAssumption
<1> QED BY <1>1, <1>2, <1>3, <1>4, <1>5, <1>6 DEF SettingsNext, FileAny

Trees == [data : 0..changes, present : SUBSET Groups]

SettingsTypes ==
  /\ alive \subseteq Roots /\ loads \in 0..MaxLoads
  /\ data \in 0..changes /\ changes \in 0..MaxVersion /\ before \in 0..changes
  /\ present \subseteq Groups
  /\ written \in [1..MaxVersion -> Trees]
  /\ handle \in [Groups -> {NoObject} \cup [parent : Roots, tree : 1..loads, there : BOOLEAN]]
  /\ alive # {} => loads >= 1

(* The root that is being destroyed is there until the file is written      *)
LeavingInv ==
  /\ leaving # NoRoot => leaving \in alive
  /\ Writing(Settings_) => alive # {}
  /\ leaving = NoRoot \/ Writing(Settings_)

(* An object of a group is there while its parent is, and it finds its node *)
(* in the tree that will be written                                         *)
HandleInv ==
  \A g \in Open : /\ handle[g].parent \in alive \ {leaving}
                  /\ handle[g].tree = loads /\ handle[g].there

(* The changes are in the tree, and in the file when there is no tree; and  *)
(* they are not thrown away by a reset, which comes before the first change *)
DataInv ==
  /\ alive # {} \/ changes > before => ~ToBeReset(Settings_)
  /\ changes > before => IF alive # {} THEN data = changes
                         ELSE working[Settings_] \in 1..version /\ written[working[Settings_]].data = changes

SettingsInv == world \in Worlds /\ FileInv /\ SettingsTypes /\ LeavingInv

LEMMA HandleIsNew ==
  ASSUME NEW r, NEW n, NEW b
  PROVE  [parent |-> r, tree |-> n, there |-> b] # NoObject
<1> DEFINE h == [parent |-> r, tree |-> n, there |-> b]
<1>1. "tree" \in DOMAIN h /\ "tree" \notin DOMAIN NoObject
  BY DEF NoObject
<1> QED BY <1>1

LEMMA HeldIsTree ==
  ASSUME SettingsInv, NEW c
  PROVE  Held(c) \in Trees
<1>1. 0 \in 0..changes /\ version \in 0..MaxVersion /\ MaxVersion \in Nat
  BY FileAssumption DEF SettingsInv, SettingsTypes, FileInv, FileTypeOK
<1> QED BY <1>1 DEF Held, SettingsInv, SettingsTypes, Trees

(* One more change: what was at most the number of changes still is         *)
LEMMA MoreChanges ==
  ASSUME SettingsInv, changes < MaxVersion, changes' = changes + 1, UNCHANGED <<written, before>>
  PROVE  /\ changes' \in 0..MaxVersion /\ before' \in 0..changes' /\ data \in 0..changes'
         /\ changes' > before' /\ written' \in [1..MaxVersion -> Trees']
<1>1. changes \in 0..MaxVersion /\ before \in 0..changes /\ data \in 0..changes /\ MaxVersion \in Nat
  BY FileAssumption DEF SettingsInv, SettingsTypes
<1>2. Trees \subseteq Trees'
  BY <1>1 DEF Trees
<1>3. written \in [1..MaxVersion -> Trees]
  BY DEF SettingsInv, SettingsTypes
<1>4. written' \in [1..MaxVersion -> Trees']
  BY <1>2, <1>3
<1> QED BY <1>1, <1>4

LEMMA SettingsTypesStep ==
  ASSUME SettingsInv, SettingsNext
  PROVE  SettingsTypes' /\ LeavingInv'
<1> USE DEF SettingsInv
<1>0. MaxVersion \in Nat /\ MaxLoads \in Nat /\ world.loads \in 0..MaxLoads /\ Settings_ \in Files
  BY FileAssumption, SettingsAssumption
<1>1. ASSUME NEW r \in Roots, OpenFirst(r) PROVE SettingsTypes' /\ LeavingInv'
  <2>1. \E c : data' = Held(c).data /\ present' = Held(c).present
    BY <1>1 DEF OpenFirst
  <2>2. data' \in 0..changes /\ present' \subseteq Groups
    BY <2>1, HeldIsTree DEF Trees
  <2>3. loads \in 0..MaxLoads /\ loads < world.loads /\ loads' = loads + 1
    BY <1>1 DEF OpenFirst, SettingsTypes
  <2>4. loads' \in 0..MaxLoads /\ loads' >= 1 /\ 1..loads \subseteq 1..loads'
    BY <1>0, <2>3
  <2>5. alive = {} /\ alive' = {r} /\ UNCHANGED <<handle, changes, written, leaving, before>>
    BY <1>1 DEF OpenFirst
  <2>6. handle' \in [Groups -> {NoObject} \cup [parent : Roots, tree : 1..loads', there : BOOLEAN]]
    <3>1. handle \in [Groups -> {NoObject} \cup [parent : Roots, tree : 1..loads, there : BOOLEAN]]
      BY DEF SettingsTypes
    <3>2. [parent : Roots, tree : 1..loads, there : BOOLEAN]
            \subseteq [parent : Roots, tree : 1..loads', there : BOOLEAN]
      BY <2>4
    <3> QED BY <2>5, <3>1, <3>2
  <2>7. SettingsTypes'
    BY <2>2, <2>4, <2>5, <2>6 DEF SettingsTypes, Trees
  <2>8. UNCHANGED busy
    BY <1>1 DEF OpenFirst, ReadOwn
  <2> QED BY <2>5, <2>7, <2>8 DEF LeavingInv, Writing
<1>2. ASSUME NEW r \in Roots, OpenNext(r) PROVE SettingsTypes' /\ LeavingInv'
  BY <1>2 DEF OpenNext, fileVars, SettingsTypes, LeavingInv, Writing, Trees
<1>3. ASSUME NEW r \in Roots, SetRoot(r) PROVE SettingsTypes' /\ LeavingInv'
  <2>1. /\ changes < MaxVersion /\ changes' = changes + 1 /\ data' = changes'
        /\ UNCHANGED <<fileVars, alive, loads, present, handle, written, leaving, before>>
    BY <1>3 DEF SetRoot
  <2> QED BY <2>1, MoreChanges DEF fileVars, SettingsTypes, LeavingInv, Writing
<1>4. ASSUME NEW r \in Roots, ClearRoot(r) PROVE SettingsTypes' /\ LeavingInv'
  <2>1. /\ changes < MaxVersion /\ changes' = changes + 1 /\ data' = changes' /\ present' = {}
        /\ UNCHANGED <<fileVars, alive, loads, written, leaving, before>>
        /\ handle' = [g \in Groups |->
                        IF g \in Open THEN [handle[g] EXCEPT !.there = FALSE] ELSE NoObject]
    BY <1>4 DEF ClearRoot
  <2>2. handle' \in [Groups -> {NoObject} \cup [parent : Roots, tree : 1..loads', there : BOOLEAN]]
    <3>1. ASSUME NEW g \in Open
          PROVE  [handle[g] EXCEPT !.there = FALSE] \in [parent : Roots, tree : 1..loads, there : BOOLEAN]
      <4>1. handle[g] \in [parent : Roots, tree : 1..loads, there : BOOLEAN]
        BY DEF Open, SettingsTypes
      <4> QED BY <4>1
    <3> QED BY <2>1, <3>1
  <2> QED BY <2>1, <2>2, MoreChanges DEF fileVars, SettingsTypes, LeavingInv, Writing
<1>5. ASSUME NEW r \in Roots, FlushBegin(r) \/ FlushNowhere(r) PROVE SettingsTypes' /\ LeavingInv'
  <2>1. UNCHANGED settingsVars /\ r \in alive /\ busy = Calm
    BY <1>5 DEF FlushBegin, FlushNowhere, OpenToWrite, WriteRefused
  <2>2. leaving = NoRoot
    BY <2>1 DEF LeavingInv, Writing, Calm
  <2> QED BY <2>1, <2>2 DEF settingsVars, SettingsTypes, LeavingInv, Trees
<1>6. ASSUME NEW r \in Roots, CloseRoot(r) PROVE SettingsTypes' /\ LeavingInv'
  <2>1. /\ r \in alive /\ leaving' = r /\ busy' = [step |-> "write", file |-> Settings_]
        /\ UNCHANGED <<alive, loads, data, present, handle, changes, written, before>>
    BY <1>6 DEF CloseRoot, Leaves, OpenToWrite
  <2> QED BY <2>1 DEF SettingsTypes, LeavingInv, Writing, Trees
<1>7. ASSUME NEW r \in Roots, CloseRootNowhere(r) PROVE SettingsTypes' /\ LeavingInv'
  <2>1. /\ busy = Calm /\ busy' = Calm /\ alive' = alive \ {r}
        /\ UNCHANGED <<loads, data, present, handle, changes, written, leaving, before>>
    BY <1>7 DEF CloseRootNowhere, WriteRefused
  <2>2. leaving = NoRoot
    BY <2>1 DEF LeavingInv, Writing, Calm
  <2> QED BY <2>1, <2>2 DEF SettingsTypes, LeavingInv, Writing, Calm, Trees
<1>8. ASSUME NEW g \in Groups, NEW r \in Roots, OpenGroup(g, r) PROVE SettingsTypes' /\ LeavingInv'
  <2>1. /\ r \in alive /\ present' = present \cup {g}
        /\ handle' = [handle EXCEPT ![g] = [parent |-> r, tree |-> loads, there |-> TRUE]]
        /\ UNCHANGED <<fileVars, alive, loads, data, changes, written, leaving, before>>
    BY <1>8 DEF OpenGroup
  <2>2. loads \in 1..loads
    BY <1>0, <2>1 DEF SettingsTypes
  <2> QED BY <2>1, <2>2 DEF fileVars, SettingsTypes, LeavingInv, Writing, Trees
<1>9. ASSUME NEW g \in Groups, CloseGroup(g) PROVE SettingsTypes' /\ LeavingInv'
  BY <1>9 DEF CloseGroup, fileVars, SettingsTypes, LeavingInv, Writing, Trees
<1>10. ASSUME NEW g \in Groups, SetGroup(g) \/ ClearGroup(g) PROVE SettingsTypes' /\ LeavingInv'
  <2>1. /\ changes < MaxVersion /\ changes' = changes + 1 /\ data' \in {data, changes'}
        /\ UNCHANGED <<fileVars, alive, loads, present, handle, written, leaving, before>>
    BY <1>10 DEF SetGroup, ClearGroup
  <2> QED BY <2>1, MoreChanges DEF fileVars, SettingsTypes, LeavingInv, Writing
<1>11. CASE FlushEnd
  <2>1. /\ written' = [written EXCEPT ![version'] = [data |-> data, present |-> present]]
        /\ alive' = alive \ {leaving} /\ leaving' = NoRoot /\ busy' = Calm
        /\ UNCHANGED <<loads, data, present, handle, changes, before>>
    BY <1>11 DEF FlushEnd, Written
  <2>2. [data |-> data, present |-> present] \in Trees
    BY DEF SettingsTypes, Trees
  <2> QED BY <2>1, <2>2 DEF SettingsTypes, LeavingInv, Writing, Calm, Trees
<1>12. CASE Killed
  <2>1. /\ alive' = {} /\ leaving' = NoRoot /\ handle' = [g \in Groups |-> NoObject] /\ before' = changes
        /\ busy' = Calm /\ UNCHANGED <<loads, data, present, changes, written>>
    BY <1>12 DEF Killed, Restart
  <2>2. changes \in 0..changes
    BY <1>0 DEF SettingsTypes
  <2> QED BY <2>1, <2>2 DEF SettingsTypes, LeavingInv, Writing, Calm, Trees
<1>13. CASE OtherFile
  <2>1. UNCHANGED settingsVars
    BY <1>13 DEF OtherFile
  <2>2. PICK f \in world.uses \ {Settings_} : FileStep(f)
    BY <1>13 DEF OtherFile
  <2>3. (Writing(Settings_)' <=> Writing(Settings_))
    <3>1. CASE ReadShipped(f) \/ ReadOwn(f) \/ ReadWorking(f) \/ WriteRefused(f)
      BY <3>1 DEF ReadShipped, ReadOwn, ReadWorking, WriteRefused, Writing
    <3>2. CASE CopyRemove(f) \/ OpenToWrite(f)
      <4>1. busy = Calm /\ busy' \in {[step |-> "copy", file |-> f], [step |-> "write", file |-> f]}
        BY <3>2 DEF CopyRemove, OpenToWrite
      <4> QED BY <4>1 DEF Writing, Calm
    <3>3. CASE CopyFails(f) \/ CopyShipped(f) \/ Written(f)
      <4>1. busy' = Calm /\ busy \in {[step |-> "copy", file |-> f], [step |-> "write", file |-> f]}
        BY <3>3 DEF CopyFails, CopyShipped, Written
      <4> QED BY <4>1 DEF Writing, Calm
    <3> QED BY <2>2, <3>1, <3>2, <3>3 DEF FileStep
  <2> QED BY <2>1, <2>3 DEF settingsVars, SettingsTypes, LeavingInv, Trees
<1> QED BY <1>1, <1>2, <1>3, <1>4, <1>5, <1>6, <1>7, <1>8, <1>9, <1>10, <1>11, <1>12, <1>13
     DEF SettingsNext, RootStep, GroupStep

LEMMA HandleInvStep ==
  ASSUME Nested, SettingsInv, HandleInv, SettingsNext
  PROVE  HandleInv'
<1>0. NoRoot \notin Roots
  BY SettingsAssumption DEF NoRoot
<1>1. ASSUME UNCHANGED <<alive, loads, handle, leaving>> PROVE HandleInv'
  BY <1>1 DEF HandleInv, Open
<1>2. ASSUME NEW r \in Roots, RootStep(r) PROVE HandleInv'
  <2>1. CASE OpenFirst(r)
    <3>1. Open = {} /\ UNCHANGED handle
      BY <2>1 DEF OpenFirst, HandleInv
    <3> QED BY <3>1 DEF HandleInv, Open
  <2>2. CASE OpenNext(r)
    BY <2>2 DEF OpenNext, HandleInv, Open
  <2>3. CASE ClearRoot(r)
    <3>1. Open = {} /\ handle' = [g \in Groups |-> NoObject]
      BY <2>3 DEF ClearRoot, Open
    <3> QED BY <3>1 DEF HandleInv, Open
  <2>4. CASE SetRoot(r) \/ FlushBegin(r) \/ FlushNowhere(r)
    BY <1>1, <2>4 DEF SetRoot, FlushBegin, FlushNowhere, settingsVars
  <2>5. CASE CloseRoot(r) \/ CloseRootNowhere(r)
    <3>1. \A g \in Open : handle[g].parent # r
      BY <2>5 DEF CloseRoot, CloseRootNowhere, Leaves
    <3>2. alive' \ {leaving'} = alive \ {r} /\ UNCHANGED <<loads, handle>>
      <4>1. CASE CloseRoot(r)
        BY <4>1 DEF CloseRoot
      <4>2. CASE CloseRootNowhere(r)
        <5>1. busy = Calm /\ alive' = alive \ {r} /\ UNCHANGED <<loads, handle, leaving>>
          BY <4>2 DEF CloseRootNowhere, WriteRefused
        <5>2. leaving = NoRoot /\ NoRoot \notin alive
          BY <1>0, <5>1 DEF SettingsInv, LeavingInv, SettingsTypes, Writing, Calm
        <5> QED BY <5>1, <5>2
      <4> QED BY <2>5, <4>1, <4>2
    <3> QED BY <3>1, <3>2 DEF HandleInv, Open
  <2> QED BY <1>2, <2>1, <2>2, <2>3, <2>4, <2>5 DEF RootStep
<1>3. ASSUME NEW g \in Groups, GroupStep(g) PROVE HandleInv'
  <2>1. ASSUME NEW r \in Roots, OpenGroup(g, r) PROVE HandleInv'
    <3>1. /\ r \in alive /\ busy = Calm
          /\ handle' = [handle EXCEPT ![g] = [parent |-> r, tree |-> loads, there |-> TRUE]]
          /\ UNCHANGED <<alive, loads, leaving>>
      BY <2>1 DEF OpenGroup
    <3>2. leaving = NoRoot /\ r # NoRoot
      BY <1>0, <3>1 DEF SettingsInv, LeavingInv, Writing, Calm
    <3> QED BY <3>1, <3>2 DEF HandleInv, Open, SettingsInv, SettingsTypes
  <2>2. CASE CloseGroup(g)
    <3>1. handle' = [handle EXCEPT ![g] = NoObject] /\ UNCHANGED <<alive, loads, leaving>>
      BY <2>2 DEF CloseGroup
    <3> QED BY <3>1 DEF HandleInv, Open, SettingsInv, SettingsTypes
  <2>3. CASE SetGroup(g) \/ ClearGroup(g)
    BY <1>1, <2>3 DEF SetGroup, ClearGroup
  <2> QED BY <1>3, <2>1, <2>2, <2>3 DEF GroupStep
<1>4. CASE FlushEnd
  <2>1. alive' = alive \ {leaving} /\ leaving' = NoRoot /\ UNCHANGED <<loads, handle>>
    BY <1>4 DEF FlushEnd
  <2>2. NoRoot \notin alive
    BY <1>0 DEF SettingsInv, SettingsTypes
  <2> QED BY <2>1, <2>2 DEF HandleInv, Open
<1>5. CASE Killed
  <2>1. Open' = {}
    BY <1>5 DEF Killed, Open
  <2> QED BY <2>1 DEF HandleInv
<1>6. CASE OtherFile
  BY <1>1, <1>6 DEF OtherFile, settingsVars
<1> QED BY <1>2, <1>3, <1>4, <1>5, <1>6 DEF SettingsNext

(* Nothing is read as long as it is to be reset, and what was written last  *)
(* is what is read                                                          *)
LEMMA OpenFirstData ==
  ASSUME SettingsInv, DataInv, ~world.faulty, NEW r \in Roots, OpenFirst(r)
  PROVE  DataInv'
<1>1. /\ alive = {} /\ alive' = {r} /\ ReadOwn(Settings_)
      /\ data' = Held(IF last'[Settings_].ok THEN last'[Settings_].read ELSE Absent).data
      /\ UNCHANGED <<changes, written, before>>
  BY DEF OpenFirst
<1>2. FileTypeOK /\ Settings_ \in Files
  BY SettingsAssumption DEF SettingsInv, FileInv
<1>3. ~ToBeReset(Settings_)'
  BY <1>1 DEF ReadOwn, ToBeReset
<1>4. ASSUME changes > before PROVE data' = changes
  <2>1. /\ ~ToBeReset(Settings_) /\ working[Settings_] \in 1..version
        /\ written[working[Settings_]].data = changes
    BY <1>1, <1>4 DEF DataInv
  <2>2. PICK ok \in OpenResults(working[Settings_]) : Return(Settings_, "in", ok, working[Settings_])
    BY <1>1, <2>1 DEF ReadOwn
  <2>3. working[Settings_] # Absent
    BY <1>2, <2>1, LowContents DEF Absent
  <2>4. ok = TRUE
    BY <2>2, <2>3, OpensOrNot
  <2>5. working[Settings_] \in Contents
    BY <1>2 DEF FileTypeOK
  <2>6. last'[Settings_] = [op |-> "in", ok |-> TRUE, read |-> working[Settings_]]
    BY <1>2, <2>2, <2>4, <2>5, ReturnIsTyped
  <2> QED BY <1>1, <2>1, <2>6 DEF Held
<1> QED BY <1>1, <1>3, <1>4 DEF DataInv

LEMMA DataInvStep ==
  ASSUME Nested, SettingsInv, HandleInv, ~world.faulty, DataInv, SettingsNext
  PROVE  DataInv'
<1>0. FileTypeOK /\ Settings_ \in Files /\ ~Control[Settings_].read_only
  BY SettingsAssumption DEF SettingsInv, FileInv
<1>1. ASSUME UNCHANGED <<working, version, reset, alive, data, changes, written, before>> PROVE DataInv'
  BY <1>1 DEF DataInv, ToBeReset
<1>2. ASSUME NEW r \in Roots, RootStep(r) PROVE DataInv'
  <2>1. CASE OpenNext(r)
    <3>1. /\ alive # {} /\ alive' = alive \cup {r}
          /\ UNCHANGED <<fileVars, data, changes, written, before>>
      BY <2>1 DEF OpenNext
    <3> QED BY <3>1 DEF fileVars, DataInv, ToBeReset
  <2>2. CASE SetRoot(r) \/ ClearRoot(r)
    <3>1. r \in alive /\ data' = changes' /\ UNCHANGED <<fileVars, alive>>
      BY <2>2 DEF SetRoot, ClearRoot
    <3> QED BY <3>1 DEF fileVars, DataInv, ToBeReset
  <2>3. CASE FlushBegin(r) \/ CloseRoot(r)
    <3>1. /\ r \in alive
          /\ UNCHANGED <<version, reset, alive, data, changes, written, before>>
      BY <2>3 DEF FlushBegin, CloseRoot, Leaves, OpenToWrite, settingsVars
    <3> QED BY <3>1 DEF DataInv, ToBeReset
  <2>4. CASE FlushNowhere(r) \/ CloseRootNowhere(r)
    <3>1. Control[Settings_].read_only \/ world.faulty
      BY <2>4 DEF FlushNowhere, CloseRootNowhere, WriteRefused
    <3> QED BY <1>0, <3>1
  <2> QED BY <1>2, <2>1, <2>2, <2>3, <2>4, OpenFirstData DEF RootStep
<1>3. ASSUME NEW g \in Groups, GroupStep(g) PROVE DataInv'
  <2>1. CASE SetGroup(g) \/ ClearGroup(g)
    <3>1. g \in Open /\ data' = (IF InTree(g) THEN changes' ELSE data) /\ UNCHANGED <<fileVars, alive>>
      BY <2>1 DEF SetGroup, ClearGroup
    <3>2. InTree(g) /\ alive # {}
      BY <3>1 DEF HandleInv, InTree
    <3> QED BY <3>1, <3>2 DEF fileVars, DataInv, ToBeReset
  <2>2. CASE CloseGroup(g) \/ \E r \in Roots : OpenGroup(g, r)
    BY <1>1, <2>2 DEF CloseGroup, OpenGroup, fileVars
  <2> QED BY <1>3, <2>1, <2>2 DEF GroupStep
<1>4. CASE FlushEnd
  <2>1. /\ Written(Settings_) /\ written' = [written EXCEPT ![version'] = [data |-> data, present |-> present]]
        /\ alive' \subseteq alive /\ UNCHANGED <<data, changes, before>>
    BY <1>4 DEF FlushEnd
  <2>2. /\ alive # {} /\ version < MaxVersion /\ version' = version + 1 /\ UNCHANGED reset
        /\ working' = [working EXCEPT ![Settings_] = version']
    BY <1>0, <2>1 DEF Written, SettingsInv, LeavingInv, FileInv, BusyInv, Writing
  <2>3. version' \in 1..MaxVersion /\ version' \in 1..version'
    BY <1>0, <2>2, FileAssumption DEF FileTypeOK
  <2>4. working'[Settings_] = version'
    BY <1>0, <2>2 DEF FileTypeOK
  <2>5. written'[version'] = [data |-> data, present |-> present]
    BY <2>1, <2>3 DEF SettingsInv, SettingsTypes
  <2>6. changes > before => data = changes
    BY <2>2 DEF DataInv
  <2>7. ~ToBeReset(Settings_)'
    BY <2>2 DEF DataInv, ToBeReset
  <2> QED BY <2>1, <2>3, <2>4, <2>5, <2>6, <2>7 DEF DataInv
<1>5. CASE Killed
  <2>1. alive' = {} /\ before' = changes /\ changes' = changes
    BY <1>5 DEF Killed
  <2>2. ~(changes > changes)
    BY FileAssumption DEF SettingsInv, SettingsTypes
  <2> QED BY <2>1, <2>2 DEF DataInv
<1>6. CASE OtherFile
  <2>1. UNCHANGED settingsVars
    BY <1>6 DEF OtherFile
  <2>2. PICK f \in world.uses \ {Settings_} : FileStep(f)
    BY <1>6 DEF OtherFile
  <2>3. reset' \subseteq reset
    BY <2>2 DEF FileStep, ReadShipped, ReadOwn, ReadWorking, CopyRemove, CopyFails, CopyShipped,
       OpenToWrite, WriteRefused, Written
  <2>4. working'[Settings_] = working[Settings_]
    <3>1. UNCHANGED working \/ \E c : working' = [working EXCEPT ![f] = c]
      BY <2>2 DEF FileStep, ReadShipped, ReadOwn, ReadWorking, CopyRemove, CopyFails, CopyShipped,
         OpenToWrite, WriteRefused, Written
    <3> QED BY <1>0, <3>1 DEF FileTypeOK
  <2>5. 1..version \subseteq 1..version'
    <3>1. version \in Nat /\ (version' = version \/ version' = version + 1)
      BY <1>0, <2>2, LowContents DEF FileStep, ReadShipped, ReadOwn, ReadWorking, CopyRemove, CopyFails,
         CopyShipped, OpenToWrite, WriteRefused, Written
    <3> QED BY <3>1
  <2> QED BY <2>1, <2>3, <2>4, <2>5, ToBeResetShrinks DEF settingsVars, DataInv
<1> QED BY <1>2, <1>3, <1>4, <1>5, <1>6 DEF SettingsNext

-----------------------------------------------------------------------------
LEMMA SettingsInvInit == SettingsInit => SettingsInv /\ HandleInv /\ SeenInv /\ (~world.faulty => DataInv)
<1> SUFFICES ASSUME SettingsInit
             PROVE  SettingsInv /\ HandleInv /\ SeenInv /\ (~world.faulty => DataInv)
  OBVIOUS
<1>1. FileInit /\ FileInv
  BY FileInvInit DEF SettingsInit
<1>2. /\ alive = {} /\ loads = 0 /\ data = 0 /\ present = {} /\ handle = [g \in Groups |-> NoObject]
      /\ changes = 0 /\ before = 0 /\ leaving = NoRoot
      /\ written = [v \in 1..MaxVersion |-> [data |-> 0, present |-> {}]]
  BY DEF SettingsInit
<1>3. SettingsTypes
  BY <1>2, FileAssumption, SettingsAssumption DEF SettingsTypes, Trees
<1>4. LeavingInv
  BY <1>1, <1>2 DEF FileInit, LeavingInv, Writing, Calm
<1>5. HandleInv /\ DataInv
  BY <1>2 DEF HandleInv, Open, DataInv
<1>6. SeenInv
  BY <1>1 DEF FileInit, SeenInv, Absent, Shipped
<1> QED BY <1>1, <1>3, <1>4, <1>5, <1>6 DEF SettingsInv, FileInit

LEMMA SettingsInvStep == ASSUME SettingsInv, [SettingsNext]_settingsAllVars PROVE SettingsInv'
<1>1. CASE UNCHANGED settingsAllVars
  <2>1. UNCHANGED <<world, fileVars, settingsVars>>
    BY <1>1 DEF settingsAllVars
  <2>2. FileInv'
    BY <2>1 DEF SettingsInv, fileVars, FileInv, FileTypeOK, BusyInv, VersionInv, TornInv,
       ShippedAlwaysOpens, Copying, Writing
  <2>3. (SettingsTypes /\ LeavingInv)'
    BY <2>1 DEF SettingsInv, fileVars, settingsVars, SettingsTypes, LeavingInv, Trees, Writing
  <2> QED BY <2>1, <2>2, <2>3 DEF SettingsInv
<1>2. CASE SettingsNext
  <2>1. (FileAny \/ UNCHANGED fileVars) /\ UNCHANGED world
    BY <1>2, SettingsStepIsFileStep DEF SettingsInv
  <2>2. FileInv'
    <3>1. CASE UNCHANGED fileVars
      BY <2>1, <3>1 DEF SettingsInv, fileVars, FileInv, FileTypeOK, BusyInv, VersionInv, TornInv,
         ShippedAlwaysOpens, Copying, Writing
    <3> QED BY <2>1, <3>1, FileInvStep DEF SettingsInv
  <2> QED BY <1>2, <2>1, <2>2, SettingsTypesStep DEF SettingsInv
<1> QED BY <1>1, <1>2

(* Files, requests, calls under way, trees and objects stay what they are   *)
(* declared to be, whatever calls and kills follow each other               *)
THEOREM SettingsTypeCorrect == SettingsSpec => []SettingsTypeOK
<1>1. SettingsInv => SettingsTypeOK
  <2> SUFFICES ASSUME SettingsInv PROVE SettingsTypeOK
    OBVIOUS
  <2>1. \A g \in Open : handle[g].parent \in Roots /\ handle[g].tree \in 1..loads
    BY DEF SettingsInv, SettingsTypes, Open
  <2> QED BY <2>1 DEF SettingsInv, FileInv, SettingsTypes, LeavingInv, SettingsTypeOK
<1> QED BY <1>1, SettingsInvInit, SettingsInvStep, PTL DEF SettingsSpec

(* A shipped file can always be read, whatever a kill has left behind       *)
THEOREM ShippedFilesOpen == SettingsSpec => []ShippedAlwaysOpens
<1>1. SettingsInv => ShippedAlwaysOpens
  BY DEF SettingsInv, FileInv
<1> QED BY <1>1, SettingsInvInit, SettingsInvStep, PTL DEF SettingsSpec

(* What the application has written is thrown away by the application or,   *)
(* once, on request, whichever calls, kills and resets follow each other,   *)
(* where every shipped file is in place                                     *)
THEOREM UserDataKept == ASSUME Installed PROVE SettingsSpec => UserDataIsKept
<1>1. ASSUME SettingsInv, SeenInv, [SettingsNext]_settingsAllVars PROVE SeenInv' /\ [Kept]_fileVars
  <2>1. CASE UNCHANGED <<world, fileVars>>
    BY <1>1, <2>1 DEF fileVars, SeenInv, ToBeReset
  <2>2. CASE FileAny /\ UNCHANGED world
    BY <1>1, <2>2, SeenInvStep, KeptStep DEF SettingsInv
  <2>3. UNCHANGED settingsAllVars => UNCHANGED <<world, fileVars>>
    BY DEF settingsAllVars
  <2> QED BY <1>1, <2>1, <2>2, <2>3, SettingsStepIsFileStep DEF SettingsInv
<1>2. SettingsSpec => [](SettingsInv /\ SeenInv)
  BY <1>1, SettingsInvInit, SettingsInvStep, PTL DEF SettingsSpec
<1>3. SettingsSpec => [][Kept]_fileVars
  BY <1>1, <1>2, PTL DEF SettingsSpec
<1> QED BY <1>3 DEF UserDataIsKept, Kept

(* No object of a group outlives its tree, and the file holds every change  *)
(* when the last object has gone, for an application that destroys groups   *)
(* before their parents                                                     *)
THEOREM LastChangeReachesTheFile == ASSUME Nested PROVE SettingsSpec => []LastChangeIsWritten
<1> DEFINE Inv == SettingsInv /\ HandleInv /\ (~world.faulty => DataInv)
<1>1. SettingsInit => Inv
  BY SettingsInvInit
<1>2. ASSUME Inv, [SettingsNext]_settingsAllVars PROVE Inv'
  <2>1. CASE UNCHANGED settingsAllVars
    BY <1>2, <2>1, SettingsInvStep
       DEF settingsAllVars, settingsVars, fileVars, HandleInv, Open, DataInv, ToBeReset
  <2>2. CASE SettingsNext
    <3>1. UNCHANGED world
      BY <2>2 DEF SettingsNext
    <3> QED BY <1>2, <2>2, <3>1, SettingsInvStep, HandleInvStep, DataInvStep, SettingsAssumption
  <2> QED BY <1>2, <2>1, <2>2
<1>3. Inv => LastChangeIsWritten
  <2> SUFFICES ASSUME Inv PROVE LastChangeIsWritten
    OBVIOUS
  <2>1. \A g \in Open : InTree(g)
    BY DEF HandleInv, InTree
  <2>2. ~world.faulty /\ alive = {} /\ changes > before =>
          working[Settings_] \in 1..version /\ written[working[Settings_]].data = changes
    BY DEF DataInv
  <2> QED BY <2>1, <2>2 DEF LastChangeIsWritten
<1> HIDE DEF Inv
<1> QED BY <1>1, <1>2, <1>3, PTL DEF SettingsSpec

===============================================================================
