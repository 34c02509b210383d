----------------------------- MODULE FileHolder -----------------------------
(***************************************************************************)
(* zc_file_holder (src/zc_file_holder.cpp): files an application is        *)
(* shipped with (the source directory) and files it may change (the        *)
(* working directory). get_file opens one for reading, which may first     *)
(* copy the shipped file over the working one, or for writing, which       *)
(* empties it. The program can be killed between two of these steps.       *)
(***************************************************************************)
EXTENDS Integers, FiniteSets

CONSTANTS Files,        (* the types of file, file_contents_t                *)
          Control,      (* control_data_                                     *)
          Bits,         (* bits of DEBUG_RESET_CONFIG                        *)
          Shipped0,     (* the files that are in the source directory        *)
          Worlds,       (* the circumstances to consider, see world          *)
          MaxVersion,   (* bound: versions the application writes            *)
          MaxCrashes    (* bound: times the program is killed                *)

Absent == -2
Torn == -1              (* cut short, or emptied and not yet written         *)
Shipped == 0            (* as installed; versions 1, 2, ... are the          *)
                        (* application's own                                 *)
Contents == {Absent, Torn, Shipped} \cup 1..MaxVersion

ASSUME FileAssumption ==
  /\ Control \in [Files -> [reference : BOOLEAN, read_only : BOOLEAN,
                            reset_mask : SUBSET Bits]]
  /\ Shipped0 \subseteq Files
  /\ MaxVersion \in Nat /\ MaxCrashes \in Nat
  /\ \A w \in Worlds : w.uses \subseteq Files /\ w.faulty \in BOOLEAN /\ w.readsFirst \in BOOLEAN

(* Rigid: the files the application uses; whether a file that exists may    *)
(* fail to open, and boost::filesystem::copy to copy it; and whether the    *)
(* application reads each file before it writes it.                         *)
VARIABLE world

VARIABLES working,      (* default_ref_directory_                            *)
          reset,        (* DEBUG_RESET_CONFIG                                *)
          busy,         (* the step a call is in the middle of               *)
          last,         (* the last get_file: what it returned and read      *)
          version,      (* versions written so far                           *)
          base,         (* ... when the program was started                  *)
          seen,         (* files read since then                             *)
          crashes

fileVars == <<working, reset, busy, last, version, base, seen, crashes>>

Calm == [step |-> "none"]
Nobody == [op |-> "none", ok |-> TRUE, read |-> Absent]

(* In the source directory: never changed here                              *)
Source(f) == IF f \in Shipped0 THEN Shipped ELSE Absent

FileInit ==
  /\ world \in Worlds
  /\ working \in [Files -> {Absent, Shipped}]
  /\ \A f \in Files : Control[f].read_only \/ f \notin Shipped0 => working[f] = Absent
  /\ reset \in SUBSET Bits
  /\ busy = Calm /\ last = [f \in Files |-> Nobody]
  /\ version = 0 /\ base = 0 /\ seen = {} /\ crashes = 0

-----------------------------------------------------------------------------
(* What open() can say of a file with these contents                        *)
OpenResults(c) == IF c = Absent THEN {FALSE} ELSE IF world.faulty THEN BOOLEAN ELSE {TRUE}

ToBeReset(f) == Control[f].reset_mask \cap reset # {}

Return(f, op, ok, content) ==
  last' = [last EXCEPT ![f] = [op |-> op, ok |-> ok, read |-> IF ok THEN content ELSE Absent]]

(* get_file(in) of a file that is only ever read                            *)
ReadShipped(f) ==
  /\ busy = Calm /\ Control[f].reference /\ Control[f].read_only
  /\ \E ok \in OpenResults(Source(f)) : Return(f, "in", ok, Source(f))
  /\ seen' = seen \cup {f}
  /\ UNCHANGED <<working, reset, busy, version, base, crashes>>

(* get_file(in) of a file the application made itself: to reset it is to    *)
(* pretend, once, that it is not there                                      *)
ReadOwn(f) ==
  /\ busy = Calm /\ ~Control[f].reference
  /\ \/ /\ ToBeReset(f) /\ reset' = reset \ Control[f].reset_mask
        /\ Return(f, "reset", FALSE, Absent)
     \/ /\ ~ToBeReset(f) /\ UNCHANGED reset
        /\ \E ok \in OpenResults(working[f]) : Return(f, "in", ok, working[f])
  /\ seen' = seen \cup {f}
  /\ UNCHANGED <<working, busy, version, base, crashes>>

(* get_file(in) of a file that was shipped and may be changed: the working  *)
(* copy if it opens                                                         *)
ReadWorking(f) ==
  /\ busy = Calm /\ Control[f].reference /\ ~Control[f].read_only /\ ~ToBeReset(f)
  /\ TRUE \in OpenResults(working[f])
  /\ Return(f, "in", TRUE, working[f])
  /\ seen' = seen \cup {f}
  /\ UNCHANGED <<working, reset, busy, version, base, crashes>>

(* mutant: a shipped file is always fetched anew                            *)
CopyRemoveAlways(f) ==
  /\ busy = Calm /\ Control[f].reference /\ ~Control[f].read_only
  /\ working' = [working EXCEPT ![f] = Absent]
  /\ busy' = [step |-> "copy", file |-> f]
  /\ UNCHANGED <<reset, last, version, base, seen, crashes>>

(* mutant: a working copy that is not there is not replaced                 *)
CopyRemoveResetOnly(f) ==
  /\ busy = Calm /\ Control[f].reference /\ ~Control[f].read_only
  /\ ToBeReset(f) \/ FALSE \in OpenResults(working[f])
  /\ \/ /\ ToBeReset(f) /\ busy' = [step |-> "copy", file |-> f]
        /\ working' = [working EXCEPT ![f] = Absent]
        /\ UNCHANGED <<last, seen>>
     \/ /\ ~ToBeReset(f) /\ Return(f, "in", FALSE, Absent)
        /\ seen' = seen \cup {f} /\ UNCHANGED <<busy, working>>
  /\ UNCHANGED <<reset, version, base, crashes>>

(* ... and otherwise, or to reset it, copy_source_to_working, which begins  *)
(* by removing the working copy                                             *)
CopyRemove(f) ==
  /\ busy = Calm /\ Control[f].reference /\ ~Control[f].read_only
  /\ ToBeReset(f) \/ FALSE \in OpenResults(working[f])
  /\ working' = [working EXCEPT ![f] = Absent]
  /\ busy' = [step |-> "copy", file |-> f]
  /\ UNCHANGED <<reset, last, version, base, seen, crashes>>

(* The copy, and opening what it made; a copy that fails may leave a part.  *)
(* remember_timestamp has no counterpart here                               *)
CopyFails(f) ==
  /\ busy = [step |-> "copy", file |-> f]
  /\ world.faulty \/ Source(f) = Absent
  /\ \E c \in IF Source(f) = Absent THEN {Absent} ELSE {Absent, Torn} :
       working' = [working EXCEPT ![f] = c]
  /\ Return(f, "in", FALSE, Absent)
  /\ busy' = Calm /\ seen' = seen \cup {f}
  /\ UNCHANGED <<reset, version, base, crashes>>

CopyShipped(f) ==
  /\ busy = [step |-> "copy", file |-> f] /\ Source(f) = Shipped
  /\ working' = [working EXCEPT ![f] = Shipped]
  /\ reset' = reset \ Control[f].reset_mask
  /\ \E ok \in OpenResults(Shipped) : Return(f, "in", ok, Shipped)
  /\ busy' = Calm /\ seen' = seen \cup {f}
  /\ UNCHANGED <<version, base, crashes>>

(* get_file(out): opening the stream empties the file                       *)
OpenToWrite(f) ==
  /\ busy = Calm /\ ~Control[f].read_only
  /\ world.readsFirst => f \in seen
  /\ version < MaxVersion
  /\ working' = [working EXCEPT ![f] = Torn]
  /\ busy' = [step |-> "write", file |-> f]
  /\ Return(f, "out", TRUE, Absent)
  /\ UNCHANGED <<reset, version, base, seen, crashes>>

WriteRefused(f) ==
  /\ busy = Calm
  /\ Control[f].read_only \/ world.faulty
  /\ Return(f, "out", FALSE, Absent)
  /\ UNCHANGED <<working, reset, busy, version, base, seen, crashes>>

(* The application has written the file and closed it                       *)
Written(f) ==
  /\ busy = [step |-> "write", file |-> f]
  /\ version' = version + 1
  /\ working' = [working EXCEPT ![f] = version']
  /\ busy' = Calm
  /\ UNCHANGED <<reset, last, base, seen, crashes>>

(* The program is killed, anywhere, and started again; the command line     *)
(* says what to reset                                                       *)
Restart ==
  /\ crashes < MaxCrashes /\ crashes' = crashes + 1
  /\ \/ /\ busy.step = "copy"
        /\ \E c \in {Absent, Torn} : working' = [working EXCEPT ![busy.file] = c]
     \/ busy.step # "copy" /\ UNCHANGED working
  /\ busy' = Calm /\ base' = version /\ seen' = {}
  /\ reset' \in SUBSET Bits
  /\ last' = [f \in Files |-> Nobody]
  /\ UNCHANGED version

FileStep(f) ==
  \/ ReadShipped(f) \/ ReadOwn(f) \/ ReadWorking(f)
  \/ CopyRemove(f) \/ CopyFails(f) \/ CopyShipped(f)
  \/ OpenToWrite(f) \/ WriteRefused(f) \/ Written(f)

FileNext == ((\E f \in world.uses : FileStep(f)) \/ Restart) /\ UNCHANGED world

FileSpec == FileInit /\ [][FileNext]_<<world, fileVars>>

-----------------------------------------------------------------------------
FileTypeOK ==
  /\ working \in [Files -> Contents] /\ reset \subseteq Bits
  /\ busy = Calm \/ busy \in [step : {"copy", "write"}, file : Files]
  /\ last \in [Files -> [op : {"none", "in", "reset", "out"}, ok : BOOLEAN, read : Contents]]
  /\ version \in 0..MaxVersion /\ base \in 0..version
  /\ seen \subseteq Files /\ crashes \in 0..MaxCrashes

Owned(f) == {v \in 1..version : working[f] = v}

(* As long as files open: what the application has written is only thrown   *)
(* away by the application writing the file again or because the user asked *)
(* for a reset of it; and a reset is done once: what has been written since *)
(* the program started survives every later get_file, if the application    *)
(* reads each file before it writes it                                      *)
UserDataIsKept ==
  [][\A f \in Files :
       ~world.faulty /\ working'[f] # working[f] /\ busy' # [step |-> "write", file |-> f] =>
         /\ Owned(f) # {} => ToBeReset(f)
         /\ world.readsFirst => working[f] <= base]_fileVars

(* A shipped file can always be read, whatever a kill has left behind: the  *)
(* file is there, and either shipped, or written, or what a kill cut short  *)
ShippedAlwaysOpens ==
  \A f \in Shipped0 : ~world.faulty /\ Control[f].reference /\ last[f].op = "in" =>
    last[f].ok /\ (last[f].read = Torn => crashes > 0)
=============================================================================
