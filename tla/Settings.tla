------------------------------ MODULE Settings ------------------------------
(***************************************************************************)
(* zc_settings (src/zc_settings.cpp) on top of FileHolder: the settings    *)
(* file as a tree of JSON that all zc_settings objects of a program share. *)
(* The first object reads the file, every object with no parent writes it  *)
(* when it is destroyed, and the last of them gives the tree up.           *)
(*                                                                         *)
(* A tree is abstracted to the number of the last change made to it; what  *)
(* an object of a group points to, to the tree it was looked up in and     *)
(* whether the node is still there.                                        *)
(***************************************************************************)
EXTENDS FileHolder

CONSTANTS Settings_,    (* the type FILE_SETTINGS                            *)
          Roots,        (* objects made by zc_settings()                     *)
          Groups,       (* objects made by zc_settings(parent, name): each   *)
                        (* the group of its own name                         *)
          MaxLoads,     (* bound: trees read                                 *)
          Nested        (* the application destroys a group's object before  *)
                        (* its parent's, and clears no tree under a group    *)

(* A world also says how many times the settings are read.                  *)

ASSUME SettingsAssumption ==
  /\ Settings_ \in Files /\ ~Control[Settings_].reference /\ ~Control[Settings_].read_only
  /\ "none" \notin Roots
  /\ MaxLoads \in Nat \ {0} /\ Nested \in BOOLEAN
  /\ \A w \in Worlds : w.loads \in 0..MaxLoads

VARIABLES alive,        (* roots that exist; attachments_ is their number    *)
          loads,        (* trees read so far: all_settings_ is the last one, *)
                        (* or null when alive is empty                       *)
          data,         (* what is in that tree: the last change made to it  *)
          present,      (* groups the tree has                               *)
          handle,       (* what each group's object is: none, or its parent  *)
                        (* with the tree it points into and whether the node *)
                        (* it points to is there                             *)
          changes,      (* changes made so far                               *)
          written,      (* changes each version of the file holds            *)
          leaving,      (* the root whose destructor is running              *)
          before        (* history: changes made before the last kill        *)

settingsVars == <<alive, loads, data, present, handle, changes, written, leaving, before>>
settingsAllVars == <<world, fileVars, settingsVars>>

NoObject == [parent |-> "none"]
NoRoot == "none"

(* The tree a version of the file reads as: an empty one if it is damaged   *)
Held(content) == IF content \in 1..version THEN written[content] ELSE [data |-> 0, present |-> {}]

SettingsInit ==
  /\ FileInit
  /\ alive = {} /\ loads = 0 /\ data = 0 /\ present = {}
  /\ handle = [g \in Groups |-> NoObject]
  /\ changes = 0 /\ written = [v \in 1..MaxVersion |-> [data |-> 0, present |-> {}]]
  /\ leaving = NoRoot /\ before = 0

-----------------------------------------------------------------------------
(* zc_settings(): the first one reads the file                              *)
OpenFirst(r) ==
  /\ alive = {} /\ alive' = {r} /\ loads < world.loads
  /\ ReadOwn(Settings_)
  /\ LET got == last'[Settings_]
         tree == Held(IF got.ok THEN got.read ELSE Absent)
     IN  data' = tree.data /\ present' = tree.present
  /\ loads' = loads + 1
  /\ UNCHANGED <<handle, changes, written, leaving, before>>

OpenNext(r) ==
  /\ busy = Calm
  /\ alive # {} /\ r \notin alive /\ alive' = alive \cup {r}
  /\ UNCHANGED <<fileVars, loads, data, present, handle, changes, written, leaving, before>>

(* zc_settings(parent, name): finds the group or makes it                   *)
OpenGroup(g, r) ==
  /\ busy = Calm
  /\ r \in alive /\ handle[g] = NoObject
  /\ present' = present \cup {g}
  /\ handle' = [handle EXCEPT ![g] = [parent |-> r, tree |-> loads, there |-> TRUE]]
  /\ UNCHANGED <<fileVars, alive, loads, data, changes, written, leaving, before>>

CloseGroup(g) ==
  /\ busy = Calm
  /\ handle[g] # NoObject /\ handle' = [handle EXCEPT ![g] = NoObject]
  /\ UNCHANGED <<fileVars, alive, loads, data, present, changes, written, leaving, before>>

Open == {g \in Groups : handle[g] # NoObject}
InTree(g) == alive # {} /\ handle[g].tree = loads /\ handle[g].there

(* set, through a root or through a group's object: into the tree the       *)
(* object points to, which need not be the one that will be written         *)
SetRoot(r) ==
  /\ busy = Calm /\ r \in alive /\ changes < MaxVersion
  /\ changes' = changes + 1 /\ data' = changes'
  /\ UNCHANGED <<fileVars, alive, loads, present, handle, written, leaving, before>>

SetGroup(g) ==
  /\ busy = Calm /\ g \in Open /\ changes < MaxVersion
  /\ changes' = changes + 1
  /\ data' = IF InTree(g) THEN changes' ELSE data
  /\ UNCHANGED <<fileVars, alive, loads, present, handle, written, leaving, before>>

(* clear() empties the object's own node: the nodes below are gone          *)
ClearRoot(r) ==
  /\ busy = Calm /\ r \in alive /\ changes < MaxVersion
  /\ Nested => Open = {}
  /\ changes' = changes + 1 /\ data' = changes' /\ present' = {}
  /\ handle' = [g \in Groups |->
                  IF g \in Open THEN [handle[g] EXCEPT !.there = FALSE] ELSE NoObject]
  /\ UNCHANGED <<fileVars, alive, loads, written, leaving, before>>

(* ... of a group's object: the group itself stays where it is              *)
ClearGroup(g) ==
  /\ busy = Calm /\ g \in Open /\ changes < MaxVersion
  /\ changes' = changes + 1
  /\ data' = IF InTree(g) THEN changes' ELSE data
  /\ UNCHANGED <<fileVars, alive, loads, present, handle, written, leaving, before>>

(* flush(), of a root or of a group through its parent: empties the file    *)
(* and writes the tree                                                      *)
FlushBegin(r) ==
  /\ r \in alive /\ OpenToWrite(Settings_)
  /\ UNCHANGED settingsVars

FlushEnd ==
  /\ Written(Settings_)
  /\ written' = [written EXCEPT ![version'] = [data |-> data, present |-> present]]
  /\ alive' = alive \ {leaving} /\ leaving' = NoRoot
  /\ UNCHANGED <<loads, data, present, handle, changes, before>>

(* ... which goes nowhere when the file does not open                       *)
FlushNowhere(r) ==
  /\ r \in alive /\ WriteRefused(Settings_)
  /\ UNCHANGED settingsVars

Leaves(r) == r \in alive /\ (Nested => \A g \in Open : handle[g].parent # r)

(* mutant: the destructor does not flush                                    *)
CloseRootUnwritten(r) ==
  /\ busy = Calm /\ Leaves(r) /\ alive' = alive \ {r}
  /\ UNCHANGED <<fileVars, loads, data, present, handle, changes, written, leaving, before>>

(* ~zc_settings: flush(), and one attachment less                           *)
CloseRoot(r) ==
  /\ Leaves(r) /\ OpenToWrite(Settings_) /\ leaving' = r
  /\ UNCHANGED <<alive, loads, data, present, handle, changes, written, before>>

CloseRootNowhere(r) ==
  /\ Leaves(r) /\ WriteRefused(Settings_) /\ alive' = alive \ {r}
  /\ UNCHANGED <<loads, data, present, handle, changes, written, leaving, before>>

(* A kill takes all objects with it                                         *)
Killed ==
  /\ Restart
  /\ alive' = {} /\ leaving' = NoRoot /\ handle' = [g \in Groups |-> NoObject]
  /\ before' = changes
  /\ UNCHANGED <<loads, data, present, changes, written>>

(* The application's other files                                            *)
OtherFile == (\E f \in world.uses \ {Settings_} : FileStep(f)) /\ UNCHANGED settingsVars

RootStep(r) ==
  \/ OpenFirst(r) \/ OpenNext(r) \/ SetRoot(r) \/ ClearRoot(r)
  \/ FlushBegin(r) \/ FlushNowhere(r) \/ CloseRoot(r) \/ CloseRootNowhere(r)

GroupStep(g) ==
  CloseGroup(g) \/ SetGroup(g) \/ ClearGroup(g) \/ \E r \in Roots : OpenGroup(g, r)

SettingsNext ==
  /\ \/ \E r \in Roots : RootStep(r)
     \/ \E g \in Groups : GroupStep(g)
     \/ FlushEnd \/ Killed \/ OtherFile
  /\ UNCHANGED world

SettingsSpec == SettingsInit /\ [][SettingsNext]_settingsAllVars

-----------------------------------------------------------------------------
SettingsTypeOK ==
  /\ FileTypeOK
  /\ alive \subseteq Roots /\ leaving \in alive \cup {NoRoot} /\ loads \in 0..MaxLoads
  /\ data \in 0..changes /\ changes \in 0..MaxVersion /\ before \in 0..changes
  /\ present \subseteq Groups
  /\ \A g \in Open : handle[g].parent \in Roots /\ handle[g].tree \in 1..loads

(* No object of a group outlives the tree it points into, whose values      *)
(* would go to a tree nobody writes; and when a program has ended its       *)
(* settings, the file holds every change made since it started, through     *)
(* whichever object and in whatever order the objects were destroyed: only  *)
(* a kill, or a file that does not open, loses some                         *)
LastChangeIsWritten ==
  /\ \A g \in Open : InTree(g)
  /\ ~world.faulty /\ alive = {} /\ changes > before =>
       working[Settings_] \in 1..version /\ written[working[Settings_]].data = changes
=============================================================================
