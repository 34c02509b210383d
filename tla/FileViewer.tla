----------------------------- MODULE FileViewer -----------------------------
(***************************************************************************)
(* zc_file_viewer (src/zc_file_viewer.cpp): an editor window for a file    *)
(* (VT_FILE) or for a string of the application's (VT_DATA). load_file     *)
(* asks a question when there are unsaved edits: the dialogue is modal, so *)
(* nothing else of the viewer runs until it is answered, but the edits     *)
(* have to be where they were when the question was asked. A file may fail *)
(* to open, and reading or writing it may stop part way: what has arrived  *)
(* by then is nothing, or a text of its own.                               *)
(***************************************************************************)
EXTENDS Integers

CONSTANTS Names,        (* files                                             *)
          FilesMayFail, (* loadfile() and savefile() may return 1 (the file  *)
                        (* does not open) or 2 (not all of it)               *)
          MaxEdits      (* bound: texts typed, supplied or cut short         *)

ASSUME ViewerAssumption ==
  /\ FilesMayFail \in BOOLEAN /\ MaxEdits \in Nat \ {0}

NoName == ""
NoQuestion == "none"
Empty == 0              (* the text of an empty buffer, and of a file that   *)
                        (* is not there                                      *)

VARIABLE type           (* rigid: viewer_type_                               *)

VARIABLES disk,         (* the text of each file                             *)
          store,        (* *data_, the string of a VT_DATA viewer            *)
          buffer,       (* the text in the editor                            *)
          filename,     (* filename_                                         *)
          dirty,        (* dirty_                                            *)
          asking,       (* the file load_file is asking the question for, or *)
                        (* NoQuestion                                        *)
          reloading,    (* ... on behalf of the Reload button                *)
          edits,        (* texts so far                                      *)
          origin,       (* history: the file load_file was last called for   *)
          entire        (* history: that file was read whole, and has been   *)
                        (* since whenever it was written                     *)

viewerVars == <<type, disk, store, buffer, filename, dirty, asking, reloading, edits, origin, entire>>

ViewerInit ==
  /\ type \in {"VT_FILE", "VT_DATA"}
  /\ disk \in [Names -> {Empty, 1}] /\ store = Empty /\ buffer = Empty
  /\ filename = NoName /\ dirty = FALSE /\ asking = NoQuestion /\ reloading = FALSE
  /\ edits = 1 /\ origin = NoName /\ entire = TRUE

Idle == asking = NoQuestion

-----------------------------------------------------------------------------
(* The user types, Fl_Text_Buffer calls cb_modified                         *)
Edit ==
  /\ Idle /\ edits < MaxEdits
  /\ edits' = edits + 1 /\ buffer' = edits' /\ dirty' = TRUE
  /\ UNCHANGED <<disk, store, filename, asking, reloading, origin, entire>>

(* What may become of a text that is read or written part way               *)
Pieces(used) == {[text |-> Empty, used |-> used]} \cup
               IF used < MaxEdits THEN {[text |-> used + 1, used |-> used + 1]} ELSE {}

(* What savefile may return, and what it leaves in the file                 *)
Saves ==
  LET Result(n, text, used) ==
        [result |-> n, files |-> [disk EXCEPT ![filename] = text], used |-> used]
      notOpened == [result |-> 1, files |-> disk, used |-> edits]
  IN  IF filename = NoName THEN {notOpened}
      ELSE {Result(0, buffer, edits)} \cup
           IF FilesMayFail THEN {notOpened} \cup {Result(2, p.text, p.used) : p \in Pieces(edits)} ELSE {}

(* dirty_ is reset only if all of it was written                            *)
SavedAs(s) ==
  /\ disk' = s.files /\ edits' = s.used /\ dirty' = (dirty /\ s.result # 0)
  /\ entire' = (s.result = 0 \/ (s.result = 1 /\ entire))

(* The Save button or Ctrl-S, which works whether the button does or not    *)
Save ==
  /\ Idle
  /\ \/ type = "VT_FILE" /\ UNCHANGED store /\ \E s \in Saves : SavedAs(s)
     \/ type = "VT_DATA" /\ store' = buffer /\ dirty' = FALSE /\ UNCHANGED <<disk, edits, entire>>
  /\ UNCHANGED <<buffer, filename, asking, reloading, origin>>

(* loadfile empties the buffer and reads the file. Whatever it returns,     *)
(* load_file takes the file's name and resets dirty_                        *)
Loads(name, files, used) ==
  LET Result(n, text, u) == [result |-> n, text |-> text, used |-> u]
      notOpened == Result(1, Empty, used)
  IN  IF name = NoName THEN {notOpened}
      ELSE {Result(0, files[name], used)} \cup
           IF FilesMayFail THEN {notOpened} \cup {Result(2, p.text, p.used) : p \in Pieces(used)} ELSE {}

Loaded(name, files, used) ==
  /\ \E l \in Loads(name, files, used) : buffer' = l.text /\ edits' = l.used /\ entire' = (l.result = 0)
  /\ filename' = name /\ origin' = name /\ dirty' = FALSE
  /\ asking' = NoQuestion /\ reloading' = FALSE

(* mutant: the name is changed before the question                          *)
LoadAsksLate(name) ==
  /\ Idle /\ type = "VT_FILE" /\ dirty
  /\ asking' = name /\ filename' = name
  /\ UNCHANGED <<disk, store, buffer, dirty, reloading, edits, origin, entire>>

LoadAsks(name) ==
  /\ Idle /\ type = "VT_FILE" /\ dirty
  /\ asking' = name
  /\ UNCHANGED <<disk, store, buffer, filename, dirty, reloading, edits, origin, entire>>

LoadNow(name) ==
  /\ Idle /\ type = "VT_FILE" /\ ~dirty
  /\ Loaded(name, disk, edits) /\ UNCHANGED <<disk, store>>

(* The question is answered, and the file loaded either way, also when      *)
(* saving has failed                                                        *)
AnswerSave ==
  /\ ~Idle
  /\ \E s \in Saves : disk' = s.files /\ Loaded(asking, s.files, s.used)
  /\ UNCHANGED store

AnswerCancel ==
  /\ ~Idle /\ Loaded(asking, disk, edits)
  /\ UNCHANGED <<disk, store>>

(* The Reload button works while there are edits. The buffer is emptied     *)
(* first, which cb_modified takes for one more edit                         *)
Reload ==
  /\ Idle /\ type = "VT_FILE" /\ dirty
  /\ buffer' = Empty /\ asking' = filename /\ reloading' = TRUE
  /\ UNCHANGED <<disk, store, filename, dirty, edits, origin, entire>>

Recover ==
  /\ Idle /\ type = "VT_DATA" /\ dirty
  /\ buffer' = store /\ dirty' = FALSE
  /\ UNCHANGED <<disk, store, filename, asking, reloading, edits, origin, entire>>

(* set_data: another string of the application's, whatever was being edited *)
SetData ==
  /\ Idle /\ type = "VT_DATA" /\ edits < MaxEdits
  /\ edits' = edits + 1 /\ store' = edits' /\ buffer' = edits' /\ dirty' = FALSE
  /\ UNCHANGED <<disk, filename, asking, reloading, origin, entire>>

ViewerNext ==
  /\ \/ Edit \/ Save \/ AnswerSave \/ AnswerCancel \/ Reload \/ Recover \/ SetData
     \/ \E name \in Names : LoadAsks(name) \/ LoadNow(name)
  /\ UNCHANGED type

ViewerSpec == ViewerInit /\ [][ViewerNext]_viewerVars

-----------------------------------------------------------------------------
ViewerTypeOK ==
  /\ disk \in [Names -> 0..edits] /\ store \in 0..edits /\ buffer \in 0..edits
  /\ {filename, origin} \subseteq Names \cup {NoName}
  /\ asking \in Names \cup {NoName, NoQuestion}
  /\ dirty \in BOOLEAN /\ reloading \in BOOLEAN /\ entire \in BOOLEAN /\ edits \in 1..MaxEdits
  /\ ~Idle => type = "VT_FILE" /\ dirty

StoredText == IF type = "VT_DATA" THEN store ELSE IF filename = NoName THEN Empty ELSE disk[filename]

CleanIsStored == ~dirty /\ (type = "VT_FILE" => entire) => buffer = StoredText

(* Only the file that the text in the editor was loaded from is ever        *)
(* written, also when it is saved to make room for another file, and with   *)
(* that text or as much of it as was written; and while is_dirty ("File has *)
(* been changed and not saved") is false, what the editor shows is what is  *)
(* stored, whichever question was answered how, unless the file could not   *)
(* be read or written whole since it was last both                          *)
SavedWhereItCameFrom ==
  [][/\ CleanIsStored'
     /\ \A n \in Names : disk'[n] # disk[n] =>
          n = origin /\ disk'[n] \in {buffer, Empty} \cup (edits + 1)..edits']_viewerVars

(* cb_reload "loads file again without saving any edits": the file is not   *)
(* changed by reloading it                                                  *)
ReloadKeepsTheFile == [][reloading => disk' = disk]_viewerVars
=============================================================================
