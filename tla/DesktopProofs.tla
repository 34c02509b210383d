----------------------------- MODULE DesktopProofs -----------------------------
(***************************************************************************)
(* Theorems about four parts of a desktop application that share no state  *)
(* but the main thread: SavedWhereItCameFrom of the file viewer, for any   *)
(* files, any number of edits, and whether files may fail to open, or to be*)
(* read or written to the end; CalledEveryPeriod of the ticker, for any    *)
(* register, any intervals and any width of the count, as long as no       *)
(* callback removes an entry, and for any callbacks when its iterator is   *)
(* lost;                                                                   *)
(* LogsAreKept of the status messages, for any number of old logs,         *)
(* messages, nested calls, runs and kills, and BannerIsTrue of the banner  *)
(* they are shown in, for any number of messages, choices and nested calls;*)
(* and CalendarIsTrue of the calendar, for any year and any text.          *)
(***************************************************************************)
EXTENDS FileViewer, Ticker, Status, Calendar, FiniteSetTheorems, SequenceTheorems, WellFoundedInduction, TLAPS

-----------------------------------------------------------------------------
(* The file viewer.                                                        *)

(* What the proof needs besides CleanIsStored: the text in the editor is    *)
(* from the file that filename_ names, and a question is only asked of a    *)
(* file's viewer, whose edits are still there                               *)
ViewerInv ==
  /\ DOMAIN disk = Names /\ dirty \in BOOLEAN /\ entire \in BOOLEAN /\ edits \in Nat
  /\ filename \in Names \cup {NoName} /\ origin = filename
  /\ asking \in Names \cup {NoName, NoQuestion}
  /\ ~Idle => type = "VT_FILE" /\ dirty
  /\ CleanIsStored

(* What a step may do to the files and the text                             *)
StoredFromEditor ==
  /\ CleanIsStored'
  /\ \A n \in Names : disk'[n] # disk[n] =>
       n = origin /\ disk'[n] \in {buffer, Empty} \cup (edits + 1)..edits'

LEMMA ViewerInvInit == ViewerInit => ViewerInv
<1> SUFFICES ASSUME ViewerInit PROVE ViewerInv
  OBVIOUS
<1>1. /\ DOMAIN disk = Names /\ edits = 1 /\ buffer = Empty /\ store = Empty
      /\ filename = NoName /\ origin = NoName /\ asking = NoQuestion
  BY DEF ViewerInit
<1>2. dirty \in BOOLEAN /\ entire \in BOOLEAN
  BY DEF ViewerInit
<1>3. StoredText = Empty
  BY <1>1 DEF StoredText
<1> QED BY <1>1, <1>2, <1>3 DEF ViewerInv, Idle, CleanIsStored

(* A text cut short is nothing or a new one                                 *)
LEMMA PiecesAre ==
  ASSUME NEW used \in Nat, NEW p \in Pieces(used)
  PROVE  p.used \in Nat /\ used <= p.used /\ p.text \in {Empty} \cup (used + 1)..p.used
BY DEF Pieces, Empty

LEMMA SavesAre ==
  ASSUME DOMAIN disk = Names, filename \in Names \cup {NoName}, edits \in Nat, NEW s \in Saves
  PROVE  /\ s.result \in 0..2 /\ s.used \in Nat /\ edits <= s.used
         /\ DOMAIN s.files = Names
         /\ \A n \in Names : s.files[n] # disk[n] =>
              n = filename /\ s.files[n] \in {buffer, Empty} \cup (edits + 1)..s.used
         /\ s.result = 0 => filename \in Names /\ filename # NoName /\ s.files[filename] = buffer
         /\ s.result = 1 => s.files = disk
<1> DEFINE Result(n, text, used) ==
             [result |-> n, files |-> [disk EXCEPT ![filename] = text], used |-> used]
           notOpened == [result |-> 1, files |-> disk, used |-> edits]
<1>1. \/ s = notOpened
      \/ filename # NoName /\ s = Result(0, buffer, edits)
      \/ filename # NoName /\ \E p \in Pieces(edits) : s = Result(2, p.text, p.used)
  BY DEF Saves
<1>2. CASE s = notOpened
  <2>1. s.result = 1 /\ s.used = edits /\ s.files = disk
    BY <1>2
  <2> QED BY <2>1
<1>3. CASE filename # NoName /\ s = Result(0, buffer, edits)
  <2>1. s.result = 0 /\ s.used = edits /\ s.files = [disk EXCEPT ![filename] = buffer]
    BY <1>3
  <2>2. filename \in Names
    BY <1>3
  <2> QED BY <1>3, <2>1, <2>2
<1>4. ASSUME filename # NoName, NEW p \in Pieces(edits), s = Result(2, p.text, p.used)
      PROVE  /\ s.result = 2 /\ s.used \in Nat /\ edits <= s.used
             /\ DOMAIN s.files = Names
             /\ \A n \in Names : s.files[n] # disk[n] =>
                  n = filename /\ s.files[n] \in {buffer, Empty} \cup (edits + 1)..s.used
  <2>1. p.used \in Nat /\ edits <= p.used /\ p.text \in {Empty} \cup (edits + 1)..p.used
    BY PiecesAre
  <2>2. s.result = 2 /\ s.used = p.used /\ s.files = [disk EXCEPT ![filename] = p.text]
    BY <1>4
  <2> QED BY <1>4, <2>1, <2>2
<1>5. CASE filename # NoName /\ \E p \in Pieces(edits) : s = Result(2, p.text, p.used)
  <2>1. PICK p \in Pieces(edits) : s = Result(2, p.text, p.used)
    BY <1>5
  <2>2. s.result = 2 => s.result # 0 /\ s.result # 1 /\ s.result \in 0..2
    OBVIOUS
  <2> HIDE DEF Result
  <2> QED BY <1>4, <1>5, <2>1, <2>2
<1> HIDE DEF Result, notOpened
<1> QED BY <1>1, <1>2, <1>3, <1>5

LEMMA LoadsAre ==
  ASSUME NEW name \in Names \cup {NoName}, NEW fs, NEW used \in Nat, NEW l \in Loads(name, fs, used)
  PROVE  /\ l.result \in 0..2 /\ l.used \in Nat /\ used <= l.used
         /\ l.result = 0 => name # NoName /\ l.text = fs[name]
<1> DEFINE Result(n, text, u) == [result |-> n, text |-> text, used |-> u]
<1>1. \/ l = Result(1, Empty, used)
      \/ name # NoName /\ l = Result(0, fs[name], used)
      \/ \E p \in Pieces(used) : l = Result(2, p.text, p.used)
  BY DEF Loads
<1>2. ASSUME NEW p \in Pieces(used), l = Result(2, p.text, p.used)
      PROVE  l.result = 2 /\ l.used \in Nat /\ used <= l.used
  BY <1>2, PiecesAre
<1> QED BY <1>1, <1>2

LEMMA LoadedIsStored ==
  ASSUME NEW name \in Names \cup {NoName}, NEW fs, DOMAIN fs = Names, NEW used \in Nat,
         type = "VT_FILE", type' = type, disk' = fs, Loaded(name, fs, used)
  PROVE  ViewerInv' /\ edits' \in Nat /\ used <= edits'
<1>1. PICK l \in Loads(name, fs, used) : buffer' = l.text /\ edits' = l.used /\ entire' = (l.result = 0)
  BY DEF Loaded
<1>2. /\ l.result \in 0..2 /\ l.used \in Nat /\ used <= l.used
      /\ l.result = 0 => name # NoName /\ l.text = fs[name]
  BY LoadsAre
<1>3. /\ filename' = name /\ origin' = name /\ dirty' = FALSE
      /\ asking' = NoQuestion /\ reloading' = FALSE
  BY DEF Loaded
<1>4. CleanIsStored'
  BY <1>1, <1>2, <1>3 DEF CleanIsStored, StoredText
<1> QED BY <1>1, <1>2, <1>3, <1>4 DEF ViewerInv, Idle

LEMMA SaveStep == ASSUME ViewerInv, Save, type' = type PROVE ViewerInv' /\ StoredFromEditor
<1>1. CASE type = "VT_FILE" /\ \E s \in Saves : SavedAs(s)
  <2>1. PICK s \in Saves : SavedAs(s)
    BY <1>1
  <2>2. /\ DOMAIN disk = Names /\ filename \in Names \cup {NoName}
        /\ origin = filename /\ dirty \in BOOLEAN /\ entire \in BOOLEAN /\ edits \in Nat
    BY DEF ViewerInv
  <2>3. /\ s.result \in 0..2 /\ s.used \in Nat /\ edits <= s.used
        /\ DOMAIN s.files = Names
        /\ \A n \in Names : s.files[n] # disk[n] =>
             n = filename /\ s.files[n] \in {buffer, Empty} \cup (edits + 1)..s.used
        /\ s.result = 0 => filename \in Names /\ filename # NoName /\ s.files[filename] = buffer
        /\ s.result = 1 => s.files = disk
    BY <2>2, SavesAre
  <2>4. UNCHANGED <<buffer, filename, asking, origin>> /\ Idle
    BY DEF Save
  <2>5. disk' = s.files /\ edits' = s.used /\ dirty' = (dirty /\ s.result # 0)
    BY <2>1 DEF SavedAs
  <2>6. /\ entire' \in BOOLEAN
        /\ s.result = 1 => (entire' <=> entire)
        /\ s.result = 2 => ~entire'
    <3>1. entire' = (s.result = 0 \/ (s.result = 1 /\ entire))
      BY <2>1 DEF SavedAs
    <3>2. (s.result = 1 => s.result # 0) /\ (s.result = 2 => s.result # 0 /\ s.result # 1)
      OBVIOUS
    <3> QED BY <3>1, <3>2, Zenon
  <2>7. CleanIsStored'
    <3>1. CASE s.result = 0
      BY <1>1, <2>3, <2>4, <2>5, <3>1 DEF CleanIsStored, StoredText
    <3>2. CASE s.result = 1
      BY <1>1, <2>2, <2>3, <2>4, <2>5, <2>6, <3>2 DEF CleanIsStored, StoredText, ViewerInv
    <3>3. CASE s.result = 2
      BY <1>1, <2>6, <3>3 DEF CleanIsStored
    <3> QED BY <2>3, <3>1, <3>2, <3>3
  <2>8. dirty' \in BOOLEAN /\ entire' \in BOOLEAN
    BY <2>5, <2>6, Zenon
  <2>9. \A n \in Names : disk'[n] # disk[n] =>
          n = origin /\ disk'[n] \in {buffer, Empty} \cup (edits + 1)..edits'
    BY <2>2, <2>3, <2>5
  <2> QED BY <2>2, <2>3, <2>4, <2>5, <2>7, <2>8, <2>9 DEF StoredFromEditor, ViewerInv, Idle
<1>2. CASE type = "VT_DATA" /\ store' = buffer /\ dirty' = FALSE /\ UNCHANGED <<disk, edits, entire>>
  BY <1>2 DEF Save, ViewerInv, StoredFromEditor, CleanIsStored, StoredText, Idle
<1> QED BY <1>1, <1>2 DEF Save

LEMMA AnswerSaveStep == ASSUME ViewerInv, AnswerSave, type' = type PROVE ViewerInv' /\ StoredFromEditor
<1>1. PICK s \in Saves : disk' = s.files /\ Loaded(asking, s.files, s.used)
  BY DEF AnswerSave
<1>2. /\ DOMAIN disk = Names /\ filename \in Names \cup {NoName} /\ origin = filename /\ edits \in Nat
      /\ asking \in Names \cup {NoName} /\ type = "VT_FILE"
  BY DEF AnswerSave, ViewerInv, Idle
<1>3. /\ s.used \in Nat /\ DOMAIN s.files = Names
      /\ \A n \in Names : s.files[n] # disk[n] =>
           n = filename /\ s.files[n] \in {buffer, Empty} \cup (edits + 1)..s.used
  BY <1>2, SavesAre
<1>4. ViewerInv' /\ edits' \in Nat /\ s.used <= edits'
  BY <1>1, <1>2, <1>3, LoadedIsStored
<1>5. (edits + 1)..s.used \subseteq (edits + 1)..edits'
  BY <1>2, <1>3, <1>4
<1> QED BY <1>1, <1>2, <1>3, <1>4, <1>5 DEF StoredFromEditor, ViewerInv

LEMMA ViewerInvStep == ViewerInv /\ ViewerNext => ViewerInv' /\ StoredFromEditor
<1> SUFFICES ASSUME ViewerInv, ViewerNext PROVE ViewerInv' /\ StoredFromEditor
  OBVIOUS
<1>0. type' = type
  BY DEF ViewerNext
<1>1. CASE Edit
  BY <1>0, <1>1 DEF Edit, ViewerInv, StoredFromEditor, CleanIsStored, Idle
<1>2. CASE Save
  BY <1>0, <1>2, SaveStep
<1>3. CASE AnswerSave
  BY <1>0, <1>3, AnswerSaveStep
<1>4. CASE AnswerCancel
  <2>1. ViewerInv'
    BY <1>0, <1>4, LoadedIsStored DEF AnswerCancel, ViewerInv, Idle
  <2> QED BY <1>4, <2>1 DEF AnswerCancel, StoredFromEditor, ViewerInv
<1>5. CASE Reload
  BY <1>0, <1>5 DEF Reload, ViewerInv, StoredFromEditor, CleanIsStored, StoredText, Idle
<1>6. CASE Recover
  BY <1>0, <1>6 DEF Recover, ViewerInv, StoredFromEditor, CleanIsStored, StoredText, Idle
<1>7. CASE SetData
  <2>1. /\ type = "VT_DATA" /\ buffer' = store' /\ dirty' = FALSE /\ edits' = edits + 1 /\ Idle
        /\ UNCHANGED <<disk, filename, asking, reloading, origin, entire>>
    BY <1>7 DEF SetData
  <2>2. CleanIsStored'
    BY <1>0, <2>1 DEF CleanIsStored, StoredText
  <2>3. edits' \in Nat
    BY <2>1 DEF ViewerInv
  <2>4. dirty' \in BOOLEAN /\ entire' \in BOOLEAN /\ asking' = NoQuestion
    BY <2>1, Zenon DEF ViewerInv, Idle
  <2> QED BY <1>0, <2>1, <2>2, <2>3, <2>4 DEF ViewerInv, StoredFromEditor, Idle
<1>8. ASSUME NEW name \in Names, LoadAsks(name) PROVE ViewerInv' /\ StoredFromEditor
  BY <1>0, <1>8 DEF LoadAsks, ViewerInv, StoredFromEditor, CleanIsStored, StoredText, Idle
<1>9. ASSUME NEW name \in Names, LoadNow(name) PROVE ViewerInv' /\ StoredFromEditor
  <2>1. ViewerInv'
    BY <1>0, <1>9, LoadedIsStored DEF LoadNow, ViewerInv
  <2> QED BY <1>9, <2>1 DEF LoadNow, StoredFromEditor, ViewerInv
<1> QED BY <1>1, <1>2, <1>3, <1>4, <1>5, <1>6, <1>7, <1>8, <1>9 DEF ViewerNext

(* A save stores the text in the editor, or as much of it as was written,   *)
(* and only in the file it came from, also when a question about the file   *)
(* before was open meanwhile; and what is marked clean is stored, unless    *)
(* the file could not be read or written whole                              *)
THEOREM SavesWhereItCameFrom == ViewerSpec => SavedWhereItCameFrom
<1>1. ViewerInv /\ UNCHANGED viewerVars => ViewerInv'
  BY DEF viewerVars, ViewerInv, CleanIsStored, StoredText, Idle
<1>2. ViewerSpec => []ViewerInv
  BY <1>1, ViewerInvInit, ViewerInvStep, PTL DEF ViewerSpec
<1>3. ViewerInv /\ [ViewerNext]_viewerVars => [StoredFromEditor]_viewerVars
  BY ViewerInvStep
<1> QED BY <1>2, <1>3, PTL DEF ViewerSpec, SavedWhereItCameFrom, StoredFromEditor

(* A text that a save or a load leaves is one of those there have been      *)
LEMMA TextsAreCounted ==
  ASSUME NEW used \in 1..MaxEdits, NEW p \in Pieces(used)
  PROVE  p.used \in used..MaxEdits /\ p.text \in 0..p.used
BY ViewerAssumption DEF Pieces, Empty

LEMMA SavesAreCounted ==
  ASSUME ViewerTypeOK, NEW s \in Saves
  PROVE  s.used \in edits..MaxEdits /\ s.files \in [Names -> 0..s.used]
<1> DEFINE Result(n, text, used) ==
             [result |-> n, files |-> [disk EXCEPT ![filename] = text], used |-> used]
           notOpened == [result |-> 1, files |-> disk, used |-> edits]
<1>1. \/ s = notOpened
      \/ s = Result(0, buffer, edits)
      \/ \E p \in Pieces(edits) : s = Result(2, p.text, p.used)
  BY DEF Saves
<1>2. /\ edits \in 1..MaxEdits /\ MaxEdits \in Nat
      /\ disk \in [Names -> 0..edits] /\ buffer \in 0..edits
  BY ViewerAssumption DEF ViewerTypeOK
<1>3. CASE s = notOpened
  <2>1. s.used = edits /\ s.files = disk
    BY <1>3
  <2>2. edits \in edits..MaxEdits
    BY <1>2
  <2> QED BY <1>2, <2>1, <2>2
<1>4. CASE s = Result(0, buffer, edits)
  <2>1. s.used = edits /\ s.files = [disk EXCEPT ![filename] = buffer]
    BY <1>4
  <2>2. edits \in edits..MaxEdits
    BY <1>2
  <2>3. s.files \in [Names -> 0..edits]
    BY <1>2, <2>1
  <2> QED BY <2>1, <2>2, <2>3
<1>5. ASSUME NEW p \in Pieces(edits), s = Result(2, p.text, p.used)
      PROVE  s.used \in edits..MaxEdits /\ s.files \in [Names -> 0..s.used]
  <2>1. p.used \in edits..MaxEdits /\ p.text \in 0..p.used
    BY <1>2, TextsAreCounted
  <2>2. s.used = p.used /\ s.files = [disk EXCEPT ![filename] = p.text]
    BY <1>5
  <2>3. disk \in [Names -> 0..p.used]
    BY <1>2, <2>1
  <2> QED BY <2>1, <2>2, <2>3
<1> HIDE DEF Result, notOpened
<1> QED BY <1>1, <1>3, <1>4, <1>5

LEMMA LoadsAreCounted ==
  ASSUME NEW name \in Names \cup {NoName}, NEW used \in 1..MaxEdits, NEW fs \in [Names -> 0..used],
         type' = type, disk' = fs, store' = store, store \in 0..used, Loaded(name, fs, used)
  PROVE  ViewerTypeOK'
<1>1. PICK l \in Loads(name, fs, used) : buffer' = l.text /\ edits' = l.used /\ entire' = (l.result = 0)
  BY DEF Loaded
<1>2. l.used \in used..MaxEdits /\ l.text \in 0..l.used
  <2> DEFINE Result(n, text, u) == [result |-> n, text |-> text, used |-> u]
  <2>1. \/ l = Result(1, Empty, used)
        \/ name # NoName /\ l = Result(0, fs[name], used)
        \/ \E p \in Pieces(used) : l = Result(2, p.text, p.used)
    BY DEF Loads
  <2>2. used \in used..MaxEdits /\ Empty \in 0..used
    BY ViewerAssumption DEF Empty
  <2>3. name # NoName => fs[name] \in 0..used
    OBVIOUS
  <2>4. ASSUME NEW p \in Pieces(used), l = Result(2, p.text, p.used)
        PROVE  l.used \in used..MaxEdits /\ l.text \in 0..l.used
    BY <2>4, TextsAreCounted
  <2> QED BY <2>1, <2>2, <2>3, <2>4
<1>3. /\ filename' = name /\ origin' = name /\ dirty' = FALSE
      /\ asking' = NoQuestion /\ reloading' = FALSE
  BY DEF Loaded
<1>4. disk' \in [Names -> 0..edits'] /\ store' \in 0..edits' /\ edits' \in 1..MaxEdits
  BY <1>1, <1>2
<1> QED BY <1>1, <1>2, <1>3, <1>4 DEF ViewerTypeOK, Idle

LEMMA ViewerTypeStep == ViewerTypeOK /\ ViewerNext => ViewerTypeOK'
<1> SUFFICES ASSUME ViewerTypeOK, ViewerNext PROVE ViewerTypeOK'
  OBVIOUS
<1>0. /\ type' = type /\ MaxEdits \in Nat /\ edits \in 1..MaxEdits /\ edits \in Nat
      /\ disk \in [Names -> 0..edits] /\ store \in 0..edits /\ buffer \in 0..edits
      /\ filename \in Names \cup {NoName}
  BY ViewerAssumption DEF ViewerNext, ViewerTypeOK
<1>1. CASE Edit
  BY <1>0, <1>1 DEF Edit, ViewerTypeOK, Idle
<1>2. CASE Save
  <2>1. CASE type = "VT_FILE" /\ UNCHANGED store /\ \E s \in Saves : SavedAs(s)
    <3>1. PICK s \in Saves : SavedAs(s)
      BY <2>1
    <3>2. s.used \in edits..MaxEdits /\ s.files \in [Names -> 0..s.used]
      BY SavesAreCounted
    <3>3. disk' = s.files /\ edits' = s.used
      BY <3>1 DEF SavedAs
    <3>4. dirty' \in BOOLEAN /\ entire' \in BOOLEAN
      BY <3>1 DEF SavedAs
    <3>5. UNCHANGED <<store, buffer, filename, asking, reloading, origin>> /\ Idle
      BY <1>2, <2>1 DEF Save
    <3> QED BY <1>0, <3>2, <3>3, <3>4, <3>5 DEF ViewerTypeOK, Idle
  <2>2. CASE type = "VT_DATA" /\ store' = buffer /\ dirty' = FALSE /\ UNCHANGED <<disk, edits, entire>>
    BY <1>0, <1>2, <2>2 DEF Save, ViewerTypeOK, Idle
  <2> QED BY <1>2, <2>1, <2>2 DEF Save
<1>3. CASE AnswerSave
  <2>1. PICK s \in Saves : disk' = s.files /\ Loaded(asking, s.files, s.used)
    BY <1>3 DEF AnswerSave
  <2>2. s.used \in edits..MaxEdits /\ s.files \in [Names -> 0..s.used]
    BY SavesAreCounted
  <2>3. asking \in Names \cup {NoName} /\ store' = store
    BY <1>3 DEF AnswerSave, ViewerTypeOK, Idle
  <2>4. s.used \in 1..MaxEdits /\ store \in 0..s.used
    BY <1>0, <2>2
  <2> QED BY <1>0, <2>1, <2>2, <2>3, <2>4, LoadsAreCounted
<1>4. CASE AnswerCancel
  <2>1. asking \in Names \cup {NoName} /\ store' = store /\ disk' = disk /\ Loaded(asking, disk, edits)
    BY <1>4 DEF AnswerCancel, ViewerTypeOK, Idle
  <2> QED BY <1>0, <2>1, LoadsAreCounted
<1>5. CASE Reload
  BY <1>0, <1>5 DEF Reload, ViewerTypeOK, Idle, Empty
<1>6. CASE Recover
  BY <1>0, <1>6 DEF Recover, ViewerTypeOK, Idle
<1>7. CASE SetData
  <2>1. /\ edits' = edits + 1 /\ store' = edits' /\ buffer' = edits' /\ dirty' = FALSE
        /\ edits < MaxEdits /\ Idle
        /\ UNCHANGED <<disk, filename, asking, reloading, origin, entire>>
    BY <1>7 DEF SetData
  <2>2. edits' \in 1..MaxEdits /\ store' \in 0..edits' /\ buffer' \in 0..edits'
    BY <1>0, <2>1
  <2>3. disk' \in [Names -> 0..edits']
    BY <1>0, <2>1
  <2> QED BY <1>0, <2>1, <2>2, <2>3 DEF ViewerTypeOK, Idle
<1>8. ASSUME NEW name \in Names, LoadAsks(name) PROVE ViewerTypeOK'
  BY <1>0, <1>8 DEF LoadAsks, ViewerTypeOK, Idle
<1>9. ASSUME NEW name \in Names, LoadNow(name) PROVE ViewerTypeOK'
  <2>1. store' = store /\ disk' = disk /\ Loaded(name, disk, edits)
    BY <1>9 DEF LoadNow
  <2> QED BY <1>0, <2>1, LoadsAreCounted
<1> QED BY <1>1, <1>2, <1>3, <1>4, <1>5, <1>6, <1>7, <1>8, <1>9 DEF ViewerNext

(* The files, the strings and the editor only ever hold texts that were     *)
(* typed, supplied or cut short before, and a question is only open in a    *)
(* file's viewer that has unsaved edits (zc_file_viewer.cpp, load_file)     *)
THEOREM ViewerTypeCorrect == ViewerSpec => []ViewerTypeOK
<1>1. ViewerInit => ViewerTypeOK
  <2> SUFFICES ASSUME ViewerInit PROVE ViewerTypeOK
    OBVIOUS
  <2>1. /\ disk \in [Names -> {Empty, 1}] /\ store = Empty /\ buffer = Empty /\ edits = 1
        /\ filename = NoName /\ origin = NoName /\ asking = NoQuestion
        /\ dirty = FALSE /\ reloading = FALSE /\ entire = TRUE
    BY DEF ViewerInit
  <2>2. disk \in [Names -> 0..edits]
    <3>1. {Empty, 1} = 0..1
      BY DEF Empty
    <3> QED BY <2>1, <3>1
  <2>3. edits \in 1..MaxEdits
    BY <2>1, ViewerAssumption
  <2>4. store \in 0..edits /\ buffer \in 0..edits
    BY <2>1 DEF Empty
  <2> QED BY <2>1, <2>2, <2>3, <2>4 DEF ViewerTypeOK, Idle
<1>2. ViewerTypeOK /\ UNCHANGED viewerVars => ViewerTypeOK'
  BY DEF viewerVars, ViewerTypeOK, Idle
<1> QED BY <1>1, <1>2, ViewerTypeStep, PTL DEF ViewerSpec

-----------------------------------------------------------------------------
(* The ticker. CalledEveryPeriod says something of the moments between two *)
(* ticks only; what carries it through a tick is that an entry waits no    *)
(* longer than the count says it has (AgeInv): idle <= tick_count %        *)
(* period_ds, except for the entries that the loop has not come to and     *)
(* that are due.                                                           *)

(* The entries the loop has yet to look at                                  *)
Ahead(k) == pos # 0 /\ k >= pos

AgeInv ==
  \A k \in DOMAIN tickers : tickers[k].active =>
    \/ tickers[k].idle <= tick_count % tickers[k].period_ds
    \/ /\ Ahead(k) /\ tick_count % tickers[k].period_ds = 0
       /\ tickers[k].idle <= tickers[k].period_ds

ArmedInv == IF pos = 0 THEN armed \/ stopped ELSE ~armed

TickerInv == TickerTypeOK /\ ArmedInv /\ AgeInv

-----------------------------------------------------------------------------
(* Counting one further: the remainder grows by one or starts again         *)
LEMMA MultipleWithin ==
  ASSUME NEW p \in Nat \ {0}, NEW d \in Int, p * d <= p, p * d > 0 - p
  PROVE  d = 0 \/ d = 1
<1>1. CASE d >= 2
  <2>1. p * d >= p * 2
    BY <1>1
  <2> QED BY <2>1
<1>2. CASE d <= 0 - 1
  <2>1. p * d <= p * (0 - 1)
    BY <1>2
  <2> QED BY <2>1
<1> QED BY <1>1, <1>2

LEMMA NextRemainder ==
  ASSUME NEW n \in Nat, NEW p \in Nat \ {0}
  PROVE  (n + 1) % p = 0 \/ (n + 1) % p = (n % p) + 1
<1> DEFINE q0 == n \div p
           r0 == n % p
           q1 == (n + 1) \div p
           r1 == (n + 1) % p
<1>1. /\ n = p * q0 + r0 /\ n + 1 = p * q1 + r1
      /\ q0 \in Int /\ q1 \in Int /\ r0 \in 0..(p - 1) /\ r1 \in 0..(p - 1)
  OBVIOUS
<1> HIDE DEF q0, r0, q1, r1
<1>2. p * q0 \in Int /\ p * q1 \in Int /\ p * (q1 - q0) = p * q1 - p * q0
  BY <1>1
<1>3. p * (q1 - q0) = r0 + 1 - r1
  BY <1>1, <1>2
<1>4. q1 - q0 = 0 \/ q1 - q0 = 1
  <2>1. q1 - q0 \in Int /\ p * (q1 - q0) <= p /\ p * (q1 - q0) > 0 - p
    BY <1>1, <1>3
  <2> QED BY <2>1, MultipleWithin
<1>5. CASE q1 - q0 = 0
  <2>1. p * (q1 - q0) = 0
    BY <1>5
  <2> QED BY <1>1, <1>3, <2>1 DEF r0, r1
<1>6. CASE q1 - q0 = 1
  <2>1. p * (q1 - q0) = p
    BY <1>6
  <2>2. r1 = 0
    BY <1>1, <1>3, <2>1
  <2> QED BY <2>2 DEF r1
<1> QED BY <1>4, <1>5, <1>6

(* ... and where the count wraps, every period starts again                 *)
LEMMA NextCount ==
  ASSUME TickerTypeOK, NEW p \in Nat \ {0}
  PROVE  LET next == (tick_count + 1) % TickCounts
         IN  /\ next \in 0..(TickCounts - 1)
             /\ tick_count % p \in 0..(p - 1)
             /\ next % p = 0 \/ next % p = (tick_count % p) + 1
<1>1. TickCounts \in Nat \ {0} /\ tick_count \in 0..(TickCounts - 1) /\ tick_count \in Nat
  BY TickerAssumption DEF TickerTypeOK
<1>2. (tick_count + 1) % TickCounts = 0 \/ (tick_count + 1) % TickCounts = (tick_count % TickCounts) + 1
  BY <1>1, NextRemainder, Zenon
<1>3. tick_count % TickCounts = tick_count
  BY <1>1
<1>4. (tick_count + 1) % TickCounts = 0 \/ (tick_count + 1) % TickCounts = tick_count + 1
  BY <1>2, <1>3
<1>5. (tick_count + 1) % TickCounts \in 0..(TickCounts - 1) /\ tick_count % p \in 0..(p - 1)
  BY <1>1
<1>6. CASE (tick_count + 1) % TickCounts = 0
  <2>1. 0 % p = 0
    OBVIOUS
  <2> QED BY <1>5, <1>6, <2>1
<1>7. CASE (tick_count + 1) % TickCounts = tick_count + 1
  <2>1. (tick_count + 1) % p = 0 \/ (tick_count + 1) % p = (tick_count % p) + 1
    BY <1>1, NextRemainder, Zenon
  <2> QED BY <1>5, <1>7, <2>1
<1> QED BY <1>4, <1>6, <1>7

-----------------------------------------------------------------------------
(* What the interface can make of the register                              *)
LEMMA FirstIsThere ==
  ASSUME NEW S \in SUBSET Nat, S # {}
  PROVE  First(S) \in S
<1>1. \E k \in S : \A j \in S : ~(<<j, k>> \in OpToRel(<, Nat))
  BY NatLessThanWellFounded, WFMin
<1>2. PICK k \in S : \A j \in S : ~(<<j, k>> \in OpToRel(<, Nat))
  BY <1>1
<1>3. \A j \in S : k <= j
  <2> TAKE j \in S
  <2>1. OpToRel(<, Nat) = {ss \in Nat \X Nat : ss[1] < ss[2]}
    BY DEF OpToRel
  <2>2. ~(j < k)
    BY <1>2, <2>1
  <2> QED BY <2>2
<1> QED BY <1>3 DEF First

(* An entry of ts that waits waited as long, for the same period, before;   *)
(* where it was, unless it has been moved by a removal                      *)
NoOlder(ts, moves) ==
  \A j \in DOMAIN ts : ts[j].active =>
    \/ ts[j].idle = 0
    \/ \E i \in DOMAIN tickers :
         /\ moves \/ i = j
         /\ tickers[i].active /\ ts[j].idle = tickers[i].idle
         /\ ts[j].period_ds = tickers[i].period_ds

LEMMA EntryIsEntry ==
  ASSUME NEW o \in Objects, NEW n \in Intervals, NEW now \in BOOLEAN
  PROVE  Entry(o, n, now) \in Entries
BY TickerAssumption DEF Entry, Entries, Least

LEMMA AddedKeepsAges ==
  ASSUME TickerTypeOK, NEW ts \in Added
  PROVE  /\ ts \in Seq(Entries) /\ NoOlder(ts, FALSE)
         /\ Len(ts) <= MaxEntries /\ Len(ts) = Len(tickers) + 1
<1>1. PICK o \in Objects, n \in Intervals, now \in BOOLEAN : ts = Append(tickers, Entry(o, n, now))
  BY DEF Added
<1>2. Len(tickers) # MaxEntries
  BY DEF Added
<1>3. Entry(o, n, now) \in Entries /\ Entry(o, n, now).idle = 0
  BY EntryIsEntry DEF Entry
<1>4. /\ ts \in Seq(Entries) /\ Len(ts) = Len(tickers) + 1
      /\ \A i \in 1..Len(tickers) : ts[i] = tickers[i]
      /\ ts[Len(tickers) + 1] = Entry(o, n, now)
  BY <1>1, <1>3, AppendProperties DEF TickerTypeOK
<1>5. Len(tickers) \in Nat /\ DOMAIN tickers = 1..Len(tickers) /\ DOMAIN ts = 1..(Len(tickers) + 1)
  BY <1>4, LenProperties DEF TickerTypeOK
<1>6. Len(ts) <= MaxEntries
  <2>1. Len(tickers) \in Nat /\ Len(tickers) <= MaxEntries /\ MaxEntries \in Nat
    BY TickerAssumption, LenProperties DEF TickerTypeOK
  <2>2. Len(tickers) + 1 <= MaxEntries
    BY <1>2, <2>1
  <2> QED BY <1>4, <2>2
<1>7. NoOlder(ts, FALSE)
  <2> SUFFICES ASSUME NEW j \in DOMAIN ts, ts[j].active
               PROVE  ts[j].idle = 0 \/ (j \in DOMAIN tickers /\ ts[j] = tickers[j])
    BY DEF NoOlder
  <2> QED BY <1>3, <1>4, <1>5
<1> QED BY <1>4, <1>6, <1>7

LEMMA RemovedKeepsAges ==
  ASSUME TickerTypeOK, NEW o \in Objects, NEW ts, ts = Removed(o)
  PROVE  /\ ts \in Seq(Entries) /\ Len(ts) <= Len(tickers) /\ Len(tickers) <= Len(ts) + 1
         /\ NoOlder(ts, TRUE)
<1> DEFINE k == First(Positions(o))
           left == SubSeq(tickers, 1, k - 1)
           right == SubSeq(tickers, k + 1, Len(tickers))
<1>0. tickers \in Seq(Entries) /\ Len(tickers) \in Nat
  BY LenProperties DEF TickerTypeOK
<1>d. DOMAIN tickers = 1..Len(tickers)
  BY LenProperties DEF TickerTypeOK
<1>1. CASE Positions(o) = {}
  BY <1>0, <1>1 DEF Removed, NoOlder
<1>2. CASE Positions(o) # {}
  <2>1. k \in 1..Len(tickers)
    <3>1. Positions(o) \in SUBSET Nat /\ Positions(o) \subseteq 1..Len(tickers)
      BY <1>0, <1>d DEF Positions
    <3> QED BY <1>2, <3>1, FirstIsThere
  <2>2. ts = left \o right
    BY <1>2 DEF Removed, RemoveAt
  <2>3. /\ left \in Seq(Entries) /\ Len(left) = k - 1
        /\ \A i \in 1..(k - 1) : left[i] = tickers[i]
    <3>1. \A i \in 1..(k - 1) : tickers[i] \in Entries
      BY <1>0, <2>1, ElementOfSeq
    <3> HIDE DEF k
    <3> QED BY <2>1, <3>1, <1>0, SubSeqProperties, SMTT(30)
  <2>4. /\ right \in Seq(Entries) /\ Len(right) = Len(tickers) - k
        /\ \A i \in 1..(Len(tickers) - k) : right[i] = tickers[k + i]
    <3>1. \A i \in (k + 1)..Len(tickers) : tickers[i] \in Entries
      BY <1>0, <2>1, ElementOfSeq
    <3> HIDE DEF k
    <3>2. k \in Int /\ k + 1 \in Int /\ Len(tickers) \in Int
      BY <2>1, <1>0
    <3>3. /\ right \in Seq(Entries)
          /\ Len(right) = IF k + 1 <= Len(tickers) THEN Len(tickers) - (k + 1) + 1 ELSE 0
          /\ \A i \in 1..(Len(tickers) - (k + 1) + 1) : right[i] = tickers[(k + 1) + i - 1]
      BY <3>1, <3>2, SubSeqProperties
    <3> HIDE DEF right
    <3>4. \A i \in Int : (k + 1) + i - 1 = k + i
      BY <3>2
    <3>5. Len(tickers) - (k + 1) + 1 = Len(tickers) - k
      BY <3>2
    <3>6. Len(right) = Len(tickers) - k
      <4>1. CASE k + 1 <= Len(tickers)
        BY <3>3, <3>5, <4>1
      <4>2. CASE ~(k + 1 <= Len(tickers))
        <5>1. Len(tickers) - k = 0
          BY <1>0, <2>1, <4>2
        <5> QED BY <3>3, <4>2, <5>1
      <4> QED BY <4>1, <4>2
    <3>7. ASSUME NEW i \in 1..(Len(tickers) - k) PROVE right[i] = tickers[k + i]
      <4>1. i \in 1..(Len(tickers) - (k + 1) + 1) /\ (k + 1) + i - 1 = k + i
        BY <3>4, <3>5
      <4>2. right[i] = tickers[(k + 1) + i - 1]
        BY <3>3, <4>1
      <4> QED BY <4>1, <4>2
    <3> QED BY <3>3, <3>6, <3>7
  <2> HIDE DEF k, left, right
  <2>5. /\ ts \in Seq(Entries) /\ Len(ts) = Len(tickers) - 1
        /\ \A j \in 1..Len(ts) : ts[j] = IF j <= k - 1 THEN left[j] ELSE right[j - (k - 1)]
    <3>1. /\ ts \in Seq(Entries) /\ Len(ts) = Len(left) + Len(right)
          /\ \A j \in 1..(Len(left) + Len(right)) :
               ts[j] = IF j <= Len(left) THEN left[j] ELSE right[j - Len(left)]
      BY <2>2, <2>3, <2>4, ConcatProperties
    <3>2. Len(left) = k - 1 /\ Len(right) = Len(tickers) - k
      BY <2>3, <2>4
    <3>3. (k - 1) + (Len(tickers) - k) = Len(tickers) - 1
      BY <1>0, <2>1
    <3> QED BY <3>1, <3>2, <3>3
  <2>6. DOMAIN ts = 1..Len(ts)
    BY <2>5, LenProperties
  <2>7. ASSUME NEW j \in DOMAIN ts PROVE \E i \in DOMAIN tickers : ts[j] = tickers[i]
    <3>1. CASE j <= k - 1
      BY <1>0, <1>d, <2>1, <2>3, <2>5, <2>6, <3>1, SMTT(30)
    <3>2. CASE ~(j <= k - 1)
      <4>1. j - (k - 1) \in 1..(Len(tickers) - k) /\ k + (j - (k - 1)) \in 1..Len(tickers)
        BY <1>0, <2>1, <2>5, <2>6, <3>2
      <4>2. ts[j] = right[j - (k - 1)] /\ right[j - (k - 1)] = tickers[k + (j - (k - 1))]
        BY <2>4, <2>5, <2>6, <3>2, <4>1
      <4> QED BY <1>d, <4>1, <4>2
    <3> QED BY <3>1, <3>2
  <2> QED BY <1>0, <2>5, <2>7 DEF NoOlder
<1> QED BY <1>1, <1>2

LEMMA ActivatedKeepsAges ==
  ASSUME TickerTypeOK, NEW o \in Objects, NEW on \in BOOLEAN, NEW ts, ts = Activated(o, on)
  PROVE  ts \in Seq(Entries) /\ Len(ts) = Len(tickers) /\ NoOlder(ts, FALSE)
<1>0. tickers \in Seq(Entries) /\ Len(tickers) \in Nat /\ DOMAIN tickers = 1..Len(tickers)
  BY LenProperties DEF TickerTypeOK
<1>1. CASE Positions(o) = {}
  BY <1>0, <1>1 DEF Activated, NoOlder
<1>2. CASE Positions(o) # {}
  <2> DEFINE k == First(Positions(o))
             e == [tickers[k] EXCEPT !.active = on, !.idle = IF tickers[k].active THEN @ ELSE 0]
  <2>1. k \in 1..Len(tickers)
    <3>1. Positions(o) \in SUBSET Nat /\ Positions(o) \subseteq 1..Len(tickers)
      BY <1>0 DEF Positions
    <3> QED BY <1>2, <3>1, FirstIsThere
  <2>2. tickers[k] \in Entries
    BY <1>0, <2>1, ElementOfSeq
  <2>3. e \in Entries /\ (e.active => e.idle = 0 \/ (tickers[k].active /\ e.idle = tickers[k].idle))
        /\ e.period_ds = tickers[k].period_ds
    <3> HIDE DEF k
    <3> QED BY <2>2 DEF Entries
  <2>4. ts = [tickers EXCEPT ![k] = e]
    <3>1. ts = [tickers EXCEPT ![k].active = on, ![k].idle = IF tickers[k].active THEN @ ELSE 0]
      BY <1>2 DEF Activated
    <3> HIDE DEF k
    <3>2. tickers[k] = [object |-> tickers[k].object, period_ds |-> tickers[k].period_ds,
                        active |-> tickers[k].active, not_ticked |-> tickers[k].not_ticked,
                        idle |-> tickers[k].idle]
      BY <2>2 DEF Entries
    <3> QED BY <1>0, <2>1, <2>2, <3>1, <3>2
  <2> HIDE DEF k, e
  <2>5. /\ ts \in Seq(Entries) /\ Len(ts) = Len(tickers)
        /\ \A j \in 1..Len(tickers) : ts[j] = IF j = k THEN e ELSE tickers[j]
    BY <1>0, <2>1, <2>3, <2>4, ExceptSeq
  <2>6. DOMAIN ts = 1..Len(tickers)
    BY <2>5, LenProperties
  <2> QED BY <1>0, <2>1, <2>3, <2>5, <2>6 DEF NoOlder
<1> QED BY <1>1, <1>2

LEMMA ResultsKeepAges ==
  ASSUME TickerTypeOK, NEW op \in Operations, NEW ts \in Results(op)
  PROVE  /\ ts \in Seq(Entries) /\ NoOlder(ts, op = "remove")
         /\ Len(ts) <= MaxEntries /\ Len(ts) <= Len(tickers) + 1
<1>0. Len(tickers) \in Nat /\ Len(tickers) <= MaxEntries /\ MaxEntries \in Nat
  BY LenProperties, TickerAssumption DEF TickerTypeOK
<1>1. CASE op = "add"
  <2>1. ts \in Added
    BY <1>1 DEF Results
  <2> QED BY <1>1, <2>1, AddedKeepsAges DEF NoOlder
<1>2. CASE op = "remove"
  <2>1. PICK o \in Objects : ts = Removed(o)
    BY <1>2 DEF Results
  <2>2. ts \in Seq(Entries) /\ Len(ts) <= Len(tickers) /\ NoOlder(ts, TRUE)
    BY <2>1, RemovedKeepsAges
  <2> QED BY <1>0, <1>2, <2>2, LenProperties DEF NoOlder
<1>3. CASE op = "activate"
  <2>1. PICK o \in Objects, on \in BOOLEAN : ts = Activated(o, on)
    BY <1>3 DEF Results
  <2> QED BY <1>0, <1>3, <2>1, ActivatedKeepsAges DEF NoOlder
<1>4. CASE op = "stop"
  <2>1. ts = <<>>
    BY <1>4 DEF Results
  <2> QED BY <1>0, <2>1, EmptySeq DEF NoOlder
<1> QED BY <1>1, <1>2, <1>3, <1>4 DEF Operations

-----------------------------------------------------------------------------
LEMMA GrownHasRoom ==
  ASSUME TickerTypeOK, NEW ts \in Seq(Entries), Len(ts) <= Len(tickers) + 1
  PROVE  Grown(ts) \in Nat /\ Len(ts) <= Grown(ts)
<1>1. Len(ts) \in Nat /\ Len(tickers) \in Nat /\ capacity \in Nat /\ Len(tickers) <= capacity
  BY LenProperties DEF TickerTypeOK
<1> QED BY <1>1 DEF Grown

LEMMA TickedProperties ==
  ASSUME NEW ts \in Seq(Entries), NEW k \in 1..Len(ts)
  PROVE  /\ Ticked(ts, k) \in Seq(Entries) /\ Len(Ticked(ts, k)) = Len(ts)
         /\ Ticked(ts, k)[k].idle = 0
         /\ \A j \in 1..Len(ts) : j # k => Ticked(ts, k)[j] = ts[j]
<1> DEFINE e == [ts[k] EXCEPT !.not_ticked = FALSE, !.idle = 0]
<1>1. ts[k] \in Entries
  BY ElementOfSeq
<1>2. e \in Entries /\ e.idle = 0
  BY <1>1 DEF Entries
<1>3. Ticked(ts, k) = [ts EXCEPT ![k] = e]
  <2>1. ts \in [1..Len(ts) -> Entries]
    BY LenProperties
  <2> QED BY <2>1, <1>1 DEF Ticked, Entries
<1> HIDE DEF e
<1> QED BY <1>2, <1>3, ExceptSeq

(* However the register has been changed, each entry is as young as before  *)
LEMMA ResultAges ==
  ASSUME TickerTypeOK, AgeInv, NEW op \in Operations, NEW ts \in Results(op),
         pos = 0 \/ op # "remove", NEW j \in DOMAIN ts, ts[j].active
  PROVE  \/ ts[j].idle <= tick_count % ts[j].period_ds
         \/ /\ Ahead(j) /\ tick_count % ts[j].period_ds = 0
            /\ ts[j].idle <= ts[j].period_ds
<1>1. ts \in Seq(Entries) /\ NoOlder(ts, op = "remove")
  BY ResultsKeepAges
<1>2. CASE ts[j].idle = 0
  <2>1. ts[j].period_ds \in Nat \ {0}
    <3>1. ts[j] \in Entries
      BY <1>1, LenProperties, ElementOfSeq
    <3> QED BY <3>1, TickerAssumption DEF Entries
  <2>2. tick_count % ts[j].period_ds \in Nat
    BY <2>1, TickerAssumption DEF TickerTypeOK
  <2> QED BY <1>2, <2>2
<1>3. CASE ts[j].idle # 0
  <2>1. PICK i \in DOMAIN tickers :
          /\ op = "remove" \/ i = j
          /\ tickers[i].active /\ ts[j].idle = tickers[i].idle
          /\ ts[j].period_ds = tickers[i].period_ds
    BY <1>1, <1>3 DEF NoOlder
  <2> QED BY <2>1 DEF AgeInv, Ahead
<1> QED BY <1>2, <1>3

LEMMA OperateKeepsTickerInv == TickerInv /\ Operate => TickerInv'
<1> SUFFICES ASSUME TickerInv, Operate PROVE TickerInv'
  OBVIOUS
<1>1. PICK op \in Outside :
        /\ tickers' \in Results(op)
        /\ armed' = (armed /\ op # "stop")
        /\ stopped' = (stopped \/ op = "stop")
  BY DEF Operate
<1>2. op \in Operations /\ TickerTypeOK /\ AgeInv /\ pos = 0 /\ (armed \/ stopped)
  BY TickerAssumption DEF Operate, TickerInv, ArmedInv
<1>3. /\ tickers' \in Seq(Entries) /\ Len(tickers') <= MaxEntries /\ Len(tickers') <= Len(tickers) + 1
  BY <1>1, <1>2, ResultsKeepAges
<1>4. capacity' \in Nat /\ Len(tickers') <= capacity' /\ UNCHANGED <<tick_count, pos, moved>>
  BY <1>2, <1>3, GrownHasRoom DEF Operate
<1>5. TickerTypeOK'
  <2>1. armed' \in BOOLEAN /\ stopped' \in BOOLEAN
    BY <1>1, <1>2 DEF TickerTypeOK
  <2> QED BY <1>2, <1>3, <1>4, <2>1 DEF TickerTypeOK
<1>6. ArmedInv'
  BY <1>1, <1>2, <1>4 DEF ArmedInv
<1>7. AgeInv'
  <2> SUFFICES ASSUME NEW j \in DOMAIN tickers', tickers'[j].active
               PROVE  tickers'[j].idle <= tick_count' % tickers'[j].period_ds
    BY DEF AgeInv
  <2> QED BY <1>1, <1>2, <1>4, ResultAges DEF Ahead
<1> QED BY <1>5, <1>6, <1>7 DEF TickerInv

(* Ageing the entries leaves their number and their fields                  *)
LEMMA AgedProperties ==
  ASSUME TickerTypeOK
  PROVE  Aged(tickers) \in Seq(Entries) /\ Len(Aged(tickers)) = Len(tickers)
<1>1. tickers \in Seq(Entries) /\ Len(tickers) \in Nat /\ DOMAIN tickers = 1..Len(tickers)
  BY LenProperties DEF TickerTypeOK
<1>2. \A k \in 1..Len(tickers) : [tickers[k] EXCEPT !.idle = IF tickers[k].active THEN @ + 1 ELSE @] \in Entries
  <2> TAKE k \in 1..Len(tickers)
  <2>1. tickers[k] \in Entries
    BY <1>1, ElementOfSeq
  <2> QED BY <2>1 DEF Entries
<1>3. Aged(tickers) \in [1..Len(tickers) -> Entries]
  BY <1>1, <1>2 DEF Aged
<1>4. Aged(tickers) \in Seq(Entries)
  BY <1>1, <1>3, SeqDef
<1>5. DOMAIN Aged(tickers) = 1..Len(tickers) /\ DOMAIN Aged(tickers) = 1..Len(Aged(tickers))
      /\ Len(Aged(tickers)) \in Nat
  BY <1>3, <1>4, LenProperties
<1> QED BY <1>1, <1>4, <1>5

LEMMA TickBeginKeepsTickerInv == TickerInv /\ TickBegin => TickerInv'
<1> SUFFICES ASSUME TickerInv, TickBegin PROVE TickerInv'
  OBVIOUS
<1>1. /\ TickerTypeOK /\ AgeInv /\ armed /\ pos = 0 /\ armed' = FALSE /\ pos' = 1 /\ moved' = FALSE
      /\ tick_count' = (tick_count + 1) % TickCounts /\ tickers' = Aged(tickers)
      /\ UNCHANGED <<capacity, stopped>>
  BY DEF TickBegin, TickerInv
<1>2. tickers \in Seq(Entries) /\ Len(tickers) \in Nat
  BY <1>1, LenProperties DEF TickerTypeOK
<1>3. DOMAIN tickers = 1..Len(tickers)
  BY <1>2, LenProperties
<1>4. \A k \in 1..Len(tickers) :
        /\ tickers[k] \in Entries /\ tickers'[k] \in Entries
        /\ tickers'[k].active = tickers[k].active /\ tickers'[k].period_ds = tickers[k].period_ds
        /\ tickers[k].active => tickers'[k].idle = tickers[k].idle + 1
  <2> TAKE k \in 1..Len(tickers)
  <2>1. tickers[k] \in Entries
    BY <1>2, ElementOfSeq
  <2>2. tickers'[k] = [tickers[k] EXCEPT !.idle = IF tickers[k].active THEN @ + 1 ELSE @]
    BY <1>1, <1>3 DEF Aged
  <2> QED BY <2>1, <2>2 DEF Entries
<1>5. tickers' \in Seq(Entries) /\ Len(tickers') = Len(tickers) /\ DOMAIN tickers' = 1..Len(tickers)
  <2>1. DOMAIN tickers' = 1..Len(tickers) /\ tickers' = [k \in 1..Len(tickers) |-> tickers'[k]]
    BY <1>1, <1>3 DEF Aged
  <2>2. tickers' \in [1..Len(tickers) -> Entries]
    BY <1>4, <2>1
  <2>3. tickers' \in Seq(Entries)
    BY <1>2, <2>2, SeqDef
  <2>4. Len(tickers') \in Nat /\ DOMAIN tickers' = 1..Len(tickers')
    BY <2>3, LenProperties
  <2> QED BY <1>2, <2>1, <2>3, <2>4
<1>6. TickerTypeOK'
  <2>1. tick_count' \in 0..(TickCounts - 1)
    BY <1>1, NextCount
  <2>2. /\ Len(tickers') <= MaxEntries /\ Len(tickers') <= capacity /\ capacity \in Nat
        /\ stopped \in BOOLEAN
    BY <1>1, <1>5 DEF TickerTypeOK
  <2>3. 1 \in 0..(MaxEntries + 2)
    BY TickerAssumption
  <2>4. tickers' \in Seq(Entries)
    BY <1>5
  <2> QED BY <1>1, <2>1, <2>2, <2>3, <2>4 DEF TickerTypeOK
<1>7. AgeInv'
  <2> SUFFICES ASSUME NEW k \in 1..Len(tickers), tickers'[k].active
               PROVE  \/ tickers'[k].idle <= tick_count' % tickers'[k].period_ds
                      \/ /\ tick_count' % tickers'[k].period_ds = 0
                         /\ tickers'[k].idle <= tickers'[k].period_ds
    BY <1>1, <1>5 DEF AgeInv, Ahead
  <2> DEFINE p == tickers[k].period_ds
  <2>1. p \in Nat \ {0} /\ tickers[k].idle \in Nat
    BY <1>4, TickerAssumption DEF Entries
  <2>2. tickers[k].idle <= tick_count % p
    BY <1>1, <1>3, <1>4 DEF AgeInv, Ahead
  <2>3. tick_count % p \in 0..(p - 1) /\ (tick_count' % p = 0 \/ tick_count' % p = (tick_count % p) + 1)
    BY <1>1, <2>1, NextCount
  <2>4. tickers'[k].period_ds = p /\ tickers'[k].idle = tickers[k].idle + 1
    BY <1>4
  <2> HIDE DEF p
  <2> QED BY <2>1, <2>2, <2>3, <2>4
<1> QED BY <1>1, <1>6, <1>7 DEF TickerInv, ArmedInv

(* The loop goes on to the next entry, the one it was at being called: what *)
(* Call, with the register as it is, and CallBack, with what the object has *)
(* made of it, have in common                                               *)
CameFrom(ts) ==
  \A j \in DOMAIN ts : ts[j].active =>
    \/ ts[j].idle <= tick_count % ts[j].period_ds
    \/ /\ Ahead(j) /\ tick_count % ts[j].period_ds = 0
       /\ ts[j].idle <= ts[j].period_ds

LEMMA LoopGoesOn ==
  ASSUME TickerTypeOK, pos \in 1..MaxEntries, ~armed,
         NEW ts \in Seq(Entries), Len(ts) <= MaxEntries, CameFrom(ts),
         tickers' = IF pos \in DOMAIN ts THEN Ticked(ts, pos) ELSE ts,
         capacity' \in Nat, Len(ts) <= capacity', moved' \in BOOLEAN, stopped' \in BOOLEAN,
         pos' = pos + 1, UNCHANGED <<tick_count, armed>>
  PROVE  TickerInv'
<1>1. DOMAIN ts = 1..Len(ts)
  BY LenProperties
<1>2. /\ tickers' \in Seq(Entries) /\ Len(tickers') = Len(ts)
      /\ \A j \in 1..Len(ts) : tickers'[j] = ts[j] \/ (j = pos /\ tickers'[j].idle = 0)
  BY <1>1, TickedProperties
<1>3. DOMAIN tickers' = 1..Len(ts)
  BY <1>2, LenProperties
<1>4. TickerTypeOK'
  <2>1. pos' \in 0..(MaxEntries + 2) /\ Len(tickers') <= MaxEntries /\ Len(tickers') <= capacity'
    BY <1>2, TickerAssumption
  <2> QED BY <1>2, <2>1 DEF TickerTypeOK
<1>5. AgeInv'
  <2> SUFFICES ASSUME NEW j \in 1..Len(ts), tickers'[j].active
               PROVE  \/ tickers'[j].idle <= tick_count % tickers'[j].period_ds
                      \/ /\ j >= pos + 1 /\ tick_count % tickers'[j].period_ds = 0
                         /\ tickers'[j].idle <= tickers'[j].period_ds
    BY <1>3 DEF AgeInv, Ahead
  <2>1. CASE tickers'[j].idle = 0
    <3>1. tickers'[j] \in Entries
      BY <1>2, ElementOfSeq
    <3>2. tickers'[j].period_ds \in Nat \ {0}
      <4>1. QuickCap \in Nat /\ tickers'[j].period_ds \in 1..QuickCap
        BY <3>1, TickerAssumption DEF Entries
      <4> QED BY <4>1
    <3>3. tick_count \in Nat
      BY TickerAssumption DEF TickerTypeOK
    <3>4. tick_count % tickers'[j].period_ds \in Nat
      BY <3>2, <3>3
    <3> QED BY <2>1, <3>4
  <2>2. CASE tickers'[j].idle # 0
    <3>1. tickers'[j] = ts[j]
      BY <1>2, <2>2
    <3>2. \/ ts[j].idle <= tick_count % ts[j].period_ds
          \/ /\ j >= pos /\ tick_count % ts[j].period_ds = 0
             /\ ts[j].idle <= ts[j].period_ds
      BY <1>1, <3>1 DEF CameFrom, Ahead
    <3>3. CASE j # pos
      <4>1. j >= pos => j >= pos + 1
        BY <3>3
      <4> QED BY <3>1, <3>2, <4>1
    <3>4. CASE j = pos
      <4>1. tickers'[j].idle = 0
        BY <1>1, <3>4, TickedProperties
      <4> QED BY <2>2, <4>1
    <3> QED BY <3>3, <3>4
  <2> QED BY <2>1, <2>2
<1>6. ArmedInv'
  BY DEF ArmedInv
<1> QED BY <1>4, <1>5, <1>6 DEF TickerInv

LEMMA SkipKeepsTickerInv == TickerInv /\ Skip => TickerInv'
<1> SUFFICES ASSUME TickerInv, Skip PROVE TickerInv'
  OBVIOUS
<1>1. /\ TickerTypeOK /\ AgeInv /\ pos # 0 /\ pos \in 1..Len(tickers)
      /\ DOMAIN tickers = 1..Len(tickers) /\ ~armed
  <2>1. DOMAIN tickers = 1..Len(tickers)
    BY LenProperties DEF TickerInv, TickerTypeOK
  <2> QED BY <2>1 DEF TickerInv, Skip, Looping, ArmedInv
<1>2. pos' = pos + 1 /\ UNCHANGED <<tickers, capacity, tick_count, armed, moved, stopped>>
  BY DEF Skip
<1>3. TickerTypeOK'
  <2>1. Len(tickers) <= MaxEntries /\ Len(tickers) \in Nat /\ MaxEntries \in Nat
    BY <1>1, LenProperties, TickerAssumption DEF TickerTypeOK
  <2>2. pos' \in 0..(MaxEntries + 2)
    BY <1>1, <1>2, <2>1
  <2> QED BY <1>1, <1>2, <2>2 DEF TickerTypeOK
<1>4. AgeInv'
  <2> SUFFICES ASSUME NEW k \in 1..Len(tickers), tickers[k].active
               PROVE  \/ tickers[k].idle <= tick_count % tickers[k].period_ds
                      \/ /\ k >= pos + 1 /\ tick_count % tickers[k].period_ds = 0
                         /\ tickers[k].idle <= tickers[k].period_ds
    BY <1>1, <1>2 DEF AgeInv, Ahead
  <2>1. CASE k = pos
    <3>1. tick_count % tickers[k].period_ds # 0
      BY <2>1 DEF Skip, Due
    <3> QED BY <1>1, <3>1 DEF AgeInv
  <2>2. CASE k # pos
    <3>1. \/ tickers[k].idle <= tick_count % tickers[k].period_ds
          \/ /\ k >= pos /\ tick_count % tickers[k].period_ds = 0
             /\ tickers[k].idle <= tickers[k].period_ds
      BY <1>1 DEF AgeInv, Ahead
    <3>2. k >= pos => k >= pos + 1
      BY <1>1, <2>2
    <3> QED BY <3>1, <3>2
  <2> QED BY <2>1, <2>2
<1>5. ArmedInv'
  <2>1. pos' # 0
    BY <1>1, <1>2
  <2> QED BY <1>1, <1>2, <2>1 DEF ArmedInv
<1> QED BY <1>3, <1>4, <1>5 DEF TickerInv

LEMMA CallKeepsTickerInv == TickerInv /\ Call => TickerInv'
<1> SUFFICES ASSUME TickerInv, Call PROVE TickerInv'
  OBVIOUS
<1>1. TickerTypeOK /\ AgeInv /\ pos # 0 /\ ~armed
  BY DEF TickerInv, Call, Looping, ArmedInv, TickerTypeOK
<1>2. /\ tickers' = Ticked(tickers, pos) /\ pos' = pos + 1
      /\ UNCHANGED <<capacity, tick_count, armed, moved, stopped>>
  BY DEF Call
<1>3. pos \in 1..Len(tickers)
  BY <1>1, LenProperties DEF Call, Looping, TickerTypeOK
<1>4. pos \in 1..MaxEntries /\ pos \in DOMAIN tickers
  <2>1. Len(tickers) \in Nat /\ Len(tickers) <= MaxEntries /\ MaxEntries \in Nat
    BY <1>1, LenProperties, TickerAssumption DEF TickerTypeOK
  <2> QED BY <1>3, <2>1 DEF Call, Looping
<1>5. CameFrom(tickers)
  BY <1>1 DEF CameFrom, AgeInv
<1>6. /\ tickers \in Seq(Entries) /\ Len(tickers) <= MaxEntries /\ Len(tickers) <= capacity'
      /\ capacity' \in Nat /\ moved' \in BOOLEAN /\ stopped' \in BOOLEAN
  BY <1>1, <1>2 DEF TickerTypeOK
<1> QED BY <1>1, <1>2, <1>4, <1>5, <1>6, LoopGoesOn

LEMMA CallBackKeepsTickerInv ==
  ASSUME "remove" \notin InCallback, TickerInv, CallBack
  PROVE  TickerInv'
<1>1. TickerTypeOK /\ AgeInv /\ pos # 0 /\ ~armed
  BY DEF TickerInv, CallBack, Looping, ArmedInv, TickerTypeOK
<1>2. PICK op \in InCallback : \E ts \in Results(op) :
        /\ tickers' = IF pos \in DOMAIN ts THEN Ticked(ts, pos) ELSE ts
        /\ capacity' = Grown(ts)
        /\ stopped' = (stopped \/ op = "stop")
  BY DEF CallBack
<1>3. PICK ts \in Results(op) :
        /\ tickers' = IF pos \in DOMAIN ts THEN Ticked(ts, pos) ELSE ts
        /\ capacity' = Grown(ts)
        /\ stopped' = (stopped \/ op = "stop")
  BY <1>2
<1>4. op \in Operations /\ op # "remove"
  BY TickerAssumption
<1>5. pos \in 1..MaxEntries
  <2>1. pos \in 1..Len(tickers)
    BY <1>1, LenProperties DEF CallBack, Looping, TickerTypeOK
  <2>2. Len(tickers) \in Nat /\ Len(tickers) <= MaxEntries /\ MaxEntries \in Nat
    BY <1>1, LenProperties, TickerAssumption DEF TickerTypeOK
  <2> QED BY <2>1, <2>2
<1>6. /\ ts \in Seq(Entries) /\ Len(ts) <= MaxEntries /\ Len(ts) <= Len(tickers) + 1
      /\ CameFrom(ts)
  BY <1>1, <1>4, ResultsKeepAges, ResultAges DEF CameFrom
<1>7. capacity' \in Nat /\ Len(ts) <= capacity'
  BY <1>1, <1>3, <1>6, GrownHasRoom
<1>8. /\ moved' \in BOOLEAN /\ stopped' \in BOOLEAN
      /\ pos' = pos + 1 /\ UNCHANGED <<tick_count, armed>>
  BY <1>1, <1>3 DEF CallBack, TickerTypeOK
<1> QED BY <1>1, <1>3, <1>5, <1>6, <1>7, <1>8, LoopGoesOn

LEMMA TickEndKeepsTickerInv == TickerInv /\ TickEnd => TickerInv'
<1> SUFFICES ASSUME TickerInv, TickEnd PROVE TickerInv'
  OBVIOUS
<1>1. TickerTypeOK /\ AgeInv /\ pos = Len(tickers) + 1
  BY DEF TickerInv, TickEnd
<1>2. armed' = TRUE /\ pos' = 0 /\ UNCHANGED <<tickers, capacity, tick_count, moved, stopped>>
  BY DEF TickEnd
<1>3. 0 \in 0..(MaxEntries + 2)
  BY TickerAssumption
<1>4. TickerTypeOK'
  BY <1>1, <1>2, <1>3 DEF TickerTypeOK
<1>5. AgeInv'
  <2>1. Len(tickers) \in Nat
    BY <1>1, LenProperties DEF TickerTypeOK
  <2>2. \A k \in 1..Len(tickers) : ~Ahead(k)
    BY <1>1, <2>1 DEF Ahead
  <2>3. DOMAIN tickers = 1..Len(tickers)
    BY <1>1, LenProperties DEF TickerTypeOK
  <2> QED BY <1>1, <1>2, <2>2, <2>3 DEF AgeInv
<1> QED BY <1>2, <1>4, <1>5 DEF TickerInv, ArmedInv

-----------------------------------------------------------------------------
LEMMA TickerInvInit == TickerInit => TickerInv
<1> SUFFICES ASSUME TickerInit PROVE TickerInv
  OBVIOUS
<1>1. tickers \in Seq(Entries) /\ Len(tickers) = 0
  BY EmptySeq DEF TickerInit
<1>2. /\ MaxEntries \in Nat /\ TickCounts \in Nat \ {0} /\ 0 \in 0..(TickCounts - 1)
      /\ 0 \in 0..(MaxEntries + 2) /\ 0 <= MaxEntries
  BY TickerAssumption
<1>3. TickerTypeOK
  <2>1. Len(tickers) <= MaxEntries /\ Len(tickers) <= capacity /\ capacity \in Nat
    BY <1>1, <1>2 DEF TickerInit
  <2> QED BY <1>1, <1>2, <2>1 DEF TickerInit, TickerTypeOK
<1>4. DOMAIN tickers = {}
  BY <1>1, LenProperties
<1> QED BY <1>3, <1>4 DEF TickerInit, TickerInv, ArmedInv, AgeInv

LEMMA AgesAreShort == TickerInv => CalledEveryPeriod
<1> SUFFICES ASSUME TickerInv, pos = 0, NEW k \in DOMAIN tickers, tickers[k].active
             PROVE  tickers[k].idle < tickers[k].period_ds
  BY DEF TickerInv, ArmedInv, CalledEveryPeriod
<1>1. tickers[k].idle <= tick_count % tickers[k].period_ds
  BY DEF TickerInv, AgeInv, Ahead
<1>2. tickers[k] \in Entries
  <2>1. DOMAIN tickers = 1..Len(tickers)
    BY LenProperties DEF TickerInv, TickerTypeOK
  <2> QED BY <2>1, ElementOfSeq DEF TickerInv, TickerTypeOK
<1>3. tickers[k].period_ds \in Nat \ {0} /\ tickers[k].idle \in Nat
  BY <1>2, TickerAssumption DEF Entries
<1>4. tick_count % tickers[k].period_ds \in 0..(tickers[k].period_ds - 1)
  BY <1>3, TickerAssumption DEF TickerInv, TickerTypeOK
<1> QED BY <1>1, <1>3, <1>4

LEMMA TickerInvStep ==
  ASSUME "remove" \notin InCallback, TickerInv, [TickerNext]_tickerVars
  PROVE  TickerInv'
<1>1. CASE UNCHANGED tickerVars
  BY <1>1 DEF tickerVars, TickerInv, TickerTypeOK, ArmedInv, AgeInv, Ahead
<1>2. CASE TickerNext
  BY <1>2, OperateKeepsTickerInv, TickBeginKeepsTickerInv, SkipKeepsTickerInv, CallKeepsTickerInv,
     CallBackKeepsTickerInv, TickEndKeepsTickerInv DEF TickerNext, Tick
<1> QED BY <1>1, <1>2

(* An active object is called at least once in every period, also when      *)
(* tick_count_ wraps, as long as no callback calls remove_ticker            *)
THEOREM EveryPeriodIsKept ==
  ASSUME "remove" \notin InCallback
  PROVE  TickerSpec => []CalledEveryPeriod
<1> QED BY TickerInvInit, TickerInvStep, AgesAreShort, PTL DEF TickerSpec

-----------------------------------------------------------------------------
(* What the callbacks do to cb_ticker's iterator. Whatever they call, the    *)
(* types hold: an invariant without the ages, which remove_ticker disturbs. *)
LEMMA LoopingAt ==
  ASSUME TickerTypeOK, Looping
  PROVE  /\ pos \in 1..Len(tickers) /\ Len(tickers) \in Nat /\ Len(tickers) <= MaxEntries
         /\ pos + 1 \in 0..(MaxEntries + 2) /\ ~moved
         /\ capacity \in Nat /\ Len(tickers) <= capacity
<1>1. pos \in 1..Len(tickers) /\ Len(tickers) \in Nat /\ Len(tickers) <= MaxEntries
  BY LenProperties DEF TickerTypeOK, Looping
<1> QED BY <1>1, TickerAssumption DEF TickerTypeOK, Looping

LEMMA CalledBack ==
  ASSUME TickerTypeOK, CallBack
  PROVE  \E op \in InCallback : \E ts \in Results(op) :
           /\ ts \in Seq(Entries) /\ Len(ts) <= MaxEntries /\ Len(ts) <= Len(tickers) + 1
           /\ tickers' \in Seq(Entries) /\ Len(tickers') = Len(ts)
           /\ capacity' = Grown(ts) /\ Len(ts) <= capacity' /\ capacity' \in Nat
           /\ stopped' \in BOOLEAN /\ moved' = (capacity' # capacity) /\ pos' = pos + 1
<1>1. PICK op \in InCallback : \E ts \in Results(op) :
        /\ tickers' = IF pos \in DOMAIN ts THEN Ticked(ts, pos) ELSE ts
        /\ capacity' = Grown(ts)
        /\ stopped' = (stopped \/ op = "stop")
  BY DEF CallBack
<1>2. PICK ts \in Results(op) :
        /\ tickers' = IF pos \in DOMAIN ts THEN Ticked(ts, pos) ELSE ts
        /\ capacity' = Grown(ts)
        /\ stopped' = (stopped \/ op = "stop")
  BY <1>1
<1>3. ts \in Seq(Entries) /\ Len(ts) <= MaxEntries /\ Len(ts) <= Len(tickers) + 1
  BY ResultsKeepAges, TickerAssumption
<1>4. tickers' \in Seq(Entries) /\ Len(tickers') = Len(ts)
  <2>1. DOMAIN ts = 1..Len(ts)
    BY <1>3, LenProperties
  <2> QED BY <1>2, <1>3, <2>1, TickedProperties
<1>5. capacity' \in Nat /\ Len(ts) <= capacity'
  BY <1>2, <1>3, GrownHasRoom
<1>6. stopped' \in BOOLEAN
  BY <1>2 DEF TickerTypeOK
<1>7. moved' = (capacity' # capacity) /\ pos' = pos + 1
  BY DEF CallBack
<1> QED BY <1>2, <1>3, <1>4, <1>5, <1>6, <1>7

LEMMA TickerTypeStep ==
  ASSUME TickerTypeOK, [TickerNext]_tickerVars
  PROVE  TickerTypeOK'
<1>0. MaxEntries \in Nat
  BY TickerAssumption
<1>1. CASE UNCHANGED tickerVars
  BY <1>1 DEF tickerVars, TickerTypeOK
<1>2. CASE Operate
  <2>1. PICK op \in Outside :
          tickers' \in Results(op) /\ armed' = (armed /\ op # "stop") /\ stopped' = (stopped \/ op = "stop")
    BY <1>2 DEF Operate
  <2>2. tickers' \in Seq(Entries) /\ Len(tickers') <= MaxEntries /\ Len(tickers') <= Len(tickers) + 1
    BY <2>1, ResultsKeepAges, TickerAssumption
  <2>3. capacity' \in Nat /\ Len(tickers') <= capacity'
    BY <1>2, <2>2, GrownHasRoom DEF Operate
  <2>4. armed' \in BOOLEAN /\ stopped' \in BOOLEAN
    BY <2>1 DEF TickerTypeOK
  <2> QED BY <1>2, <2>2, <2>3, <2>4 DEF Operate, TickerTypeOK
<1>3. CASE TickBegin
  <2>1. tickers' \in Seq(Entries) /\ Len(tickers') = Len(tickers)
    BY <1>3, AgedProperties DEF TickBegin
  <2>2. tick_count' \in 0..(TickCounts - 1)
    BY <1>3, NextCount DEF TickBegin
  <2>3. 1 \in 0..(MaxEntries + 2)
    BY <1>0
  <2> QED BY <1>3, <2>1, <2>2, <2>3 DEF TickBegin, TickerTypeOK
<1>4. CASE Skip
  <2>1. pos + 1 \in 0..(MaxEntries + 2)
    BY <1>4, LoopingAt DEF Skip
  <2> QED BY <1>4, <2>1 DEF Skip, TickerTypeOK
<1>5. CASE Call
  <2>1. pos + 1 \in 0..(MaxEntries + 2) /\ pos \in 1..Len(tickers)
    BY <1>5, LoopingAt DEF Call
  <2>2. tickers' \in Seq(Entries) /\ Len(tickers') = Len(tickers)
    BY <1>5, <2>1, TickedProperties DEF Call, TickerTypeOK
  <2> QED BY <1>5, <2>1, <2>2 DEF Call, TickerTypeOK
<1>6. CASE CallBack
  <2>1. pos + 1 \in 0..(MaxEntries + 2)
    BY <1>6, LoopingAt DEF CallBack
  <2>2. /\ tickers' \in Seq(Entries) /\ Len(tickers') <= MaxEntries
        /\ capacity' \in Nat /\ Len(tickers') <= capacity'
        /\ stopped' \in BOOLEAN /\ moved' \in BOOLEAN /\ pos' = pos + 1
    BY <1>6, CalledBack
  <2>3. UNCHANGED <<tick_count, armed>>
    BY <1>6 DEF CallBack
  <2> QED BY <2>1, <2>2, <2>3 DEF TickerTypeOK
<1>7. CASE TickEnd
  <2>1. 0 \in 0..(MaxEntries + 2)
    BY <1>0
  <2> QED BY <1>7, <2>1 DEF TickEnd, TickerTypeOK
<1> QED BY <1>1, <1>2, <1>3, <1>4, <1>5, <1>6, <1>7 DEF TickerNext, Tick

(* The register, its capacity and the count stay what they are declared to  *)
(* be, whatever the callbacks call                                          *)
THEOREM TickerTypeCorrect == TickerSpec => []TickerTypeOK
<1>1. TickerInit => TickerTypeOK
  BY TickerInvInit DEF TickerInv
<1> QED BY <1>1, TickerTypeStep, PTL DEF TickerSpec

(* A callback makes push_back find the vector full, or it takes entries out *)
(* while cb_ticker is at the last one, or it empties the register           *)
LosesIterator ==
  /\ CallBack
  /\ \/ Len(tickers') > capacity
     \/ Len(tickers') < Len(tickers) /\ (pos = Len(tickers) \/ tickers' = <<>>)

(* a removal takes out one entry, so with more left of it than that it does *)
(* not reach the iterator's next place; stop_all takes out all of them      *)
LEMMA ShrinksByOne ==
  ASSUME TickerTypeOK, NEW op \in Operations, NEW ts \in Results(op)
  PROVE  ts = <<>> \/ Len(tickers) <= Len(ts) + 1
<1>0. Len(tickers) \in Nat
  BY LenProperties DEF TickerTypeOK
<1>1. CASE op = "add"
  <2>1. ts \in Added
    BY <1>1 DEF Results
  <2>2. Len(ts) = Len(tickers) + 1
    BY <2>1, AddedKeepsAges
  <2>3. Len(tickers) <= Len(ts) + 1
    BY <1>0, <2>2
  <2> QED BY <2>3
<1>2. CASE op = "remove"
  <2>1. PICK o \in Objects : ts = Removed(o)
    BY <1>2 DEF Results
  <2>2. Len(tickers) <= Len(ts) + 1
    BY <2>1, RemovedKeepsAges
  <2> QED BY <2>2
<1>3. CASE op = "activate"
  <2>1. PICK o \in Objects, on \in BOOLEAN : ts = Activated(o, on)
    BY <1>3 DEF Results
  <2>2. Len(ts) = Len(tickers)
    BY <2>1, ActivatedKeepsAges
  <2>3. Len(tickers) <= Len(ts) + 1
    BY <1>0, <2>2
  <2> QED BY <2>3
<1>4. CASE op = "stop"
  BY <1>4 DEF Results
<1> QED BY <1>1, <1>2, <1>3, <1>4 DEF Operations

LEMMA CallBackLoses ==
  ASSUME TickerTypeOK, CallBack
  PROVE  IteratorValid' <=> ~LosesIterator
<1>1. /\ pos \in 1..Len(tickers) /\ Len(tickers) \in Nat /\ capacity \in Nat
      /\ Len(tickers) <= capacity
  BY LoopingAt DEF CallBack
<1>2. PICK op \in InCallback : \E ts \in Results(op) :
        /\ ts \in Seq(Entries) /\ Len(ts) <= Len(tickers) + 1
        /\ tickers' \in Seq(Entries) /\ Len(tickers') = Len(ts)
        /\ capacity' = Grown(ts)
        /\ moved' = (capacity' # capacity) /\ pos' = pos + 1
  BY CalledBack
<1>3. PICK ts \in Results(op) :
        /\ ts \in Seq(Entries) /\ Len(ts) <= Len(tickers) + 1
        /\ tickers' \in Seq(Entries) /\ Len(tickers') = Len(ts)
        /\ capacity' = Grown(ts)
        /\ moved' = (capacity' # capacity) /\ pos' = pos + 1
  BY <1>2
<1>4. Len(ts) \in Nat /\ (ts = <<>> <=> Len(ts) = 0) /\ (tickers' = <<>> <=> Len(tickers') = 0)
  BY <1>3, LenProperties, EmptySeq
<1>5. Len(ts) = 0 \/ Len(tickers) <= Len(ts) + 1
  BY <1>4, ShrinksByOne, TickerAssumption
<1>6. moved' <=> Len(tickers') > capacity
  <2>1. CASE Len(ts) <= capacity
    <3>1. Grown(ts) = capacity
      BY <2>1 DEF Grown
    <3>2. ~moved'
      BY <1>3, <3>1, Zenon
    <3>3. ~(Len(tickers') > capacity)
      BY <1>1, <1>3, <1>4, <2>1
    <3> QED BY <3>2, <3>3
  <2>2. CASE ~(Len(ts) <= capacity)
    <3>1. Grown(ts) # capacity
      BY <1>1, <2>2 DEF Grown
    <3>2. moved'
      BY <1>3, <3>1, Zenon
    <3>3. Len(tickers') > capacity
      BY <1>1, <1>3, <1>4, <2>2
    <3> QED BY <3>2, <3>3
  <2> QED BY <2>1, <2>2
<1>7. IteratorValid' <=> ~moved' /\ pos + 1 <= Len(tickers') + 1
  BY <1>1, <1>3 DEF IteratorValid
<1>8. pos + 1 <= Len(tickers') + 1
        <=> ~(Len(tickers') < Len(tickers) /\ (pos = Len(tickers) \/ Len(tickers') = 0))
  BY <1>1, <1>3, <1>4, <1>5
<1> QED BY <1>3, <1>4, <1>6, <1>7, <1>8 DEF LosesIterator

(* remove_ticker's comment says "it should be safe". Whatever the callbacks *)
(* call, cb_ticker loses its iterator (zc_ticker.cpp:98) in these steps and *)
(* in no other: a callback subscribes an object when the vector is full,    *)
(* unsubscribes one while cb_ticker is at the last entry, or calls stop_all *)
THEOREM IteratorIsLostSo ==
  TickerSpec => [][IteratorValid => (IteratorValid' <=> ~LosesIterator)]_tickerVars
<1>1. TickerTypeOK /\ TickerTypeOK' /\ [TickerNext]_tickerVars
        => [IteratorValid => (IteratorValid' <=> ~LosesIterator)]_tickerVars
  <2> SUFFICES ASSUME TickerTypeOK, TickerTypeOK', TickerNext, IteratorValid
               PROVE  IteratorValid' <=> ~LosesIterator
    OBVIOUS
  <2>0. Len(tickers') \in Nat
    BY LenProperties DEF TickerTypeOK
  <2>1. CASE CallBack
    BY <2>1, CallBackLoses
  <2>2. CASE Operate \/ TickEnd
    <3>1. pos' = 0
      BY <2>2 DEF Operate, TickEnd
    <3>2. ~CallBack
      <4>1. CallBack => pos' = pos + 1 /\ pos \in Nat
        BY LoopingAt DEF CallBack
      <4> QED BY <3>1, <4>1
    <3> QED BY <3>1, <3>2 DEF IteratorValid, LosesIterator
  <2>3. CASE TickBegin
    <3>1. pos' = 1 /\ moved' = FALSE /\ pos = 0
      BY <2>3 DEF TickBegin
    <3>2. ~CallBack
      <4>1. CallBack => pos \in 1..Len(tickers)
        BY LoopingAt DEF CallBack
      <4> QED BY <3>1, <4>1
    <3> QED BY <2>0, <3>1, <3>2 DEF IteratorValid, LosesIterator
  <2>4. CASE Skip
    <3>1. pos \in 1..Len(tickers) /\ Len(tickers) \in Nat /\ ~moved
      BY <2>4, LoopingAt DEF Skip
    <3>2. ~CallBack
      BY <2>4 DEF Skip, CallBack
    <3> QED BY <2>4, <3>1, <3>2 DEF Skip, IteratorValid, LosesIterator
  <2>5. CASE Call
    <3>1. pos \in 1..Len(tickers) /\ Len(tickers) \in Nat /\ ~moved
      BY <2>5, LoopingAt DEF Call
    <3>2. Len(tickers') = Len(tickers) /\ capacity' = capacity /\ pos' = pos + 1 /\ moved' = moved
      BY <2>5, <3>1, TickedProperties DEF Call, TickerTypeOK
    <3>3. IteratorValid'
      BY <3>1, <3>2 DEF IteratorValid
    <3>4. ~LosesIterator
      <4>1. Len(tickers) <= capacity /\ capacity \in Nat
        BY DEF TickerTypeOK
      <4> QED BY <3>1, <3>2, <4>1 DEF LosesIterator
    <3> QED BY <3>3, <3>4
  <2> QED BY <2>1, <2>2, <2>3, <2>4, <2>5 DEF TickerNext, Tick
<1> QED BY <1>1, TickerTypeCorrect, PTL DEF TickerSpec

-----------------------------------------------------------------------------
(* The status messages. The calls in progress: what each innermost-first   *)
(* stack of calls may hold.                                                *)
AllTopics == {NoTopic} \cup UNION {w.topics : w \in Scenes}
Messages == [id : Nat, level : DOMAIN Rank, topic : AllTopics]
Places == {"check", "log", "rotate", "alert", "ask", "fatal", "started", "refresh"}
Frames == [at : Places, msg : Messages \cup {<<>>}]

StackTypes ==
  /\ scene \in Scenes /\ reported \in Nat
  /\ main \in Seq(Frames) /\ log \in Seq(Messages \cup {<<>>})
  /\ progress \in [max : Nat, delta : Nat, prev : Nat, object : AllTopics, dial : Nat]

(* The calls of misc_status that have yet to write their message            *)
Writing == {"check", "log", "rotate"}
Held(f) == {id \in {f.msg.id} : f.at \in Writing}
Pending(s) == {k \in 1..Len(s) : s[k].at \in Writing}
Unwritten(s) == {s[k].msg.id : k \in Pending(s)}
OncePending(s) == \A j, k \in Pending(s) : s[j].msg.id = s[k].msg.id => j = k

(* Only the innermost call can be renaming, and only before the log is open *)
OnlyTopRotates(s) == \A k \in 2..Len(s) : s[k].at # "rotate"
NoAlert(s) == \A k \in 1..Len(s) : s[k].at # "alert"
Rotating == In("rotate")

RotateInv ==
  /\ OnlyTopRotates(main)
  /\ Rotating => ~report_file
  /\ ~report_file => log = <<>>
  /\ ~scene.faulty => NoAlert(main)

Ids(l) == {l[k].id : k \in 1..Len(l)}
Distinct(l) == \A j, k \in 1..Len(l) : l[j].id = l[k].id => j = k

(* Every message of this run is in the log, or in the hands of one call     *)
WriteInv ==
  scene.logfile /\ ~scene.faulty =>
    /\ OncePending(main)
    /\ Distinct(log)
    /\ Ids(log) \cap Unwritten(main) = {}
    /\ Ids(log) \cup Unwritten(main) = 1..reported

StackInv == StackTypes /\ RotateInv /\ WriteInv

-----------------------------------------------------------------------------
(* A call begins, or the innermost is replaced by another                   *)
Push(f, s) == <<f>> \o s

LEMMA OneMore ==
  ASSUME NEW S, NEW s \in Seq(S), NEW f \in S, NEW t, t = <<f>> \o s
  PROVE  /\ t \in Seq(S) /\ Len(s) \in Nat /\ Len(t) = Len(s) + 1
         /\ t[1] = f /\ \A k \in 1..Len(s) : t[k + 1] = s[k]
         /\ \A k \in 1..Len(t) : k = 1 \/ (k - 1 \in 1..Len(s) /\ t[k] = s[k - 1])
         /\ t # <<>> /\ Head(t) = f
<1>1. <<f>> \in Seq(S) /\ Len(<<f>>) = 1 /\ <<f>>[1] = f
  OBVIOUS
<1>2. /\ Len(s) \in Nat /\ t \in Seq(S) /\ Len(t) = 1 + Len(s)
      /\ \A k \in 1..1 + Len(s) : t[k] = IF k <= 1 THEN <<f>>[k] ELSE s[k - 1]
  BY <1>1, ConcatProperties, LenProperties
<1>3. t[1] = f /\ \A k \in 1..Len(s) : t[k + 1] = s[k]
  BY <1>1, <1>2
<1>4. \A k \in 1..Len(t) : k = 1 \/ (k - 1 \in 1..Len(s) /\ t[k] = s[k - 1])
  BY <1>2
<1>5. t # <<>> /\ Head(t) = t[1]
  <2>1. Len(t) # 0
    BY <1>2
  <2>2. t # <<>>
    BY <2>1, EmptySeq
  <2> QED BY <1>2, <2>2, HeadTailProperties
<1> QED BY <1>2, <1>3, <1>4, <1>5

LEMMA Begins ==
  ASSUME NEW s \in Seq(Frames), NEW f \in Frames
  PROVE  /\ Push(f, s) \in Seq(Frames) /\ Push(f, s) # <<>> /\ Head(Push(f, s)) = f
         /\ (\A k \in 1..Len(s) : s[k].at # "rotate") => OnlyTopRotates(Push(f, s))
         /\ NoAlert(s) /\ f.at # "alert" => NoAlert(Push(f, s))
         /\ Unwritten(Push(f, s)) = Unwritten(s) \cup Held(f)
         /\ /\ OncePending(s)
            /\ f.at \in Writing => f.msg.id \notin Unwritten(s)
            => OncePending(Push(f, s))
<1> DEFINE t == Push(f, s)
<1>0. t = <<f>> \o s
  BY DEF Push
<1> HIDE DEF t
<1>1. /\ t \in Seq(Frames) /\ Len(s) \in Nat /\ Len(t) = Len(s) + 1
      /\ t[1] = f /\ \A k \in 1..Len(s) : t[k + 1] = s[k]
      /\ \A k \in 1..Len(t) : k = 1 \/ (k - 1 \in 1..Len(s) /\ t[k] = s[k - 1])
      /\ t # <<>> /\ Head(t) = f
  BY <1>0, OneMore
<1>2. \A k \in 1..Len(s) : k + 1 \in 1..Len(t) /\ k + 1 # 1
  BY <1>1
<1>3. \A k \in Pending(t) : (k = 1 /\ f.at \in Writing)
                             \/ (k - 1 \in Pending(s) /\ t[k] = s[k - 1])
  BY <1>1 DEF Pending
<1>4. \A k \in Pending(s) : k + 1 \in Pending(t) /\ t[k + 1] = s[k]
  BY <1>1, <1>2 DEF Pending
<1>5. f.at \in Writing => 1 \in Pending(t)
  <2>1. 1 \in 1..Len(t)
    BY <1>1
  <2> QED BY <1>1, <2>1 DEF Pending
<1>6. Unwritten(t) = Unwritten(s) \cup Held(f)
  <2>1. ASSUME NEW k \in Pending(t)
        PROVE  t[k].msg.id \in Unwritten(s) \cup Held(f)
    BY <1>1, <1>3 DEF Unwritten, Held
  <2>2. ASSUME NEW k \in Pending(s) PROVE s[k].msg.id \in Unwritten(t)
    BY <1>4 DEF Unwritten
  <2>3. f.at \in Writing => f.msg.id \in Unwritten(t)
    BY <1>1, <1>5 DEF Unwritten
  <2> QED BY <2>1, <2>2, <2>3 DEF Unwritten, Held
<1>7. ASSUME OncePending(s), f.at \in Writing => f.msg.id \notin Unwritten(s)
      PROVE  OncePending(t)
  <2> SUFFICES ASSUME NEW j \in Pending(t), NEW k \in Pending(t), t[j].msg.id = t[k].msg.id PROVE j = k
    BY DEF OncePending
  <2>1. j \in Int /\ k \in Int
    BY DEF Pending
  <2>2. CASE j = 1 /\ k - 1 \in Pending(s) /\ t[k] = s[k - 1]
    BY <1>1, <1>3, <1>7, <2>2 DEF Unwritten, Pending
  <2>3. CASE k = 1 /\ j - 1 \in Pending(s) /\ t[j] = s[j - 1]
    BY <1>1, <1>3, <1>7, <2>3 DEF Unwritten, Pending
  <2>4. CASE j - 1 \in Pending(s) /\ t[j] = s[j - 1] /\ k - 1 \in Pending(s) /\ t[k] = s[k - 1]
    <3>1. j - 1 = k - 1
      BY <1>7, <2>4 DEF OncePending
    <3> QED BY <2>1, <3>1
  <2> QED BY <1>3, <2>2, <2>3, <2>4
<1>8. ASSUME \A k \in 1..Len(s) : s[k].at # "rotate" PROVE OnlyTopRotates(t)
  <2> SUFFICES ASSUME NEW k \in 2..Len(t) PROVE t[k].at # "rotate"
    BY DEF OnlyTopRotates
  <2>1. k \in 1..Len(t) /\ k # 1
    BY <1>1
  <2> QED BY <1>1, <1>8, <2>1
<1>9. ASSUME NoAlert(s), f.at # "alert" PROVE NoAlert(t)
  BY <1>1, <1>9 DEF NoAlert
<1> QED BY <1>1, <1>6, <1>7, <1>8, <1>9 DEF t

(* ... and what remains below it                                            *)
LEMMA Below ==
  ASSUME NEW s \in Seq(Frames), s # <<>>, OnlyTopRotates(s)
  PROVE  /\ Tail(s) \in Seq(Frames) /\ Head(s) \in Frames
         /\ \A k \in 1..Len(Tail(s)) : Tail(s)[k].at # "rotate"
         /\ NoAlert(s) => NoAlert(Tail(s)) /\ Head(s).at # "alert"
         /\ Unwritten(s) = Unwritten(Tail(s)) \cup Held(Head(s))
         /\ OncePending(s) =>
              /\ OncePending(Tail(s))
              /\ Head(s).at \in Writing => Head(s).msg.id \notin Unwritten(Tail(s))
<1> DEFINE t == Tail(s)
           h == Head(s)
<1>1. /\ t \in Seq(Frames) /\ h \in Frames /\ Len(s) \in Nat \ {0} /\ Len(t) = Len(s) - 1
      /\ h = s[1] /\ \A k \in 1..Len(t) : t[k] = s[k + 1]
  BY HeadTailProperties, LenProperties, EmptySeq
<1> HIDE DEF t, h
<1>2. \A k \in 1..Len(t) : k + 1 \in 2..Len(s) /\ k + 1 \in 1..Len(s) /\ k + 1 # 1
  BY <1>1
<1>3. \A k \in 1..Len(s) : k = 1 \/ (k - 1 \in 1..Len(t) /\ t[k - 1] = s[k])
  <2> SUFFICES ASSUME NEW k \in 1..Len(s), k # 1 PROVE k - 1 \in 1..Len(t) /\ t[k - 1] = s[k]
    OBVIOUS
  <2>1. k - 1 \in 1..Len(t) /\ k - 1 + 1 = k
    BY <1>1
  <2> QED BY <1>1, <2>1
<1>4. \A k \in Pending(t) : k + 1 \in Pending(s) /\ s[k + 1] = t[k]
  BY <1>1, <1>2 DEF Pending
<1>5. \A k \in Pending(s) : (k = 1 /\ h.at \in Writing)
                             \/ (k - 1 \in Pending(t) /\ t[k - 1] = s[k])
  BY <1>1, <1>3 DEF Pending
<1>6. 1 \in 1..Len(s)
  BY <1>1
<1>7. h.at \in Writing => 1 \in Pending(s)
  BY <1>1, <1>6 DEF Pending
<1>8. Unwritten(s) = Unwritten(t) \cup Held(h)
  <2>1. ASSUME NEW k \in Pending(s)
        PROVE  s[k].msg.id \in Unwritten(t) \cup Held(h)
    BY <1>1, <1>5 DEF Unwritten, Held
  <2>2. ASSUME NEW k \in Pending(t) PROVE t[k].msg.id \in Unwritten(s)
    BY <1>4 DEF Unwritten
  <2>3. h.at \in Writing => h.msg.id \in Unwritten(s)
    BY <1>1, <1>7 DEF Unwritten
  <2> QED BY <2>1, <2>2, <2>3 DEF Unwritten, Held
<1>9. ASSUME OncePending(s)
      PROVE  OncePending(t) /\ (h.at \in Writing => h.msg.id \notin Unwritten(t))
  <2>1. ASSUME NEW j \in Pending(t), NEW k \in Pending(t), t[j].msg.id = t[k].msg.id PROVE j = k
    <3>1. j + 1 = k + 1
      BY <1>4, <1>9, <2>1 DEF OncePending
    <3>2. j \in Int /\ k \in Int
      BY DEF Pending
    <3> QED BY <3>1, <3>2
  <2>2. ASSUME h.at \in Writing, NEW k \in Pending(t), t[k].msg.id = h.msg.id PROVE FALSE
    <3>1. k + 1 = 1
      BY <1>1, <1>4, <1>7, <1>9, <2>2 DEF OncePending
    <3>2. k + 1 # 1
      BY <1>2 DEF Pending
    <3> QED BY <3>1, <3>2
  <2> QED BY <2>1, <2>2 DEF OncePending, Unwritten
<1>10. \A k \in 1..Len(t) : t[k].at # "rotate"
  BY <1>1, <1>2 DEF OnlyTopRotates
<1>11. ASSUME NoAlert(s) PROVE NoAlert(t) /\ h.at # "alert"
  BY <1>1, <1>2, <1>6, <1>11 DEF NoAlert
<1> QED BY <1>1, <1>8, <1>9, <1>10, <1>11 DEF t, h

(* The innermost call comes to another place (Goto) or returns (Returned)   *)
MovedOn(s, at) == Push(Frame(at, Head(s).msg), Tail(s))

LEMMA Replaces ==
  ASSUME NEW s \in Seq(Frames), s # <<>>, OnlyTopRotates(s), NEW at \in Places
  PROVE  /\ MovedOn(s, at) \in Seq(Frames) /\ MovedOn(s, at) # <<>>
         /\ Head(MovedOn(s, at)).at = at /\ Head(MovedOn(s, at)).msg = Head(s).msg
         /\ OnlyTopRotates(MovedOn(s, at))
         /\ NoAlert(s) /\ at # "alert" => NoAlert(MovedOn(s, at))
         /\ Unwritten(MovedOn(s, at)) = Unwritten(Tail(s)) \cup {id \in {Head(s).msg.id} : at \in Writing}
         /\ OncePending(s) /\ (at \in Writing => Head(s).at \in Writing) => OncePending(MovedOn(s, at))
<1> DEFINE f == Frame(at, Head(s).msg)
           r == Tail(s)
           t == MovedOn(s, at)
<1>1. /\ r \in Seq(Frames) /\ Head(s) \in Frames
      /\ \A k \in 1..Len(r) : r[k].at # "rotate"
      /\ NoAlert(s) => NoAlert(r)
      /\ OncePending(s) =>
           OncePending(r) /\ (Head(s).at \in Writing => Head(s).msg.id \notin Unwritten(r))
  BY Below
<1>3. t = Push(f, r)
  BY DEF MovedOn
<1>2. f \in Frames /\ f.at = at /\ f.msg = Head(s).msg
  BY <1>1 DEF Frame, Frames
<1> HIDE DEF f, r, t
<1>4. /\ t \in Seq(Frames) /\ t # <<>> /\ Head(t) = f
      /\ (\A k \in 1..Len(r) : r[k].at # "rotate") => OnlyTopRotates(t)
      /\ NoAlert(r) /\ f.at # "alert" => NoAlert(t)
      /\ Unwritten(t) = Unwritten(r) \cup Held(f)
      /\ OncePending(r) /\ (f.at \in Writing => f.msg.id \notin Unwritten(r)) => OncePending(t)
  BY <1>1, <1>2, <1>3, Begins
<1>5. NoAlert(s) /\ at # "alert" => NoAlert(t)
  BY <1>1, <1>2, <1>4
<1>6. OncePending(s) /\ (at \in Writing => Head(s).at \in Writing) => OncePending(t)
  BY <1>1, <1>2, <1>4
<1>7. Held(f) = {id \in {Head(s).msg.id} : at \in Writing}
  BY <1>2 DEF Held
<1> QED BY <1>1, <1>2, <1>4, <1>5, <1>6, <1>7 DEF t, r

LEMMA Returns ==
  ASSUME NEW s \in Seq(Frames), s # <<>>, OnlyTopRotates(s)
  PROVE  /\ Tail(s) \in Seq(Frames) /\ OnlyTopRotates(Tail(s))
         /\ Tail(s) # <<>> => Head(Tail(s)).at # "rotate"
<1> DEFINE t == Tail(s)
<1>1. t \in Seq(Frames) /\ \A k \in 1..Len(t) : t[k].at # "rotate"
  BY Below
<1> HIDE DEF t
<1>2. OnlyTopRotates(t)
  BY <1>1, LenProperties DEF OnlyTopRotates
<1>3. ASSUME t # <<>> PROVE Head(t).at # "rotate"
  <2>1. Len(t) \in Nat /\ Len(t) # 0 /\ Head(t) = t[1]
    BY <1>1, <1>3, HeadTailProperties, LenProperties, EmptySeq
  <2>2. 1 \in 1..Len(t)
    BY <2>1
  <2> QED BY <1>1, <2>1, <2>2
<1> QED BY <1>1, <1>2, <1>3 DEF t

(* Outside the innermost call nothing is renaming, so that an event that    *)
(* Fl::check lets in finds no rename half done                              *)
LEMMA NothingRotates ==
  ASSUME NEW s \in Seq(Frames), OnlyTopRotates(s), s # <<>> => Head(s).at # "rotate"
  PROVE  \A k \in 1..Len(s) : s[k].at # "rotate"
<1> SUFFICES ASSUME NEW k \in 1..Len(s) PROVE s[k].at # "rotate"
  OBVIOUS
<1>1. Len(s) \in Nat /\ s # <<>> /\ Head(s) = s[1]
  BY HeadTailProperties, LenProperties, EmptySeq
<1>2. CASE k = 1
  BY <1>1, <1>2
<1>3. CASE k # 1
  BY <1>1, <1>3 DEF OnlyTopRotates
<1> QED BY <1>2, <1>3

LEMMA Logged ==
  ASSUME NEW S, NEW l \in Seq(S), NEW m \in S
  PROVE  /\ Append(l, m) \in Seq(S)
         /\ Ids(Append(l, m)) = Ids(l) \cup {m.id}
         /\ Distinct(l) /\ m.id \notin Ids(l) => Distinct(Append(l, m))
<1> DEFINE t == Append(l, m)
<1>1. /\ t \in Seq(S) /\ Len(l) \in Nat /\ Len(t) = Len(l) + 1 /\ t[Len(l) + 1] = m
      /\ \A k \in 1..Len(l) : t[k] = l[k]
  BY AppendProperties, LenProperties
<1> HIDE DEF t
<1>2. /\ \A k \in 1..Len(l) : k \in 1..Len(t)
      /\ \A k \in 1..Len(t) : k \in 1..Len(l) \/ k = Len(l) + 1
      /\ Len(l) + 1 \in 1..Len(t)
  BY <1>1
<1>3. Ids(t) = Ids(l) \cup {m.id}
  <2>1. ASSUME NEW k \in 1..Len(t) PROVE t[k].id \in Ids(l) \cup {m.id}
    BY <1>1, <1>2 DEF Ids
  <2>2. ASSUME NEW k \in 1..Len(l) PROVE l[k].id \in Ids(t)
    <3>1. k \in 1..Len(t) /\ t[k] = l[k]
      BY <1>1, <1>2
    <3> QED BY <3>1 DEF Ids
  <2>3. m.id \in Ids(t)
    BY <1>1, <1>2 DEF Ids
  <2> QED BY <2>1, <2>2, <2>3 DEF Ids
<1>4. ASSUME Distinct(l), m.id \notin Ids(l) PROVE Distinct(t)
  <2> SUFFICES ASSUME NEW j \in 1..Len(t), NEW k \in 1..Len(t), t[j].id = t[k].id PROVE j = k
    BY DEF Distinct
  <2> QED BY <1>1, <1>2, <1>4 DEF Distinct, Ids
<1> QED BY <1>1, <1>3, <1>4 DEF t

-----------------------------------------------------------------------------
LEMMA StackInit == ASSUME StatusAssumption, StatusInit PROVE StackInv
<1>1. StackTypes
  BY DEF StatusInit, StackTypes, NoProgress, AllTopics
<1>2. Len(main) = 0 /\ Len(log) = 0 /\ main = <<>> /\ log = <<>> /\ reported = 0
  BY DEF StatusInit
<1>3. RotateInv
  BY <1>2 DEF RotateInv, OnlyTopRotates, Rotating, NoAlert, In
<1>4. Ids(log) = {} /\ Unwritten(main) = {} /\ Distinct(log) /\ OncePending(main)
  BY <1>2 DEF Ids, Unwritten, Distinct, OncePending, Pending
<1>5. 1..reported = {}
  BY <1>2
<1>6. WriteInv
  BY <1>4, <1>5 DEF WriteInv
<1> QED BY <1>1, <1>3, <1>6 DEF StackInv

(* misc_status is called, alone or with the rest of a progress call to do   *)
LEMMA Spoken ==
  ASSUME StackInv, CanRun, NEW level \in DOMAIN Rank, NEW topic \in AllTopics, NEW rest,
         rest = main \/ \E at \in {"started", "refresh"} : rest = <<Begun(at)>> \o main,
         MiscStatus(level, topic, rest),
         UNCHANGED <<scene, log, report_file>>,
         progress' \in [max : Nat, delta : Nat, prev : Nat, object : AllTopics, dial : Nat]
  PROVE  StackInv' /\ ~Rotating'
<1> DEFINE m == [id |-> reported + 1, level |-> level, topic |-> topic]
           at == IF scene.banner /\ ~closing THEN "check" ELSE "log"
           f == Frame(at, m)
<1>0. /\ main \in Seq(Frames) /\ reported \in Nat /\ OnlyTopRotates(main)
  BY DEF StackInv, StackTypes, RotateInv
<1>1. main # <<>> => Head(main).at # "rotate"
  BY DEF CanRun, In, Top, Checking, Dialogues
<1>2. \A k \in 1..Len(main) : main[k].at # "rotate"
  BY <1>0, <1>1, NothingRotates
<1>3. /\ rest \in Seq(Frames)
      /\ \A k \in 1..Len(rest) : rest[k].at # "rotate"
      /\ NoAlert(main) => NoAlert(rest)
      /\ Unwritten(rest) = Unwritten(main)
      /\ OncePending(main) => OncePending(rest)
  <2>1. CASE rest = main
    BY <1>0, <1>2, <2>1
  <2>2. CASE \E p \in {"started", "refresh"} : rest = <<Begun(p)>> \o main
    <3>1. PICK p \in {"started", "refresh"} : rest = <<Begun(p)>> \o main
      BY <2>2
    <3> DEFINE b == Begun(p)
    <3>2. b \in Frames /\ b.at = p /\ Held(b) = {} /\ rest = Push(b, main)
      BY <3>1 DEF Push, Begun, Frame, Frames, Places, Held, Writing
    <3> HIDE DEF b
    <3>3. p # "alert" /\ p \notin Writing /\ p # "rotate"
      BY DEF Writing
    <3>4. /\ rest \in Seq(Frames) /\ rest # <<>> /\ Head(rest) = b
          /\ OnlyTopRotates(rest)
          /\ NoAlert(main) /\ b.at # "alert" => NoAlert(rest)
          /\ Unwritten(rest) = Unwritten(main) \cup Held(b)
          /\ OncePending(main) /\ (b.at \in Writing => b.msg.id \notin Unwritten(main)) => OncePending(rest)
      BY <1>0, <1>2, <3>2, Begins
    <3>5. \A k \in 1..Len(rest) : rest[k].at # "rotate"
      BY <3>2, <3>3, <3>4, NothingRotates
    <3> QED BY <3>2, <3>3, <3>4, <3>5
  <2> QED BY <2>1, <2>2
<1>4. /\ m \in Messages /\ m.id = reported + 1 /\ at \in {"check", "log"}
      /\ f \in Frames /\ f.at = at /\ f.msg = m /\ Held(f) = {reported + 1}
  BY <1>0 DEF Messages, Frame, Frames, Places, Held, Writing
<1>5. main' = Push(f, rest) /\ reported' = reported + 1
  BY DEF MiscStatus, Push
<1> HIDE DEF m, at, f
<1>6. f.at \in Writing /\ f.at # "alert" /\ f.at # "rotate" /\ f.msg.id = reported + 1
  BY <1>4 DEF Writing
<1>7. /\ main' \in Seq(Frames) /\ main' # <<>> /\ Head(main') = f /\ OnlyTopRotates(main')
      /\ NoAlert(main) => NoAlert(main')
      /\ Unwritten(main') = Unwritten(main) \cup {reported + 1}
      /\ OncePending(main) /\ reported + 1 \notin Unwritten(main) => OncePending(main')
  <2>1. /\ main' \in Seq(Frames) /\ main' # <<>> /\ Head(main') = f /\ OnlyTopRotates(main')
        /\ NoAlert(rest) /\ f.at # "alert" => NoAlert(main')
        /\ Unwritten(main') = Unwritten(rest) \cup Held(f)
        /\ OncePending(rest) /\ (f.at \in Writing => f.msg.id \notin Unwritten(rest)) => OncePending(main')
    BY <1>3, <1>4, <1>5, Begins
  <2> QED BY <1>3, <1>4, <1>6, <2>1
<1>8. StackTypes'
  BY <1>0, <1>5, <1>7 DEF StackInv, StackTypes
<1>9. RotateInv'
  BY <1>6, <1>7 DEF StackInv, RotateInv, Rotating, In, Top
<1>10. WriteInv'
  <2> SUFFICES ASSUME scene.logfile, ~scene.faulty
               PROVE  /\ OncePending(main') /\ Distinct(log)
                      /\ Ids(log) \cap Unwritten(main') = {}
                      /\ Ids(log) \cup Unwritten(main') = 1..reported + 1
    BY <1>5 DEF WriteInv
  <2>1. /\ OncePending(main) /\ Distinct(log)
        /\ Ids(log) \cap Unwritten(main) = {}
        /\ Ids(log) \cup Unwritten(main) = 1..reported
    BY DEF StackInv, WriteInv
  <2>2. reported + 1 \notin 1..reported /\ 1..reported + 1 = 1..reported \cup {reported + 1}
    BY <1>0
  <2> QED BY <1>7, <2>1, <2>2
<1>11. ~Rotating'
  BY <1>6, <1>7 DEF Rotating, In, Top
<1> QED BY <1>8, <1>9, <1>10, <1>11 DEF StackInv

(* The innermost call comes to another place, or returns                    *)
LEMMA Judged ==
  ASSUME StackInv, main # <<>>, Judge
  PROVE  /\ main' \in Seq(Frames) /\ OnlyTopRotates(main')
         /\ main' # <<>> => Head(main').at # "rotate"
         /\ NoAlert(main) => NoAlert(main')
         /\ Unwritten(main') = Unwritten(Tail(main))
         /\ OncePending(main) => OncePending(main')
<1>0. main \in Seq(Frames) /\ OnlyTopRotates(main)
  BY DEF StackInv, StackTypes, RotateInv
<1>1. Returned \/ Goto("ask") \/ Goto("fatal")
  BY DEF Judge
<1>2. CASE Returned
  <2>1. main' = Tail(main)
    BY <1>2 DEF Returned
  <2>2. /\ NoAlert(main) => NoAlert(Tail(main)) /\ Head(main).at # "alert"
        /\ OncePending(main) =>
             /\ OncePending(Tail(main))
             /\ Head(main).at \in Writing => Head(main).msg.id \notin Unwritten(Tail(main))
    BY <1>0, Below
  <2>3. /\ Tail(main) \in Seq(Frames) /\ OnlyTopRotates(Tail(main))
        /\ Tail(main) # <<>> => Head(Tail(main)).at # "rotate"
    BY <1>0, Returns
  <2> QED BY <2>1, <2>2, <2>3
<1>3. ASSUME NEW at \in {"ask", "fatal"}, Goto(at)
      PROVE  /\ main' \in Seq(Frames) /\ OnlyTopRotates(main')
             /\ main' # <<>> => Head(main').at # "rotate"
             /\ NoAlert(main) => NoAlert(main')
             /\ Unwritten(main') = Unwritten(Tail(main))
             /\ OncePending(main) => OncePending(main')
  <2>1. at \in Places /\ at \notin Writing /\ at # "alert" /\ at # "rotate"
    BY DEF Places, Writing
  <2>2. main' = MovedOn(main, at)
    BY <1>3 DEF Goto, Top, Push, MovedOn
  <2>3. /\ main' \in Seq(Frames) /\ main' # <<>> /\ Head(main').at = at /\ OnlyTopRotates(main')
        /\ NoAlert(main) /\ at # "alert" => NoAlert(main')
        /\ Unwritten(main') = Unwritten(Tail(main)) \cup {id \in {Head(main).msg.id} : at \in Writing}
        /\ OncePending(main) /\ (at \in Writing => Head(main).at \in Writing) => OncePending(main')
    BY <1>0, <2>1, <2>2, Replaces
  <2> QED BY <2>1, <2>3
<1> QED BY <1>1, <1>2, <1>3

(* A call that does not write returns                                       *)
LEMMA Returning ==
  ASSUME StackInv, main # <<>>, Top.at \notin Writing, Returned,
         UNCHANGED <<scene, reported, progress, log, report_file>>
  PROVE  StackInv' /\ ~Rotating'
<1>0. main \in Seq(Frames) /\ OnlyTopRotates(main)
  BY DEF StackInv, StackTypes, RotateInv
<1>1. main' = Tail(main)
  BY DEF Returned
<1>2. /\ NoAlert(main) => NoAlert(main')
      /\ Unwritten(main) = Unwritten(main')
      /\ OncePending(main) => OncePending(main')
  <2>1. /\ NoAlert(main) => NoAlert(Tail(main)) /\ Head(main).at # "alert"
        /\ Unwritten(main) = Unwritten(Tail(main)) \cup Held(Head(main))
        /\ OncePending(main) =>
             /\ OncePending(Tail(main))
             /\ Head(main).at \in Writing => Head(main).msg.id \notin Unwritten(Tail(main))
    BY <1>0, Below
  <2>2. Held(Head(main)) = {}
    BY DEF Held, Top
  <2> QED BY <1>1, <2>1, <2>2
<1>3. /\ main' \in Seq(Frames) /\ OnlyTopRotates(main')
      /\ main' # <<>> => Head(main').at # "rotate"
  <2>1. /\ Tail(main) \in Seq(Frames) /\ OnlyTopRotates(Tail(main))
        /\ Tail(main) # <<>> => Head(Tail(main)).at # "rotate"
    BY <1>0, Returns
  <2> QED BY <1>1, <2>1
<1>4. StackTypes'
  BY <1>3 DEF StackInv, StackTypes
<1>5. RotateInv'
  BY <1>2, <1>3 DEF StackInv, RotateInv, Rotating, In, Top
<1>6. WriteInv'
  BY <1>2 DEF StackInv, WriteInv
<1>7. ~Rotating'
  BY <1>3 DEF Rotating, In, Top
<1> QED BY <1>4, <1>5, <1>6, <1>7 DEF StackInv

(* A call goes on without writing                                           *)
LEMMA GoingOn ==
  ASSUME StackInv, main # <<>>, NEW at \in Places, Goto(at),
         at \in Writing <=> Top.at \in Writing,
         at = "rotate" => ~report_file, at # "alert",
         UNCHANGED <<scene, reported, log, report_file>>,
         progress' \in [max : Nat, delta : Nat, prev : Nat, object : AllTopics, dial : Nat]
  PROVE  StackInv' /\ (Rotating' <=> at = "rotate")
<1>0. main \in Seq(Frames) /\ OnlyTopRotates(main)
  BY DEF StackInv, StackTypes, RotateInv
<1>1. main' = MovedOn(main, at)
  BY DEF Goto, Top, Push, MovedOn
<1>2. /\ main' \in Seq(Frames) /\ main' # <<>> /\ Head(main').at = at /\ OnlyTopRotates(main')
      /\ NoAlert(main) /\ at # "alert" => NoAlert(main')
      /\ Unwritten(main') = Unwritten(Tail(main)) \cup {id \in {Head(main).msg.id} : at \in Writing}
      /\ OncePending(main) /\ (at \in Writing => Head(main).at \in Writing) => OncePending(main')
  BY <1>0, <1>1, Replaces
<1>3. Unwritten(main) = Unwritten(Tail(main)) \cup Held(Head(main))
  BY <1>0, Below
<1>4. {id \in {Head(main).msg.id} : at \in Writing} = Held(Head(main))
  BY DEF Held, Top
<1>5. StackTypes'
  BY <1>2 DEF StackInv, StackTypes
<1>6. RotateInv'
  BY <1>2 DEF StackInv, RotateInv, Rotating, In, Top
<1>7. WriteInv'
  BY <1>2, <1>3, <1>4 DEF StackInv, WriteInv, Top
<1>8. Rotating' <=> at = "rotate"
  BY <1>2 DEF Rotating, In, Top
<1> QED BY <1>5, <1>6, <1>7, <1>8 DEF StackInv

(* A call writes its message to the open log and goes on                    *)
LEMMA Writes ==
  ASSUME StackInv, main # <<>>, Top.at \in Writing, Judge,
         log' = Append(log, Top.msg), report_file', scene' = scene, reported' = reported, progress' = progress
  PROVE  StackInv' /\ ~Rotating'
<1>0. /\ main \in Seq(Frames) /\ OnlyTopRotates(main) /\ log \in Seq(Messages \cup {<<>>})
      /\ Top = Head(main) /\ Head(main) \in Frames
  BY HeadTailProperties DEF StackInv, StackTypes, RotateInv, Top
<1>1. /\ main' \in Seq(Frames) /\ OnlyTopRotates(main')
      /\ main' # <<>> => Head(main').at # "rotate"
      /\ NoAlert(main) => NoAlert(main')
      /\ Unwritten(main') = Unwritten(Tail(main))
      /\ OncePending(main) => OncePending(main')
  BY Judged
<1>2. /\ Unwritten(main) = Unwritten(Tail(main)) \cup Held(Head(main))
      /\ OncePending(main) =>
           /\ OncePending(Tail(main))
           /\ Head(main).at \in Writing => Head(main).msg.id \notin Unwritten(Tail(main))
  BY <1>0, Below
<1> DEFINE m == Top.msg
<1>3. m \in Messages \cup {<<>>} /\ Held(Head(main)) = {m.id}
  BY <1>0 DEF Frames, Held
<1>4. Head(main).msg = m /\ Head(main).at \in Writing
  BY <1>0
<1> HIDE DEF m
<1>5. /\ log' \in Seq(Messages \cup {<<>>})
      /\ Ids(log') = Ids(log) \cup {m.id}
      /\ Distinct(log) /\ m.id \notin Ids(log) => Distinct(log')
  <2>1. log' = Append(log, m)
    BY DEF m
  <2>2. /\ Append(log, m) \in Seq(Messages \cup {<<>>})
        /\ Ids(Append(log, m)) = Ids(log) \cup {m.id}
        /\ Distinct(log) /\ m.id \notin Ids(log) => Distinct(Append(log, m))
    BY <1>0, <1>3, Logged
  <2> QED BY <2>1, <2>2
<1>6. StackTypes'
  BY <1>1, <1>5 DEF StackInv, StackTypes
<1>7. RotateInv'
  BY <1>1 DEF StackInv, RotateInv, Rotating, In, Top
<1>8. WriteInv'
  <2> SUFFICES ASSUME scene.logfile, ~scene.faulty
               PROVE  /\ OncePending(main') /\ Distinct(log')
                      /\ Ids(log') \cap Unwritten(main') = {}
                      /\ Ids(log') \cup Unwritten(main') = 1..reported
    BY DEF WriteInv
  <2>1. /\ OncePending(main) /\ Distinct(log)
        /\ Ids(log) \cap Unwritten(main) = {}
        /\ Ids(log) \cup Unwritten(main) = 1..reported
    BY DEF StackInv, WriteInv
  <2>2. m.id \in Unwritten(main) /\ m.id \notin Unwritten(Tail(main))
    BY <1>2, <1>3, <1>4, <2>1
  <2> QED BY <1>1, <1>2, <1>3, <1>5, <2>1, <2>2
<1>9. ~Rotating'
  BY <1>1 DEF Rotating, In, Top
<1> QED BY <1>6, <1>7, <1>8, <1>9 DEF StackInv

(* ... or what it writes is not asked for: there is no log, or it may fail  *)
LEMMA Silent ==
  ASSUME StackInv, main # <<>>, Judge, ~scene.logfile \/ scene.faulty,
         log' = IF report_file THEN Append(log, Top.msg) ELSE log,
         UNCHANGED <<scene, reported, progress, report_file>>
  PROVE  StackInv' /\ ~Rotating'
<1>0. /\ main \in Seq(Frames) /\ log \in Seq(Messages \cup {<<>>})
      /\ Top \in Frames
  BY HeadTailProperties DEF StackInv, StackTypes, RotateInv, Top
<1>1. /\ main' \in Seq(Frames) /\ OnlyTopRotates(main')
      /\ main' # <<>> => Head(main').at # "rotate"
      /\ NoAlert(main) => NoAlert(main')
  BY Judged
<1>2. log' \in Seq(Messages \cup {<<>>})
  BY <1>0, AppendProperties DEF Frames
<1>3. StackTypes'
  BY <1>1, <1>2 DEF StackInv, StackTypes
<1>4. RotateInv'
  BY <1>1 DEF StackInv, RotateInv, Rotating, In, Top
<1>5. WriteInv'
  BY DEF WriteInv
<1>6. ~Rotating'
  BY <1>1 DEF Rotating, In, Top
<1> QED BY <1>3, <1>4, <1>5, <1>6 DEF StackInv

LEMMA Inside ==
  ASSUME StackInv, NEW at, In(at)
  PROVE  main # <<>> /\ Top.at = at /\ (at = "rotate" => ~report_file /\ log = <<>>)
                     /\ (at = "alert" => scene.faulty)
<1>1. main # <<>> /\ Top.at = at
  BY DEF In
<1>2. at = "rotate" => ~report_file /\ log = <<>>
  BY DEF StackInv, RotateInv, Rotating
<1>3. Len(main) \in Nat /\ Len(main) # 0 /\ Top = main[1]
  BY <1>1, HeadTailProperties, LenProperties, EmptySeq DEF StackInv, StackTypes, Top
<1>4. 1 \in 1..Len(main)
  BY <1>3
<1>5. at = "alert" => scene.faulty
  BY <1>1, <1>3, <1>4 DEF StackInv, RotateInv, NoAlert
<1> QED BY <1>1, <1>2, <1>5

LEMMA StackStep == ASSUME StatusAssumption, StackInv, [StatusNext]_statusVars
  PROVE  StackInv' /\ (Rotating' => Rotate \/ RotateBegin \/ UNCHANGED main)
<1> DEFINE Counts == [max : Nat, delta : Nat, prev : Nat, object : AllTopics, dial : Nat]
<1>0. /\ progress \in Counts /\ scene \in Scenes /\ scene.levels \subseteq DOMAIN Rank
      /\ scene.topics \cup {NoTopic} \subseteq AllTopics
  <2>1. progress \in Counts /\ scene \in Scenes
    BY DEF StackInv, StackTypes
  <2>2. scene.levels \subseteq DOMAIN Rank
    BY <2>1 DEF StatusAssumption
  <2>3. scene.topics \cup {NoTopic} \subseteq AllTopics
    BY <2>1 DEF AllTopics
  <2> QED BY <2>1, <2>2, <2>3
<1>1. ASSUME Speak PROVE StackInv' /\ ~Rotating'
  <2>1. PICK level \in scene.levels, topic \in scene.topics \cup {NoTopic} : Report(level, topic)
    BY <1>1 DEF Speak
  <2>2. /\ CanRun /\ MiscStatus(level, topic, main) /\ UNCHANGED <<scene, log, report_file>>
        /\ progress' \in Counts
    BY <1>0, <2>1 DEF Report, logVars, progressVars
  <2> QED BY <1>0, <2>1, <2>2, Spoken
<1>2. ASSUME Checked PROVE StackInv' /\ ~Rotating'
  <2>1. In("check") /\ Goto("log") /\ UNCHANGED <<scene, reported, log, report_file>> /\ progress' \in Counts
    BY <1>0, <1>2 DEF Checked, logVars, progressVars
  <2>2. main # <<>> /\ Top.at = "check"
    BY <2>1, Inside
  <2> QED BY <2>1, <2>2, GoingOn DEF Writing, Places
<1>3. ASSUME WriteLog PROVE StackInv' /\ ~Rotating'
  <2>1. /\ In("log") /\ Judge /\ UNCHANGED <<scene, reported, progress, report_file>>
        /\ report_file \/ ~scene.logfile
        /\ log' = IF report_file THEN Append(log, Top.msg) ELSE log
    BY <1>3 DEF WriteLog, progressVars
  <2>2. main # <<>> /\ Top.at \in Writing
    BY <2>1, Inside DEF Writing
  <2>3. CASE report_file
    BY <2>1, <2>2, <2>3, Writes
  <2>4. CASE ~report_file
    BY <2>1, <2>2, <2>4, Silent
  <2> QED BY <2>3, <2>4
<1>4. ASSUME RotateBegin PROVE StackInv'
  <2>1. /\ In("log") /\ Goto("rotate") /\ ~report_file
        /\ UNCHANGED <<scene, reported, log, report_file>> /\ progress' \in Counts
    BY <1>0, <1>4 DEF RotateBegin, progressVars
  <2>2. main # <<>> /\ Top.at = "log"
    BY <2>1, Inside
  <2> QED BY <2>1, <2>2, GoingOn DEF Writing, Places
<1>5. ASSUME Rotate PROVE StackInv'
  BY <1>5 DEF Rotate, StackInv, StackTypes, RotateInv, WriteInv, Rotating, In, Top, progressVars
<1>6. ASSUME OpenLog PROVE StackInv' /\ ~Rotating'
  <2>1. /\ In("rotate") /\ Judge /\ log' = <<Top.msg>> /\ report_file'
        /\ scene' = scene /\ reported' = reported /\ progress' = progress
    BY <1>6 DEF OpenLog, progressVars
  <2>2. main # <<>> /\ Top.at \in Writing /\ log = <<>>
    BY <2>1, Inside DEF Writing
  <2>3. log' = Append(log, Top.msg)
    BY <2>1, <2>2
  <2> QED BY <2>1, <2>2, <2>3, Writes
<1>7. ASSUME OpenLogFails PROVE StackInv' /\ ~Rotating'
  <2>1. /\ In("rotate") /\ Goto("alert") /\ scene.faulty
        /\ UNCHANGED <<scene, reported, log, report_file, progress>>
    BY <1>7 DEF OpenLogFails, logVars, progressVars
  <2>2. main # <<>> /\ main \in Seq(Frames) /\ OnlyTopRotates(main) /\ "alert" \in Places
    BY <2>1, Inside DEF StackInv, StackTypes, RotateInv, Places
  <2>3. main' = MovedOn(main, "alert")
    BY <2>1 DEF Goto, Top, Push, MovedOn
  <2>4. /\ main' \in Seq(Frames) /\ main' # <<>> /\ Head(main').at = "alert" /\ OnlyTopRotates(main')
    BY <2>2, <2>3, Replaces
  <2>5. StackTypes'
    BY <2>1, <2>4 DEF StackInv, StackTypes
  <2>6. RotateInv'
    BY <2>1, <2>4 DEF StackInv, RotateInv, Rotating, In, Top
  <2>7. WriteInv'
    BY <2>1 DEF WriteInv
  <2>8. ~Rotating'
    BY <2>4 DEF Rotating, In, Top
  <2> QED BY <2>5, <2>6, <2>7, <2>8 DEF StackInv
<1>8. ASSUME AlertSeen PROVE StackInv' /\ ~Rotating'
  <2>1. /\ In("alert") /\ Judge /\ UNCHANGED <<scene, reported, progress, report_file>>
        /\ log' = IF report_file THEN Append(log, Top.msg) ELSE log
    BY <1>8 DEF AlertSeen, progressVars
  <2>2. main # <<>> /\ scene.faulty
    BY <2>1, Inside
  <2> QED BY <2>1, <2>2, Silent
<1>9. ASSUME AskAnswered \/ FatalSeen \/ Refreshed PROVE StackInv' /\ ~Rotating'
  <2>1. /\ \E at \in {"ask", "fatal", "refresh"} : In(at)
        /\ Returned /\ UNCHANGED <<scene, reported, progress, log, report_file>>
    BY <1>9 DEF AskAnswered, FatalSeen, Refreshed, progressVars, logVars
  <2>2. main # <<>> /\ Top.at \notin Writing
    BY <2>1, Inside DEF Writing
  <2> QED BY <2>1, <2>2, Returning
<1>10. ASSUME ChooseVerbosity \/ ChooseTopic \/ CloseBanner PROVE StackInv' /\ UNCHANGED main
  <2>1. UNCHANGED <<scene, main, reported, progress, log, report_file>>
    BY <1>10 DEF ChooseVerbosity, ChooseTopic, CloseBanner, progressVars, logVars
  <2> QED BY <2>1 DEF StackInv, StackTypes, RotateInv, WriteInv, Rotating, In, Top
<1>11. ASSUME NEW max \in Maxima, NEW object \in scene.topics, StartProgress(max, object)
       PROVE  StackInv' /\ ~Rotating'
  <2>1. /\ CanRun /\ MiscStatus("PROGRESS", object, <<Begun("started")>> \o main)
        /\ UNCHANGED <<scene, log, report_file>>
    BY <1>11 DEF StartProgress, logVars
  <2>2. progress' \in Counts
    <3>1. max \in Nat /\ object \in AllTopics /\ progress.dial \in Nat
      BY <1>0 DEF StatusAssumption
    <3>2. max \div 100 \in Nat
      BY <3>1
    <3> QED BY <1>11, <3>1, <3>2 DEF StartProgress
  <2>3. "PROGRESS" \in DOMAIN Rank /\ object \in AllTopics
    BY <1>0 DEF Rank
  <2> QED BY <2>1, <2>2, <2>3, Spoken
<1>12. ASSUME NEW v \in Values, AddProgress(v) PROVE StackInv' /\ (Rotating' => UNCHANGED main)
  <2>1. /\ CanRun /\ UNCHANGED <<scene, log, report_file>> /\ v \in Nat /\ progress.object \in AllTopics
    BY <1>0, <1>12 DEF AddProgress, logVars, StatusAssumption
  <2>2. progress' \in Counts
    BY <1>0, <1>12, <2>1 DEF AddProgress
  <2>3. CASE MiscStatus("PROGRESS", progress.object, <<Begun("refresh")>> \o main)
    <3>1. "PROGRESS" \in DOMAIN Rank
      BY DEF Rank
    <3> QED BY <2>1, <2>2, <2>3, <3>1, Spoken
  <2>4. CASE UNCHANGED main /\ UNCHANGED reported
    BY <2>1, <2>2, <2>4 DEF StackInv, StackTypes, RotateInv, WriteInv, Rotating, In, Top
  <2>5. CASE main' = <<Begun("refresh")>> \o main /\ UNCHANGED reported
    <3> DEFINE b == Begun("refresh")
    <3>1. b \in Frames /\ b.at = "refresh" /\ Held(b) = {} /\ main' = Push(b, main)
      BY <2>5 DEF Push, Begun, Frame, Frames, Places, Held, Writing
    <3> HIDE DEF b
    <3>2. /\ main \in Seq(Frames) /\ OnlyTopRotates(main)
          /\ main # <<>> => Head(main).at # "rotate"
      BY <2>1 DEF StackInv, StackTypes, RotateInv, CanRun, In, Top, Checking, Dialogues
    <3>3. \A k \in 1..Len(main) : main[k].at # "rotate"
      BY <3>2, NothingRotates
    <3>4. /\ main' \in Seq(Frames) /\ main' # <<>> /\ Head(main') = b
          /\ OnlyTopRotates(main')
          /\ NoAlert(main) /\ b.at # "alert" => NoAlert(main')
          /\ Unwritten(main') = Unwritten(main) \cup Held(b)
          /\ OncePending(main) /\ (b.at \in Writing => b.msg.id \notin Unwritten(main)) => OncePending(main')
      BY <3>1, <3>2, <3>3, Begins
    <3>5. b.at \notin Writing /\ b.at # "alert" /\ b.at # "rotate"
      BY <3>1 DEF Writing
    <3>6. StackTypes'
      BY <2>1, <2>2, <2>5, <3>4 DEF StackInv, StackTypes
    <3>7. RotateInv'
      BY <2>1, <3>4, <3>5 DEF StackInv, RotateInv, Rotating, In, Top
    <3>8. WriteInv'
      BY <2>1, <2>5, <3>1, <3>4, <3>5 DEF StackInv, WriteInv
    <3>9. ~Rotating'
      BY <3>4, <3>5 DEF Rotating, In, Top
    <3> QED BY <3>6, <3>7, <3>8, <3>9 DEF StackInv
  <2> QED BY <1>12, <2>3, <2>4, <2>5 DEF AddProgress
<1>13. ASSUME Started PROVE StackInv' /\ ~Rotating'
  <2>1. In("started") /\ Goto("refresh") /\ UNCHANGED <<scene, reported, log, report_file>>
    BY <1>13 DEF Started, logVars
  <2>2. progress' \in Counts
    BY <1>0, <1>13 DEF Started
  <2>3. main # <<>> /\ Top.at = "started"
    BY <2>1, Inside
  <2> QED BY <2>1, <2>2, <2>3, GoingOn DEF Writing, Places
<1>14. ASSUME CancelProgress PROVE StackInv' /\ ~Rotating'
  <2>1. /\ CanRun /\ MiscStatus("PROGRESS", progress.object, <<Begun("refresh")>> \o main)
        /\ UNCHANGED <<scene, log, report_file>> /\ progress' \in Counts
        /\ "PROGRESS" \in DOMAIN Rank /\ progress.object \in AllTopics
    BY <1>0, <1>14 DEF CancelProgress, logVars, progressVars, Rank
  <2> QED BY <2>1, Spoken
<1>15. ASSUME NextSession PROVE StackInv' /\ ~Rotating'
  <2>1. /\ main' = <<>> /\ reported' = 0 /\ log' = <<>> /\ report_file' = FALSE /\ scene' = scene
        /\ progress' = NoProgress
    BY <1>15 DEF NextSession
  <2>2. NoProgress \in Counts /\ <<>> \in Seq(Frames) /\ <<>> \in Seq(Messages \cup {<<>>})
    <3>1. NoProgress \in Counts
      BY DEF NoProgress, AllTopics
    <3>2. <<>> \in Seq(Frames) /\ <<>> \in Seq(Messages \cup {<<>>})
      BY EmptySeq
    <3> QED BY <3>1, <3>2
  <2>3. StackTypes'
    BY <1>0, <2>1, <2>2 DEF StackTypes
  <2>4. Len(main') = 0 /\ Len(log') = 0
    BY <2>1
  <2>5. RotateInv'
    BY <2>1, <2>4 DEF RotateInv, OnlyTopRotates, Rotating, NoAlert, In
  <2>6. Ids(log') = {} /\ Unwritten(main') = {} /\ Distinct(log') /\ OncePending(main')
    BY <2>4 DEF Ids, Unwritten, Distinct, OncePending, Pending
  <2>7. 1..reported' = {}
    BY <2>1
  <2>8. WriteInv'
    BY <2>6, <2>7 DEF WriteInv
  <2>9. ~Rotating'
    BY <2>1 DEF Rotating, In
  <2> QED BY <2>3, <2>5, <2>8, <2>9 DEF StackInv
<1>16. ASSUME UNCHANGED statusVars PROVE StackInv' /\ UNCHANGED main
  <2>1. UNCHANGED <<scene, main, reported, progress, log, report_file>>
    BY <1>16 DEF statusVars, progressVars, logVars
  <2> QED BY <2>1 DEF StackInv, StackTypes, RotateInv, WriteInv, Rotating, In, Top
<1> HIDE DEF Counts
<1> QED
  BY <1>1, <1>2, <1>3, <1>4, <1>5, <1>6, <1>7, <1>8, <1>9, <1>10, <1>11, <1>12, <1>13, <1>14, <1>15, <1>16
  DEF StatusNext, Progress, End, Kill

-----------------------------------------------------------------------------
(* The files are logs of runs so far, the newer below the older; none is of *)
(* this run before its log is open; and the next rename finds its new name  *)
(* free, unless it is the first.                                            *)
FilesInv ==
  /\ session \in Nat \ {0} /\ cuts \in Nat /\ shift \in -1..Depth - 1
  /\ files \in [0..Depth -> 0..session] /\ logged \subseteq 1..session
  /\ \A j, k \in 0..Depth : j < k /\ files[j] # 0 /\ files[k] # 0 => files[j] > files[k]
  /\ ~report_file => session \notin logged /\ \A k \in 0..Depth : files[k] # session
  /\ Rotating /\ shift < Depth - 1 => files[shift + 1] = 0

(* A log is no further up than newer logs and kills have moved it, and the  *)
(* renaming in progress                                                     *)
Renamed(k) == IF Rotating /\ shift + 1 < k THEN 1 ELSE 0
KeptInv ==
  ~scene.faulty => \A s \in logged :
    Cardinality(Newer(s)) + cuts < Depth =>
      \E k \in 0..Depth : files[k] = s /\ k <= Cardinality(Newer(s)) + cuts + Renamed(k)

LEMMA NewerCount ==
  ASSUME FilesInv, NEW s
  PROVE  IsFiniteSet(Newer(s)) /\ Cardinality(Newer(s)) \in Nat
<1>1. IsFiniteSet(1..session)
  BY FS_Interval DEF FilesInv
<1>2. Newer(s) \subseteq 1..session
  BY DEF FilesInv, Newer
<1> QED BY <1>1, <1>2, FS_Subset, FS_CardinalityType

(* Nothing happens to the files                                             *)
LEMMA FilesAlone ==
  ASSUME FilesInv, KeptInv, ~Rotating', ~Rotating \/ scene.faulty,
         UNCHANGED <<scene, files, shift, report_file, logged, session, cuts>>
  PROVE  FilesInv' /\ KeptInv'
<1>1. FilesInv'
  BY DEF FilesInv
<1>2. ASSUME NEW s PROVE Newer(s)' = Newer(s)
  BY DEF Newer
<1>3. KeptInv'
  <2> SUFFICES ASSUME ~scene.faulty, NEW s \in logged, Cardinality(Newer(s)) + cuts < Depth
               PROVE  \E k \in 0..Depth : files[k] = s /\ k <= Cardinality(Newer(s)) + cuts + Renamed(k)'
    BY <1>2 DEF KeptInv
  <2>1. PICK k \in 0..Depth : files[k] = s /\ k <= Cardinality(Newer(s)) + cuts + Renamed(k)
    BY DEF KeptInv
  <2>2. Renamed(k) = 0 /\ Renamed(k)' = 0
    BY DEF Renamed
  <2> QED BY <2>1, <2>2
<1> QED BY <1>1, <1>3

LEMMA FilesBegin ==
  ASSUME StatusAssumption, FilesInv, KeptInv, RotateBegin
  PROVE  FilesInv' /\ KeptInv'
<1>1. /\ ~Rotating /\ shift' = Depth - 1 /\ UNCHANGED <<scene, files, report_file, logged, session, cuts>>
      /\ Depth \in Nat \ {0}
  BY DEF RotateBegin, Rotating, In, runVars, StatusAssumption
<1>2. FilesInv'
  BY <1>1 DEF FilesInv
<1>3. ASSUME NEW s PROVE Newer(s)' = Newer(s)
  BY <1>1 DEF Newer
<1>4. KeptInv'
  <2> SUFFICES ASSUME ~scene.faulty, NEW s \in logged, Cardinality(Newer(s)) + cuts < Depth
               PROVE  \E k \in 0..Depth : files[k] = s /\ k <= Cardinality(Newer(s)) + cuts + Renamed(k)'
    BY <1>1, <1>3 DEF KeptInv
  <2>1. PICK k \in 0..Depth : files[k] = s /\ k <= Cardinality(Newer(s)) + cuts + Renamed(k)
    BY DEF KeptInv
  <2>2. Renamed(k) = 0 /\ Renamed(k)' = 0
    BY <1>1 DEF Renamed
  <2> QED BY <2>1, <2>2
<1> QED BY <1>2, <1>4

LEMMA FilesRotate ==
  ASSUME StatusAssumption, FilesInv, KeptInv, Rotate
  PROVE  FilesInv' /\ KeptInv'
<1>1. /\ Rotating /\ Rotating' /\ shift >= 0 /\ shift' = shift - 1 /\ Depth \in Nat \ {0}
      /\ UNCHANGED <<scene, report_file, logged, session, cuts>>
      /\ files' = IF files[shift] = 0 THEN files
                  ELSE [files EXCEPT ![shift + 1] = files[shift], ![shift] = 0]
  BY DEF Rotate, Rotating, In, Top, runVars, StatusAssumption
<1>2. /\ shift \in 0..Depth - 1 /\ shift \in 0..Depth /\ shift + 1 \in 0..Depth /\ shift' \in -1..Depth - 1
      /\ files \in [0..Depth -> 0..session] /\ session \in Nat \ {0} /\ cuts \in Nat /\ shift \in Int
      /\ shift' + 1 = shift /\ shift' < Depth - 1
  BY <1>1 DEF FilesInv
<1>3. /\ files' \in [0..Depth -> 0..session]
      /\ files'[shift] = 0
      /\ files[shift] # 0 => files'[shift + 1] = files[shift]
      /\ files[shift] = 0 => files' = files
      /\ \A k \in 0..Depth : k # shift /\ k # shift + 1 => files'[k] = files[k]
  <2>1. CASE files[shift] = 0
    BY <1>1, <1>2, <2>1
  <2>2. CASE files[shift] # 0
    <3>1. files' = [files EXCEPT ![shift + 1] = files[shift], ![shift] = 0]
      BY <1>1, <2>2
    <3>2. shift + 1 # shift /\ files[shift] \in 0..session /\ 0 \in 0..session
      BY <1>2
    <3> QED BY <1>2, <2>2, <3>1, <3>2
  <2> QED BY <2>1, <2>2
<1>4. \A j, k \in 0..Depth : j < k /\ files'[j] # 0 /\ files'[k] # 0 => files'[j] > files'[k]
  <2> SUFFICES ASSUME NEW j \in 0..Depth, NEW k \in 0..Depth, j < k, files'[j] # 0, files'[k] # 0
               PROVE  files'[j] > files'[k]
    OBVIOUS
  <2>0. \A i, h \in 0..Depth : i < h /\ files[i] # 0 /\ files[h] # 0 => files[i] > files[h]
    BY DEF FilesInv
  <2>1. j # shift /\ k # shift
    BY <1>3
  <2>2. CASE files[shift] = 0
    BY <1>3, <2>0, <2>2
  <2>3. CASE files[shift] # 0 /\ j = shift + 1
    BY <1>2, <1>3, <2>0, <2>1, <2>3
  <2>4. CASE files[shift] # 0 /\ k = shift + 1
    BY <1>2, <1>3, <2>0, <2>1, <2>4
  <2>5. CASE j # shift + 1 /\ k # shift + 1
    BY <1>3, <2>0, <2>1, <2>5
  <2> QED BY <2>2, <2>3, <2>4, <2>5
<1>5. ~report_file => session \notin logged /\ \A k \in 0..Depth : files'[k] # session
  <2> SUFFICES ASSUME ~report_file, NEW k \in 0..Depth
               PROVE  session \notin logged /\ files'[k] # session
    BY <1>2
  <2>1. session \notin logged /\ \A j \in 0..Depth : files[j] # session
    BY DEF FilesInv
  <2> QED BY <1>2, <1>3, <2>1
<1>6. FilesInv'
  <2>1. logged \subseteq 1..session
    BY DEF FilesInv
  <2> QED BY <1>1, <1>2, <1>3, <1>4, <1>5, <2>1 DEF FilesInv
<1>7. ASSUME NEW s PROVE Newer(s)' = Newer(s)
  BY <1>1 DEF Newer
<1>8. KeptInv'
  <2> SUFFICES ASSUME ~scene.faulty, NEW s \in logged, Cardinality(Newer(s)) + cuts < Depth
               PROVE  \E k \in 0..Depth : files'[k] = s /\ k <= Cardinality(Newer(s)) + cuts + Renamed(k)'
    BY <1>1, <1>7 DEF KeptInv
  <2> DEFINE n == Cardinality(Newer(s))
  <2>1. PICK k \in 0..Depth : files[k] = s /\ k <= n + cuts + Renamed(k)
    BY DEF KeptInv
  <2>2. n \in Nat /\ s # 0 /\ n + cuts < Depth
    BY NewerCount DEF FilesInv
  <2> HIDE DEF n
  <2>3. /\ Renamed(k) = IF shift + 1 < k THEN 1 ELSE 0
        /\ \A h \in 0..Depth : Renamed(h)' = IF shift < h THEN 1 ELSE 0
    BY <1>1, <1>2 DEF Renamed
  <2>4. CASE k = shift
    <3>1. PICK h \in 0..Depth : h = shift + 1
      BY <1>2
    <3>2. Renamed(k) = 0 /\ Renamed(h)' = 1
      BY <1>2, <2>3, <2>4, <3>1
    <3>3. files'[h] = s
      BY <1>3, <2>1, <2>2, <2>4, <3>1
    <3>4. h <= n + cuts + Renamed(h)'
      BY <1>2, <2>1, <2>2, <2>4, <3>1, <3>2, SMTT(30)
    <3> QED BY <3>3, <3>4 DEF n
  <2>5. CASE k # shift
    <3>1. k # shift + 1 \/ files[shift] = 0
      <4>1. CASE shift < Depth - 1
        BY <1>1, <2>1, <2>2, <4>1 DEF FilesInv
      <4>2. CASE shift = Depth - 1
        <5>1. k = shift + 1 => k = Depth /\ Renamed(k) = 0
          BY <1>1, <1>2, <2>3, <4>2
        <5>2. k # Depth \/ Renamed(k) # 0
          BY <1>1, <1>2, <2>1, <2>2, SMTT(30)
        <5> QED BY <5>1, <5>2
      <4> QED BY <1>2, <4>1, <4>2
    <3>2. files'[k] = s
      BY <1>3, <2>1, <2>5, <3>1
    <3>3. k <= n + cuts + Renamed(k)'
      <4>1. Renamed(k) = (IF shift + 1 < k THEN 1 ELSE 0) /\ Renamed(k)' = (IF shift < k THEN 1 ELSE 0)
        BY <2>3
      <4>2. k \in Int /\ shift + 1 < k => shift < k
        BY <1>2
      <4>3. Renamed(k) <= Renamed(k)' /\ Renamed(k) \in Int /\ Renamed(k)' \in Int
        BY <1>2, <4>1, <4>2
      <4>4. k \in Int /\ n \in Int /\ cuts \in Int
        BY <1>2, <2>2
      <4>5. k <= n + cuts + Renamed(k)
        BY <2>1
      <4> QED BY <4>3, <4>4, <4>5
    <3> QED BY <3>2, <3>3 DEF n
  <2> QED BY <2>4, <2>5
<1> QED BY <1>6, <1>8

LEMMA FilesOpen ==
  ASSUME StatusAssumption, StackInv, FilesInv, KeptInv, OpenLog, ~Rotating'
  PROVE  FilesInv' /\ KeptInv'
<1>1. /\ Rotating /\ shift = -1 /\ ~report_file /\ report_file' /\ Depth \in Nat \ {0}
      /\ UNCHANGED <<scene, shift, session, cuts>>
      /\ files' = [files EXCEPT ![0] = session] /\ logged' = logged \cup {session}
  BY DEF OpenLog, Rotating, runVars, StatusAssumption, StackInv, RotateInv
<1>2. /\ files \in [0..Depth -> 0..session] /\ session \in Nat \ {0} /\ cuts \in Nat
      /\ 0 \in 0..Depth /\ files[0] = 0 /\ logged \subseteq 1..session
      /\ session \notin logged /\ \A k \in 0..Depth : files[k] # session
  BY <1>1 DEF FilesInv
<1>3. /\ files' \in [0..Depth -> 0..session] /\ files'[0] = session
      /\ \A k \in 0..Depth : k # 0 => files'[k] = files[k]
  BY <1>1, <1>2
<1>4. \A j, k \in 0..Depth : j < k /\ files'[j] # 0 /\ files'[k] # 0 => files'[j] > files'[k]
  <2> SUFFICES ASSUME NEW j \in 0..Depth, NEW k \in 0..Depth, j < k, files'[j] # 0, files'[k] # 0
               PROVE  files'[j] > files'[k]
    OBVIOUS
  <2>1. \A i, h \in 0..Depth : i < h /\ files[i] # 0 /\ files[h] # 0 => files[i] > files[h]
    BY DEF FilesInv
  <2>2. k # 0 /\ files'[k] = files[k] /\ files[k] \in 0..session /\ files[k] # session
    BY <1>2, <1>3
  <2>3. CASE j = 0
    BY <1>2, <1>3, <2>2, <2>3
  <2>4. CASE j # 0
    BY <1>3, <2>1, <2>2, <2>4
  <2> QED BY <2>3, <2>4
<1>5. FilesInv'
  <2>1. logged' \subseteq 1..session /\ shift \in -1..Depth - 1
    BY <1>1, <1>2 DEF FilesInv
  <2> QED BY <1>1, <1>2, <1>3, <1>4, <2>1 DEF FilesInv
<1>6. ASSUME NEW s \in logged
      PROVE  /\ Cardinality(Newer(s)) \in Nat
             /\ Cardinality(Newer(s)') = Cardinality(Newer(s)) + 1
  <2>1. Newer(s)' = Newer(s) \cup {session} /\ session \notin Newer(s)
    BY <1>1, <1>2 DEF Newer
  <2>2. IsFiniteSet(Newer(s)) /\ Cardinality(Newer(s)) \in Nat
    BY NewerCount
  <2> QED BY <2>1, <2>2, FS_AddElement
<1>7. KeptInv'
  <2> SUFFICES ASSUME ~scene.faulty, NEW s \in logged', Cardinality(Newer(s)') + cuts < Depth
               PROVE  \E k \in 0..Depth : files'[k] = s /\ k <= Cardinality(Newer(s)') + cuts + Renamed(k)'
    BY <1>1 DEF KeptInv
  <2>0. \A k \in 0..Depth : Renamed(k)' = 0
    BY DEF Renamed
  <2>1. CASE s = session
    <3>1. Newer(s)' = {}
      <4>1. \A r \in logged \cup {session} : r \in Int /\ r <= session
        BY <1>2
      <4>2. Newer(s)' = {r \in logged \cup {session} : r > session}
        BY <1>1, <2>1 DEF Newer
      <4>3. \A r \in logged \cup {session} : ~(r > session)
        BY <1>2, <4>1
      <4> QED BY <4>2, <4>3
    <3>2. Cardinality(Newer(s)') = 0
      BY <3>1, FS_EmptySet
    <3>3. files'[0] = s /\ 0 <= Cardinality(Newer(s)') + cuts + Renamed(0)'
      BY <1>2, <1>3, <2>0, <2>1, <3>2
    <3> QED BY <1>2, <3>3
  <2>2. CASE s \in logged
    <3> DEFINE n == Cardinality(Newer(s))
    <3>1. n \in Nat /\ Cardinality(Newer(s)') = n + 1 /\ n + cuts < Depth
      <4>1. n \in Nat /\ Cardinality(Newer(s)') = n + 1
        BY <1>6, <2>2
      <4> HIDE DEF n
      <4> QED BY <1>1, <1>2, <4>1
    <3>2. PICK k \in 0..Depth : files[k] = s /\ k <= n + cuts + Renamed(k)
      BY <1>1, <2>2, <3>1 DEF KeptInv
    <3> HIDE DEF n
    <3>3. k # 0 /\ Renamed(k) = 1
      BY <1>1, <1>2, <2>2, <3>2 DEF Renamed
    <3>4. files'[k] = s /\ k <= n + 1 + cuts + Renamed(k)'
      BY <1>2, <1>3, <2>0, <3>1, <3>2, <3>3
    <3> QED BY <3>1, <3>4
  <2> QED BY <1>1, <2>1, <2>2
<1> QED BY <1>5, <1>7

LEMMA FilesNext ==
  ASSUME StatusAssumption, FilesInv, KeptInv, End \/ Kill
  PROVE  FilesInv' /\ KeptInv'
<1>1. /\ UNCHANGED <<scene, files, logged>> /\ session' = session + 1 /\ shift' = -1 /\ ~report_file'
      /\ main' = <<>> /\ Depth \in Nat \ {0}
  BY DEF End, Kill, NextSession, StatusAssumption
<1>2. ~Rotating'
  BY <1>1 DEF Rotating, In
<1>3. cuts' = cuts + (IF Rotating /\ shift < Depth - 1 THEN 1 ELSE 0)
  <2>1. CASE End
    BY <2>1 DEF End, Rotating, In, FilesInv
  <2>2. CASE Kill
    BY <2>2 DEF Kill, Rotating, FilesInv
  <2> QED BY <2>1, <2>2
<1>4. FilesInv'
  <2>1. /\ session' \in Nat \ {0} /\ cuts' \in Nat /\ shift' \in -1..Depth - 1
    BY <1>1, <1>3 DEF FilesInv
  <2>2. files \in [0..Depth -> 0..session + 1] /\ logged \subseteq 1..session + 1
    <3>1. 0..session \subseteq 0..session + 1 /\ 1..session \subseteq 1..session + 1
      BY DEF FilesInv
    <3> QED BY <3>1 DEF FilesInv
  <2>3. session + 1 \notin logged /\ \A k \in 0..Depth : files[k] # session + 1
    BY DEF FilesInv
  <2>4. \A j, k \in 0..Depth : j < k /\ files[j] # 0 /\ files[k] # 0 => files[j] > files[k]
    BY DEF FilesInv
  <2> QED BY <1>1, <1>2, <2>1, <2>2, <2>3, <2>4 DEF FilesInv
<1>5. ASSUME NEW s PROVE Newer(s)' = Newer(s)
  BY <1>1 DEF Newer
<1>6. KeptInv'
  <2> SUFFICES ASSUME ~scene.faulty, NEW s \in logged, Cardinality(Newer(s)) + cuts' < Depth
               PROVE  \E k \in 0..Depth : files[k] = s /\ k <= Cardinality(Newer(s)) + cuts' + Renamed(k)'
    BY <1>1, <1>5 DEF KeptInv
  <2> DEFINE n == Cardinality(Newer(s))
  <2>1. n \in Nat /\ cuts \in Nat /\ cuts' \in Nat /\ cuts <= cuts' /\ n + cuts < Depth
    BY <1>1, <1>3, NewerCount DEF FilesInv
  <2>2. PICK k \in 0..Depth : files[k] = s /\ k <= n + cuts + Renamed(k)
    BY <2>1 DEF KeptInv
  <2> HIDE DEF n
  <2>3. Renamed(k)' = 0 /\ cuts + Renamed(k) <= cuts'
    BY <1>1, <1>2, <1>3, <2>1 DEF Renamed, FilesInv
  <2>4. Renamed(k) \in Nat
    BY DEF Renamed
  <2>5. k <= n + cuts' + Renamed(k)'
    BY <2>1, <2>2, <2>3, <2>4
  <2> QED BY <2>2, <2>5 DEF n
<1> QED BY <1>4, <1>6

LEMMA FilesStep ==
  ASSUME StatusAssumption, StackInv, FilesInv, KeptInv, [StatusNext]_statusVars
  PROVE  FilesInv' /\ KeptInv'
<1>1. CASE Rotate \/ RotateBegin \/ End \/ Kill
  BY <1>1, FilesRotate, FilesBegin, FilesNext
<1>2. CASE OpenLog
  <2>1. In("rotate") /\ Judge
    BY <1>2 DEF OpenLog
  <2>2. ~Rotating'
    BY <2>1, Inside, Judged DEF Rotating, In, Top
  <2> QED BY <1>2, <2>2, FilesOpen
<1>3. CASE OpenLogFails
  <2>1. UNCHANGED <<scene, files, shift, report_file, logged, session, cuts>> /\ scene.faulty
    BY <1>3 DEF OpenLogFails, logVars, runVars
  <2>2. ~Rotating'
    <3>1. main # <<>> /\ main \in Seq(Frames) /\ OnlyTopRotates(main) /\ "alert" \in Places
      BY <1>3 DEF OpenLogFails, In, StackInv, StackTypes, RotateInv, Places
    <3>2. main' = MovedOn(main, "alert")
      BY <1>3 DEF OpenLogFails, Goto, Top, Push, MovedOn
    <3>3. Head(main').at = "alert"
      BY <3>1, <3>2, Replaces
    <3> QED BY <3>3 DEF Rotating, In, Top
  <2> QED BY <2>1, <2>2, FilesAlone
<1>4. CASE \/ Speak \/ Checked \/ WriteLog \/ AlertSeen \/ AskAnswered \/ FatalSeen \/ Progress
  <2>1. UNCHANGED <<scene, files, shift, report_file, logged, session, cuts>>
    BY <1>4 DEF Speak, Report, Checked, WriteLog, AlertSeen, AskAnswered, FatalSeen, Progress, StartProgress,
                AddProgress, Started, CancelProgress, Refreshed, logVars, runVars
  <2>2. ~Rotating
    BY <1>4 DEF Speak, Report, Checked, WriteLog, AlertSeen, AskAnswered, FatalSeen, Progress, StartProgress,
                AddProgress, Started, CancelProgress, Refreshed, CanRun, Rotating, In, Checking, Dialogues
  <2>3. ~Rotating'
    <3>1. UNCHANGED main => ~Rotating'
      BY <2>2 DEF Rotating, In, Top
    <3>2. ~Rotate
      BY <2>2 DEF Rotate, Rotating
    <3>3. ~RotateBegin
      BY <1>4 DEF RotateBegin, Speak, Report, Checked, WriteLog, AlertSeen, AskAnswered, FatalSeen, Progress,
                  StartProgress, AddProgress, Started, CancelProgress, Refreshed, CanRun, In, Checking, Dialogues
    <3> QED BY <3>1, <3>2, <3>3, StackStep
  <2> QED BY <2>1, <2>2, <2>3, FilesAlone
<1>5. CASE ChooseVerbosity \/ ChooseTopic \/ CloseBanner \/ UNCHANGED statusVars
  <2>1. UNCHANGED <<scene, main, files, shift, report_file, logged, session, cuts>>
    BY <1>5 DEF ChooseVerbosity, ChooseTopic, CloseBanner, statusVars, logVars, runVars
  <2> QED BY <2>1 DEF FilesInv, KeptInv, Newer, Renamed, Rotating, In, Top
<1> QED BY <1>1, <1>2, <1>3, <1>4, <1>5 DEF StatusNext

-----------------------------------------------------------------------------
(* A sequence of messages of different numbers that has all of 1..n has n   *)
LEMMA AsManyAsNumbers ==
  ASSUME NEW S, NEW l \in Seq(S), NEW n \in Nat, Distinct(l), Ids(l) = 1..n
  PROVE  Len(l) = n
<1> DEFINE f == [k \in 1..Len(l) |-> l[k].id]
<1>1. f \in Injection(1..Len(l), 1..n)
  BY DEF Injection, IsInjective, Distinct, Ids
<1>2. f \in Surjection(1..Len(l), 1..n)
  BY DEF Surjection, Ids
<1>3. ExistsBijection(1..Len(l), 1..n)
  BY <1>1, <1>2 DEF ExistsBijection, Bijection
<1>4. Len(l) \in Nat
  BY LenProperties
<1>5. /\ IsFiniteSet(1..Len(l)) /\ Cardinality(1..Len(l)) = Len(l)
      /\ Cardinality(1..n) = n
  <2>1. /\ IsFiniteSet(1..Len(l)) /\ Cardinality(1..Len(l)) = IF 1 > Len(l) THEN 0 ELSE Len(l) - 1 + 1
    <3> DEFINE c == Len(l)
    <3>1. c \in Int /\ 1 \in Int
      BY <1>4
    <3> HIDE DEF c
    <3>2. IsFiniteSet(1..c) /\ Cardinality(1..c) = IF 1 > c THEN 0 ELSE c - 1 + 1
      BY <3>1, FS_Interval
    <3> QED BY <3>2 DEF c
  <2>2. Cardinality(1..n) = IF 1 > n THEN 0 ELSE n - 1 + 1
    BY FS_Interval
  <2> QED BY <1>4, <2>1, <2>2
<1>6. Cardinality(1..n) = Cardinality(1..Len(l))
  BY <1>3, <1>5, FS_Bijection
<1> QED BY <1>5, <1>6

LEMMA LogsKept ==
  ASSUME StackInv, FilesInv, KeptInv
  PROVE  LogsAreKept
<1>1. ASSUME scene.logfile, ~scene.faulty, main = <<>>
      PROVE  Len(log) = reported /\ {log[k].id : k \in DOMAIN log} = 1..reported
  <2>1. /\ Distinct(log) /\ Ids(log) \cup Unwritten(main) = 1..reported
        /\ log \in Seq(Messages \cup {<<>>}) /\ reported \in Nat
    BY <1>1 DEF StackInv, StackTypes, WriteInv
  <2>2. Len(main) = 0
    BY <1>1
  <2>3. Unwritten(main) = {}
    BY <2>2 DEF Unwritten, Pending
  <2>4. DOMAIN log = 1..Len(log)
    BY <2>1, LenProperties
  <2>5. Len(log) = reported
    BY <2>1, <2>3, AsManyAsNumbers
  <2> QED BY <2>1, <2>3, <2>4, <2>5 DEF Ids
<1>2. \A j, k \in 0..Depth : j < k /\ files[j] # 0 /\ files[k] # 0 => files[j] > files[k]
  BY DEF FilesInv
<1>3. ~scene.faulty => \A s \in logged :
        (Cardinality(Newer(s)) + cuts < Depth) => \E k \in 0..Depth : files[k] = s
  BY DEF KeptInv
<1> QED BY <1>1, <1>2, <1>3 DEF LogsAreKept

LEMMA FilesInit == ASSUME StatusAssumption, StatusInit PROVE FilesInv /\ KeptInv
<1>1. Depth \in Nat \ {0} /\ files = [k \in 0..Depth |-> 0] /\ session = 1 /\ cuts = 0 /\ shift = -1
      /\ logged = {} /\ main = <<>>
  BY DEF StatusInit, StatusAssumption
<1>2. ~Rotating
  BY <1>1 DEF Rotating, In
<1>3. files \in [0..Depth -> 0..session] /\ \A k \in 0..Depth : files[k] = 0
  BY <1>1
<1>4. FilesInv
  BY <1>1, <1>2, <1>3 DEF FilesInv
<1>5. KeptInv
  BY <1>1 DEF KeptInv
<1> QED BY <1>4, <1>5

(* Between calls the log has every message of this run once (if it opens),  *)
(* the old logs are in their order, the newest first, and only the oldest   *)
(* are lost: for every number of old logs, of messages, of calls in each    *)
(* other's Fl::check and of kills.                                          *)
THEOREM StatusLogsAreKept == StatusSpec => []LogsAreKept
<1> DEFINE Inv == StackInv /\ FilesInv /\ KeptInv
<1>1. StatusInit => Inv
  BY StatusAssumption, StackInit, FilesInit
<1>2. Inv /\ [StatusNext]_statusVars => Inv'
  BY StatusAssumption, StackStep, FilesStep
<1>3. Inv => LogsAreKept
  BY LogsKept
<1> HIDE DEF Inv
<1> QED BY <1>1, <1>2, <1>3, PTL DEF StatusSpec

-----------------------------------------------------------------------------
(* Numbers are reached from zero                                            *)
LEMMA NatInduct ==
  ASSUME NEW T, 0 \in T, \A n \in Nat : n \in T => n + 1 \in T
  PROVE  \A n \in Nat : n \in T
<1> DEFINE R == OpToRel(<, Nat)
           M == Nat \ T
<1>1. IsWellFoundedOn(R, Nat)
  BY NatLessThanWellFounded
<1>2. \A x, y \in Nat : <<y, x>> \in R <=> y < x
  BY DEF OpToRel
<1> HIDE DEF R
<1>3. SUFFICES ASSUME M # {} PROVE FALSE
  OBVIOUS
<1>4. PICK x \in M : \A y \in M : ~(<<y, x>> \in R)
  <2>1. M \subseteq Nat
    OBVIOUS
  <2> HIDE DEF M
  <2> QED BY <1>1, <1>3, <2>1, WFMin
<1>5. x \in Nat /\ x # 0
  BY <1>4
<1>6. x - 1 \in Nat /\ x - 1 < x /\ x - 1 + 1 = x
  BY <1>5
<1>7. x - 1 \in M
  BY <1>4, <1>5, <1>6
<1> QED BY <1>2, <1>4, <1>5, <1>6, <1>7

(* The display, message by message                                          *)
Filtering(g, h, v, f) ==
  g = [n \in 0..Len(h) |->
         IF n = 0 THEN <<>> ELSE IF Passes(h[n], v, f) THEN Append(g[n - 1], h[n]) ELSE g[n - 1]]

LEMMA FilteringStep ==
  ASSUME NEW g, NEW h, NEW v, NEW f, Filtering(g, h, v, f), NEW n \in 0..Len(h), NEW p, p = n - 1
  PROVE  g[n] = IF n = 0 THEN <<>> ELSE IF Passes(h[n], v, f) THEN Append(g[p], h[n]) ELSE g[p]
<1> DEFINE F == [i \in 0..Len(h) |->
             IF i = 0 THEN <<>> ELSE IF Passes(h[i], v, f) THEN Append(g[i - 1], h[i]) ELSE g[i - 1]]
<1>1. g = F
  BY DEF Filtering
<1>2. F[n] = IF n = 0 THEN <<>> ELSE IF Passes(h[n], v, f) THEN Append(g[p], h[n]) ELSE g[p]
  OBVIOUS
<1> HIDE DEF F
<1> QED BY <1>1, <1>2

LEMMA FilteringExists ==
  ASSUME NEW S, NEW h \in Seq(S), NEW v, NEW f
  PROVE  \E g : Filtering(g, h, v, f)
<1> DEFINE Up(N, g) ==
      g = [n \in 0..N |->
             IF n = 0 THEN <<>> ELSE IF Passes(h[n], v, f) THEN Append(g[n - 1], h[n]) ELSE g[n - 1]]
           T == {N \in Nat : \E g : Up(N, g)}
<1>1. 0 \in T
  <2> DEFINE g == [n \in 0..0 |-> <<>>]
  <2>1. Up(0, g)
    OBVIOUS
  <2> QED BY <2>1
<1>2. ASSUME NEW N \in Nat, N \in T PROVE N + 1 \in T
  <2>1. PICK g : Up(N, g)
    BY <1>2
  <2> DEFINE e == IF Passes(h[N + 1], v, f) THEN Append(g[N], h[N + 1]) ELSE g[N]
             k == [n \in 0..N + 1 |-> IF n = N + 1 THEN e ELSE g[n]]
  <2>2. ASSUME NEW n \in 0..N + 1
        PROVE  k[n] = IF n = 0 THEN <<>> ELSE IF Passes(h[n], v, f) THEN Append(k[n - 1], h[n]) ELSE k[n - 1]
    <3>1. CASE n = N + 1
      <4>1. n # 0 /\ n - 1 = N /\ k[N] = g[N] /\ k[n] = e
        BY <3>1
      <4> QED BY <3>1, <4>1
    <3>2. CASE n \in 0..N
      <4>1. k[n] = g[n] /\ (n # 0 => n - 1 \in 0..N /\ k[n - 1] = g[n - 1])
        BY <3>2
      <4> QED BY <2>1, <3>2, <4>1
    <3> QED BY <3>1, <3>2
  <2>3. Up(N + 1, k)
    BY <2>2
  <2> HIDE DEF k, Up
  <2>4. \E q : Up(N + 1, q)
    BY <2>3
  <2> QED BY <2>4
<1> HIDE DEF T
<1>3. \A N \in Nat : N \in T
  BY <1>1, <1>2, NatInduct
<1>4. Len(h) \in T
  BY <1>3, LenProperties
<1> QED BY <1>4 DEF T, Filtering

LEMMA ShownIsFiltered ==
  ASSUME NEW S, NEW h \in Seq(S), NEW v, NEW f
  PROVE  \E g : Filtering(g, h, v, f) /\ Shown(h, v, f) = g[Len(h)]
<1> DEFINE c == CHOOSE g : Filtering(g, h, v, f)
<1>1. Filtering(c, h, v, f)
  <2>1. \E g : Filtering(g, h, v, f)
    BY FilteringExists
  <2> QED BY <2>1, Zenon
<1>2. Shown(h, v, f) = c[Len(h)]
  BY DEF Shown, Filtering
<1> HIDE DEF c
<1> QED BY <1>1, <1>2

LEMMA ShownAppended ==
  ASSUME NEW S, NEW h \in Seq(S), NEW m \in S, NEW v, NEW f
  PROVE  Shown(Append(h, m), v, f) = IF Passes(m, v, f) THEN Append(Shown(h, v, f), m) ELSE Shown(h, v, f)
<1> DEFINE t == Append(h, m)
           l == Len(h)
<1>1. /\ t \in Seq(S) /\ l \in Nat /\ Len(t) = l + 1 /\ t[l + 1] = m /\ \A k \in 1..l : t[k] = h[k]
  BY AppendProperties, LenProperties
<1>2. PICK g : Filtering(g, h, v, f) /\ Shown(h, v, f) = g[l]
  BY ShownIsFiltered
<1> HIDE DEF t
<1>3. PICK k : Filtering(k, t, v, f) /\ Shown(t, v, f) = k[Len(t)]
  BY <1>1, ShownIsFiltered
<1> HIDE DEF l
<1> DEFINE T == {n \in Nat : n <= l => k[n] = g[n]}
<1>4. 0 \in T
  <2>1. 0 \in 0..Len(t) /\ 0 \in 0..l
    BY <1>1
  <2> QED BY <1>2, <1>3, <2>1, FilteringStep DEF l
<1>5. ASSUME NEW n \in Nat, n \in T PROVE n + 1 \in T
  <2> SUFFICES ASSUME n + 1 <= l PROVE k[n + 1] = g[n + 1]
    OBVIOUS
  <2>1. /\ n + 1 \in 0..Len(t) /\ n + 1 \in 0..l /\ n + 1 \in 1..l /\ n + 1 # 0 /\ n + 1 - 1 = n /\ n <= l
    BY <1>1
  <2>2. k[n + 1] = IF Passes(t[n + 1], v, f) THEN Append(k[n], t[n + 1]) ELSE k[n]
    BY <1>3, <2>1, FilteringStep
  <2>3. g[n + 1] = IF Passes(h[n + 1], v, f) THEN Append(g[n], h[n + 1]) ELSE g[n]
    BY <1>2, <2>1, FilteringStep DEF l
  <2> QED BY <1>1, <1>5, <2>1, <2>2, <2>3
<1> HIDE DEF T
<1>6. l \in T
  BY <1>1, <1>4, <1>5, NatInduct
<1>7. k[l] = g[l]
  BY <1>1, <1>6 DEF T
<1>8. k[l + 1] = IF Passes(t[l + 1], v, f) THEN Append(k[l], t[l + 1]) ELSE k[l]
  <2> DEFINE i == l + 1
  <2>1. i \in 0..Len(t) /\ i # 0 /\ l = i - 1
    BY <1>1
  <2> HIDE DEF i
  <2>2. k[i] = IF Passes(t[i], v, f) THEN Append(k[l], t[i]) ELSE k[l]
    BY <1>3, <2>1, FilteringStep
  <2> QED BY <2>2 DEF i
<1>9. Shown(t, v, f) = k[l + 1]
  BY <1>1, <1>3
<1> QED BY <1>1, <1>2, <1>7, <1>8, <1>9 DEF t, l

-----------------------------------------------------------------------------
(* The banner. A progress call that has shown its message and has yet to    *)
(* set the dial, if there is one, is the outermost call.                    *)
StartedAt(s) == {k \in 1..Len(s) : s[k].at = "started"}
StartedLast(s) == StartedAt(s) \subseteq {Len(s)}

ShownInv ==
  /\ message_history \in Seq(Messages)
  /\ display = Shown(message_history, verbosity, filter_topic)

Deltas == {max \div 100 : max \in Maxima \cup {0}}
Reported == Values \cup {0}
DialInv ==
  ~scene.nested =>
    /\ value \in Reported /\ progress.prev \in Reported /\ progress.delta \in Deltas
    /\ StartedLast(main)
    /\ IF StartedAt(main) = {}
       THEN progress.dial = progress.prev /\ value - progress.dial \in 0..progress.delta
       ELSE progress.prev = 0 /\ value = 0

LEMMA DeltaIsNat == ASSUME StatusAssumption, NEW d \in Deltas PROVE d \in Nat
<1>1. PICK max \in Maxima \cup {0} : d = max \div 100
  BY DEF Deltas
<1>2. max \in Nat
  BY <1>1 DEF StatusAssumption
<1> QED BY <1>1, <1>2

(* misc_status shows its message if the choices let it pass                 *)
LEMMA SpokenIsShown ==
  ASSUME StackTypes, ShownInv, NEW level \in DOMAIN Rank, NEW topic \in AllTopics, NEW rest,
         MiscStatus(level, topic, rest), UNCHANGED choiceVars
  PROVE  ShownInv'
<1> DEFINE m == [id |-> reported + 1, level |-> level, topic |-> topic]
<1>1. m \in Messages
  BY DEF StackTypes, Messages
<1>2. UNCHANGED <<verbosity, filter_topic>>
  BY DEF choiceVars
<1>3. CASE ~scene.banner
  <2>1. UNCHANGED <<message_history, display>>
    BY <1>3 DEF MiscStatus, bannerVars
  <2> QED BY <1>2, <2>1 DEF ShownInv
<1>4. CASE scene.banner
  <2>1. CopyMsg(m)
    BY <1>4 DEF MiscStatus
  <2> HIDE DEF m
  <2>2. /\ message_history' = Append(message_history, m)
        /\ display' = IF Passes(m, verbosity, filter_topic) THEN Append(display, m) ELSE display
    BY <2>1 DEF CopyMsg
  <2>3. message_history \in Seq(Messages) /\ display = Shown(message_history, verbosity, filter_topic)
    BY DEF ShownInv
  <2>4. message_history' \in Seq(Messages)
    BY <1>1, <2>2, <2>3, AppendProperties
  <2>5. Shown(Append(message_history, m), verbosity, filter_topic)
          = IF Passes(m, verbosity, filter_topic) THEN Append(Shown(message_history, verbosity, filter_topic), m)
            ELSE Shown(message_history, verbosity, filter_topic)
    BY <1>1, <2>3, ShownAppended
  <2>6. display' = Shown(message_history', verbosity', filter_topic')
    BY <1>2, <2>2, <2>3, <2>5
  <2> QED BY <2>4, <2>6 DEF ShownInv
<1> QED BY <1>3, <1>4

LEMMA NothingShown == ASSUME NEW v, NEW f PROVE Shown(<<>>, v, f) = <<>>
<1> DEFINE h == <<>>
<1>1. h \in Seq({}) /\ Len(h) = 0
  BY EmptySeq
<1> HIDE DEF h
<1>2. PICK g : Filtering(g, h, v, f) /\ Shown(h, v, f) = g[Len(h)]
  BY <1>1, ShownIsFiltered
<1>3. 0 \in 0..Len(h)
  BY <1>1
<1>4. g[0] = <<>>
  BY <1>2, <1>3, FilteringStep
<1> QED BY <1>1, <1>2, <1>4 DEF h

LEMMA ShownStep ==
  ASSUME StatusAssumption, StackTypes, ShownInv, [StatusNext]_statusVars
  PROVE  ShownInv'
<1>0. /\ progress.object \in AllTopics /\ scene.levels \subseteq DOMAIN Rank
      /\ scene.topics \cup {NoTopic} \subseteq AllTopics /\ "PROGRESS" \in DOMAIN Rank
  <2>1. progress.object \in AllTopics /\ scene \in Scenes
    BY DEF StackTypes
  <2>2. scene.levels \subseteq DOMAIN Rank
    BY <2>1 DEF StatusAssumption
  <2>3. scene.topics \cup {NoTopic} \subseteq AllTopics
    BY <2>1 DEF AllTopics
  <2>4. "PROGRESS" \in DOMAIN Rank
    BY DEF Rank
  <2> QED BY <2>1, <2>2, <2>3, <2>4
<1>1. CASE UNCHANGED <<message_history, display, verbosity, filter_topic>>
  BY <1>1 DEF ShownInv
<1>2. ASSUME NEW level \in scene.levels, NEW topic \in scene.topics \cup {NoTopic}, Report(level, topic)
      PROVE  ShownInv'
  <2>1. MiscStatus(level, topic, main) /\ UNCHANGED choiceVars
    BY <1>2 DEF Report
  <2> QED BY <1>0, <2>1, SpokenIsShown
<1>3. ASSUME NEW max \in Maxima, NEW object \in scene.topics, StartProgress(max, object)
      PROVE  ShownInv'
  <2>1. MiscStatus("PROGRESS", object, <<Begun("started")>> \o main) /\ UNCHANGED choiceVars
    BY <1>3 DEF StartProgress
  <2> QED BY <1>0, <2>1, SpokenIsShown
<1>4. ASSUME CancelProgress PROVE ShownInv'
  <2>1. MiscStatus("PROGRESS", progress.object, <<Begun("refresh")>> \o main) /\ UNCHANGED choiceVars
    BY <1>4 DEF CancelProgress
  <2> QED BY <1>0, <2>1, SpokenIsShown
<1>5. ASSUME NEW v \in Values, AddProgress(v) PROVE ShownInv'
  <2>1. UNCHANGED choiceVars
    BY <1>5 DEF AddProgress
  <2>2. CASE MiscStatus("PROGRESS", progress.object, <<Begun("refresh")>> \o main)
    BY <1>0, <2>1, <2>2, SpokenIsShown
  <2>3. CASE UNCHANGED bannerVars
    BY <1>1, <2>1, <2>3 DEF choiceVars, bannerVars
  <2> QED BY <1>5, <2>2, <2>3 DEF AddProgress
<1>6. ASSUME NEW v, NEW f, UpdateDisplay(v, f), UNCHANGED message_history PROVE ShownInv'
  BY <1>6 DEF UpdateDisplay, ShownInv
<1>7. ASSUME NextSession PROVE ShownInv'
  <2>1. message_history' = <<>> /\ display' = <<>>
    BY <1>7 DEF NextSession
  <2>2. <<>> \in Seq(Messages)
    BY EmptySeq
  <2> QED BY <2>1, <2>2, NothingShown DEF ShownInv
<1>8. ASSUME \/ Checked \/ WriteLog \/ RotateBegin \/ Rotate \/ OpenLog \/ OpenLogFails \/ AlertSeen
             \/ AskAnswered \/ FatalSeen \/ CloseBanner \/ Started \/ Refreshed \/ UNCHANGED statusVars
      PROVE  ShownInv'
  <2>1. UNCHANGED <<bannerVars, choiceVars>>
    BY <1>8 DEF Checked, WriteLog, RotateBegin, Rotate, OpenLog, OpenLogFails, AlertSeen,
                AskAnswered, FatalSeen, CloseBanner, Started, Refreshed, statusVars
  <2> QED BY <1>1, <2>1 DEF bannerVars, choiceVars
<1>9. ASSUME ChooseVerbosity \/ ChooseTopic PROVE ShownInv'
  <2>1. UNCHANGED message_history /\ \E v, f : UpdateDisplay(v, f)
    BY <1>9 DEF ChooseVerbosity, ChooseTopic
  <2> QED BY <1>6, <2>1
<1> QED BY <1>2, <1>3, <1>4, <1>5, <1>7, <1>8, <1>9 DEF StatusNext, Speak, Progress, End, Kill

(* Where the outermost call is, when a call begins and when one goes on     *)
LEMMA StartedBelow ==
  ASSUME NEW s \in Seq(Frames), NEW f \in Frames, f.at # "started", StartedLast(s)
  PROVE  StartedLast(Push(f, s)) /\ (StartedAt(Push(f, s)) = {} <=> StartedAt(s) = {})
<1> DEFINE t == Push(f, s)
<1>0. t = <<f>> \o s
  BY DEF Push
<1> HIDE DEF t
<1>1. /\ Len(s) \in Nat /\ Len(t) = Len(s) + 1
      /\ t[1] = f /\ \A k \in 1..Len(s) : t[k + 1] = s[k]
      /\ \A k \in 1..Len(t) : k = 1 \/ (k - 1 \in 1..Len(s) /\ t[k] = s[k - 1])
  BY <1>0, OneMore
<1>2. ASSUME NEW k \in StartedAt(t) PROVE k \in Int /\ k - 1 \in StartedAt(s)
  BY <1>1, <1>2 DEF StartedAt
<1>3. ASSUME NEW k \in StartedAt(s) PROVE k + 1 \in StartedAt(t)
  <2>1. k \in 1..Len(s) /\ k + 1 \in 1..Len(t) /\ s[k].at = "started"
    BY <1>1 DEF StartedAt
  <2> QED BY <1>1, <2>1 DEF StartedAt
<1>4. StartedLast(t)
  <2> SUFFICES ASSUME NEW k \in StartedAt(t) PROVE k = Len(t)
    BY DEF StartedLast
  <2>1. k - 1 = Len(s) /\ k \in Int
    BY <1>2 DEF StartedLast
  <2> QED BY <1>1, <2>1
<1> QED BY <1>2, <1>3, <1>4 DEF t

LEMMA StartedAbove ==
  ASSUME NEW s \in Seq(Frames), s # <<>>, StartedLast(s)
  PROVE  /\ StartedLast(Tail(s))
         /\ Head(s).at = "started" => StartedAt(s) # {} /\ StartedAt(Tail(s)) = {}
         /\ Head(s).at # "started" => (StartedAt(Tail(s)) = {} <=> StartedAt(s) = {})
<1> DEFINE t == Tail(s)
           h == Head(s)
<1>1. /\ Len(s) \in Nat \ {0} /\ Len(t) = Len(s) - 1
      /\ h = s[1] /\ \A k \in 1..Len(t) : t[k] = s[k + 1]
  BY HeadTailProperties, LenProperties, EmptySeq
<1> HIDE DEF t, h
<1>2. ASSUME NEW k \in StartedAt(t) PROVE k \in 1..Len(t) /\ k + 1 \in StartedAt(s)
  <2>1. k \in 1..Len(t) /\ k + 1 \in 1..Len(s) /\ t[k].at = "started"
    BY <1>1 DEF StartedAt
  <2> QED BY <1>1, <2>1 DEF StartedAt
<1>3. ASSUME NEW k \in StartedAt(s), k # 1 PROVE k - 1 \in StartedAt(t)
  <2>1. k \in 1..Len(s) /\ k - 1 \in 1..Len(t) /\ k - 1 + 1 = k /\ s[k].at = "started"
    BY <1>1, <1>3 DEF StartedAt
  <2>2. t[k - 1] = s[k - 1 + 1]
    BY <1>1, <2>1
  <2> QED BY <2>1, <2>2 DEF StartedAt
<1>4. StartedLast(t)
  <2> SUFFICES ASSUME NEW k \in StartedAt(t) PROVE k = Len(t)
    BY DEF StartedLast
  <2>1. k + 1 = Len(s) /\ k \in Int
    BY <1>2 DEF StartedLast
  <2> QED BY <1>1, <2>1
<1>5. 1 \in StartedAt(s) <=> h.at = "started"
  <2>1. 1 \in 1..Len(s)
    BY <1>1
  <2> QED BY <1>1, <2>1 DEF StartedAt
<1>6. ASSUME h.at = "started" PROVE StartedAt(t) = {}
  <2>1. Len(s) = 1
    BY <1>5, <1>6 DEF StartedLast
  <2>2. 1..Len(t) = {}
    BY <1>1, <2>1
  <2> QED BY <2>2 DEF StartedAt
<1> QED BY <1>2, <1>3, <1>4, <1>5, <1>6 DEF t, h

LEMMA StartedPushed ==
  ASSUME NEW f \in Frames, f.at = "started", NEW t, t = <<f>> \o <<>>
  PROVE  t \in Seq(Frames) /\ StartedLast(t) /\ StartedAt(t) # {}
<1>1. <<>> \in Seq(Frames) /\ Len(<<>>) = 0
  BY EmptySeq
<1>2. t \in Seq(Frames) /\ Len(t) = Len(<<>>) + 1 /\ t[1] = f
  BY <1>1, OneMore
<1>3. Len(t) = 1 /\ 1 \in 1..Len(t)
  BY <1>1, <1>2
<1> QED BY <1>2, <1>3 DEF StartedAt, StartedLast

LEMMA NoneStarted == StartedAt(<<>>) = {} /\ StartedLast(<<>>)
<1>1. 1..Len(<<>>) = {}
  BY EmptySeq
<1> QED BY <1>1 DEF StartedAt, StartedLast

(* The innermost call goes on or returns, and has not to set the dial       *)
LEMMA StillStarted ==
  ASSUME StackTypes, StartedLast(main), main # <<>>, Top.at # "started",
         Returned \/ \E at \in Places \ {"started"} : Goto(at)
  PROVE  StartedLast(main') /\ (StartedAt(main') = {} <=> StartedAt(main) = {})
<1>1. main \in Seq(Frames) /\ Top = Head(main)
  BY DEF StackTypes, Top
<1>2. StartedLast(Tail(main)) /\ (StartedAt(Tail(main)) = {} <=> StartedAt(main) = {})
  BY <1>1, StartedAbove
<1>3. CASE Returned
  BY <1>2, <1>3 DEF Returned
<1>4. ASSUME NEW at \in Places \ {"started"}, Goto(at)
      PROVE  StartedLast(main') /\ (StartedAt(main') = {} <=> StartedAt(main) = {})
  <2> DEFINE f == Frame(at, Top.msg)
             r == Tail(main)
  <2>1. Top \in Frames /\ r \in Seq(Frames)
    BY <1>1, HeadTailProperties
  <2>2. f \in Frames /\ f.at # "started"
    BY <1>4, <2>1 DEF Frame, Frames
  <2>3. main' = Push(f, r)
    BY <1>4 DEF Goto, Push
  <2>4. StartedLast(r) /\ (StartedAt(r) = {} <=> StartedAt(main) = {})
    BY <1>2
  <2> HIDE DEF f, r
  <2>5. StartedLast(Push(f, r)) /\ (StartedAt(Push(f, r)) = {} <=> StartedAt(r) = {})
    BY <2>1, <2>2, <2>4, StartedBelow
  <2> QED BY <2>3, <2>4, <2>5
<1> QED BY <1>3, <1>4

(* misc_status begins, above calls of which none or the last has yet to set *)
(* the dial                                                                 *)
LEMMA SpokenAbove ==
  ASSUME StackTypes, NEW level \in DOMAIN Rank, NEW topic \in AllTopics, NEW rest \in Seq(Frames),
         MiscStatus(level, topic, rest), StartedLast(rest)
  PROVE  StartedLast(main') /\ (StartedAt(main') = {} <=> StartedAt(rest) = {})
<1> DEFINE m == [id |-> reported + 1, level |-> level, topic |-> topic]
           at == IF scene.banner /\ ~closing THEN "check" ELSE "log"
           f == Frame(at, m)
<1>1. f \in Frames /\ f.at # "started"
  BY DEF Messages, Frame, Frames, Places, StackTypes
<1>2. main' = Push(f, rest)
  BY DEF MiscStatus, Push
<1> HIDE DEF f
<1> QED BY <1>1, <1>2, StartedBelow

(* A step of progress that is not shown is small: the difference, taken in  *)
(* the unsigned arithmetic of the code, is the true one.                    *)
LEMMA SmallStep ==
  ASSUME StatusAssumption, ValuesAssumption, NEW v \in Values, NEW p \in Reported, NEW d \in Deltas,
         (v - p) % 2^Width <= d
  PROVE  v - p \in 0..d
<1> DEFINE w == 2^Width
<1>1. v \in Nat /\ p \in Nat /\ Width \in Nat /\ d \in Nat
  BY DeltaIsNat DEF StatusAssumption, Reported
<1>2. w \in Int
  BY <1>1
<1>3. v < w /\ p < w
  <2>1. v < w
    BY DEF ValuesAssumption
  <2>2. p \in Values => p < w
    BY DEF ValuesAssumption
  <2> HIDE DEF w
  <2> QED BY <1>1, <1>2, <2>1, <2>2 DEF Reported
<1>4. ASSUME v < p PROVE v + w - p > d
  <2>1. p \in Values
    BY <1>1, <1>4 DEF Reported
  <2>2. PICK max \in Maxima \cup {0} : d = max \div 100
    BY DEF Deltas
  <2>3. CASE max \in Maxima
    BY <1>4, <2>1, <2>2, <2>3 DEF ValuesAssumption
  <2>4. CASE max = 0
    <3>1. d = 0
      BY <2>2, <2>4
    <3> HIDE DEF w
    <3> QED BY <1>1, <1>2, <1>3, <3>1
  <2> QED BY <2>3, <2>4
<1>5. (v - p) % w <= d
  OBVIOUS
<1> HIDE DEF w
<1>6. CASE v < p
  <2>1. (v - p) % w = v + w - p
    BY <1>1, <1>2, <1>3, <1>6
  <2> QED BY <1>1, <1>2, <1>4, <1>5, <1>6, <2>1
<1>7. CASE v >= p
  <2>1. (v - p) % w = v - p
    BY <1>1, <1>2, <1>3, <1>7
  <2> QED BY <1>1, <1>5, <1>7, <2>1
<1> QED BY <1>1, <1>6, <1>7

LEMMA DialAlone ==
  ASSUME DialInv, scene' = scene, UNCHANGED progressVars,
         StartedLast(main) => StartedLast(main') /\ (StartedAt(main') = {} <=> StartedAt(main) = {})
  PROVE  DialInv'
<1>1. progress' = progress /\ value' = value
  BY DEF progressVars
<1> QED BY <1>1 DEF DialInv

(* Unless callbacks report progress themselves, a progress call begins only *)
(* when none is in progress.                                                *)
LEMMA DialStep ==
  ASSUME StatusAssumption, ValuesAssumption, StackTypes, DialInv, [StatusNext]_statusVars
  PROVE  DialInv'
<1>0. /\ progress \in [max : Nat, delta : Nat, prev : Nat, object : AllTopics, dial : Nat]
      /\ progress.object \in AllTopics /\ scene.levels \subseteq DOMAIN Rank
      /\ scene.topics \cup {NoTopic} \subseteq AllTopics /\ "PROGRESS" \in DOMAIN Rank
      /\ main \in Seq(Frames)
  <2>1. /\ progress \in [max : Nat, delta : Nat, prev : Nat, object : AllTopics, dial : Nat]
        /\ scene \in Scenes /\ main \in Seq(Frames)
    BY DEF StackTypes
  <2>2. scene.levels \subseteq DOMAIN Rank
    BY <2>1 DEF StatusAssumption
  <2>3. scene.topics \cup {NoTopic} \subseteq AllTopics
    BY <2>1 DEF AllTopics
  <2>4. "PROGRESS" \in DOMAIN Rank
    BY DEF Rank
  <2> QED BY <2>1, <2>2, <2>3, <2>4
<1>1. scene' = scene
  BY DEF StatusNext, Speak, Report, Checked, WriteLog, RotateBegin, Rotate, OpenLog, OpenLogFails, AlertSeen,
         AskAnswered, FatalSeen, ChooseVerbosity, ChooseTopic, CloseBanner, Progress, StartProgress, AddProgress,
         Started, CancelProgress, Refreshed, End, Kill, NextSession, statusVars
<1> SUFFICES ASSUME ~scene.nested PROVE DialInv'
  BY <1>1 DEF DialInv
<1>2. /\ value \in Reported /\ progress.prev \in Reported /\ progress.delta \in Deltas
      /\ StartedLast(main)
      /\ IF StartedAt(main) = {}
         THEN progress.dial = progress.prev /\ value - progress.dial \in 0..progress.delta
         ELSE progress.prev = 0 /\ value = 0
  BY DEF DialInv
<1>3. CanRun => main = <<>>
  BY DEF CanRun
<1>4. ASSUME UNCHANGED <<main, progressVars>> PROVE DialInv'
  <2>1. StartedLast(main) => StartedLast(main') /\ (StartedAt(main') = {} <=> StartedAt(main) = {})
    BY <1>4
  <2> QED BY <1>1, <1>4, <2>1, DialAlone
<1>5. ASSUME main # <<>>, Top.at # "started", Returned \/ \E at \in Places \ {"started"} : Goto(at),
             UNCHANGED progressVars
      PROVE  DialInv'
  <2>1. StartedLast(main') /\ (StartedAt(main') = {} <=> StartedAt(main) = {})
    BY <1>2, <1>5, StillStarted
  <2> QED BY <1>1, <1>5, <2>1, DialAlone
<1>6. ASSUME Judge PROVE Returned \/ \E at \in Places \ {"started"} : Goto(at)
  BY <1>6 DEF Judge, Places
<1>7. <<>> \in Seq(Frames) /\ StartedAt(<<>>) = {} /\ StartedLast(<<>>)
  BY NoneStarted, EmptySeq
<1>8. ASSUME NEW rest, rest = <<Begun("refresh")>> \o <<>>
      PROVE  rest \in Seq(Frames) /\ StartedLast(rest) /\ StartedAt(rest) = {}
  <2> DEFINE b == Begun("refresh")
  <2>1. b \in Frames /\ b.at # "started"
    BY DEF Begun, Frame, Frames, Places
  <2>2. rest = Push(b, <<>>)
    BY <1>8 DEF Push
  <2> HIDE DEF b
  <2>3. StartedLast(Push(b, <<>>)) /\ (StartedAt(Push(b, <<>>)) = {} <=> StartedAt(<<>>) = {})
    BY <1>7, <2>1, StartedBelow
  <2>4. rest \in Seq(Frames)
    <3>1. rest = <<b>> \o <<>>
      BY <2>2 DEF Push
    <3> QED BY <1>7, <2>1, <3>1, OneMore
  <2> QED BY <1>7, <2>2, <2>3, <2>4
<1>9. ASSUME NEW level \in scene.levels, NEW topic \in scene.topics \cup {NoTopic}, Report(level, topic)
      PROVE  DialInv'
  <2>1. MiscStatus(level, topic, main) /\ UNCHANGED progressVars
    BY <1>9 DEF Report
  <2>2. StartedLast(main') /\ (StartedAt(main') = {} <=> StartedAt(main) = {})
    BY <1>0, <1>2, <2>1, SpokenAbove
  <2> QED BY <1>1, <2>1, <2>2, DialAlone
<1>10. ASSUME NEW max \in Maxima, NEW object \in scene.topics, StartProgress(max, object)
       PROVE  DialInv'
  <2> DEFINE rest == <<Begun("started")>> \o main
  <2>1. /\ MiscStatus("PROGRESS", object, rest) /\ main = <<>> /\ value' = 0
        /\ progress' = [max |-> max, delta |-> max \div 100, prev |-> 0, object |-> object,
                        dial |-> progress.dial]
    BY <1>3, <1>10 DEF StartProgress
  <2>2. rest \in Seq(Frames) /\ StartedLast(rest) /\ StartedAt(rest) # {}
    <3> DEFINE b == Begun("started")
    <3>1. b \in Frames /\ b.at = "started"
      BY DEF Begun, Frame, Frames, Places
    <3>2. rest = <<b>> \o <<>>
      BY <2>1
    <3> HIDE DEF b, rest
    <3> QED BY <3>1, <3>2, StartedPushed
  <2> HIDE DEF rest
  <2>3. StartedLast(main') /\ (StartedAt(main') = {} <=> StartedAt(rest) = {})
    BY <1>0, <2>1, <2>2, SpokenAbove
  <2>4. progress'.prev = 0 /\ progress'.delta \in Deltas /\ value' = 0
    BY <2>1 DEF Deltas
  <2> QED BY <2>2, <2>3, <2>4 DEF DialInv, Reported
<1>11. ASSUME CancelProgress PROVE DialInv'
  <2> DEFINE rest == <<Begun("refresh")>> \o main
  <2>1. MiscStatus("PROGRESS", progress.object, rest) /\ main = <<>> /\ UNCHANGED progressVars
    BY <1>3, <1>11 DEF CancelProgress
  <2>2. rest \in Seq(Frames) /\ StartedLast(rest) /\ StartedAt(rest) = {}
    BY <1>8, <2>1
  <2> HIDE DEF rest
  <2>3. StartedLast(main') /\ (StartedAt(main') = {} <=> StartedAt(rest) = {})
    BY <1>0, <2>1, <2>2, SpokenAbove
  <2> QED BY <1>1, <1>7, <2>1, <2>2, <2>3, DialAlone
<1>12. ASSUME NEW v \in Values, AddProgress(v) PROVE DialInv'
  <2>1. main = <<>> /\ value' = v /\ v \in Nat /\ v \in Reported
    BY <1>3, <1>12 DEF AddProgress, StatusAssumption, Reported
  <2>2. progress.delta \in Nat /\ 0 \in 0..progress.delta
    BY <1>0
  <2>3. CASE v = progress.max
    <3> DEFINE rest == <<Begun("refresh")>> \o main
    <3>1. /\ MiscStatus("PROGRESS", progress.object, rest)
          /\ progress' = [progress EXCEPT !.dial = v, !.prev = v]
      BY <1>12, <2>3 DEF AddProgress
    <3>2. rest \in Seq(Frames) /\ StartedLast(rest) /\ StartedAt(rest) = {}
      BY <1>8, <2>1
    <3> HIDE DEF rest
    <3>3. StartedLast(main') /\ StartedAt(main') = {}
      BY <1>0, <3>1, <3>2, SpokenAbove
    <3>4. progress'.dial = v /\ progress'.prev = v /\ progress'.delta = progress.delta
      BY <1>0, <3>1
    <3> QED BY <1>2, <2>1, <2>2, <3>3, <3>4 DEF DialInv
  <2>4. CASE v # progress.max /\ Advance(v) > progress.delta
    <3>1. /\ progress' = [progress EXCEPT !.dial = v, !.prev = v]
          /\ main' = <<Begun("refresh")>> \o main
      BY <1>12, <2>4 DEF AddProgress
    <3>2. StartedLast(main') /\ StartedAt(main') = {}
      BY <1>8, <2>1, <3>1
    <3>3. progress'.dial = v /\ progress'.prev = v /\ progress'.delta = progress.delta
      BY <1>0, <3>1
    <3> QED BY <1>2, <2>1, <2>2, <3>2, <3>3 DEF DialInv
  <2>5. CASE v # progress.max /\ ~(Advance(v) > progress.delta)
    <3>1. progress' = progress /\ main' = main
      BY <1>12, <2>5 DEF AddProgress
    <3>2. progress.dial = progress.prev
      BY <1>2, <1>7, <2>1
    <3>3. v - progress.prev \in 0..progress.delta
      <4> DEFINE p == progress.prev
                 d == progress.delta
                 a == (v - p) % 2^Width
      <4>1. p \in Reported /\ d \in Deltas /\ ~(a > d)
        BY <1>2, <2>5 DEF Advance
      <4>2. a \in Int /\ d \in Int
        <5>1. p \in Nat /\ d \in Nat /\ Width \in Nat
          BY <1>0 DEF StatusAssumption
        <5>2. 2^Width \in Int /\ v - p \in Int
          BY <2>1, <5>1
        <5>3. 2^Width > 0
          <6>1. v < 2^Width
            BY DEF ValuesAssumption
          <6> QED BY <2>1, <5>2, <6>1
        <5> QED BY <5>1, <5>2, <5>3
      <4>3. a <= d
        <5> HIDE DEF a, d
        <5> QED BY <4>1, <4>2
      <4> HIDE DEF p, d
      <4>4. v - p \in 0..d
        BY <4>1, <4>3, SmallStep
      <4> QED BY <4>4 DEF p, d
    <3> QED BY <1>2, <1>7, <2>1, <3>1, <3>2, <3>3 DEF DialInv
  <2> QED BY <2>3, <2>4, <2>5
<1>13. ASSUME Started PROVE DialInv'
  <2>1. /\ main # <<>> /\ Head(main).at = "started" /\ Goto("refresh")
        /\ progress' = [progress EXCEPT !.dial = 0] /\ value' = value
    BY <1>13 DEF Started, In, Top
  <2> DEFINE r == Tail(main)
             f == Frame("refresh", Top.msg)
  <2>2. StartedLast(r) /\ StartedAt(r) = {} /\ StartedAt(main) # {}
    BY <1>0, <1>2, <2>1, StartedAbove
  <2>3. r \in Seq(Frames) /\ Head(main) \in Frames
    BY <1>0, <2>1, HeadTailProperties
  <2>4. f \in Frames /\ f.at # "started" /\ main' = Push(f, r)
    BY <2>1, <2>3 DEF Frame, Frames, Places, Top, Goto, Push
  <2> HIDE DEF r, f
  <2>5. StartedLast(Push(f, r)) /\ (StartedAt(Push(f, r)) = {} <=> StartedAt(r) = {})
    BY <2>2, <2>3, <2>4, StartedBelow
  <2>6. StartedLast(main') /\ StartedAt(main') = {}
    BY <2>2, <2>4, <2>5
  <2>7. progress.prev = 0 /\ value = 0
    BY <1>2, <2>2
  <2>8. progress'.dial = 0 /\ progress'.prev = 0 /\ progress'.delta = progress.delta
    BY <1>0, <2>1, <2>7
  <2>9. 0 \in 0..progress.delta /\ 0 - 0 = 0
    BY <1>0
  <2> QED BY <1>2, <2>1, <2>6, <2>7, <2>8, <2>9 DEF DialInv
<1>14. ASSUME NextSession PROVE DialInv'
  <2>1. main' = <<>> /\ progress' = NoProgress /\ value' = 0
    BY <1>14 DEF NextSession
  <2>2. NoProgress.dial = 0 /\ NoProgress.prev = 0 /\ NoProgress.delta = 0
    BY DEF NoProgress
  <2>3. 0 \in Deltas /\ 0 \in Reported /\ 0 - 0 \in 0..0
    <3>1. 0 = 0 \div 100
      OBVIOUS
    <3> QED BY <3>1 DEF Deltas, Reported
  <2> QED BY <1>7, <2>1, <2>2, <2>3 DEF DialInv
<1>15. ASSUME Rotate \/ ChooseVerbosity \/ ChooseTopic \/ CloseBanner \/ UNCHANGED statusVars PROVE DialInv'
  <2>1. UNCHANGED <<main, progressVars>>
    BY <1>15 DEF Rotate, ChooseVerbosity, ChooseTopic, CloseBanner, statusVars
  <2> QED BY <1>4, <2>1
<1>16. ASSUME Checked \/ RotateBegin \/ OpenLogFails PROVE DialInv'
  <2>1. /\ main # <<>> /\ Top.at # "started" /\ UNCHANGED progressVars
        /\ \E at \in {"log", "rotate", "alert"} : Goto(at)
    BY <1>16 DEF Checked, RotateBegin, OpenLogFails, In
  <2> QED BY <1>5, <2>1 DEF Places
<1>17. ASSUME WriteLog \/ OpenLog \/ AlertSeen PROVE DialInv'
  <2>1. main # <<>> /\ Top.at # "started" /\ UNCHANGED progressVars /\ Judge
    BY <1>17 DEF WriteLog, OpenLog, AlertSeen, In
  <2> QED BY <1>5, <1>6, <2>1
<1>18. ASSUME AskAnswered \/ FatalSeen \/ Refreshed PROVE DialInv'
  <2>1. main # <<>> /\ Top.at # "started" /\ UNCHANGED progressVars /\ Returned
    BY <1>18 DEF AskAnswered, FatalSeen, Refreshed, In
  <2> QED BY <1>5, <2>1
<1> QED
  BY <1>9, <1>10, <1>11, <1>12, <1>13, <1>14, <1>15, <1>16, <1>17, <1>18
  DEF StatusNext, Speak, Progress, End, Kill

LEMMA BannerInit == ASSUME StatusAssumption, StatusInit PROVE ShownInv /\ DialInv
<1>1. /\ main = <<>> /\ message_history = <<>> /\ display = <<>> /\ progress = NoProgress /\ value = 0
  BY DEF StatusInit
<1>2. ShownInv
  <2>1. <<>> \in Seq(Messages)
    BY EmptySeq
  <2> QED BY <1>1, <2>1, NothingShown DEF ShownInv
<1>3. NoProgress.dial = 0 /\ NoProgress.prev = 0 /\ NoProgress.delta = 0
  BY DEF NoProgress
<1>4. 0 \in Deltas /\ 0 \in Reported /\ 0 - 0 \in 0..0
  <2>1. 0 = 0 \div 100
    OBVIOUS
  <2> QED BY <2>1 DEF Deltas, Reported
<1>5. DialInv
  BY <1>1, <1>3, <1>4, NoneStarted DEF DialInv
<1> QED BY <1>2, <1>5

(* The display is always exactly what the verbosity and the topic let       *)
(* through of the history, for every number of messages, of calls in each   *)
(* other's Fl::check and of choices between; and if no callback reports     *)
(* progress inside Fl::check, the dial shows the last progress reported to  *)
(* within a hundredth, for every maximum that is small in the counter's     *)
(* range.                                                                   *)
THEOREM BannerStaysTrue == StatusSpec => []BannerIsTrue
<1> DEFINE Inv == StackInv /\ ShownInv /\ DialInv
<1>1. StatusInit => Inv
  BY StatusAssumption, StackInit, BannerInit
<1>2. Inv /\ [StatusNext]_statusVars => Inv'
  <2> SUFFICES ASSUME Inv, [StatusNext]_statusVars PROVE Inv'
    OBVIOUS
  <2>1. StackInv'
    BY StatusAssumption, StackStep
  <2>2. StackTypes
    BY DEF StackInv
  <2>3. ShownInv'
    BY <2>2, StatusAssumption, ShownStep
  <2>4. DialInv'
    BY <2>2, StatusAssumption, ValuesAssumption, DialStep
  <2> QED BY <2>1, <2>3, <2>4
<1>3. Inv => BannerIsTrue
  BY NoneStarted DEF ShownInv, DialInv, BannerIsTrue
<1> HIDE DEF Inv
<1> QED BY <1>1, <1>2, <1>3, PTL DEF StatusSpec

-----------------------------------------------------------------------------
(* The days of the months                                                  *)
LeapDays(y) == (y \div 4) - (y \div 100) + (y \div 400)

LEMMA LeapDaysOfAYear ==
  ASSUME NEW y \in Int
  PROVE  LeapDays(y) \in Int /\ LeapDays(y) - LeapDays(y - 1) = IF IsLeap(y) THEN 1 ELSE 0
<1>1. /\ y \div 4 \in Int /\ (y - 1) \div 4 \in Int
      /\ (y \div 4) - ((y - 1) \div 4) = IF y % 4 = 0 THEN 1 ELSE 0
  OBVIOUS
<1>2. /\ y \div 100 \in Int /\ (y - 1) \div 100 \in Int
      /\ (y \div 100) - ((y - 1) \div 100) = IF y % 100 = 0 THEN 1 ELSE 0
  OBVIOUS
<1>3. /\ y \div 400 \in Int /\ (y - 1) \div 400 \in Int
      /\ (y \div 400) - ((y - 1) \div 400) = IF y % 400 = 0 THEN 1 ELSE 0
  OBVIOUS
<1>4. (y % 400 = 0 => y % 100 = 0) /\ (y % 100 = 0 => y % 4 = 0)
  OBVIOUS
<1> QED BY <1>1, <1>2, <1>3, <1>4 DEF LeapDays, IsLeap

LEMMA DayOfMonth ==
  ASSUME NEW y \in Int, NEW m \in 0..11, NEW d \in Int
  PROVE  /\ DayNumber(y, m, d) \in Int
         /\ DayNumber(y, m, d) = DayNumber(y, m, 1) + d - 1
<1> DEFINE z == IF m < 2 THEN y - 1 ELSE y
           n == (m + 10) % 12
           f == (153 * n + 2) \div 5
<1>1. z \in Int /\ n \in Int
  OBVIOUS
<1>2. \A e : DayNumber(y, m, e) = 365 * z + (z \div 4) - (z \div 100) + (z \div 400) + f + e - 1 - 719468
  BY DEF DayNumber
<1>3. f \in Int
  <2> HIDE DEF n
  <2> QED BY <1>1
<1> HIDE DEF z, n, f
<1>4. LeapDays(z) \in Int
  BY <1>1, LeapDaysOfAYear
<1>5. z \div 4 \in Int /\ z \div 100 \in Int /\ z \div 400 \in Int
  BY <1>1
<1> QED BY <1>1, <1>2, <1>3, <1>5

LEMMA FirstIsNumber == ASSUME NEW y \in Int, NEW m \in 0..11 PROVE DayNumber(y, m, 1) \in Int
BY DayOfMonth, 1 \in Int

(* The first of each month: the months' lengths add up                      *)
LEMMA MonthsLast ==
  ASSUME NEW y \in Int
  PROVE  /\ \A m \in 0..10 : DayNumber(y, m + 1, 1) = DayNumber(y, m, 1) + DaysInMonth(y, m)
         /\ DayNumber(y + 1, 0, 1) = DayNumber(y, 11, 1) + DaysInMonth(y, 11)
         /\ DayNumber(y, 11, 1) = DayNumber(y, 2, 1) + 275
<1> DEFINE old == LeapDays(y - 1) + 365 * y - 719162
           new == LeapDays(y) + 365 * y - 719162
<1>1. /\ LeapDays(y) \in Int /\ LeapDays(y - 1) \in Int
      /\ LeapDays(y) - LeapDays(y - 1) = IF IsLeap(y) THEN 1 ELSE 0
  BY LeapDaysOfAYear
<1>2. /\ y \div 4 \in Int /\ y \div 100 \in Int /\ y \div 400 \in Int
      /\ (y - 1) \div 4 \in Int /\ (y - 1) \div 100 \in Int /\ (y - 1) \div 400 \in Int
  OBVIOUS
<1>3. /\ DayNumber(y, 0, 1) = old - 365 /\ DayNumber(y, 1, 1) = old - 334
  BY <1>2 DEF DayNumber, LeapDays
<1>4. /\ DayNumber(y, 2, 1) = new - 306 /\ DayNumber(y, 3, 1) = new - 275
      /\ DayNumber(y, 4, 1) = new - 245 /\ DayNumber(y, 5, 1) = new - 214
      /\ DayNumber(y, 6, 1) = new - 184 /\ DayNumber(y, 7, 1) = new - 153
  BY <1>2 DEF DayNumber, LeapDays
<1>5. /\ DayNumber(y, 8, 1) = new - 122 /\ DayNumber(y, 9, 1) = new - 92
      /\ DayNumber(y, 10, 1) = new - 61 /\ DayNumber(y, 11, 1) = new - 31
  BY <1>2 DEF DayNumber, LeapDays
<1>6. DayNumber(y + 1, 0, 1) = new
  BY <1>2 DEF DayNumber, LeapDays
<1>7. /\ DaysInMonth(y, 0) = 31 /\ DaysInMonth(y, 1) = (IF IsLeap(y) THEN 29 ELSE 28)
      /\ \A m \in {2, 4, 6, 7, 9, 11} : DaysInMonth(y, m) = 31
      /\ \A m \in {3, 5, 8, 10} : DaysInMonth(y, m) = 30
  BY DEF DaysInMonth
<1> HIDE DEF old, new
<1>8. old \in Int /\ new \in Int /\ new - old = IF IsLeap(y) THEN 1 ELSE 0
  BY <1>1 DEF old, new
<1>9. ASSUME NEW m \in 0..10 PROVE DayNumber(y, m + 1, 1) = DayNumber(y, m, 1) + DaysInMonth(y, m)
  <2>1. m = 0 \/ m = 1 \/ m = 2 \/ m = 3 \/ m = 4 \/ m = 5 \/ m = 6 \/ m = 7 \/ m = 8 \/ m = 9 \/ m = 10
    OBVIOUS
  <2>2. 0 + 1 = 1 /\ 1 + 1 = 2 /\ 2 + 1 = 3 /\ 3 + 1 = 4 /\ 4 + 1 = 5 /\ 5 + 1 = 6 /\ 6 + 1 = 7 /\ 7 + 1 = 8
        /\ 8 + 1 = 9 /\ 9 + 1 = 10 /\ 10 + 1 = 11
    OBVIOUS
  <2> QED BY <1>3, <1>4, <1>5, <1>7, <1>8, <2>1, <2>2
<1> QED BY <1>4, <1>5, <1>6, <1>7, <1>8, <1>9

(* Each day is in a year, and in one of those gmtime is searched in        *)
FirstOfYear(y) == DayNumber(y, 0, 1)
Soonest(day) == 1969 + day \div (IF day < 0 THEN 365 ELSE 366)
Latest(day) == 1970 + day \div (IF day < 0 THEN 366 ELSE 365)

LEMMA FirstOfYearIs ==
  ASSUME NEW y \in Int
  PROVE  FirstOfYear(y) \in Int /\ FirstOfYear(y) = LeapDays(y - 1) + 365 * y - 719527
<1>1. (y - 1) \div 4 \in Int /\ (y - 1) \div 100 \in Int /\ (y - 1) \div 400 \in Int
  OBVIOUS
<1> QED BY <1>1 DEF FirstOfYear, DayNumber, LeapDays

LEMMA YearsAreWide ==
  ASSUME NEW day \in Int
  PROVE  /\ Soonest(day) \in Int /\ Latest(day) \in Int /\ Soonest(day) <= Latest(day)
         /\ FirstOfYear(Soonest(day)) <= day /\ day < FirstOfYear(Latest(day) + 1)
<1> DEFINE p == day \div 365
           q == day \div 366
<1>1. /\ p \in Int /\ q \in Int /\ 365 * p <= day /\ day < 365 * p + 365
      /\ 366 * q <= day /\ day < 366 * q + 366
  OBVIOUS
<1>2. ASSUME NEW x \in Int
      PROVE  /\ LeapDays(x) \in Int
             /\ x <= 1967 => LeapDays(x) <= 842
             /\ x >= 1968 => LeapDays(x) <= x - 1968 + 842
             /\ x >= 1970 => LeapDays(x) >= 477
             /\ x <= 1969 => LeapDays(x) >= x - 1492
  <2> DEFINE a == x \div 4
             b == x \div 100
             c == x \div 400
  <2>1. /\ a \in Int /\ b \in Int /\ c \in Int /\ LeapDays(x) = a - b + c
        /\ 4 * a <= x /\ x < 4 * a + 4 /\ 100 * b <= x /\ x < 100 * b + 100
        /\ 400 * c <= x /\ x < 400 * c + 400
    BY DEF LeapDays
  <2> HIDE DEF a, b, c
  <2>2. x >= 1970 => LeapDays(x) >= 477
    <3>1. x >= 1970 => b >= 19 /\ a >= 492 /\ c >= 4 /\ a >= 25 * b
      BY <2>1
    <3> QED BY <2>1, <3>1
  <2>3. x <= 1969 => LeapDays(x) >= x - 1492
    <3>1. CASE x = 1969
      <4>1. a = 492 /\ b = 19 /\ c = 4
        BY <2>1, <3>1
      <4> QED BY <2>1, <3>1, <4>1
    <3>2. CASE x = 1968
      <4>1. a = 492 /\ b = 19 /\ c = 4
        BY <2>1, <3>2
      <4> QED BY <2>1, <3>2, <4>1
    <3>3. CASE x <= 1967
      BY <2>1, <3>3
    <3> QED BY <3>1, <3>2, <3>3
  <2>4. x >= 1968 => LeapDays(x) <= x - 1968 + 842
    BY <2>1
  <2>5. x <= 1967 => LeapDays(x) <= 842
    BY <2>1
  <2> QED BY <2>1, <2>2, <2>3, <2>4, <2>5
<1> HIDE DEF p, q
<1>3. CASE day >= 0
  <2>1. p >= 0 /\ q >= 0 /\ q <= p
    BY <1>1, <1>3
  <2>2. Soonest(day) = 1969 + q /\ Latest(day) = 1970 + p
    BY <1>3 DEF Soonest, Latest, p, q
  <2>3. FirstOfYear(1969 + q) = LeapDays(1968 + q) + 365 * q - 842
    <3>1. FirstOfYear(1969 + q) = LeapDays((1969 + q) - 1) + 365 * (1969 + q) - 719527 /\ (1969 + q) - 1 = 1968 + q
      BY <1>1, FirstOfYearIs
    <3> QED BY <1>1, <1>2, <3>1
  <2>4. LeapDays(1968 + q) \in Int /\ LeapDays(1968 + q) <= q + 842
    BY <1>1, <1>2, <2>1
  <2>5. FirstOfYear(1969 + q) <= day
    BY <1>1, <2>1, <2>3, <2>4
  <2>6. FirstOfYear(1971 + p) = LeapDays(1970 + p) + 365 * p - 112
    <3>1. FirstOfYear(1971 + p) = LeapDays((1971 + p) - 1) + 365 * (1971 + p) - 719527 /\ (1971 + p) - 1 = 1970 + p
      BY <1>1, FirstOfYearIs
    <3> QED BY <1>1, <1>2, <3>1
  <2>7. LeapDays(1970 + p) \in Int /\ LeapDays(1970 + p) >= 477
    BY <1>1, <1>2, <2>1
  <2>8. day < FirstOfYear(1971 + p)
    BY <1>1, <2>6, <2>7
  <2>9. (1970 + p) + 1 = 1971 + p
    BY <1>1
  <2> QED BY <1>1, <2>1, <2>2, <2>5, <2>8, <2>9
<1>4. CASE day < 0
  <2>1. p < 0 /\ q < 0 /\ p <= q
    BY <1>1, <1>4
  <2>2. Soonest(day) = 1969 + p /\ Latest(day) = 1970 + q
    BY <1>4 DEF Soonest, Latest, p, q
  <2>3. FirstOfYear(1969 + p) = LeapDays(1968 + p) + 365 * p - 842
    <3>1. FirstOfYear(1969 + p) = LeapDays((1969 + p) - 1) + 365 * (1969 + p) - 719527 /\ (1969 + p) - 1 = 1968 + p
      BY <1>1, FirstOfYearIs
    <3> QED BY <1>1, <1>2, <3>1
  <2>4. LeapDays(1968 + p) \in Int /\ LeapDays(1968 + p) <= 842
    BY <1>1, <1>2, <2>1
  <2>5. FirstOfYear(1969 + p) <= day
    BY <1>1, <2>1, <2>3, <2>4
  <2>6. FirstOfYear(1971 + q) = LeapDays(1970 + q) + 365 * q - 112
    <3>1. FirstOfYear(1971 + q) = LeapDays((1971 + q) - 1) + 365 * (1971 + q) - 719527 /\ (1971 + q) - 1 = 1970 + q
      BY <1>1, FirstOfYearIs
    <3> QED BY <1>1, <1>2, <3>1
  <2>7. LeapDays(1970 + q) \in Int /\ LeapDays(1970 + q) >= q + 478
    BY <1>1, <1>2, <2>1
  <2>8. day < FirstOfYear(1971 + q)
    BY <1>1, <2>6, <2>7
  <2>9. (1970 + q) + 1 = 1971 + q
    BY <1>1
  <2> QED BY <1>1, <2>1, <2>2, <2>5, <2>8, <2>9
<1> QED BY <1>3, <1>4

LEMMA DayHasYear ==
  ASSUME NEW day \in Int
  PROVE  \E y \in Soonest(day)..Latest(day) : FirstOfYear(y) <= day /\ day < FirstOfYear(y + 1)
<1> DEFINE lo == Soonest(day)
           hi == Latest(day)
           Has(y) == FirstOfYear(y) <= day /\ day < FirstOfYear(y + 1)
<1>1. lo \in Int /\ hi \in Int /\ lo <= hi /\ FirstOfYear(lo) <= day /\ day < FirstOfYear(hi + 1)
  BY YearsAreWide
<1> HIDE DEF lo, hi
<1> SUFFICES ASSUME \A y \in lo..hi : ~Has(y) PROVE FALSE
  BY DEF lo, hi
<1> DEFINE T == {n \in Nat : lo + n <= hi + 1 => FirstOfYear(lo + n) <= day}
<1>2. 0 \in T
  BY <1>1
<1>3. ASSUME NEW n \in Nat, n \in T PROVE n + 1 \in T
  <2> SUFFICES ASSUME lo + (n + 1) <= hi + 1 PROVE FirstOfYear(lo + (n + 1)) <= day
    OBVIOUS
  <2> DEFINE y == lo + n
  <2>1. y \in lo..hi /\ lo + (n + 1) = y + 1 /\ y \in Int /\ y + 1 \in Int
    BY <1>1
  <2>2. FirstOfYear(y) <= day
    BY <1>1, <1>3, <2>1
  <2>3. ~ day < FirstOfYear(y + 1)
    BY <2>1, <2>2
  <2> HIDE DEF y
  <2>4. FirstOfYear(y + 1) \in Int
    BY <2>1, FirstOfYearIs
  <2>5. FirstOfYear(y + 1) <= day
    BY <2>3, <2>4
  <2> QED BY <2>1, <2>5
<1>4. \A n \in Nat : n \in T
  <2> HIDE DEF T
  <2> QED BY <1>2, <1>3, NatInduct
<1> DEFINE m == hi + 1 - lo
<1>5. m \in Nat /\ lo + m = hi + 1
  BY <1>1
<1>6. FirstOfYear(hi + 1) <= day
  <2> HIDE DEF m
  <2> QED BY <1>1, <1>4, <1>5
<1>7. FirstOfYear(hi + 1) \in Int
  BY <1>1, FirstOfYearIs
<1> QED BY <1>1, <1>6, <1>7

LEMMA DayHasMonth ==
  ASSUME NEW day \in Int, NEW y \in Int, FirstOfYear(y) <= day, day < FirstOfYear(y + 1)
  PROVE  \E m \in 0..11 : DayNumber(y, m, 1) <= day /\ (m < 11 => day < DayNumber(y, m + 1, 1))
<1>1. ASSUME NEW m \in 0..11 PROVE DayNumber(y, m, 1) \in Int
  BY FirstIsNumber
<1>2. DayNumber(y, 0, 1) <= day
  BY DEF FirstOfYear
<1> SUFFICES ASSUME \A m \in 0..11 : ~(DayNumber(y, m, 1) <= day /\ (m < 11 => day < DayNumber(y, m + 1, 1)))
             PROVE  FALSE
  OBVIOUS
<1>3. ASSUME NEW m \in 0..10, NEW n, n = m + 1, DayNumber(y, m, 1) <= day PROVE DayNumber(y, n, 1) <= day
  <2>1. n \in 0..11 /\ m \in 0..11 /\ m < 11
    BY <1>3
  <2> QED BY <1>1, <1>3, <2>1
<1>4. DayNumber(y, 1, 1) <= day
  BY <1>2, <1>3, 1 = 0 + 1, 0 \in 0..10
<1>5. DayNumber(y, 2, 1) <= day
  BY <1>4, <1>3, 2 = 1 + 1, 1 \in 0..10
<1>6. DayNumber(y, 3, 1) <= day
  BY <1>5, <1>3, 3 = 2 + 1, 2 \in 0..10
<1>7. DayNumber(y, 4, 1) <= day
  BY <1>6, <1>3, 4 = 3 + 1, 3 \in 0..10
<1>8. DayNumber(y, 5, 1) <= day
  BY <1>7, <1>3, 5 = 4 + 1, 4 \in 0..10
<1>9. DayNumber(y, 6, 1) <= day
  BY <1>8, <1>3, 6 = 5 + 1, 5 \in 0..10
<1>10. DayNumber(y, 7, 1) <= day
  BY <1>9, <1>3, 7 = 6 + 1, 6 \in 0..10
<1>11. DayNumber(y, 8, 1) <= day
  BY <1>10, <1>3, 8 = 7 + 1, 7 \in 0..10
<1>12. DayNumber(y, 9, 1) <= day
  BY <1>11, <1>3, 9 = 8 + 1, 8 \in 0..10
<1>13. DayNumber(y, 10, 1) <= day
  BY <1>12, <1>3, 10 = 9 + 1, 9 \in 0..10
<1>14. DayNumber(y, 11, 1) <= day
  BY <1>13, <1>3, 11 = 10 + 1, 10 \in 0..10
<1> QED BY <1>14, 11 \in 0..11

(* gmtime gives a date that exists                                         *)
Exists(date) ==
  /\ date \in [year : Int, mon : Int, mday : Int]
  /\ date.mon \in 0..11 /\ date.mday \in 1..DaysIn(date)

LEMMA FoundExists ==
  ASSUME NEW day \in Int, NEW year \in Int, NEW mon \in 0..11, day < FirstOfYear(year + 1),
         DayNumber(year, mon, 1) <= day, mon < 11 => day < DayNumber(year, mon + 1, 1)
  PROVE  Exists(Date(year, mon, day - DayNumber(year, mon, 1) + 1))
<1> DEFINE first == DayNumber(year, mon, 1)
           mday == day - first + 1
           date == Date(year, mon, mday)
<1>1. first \in Int
  BY FirstIsNumber
<1>2. DaysInMonth(year, mon) \in Int
  BY DEF DaysInMonth
<1>3. day < first + DaysInMonth(year, mon)
  <2>1. CASE mon = 11
    BY <2>1, MonthsLast DEF FirstOfYear
  <2>2. CASE mon # 11
    <3>1. mon \in 0..10 /\ mon < 11
      BY <2>2
    <3> QED BY <3>1, MonthsLast
  <2> QED BY <2>1, <2>2
<1>4. first <= day
  OBVIOUS
<1> HIDE DEF first
<1>5. mday \in 1..DaysInMonth(year, mon)
  BY <1>1, <1>2, <1>3, <1>4
<1> HIDE DEF mday
<1>6. date.year = year /\ date.mon = mon /\ date.mday = mday /\ date \in [year : Int, mon : Int, mday : Int]
  BY <1>2, <1>5 DEF Date
<1>7. DaysIn(date) = DaysInMonth(year, mon)
  BY <1>6 DEF DaysIn
<1> HIDE DEF date
<1>8. Exists(date)
  BY <1>5, <1>6, <1>7 DEF Exists
<1> QED BY <1>8 DEF date, mday, first

LEMMA GmtimeExists ==
  ASSUME NEW day \in Int, NEW t, t = day * 86400
  PROVE  LET tm == Gmtime(t) IN Exists(Date(tm.year, tm.mon, tm.mday))
<1> DEFINE year == YearOf(day)
           mon == MonthOf(day, year)
<1>1. year \in Soonest(day)..Latest(day) /\ FirstOfYear(year) <= day /\ day < FirstOfYear(year + 1)
  <2> DEFINE Fits(y) == FirstOfYear(y) <= day /\ day < FirstOfYear(y + 1)
  <2>1. \E y \in Soonest(day)..Latest(day) : Fits(y)
    BY DayHasYear
  <2>2. year = CHOOSE y \in Soonest(day)..Latest(day) : Fits(y)
    BY DEF YearOf, Soonest, Latest, FirstOfYear
  <2> HIDE DEF Fits, year
  <2>3. year \in Soonest(day)..Latest(day) /\ Fits(year)
    BY <2>1, <2>2
  <2> QED BY <2>3 DEF Fits
<1>2. year \in Int
  <2> HIDE DEF year
  <2> QED BY <1>1, YearsAreWide
<1>3. mon \in 0..11 /\ DayNumber(year, mon, 1) <= day /\ (mon < 11 => day < DayNumber(year, mon + 1, 1))
  <2> HIDE DEF year
  <2> DEFINE Fits(m) == DayNumber(year, m, 1) <= day /\ (m < 11 => day < DayNumber(year, m + 1, 1))
  <2>1. \E m \in 0..11 : Fits(m)
    BY <1>1, <1>2, DayHasMonth
  <2>2. mon = CHOOSE m \in 0..11 : Fits(m)
    BY DEF MonthOf
  <2> HIDE DEF Fits, mon
  <2>3. mon \in 0..11 /\ Fits(mon)
    BY <2>1, <2>2
  <2> QED BY <2>3 DEF Fits
<1>4. t \div 86400 = day
  OBVIOUS
<1> DEFINE mday == day - DayNumber(year, mon, 1) + 1
<1>5. Gmtime(t).year = year /\ Gmtime(t).mon = mon /\ Gmtime(t).mday = mday
  <2>1. Gmtime(t) = [year |-> year, mon |-> mon, mday |-> mday,
                     hour |-> (t \div 3600) % 24, min |-> (t \div 60) % 60, sec |-> t % 60]
    BY <1>4 DEF Gmtime
  <2> HIDE DEF year, mon, mday
  <2> QED BY <2>1
<1>6. Exists(Date(year, mon, mday))
  <2> HIDE DEF year, mon
  <2> QED BY <1>1, <1>2, <1>3, FoundExists
<1> QED BY <1>5, <1>6

LEMMA CarriedExists ==
  ASSUME NEW date, date \in [year : Int, mon : Int, mday : Int]
  PROVE  /\ Exists(Carried(date))
         /\ Exists(date) => Carried(date) = date
<1>1. date.year \in Int /\ date.mon \in Int /\ date.mday \in Int
  OBVIOUS
<1>2. CASE date.mday \in 1..DaysIn(date)
  <2>1. Carried(date) = date
    BY <1>2 DEF Carried
  <2>2. date.mon \in 0..11
    <3> SUFFICES ASSUME date.mon \notin 0..11 PROVE FALSE
      OBVIOUS
    <3>1. DaysIn(date) = -1
      BY DEF DaysIn
    <3> QED BY <1>2, <3>1
  <2> QED BY <1>2, <2>1, <2>2 DEF Exists
<1>3. CASE date.mday \notin 1..DaysIn(date)
  <2> DEFINE y == date.year + date.mon \div 12
             m == date.mon % 12
             day == DayNumber(y, m, 1) + date.mday - 1
  <2>1. y \in Int /\ m \in 0..11
    <3> DEFINE n == date.mon
               z == date.year
    <3>1. n \in Int /\ z \in Int
      BY <1>1
    <3> HIDE DEF n, z
    <3>2. n \div 12 \in Int /\ n % 12 \in 0..11 /\ z + n \div 12 \in Int
      BY <3>1
    <3> QED BY <3>2 DEF n, z
  <2> HIDE DEF y, m
  <2>2. day \in Int
    <3>1. DayNumber(y, m, 1) \in Int
      BY <2>1, FirstIsNumber, Zenon
    <3> QED BY <1>1, <3>1
  <2>3. Carried(date) = Date(Gmtime(day * 86400).year, Gmtime(day * 86400).mon, Gmtime(day * 86400).mday)
    BY <1>3 DEF Carried, y, m
  <2> HIDE DEF day
  <2>4. Exists(Carried(date))
    BY <2>2, <2>3, GmtimeExists
  <2> QED BY <1>3, <2>4 DEF Exists
<1> QED BY <1>2, <1>3

(* The numbers of a tm                                                     *)
TMs == [year : Int, mon : Int, mday : Int, hour : 0..23, isdst : 0..1]
DatesOfInts == [year : Int, mon : Int, mday : Int]

LEMMA DayIsDate ==
  ASSUME NEW tm \in TMs
  PROVE  /\ tm.year \in Int /\ tm.mon \in Int /\ tm.mday \in Int /\ tm.hour \in 0..23 /\ tm.isdst \in 0..1
         /\ Day(tm) \in DatesOfInts
         /\ Day(tm).year = tm.year /\ Day(tm).mon = tm.mon /\ Day(tm).mday = tm.mday
         /\ DaysIn(Day(tm)) = DaysIn(tm)
<1>1. /\ tm.year \in Int /\ tm.mon \in Int /\ tm.mday \in Int /\ tm.hour \in 0..23 /\ tm.isdst \in 0..1
      /\ Day(tm) \in DatesOfInts
      /\ Day(tm).year = tm.year /\ Day(tm).mon = tm.mon /\ Day(tm).mday = tm.mday
  BY DEF TMs, Day, Date, DatesOfInts
<1> QED BY <1>1 DEF DaysIn

LEMMA AtIsTm ==
  ASSUME NEW date, date.year \in Int, date.mon \in Int, date.mday \in Int, NEW hour \in 0..23, NEW isdst \in 0..1
  PROVE  /\ At(date, hour, isdst) \in TMs
         /\ Day(At(date, hour, isdst)) = Date(date.year, date.mon, date.mday)
         /\ At(date, hour, isdst).hour = hour /\ At(date, hour, isdst).isdst = isdst
         /\ At(date, hour, isdst).mon = date.mon /\ At(date, hour, isdst).mday = date.mday
BY DEF At, TMs, Day

LEMMA DateOfDate ==
  ASSUME NEW date \in DatesOfInts
  PROVE  /\ date.year \in Int /\ date.mon \in Int /\ date.mday \in Int
         /\ Date(date.year, date.mon, date.mday) = date
BY DEF Date, DatesOfInts

LEMMA LaterExists ==
  ASSUME NEW tm \in TMs, NEW n \in Int
  PROVE  /\ Exists(Later(tm, n)) /\ Later(tm, n) \in DatesOfInts
         /\ Exists(Day(tm)) => Later(tm, 0) = Day(tm)
<1>1. ASSUME NEW k \in Int PROVE Date(tm.year, tm.mon, tm.mday + k) \in [year : Int, mon : Int, mday : Int]
  BY DayIsDate DEF Date
<1>2. Exists(Later(tm, n))
  BY <1>1, CarriedExists DEF Later
<1>3. Later(tm, n) \in DatesOfInts
  BY <1>2 DEF Exists, DatesOfInts
<1>4. ASSUME Exists(Day(tm)) PROVE Later(tm, 0) = Day(tm)
  <2>1. tm.mday + 0 = tm.mday
    BY DayIsDate
  <2>2. Later(tm, 0) = Carried(Day(tm))
    BY <2>1 DEF Later, Day
  <2> QED BY <1>4, <2>2, CarriedExists DEF Exists
<1> QED BY <1>2, <1>3, <1>4

(* mktime gives a date that exists; the tm's own if that exists, unless the *)
(* hour of summer time carries it over midnight                             *)
LEMMA StandardIs ==
  ASSUME NEW tm \in TMs
  PROVE  /\ Standard(tm) \in TMs /\ Exists(Day(Standard(tm))) /\ Standard(tm).isdst = 0
         /\ Exists(Day(tm)) /\ Steady(tm) => Day(Standard(tm)) = Day(tm) /\ Standard(tm).hour \in 0..22
<1>1. tm.hour \in 0..23 /\ tm.isdst \in 0..1
  BY DayIsDate
<1>2. CASE tm.hour < tm.isdst
  <2>1. Standard(tm) = At(Later(tm, -1), 23, 0) /\ ~Steady(tm)
    BY <1>1, <1>2 DEF Standard, Steady
  <2> DEFINE date == Later(tm, -1)
  <2>2. Exists(date) /\ date \in DatesOfInts
    BY LaterExists
  <2> HIDE DEF date
  <2>3. At(date, 23, 0) \in TMs /\ Day(At(date, 23, 0)) = date /\ At(date, 23, 0).isdst = 0
    BY <2>2, DateOfDate, AtIsTm
  <2> QED BY <2>1, <2>2, <2>3 DEF date
<1>3. CASE ~(tm.hour < tm.isdst)
  <2> DEFINE h == tm.hour - tm.isdst
  <2>1. Standard(tm) = At(Later(tm, 0), h, 0) /\ h \in 0..23
    BY <1>1, <1>3 DEF Standard
  <2>2. Steady(tm) => h \in 0..22
    BY DEF Steady
  <2> DEFINE date == Later(tm, 0)
  <2>3. Exists(date) /\ date \in DatesOfInts /\ (Exists(Day(tm)) => date = Day(tm))
    BY LaterExists
  <2>4. Standard(tm) = At(date, h, 0)
    BY <2>1
  <2> HIDE DEF date, h
  <2>5. /\ At(date, h, 0) \in TMs /\ Day(At(date, h, 0)) = date
        /\ At(date, h, 0).hour = h /\ At(date, h, 0).isdst = 0
    BY <2>1, <2>3, DateOfDate, AtIsTm
  <2> QED BY <2>2, <2>3, <2>4, <2>5
<1> QED BY <1>2, <1>3

LEMMA LocalIs ==
  ASSUME NEW tm \in TMs, Exists(Day(tm)), tm.isdst = 0
  PROVE  /\ Local(tm) \in TMs /\ Exists(Day(Local(tm)))
         /\ tm.hour \in 0..22 => Day(Local(tm)) = Day(tm) /\ Steady(Local(tm))
<1>1. tm.hour \in 0..23 /\ tm.year \in Int /\ tm.mon \in Int /\ tm.mday \in Int
  BY DayIsDate
<1>2. CASE <<tm.mon, tm.mday>> \notin Summer
  BY <1>1, <1>2 DEF Local, Steady
<1>3. CASE <<tm.mon, tm.mday>> \in Summer /\ tm.hour = 23
  <2>1. Local(tm) = At(Later(tm, 1), 0, 1)
    BY <1>3 DEF Local
  <2> QED BY <1>3, <2>1, LaterExists, DateOfDate, AtIsTm
<1>4. CASE <<tm.mon, tm.mday>> \in Summer /\ tm.hour # 23
  <2> DEFINE h == tm.hour + 1
  <2>1. Local(tm) = At(tm, h, 1) /\ h \in 0..23 /\ h - 1 \in 0..22
    BY <1>1, <1>4 DEF Local
  <2> HIDE DEF h
  <2>2. Day(At(tm, h, 1)) = Day(tm) /\ At(tm, h, 1) \in TMs
        /\ At(tm, h, 1).hour = h /\ At(tm, h, 1).isdst = 1
    BY <1>1, <2>1, AtIsTm DEF Day
  <2> QED BY <2>1, <2>2 DEF Steady
<1> QED BY <1>2, <1>3, <1>4

LEMMA MktimeIs ==
  ASSUME NEW tm \in TMs
  PROVE  /\ Mktime(tm) \in TMs /\ Exists(Day(Mktime(tm)))
         /\ Exists(Day(tm)) /\ Steady(tm) => Day(Mktime(tm)) = Day(tm) /\ Steady(Mktime(tm))
BY StandardIs, LocalIs DEF Mktime

LEMMA TodayIs ==
  ASSUME NEW hour \in 0..23
  PROVE  /\ Today \in DatesOfInts /\ Exists(Today) /\ At(Today, hour, 0) \in TMs
         /\ Day(At(Today, hour, 0)) = Today
         /\ At(Today, hour, 0).mon \in 0..11 /\ At(Today, hour, 0).mday >= 1
<1>1. Today \in DatesOfInts /\ Exists(Today) /\ Today.mon \in 0..11 /\ Today.mday >= 1
  BY CalendarAssumption DEF Exists, DatesOfInts
<1> QED BY <1>1, DateOfDate, AtIsTm

LEMMA SelectedIs ==
  ASSUME NEW tm \in TMs
  PROVE  /\ Selected(tm) \in TMs /\ Exists(Day(Selected(tm)))
         /\ Exists(Day(tm)) =>
              IF Representable(tm) THEN Steady(tm) => Day(Selected(tm)) = Day(tm) ELSE Day(Selected(tm)) = Today
BY MktimeIs, TodayIs DEF Selected

(* The day of a month that has fewer is moved to its last                  *)
LEMMA ClampedIsDate ==
  ASSUME NEW tm \in TMs
  PROVE  /\ Clamped(tm) \in TMs
         /\ tm.mon \in 0..11 /\ tm.mday >= 1 => Exists(Day(Clamped(tm)))
<1>1. DaysIn(tm) \in Int /\ (tm.mon \in 0..11 => DaysIn(tm) >= 1)
  BY DEF DaysIn, DaysInMonth
<1> DEFINE d == IF tm.mday > DaysIn(tm) THEN DaysIn(tm) ELSE tm.mday
           c == Clamped(tm)
<1>2. c = [tm EXCEPT !.mday = d]
  BY DEF Clamped
<1>3. d \in Int /\ d <= DaysIn(tm) /\ (tm.mon \in 0..11 /\ tm.mday >= 1 => d >= 1)
  BY <1>1, DayIsDate
<1> HIDE DEF d, c
<1>4. c.year = tm.year /\ c.mon = tm.mon /\ c.mday = d /\ c \in TMs
  BY <1>2, <1>3 DEF TMs
<1>5. DaysIn(c) = DaysIn(tm)
  BY <1>4 DEF DaysIn
<1>6. /\ Day(c) \in [year : Int, mon : Int, mday : Int] /\ Day(c).mon = tm.mon /\ Day(c).mday = d
      /\ DaysIn(Day(c)) = DaysIn(tm)
  BY <1>4, <1>5, DayIsDate DEF DatesOfInts
<1>7. tm.mon \in 0..11 /\ tm.mday >= 1 => Exists(Day(c))
  BY <1>1, <1>3, <1>6 DEF Exists
<1> QED BY <1>4, <1>7 DEF c

-----------------------------------------------------------------------------
(* The calendar                                                            *)
CalendarInv ==
  /\ field \in DatesOfInts
  /\ table \in TMs /\ Exists(Day(table)) /\ displayDate \in TMs /\ Exists(Day(displayDate))
  /\ \/ displayDate = table
     \/ IF Representable(displayDate) THEN Steady(displayDate) => Day(table) = Day(displayDate)
        ELSE Day(table) = Today

LEMMA ChangedExists ==
  ASSUME NEW tm \in TMs, tm.mon \in 0..11, tm.mday >= 1, ChangeDate(tm), CalendarInv
  PROVE  CalendarInv'
<1> DEFINE c == Clamped(tm)
<1>1. c \in TMs /\ Exists(Day(c))
  BY ClampedIsDate
<1>2. displayDate' = c /\ table' = Selected(c) /\ field' = field
  BY DEF ChangeDate
<1> HIDE DEF c
<1>3. /\ Selected(c) \in TMs /\ Exists(Day(Selected(c)))
      /\ IF Representable(c) THEN Steady(c) => Day(Selected(c)) = Day(c) ELSE Day(Selected(c)) = Today
  BY <1>1, SelectedIs
<1> DEFINE P(x, t) == /\ t \in TMs /\ Exists(Day(t)) /\ x \in TMs /\ Exists(Day(x))
                      /\ \/ x = t
                         \/ IF Representable(x) THEN Steady(x) => Day(t) = Day(x) ELSE Day(t) = Today
<1>4. P(c, Selected(c))
  BY <1>1, <1>3
<1>5. P(displayDate', table')
  BY <1>2, <1>4
<1>6. field' \in DatesOfInts
  BY <1>2 DEF CalendarInv
<1>7. Exists(Day(table))' /\ Exists(Day(displayDate))' /\ table' \in TMs /\ displayDate' \in TMs
  BY <1>5 DEF Exists, Day, DaysIn
<1>8. Representable(displayDate)' <=> Representable(displayDate')
  OBVIOUS
<1>9. Steady(displayDate)' <=> Steady(displayDate')
  BY DEF Steady
<1>10. Day(table)' = Day(table') /\ Day(displayDate)' = Day(displayDate')
  BY DEF Day
<1> HIDE DEF P
<1>11. \/ displayDate' = table'
       \/ IF Representable(displayDate') THEN Steady(displayDate') => Day(table') = Day(displayDate')
          ELSE Day(table') = Today
  BY <1>5 DEF P
<1> QED BY <1>6, <1>7, <1>8, <1>9, <1>10, <1>11 DEF CalendarInv

(* Where display_date_ is the table's                                       *)
LEMMA SameExists ==
  ASSUME field' \in DatesOfInts, table' \in TMs, Exists(Day(table')), displayDate' = table'
  PROVE  CalendarInv'
BY DEF CalendarInv, Exists, Day, DaysIn

LEMMA CalendarInvInit == CalendarInit => CalendarInv
<1> SUFFICES ASSUME CalendarInit PROVE CalendarInv
  OBVIOUS
<1>1. NoDate \in DatesOfInts
  BY DEF NoDate, Date, DatesOfInts
<1>2. 0 \in 0..23
  OBVIOUS
<1> QED BY <1>1, <1>2, TodayIs DEF CalendarInit, CalendarInv

LEMMA TableIsDate ==
  ASSUME CalendarInv
  PROVE  /\ table \in TMs /\ Exists(Day(table)) /\ displayDate \in TMs /\ Exists(Day(displayDate))
         /\ table.year \in Int /\ table.mon \in 0..11 /\ table.mday \in 1..DaysIn(table)
         /\ DaysIn(table) = DaysInMonth(table.year, table.mon) /\ DaysIn(table) \in 28..31
         /\ displayDate.year \in Int /\ displayDate.mon \in 0..11 /\ displayDate.mday \in Int /\ displayDate.mday >= 1
<1>1. ASSUME NEW tm \in TMs, Exists(Day(tm))
      PROVE  /\ tm.year \in Int /\ tm.mon \in 0..11 /\ tm.mday \in 1..DaysIn(tm)
             /\ DaysIn(tm) = DaysInMonth(tm.year, tm.mon) /\ DaysIn(tm) \in 28..31
  <2>1. tm.year \in Int /\ tm.mon \in 0..11 /\ tm.mday \in 1..DaysIn(tm)
    BY <1>1, DayIsDate DEF Exists
  <2> QED BY <2>1 DEF DaysIn, DaysInMonth
<1>2. table \in TMs /\ Exists(Day(table)) /\ displayDate \in TMs /\ Exists(Day(displayDate))
  BY DEF CalendarInv
<1> QED BY <1>1, <1>2

(* month_start_, which is of the table's month if the hour is no obstacle   *)
LEMMA MonthStartIs ==
  ASSUME CalendarInv
  PROVE  /\ MonthStart \in TMs /\ Exists(Day(MonthStart)) /\ Weekday(MonthStart) \in 0..6
         /\ Steady(table) => Day(MonthStart) = Date(table.year, table.mon, 1) /\ Steady(MonthStart)
<1> DEFINE t == [table EXCEPT !.mday = 1]
           m == MonthStart
<1>1. /\ t \in TMs /\ t.year = table.year /\ t.mon = table.mon /\ t.mday = 1
      /\ t.hour = table.hour /\ t.isdst = table.isdst
  BY TableIsDate DEF TMs
<1>2. m = Mktime(t)
  BY DEF MonthStart
<1> HIDE DEF t, m
<1>3. Day(t) = Date(table.year, table.mon, 1)
  BY <1>1 DEF Day
<1>4. Exists(Day(t))
  <2>1. DaysIn(t) = DaysIn(table)
    BY <1>1 DEF DaysIn
  <2> QED BY <1>1, <2>1, DayIsDate, TableIsDate DEF Exists, DatesOfInts
<1>5. m \in TMs /\ Exists(Day(m)) /\ (Steady(t) => Day(m) = Day(t) /\ Steady(m))
  BY <1>1, <1>2, <1>4, MktimeIs
<1>6. Steady(table) => Steady(t)
  BY <1>1 DEF Steady
<1>7. Weekday(m) \in 0..6
  <2>1. m.year \in Int /\ m.mon \in 0..11 /\ m.mday \in Int
    BY <1>5, DayIsDate DEF Exists
  <2> DEFINE n == NumberOf(m)
  <2>2. n \in Int
    <3>1. DayNumber(m.year, m.mon, 1) \in Int /\ n = DayNumber(m.year, m.mon, 1) + m.mday - 1
      BY <2>1, FirstIsNumber, DayOfMonth DEF NumberOf
    <3> HIDE DEF n
    <3> QED BY <2>1, <3>1
  <2>3. Weekday(m) = (n + 4) % 7
    BY DEF Weekday
  <2> HIDE DEF n
  <2> QED BY <2>2, <2>3
<1> QED BY <1>3, <1>5, <1>6, <1>7 DEF m

(* A cell shows dates that exist                                            *)
LEMMA CellsExist ==
  ASSUME CalendarInv, NEW row \in 0..4, NEW col \in 0..6, NEW tm \in GetDate(row, col)
  PROVE  tm \in TMs /\ Exists(Day(tm))
<1>1. ASSUME NEW d \in Int PROVE [MonthStart EXCEPT !.mday = d] \in TMs
  BY MonthStartIs DEF TMs
<1> DEFINE first == Weekday(MonthStart)
<1>2. first \in Int
  BY MonthStartIs
<1>3. PICK d \in Int : tm = Mktime([MonthStart EXCEPT !.mday = d])
  <2>1. tm \in IF row = 0 /\ col < first
               THEN IF col <= DaysIn(table) - LastSunday(first) \/ (~TRUE /\ col + 1 > LastSunday(first))
                    THEN {Mktime([MonthStart EXCEPT !.mday = LastSunday(first) + col])} ELSE {}
               ELSE IF col <= DaysIn(table) - (row * 7 + 1 - first) \/ (~FALSE /\ col + 1 > row * 7 + 1 - first)
                    THEN {Mktime([MonthStart EXCEPT !.mday = row * 7 + 1 - first + col])} ELSE {}
    BY DEF GetDate
  <2> HIDE DEF first
  <2>2. LastSunday(first) + col \in Int /\ row * 7 + 1 - first + col \in Int
    BY <1>2 DEF LastSunday
  <2> QED BY <2>1, <2>2
<1> QED BY <1>1, <1>3, MktimeIs

LEMMA CalendarInvStep == CalendarInv /\ [CalendarNext]_calendarVars => CalendarInv'
<1> SUFFICES ASSUME CalendarInv, [CalendarNext]_calendarVars PROVE CalendarInv'
  OBVIOUS
<1>1. NoDate \in DatesOfInts /\ \A date \in Typed \cup {Today} : date \in DatesOfInts
  BY CalendarAssumption DEF NoDate, Date, DatesOfInts
<1>2. CASE PressButton
  <2> DEFINE date == IF field = NoDate THEN Today ELSE field
             tm == Clamped(At(date, 0, 0))
  <2>1. date \in DatesOfInts
    BY <1>1 DEF CalendarInv
  <2>2. field' = date /\ table' = Selected(tm) /\ displayDate' = table'
    BY <1>2 DEF PressButton
  <2> HIDE DEF date
  <2>3. At(date, 0, 0) \in TMs
    BY <2>1, DateOfDate, AtIsTm
  <2>4. tm \in TMs
    BY <2>3, ClampedIsDate
  <2> HIDE DEF tm
  <2>5. table' \in TMs /\ Exists(Day(table'))
    <3>1. Selected(tm) \in TMs /\ Exists(Day(Selected(tm)))
      BY <2>4, SelectedIs
    <3> QED BY <2>2, <3>1
  <2> QED BY <2>1, <2>2, <2>5, SameExists
<1>3. CASE Type
  <2>1. field' \in DatesOfInts /\ UNCHANGED <<displayDate, table>>
    BY <1>1, <1>3 DEF Type
  <2> QED BY <2>1 DEF CalendarInv, Exists, DaysIn, Day, Representable, Steady
<1>4. CASE Ok
  <2>1. field' = Day(table) /\ displayDate' = table /\ table' = table
    BY <1>4 DEF Ok
  <2>2. field' \in DatesOfInts /\ table' \in TMs /\ Exists(Day(table'))
    BY <2>1, TableIsDate, DayIsDate
  <2> QED BY <2>1, <2>2, SameExists
<1>5. CASE Cancel
  <2>1. field' \in DatesOfInts /\ UNCHANGED <<displayDate, table>>
    BY <1>1, <1>5 DEF Cancel, CalendarInv
  <2> QED BY <2>1 DEF CalendarInv, Exists, DaysIn, Day, Representable, Steady
<1>6. CASE PrevYear
  <2> DEFINE date == [displayDate EXCEPT !.year = @ - 1]
  <2>1. date \in TMs /\ date.mon \in 0..11 /\ date.mday >= 1
    BY TableIsDate DEF TMs
  <2>2. ChangeDate(date)
    BY <1>6 DEF PrevYear
  <2> HIDE DEF date
  <2> QED BY <2>1, <2>2, ChangedExists
<1>7. CASE NextYear
  <2> DEFINE date == [displayDate EXCEPT !.year = @ + 1]
  <2>1. date \in TMs /\ date.mon \in 0..11 /\ date.mday >= 1
    BY TableIsDate DEF TMs
  <2>2. ChangeDate(date)
    BY <1>7 DEF NextYear
  <2> HIDE DEF date
  <2> QED BY <2>1, <2>2, ChangedExists
<1>8. CASE PrevMonth
  <2> DEFINE date == IF displayDate.mon > 0 THEN [displayDate EXCEPT !.mon = @ - 1]
                     ELSE [displayDate EXCEPT !.mon = 11, !.year = @ - 1]
  <2>1. date \in TMs /\ date.mon \in 0..11 /\ date.mday >= 1
    <3>1. CASE displayDate.mon > 0
      BY <3>1, TableIsDate DEF TMs
    <3>2. CASE ~(displayDate.mon > 0)
      <4> DEFINE half == [displayDate EXCEPT !.mon = 11]
      <4>1. date = [half EXCEPT !.year = half.year - 1]
        BY <3>2, TableIsDate DEF TMs
      <4>2. half \in TMs /\ half.mon = 11 /\ half.mday >= 1
        BY TableIsDate DEF TMs
      <4> HIDE DEF half, date
      <4> QED BY <4>1, <4>2 DEF TMs
    <3> QED BY <3>1, <3>2
  <2>2. ChangeDate(date)
    <3>1. CASE displayDate.mon > 0
      BY <1>8, <3>1, TableIsDate DEF PrevMonth
    <3>2. CASE ~(displayDate.mon > 0)
      BY <1>8, <3>2, TableIsDate DEF PrevMonth
    <3> QED BY <3>1, <3>2
  <2> HIDE DEF date
  <2> QED BY <2>1, <2>2, ChangedExists
<1>9. CASE NextMonth
  <2> DEFINE date == IF displayDate.mon < 11 THEN [displayDate EXCEPT !.mon = @ + 1]
                     ELSE [displayDate EXCEPT !.mon = 0, !.year = @ + 1]
  <2>1. date \in TMs /\ date.mon \in 0..11 /\ date.mday >= 1
    <3>1. CASE displayDate.mon < 11
      BY <3>1, TableIsDate DEF TMs
    <3>2. CASE ~(displayDate.mon < 11)
      <4> DEFINE half == [displayDate EXCEPT !.mon = 0]
      <4>1. date = [half EXCEPT !.year = half.year + 1]
        BY <3>2, TableIsDate DEF TMs
      <4>2. half \in TMs /\ half.mon = 0 /\ half.mday >= 1
        BY TableIsDate DEF TMs
      <4> HIDE DEF half, date
      <4> QED BY <4>1, <4>2 DEF TMs
    <3> QED BY <3>1, <3>2
  <2>2. ChangeDate(date)
    <3>1. CASE displayDate.mon < 11
      BY <1>9, <3>1, TableIsDate DEF NextMonth
    <3>2. CASE ~(displayDate.mon < 11)
      BY <1>9, <3>2, TableIsDate DEF NextMonth
    <3> QED BY <3>1, <3>2
  <2> HIDE DEF date
  <2> QED BY <2>1, <2>2, ChangedExists
<1>10. CASE GoToToday
  <2>1. PICK hour \in Hours : ChangeDate(At(Today, hour, 0))
    BY <1>10 DEF GoToToday
  <2>2. hour \in 0..23
    BY CalendarAssumption
  <2> QED BY <2>1, <2>2, TodayIs, ChangedExists
<1>11. CASE ClickCell
  <2> PICK row \in 0..4, col \in 0..6 : \E tm \in GetDate(row, col) : ChangeDate(tm)
    BY <1>11 DEF ClickCell
  <2>1. PICK tm \in GetDate(row, col) : ChangeDate(tm)
    OBVIOUS
  <2>2. tm \in TMs /\ Exists(Day(tm))
    BY CellsExist
  <2>3. tm.mon \in 0..11 /\ tm.mday >= 1
    BY <2>2, DayIsDate DEF Exists
  <2> QED BY <2>1, <2>2, <2>3, ChangedExists
<1>12. CASE UNCHANGED calendarVars
  BY <1>12 DEF calendarVars, CalendarInv, Exists, DaysIn, Day, Representable, Steady
<1> QED BY <1>2, <1>3, <1>4, <1>5, <1>6, <1>7, <1>8, <1>9, <1>10, <1>11, <1>12 DEF CalendarNext

-----------------------------------------------------------------------------
(* The table: where each day of the month is                               *)
FirstDay == Weekday(MonthStart)
DayAt(row, col) == (IF row = 0 /\ col < FirstDay THEN LastSunday(FirstDay) ELSE row * 7 + 1 - FirstDay) + col
CellOf(d) ==
  IF d - 1 + FirstDay < 35 THEN <<(d - 1 + FirstDay) \div 7, (d - 1 + FirstDay) % 7>>
  ELSE <<0, d - 36 + FirstDay>>
DayOf(d) == Date(table.year, table.mon, d)

LEMMA DaysOfTable ==
  ASSUME CalendarInv, Steady(table)
  PROVE  /\ FirstDay \in 0..6
         /\ \A d \in 1..DaysIn(table) : /\ Day(Mktime([MonthStart EXCEPT !.mday = d])) = DayOf(d)
                                        /\ Weekday(DayOf(d)) = (d - 1 + FirstDay) % 7
<1> DEFINE n == DayNumber(table.year, table.mon, 1)
           m == MonthStart
<1>1. n \in Int
  BY TableIsDate, FirstIsNumber, Zenon
<1>2. ASSUME NEW d \in Int PROVE Weekday(DayOf(d)) = (n + d - 1 + 4) % 7
  <2>1. DayNumber(table.year, table.mon, d) = n + d - 1
    BY TableIsDate, DayOfMonth
  <2>2. DayOf(d).year = table.year /\ DayOf(d).mon = table.mon /\ DayOf(d).mday = d
    BY DEF DayOf, Date
  <2>3. Weekday(DayOf(d)) = (DayNumber(table.year, table.mon, d) + 4) % 7
    BY <2>2 DEF Weekday, NumberOf
  <2> HIDE DEF n
  <2> QED BY <2>1, <2>3
<1> HIDE DEF n
<1>3. m \in TMs /\ m.year = table.year /\ m.mon = table.mon /\ m.mday = 1 /\ Steady(m)
  BY MonthStartIs, DayIsDate DEF Date
<1>4. FirstDay = (n + 4) % 7
  BY <1>3 DEF FirstDay, Weekday, NumberOf, n
<1>5. FirstDay \in 0..6
  BY <1>1, <1>4
<1>6. ASSUME NEW d \in 1..DaysIn(table)
      PROVE  /\ Day(Mktime([m EXCEPT !.mday = d])) = DayOf(d)
             /\ Weekday(DayOf(d)) = (d - 1 + FirstDay) % 7
  <2> DEFINE t == [m EXCEPT !.mday = d]
  <2>1. d \in Int
    BY TableIsDate
  <2>2. t \in TMs /\ Steady(t) /\ Day(t) = DayOf(d) /\ t.mon = table.mon /\ t.mday = d /\ DaysIn(t) = DaysIn(table)
    <3> HIDE DEF m
    <3> QED BY <1>3, <2>1 DEF TMs, Steady, Day, DayOf, DaysIn
  <2> HIDE DEF t
  <2>3. Exists(Day(t))
    BY <2>2, DayIsDate, TableIsDate DEF Exists, DatesOfInts
  <2>4. Day(Mktime(t)) = DayOf(d)
    BY <2>2, <2>3, MktimeIs
  <2>5. (n + d - 1 + 4) % 7 = (d - 1 + FirstDay) % 7
    BY <1>1, <1>4, <2>1
  <2> QED BY <1>2, <2>1, <2>4, <2>5 DEF t
<1> QED BY <1>5, <1>6 DEF m

(* The days a cell shows                                                    *)
Dates(tms) == {Day(tm) : tm \in tms}

LEMMA CellShows ==
  ASSUME CalendarInv, Steady(table), NEW row \in 0..4, NEW col \in 0..6
  PROVE  /\ DayAt(row, col) \in Int /\ DayAt(row, col) >= 1
         /\ Dates(GetDate(row, col)) = IF DayAt(row, col) <= DaysIn(table) THEN {DayOf(DayAt(row, col))} ELSE {}
<1> DEFINE w == FirstDay
           last == DaysIn(table)
           sunday == IF row = 0 /\ col < w THEN LastSunday(w) ELSE row * 7 + 1 - w
           d == sunday + col
<1>1. w \in 0..6 /\ last \in 28..31
  BY DaysOfTable, TableIsDate
<1>2. DayAt(row, col) = d
  BY DEF DayAt
<1>3. GetDate(row, col) =
        IF row = 0 /\ col < w
        THEN IF col <= last - LastSunday(w) \/ (~TRUE /\ col + 1 > LastSunday(w))
             THEN {Mktime([MonthStart EXCEPT !.mday = LastSunday(w) + col])} ELSE {}
        ELSE IF col <= last - (row * 7 + 1 - w) \/ (~FALSE /\ col + 1 > row * 7 + 1 - w)
             THEN {Mktime([MonthStart EXCEPT !.mday = row * 7 + 1 - w + col])} ELSE {}
  BY DEF GetDate, FirstDay
<1> HIDE DEF w, last
<1>4. /\ sunday \in Int /\ d \in Int /\ d >= 1 /\ (d <= last <=> col <= last - sunday)
      /\ ~(row = 0 /\ col < w) /\ col + 1 > sunday => d <= last
  BY <1>1 DEF LastSunday
<1>5. GetDate(row, col) = IF d <= last THEN {Mktime([MonthStart EXCEPT !.mday = d])} ELSE {}
  BY <1>3, <1>4
<1> HIDE DEF d
<1>6. d <= last => Day(Mktime([MonthStart EXCEPT !.mday = d])) = DayOf(d)
  <2> SUFFICES ASSUME d <= last PROVE Day(Mktime([MonthStart EXCEPT !.mday = d])) = DayOf(d)
    OBVIOUS
  <2>1. d \in 1..DaysIn(table)
    BY <1>1, <1>4 DEF last
  <2> QED BY <2>1, DaysOfTable
<1>7. Dates(GetDate(row, col)) = IF d <= last THEN {DayOf(d)} ELSE {}
  BY <1>5, <1>6 DEF Dates
<1> QED BY <1>2, <1>4, <1>7 DEF last

LEMMA CellOfDay ==
  ASSUME CalendarInv, Steady(table), NEW d \in 1..DaysIn(table)
  PROVE  /\ CellOf(d) \in (0..4) \X (0..6) /\ DayAt(CellOf(d)[1], CellOf(d)[2]) = d
         /\ CellOf(d)[2] = (d - 1 + FirstDay) % 7
         /\ \A row \in 0..4, col \in 0..6 : DayAt(row, col) = d => CellOf(d) = <<row, col>>
<1> DEFINE w == FirstDay
           i == d - 1 + w
<1>1. w \in 0..6 /\ d \in 1..31
  BY DaysOfTable, TableIsDate
<1> HIDE DEF w
<1>2. i \in 0..36 /\ d = i + 1 - w /\ d - 36 + w = i - 35 /\ i - 35 < w
  BY <1>1
<1>3. CellOf(d) = IF i < 35 THEN <<i \div 7, i % 7>> ELSE <<0, i - 35>>
  BY <1>2 DEF CellOf, w
<1>4. ASSUME NEW row, NEW col
      PROVE  DayAt(row, col) = (IF row = 0 /\ col < w THEN 36 - w ELSE row * 7 + 1 - w) + col
  BY DEF DayAt, LastSunday, w
<1> HIDE DEF i
<1>5. CASE i < 35
  <2> DEFINE r == i \div 7
             c == i % 7
  <2>1. r \in 0..4 /\ c \in 0..6 /\ i = 7 * r + c
    BY <1>2, <1>5
  <2> HIDE DEF r, c
  <2>2. CellOf(d) = <<r, c>>
    BY <1>3, <1>5 DEF r, c
  <2>3. DayAt(r, c) = d
    BY <1>1, <1>2, <1>4, <2>1
  <2>4. ASSUME NEW row \in 0..4, NEW col \in 0..6, DayAt(row, col) = d PROVE row = r /\ col = c
    <3>1. (IF row = 0 /\ col < w THEN 36 - w ELSE row * 7 + 1 - w) + col = d
      BY <1>4, <2>4
    <3>2. ~(row = 0 /\ col < w)
      BY <1>1, <1>2, <1>5, <3>1
    <3>3. row * 7 + col = i
      BY <1>1, <1>2, <3>1, <3>2
    <3> QED BY <2>1, <3>3
  <2>5. c = (d - 1 + FirstDay) % 7
    BY DEF c, i, w
  <2> QED BY <2>1, <2>2, <2>3, <2>4, <2>5
<1>6. CASE ~(i < 35)
  <2>1. CellOf(d) = <<0, i - 35>> /\ i - 35 \in 0..6 /\ i - 35 < w /\ i - 35 = i % 7
    BY <1>2, <1>3, <1>6
  <2>2. DayAt(0, i - 35) = d
    BY <1>1, <1>2, <1>4, <2>1
  <2>3. ASSUME NEW row \in 0..4, NEW col \in 0..6, DayAt(row, col) = d PROVE row = 0 /\ col = i - 35
    <3>1. (IF row = 0 /\ col < w THEN 36 - w ELSE row * 7 + 1 - w) + col = d
      BY <1>4, <2>3
    <3> QED BY <1>1, <1>2, <1>6, <3>1
  <2> QED BY <2>1, <2>2, <2>3 DEF i, w
<1> QED BY <1>5, <1>6

LEMMA AsManyCellsAsDays ==
  ASSUME NEW n \in Nat, NEW S, NEW f \in [1..n -> S],
         \A j, k \in 1..n : f[j] = f[k] => j = k, \A x \in S : \E k \in 1..n : f[k] = x
  PROVE  Cardinality(S) = n
<1>1. f \in Bijection(1..n, S)
  BY DEF Bijection, Injection, Surjection, IsInjective
<1>2. ExistsBijection(1..n, S)
  BY <1>1 DEF ExistsBijection
<1> QED BY <1>2, FS_CountingElements

LEMMA TableIsMonth ==
  ASSUME CalendarInv, Steady(table)
  PROVE  LET shown == {<<c, Dates(GetDate(c[1], c[2]))>> : c \in (0..4) \X (0..6)}
             days == {Date(table.year, table.mon, d) : d \in 1..DaysIn(table)}
             cells == {s \in shown : s[2] # {}}
         IN  /\ Cardinality(cells) = Cardinality(days)
             /\ UNION {s[2] : s \in cells} = days
             /\ \A s \in cells : \A date \in s[2] : Weekday(date) = s[1][2]
<1> DEFINE last == DaysIn(table)
           shown == {<<c, Dates(GetDate(c[1], c[2]))>> : c \in (0..4) \X (0..6)}
           days == {Date(table.year, table.mon, d) : d \in 1..last}
           cells == {s \in shown : s[2] # {}}
           Cell(d) == <<CellOf(d), {DayOf(d)}>>
<1>1. last \in Nat
  BY TableIsDate
<1>3. \A s : s \in shown <=> \E c \in (0..4) \X (0..6) : s = <<c, Dates(GetDate(c[1], c[2]))>>
  OBVIOUS
<1>4. \A date : date \in days <=> \E d \in 1..last : date = DayOf(d)
  BY DEF DayOf
<1> HIDE DEF shown, days
<1>5. ASSUME NEW d \in 1..last PROVE Cell(d) \in cells
  <2> DEFINE c == CellOf(d)
  <2>1. c \in (0..4) \X (0..6) /\ DayAt(c[1], c[2]) = d
    BY CellOfDay
  <2> HIDE DEF c
  <2>2. c[1] \in 0..4 /\ c[2] \in 0..6 /\ d <= DaysIn(table)
    BY <1>1, <2>1
  <2>3. Dates(GetDate(c[1], c[2])) = {DayOf(d)}
    BY <2>1, <2>2, CellShows
  <2>4. <<c, {DayOf(d)}>> \in shown
    BY <1>3, <2>1, <2>3
  <2> QED BY <2>4 DEF c
<1>6. ASSUME NEW s \in cells PROVE \E d \in 1..last : s = Cell(d)
  <2>1. s \in shown /\ s[2] # {}
    OBVIOUS
  <2>2. PICK c \in (0..4) \X (0..6) : s = <<c, Dates(GetDate(c[1], c[2]))>>
    BY <1>3, <2>1
  <2>3. PICK row \in 0..4, col \in 0..6 : c = <<row, col>>
    OBVIOUS
  <2>4. s = <<<<row, col>>, Dates(GetDate(row, col))>> /\ Dates(GetDate(row, col)) # {}
    BY <2>1, <2>2, <2>3
  <2> DEFINE d == DayAt(row, col)
  <2>5. d \in Int /\ d >= 1 /\ Dates(GetDate(row, col)) = IF d <= DaysIn(table) THEN {DayOf(d)} ELSE {}
    BY CellShows
  <2>6. d = DayAt(row, col)
    OBVIOUS
  <2> HIDE DEF d
  <2>7. d \in 1..DaysIn(table) /\ Dates(GetDate(row, col)) = {DayOf(d)}
    BY <1>1, <2>4, <2>5
  <2>8. CellOf(d) = <<row, col>>
    BY <2>6, <2>7, CellOfDay
  <2> QED BY <2>4, <2>7, <2>8
<1>7. ASSUME NEW j \in 1..last, NEW k \in 1..last, DayOf(j) = DayOf(k) PROVE j = k
  BY <1>7 DEF DayOf, Date
<1>8. Cardinality(cells) = last
  <2> DEFINE f == [d \in 1..last |-> Cell(d)]
  <2>1. f \in [1..last -> cells]
    BY <1>5
  <2>2. \A d \in 1..last : f[d] = Cell(d)
    OBVIOUS
  <2>3. ASSUME NEW j \in 1..last, NEW k \in 1..last, f[j] = f[k] PROVE j = k
    <3>1. Cell(j) = Cell(k)
      BY <2>2, <2>3
    <3>2. DayOf(j) = DayOf(k)
      BY <3>1
    <3> QED BY <1>7, <3>2
  <2>4. \A x \in cells : \E k \in 1..last : f[k] = x
    <3> HIDE DEF f, Cell, cells
    <3> QED BY <1>6, <2>2
  <2> HIDE DEF f, Cell, cells, last
  <2> QED BY <1>1, <2>1, <2>3, <2>4, AsManyCellsAsDays
<1>9. Cardinality(days) = last
  <2> DEFINE f == [d \in 1..last |-> DayOf(d)]
  <2>1. f \in [1..last -> days] /\ \A d \in 1..last : f[d] = DayOf(d)
    BY <1>4
  <2>2. \A x \in days : \E k \in 1..last : f[k] = x
    BY <1>4, <2>1
  <2>3. \A j, k \in 1..last : f[j] = f[k] => j = k
    BY <1>7, <2>1
  <2> HIDE DEF f, last
  <2> QED BY <1>1, <2>1, <2>2, <2>3, AsManyCellsAsDays
<1>10. UNION {s[2] : s \in cells} = days
  <2> DEFINE U == UNION {s[2] : s \in cells}
  <2>0. \A date : date \in U <=> \E s \in cells : date \in s[2]
    OBVIOUS
  <2> HIDE DEF U, cells
  <2>1. ASSUME NEW date \in U PROVE date \in days
    <3>1. PICK s \in cells : date \in s[2]
      BY <2>0
    <3>2. PICK d \in 1..last : s = Cell(d)
      BY <1>6
    <3>3. date = DayOf(d)
      BY <3>1, <3>2
    <3> QED BY <1>4, <3>3
  <2>2. ASSUME NEW date \in days PROVE date \in U
    <3>1. PICK d \in 1..last : date = DayOf(d)
      BY <1>4
    <3>2. Cell(d) \in cells /\ date \in Cell(d)[2]
      BY <1>5, <3>1
    <3> QED BY <2>0, <3>2
  <2>3. U = days
    BY <2>1, <2>2
  <2> QED BY <2>3 DEF U
<1>11. ASSUME NEW s \in cells, NEW date \in s[2] PROVE Weekday(date) = s[1][2]
  <2>1. PICK d \in 1..last : s = Cell(d)
    BY <1>6
  <2>2. date = DayOf(d) /\ s[1] = CellOf(d)
    BY <2>1
  <2>3. Weekday(DayOf(d)) = (d - 1 + FirstDay) % 7
    BY DaysOfTable
  <2>4. CellOf(d)[2] = (d - 1 + FirstDay) % 7
    BY CellOfDay
  <2> QED BY <2>2, <2>3, <2>4
<1> QED BY <1>8, <1>9, <1>10, <1>11 DEF shown, days

LEMMA InvIsTrue == CalendarInv => CalendarIsTrue
<1> SUFFICES ASSUME CalendarInv PROVE CalendarIsTrue
  OBVIOUS
<1>1. Day(table) \in {Date(table.year, table.mon, d) : d \in 1..DaysIn(table)}
  BY TableIsDate DEF Day
<1>2. \/ displayDate = table
      \/ IF Representable(displayDate) THEN Steady(displayDate) => Day(table) = Day(displayDate)
         ELSE Day(table) = Today
  BY DEF CalendarInv
<1> QED BY <1>1, <1>2, TableIsMonth DEF CalendarIsTrue, Dates

(* However the calendar got to its date, the table shows a date that exists *)
(* (zc_calendar_table.cpp:value), the calendar's if mktime can represent it *)
(* and the hour is no obstacle, and the days of its month (get_date): for   *)
(* any texts and years, any days of summer time and any first day that      *)
(* mktime can represent                                                     *)
THEOREM CalendarStaysTrue == CalendarSpec => []CalendarIsTrue
BY CalendarInvInit, CalendarInvStep, InvIsTrue, PTL DEF CalendarSpec
===============================================================================
