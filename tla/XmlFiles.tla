------------------------------ MODULE XmlFiles ------------------------------
(***************************************************************************)
(* Documents in files: xml_document::save_file and load_file               *)
(* (src/pugixml/pugixml.cpp). A document is saved with some flags and in   *)
(* some encoding; the process may end while it writes; the file is loaded  *)
(* with some options, in the encoding it was written in or in what is      *)
(* guessed from its first bytes.                                           *)
(*                                                                         *)
(* What comes back is stated on trees alone (Kept): there is no markup, no *)
(* escape and no byte in it.                                               *)
(***************************************************************************)
EXTENDS XmlWriter, XmlParser

CONSTANTS Saves,        (* what may be saved: <<tree, flags, encoding>>      *)
          Interrupted,  (* those that a crash may interrupt                  *)
          OptionSets,   (* the options a whole file is loaded with           *)
          SafeOptions   (* and one that was cut short                        *)

VARIABLES save,         (* the save that was asked for, <<>> before          *)
          file,         (* the bytes on the disk                             *)
          whole,        (* whether they are all there                        *)
          load          (* <<options, encoding, result>>, <<>> before        *)

fileVars == <<save, file, whole, load>>

FilesInit == save = <<>> /\ file = <<>> /\ whole = TRUE /\ load = <<>>

SaveFile ==
  /\ save = <<>>
  /\ \E s \in Saves : save' = s /\ file' = Save(s[1], s[2], s[3])
  /\ UNCHANGED <<whole, load>>

(* The process ends, or the disk is full: the beginning of the file is there *)
CutShort ==
  /\ save \in Interrupted /\ whole /\ load = <<>>
  /\ \E n \in 0..Len(file) - 1 : file' = SubSeq(file, 1, n)
  /\ whole' = FALSE
  /\ UNCHANGED <<save, load>>

Loads ==
  /\ save # <<>> /\ load = <<>>
  /\ \E o \in IF whole THEN OptionSets ELSE SafeOptions, e \in {save[3]} \cup IF whole THEN {"auto"} ELSE {} :
       load' = <<o, e, LoadFile(file, e, o)>>
  /\ UNCHANGED <<save, file, whole>>

FilesNext == SaveFile \/ CutShort \/ Loads
FilesSpec == FilesInit /\ [][FilesNext]_fileVars

-----------------------------------------------------------------------------
(* What is kept of a document: with the flags f it was saved with and the   *)
(* options o it is loaded with                                              *)

LOCAL INSTANCE SequencesExt
LOCAL Concat(seqs) == FoldLeft(LAMBDA s, t : s \o t, <<>>, seqs)
LOCAL Mapped(Op(_), s) == FoldLeft(LAMBDA r, x : Append(r, Op(x)), <<>>, s)
LOCAL Blank(text) == \A k \in DOMAIN text : IsSpace(text[k])
LOCAL TrimEnd(text) == LET S == {k \in DOMAIN text : ~IsSpace(text[k])}
                       IN  IF S = {} THEN <<>> ELSE SubSeq(text, 1, CHOOSE k \in S : \A j \in S : j <= k)
LOCAL Trim(text) == Reverse(TrimEnd(Reverse(TrimEnd(text))))

KeptLines(text, o) ==
  IF "eol" \notin o THEN text
  ELSE Mapped(LAMBDA c : IF c = "\r" THEN "\n" ELSE c,
              Concat([k \in DOMAIN text |->
                        IF text[k] = "\n" /\ k > 1 /\ text[k - 1] = "\r" THEN <<>> ELSE <<text[k]>>]))

KeptValue(v, f, o) ==
  LET kept == IF "skip_control_chars" \in f THEN SelectSeq(v, LAMBDA c : ~IsControl(c)) ELSE v
      spaced == Concat([k \in DOMAIN kept |->
                          IF kept[k] = " " /\ (k > 1 => kept[k - 1] = " ")
                          THEN <<>> ELSE <<kept[k]>>])
  IN  IF "wnorm" \in o THEN TrimEnd(spaced) ELSE kept

(* A '-' before another and at the end gets a space; "?>" does; "]]>" is cut *)
KeptComment(v, o) ==
  KeptLines(Concat([k \in DOMAIN v |->
                      IF v[k] = "-" /\ (k = Len(v) \/ v[k + 1] = "-") THEN <<"-", " ">> ELSE <<v[k]>>]), o)
KeptPi(v) ==
  LET spaced == Concat([k \in DOMAIN v |->
                          IF v[k] = "?" /\ k < Len(v) /\ v[k + 1] = ">" THEN <<"?", " ">> ELSE <<v[k]>>])
      S == {k \in DOMAIN spaced : ~IsSpace(spaced[k])}
  IN  IF S = {} THEN <<>> ELSE SubSeq(spaced, CHOOSE k \in S : \A j \in S : k <= j, Len(spaced))
RECURSIVE KeptSections(_)
KeptSections(v) ==
  LET S == {k \in DOMAIN v : Here(v, k, <<"]", "]", ">">>)}
      k == CHOOSE k \in S : \A j \in S : k <= j
  IN  IF S = {} THEN <<v>> ELSE <<SubSeq(v, 1, k + 1)>> \o KeptSections(SubSeq(v, k + 2, Len(v)))

(* Texts side by side are one text; an empty one is none                    *)
Joined(kids, f) ==
  FoldLeft(LAMBDA s, k :
             LET text == IF "skip_control_chars" \in f
                         THEN SelectSeq(k.value, LAMBDA c : ~IsControl(c) \/ c \in {"\t", "\n", "\r"})
                         ELSE k.value
             IN  IF k.kind # "pcdata" THEN Append(s, k)
                 ELSE IF text = <<>> THEN s
                 ELSE IF s # <<>> /\ Last(s).kind = "pcdata"
                 THEN Append(Front(s), [Last(s) EXCEPT !.value = @ \o text])
                 ELSE Append(s, [k EXCEPT !.value = text]),
           <<>>, kids)

KeptName(x) == IF x.name = <<>> THEN <<":", "a", "n", "o", "n", "y", "m", "o", "u", "s">> ELSE x.name

RECURSIVE KeptNode(_, _, _)
KeptNode(n, f, o) ==
  LET node == [kind |-> n.kind, name |-> <<>>, value |-> <<>>, attributes |-> <<>>, kids |-> <<>>]
      embedded == IF n.value = <<>> THEN <<>> ELSE <<[node EXCEPT !.kind = "pcdata", !.value = n.value]>>
      inside == Joined(embedded \o n.kids, f)
      root == n.kind = "document"
      Drops(i, kept) ==
        \/ root /\ "fragment" \notin o
        \/ Blank(inside[i].value) /\ (\/ {"ws_pcdata", "ws_pcdata_single"} \cap o = {} \/ "trim_pcdata" \in o
                                      \/ /\ "ws_pcdata_single" \in o
                                         /\ root \/ i < Len(inside) \/ kept.kids # <<>>)
      Below(kept, i) ==
        LET k == inside[i]
            text == LET t == KeptLines(k.value, o) IN IF "trim_pcdata" \in o THEN Trim(t) ELSE t
            With(v) == [kind |-> k.kind, name |-> <<>>, value |-> v, attributes |-> <<>>, kids |-> <<>>]
            More(list) == [kept EXCEPT !.kids = @ \o list]
        IN  CASE k.kind = "pcdata" ->
                   IF Drops(i, kept) THEN kept
                   ELSE IF "embed_pcdata" \in o /\ ~root /\ kept.kids = <<>> /\ kept.value = <<>>
                   THEN [kept EXCEPT !.value = text]
                   ELSE IF "merge_pcdata" \in o /\ kept.kids # <<>> /\ Last(kept.kids).kind = "pcdata"
                   THEN [kept EXCEPT !.kids[Len(kept.kids)].value = @ \o text]
                   ELSE More(<<With(text)>>)
              [] k.kind = "cdata" ->
                   IF "cdata" \in o
                   THEN More(Mapped(LAMBDA v : With(KeptLines(v, o)), KeptSections(k.value))) ELSE kept
              [] k.kind = "comment" ->
                   IF "comments" \in o THEN More(<<With(KeptComment(k.value, o))>>) ELSE kept
              [] k.kind = "doctype" -> IF "doctype" \in o THEN More(<<With(k.value)>>) ELSE kept
              [] k.kind = "pi" ->
                   IF "pi" \in o THEN More(<<[With(KeptPi(k.value)) EXCEPT !.name = KeptName(k)]>>) ELSE kept
              [] k.kind = "declaration" /\ "declaration" \notin o -> kept
              [] OTHER -> More(<<KeptNode(k, f, o)>>)
      empty == [node EXCEPT !.name = IF root THEN <<>> ELSE KeptName(n),
                            !.attributes = Mapped(LAMBDA a : [name |-> KeptName(a),
                                                              value |-> KeptValue(a.value, f, o)], n.attributes)]
  IN  FoldLeft(Below, empty, [i \in DOMAIN inside |-> i])

Declaration(encoding) ==
  [kind |-> "declaration", name |-> <<"x", "m", "l">>, value |-> <<>>, kids |-> <<>>,
   attributes |-> <<[name |-> <<"v", "e", "r", "s", "i", "o", "n">>, value |-> <<"1", ".", "0">>]>>
     \o (IF encoding # "latin1" THEN <<>>
         ELSE <<[name |-> <<"e", "n", "c", "o", "d", "i", "n", "g">>,
                 value |-> <<"I", "S", "O", "-", "8", "8", "5", "9", "-", "1">>]>>)]

LineEnd == [kind |-> "pcdata", name |-> <<>>, value |-> <<"\n">>, attributes |-> <<>>, kids |-> <<>>]

Declares(tree) ==
  \E i \in DOMAIN tree.kids : tree.kids[i].kind = "declaration" /\ \A j \in 1..i : tree.kids[j].kind # "element"
(* A declaration is added on a line of its own, whose end is text to a fragment *)
AsWritten(s) ==
  IF Declares(s[1]) \/ "no_declaration" \in s[2] THEN s[1]
  ELSE [s[1] EXCEPT !.kids = <<Declaration(s[3])>> \o (IF "raw" \in s[2] THEN <<>> ELSE <<LineEnd>>) \o @]

(* Whether the file says which encoding it is in                            *)
SaysLatin1(s) ==
  LET kids == AsWritten(s).kids
  IN  /\ kids # <<>> /\ Head(kids).kind = "declaration"
      /\ \E i \in DOMAIN Head(kids).attributes :
           Head(kids).attributes[i].name = <<"e", "n", "c", "o", "d", "i", "n", "g">>
SaysEncoding(s) ==
  LET texts == Joined(AsWritten(s).kids, s[2])
  IN  \/ s[3] = "latin1" /\ SaysLatin1(s)
      \/ s[3] # "latin1" /\ "write_bom" \in s[2]
      \/ s[3] = "utf8" /\ ~SaysLatin1(s)
      \/ s[3] \notin {"utf8", "latin1"} /\ texts # <<>> /\ Head(texts).kind # "pcdata"

(* load_file drops the last character of a Latin-1 fragment without accents *)
LastIsLost(s, o) ==
  LET texts == Joined(s[1].kids, s[2])
  IN  /\ s[3] = "latin1" /\ (\A k \in DOMAIN file : file[k] < 128)
      /\ "fragment" \in o /\ texts # <<>> /\ Last(texts).kind = "pcdata"

(* Indentation is text to a reader that keeps blanks                        *)
LayoutIsText(s, o) == {"ws_pcdata", "ws_pcdata_single"} \cap o # {} /\ "raw" \notin s[2]

(* A document that is saved and loaded comes back as it was, but for what   *)
(* the options leave out and what XML cannot tell apart: whatever the flags *)
(* and the encoding, however the text was cut into pieces on its way        *)
(* (xml_document::save_file, load_file)                                     *)
SavedLoadsBack ==
  LET kept == KeptNode(AsWritten(save), save[2], load[1])
  IN  load # <<>> /\ whole /\ (load[2] = save[3] \/ SaysEncoding(save))
     /\ ~LastIsLost(save, load[1]) /\ ~LayoutIsText(save, load[1]) =>
        load[3] = [tree |-> kept,
                   status |-> IF \/ "fragment" \in load[1]
                                 \/ \E i \in DOMAIN kept.kids : kept.kids[i].kind = "element"
                              THEN "ok" ELSE "no_document_element"]

(* A file of which only the beginning was written is noticed to be cut,     *)
(* unless it was cut after its first element: then it loads as the document *)
(* without some of what stands after that element, every node that is there *)
(* being whole (save_file writes over the old file; parse_tree looks only   *)
(* for what is open)                                                        *)
TruncationIsNoticed ==
  load # <<>> /\ ~whole /\ load[3].status = "ok" =>
    LET written == AsWritten(save)
    IN  \E n \in DOMAIN written.kids :
          /\ \E i \in 1..n : written.kids[i].kind = "element"
          /\ load[3].tree = KeptNode([written EXCEPT !.kids = SubSeq(@, 1, n)], save[2], load[1])
=============================================================================
