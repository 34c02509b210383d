----------------------------- MODULE XmlWriter -----------------------------
(***************************************************************************)
(* How pugixml writes a document: node_output and what it calls            *)
(* (src/pugixml/pugixml.cpp). A document is a tree of records [kind, name, *)
(* value, attributes, kids], an absent name or value being <<>>; what is   *)
(* written is a sequence of writes (XmlEncoding). The flags are the names  *)
(* of the format_ constants.                                               *)
(***************************************************************************)
EXTENDS XmlEncoding

LOCAL INSTANCE SequencesExt

Indent == <<"\t">>
Entity == ("&" :> <<"&", "a", "m", "p", ";">>) @@ ("<" :> <<"&", "l", "t", ";">>)
          @@ (">" :> <<"&", "g", "t", ";">>)
          @@ ("\"" :> <<"&", "q", "u", "o", "t", ";">>) @@ ("'" :> <<"&", "a", "p", "o", "s", ";">>)

LOCAL Put(text) == <<<<"write", text>>>>
LOCAL PutString(text) == <<<<"string", text>>>>
LOCAL PutBuffer(text) == <<<<"buffer", text>>>>
LOCAL NameOf(x) == IF x.name = <<>> THEN <<":", "a", "n", "o", "n", "y", "m", "o", "u", "s">> ELSE x.name
LOCAL First(i, n, Holds(_)) ==
  IF \E k \in i..n : Holds(k) THEN CHOOSE k \in i..n : Holds(k) /\ \A j \in i..k - 1 : ~Holds(j) ELSE n + 1

-----------------------------------------------------------------------------
(* Texts                                                                    *)

(* chartypex_table: what is not written as it is                            *)
Special(type, c) ==
  IF type = "pcdata" THEN c \in {"&", "<", ">"} \/ (IsControl(c) /\ c \notin {"\t", "\r", "\n"})
  ELSE c \in {"&", "<", "\"", "'"} \/ IsControl(c)

EscapedChar(c, flags) ==
  CASE c \in {"&", "<", ">"} -> Put(Entity[c])
    [] c = "\"" -> Put(IF "attribute_single_quote" \in flags THEN <<c>> ELSE Entity[c])
    [] c = "'"  -> Put(IF "attribute_single_quote" \in flags THEN Entity[c] ELSE <<c>>)
    [] OTHER -> IF "skip_control_chars" \in flags THEN <<>>
                ELSE Put(<<"&", "#", CharOf[48 + CodeOf[c] \div 10], CharOf[48 + (CodeOf[c] % 10)], ";">>)

RECURSIVE TextOutputEscaped(_, _, _)
TextOutputEscaped(s, type, flags) ==
  LET i == First(1, Len(s), LAMBDA k : Special(type, s[k]))
  IN  IF s = <<>> THEN <<>>
      ELSE PutBuffer(SubSeq(s, 1, i - 1))
           \o (IF i > Len(s) THEN <<>>
               ELSE EscapedChar(s[i], flags) \o TextOutputEscaped(SubSeq(s, i + 1, Len(s)), type, flags))

TextOutput(s, type, flags) ==
  IF "no_escapes" \in flags THEN PutString(s) ELSE TextOutputEscaped(s, type, flags)

(* "]]>" ends a section: it is divided between two                          *)
RECURSIVE TextOutputCdata(_)
TextOutputCdata(s) ==
  LET i == First(1, Len(s), LAMBDA k : Here(s, k, <<"]", "]", ">">>))
      rest == IF i > Len(s) THEN <<>> ELSE SubSeq(s, i + 2, Len(s))
  IN  Put(<<"<", "!", "[", "C", "D">>) \o Put(<<"A", "T", "A", "[">>)
      \o PutBuffer(IF i > Len(s) THEN s ELSE SubSeq(s, 1, i + 1)) \o Put(<<"]", "]", ">">>)
      \o (IF rest = <<>> THEN <<>> ELSE TextOutputCdata(rest))

TextOutputIndent(depth) == FoldLeft(LAMBDA out, k : out \o Put(Indent), <<>>, [k \in 1..depth |-> k])

RECURSIVE CommentText(_)
CommentText(s) ==
  LET i == First(1, Len(s), LAMBDA k : s[k] = "-" /\ (k = Len(s) \/ s[k + 1] = "-"))
  IN  IF s = <<>> THEN <<>>
      ELSE PutBuffer(SubSeq(s, 1, i - 1))
           \o (IF i > Len(s) THEN <<>> ELSE Put(<<"-", " ">>) \o CommentText(SubSeq(s, i + 1, Len(s))))

NodeOutputComment(s) == Put(<<"<", "!", "-", "-">>) \o CommentText(s) \o Put(<<"-", "-", ">">>)

RECURSIVE NodeOutputPiValue(_)
NodeOutputPiValue(s) ==
  LET i == First(1, Len(s), LAMBDA k : Here(s, k, <<"?", ">">>))
  IN  IF s = <<>> THEN <<>>
      ELSE PutBuffer(SubSeq(s, 1, i - 1))
           \o (IF i > Len(s) THEN <<>>
               ELSE Put(<<"?", " ", ">">>) \o NodeOutputPiValue(SubSeq(s, i + 2, Len(s))))

-----------------------------------------------------------------------------
(* Nodes                                                                    *)

NodeOutputAttributes(n, indented, flags, depth) ==
  LET quote == IF "attribute_single_quote" \in flags THEN "'" ELSE "\""
      apart == IF "indent_attributes" \in flags /\ "raw" \notin flags
               THEN Put(<<"\n">>) \o (IF indented THEN TextOutputIndent(depth + 1) ELSE <<>>) ELSE Put(<<" ">>)
  IN  FoldLeft(LAMBDA out, a :
                 out \o apart \o PutString(NameOf(a)) \o Put(<<"=", quote>>)
                 \o (IF a.value = <<>> THEN <<>> ELSE TextOutput(a.value, "attr", flags)) \o Put(<<quote>>),
               <<>>, n.attributes)

NodeOutputEnd(n) == Put(<<"<", "/">>) \o PutString(NameOf(n)) \o Put(<<">">>)

(* With the end of an element that has no children                          *)
NodeOutputStart(n, indented, flags, depth) ==
  Put(<<"<">>) \o PutString(NameOf(n)) \o NodeOutputAttributes(n, indented, flags, depth)
  \o CASE n.value = <<>> /\ n.kids # <<>> -> Put(<<">">>)
       [] n.value = <<>> /\ n.kids = <<>> /\ "no_empty_element_tags" \in flags ->
            Put(<<">", "<", "/">>) \o PutString(NameOf(n)) \o Put(<<">">>)
       [] n.value = <<>> /\ n.kids = <<>> /\ "no_empty_element_tags" \notin flags ->
            (IF "raw" \in flags THEN <<>> ELSE Put(<<" ">>)) \o Put(<<"/", ">">>)
       [] OTHER -> Put(<<">">>) \o TextOutput(n.value, "pcdata", flags)
                   \o (IF n.kids = <<>> THEN NodeOutputEnd(n) ELSE <<>>)

NodeOutputSimple(n, flags) ==
  CASE n.kind = "pcdata"  -> TextOutput(n.value, "pcdata", flags)
    [] n.kind = "cdata"   -> TextOutputCdata(n.value)
    [] n.kind = "comment" -> NodeOutputComment(n.value)
    [] n.kind = "pi"      -> Put(<<"<", "?">>) \o PutString(NameOf(n))
                             \o (IF n.value = <<>> THEN <<>> ELSE Put(<<" ">>) \o NodeOutputPiValue(n.value))
                             \o Put(<<"?", ">">>)
    [] n.kind = "declaration" ->
         Put(<<"<", "?">>) \o PutString(NameOf(n)) \o NodeOutputAttributes(n, FALSE, flags \cup {"raw"}, 0)
         \o Put(<<"?", ">">>)
    [] n.kind = "doctype" ->
         Put(<<"<", "!", "D", "O", "C">>) \o Put(<<"T", "Y", "P", "E">>)
         \o (IF n.value = <<>> THEN <<>> ELSE Put(<<" ">>) \o PutString(n.value)) \o Put(<<">">>)

(* The loop's state is [out, next]: what is written, and indent_flags, what *)
(* comes before a node that is not text                                     *)
RECURSIVE NodeOutput(_, _, _, _)
NodeOutput(st, n, flags, depth) ==
  LET indented == {"indent", "indent_attributes"} \cap flags # {} /\ "raw" \notin flags
      Apart(s) == s.out \o (IF "newline" \in s.next /\ "raw" \notin flags THEN Put(<<"\n">>) ELSE <<>>)
                        \o (IF "indent" \in s.next /\ indented THEN TextOutputIndent(depth) ELSE <<>>)
      Inside(out, next, level) ==
        FoldLeft(LAMBDA s, k : NodeOutput(s, k, flags, level), [out |-> out, next |-> next], n.kids)
      Both == {"newline", "indent"}
      started == Apart(st) \o NodeOutputStart(n, indented, flags, depth)
  IN  CASE n.kind \in {"pcdata", "cdata"} -> [out |-> st.out \o NodeOutputSimple(n, flags), next |-> {}]
        [] n.kind = "document" -> Inside(Apart(st), {"indent"}, depth)
        [] n.kind = "element" /\ n.kids = <<>> -> [out |-> started, next |-> Both]
        [] n.kind = "element" /\ n.kids # <<>> ->
             [out |-> Apart(Inside(started, IF n.value = <<>> THEN Both ELSE {},
                                   depth + 1)) \o NodeOutputEnd(n), next |-> Both]
        [] OTHER -> [out |-> Apart(st) \o NodeOutputSimple(n, flags), next |-> Both]

HasDeclaration(n) ==
  \E i \in DOMAIN n.kids : n.kids[i].kind = "declaration" /\ \A j \in 1..i - 1 : n.kids[j].kind # "element"

(* xml_document::save                                                       *)
Save(tree, flags, encoding) ==
  LET real == WriteEncoding(encoding)
      newline == IF "raw" \in flags THEN <<>> ELSE Put(<<"\n">>)
      bom == IF "write_bom" \in flags /\ real # "latin1" THEN Put(<<Bom>>) ELSE <<>>
      declaration ==
        IF "no_declaration" \in flags \/ HasDeclaration(tree) THEN <<>>
        ELSE PutString(<<"<", "?", "x", "m", "l", " ", "v", "e", "r", "s", "i", "o", "n", "=", "\"", "1", ".",
                         "0", "\"">>)
             \o (IF real # "latin1" THEN <<>>
                 ELSE PutString(<<" ", "e", "n", "c", "o", "d", "i", "n", "g", "=", "\"", "I", "S", "O",
                                  "-", "8", "8", "5", "9", "-", "1", "\"">>))
             \o Put(<<"?", ">">>) \o newline
      nodes == NodeOutput([out |-> <<>>, next |-> {"indent"}], tree, flags, 0)
  IN  FileOf(bom \o declaration \o nodes.out \o (IF "newline" \in nodes.next THEN newline ELSE <<>>), real)
=============================================================================
