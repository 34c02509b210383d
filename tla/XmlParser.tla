----------------------------- MODULE XmlParser -----------------------------
(***************************************************************************)
(* How pugixml reads a document: xml_parser (src/pugixml/pugixml.cpp). The *)
(* buffer t is a sequence of characters whose last one has been replaced   *)
(* by a zero, and endch is the character that was there. The options are   *)
(* the names of the parse_ constants.                                      *)
(*                                                                         *)
(* The parser is [at, open, status]: its place in t, the nodes from the    *)
(* root to the cursor, and the first error or "ok". Each step below is one *)
(* turn of the loop of parse_tree.                                         *)
(***************************************************************************)
EXTENDS XmlEncoding

LOCAL INSTANCE SequencesExt
LOCAL Scan(t, i, Holds(_)) ==
  CHOOSE j \in i..Len(t) : (t[j] = Nul \/ Holds(j)) /\ \A k \in i..j - 1 : t[k] # Nul /\ ~Holds(k)
LOCAL SkipWs(t, i) == Scan(t, i, LAMBDA k : ~IsSpace(t[k]))
LOCAL SkipSymbols(t, i) == Scan(t, i, LAMBDA k : t[k] \notin Symbols)
LOCAL EndsWith(t, i, c, endch) == t[i] = c \/ (t[i] = Nul /\ endch = c)
LOCAL After(t, i, c) == IF t[i] = c THEN i + 1 ELSE i

-----------------------------------------------------------------------------
(* Values. Each character of a value is a pair <<c, raw>>: raw is FALSE for *)
(* what an escape stands for                                                *)

Escapes == {<<<<"&", "a", "m", "p", ";">>, "&">>, <<<<"&", "l", "t", ";">>, "<">>,
            <<<<"&", "g", "t", ";">>, ">">>,
            <<<<"&", "q", "u", "o", "t", ";">>, "\"">>, <<<<"&", "a", "p", "o", "s", ";">>, "'">>}
LOCAL DigitOf(c) == IF c \in Symbols /\ CodeOf[c] \in 48..57 THEN CodeOf[c] - 48
                    ELSE IF c \in {"a", "b", "c", "d", "e", "f"} THEN CodeOf[c] - 87
                    ELSE IF c \in {"A", "B", "C", "D", "E", "F"} THEN CodeOf[c] - 55 ELSE 99

(* strconv_escape: <<the character, the place after it>>, or <<>> when the  *)
(* text stays as it is                                                      *)
StrconvEscape(v, i) ==
  LET named == {e \in Escapes : Here(v, i, e[1])}
      base == IF Here(v, i + 2, <<"x">>) THEN 16 ELSE 10
      first == i + IF base = 16 THEN 3 ELSE 2
      ends == {j \in first + 1..Len(v) : v[j] = ";" /\ \A k \in first..j - 1 : DigitOf(v[k]) < base}
      end == CHOOSE j \in ends : TRUE
      code == FoldLeft(LAMBDA n, c : n * base + DigitOf(c), 0, SubSeq(v, first, end - 1))
  IN  IF named # {} THEN LET e == CHOOSE e \in named : TRUE IN <<e[2], i + Len(e[1])>>
      ELSE IF Here(v, i, <<"&", "#">>) /\ ends # {} THEN <<CharOf[code], end + 1>>
      ELSE <<>>

RECURSIVE Expand(_, _, _)
LOCAL Expanded(v, i, options, escape) ==
  IF escape = <<>> THEN <<<<v[i], TRUE>>>> \o Expand(v, i + 1, options)
  ELSE <<<<escape[1], FALSE>>>> \o Expand(v, escape[2], options)
Expand(v, i, options) ==
  IF i > Len(v) THEN <<>>
  ELSE Expanded(v, i, options, IF "escapes" \in options /\ v[i] = "&" THEN StrconvEscape(v, i) ELSE <<>>)

LOCAL Plain(pairs) == FoldLeft(LAMBDA s, p : Append(s, p[1]), <<>>, pairs)
LOCAL Raw(c) == <<c, TRUE>>
LOCAL IsRawSpace(p) == p[2] /\ IsSpace(p[1])

(* "\r\n" and "\r" become one character                                     *)
Eol(pairs, newline) ==
  LET joined == SelectSeq([k \in DOMAIN pairs |->
                            IF pairs[k] = Raw("\n") /\ k > 1 /\ pairs[k - 1] = Raw("\r")
                            THEN <<>> ELSE pairs[k]],
                          LAMBDA p : p # <<>>)
  IN  FoldLeft(LAMBDA s, p : Append(s, IF p = Raw("\r") THEN Raw(newline) ELSE p), <<>>, joined)

(* parse_wnorm                                                              *)
LOCAL Spaced(pairs) ==
  FoldLeft(LAMBDA s, p : IF ~IsRawSpace(p) THEN Append(s, p)
                         ELSE IF s = <<>> \/ Last(s) = Raw(" ") THEN s ELSE Append(s, Raw(" ")),
           <<>>, pairs)
LOCAL TrimmedEnd(pairs) ==
  SubSeq(pairs, 1, CHOOSE k \in 0..Len(pairs) : /\ k = 0 \/ ~IsSpace(pairs[k][1])
                                                /\ \A j \in k + 1..Len(pairs) : IsSpace(pairs[j][1]))
Normalised(pairs) == TrimmedEnd(Spaced(pairs))
LOCAL Blanks(pairs) == [k \in DOMAIN pairs |-> IF IsRawSpace(pairs[k]) THEN Raw(" ") ELSE pairs[k]]

LOCAL Converted(pairs, options) ==
  CASE "wnorm" \in options -> Normalised(pairs)
    [] "wnorm" \notin options /\ "wconv" \in options -> Blanks(Eol(pairs, " "))
    [] {"wnorm", "wconv"} \cap options = {} /\ "eol" \in options -> Eol(pairs, "\n")
    [] OTHER -> pairs
StrconvAttribute(v, options) == Plain(Converted(Expand(v, 1, options), options))

LOCAL Lines(pairs, options) == IF "eol" \in options THEN Eol(pairs, "\n") ELSE pairs
LOCAL Trimmed(pairs, options) == IF "trim_pcdata" \in options THEN TrimmedEnd(pairs) ELSE pairs
StrconvPcdata(v, options) == Plain(Trimmed(Lines(Expand(v, 1, options), options), options))

StrconvText(v, options) == Plain(Lines(Expand(v, 1, {}), options))

-----------------------------------------------------------------------------
(* Document types. Each is the place where the piece ends, 0 for an error   *)

LOCAL Past(t, i, n) == IF t[i] = Nul THEN 0 ELSE i + n

ParseDoctypePrimitive(t, i) ==
  CASE t[i] \in {"\"", "'"} -> Past(t, Scan(t, i + 1, LAMBDA k : t[k] = t[i]), 1)
    [] Here(t, i, <<"<", "?">>) -> Past(t, Scan(t, i + 2, LAMBDA k : Here(t, k, <<"?", ">">>)), 2)
    [] Here(t, i, <<"<", "!", "-", "-">>) ->
         Past(t, Scan(t, i + 4, LAMBDA k : Here(t, k, <<"-", "-", ">">>)), 3)
    [] OTHER -> 0

RECURSIVE ParseDoctypeIgnore(_, _, _)
ParseDoctypeIgnore(t, i, depth) ==
  LET next == Scan(t, i, LAMBDA k : Here(t, k, <<"<", "!", "[">>) \/ Here(t, k, <<"]", "]", ">">>))
  IN  CASE t[next] = Nul -> 0
        [] t[next] = "<" -> ParseDoctypeIgnore(t, next + 3, depth + 1)
        [] t[next] = "]" /\ depth = 0 -> next + 3
        [] t[next] = "]" /\ depth > 0 -> ParseDoctypeIgnore(t, next + 3, depth - 1)

RECURSIVE ParseDoctypeGroup(_, _, _, _)
ParseDoctypeGroup(t, i, depth, endch) ==
  LET next == Scan(t, i, LAMBDA k : t[k] \in {"<", ">", "\"", "'"})
      Onwards(j) == IF j = 0 THEN 0 ELSE ParseDoctypeGroup(t, j, depth, endch)
      group == Here(t, next, <<"<", "!">>) /\ t[next + 2] # "-"
  IN  CASE t[next] = Nul -> IF depth # 0 \/ endch # ">" THEN 0 ELSE next
        [] group /\ t[next + 2] = "[" -> Onwards(ParseDoctypeIgnore(t, next + 3, 0))
        [] group /\ t[next + 2] # "[" -> ParseDoctypeGroup(t, next + 2, depth + 1, endch)
        [] t[next] = ">" -> IF depth = 0 THEN next ELSE ParseDoctypeGroup(t, next + 1, depth - 1, endch)
        [] OTHER -> Onwards(ParseDoctypePrimitive(t, next))

-----------------------------------------------------------------------------
(* Nodes. A parser is [t, endch, at, open, status]; what a parser that      *)
(* failed had begun is not kept                                             *)

LOCAL Leaf(kind, name, value) == [kind |-> kind, name |-> name, value |-> value, attributes |-> <<>>,
                                  kids |-> <<>>]
LOCAL Cursor(p) == Last(p.open)
LOCAL WithCursor(p, node) == [p EXCEPT !.open = Append(Front(@), node)]
LOCAL Push(p, node, at) == [p EXCEPT !.open = Append(@, node), !.at = at]
LOCAL Pop(p, at) ==
  LET above == [p EXCEPT !.open = Front(@), !.at = at]
  IN  WithCursor(above, [Cursor(above) EXCEPT !.kids = Append(@, Cursor(p))])
LOCAL Add(p, node, at) == Pop(Push(p, node, at), at)
LOCAL AddIf(kept, p, node, at) == IF kept THEN Add(p, node, at) ELSE [p EXCEPT !.at = at]
LOCAL Fail(p, status) == [p EXCEPT !.status = status]
LOCAL InRoot(p) == Len(p.open) = 1

ParseExclamation(p, o) ==
  LET t == p.t
      i == p.at + 1
      Closed(start, c) ==
        Scan(t, start, LAMBDA k : t[k] = c /\ t[k + 1] = c /\ EndsWith(t, k + 2, ">", p.endch))
      Section(start, c, status, kind, option) ==
        LET end == Closed(start, c)
        IN  IF t[end] = Nul THEN Fail(p, status)
            ELSE AddIf(option \in o, p, Leaf(kind, <<>>, StrconvText(SubSeq(t, start, end - 1), o)),
                       After(t, end + 2, ">"))
      mark == SkipWs(t, i + 7)
      end == ParseDoctypeGroup(t, i, 0, p.endch)
  IN  CASE Here(t, i, <<"-", "-">>) -> Section(i + 2, "-", "bad_comment", "comment", "comments")
        [] Here(t, i, <<"[", "C", "D", "A", "T", "A", "[">>) ->
             Section(i + 7, "]", "bad_cdata", "cdata", "cdata")
        [] Here(t, i, <<"D", "O", "C", "T", "Y", "P">>) /\ EndsWith(t, i + 6, "E", p.endch) ->
             IF ~InRoot(p) \/ end = 0 THEN Fail(p, "bad_doctype")
             ELSE AddIf("doctype" \in o, p, Leaf("doctype", <<>>, SubSeq(t, mark, end - 1)), After(t, end, ">"))
        [] OTHER -> Fail(p, CASE t[i] = "-" \/ (t[i] = Nul /\ p.endch = "-") -> "bad_comment"
                              [] t[i] = "[" \/ (t[i] = Nul /\ p.endch = "[") -> "bad_cdata"
                              [] OTHER -> "unrecognized_tag")

RECURSIVE ParseAttributes(_, _)
ParseAttributes(p, o) ==
  LET t == p.t
      i == SkipWs(t, p.at)
      name == SkipSymbols(t, i)
      equals == IF IsSpace(t[name]) THEN SkipWs(t, name) ELSE name
      quote == SkipWs(t, equals + 1)
      end == Scan(t, quote + 1, LAMBDA k : t[k] = t[quote])
      attribute == [name |-> SubSeq(t, i, name - 1),
                    value |-> StrconvAttribute(SubSeq(t, quote + 1, end - 1), o)]
      cut == t[i] = Nul /\ p.endch = ">"
  IN  CASE t[i] \in StartSymbols ->
             IF t[equals] = "=" /\ t[quote] \in {"\"", "'"} /\ t[end] # Nul /\ t[end + 1] \notin StartSymbols
             THEN ParseAttributes([WithCursor(p, [Cursor(p) EXCEPT !.attributes = Append(@, attribute)])
                                     EXCEPT !.at = end + 1], o)
             ELSE Fail(p, "bad_attribute")
        [] t[i] = "/" /\ EndsWith(t, i + 1, ">", p.endch) -> Pop(p, After(t, i + 1, ">"))
        [] t[i] = ">" \/ cut -> [p EXCEPT !.at = After(t, i, ">")]
        [] OTHER -> Fail(p, "bad_start_element")

ParseQuestion(p, o) ==
  LET t == p.t
      i == p.at + 1
      end == SkipSymbols(t, i)
      name == SubSeq(t, i, end - 1)
      declaration == name \in {<<x, m, l>> : x \in {"x", "X"}, m \in {"m", "M"}, l \in {"l", "L"}}
      kept == (IF declaration THEN "declaration" ELSE "pi") \in o
      Closed(start) == Scan(t, start, LAMBDA k : t[k] = "?" /\ EndsWith(t, k + 1, ">", p.endch))
      value == SkipWs(t, end + 1)
      close == Closed(IF kept THEN value ELSE end)
      node == Leaf(IF declaration THEN "declaration" ELSE "pi", name, <<>>)
  IN  CASE \/ t[i] \notin StartSymbols \/ t[end] = Nul
           \/ kept /\ declaration /\ ~InRoot(p)
           \/ kept /\ t[end] = "?" /\ ~EndsWith(t, end + 1, ">", p.endch)
           \/ kept /\ t[end] # "?" /\ (~IsSpace(t[end]) \/ t[close] = Nul)
           \/ ~kept /\ t[close] = Nul -> Fail(p, "bad_pi")
        [] kept /\ t[end] = "?" -> Add(p, node, After(t, end + 1, ">"))
        [] kept /\ t[end] # "?" /\ declaration ->
             ParseAttributes([Push(p, node, value) EXCEPT !.t[close] = "/"], o)
        [] OTHER -> AddIf(kept, p, [node EXCEPT !.value = SubSeq(t, value, close - 1)],
                          After(t, close + 1, ">"))

ParseElement(p, o) ==
  LET t == p.t
      i == p.at
      end == SkipSymbols(t, i)
      opened == Push(p, Leaf("element", SubSeq(t, i, end - 1), <<>>), After(t, end, ">"))
  IN  CASE t[end] = ">" \/ (t[end] = Nul /\ p.endch = ">") -> opened
        [] IsSpace(t[end]) -> ParseAttributes([opened EXCEPT !.at = end + 1], o)
        [] t[end] = "/" /\ EndsWith(t, end + 1, ">", p.endch) -> Pop(opened, After(t, end + 1, ">"))
        [] OTHER -> Fail(p, "bad_start_element")

ParseEnd(p) ==
  LET t == p.t
      end == SkipSymbols(t, p.at + 1)
      name == SubSeq(t, p.at + 1, end - 1)
      close == SkipWs(t, end)
  IN  CASE InRoot(p) -> Fail(p, "end_element_mismatch")
        [] ~InRoot(p) /\ name # Cursor(p).name ->
             Fail(p, IF t[end] = Nul /\ Append(name, p.endch) = Cursor(p).name
                     THEN "bad_end_element" ELSE "end_element_mismatch")
        [] ~InRoot(p) /\ name = Cursor(p).name ->
             IF EndsWith(t, close, ">", p.endch)
             THEN Pop(p, After(t, close, ">")) ELSE Fail(p, "bad_end_element")

(* What follows a '<'                                                       *)
ParseTag(p, o) ==
  CASE p.t[p.at] \in StartSymbols -> ParseElement(p, o)
    [] p.t[p.at] = "/" -> ParseEnd(p)
    [] p.t[p.at] = "?" -> ParseQuestion(p, o)
    [] p.t[p.at] = "!" -> ParseExclamation(p, o)
    [] OTHER -> Fail(p, IF p.t[p.at] = Nul /\ p.endch = "?" THEN "bad_pi" ELSE "unrecognized_tag")

AddText(p, o, text, c) ==
  IF "embed_pcdata" \in o /\ ~InRoot(p) /\ c.kids = <<>> /\ c.value = <<>>
  THEN WithCursor(p, [c EXCEPT !.value = text])
  ELSE IF "merge_pcdata" \in o /\ c.kids # <<>> /\ Last(c.kids).kind = "pcdata"
  THEN WithCursor(p, [c EXCEPT !.kids[Len(c.kids)].value = @ \o text])
  ELSE Add(p, Leaf("pcdata", <<>>, text), p.at)
TextUpTo(p, o, start, end) ==
  IF InRoot(p) /\ "fragment" \notin o THEN [p EXCEPT !.at = end]
  ELSE AddText([p EXCEPT !.at = end], o, StrconvPcdata(SubSeq(p.t, start, end - 1), o), Cursor(p))
TextFrom(p, o, start) == TextUpTo(p, o, start, Scan(p.t, start, LAMBDA k : p.t[k] = "<"))

TextOrBlanks(p, o, next) ==
  LET only == Here(p.t, next, <<"<", "/">>) /\ Cursor(p).kids = <<>>
      dropped == \/ {"ws_pcdata", "ws_pcdata_single"} \cap o = {} \/ "trim_pcdata" \in o
                 \/ "ws_pcdata_single" \in o /\ ~only
  IN  IF p.t[next] \in {"<", Nul} /\ dropped THEN [p EXCEPT !.at = next]
      ELSE TextFrom(p, o, IF "trim_pcdata" \in o THEN next ELSE p.at)
ParseText(p, o) == TextOrBlanks(p, o, SkipWs(p.t, p.at))

(* mutant: what is open at the end of the buffer is closed there            *)
RECURSIVE ParseTreeUnclosed(_, _)
ParseTreeUnclosed(p, o) ==
  CASE p.status # "ok" -> p
    [] p.status = "ok" /\ p.t[p.at] = "<" -> ParseTreeUnclosed(ParseTag([p EXCEPT !.at = @ + 1], o), o)
    [] p.status = "ok" /\ p.t[p.at] \notin {"<", Nul} -> ParseTreeUnclosed(ParseText(p, o), o)
    [] OTHER -> IF InRoot(p) THEN p ELSE ParseTreeUnclosed(Pop(p, p.at), o)

RECURSIVE ParseTree(_, _)
ParseTree(p, o) ==
  CASE p.status # "ok" -> p
    [] p.status = "ok" /\ p.t[p.at] = "<" -> ParseTree(ParseTag([p EXCEPT !.at = @ + 1], o), o)
    [] p.status = "ok" /\ p.t[p.at] \notin {"<", Nul} -> ParseTree(ParseText(p, o), o)
    [] OTHER -> IF InRoot(p) THEN p ELSE Fail(p, "end_element_mismatch")

Outcome(parsed, tree, endch, o) ==
  [tree |-> tree,
   status |-> CASE parsed.status # "ok" -> parsed.status
                [] parsed.status = "ok" /\ endch = "<" -> "unrecognized_tag"
                [] parsed.status = "ok" /\ endch # "<" /\ "fragment" \notin o
                   /\ \A i \in DOMAIN tree.kids : tree.kids[i].kind # "element" -> "no_document_element"
                [] OTHER -> "ok"]
LOCAL ParsedTo(parsed, endch, o) == Outcome(parsed, parsed.open[1], endch, o)

(* xml_parser::parse of a buffer that has been zero-terminated or not       *)
Parse(text, terminated, o) ==
  LET t == Append(IF terminated THEN text ELSE Front(text), Nul)
      endch == IF terminated THEN Nul ELSE Last(text)
      root == Leaf("document", <<>>, <<>>)
      start == [t |-> t, endch |-> endch, at |-> IF t[1] = Bom THEN 2 ELSE 1, open |-> <<root>>,
                status |-> "ok"]
  IN  IF text = <<>> THEN [tree |-> root, status |-> IF "fragment" \in o THEN "ok" ELSE "no_document_element"]
      ELSE ParsedTo(ParseTree(start, o), endch, o)

(* load_file: the file is read into a buffer that the document keeps.       *)
(* zero_terminate_buffer leaves Latin-1 to convert_buffer_latin1, which     *)
(* copies, with a zero, only what is not ASCII                              *)
LoadFile(bytes, encoding, o) ==
  LET real == BufferEncoding(encoding, bytes)
      terminated == real # "latin1" \/ \E k \in DOMAIN bytes : bytes[k] > 127
  IN  Parse(Chars(Decoded(bytes, real)), terminated, o)
=============================================================================
