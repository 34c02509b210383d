---------------------------- MODULE XmlDocument ----------------------------
(***************************************************************************)
(* Documents of pugixml (src/pugixml/pugixml.cpp): what the calls of       *)
(* xml_document, xml_node, xml_attribute and xml_text that change a        *)
(* document do to its objects, strings, pages and buffers.                 *)
(*                                                                         *)
(* A heap h is a record: o, the objects (XmlLinks); s, the strings; m, the *)
(* pages; buffer and extra, each document's parsed buffer and its extra    *)
(* ones. A string lies in a page or, where the parser put it, at a place of *)
(* a buffer. Memory never runs out, and handles to what was removed are not *)
(* used again.                                                             *)
(*                                                                         *)
(* Pages (xml_allocator) are only ever filled up; a page counts what has   *)
(* been freed of it and goes when that is everything. m.pages has the      *)
(* fields busy_size and freed_size of every page; m.order the list of each *)
(* document's pages without the sentinel that lies in the document itself; *)
(* m.busy its _busy_size. The allocator's _root is the last page, or the   *)
(* sentinel.                                                               *)
(***************************************************************************)
EXTENDS XmlLinks, SequencesExt

CONSTANTS Docs,         (* the xml_document objects                         *)
          ReuseThreshold, (* of strcpy_insitu_allow                          *)
          PageSize,     (* xml_memory_page_size                              *)
          NodeSize, AttributeSize, ExtraSize,   (* of nodes, attributes and  *)
                        (* xml_extra_buffer                                  *)
          HeaderSize,   (* of xml_memory_string_header                       *)
          Alignment     (* xml_memory_block_alignment                        *)

ASSUME PagesAssumption ==
  /\ {PageSize, NodeSize, AttributeSize, ExtraSize, HeaderSize, Alignment} \subseteq Nat \ {0}
  /\ {NodeSize, AttributeSize, ExtraSize} \subseteq 1..(PageSize \div 4)

LOCAL Fresh(used) == CHOOSE k \in 1..100 : k \notin used /\ \A j \in 1..k - 1 : j \in used
LOCAL Put(f, k, v) == [j \in DOMAIN f \cup {k} |-> IF j = k THEN v ELSE f[j]]
LOCAL Drop(f, S) == [j \in DOMAIN f \ S |-> f[j]]

-----------------------------------------------------------------------------
(* Pages                                                                    *)

NoMemory(docs) == [pages |-> <<>>, order |-> [d \in docs |-> <<>>], busy |-> [d \in docs |-> PageSize]]

(* A page of its own for what is large, before the last one: it goes as     *)
(* soon as it is free. Otherwise a new last page.                           *)
AllocateMemoryOob(m, d, size) ==
  LET page == Fresh(DOMAIN m.pages)
      old == m.order[d]
  IN  IF size <= PageSize \div 4
      THEN [page |-> page,
            mem |-> [pages |-> Put([k \in DOMAIN m.pages |->
                                      IF old # <<>> /\ k = Last(old)
                                      THEN [m.pages[k] EXCEPT !.busy_size = m.busy[d]]
                                      ELSE m.pages[k]],
                                   page, [busy_size |-> 0, freed_size |-> 0]),
                     order |-> [m.order EXCEPT ![d] = Append(@, page)],
                     busy |-> [m.busy EXCEPT ![d] = size]]]
      ELSE [page |-> page,
            mem |-> [m EXCEPT !.pages = Put(@, page, [busy_size |-> size, freed_size |-> 0]),
                              !.order[d] = Front(@) \o <<page, Last(@)>>]]

AllocateMemory(m, d, size) ==
  IF m.busy[d] + size > PageSize THEN AllocateMemoryOob(m, d, size)
  ELSE [page |-> Last(m.order[d]), mem |-> [m EXCEPT !.busy[d] = @ + size]]

(* mutant: the last page starts again without forgetting what was freed     *)
DeallocateMemoryUnforgotten(m, d, size, page) ==
  LET last == page = Last(m.order[d])
      busy == IF last THEN m.busy[d] ELSE m.pages[page].busy_size
      freed == m.pages[page].freed_size + size
  IN  IF freed # busy
      THEN [m EXCEPT !.pages[page] = [busy_size |-> busy, freed_size |-> freed]]
      ELSE IF last THEN [m EXCEPT !.busy[d] = 0]
           ELSE [m EXCEPT !.pages = Drop(@, {page}), !.order[d] = SelectSeq(@, LAMBDA p : p # page)]

DeallocateMemory(m, d, size, page) ==
  LET last == page = Last(m.order[d])
      busy == IF last THEN m.busy[d] ELSE m.pages[page].busy_size
      freed == m.pages[page].freed_size + size
  IN  IF freed # busy
      THEN [m EXCEPT !.pages[page] = [busy_size |-> busy, freed_size |-> freed]]
      ELSE IF last
           THEN [m EXCEPT !.pages[page] = [busy_size |-> 0, freed_size |-> 0], !.busy[d] = 0]
           ELSE [m EXCEPT !.pages = Drop(@, {page}), !.order[d] = SelectSeq(@, LAMBDA p : p # page)]

(* With the header and the terminating zero, rounded up                     *)
StringSize(length) ==
  ((HeaderSize + length + 1 + Alignment - 1) \div Alignment) * Alignment

(* All pages of a document but the sentinel                                 *)
DeallocateAll(m, d) ==
  [pages |-> Drop(m.pages, ToSet(m.order[d])),
   order |-> [m.order EXCEPT ![d] = <<>>], busy |-> [m.busy EXCEPT ![d] = PageSize]]

(* The pages of one document become another's, which has none of its own    *)
MovePages(m, from, to) ==
  [m EXCEPT !.order[to] = m.order[from], !.order[from] = <<>>,
            !.busy[to] = m.busy[from], !.busy[from] = PageSize]

Owner(m, page) == CHOOSE d \in DOMAIN m.order : page \in ToSet(m.order[d])

-----------------------------------------------------------------------------
Object(kind, page) ==
  Unlinked @@ [kind |-> kind, page |-> page, name |-> Null, value |-> Null,
               allocated |-> {}, shared |-> FALSE]

Create(h, d) == [h EXCEPT !.o = Put(@, d, [Object("document", 0) EXCEPT !.prev_c = d])]

NewHeap == [o |-> [d \in Docs |-> [Object("document", 0) EXCEPT !.prev_c = d]],
            s |-> <<>>, m |-> NoMemory(Docs),
            buffer |-> [d \in Docs |-> 0], extra |-> [d \in Docs |-> <<>>]]

DocumentOf(h, x) == IF x \in Docs THEN x ELSE Owner(h.m, h.o[x].page)
New(h) == Fresh(DOMAIN h.o)
Children(h, n) == Walk(h.o, "first_child", n)
Attributes(h, n) == Walk(h.o, "first_attribute", n)
Text(h, x, f) == IF h.o[x][f] = Null THEN <<>> ELSE h.s[h.o[x][f]].text

SizeOf(kind) == IF kind = "attribute" THEN AttributeSize ELSE NodeSize

-----------------------------------------------------------------------------
(* Objects and strings                                                      *)

Allocate(h, d, kind) ==
  LET a == AllocateMemory(h.m, d, SizeOf(kind))
  IN  [h EXCEPT !.m = a.mem, !.o = Put(@, New(h), Object(kind, a.page))]

DeallocateString(h, x, f) ==
  LET string == h.s[h.o[x][f]]
  IN  IF f \notin h.o[x].allocated THEN h
      ELSE [h EXCEPT !.m = DeallocateMemory(@, DocumentOf(h, x), string.size, string.page),
                     !.s = Drop(@, {h.o[x][f]})]

DestroyAttribute(h, a) ==
  LET emptied == DeallocateString(DeallocateString(h, a, "name"), a, "value")
  IN  [emptied EXCEPT !.o = Drop(@, {a}),
                      !.m = DeallocateMemory(@, DocumentOf(h, a), AttributeSize, h.o[a].page)]

RECURSIVE DestroyNode(_, _)
DestroyNode(h, n) ==
  LET own == DeallocateString(DeallocateString(h, n, "name"), n, "value")
      bare == FoldLeft(DestroyAttribute, own, Attributes(h, n))
      alone == FoldLeft(DestroyNode, bare, Children(h, n))
  IN  [alone EXCEPT !.o = Drop(@, {n}),
                    !.m = DeallocateMemory(@, DocumentOf(h, n), NodeSize, h.o[n].page)]

(* mutant: memory that copies share is written over                         *)
InsituAllowedShared(h, x, f, length) ==
  LET old == Len(Text(h, x, f))
  IN  IF f \notin h.o[x].allocated THEN old >= length
      ELSE old >= length /\ (old < ReuseThreshold \/ old - length < old \div 2)

InsituAllowed(h, x, f, length) ==
  LET old == Len(Text(h, x, f))
  IN  /\ ~h.o[x].shared
      /\ old >= length
      /\ f \in h.o[x].allocated => old < ReuseThreshold \/ old - length < old \div 2

Strcpy(h, x, f, text) ==
  LET d == DocumentOf(h, x)
      size == StringSize(Len(text))
      a == AllocateMemory(h.m, d, size)
      string == Fresh(DOMAIN h.s)
      copied == [h EXCEPT !.m = a.mem,
                          !.s = Put(@, string, [text |-> text, size |-> size, page |-> a.page,
                                                buffer |-> 0, at |-> 0])]
  IN  IF text = <<>>
      THEN [DeallocateString(h, x, f) EXCEPT !.o[x][f] = Null, !.o[x].allocated = @ \ {f}]
      ELSE IF h.o[x][f] # Null /\ InsituAllowed(h, x, f, Len(text))
      THEN [h EXCEPT !.s[h.o[x][f]].text = text]
      ELSE [DeallocateString(copied, x, f) EXCEPT !.o[x][f] = string, !.o[x].allocated = @ \cup {f}]

Settable(kind, f) ==
  kind \in IF f = "name" THEN {"element", "pi", "declaration", "attribute"}
           ELSE {"pcdata", "cdata", "comment", "pi", "doctype", "attribute"}
Set(h, x, f, text) == IF Settable(h.o[x].kind, f) THEN Strcpy(h, x, f, text) ELSE h

-----------------------------------------------------------------------------
(* Insertion. place says where: at either end of n's, or beside p.          *)

AllowInsertAttribute(kind) == kind \in {"element", "declaration"}
AllowInsertChild(parent, child) ==
  /\ parent \in {"document", "element"}
  /\ child # "document"
  /\ parent # "document" => child \notin {"declaration", "doctype"}

Hang(o, x, n, place, p) ==
  CASE place = "last" -> AppendNode(o, x, n) [] place = "first" -> PrependNode(o, x, n)
    [] place = "after" -> InsertNodeAfter(o, x, p) [] place = "before" -> InsertNodeBefore(o, x, p)
HangAttribute(o, x, n, place, p) ==
  CASE place = "last" -> AppendAttribute(o, x, n) [] place = "first" -> PrependAttribute(o, x, n)
    [] place = "after" -> InsertAttributeAfter(o, x, p, n)
    [] place = "before" -> InsertAttributeBefore(o, x, p, n)

Beside(h, n, place, p) == place \in {"after", "before"} => h.o[p].parent = n
BesideAttribute(h, n, place, p) ==
  place \in {"after", "before"} => p \in {Attributes(h, n)[i] : i \in DOMAIN Attributes(h, n)}

Inserted(h, n, kind, place, p) ==
  [Allocate(h, DocumentOf(h, n), kind) EXCEPT !.o = Hang(@, New(h), n, place, p)]

InsertChild(h, n, kind, place, p) ==
  LET made == Inserted(h, n, kind, place, p)
  IN  IF ~AllowInsertChild(h.o[n].kind, kind) \/ ~Beside(h, n, place, p) THEN h
      ELSE IF kind = "declaration" THEN Set(made, New(h), "name", <<"x", "m", "l">>) ELSE made

InsertNamed(h, n, name, place, p) ==
  LET made == InsertChild(h, n, "element", place, p)
  IN  IF New(h) \notin DOMAIN made.o THEN h ELSE Set(made, New(h), "name", name)

InsertedAttribute(h, n, place, p) ==
  [Allocate(h, DocumentOf(h, n), "attribute") EXCEPT !.o = HangAttribute(@, New(h), n, place, p)]

InsertAttribute(h, n, name, place, p) ==
  IF ~AllowInsertAttribute(h.o[n].kind) \/ ~BesideAttribute(h, n, place, p) THEN h
  ELSE Set(InsertedAttribute(h, n, place, p), New(h), "name", name)

-----------------------------------------------------------------------------
(* Copies share what lies in a buffer with their original                   *)

CopyString(h, to, from, f) ==
  LET string == h.o[from][f]
      same == DocumentOf(h, to) = DocumentOf(h, from)
  IN  IF string = Null THEN h
      ELSE IF same /\ f \notin h.o[from].allocated
      THEN [h EXCEPT !.o[to][f] = string, !.o[to].shared = TRUE, !.o[from].shared = TRUE]
      ELSE Strcpy(h, to, f, Text(h, from, f))

CopyStrings(h, to, from) == CopyString(CopyString(h, to, from, "name"), to, from, "value")

CopyContents(h, to, from) ==
  FoldLeft(LAMBDA g, a : CopyStrings(InsertedAttribute(g, to, "last", Null), New(g), a),
           CopyStrings(h, to, from), Attributes(h, from))

(* The copy itself is left out when it hangs below its original             *)
RECURSIVE CopyBelow(_, _, _, _)
CopyBelow(h, to, from, copy) ==
  FoldLeft(LAMBDA g, x : IF x = copy THEN g
                         ELSE CopyBelow(Inserted(g, to, h.o[x].kind, "last", Null), New(g), x, copy),
           CopyContents(h, to, from), Children(h, from))
CopyTree(h, to, from) == CopyBelow(h, to, from, to)

InsertCopy(h, n, proto, place, p) ==
  IF ~AllowInsertChild(h.o[n].kind, h.o[proto].kind) \/ ~Beside(h, n, place, p) THEN h
  ELSE CopyTree(Inserted(h, n, h.o[proto].kind, place, p), New(h), proto)

InsertAttributeCopy(h, n, proto, place, p) ==
  IF ~AllowInsertAttribute(h.o[n].kind) \/ ~BesideAttribute(h, n, place, p) THEN h
  ELSE CopyStrings(InsertedAttribute(h, n, place, p), New(h), proto)

-----------------------------------------------------------------------------
(* Moves and removals                                                       *)

RECURSIVE Above(_, _)
Above(h, n) == {n} \cup IF h.o[n].parent = Null THEN {} ELSE Above(h, h.o[n].parent)

AllowMove(h, n, moved) ==
  /\ AllowInsertChild(h.o[n].kind, h.o[moved].kind)
  /\ DocumentOf(h, n) = DocumentOf(h, moved)
  /\ moved \notin Above(h, n)

InsertMove(h, n, moved, place, p) ==
  IF ~AllowMove(h, n, moved) \/ ~Beside(h, n, place, p) \/ (place \in {"after", "before"} /\ moved = p)
  THEN h
  ELSE [h EXCEPT !.o = Hang(RemoveNode([@ EXCEPT ![DocumentOf(h, n)].shared = TRUE], moved), moved, n, place,
                            p)]

RemoveChild(h, n, x) ==
  IF h.o[x].parent # n THEN h ELSE DestroyNode([h EXCEPT !.o = RemoveNode(@, x)], x)
RemoveChildren(h, n) ==
  [FoldLeft(DestroyNode, h, Children(h, n)) EXCEPT !.o[n].first_child = Null]
RemoveOneAttribute(h, n, a) == DestroyAttribute([h EXCEPT !.o = RemoveAttribute(@, a, n)], a)
RemoveAttributes(h, n) ==
  [FoldLeft(DestroyAttribute, h, Attributes(h, n)) EXCEPT !.o[n].first_attribute = Null]

(* xml_text: the node that holds the text of n, or a new one                *)
TextNodes(h, n) == SelectSeq(Children(h, n), LAMBDA x : h.o[x].kind \in {"pcdata", "cdata"})
Data(h, n) ==
  IF h.o[n].kind \in {"pcdata", "cdata"} \/ (h.o[n].kind = "element" /\ h.o[n].value # Null) THEN n
  ELSE IF TextNodes(h, n) # <<>> THEN Head(TextNodes(h, n)) ELSE Null
SetText(h, n, text) ==
  LET grown == IF Data(h, n) = Null THEN InsertChild(h, n, "pcdata", "last", Null) ELSE h
  IN  IF Data(grown, n) = Null THEN h ELSE Strcpy(grown, Data(grown, n), "value", text)

-----------------------------------------------------------------------------
(* Documents. A parsed forest is a sequence of [kind, name, value,          *)
(* attributes, kids]; its strings are left in the buffer they came in.      *)

Buffers(h) == {h.buffer[d] : d \in Docs}
              \cup UNION {{h.extra[d][i].buffer : i \in DOMAIN h.extra[d]} : d \in Docs}

InBuffer(h, x, f, b, text) ==
  LET string == Fresh(DOMAIN h.s)
      at == Cardinality({k \in DOMAIN h.s : h.s[k].buffer = b})
  IN  IF text = <<>> THEN h
      ELSE [h EXCEPT !.s = Put(@, string, [text |-> text, size |-> 0, page |-> 0, buffer |-> b, at |-> at]),
                     !.o[x][f] = string]

Parsed(h, x, t, b) == InBuffer(InBuffer(h, x, "name", b, t.name), x, "value", b, t.value)

RECURSIVE Grow(_, _, _, _)
Grow(h, n, forest, b) ==
  FoldLeft(LAMBDA g, t :
             LET node == Parsed(Inserted(g, n, t.kind, "last", Null), New(g), t, b)
                 full == FoldLeft(LAMBDA k, a : Parsed(InsertedAttribute(k, New(g), "last", Null), New(k), a,
                                                       b),
                                  node, t.attributes)
             IN  Grow(full, New(g), t.kids, b),
           h, forest)

AppendBuffer(h, n, forest) ==
  LET d == DocumentOf(h, n)
      a == AllocateMemory(h.m, d, ExtraSize)
      b == Fresh(Buffers(h))
      noted == [h EXCEPT !.m = a.mem, !.o[d].shared = TRUE,
                         !.extra[d] = <<[page |-> a.page, buffer |-> b]>> \o @]
  IN  IF AllowInsertChild(h.o[n].kind, "element") THEN Grow(noted, n, forest, b) ELSE h

Objects(h, d) == {x \in DOMAIN h.o : DocumentOf(h, x) = d}
OwnBuffers(h, d) == {h.buffer[d]} \cup {h.extra[d][i].buffer : i \in DOMAIN h.extra[d]}

Destroy(h, d) ==
  [h EXCEPT !.o = Drop(@, Objects(h, d)), !.m = DeallocateAll(@, d),
            !.s = [k \in {k \in DOMAIN h.s : IF h.s[k].buffer = 0 THEN Owner(h.m, h.s[k].page) # d
                                             ELSE h.s[k].buffer \notin OwnBuffers(h, d)} |-> h.s[k]],
            !.buffer[d] = 0, !.extra[d] = <<>>]

Reset(h, d) == Create(Destroy(h, d), d)
ResetTo(h, d, proto) == CopyTree(Reset(h, d), d, proto)
Load(h, d, forest) ==
  LET b == Fresh(Buffers(Reset(h, d))) IN Grow([Reset(h, d) EXCEPT !.buffer[d] = b], d, forest, b)

(* The document's own header is not among what moves                        *)
Move(h, to, from) ==
  LET children == Children(h, from)
      r == Reset(h, to)
      moved == [x \in DOMAIN r.o |-> IF r.o[x].parent = from THEN [r.o[x] EXCEPT !.parent = to] ELSE r.o[x]]
  IN  IF to = from THEN h
      ELSE [r EXCEPT !.m = MovePages(@, from, to),
                     !.buffer = [@ EXCEPT ![to] = h.buffer[from], ![from] = 0],
                     !.extra = [@ EXCEPT ![to] = h.extra[from], ![from] = <<>>],
                     !.o = [moved EXCEPT ![to].first_child = h.o[from].first_child,
                                         ![from] = Object("document", 0)]]
=============================================================================
