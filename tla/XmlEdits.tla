------------------------------ MODULE XmlEdits ------------------------------
(***************************************************************************)
(* A program that edits documents of pugixml with any calls of xml_node,   *)
(* xml_attribute, xml_text and xml_document in any order. A call is a      *)
(* record: what it does (op), the node it is called for (n), the other     *)
(* object it is given (x), the place where (place, p), and what else it    *)
(* takes. XmlDocument says what a call does to the heap, OrderedTree what  *)
(* it promises.                                                            *)
(***************************************************************************)
EXTENDS XmlDocument

CONSTANTS Kinds, Strings, Forests,   (* what calls insert, write and parse    *)
          MaxObjects, MaxCalls     (* bounds                                *)

VARIABLES heap, calls,
          query         (* what is being asked of the documents: XmlQueries  *)

T == INSTANCE OrderedTree

NodesOf(h) == {x \in DOMAIN h.o : h.o[x].kind # "attribute"}
AttributesOf(h) == DOMAIN h.o \ NodesOf(h)
Spots(list) == {[place |-> w, p |-> Null] : w \in {"last", "first"}}
               \cup {[place |-> w, p |-> p] : w \in {"after", "before"}, p \in ToSet(list)}

Calls(h) ==
  UNION {{[op |-> "insert_child", n |-> n, kind |-> k] @@ s : k \in Kinds,
          s \in Spots(Children(h, n))} : n \in NodesOf(h)}
  \cup UNION {{[op |-> "insert_named", n |-> n, text |-> t] @@ s : t \in Strings,
               s \in Spots(Children(h, n))} : n \in NodesOf(h)}
  \cup UNION {{[op |-> "insert_attribute", n |-> n, text |-> t] @@ s : t \in Strings,
               s \in Spots(Attributes(h, n))} : n \in NodesOf(h)}
  \cup UNION {{[op |-> w, n |-> n, x |-> x] @@ s : w \in {"insert_copy", "insert_move"}, x \in NodesOf(h),
               s \in Spots(Children(h, n))} : n \in NodesOf(h)}
  \cup UNION {{[op |-> "copy_attribute", n |-> n, x |-> x] @@ s : x \in AttributesOf(h),
               s \in Spots(Attributes(h, n))} : n \in NodesOf(h)}
  \cup {[op |-> "remove_child", n |-> h.o[x].parent, x |-> x] : x \in NodesOf(h) \ Docs}
  \cup UNION {{[op |-> "remove_attribute", n |-> n, x |-> x] :
                x \in ToSet(Attributes(h, n))} : n \in NodesOf(h)}
  \cup {[op |-> w, n |-> n] : w \in {"remove_children", "remove_attributes"}, n \in NodesOf(h)}
  \cup {[op |-> "set", n |-> x, f |-> f, text |-> t] : x \in DOMAIN h.o, f \in {"name", "value"}, t \in Strings}
  \cup {[op |-> "set_text", n |-> n, text |-> t] : n \in NodesOf(h), t \in Strings}
  \cup {[op |-> "append_buffer", n |-> n, forest |-> f] : n \in NodesOf(h), f \in Forests}
  \cup {[op |-> "load", n |-> d, forest |-> f] : d \in Docs, f \in Forests}
  \cup {[op |-> w, n |-> d, x |-> e] : w \in {"reset_to", "move"}, d, e \in Docs}
  \cup {[op |-> "reset", n |-> d] : d \in Docs}

Do(h, c) ==
  CASE c.op = "insert_child" -> InsertChild(h, c.n, c.kind, c.place, c.p)
    [] c.op = "insert_named" -> InsertNamed(h, c.n, c.text, c.place, c.p)
    [] c.op = "insert_attribute" -> InsertAttribute(h, c.n, c.text, c.place, c.p)
    [] c.op = "insert_copy" -> InsertCopy(h, c.n, c.x, c.place, c.p)
    [] c.op = "insert_move" -> InsertMove(h, c.n, c.x, c.place, c.p)
    [] c.op = "copy_attribute" -> InsertAttributeCopy(h, c.n, c.x, c.place, c.p)
    [] c.op = "remove_child" -> RemoveChild(h, c.n, c.x)
    [] c.op = "remove_children" -> RemoveChildren(h, c.n)
    [] c.op = "remove_attribute" -> RemoveOneAttribute(h, c.n, c.x)
    [] c.op = "remove_attributes" -> RemoveAttributes(h, c.n)
    [] c.op = "set" -> Set(h, c.n, c.f, c.text)
    [] c.op = "set_text" -> SetText(h, c.n, c.text)
    [] c.op = "append_buffer" -> AppendBuffer(h, c.n, c.forest)
    [] c.op = "load" -> Load(h, c.n, c.forest)
    [] c.op = "reset" -> Reset(h, c.n)
    [] c.op = "reset_to" -> ResetTo(h, c.n, c.x)
    [] c.op = "move" -> Move(h, c.n, c.x)

NoQuery == [type |-> "none"]
CanCall == calls < MaxCalls /\ query = NoQuery

XmlInit == heap = NewHeap /\ calls = 0 /\ query = NoQuery

XmlNext ==
  /\ CanCall
  /\ \E c \in Calls(heap) :
       /\ calls = 0 => c.n = CHOOSE d \in Docs : TRUE      (* they are alike *)
       /\ heap' = Do(heap, c)
       /\ Cardinality(DOMAIN heap'.o) <= MaxObjects + Cardinality(Docs)
  /\ calls' = calls + 1
  /\ UNCHANGED query

XmlSpec == XmlInit /\ [][XmlNext]_<<heap, calls, query>>

-----------------------------------------------------------------------------
(* The tree that the heap stands for                                        *)
RECURSIVE Tree(_, _)
Tree(h, n) ==
  [id |-> n, kind |-> h.o[n].kind, name |-> Text(h, n, "name"), value |-> Text(h, n, "value"),
   attributes |-> [i \in DOMAIN Attributes(h, n) |->
                     LET a == Attributes(h, n)[i] IN [T!Leaf("attribute", Text(h, a, "name")) EXCEPT !.id = a,
                                                      !.value = Text(h, a, "value")]],
   kids |-> [i \in DOMAIN Children(h, n) |-> Tree(h, Children(h, n)[i])]]

Trees(h) == [d \in Docs |-> Tree(h, d)]

(* What a call promises, where its arguments are ones it does not refuse    *)
RECURSIVE Grown(_)
Grown(forest) ==
  [i \in DOMAIN forest |->
     [id |-> 0, kind |-> forest[i].kind, name |-> forest[i].name, value |-> forest[i].value,
      attributes |-> [j \in DOMAIN forest[i].attributes |->
                        [T!Leaf("attribute", forest[i].attributes[j].name) EXCEPT
                           !.value = forest[i].attributes[j].value]],
      kids |-> Grown(forest[i].kids)]]

Emptied(d) == [T!Leaf("document", <<>>) EXCEPT !.id = d]

Promised(t, e, c) ==   (* of the tree t of the call's node, and e of its x  *)
  LET node == T!Node(t, c.n)
      child == T!Node(e, c.x)
      allows(kind) == AllowInsertChild(node.kind, kind)
  IN
  CASE c.op = "insert_child" /\ allows(c.kind) ->
         T!Graft(t, c.n, T!Leaf(c.kind, IF c.kind = "declaration" THEN <<"x", "m", "l">> ELSE <<>>), c.place,
                 c.p)
    [] c.op = "insert_named" /\ allows("element") -> T!Graft(t, c.n, T!Leaf("element", c.text), c.place, c.p)
    [] c.op = "insert_attribute" /\ AllowInsertAttribute(node.kind) ->
         T!GraftAttribute(t, c.n, T!Leaf("attribute", c.text), c.place, c.p)
    [] c.op = "insert_copy" /\ allows(child.kind) -> T!Graft(t, c.n, T!Plain(child), c.place, c.p)
    [] c.op = "copy_attribute" /\ AllowInsertAttribute(node.kind) ->
         T!GraftAttribute(t, c.n, [T!Attribute(e, c.x) EXCEPT !.id = 0], c.place, c.p)
    [] c.op = "insert_move" /\ allows(child.kind) /\ e = t /\ c.x # c.p /\ c.n \notin T!Ids(child) ->
         T!Transplant(t, c.n, (CHOOSE u \in T!Nodes(t) : child \in ToSet(u.kids)).id, c.x, c.place, c.p)
    [] c.op = "remove_child" -> T!Prune(t, c.n, c.x)
    [] c.op = "remove_attribute" -> T!PruneAttribute(t, c.n, c.x)
    [] c.op = "remove_children" -> T!Strip(t, c.n, "kids")
    [] c.op = "remove_attributes" -> T!Strip(t, c.n, "attributes")
    [] c.op = "set" /\ c.n \in T!Ids(t) /\ Settable(node.kind, c.f) -> T!Retext(t, node, c.f, c.text)
    [] c.op = "set" /\ c.n \notin T!Ids(t) -> T!Retext(t, T!Attribute(t, c.n), c.f, c.text)
    [] c.op = "set_text" /\ T!Texts(node) # <<>> -> T!Retext(t, Head(T!Texts(node)), "value", c.text)
    [] c.op = "set_text" /\ T!Texts(node) = <<>> /\ allows("pcdata") ->
         T!Graft(t, c.n, [T!Leaf("pcdata", <<>>) EXCEPT !.value = c.text], "last", Null)
    [] c.op = "append_buffer" /\ allows("element") -> T!GraftAll(t, c.n, Grown(c.forest))
    [] c.op = "load" -> T!GraftAll(Emptied(c.n), c.n, Grown(c.forest))
    [] c.op = "reset" -> Emptied(c.n)
    [] c.op \in {"reset_to", "move"} -> IF c.op = "move" \/ c.n # c.x THEN T!Plain(e) ELSE Emptied(c.n)
    [] OTHER -> t

Given(c) == IF "x" \in DOMAIN c THEN c ELSE c @@ [x |-> c.n]

(* Every call does to the tree what it promises and nothing else: the lists *)
(* come out in the order asked for, a copy is the whole subtree as it was   *)
(* and stays as it is when the original is written to (or the other way     *)
(* round) although their strings may be the same memory, and the other      *)
(* document changes only by moving out of it.                               *)
EditsKeepThePromise ==
  LET trees == Trees(heap) IN CanCall => \A c \in Calls(heap) :
    LET d == DocumentOf(heap, c.n)
        e == DocumentOf(heap, Given(c).x)
        after == Trees(Do(heap, c))
    IN  /\ T!Plain(after[d]) = T!Plain(Promised(trees[d], trees[e], Given(c)))
        /\ \A other \in Docs \ {d} :
             after[other] = IF c.op = "move" /\ other = e THEN Emptied(other) ELSE trees[other]

(* Every string, object and extra buffer is in a page or a buffer of the    *)
(* document it belongs to, a heap string belongs to one object, memory of a *)
(* buffer that two objects use is marked as shared in both, every object is *)
(* in the tree, and a page counts as used exactly what lies in it: nothing  *)
(* leaks and nothing is freed twice or while it is used.                    *)
Uses(h) == {<<x, f>> \in (DOMAIN h.o) \X {"name", "value"} : h.o[x][f] # Null}
TreeObjects(h, d) ==
  LET nodes == T!Ids(Tree(h, d)) IN nodes \cup UNION {ToSet(Attributes(h, n)) : n \in nodes}
InPage(h, p) ==
  LET sizes == [x \in {<<"o", x>> : x \in {x \in DOMAIN h.o : h.o[x].page = p}} |-> SizeOf(h.o[x[2]].kind)]
            @@ [x \in {<<"s", k>> : k \in {k \in DOMAIN h.s : h.s[k].page = p}} |-> h.s[x[2]].size]
            @@ [x \in UNION {{<<"e", d, i>> : i \in {i \in DOMAIN h.extra[d] : h.extra[d][i].page = p}} : d \in Docs}
                  |-> ExtraSize]
  IN  FoldFunction(+, 0, sizes)
MemoryIsAccounted ==
  /\ \A x \in DOMAIN heap.o \ Docs : \E d \in Docs :
       heap.o[x].page \in ToSet(heap.m.order[d]) /\ x \in TreeObjects(heap, d)
  /\ \A u \in Uses(heap) :
       LET x == u[1]
           string == heap.o[x][u[2]]
       IN  /\ string \in DOMAIN heap.s
           /\ IF u[2] \in heap.o[x].allocated
              THEN /\ heap.s[string].page \in ToSet(heap.m.order[DocumentOf(heap, x)])
                   /\ \A v \in Uses(heap) \ {u} : heap.o[v[1]][v[2]] # string
              ELSE /\ heap.s[string].buffer \in OwnBuffers(heap, DocumentOf(heap, x)) \ {0}
                   /\ \A v \in Uses(heap) \ {u} : heap.o[v[1]][v[2]] = string => heap.o[x].shared
  /\ \A k \in DOMAIN heap.s : heap.s[k].page # 0 => \E u \in Uses(heap) : heap.o[u[1]][u[2]] = k
  /\ \A d \in Docs : \A p \in ToSet(heap.m.order[d]) :
       LET page == heap.m.pages[p]
           busy == IF p = Last(heap.m.order[d]) THEN heap.m.busy[d] ELSE page.busy_size
       IN  busy - page.freed_size = InPage(heap, p)
=============================================================================
