---------------------------- MODULE OrderedTree ----------------------------
(***************************************************************************)
(* What the editing calls of pugixml promise: a document is an ordered     *)
(* tree whose nodes have a kind, a name, a value, an ordered list of       *)
(* attributes and an ordered list of children, and a call changes the one  *)
(* part of it that it names. There is no memory here, no pointer, and no   *)
(* string that two nodes could share.                                      *)
(*                                                                         *)
(* A tree is a record [id, kind, name, value, attributes, kids]; id tells  *)
(* nodes apart while a call runs and is not part of what it promises.      *)
(***************************************************************************)
EXTENDS Sequences, Integers, SequencesExt

Leaf(kind, name) == [id |-> 0, kind |-> kind, name |-> name, value |-> <<>>, attributes |-> <<>>, kids |-> <<>>]

RECURSIVE Nodes(_)
Nodes(t) == {t} \cup UNION {Nodes(t.kids[i]) : i \in DOMAIN t.kids}
Ids(t) == {u.id : u \in Nodes(t)}
Node(t, n) == CHOOSE u \in Nodes(t) : u.id = n
Attribute(t, a) == CHOOSE b \in UNION {ToSet(u.attributes) : u \in Nodes(t)} : b.id = a

RECURSIVE Plain(_)
Plain(t) == [t EXCEPT !.id = 0, !.kids = [i \in DOMAIN @ |-> Plain(@[i])],
                      !.attributes = [i \in DOMAIN @ |-> [@[i] EXCEPT !.id = 0]]]

IsText(t) == t.kind \in {"pcdata", "cdata"}
Texts(t) == IF IsText(t) THEN <<t>> ELSE SelectSeq(t.kids, IsText)

Place(list, x, place, p) ==
  LET at == CHOOSE i \in DOMAIN list : list[i].id = p
  IN  CASE place = "last" -> Append(list, x) [] place = "first" -> <<x>> \o list
        [] place = "after" -> InsertAt(list, at + 1, x) [] place = "before" -> InsertAt(list, at, x)

(* The node or attribute that has u's id becomes u                          *)
RECURSIVE With(_, _)
With(t, u) ==
  IF t.id = u.id THEN u
  ELSE [t EXCEPT !.kids = [i \in DOMAIN @ |-> With(@[i], u)],
                 !.attributes = [i \in DOMAIN @ |-> IF @[i].id = u.id THEN u ELSE @[i]]]

Graft(t, n, x, place, p) == With(t, [Node(t, n) EXCEPT !.kids = Place(@, x, place, p)])
GraftAttribute(t, n, a, place, p) == With(t, [Node(t, n) EXCEPT !.attributes = Place(@, a, place, p)])
Prune(t, n, x) == With(t, [Node(t, n) EXCEPT !.kids = SelectSeq(@, LAMBDA k : k.id # x)])
PruneAttribute(t, n, a) == With(t, [Node(t, n) EXCEPT !.attributes = SelectSeq(@, LAMBDA k : k.id # a)])
Strip(t, n, list) == With(t, [Node(t, n) EXCEPT ![list] = <<>>])
Retext(t, u, f, text) == With(t, [u EXCEPT ![f] = text])
Transplant(t, n, parent, x, place, p) == Graft(Prune(t, parent, x), n, Node(t, x), place, p)
GraftAll(t, n, forest) == With(t, [Node(t, n) EXCEPT !.kids = @ \o forest])
=============================================================================
