----------------------------- MODULE XmlQueries -----------------------------
(***************************************************************************)
(* What a location path means, by the relations of nodes in a document     *)
(* (XPath 1.0, as src/pugixml/pugixml.hpp promises it), and the asking of  *)
(* paths that XmlPath answers.                                             *)
(***************************************************************************)
EXTENDS XmlPath, XmlEdits

CONSTANT Queries    (* what is asked, by how many calls were made before    *)

RECURSIVE InDocument(_, _)
InDocument(h, n) ==
  <<n>> \o Attributes(h, n) \o Flatten([i \in DOMAIN Children(h, n) |-> InDocument(h, Children(h, n)[i])])

(* at: the place of every object in its document                            *)
Places(h) ==
  [x \in DOMAIN h.o |-> LET list == InDocument(h, DocumentOf(h, x)) IN CHOOSE i \in DOMAIN list : list[i] = x]

Axis(h, at, x, axis) ==
  LET attribute == h.o[x].kind = "attribute"
      nodes == {y \in DOMAIN h.o : h.o[y].kind # "attribute" /\ DocumentOf(h, y) = DocumentOf(h, x)}
      above == IF attribute THEN Above(h, ParentOf(h, x)) ELSE Above(h, x) \ {x}
      below == {y \in nodes : ~attribute /\ y # x /\ x \in Above(h, y)}
      siblings == {y \in nodes : ~attribute /\ h.o[x].parent # Null /\ h.o[y].parent = h.o[x].parent}
  IN  CASE axis = "attribute" -> IF attribute THEN {} ELSE ToSet(Attributes(h, x))
        [] axis = "child" -> {y \in nodes : h.o[y].parent = x}
        [] axis = "descendant" -> below
        [] axis = "descendant_or_self" -> below \cup {x}
        [] axis = "following_sibling" -> {y \in siblings : at[y] > at[x]}
        [] axis = "preceding_sibling" -> {y \in siblings : at[y] < at[x]}
        [] axis = "following" -> {y \in nodes \ below : at[y] > at[x]}
        [] axis = "preceding" -> {y \in nodes \ above : at[y] < at[x]}
        [] axis = "ancestor" -> above
        [] axis = "ancestor_or_self" -> above \cup {x}
        [] axis = "self" -> {x}
        [] axis = "parent" -> IF attribute THEN {ParentOf(h, x)} ELSE {h.o[x].parent} \ {Null}

(* An attribute is not of the principal type of the axes that lead to nodes *)
Passes(h, x, axis, test) ==
  /\ Accepts(h, x, test)
  /\ h.o[x].kind = "attribute" => axis = "attribute" \/ test.type = "node"

RECURSIVE Meaning(_, _, _, _)
True(h, at, expr, x, i, size) ==
  CASE expr.type = "number" -> i = expr.number [] expr.type = "last" -> i = size
    [] expr.type = "position_is" -> i = expr.number [] expr.type = "not_last" -> i # size
    [] expr.type = "path" -> Meaning(h, at, expr.path, x) # {}
    [] expr.type = "equal" -> \E y \in Meaning(h, at, expr.path, x) : StringValue(h, y) = expr.text

Filtered(h, at, list, preds) ==
  FoldLeft(LAMBDA l, p : LET is == SelectSeq([i \in DOMAIN l |-> i],
                                             LAMBDA i : True(h, at, p.expr, l[i], i, Len(l)))
                         IN  Pick(l, is), list, preds)

Sorted(h, S, axis) ==
  LET list == IF S = {} THEN <<>>
              ELSE SelectSeq(InDocument(h, DocumentOf(h, CHOOSE x \in S : TRUE)), LAMBDA x : x \in S)
  IN  IF axis \in {"ancestor", "ancestor_or_self", "preceding", "preceding_sibling"}
      THEN Reverse(list) ELSE list

Meaning(h, at, e, c) ==
  CASE e.type = "root" -> {DocumentOf(h, c)}
    [] e.type = "union" -> Meaning(h, at, e.left, c) \cup Meaning(h, at, e.right, c)
    [] e.type = "filter" -> ToSet(Filtered(h, at, Sorted(h, Meaning(h, at, e.left, c), "self"), e.predicates))
    [] e.type = "step" ->
         UNION {ToSet(Filtered(h, at, Sorted(h, {y \in Axis(h, at, x, e.axis) : Passes(h, y, e.axis, e.test)},
                                             e.axis), e.predicates)) :
                  x \in IF e.left = NoPath THEN {c} ELSE Meaning(h, at, e.left, c)}

-----------------------------------------------------------------------------
Ask ==
  /\ query = NoQuery /\ calls \in DOMAIN Queries /\ heap.buffer[1] # 0
  /\ query' \in Queries[calls]
  /\ UNCHANGED <<heap, calls>>

QueryNext == XmlNext \/ Ask
QuerySpec == XmlInit /\ [][QueryNext]_<<heap, calls, query>>

(* However a path was rewritten and wherever its evaluation stopped early,  *)
(* it finds the nodes it means: each once; in the order the set says it is  *)
(* in; the first of them in the document where one is asked for             *)
(* (select_node), and one of them where only their existence is             *)
(* (predicates, evaluate_boolean). A document that was moved from is left   *)
(* out: its root has no last sibling to look at, and the preceding axis     *)
(* runs into the null pointer.                                              *)
PathsFindWhatTheyMean ==
  query # NoQuery =>
    LET MeetsIt(meant, all, first, any, place) ==
          LET at(i) == place[all.nodes[i]]
          IN  /\ ToSet(all.nodes) = meant /\ Cardinality(meant) = Len(all.nodes)
              /\ \A i \in 2..Len(all.nodes) : CASE all.type = "sorted" -> at(i - 1) < at(i)
                                                [] all.type = "reverse" -> at(i - 1) > at(i) [] OTHER -> TRUE
              /\ \A x \in {First(heap, first)} :
                   IF meant = {} THEN first.nodes = <<>>
                   ELSE x \in meant /\ \A y \in meant : place[x] <= place[y]
              /\ any.nodes = <<>> <=> meant = {}
        Finds(optimized, place) ==
          \A c \in {c \in DOMAIN heap.o : heap.o[DocumentOf(heap, c)].prev_c # Null} :
            MeetsIt(Meaning(heap, place, query, c), EvalNodeSet(heap, optimized, c, "all"),
                    EvalNodeSet(heap, optimized, c, "first"), EvalNodeSet(heap, optimized, c, "any"), place)
    IN  Finds(Optimize(query), Places(heap))

(* Nodes of one document are put in the order in which they are in it. The  *)
(* comment at pugixml.cpp:6471 says why moving nodes must not leave the     *)
(* order of the buffer in use.                                              *)
OrderIsTrue ==
  \A d \in Docs : LET list == InDocument(heap, d) IN
    \A i, j \in DOMAIN list : i # j => (IsBefore(heap, list[i], list[j]) <=> i < j)
=============================================================================
