------------------------------ MODULE XmlPath ------------------------------
(***************************************************************************)
(* Location paths of pugixml's XPath (src/pugixml/pugixml.cpp): how the    *)
(* evaluator walks the axes over the links of the tree, filters by         *)
(* predicates, keeps track of the order of what it has found, stops early  *)
(* where one node is enough, and rewrites a path before it evaluates it.   *)
(*                                                                         *)
(* A path is a record: type "root"; "step" with left (a path or NoPath),   *)
(* axis, test and predicates; "union" with left and right; or "filter"     *)
(* with left and predicates, one. A predicate has an expr and, once it is  *)
(* optimised, a test; the expressions are a number, last(),                *)
(* position() = number, position() < last(), a path and path = text.       *)
(***************************************************************************)
EXTENDS XmlDocument

NoPath == [type |-> "none"]

ParentOf(h, x) ==
  IF h.o[x].kind # "attribute" THEN h.o[x].parent
  ELSE CHOOSE n \in DOMAIN h.o : h.o[n].kind # "attribute" /\ x \in ToSet(Attributes(h, n))

-----------------------------------------------------------------------------
(* Document order: by where the parser left the strings if the document has *)
(* never been edited, otherwise along the tree                              *)

BufferOrder(h, x) ==
  LET unshared(f) == h.o[x][f] # Null /\ f \notin h.o[x].allocated /\ ~h.o[x].shared
  IN  IF h.o[DocumentOf(h, x)].shared THEN Null
      ELSE IF unshared("name") THEN h.o[x].name ELSE IF unshared("value") THEN h.o[x].value ELSE Null

RECURSIVE Chain(_, _)
Chain(h, n) == IF n = Null THEN <<>> ELSE Append(Chain(h, h.o[n].parent), n)

SiblingBefore(h, l, r) ==
  LET list == Children(h, h.o[l].parent)
  IN  \E i, j \in DOMAIN list : i < j /\ list[i] = l /\ list[j] = r

NodeIsBefore(h, l, r) ==
  LET left == Chain(h, l)
      right == Chain(h, r)
      forks == {i \in DOMAIN left \cap DOMAIN right : left[i] # right[i]}
      fork == CHOOSE i \in forks : \A j \in forks : i <= j
  IN  IF forks = {} THEN Len(left) < Len(right) ELSE SiblingBefore(h, left[fork], right[fork])

IsBefore(h, l, r) ==
  LET attribute(x) == h.o[x].kind = "attribute"
      node(x) == IF attribute(x) THEN ParentOf(h, x) ELSE x
      list == Attributes(h, node(l))
      lo == BufferOrder(h, l)
      ro == BufferOrder(h, r)
  IN  IF lo # Null /\ ro # Null THEN h.s[lo].at < h.s[ro].at
      ELSE IF node(l) # node(r) THEN NodeIsBefore(h, node(l), node(r))
      ELSE IF attribute(l) /\ attribute(r)
      THEN \E i, j \in DOMAIN list : i <= j /\ list[i] = l /\ list[j] = r
      ELSE ~attribute(l) /\ attribute(r)

-----------------------------------------------------------------------------
(* The axes, as the nodes in the order in which they are met                *)

RECURSIVE NextUp(_, _), PreviousUp(_, _), Onwards(_, _), Upwards(_, _)
NextUp(h, n) ==
  IF n = Null THEN Null ELSE IF h.o[n].next # Null THEN h.o[n].next ELSE NextUp(h, h.o[n].parent)
NextNode(h, n) == IF h.o[n].first_child # Null THEN h.o[n].first_child ELSE NextUp(h, n)
Onwards(h, n) == IF n = Null THEN <<>> ELSE <<n>> \o Onwards(h, NextNode(h, n))
Upwards(h, n) == IF n = Null THEN <<>> ELSE <<n>> \o Upwards(h, h.o[n].parent)

IsFirst(h, n) == h.o[h.o[n].prev_c].next = Null
PreviousUp(h, n) ==
  IF n = Null THEN Null ELSE IF IsFirst(h, n) THEN PreviousUp(h, h.o[n].parent) ELSE h.o[n].prev_c

(* down to the last leaf; from there up, to what does not lie above start   *)
RECURSIVE Backwards(_, _, _), Climb(_, _, _)
Backwards(h, n, start) ==
  IF n = Null THEN <<>>
  ELSE IF h.o[n].first_child # Null THEN Backwards(h, h.o[h.o[n].first_child].prev_c, start)
  ELSE <<n>> \o Climb(h, n, start)
Climb(h, n, start) ==
  LET up == h.o[n].parent
  IN  IF ~IsFirst(h, n) THEN Backwards(h, h.o[n].prev_c, start)
      ELSE IF up = Null THEN <<>>
      ELSE (IF up \in Above(h, start) THEN <<>> ELSE <<up>>) \o Climb(h, up, start)

RECURSIVE NextSiblings(_, _), PreviousSiblings(_, _)
NextSiblings(h, n) == IF h.o[n].next = Null THEN <<>> ELSE <<h.o[n].next>> \o NextSiblings(h, h.o[n].next)
PreviousSiblings(h, n) ==
  IF IsFirst(h, n) THEN <<>> ELSE <<h.o[n].prev_c>> \o PreviousSiblings(h, h.o[n].prev_c)

Below(h, n) == SelectSeq(Onwards(h, h.o[n].first_child), LAMBDA x : n \in Above(h, x))

NodeAxis(h, n, axis) ==
  CASE axis = "attribute" -> Attributes(h, n)
    [] axis = "child" -> Children(h, n)
    [] axis = "descendant" -> IF h.o[n].first_child = Null THEN <<>> ELSE Below(h, n)
    [] axis = "descendant_or_self" -> <<n>> \o IF h.o[n].first_child = Null THEN <<>> ELSE Below(h, n)
    [] axis = "following_sibling" -> NextSiblings(h, n)
    [] axis = "preceding_sibling" -> PreviousSiblings(h, n)
    [] axis = "following" -> Onwards(h, NextUp(h, n))
    [] axis = "preceding" -> Backwards(h, PreviousUp(h, n), n)
    [] axis = "ancestor" -> Upwards(h, h.o[n].parent)
    [] axis = "ancestor_or_self" -> Upwards(h, n)
    [] axis = "self" -> <<n>>
    [] axis = "parent" -> IF h.o[n].parent = Null THEN <<>> ELSE <<h.o[n].parent>>

AttributeAxis(h, a, axis, test) ==
  LET n == ParentOf(h, a)
      itself == IF test.type = "node" THEN <<a>> ELSE <<>>
  IN  CASE axis = "ancestor" -> Upwards(h, n)
        [] axis = "ancestor_or_self" -> itself \o Upwards(h, n)
        [] axis \in {"descendant_or_self", "self"} -> itself
        [] axis = "following" -> Onwards(h, NextNode(h, n))
        [] axis = "preceding" -> NodeAxis(h, n, "preceding")
        [] axis = "parent" -> <<n>>
        [] OTHER -> <<>>

Accepts(h, x, test) ==
  LET kind == h.o[x].kind
      name == Text(h, x, "name")
      element == IF kind = "attribute" THEN ~IsPrefix(<<"x", "m", "l", "n", "s">>, name) ELSE kind = "element"
  IN  CASE test.type = "node" -> kind = "attribute" => element
        [] test.type = "all" -> element
        [] test.type = "name" -> element /\ name = test.name
        [] test.type = "all_in_namespace" -> element /\ IsPrefix(test.name, name)
        [] test.type = "text" -> kind \in {"pcdata", "cdata"}
        [] test.type \in {"comment", "pi"} -> kind = test.type

StepFill(h, x, axis, test, once) ==
  LET met == IF h.o[x].kind = "attribute" THEN AttributeAxis(h, x, axis, test) ELSE NodeAxis(h, x, axis)
      accepted == SelectSeq(met, LAMBDA y : Accepts(h, y, test))
  IN  IF once /\ axis \notin {"self", "parent"} /\ accepted # <<>> THEN <<Head(accepted)>> ELSE accepted

-----------------------------------------------------------------------------
(* Node sets: their nodes and what is known of their order                  *)

SortNodes(h, ns) ==
  [type |-> "sorted",
   nodes |-> CASE ns.type = "sorted" -> ns.nodes [] ns.type = "reverse" -> Reverse(ns.nodes)
               [] ns.type = "unsorted" -> SortSeq(ns.nodes, LAMBDA l, r : IsBefore(h, l, r))]

RECURSIVE Unique(_)
Unique(nodes) ==
  IF nodes = <<>> THEN <<>>
  ELSE LET kept == Unique(Front(nodes))
       IN  IF Last(nodes) \in ToSet(kept) THEN kept ELSE Append(kept, Last(nodes))

EvalOnce(type, eval) == IF type = "sorted" THEN eval # "all" ELSE eval = "any"

First(h, ns) ==
  CASE ns.nodes = <<>> -> Null [] ns.type = "sorted" -> Head(ns.nodes) [] ns.type = "reverse" -> Last(ns.nodes)
    [] OTHER -> CHOOSE x \in ToSet(ns.nodes) : \A y \in ToSet(ns.nodes) : x = y \/ IsBefore(h, x, y)

Flatten(texts) == FoldLeft(LAMBDA t, u : t \o u, <<>>, texts)
StringValue(h, x) ==
  LET texts == SelectSeq(IF h.o[x].first_child = Null THEN <<>> ELSE Below(h, x),
                         LAMBDA y : h.o[y].kind \in {"pcdata", "cdata"})
  IN  IF h.o[x].kind \in {"document", "element"}
      THEN Text(h, x, "value") \o Flatten([i \in DOMAIN texts |-> Text(h, texts[i], "value")])
      ELSE Text(h, x, "value")

RECURSIVE EvalNodeSet(_, _, _, _)

NumberTyped(expr) == expr.type \in {"number", "last"}
Holds(h, expr, x, i, size) ==
  CASE expr.type = "position_is" -> i = expr.number
    [] expr.type = "not_last" -> i < size
    [] expr.type = "path" -> EvalNodeSet(h, expr.path, x, "any").nodes # <<>>
    [] expr.type = "equal" ->
         \E y \in ToSet(EvalNodeSet(h, expr.path, x, "all").nodes) : StringValue(h, y) = expr.text
    [] expr.type = "attribute_is" ->
         LET named == SelectSeq(IF h.o[x].kind = "attribute" THEN <<>> ELSE Attributes(h, x),
                                LAMBDA a : Text(h, a, "name") = expr.name)
         IN  /\ named # <<>> /\ Text(h, Head(named), "value") = expr.text
             /\ ~IsPrefix(<<"x", "m", "l", "n", "s">>, expr.name)

Number(expr, size) == IF expr.type = "last" THEN size ELSE expr.number

Pick(list, at) == FoldLeft(LAMBDA l, i : Append(l, list[i]), <<>>, at)

ApplyPredicate(h, nodes, pred, once) ==
  LET size == Len(nodes)
      n == Number(pred.expr, size)
      passing == {i \in 1..size :
                    IF NumberTyped(pred.expr) THEN i = n ELSE Holds(h, pred.expr, nodes[i], i, size)}
      kept == SelectSeq([i \in 1..size |-> i], LAMBDA i : i \in passing)
  IN  IF pred.test \in {"constant_one", "constant"} THEN IF n \in 1..size THEN <<nodes[n]>> ELSE <<>>
      ELSE Pick(nodes, IF once /\ kept # <<>> THEN <<Head(kept)>> ELSE kept)

ApplyPredicates(h, nodes, preds, type, eval) ==
  FoldLeft(LAMBDA left, p : ApplyPredicate(h, left, p, p = Last(preds) /\ EvalOnce(type, eval)), nodes, preds)

StepDo(h, e, c, eval) ==
  LET preds == e.predicates
      type == IF e.axis \in {"ancestor", "ancestor_or_self", "preceding", "preceding_sibling"}
              THEN "reverse" ELSE "sorted"
      once == \/ e.axis = "attribute" /\ e.test.type = "name"
              \/ preds = <<>> /\ EvalOnce(type, eval)
              \/ Len(preds) = 1 /\ preds[1].test = "constant_one"
      fill(ns, x) == LET t == IF e.axis # "self" /\ ns.nodes # <<>> THEN "unsorted" ELSE ns.type
                     IN  [type |-> t,
                          nodes |-> ns.nodes \o ApplyPredicates(h, StepFill(h, x, e.axis, e.test, once),
                                                                preds, t, eval)]
      from(set) == FoldLeft(fill, [type |-> IF e.axis = "self" THEN set.type ELSE type, nodes |-> <<>>],
                            set.nodes)
      each(set) == IF e.axis \notin {"child", "attribute", "self"} /\ set.type = "unsorted"
                   THEN [set EXCEPT !.nodes = Unique(@)] ELSE set
  IN  each(from(IF e.left = NoPath THEN [type |-> type, nodes |-> <<c>>] ELSE EvalNodeSet(h, e.left, c, "all")))

EvalNodeSet(h, e, c, eval) ==
  CASE e.type = "root" -> [type |-> "sorted", nodes |-> <<DocumentOf(h, c)>>]
    [] e.type = "step" -> StepDo(h, e, c, eval)
    [] e.type = "union" ->
         [type |-> "unsorted",
          nodes |-> Unique(EvalNodeSet(h, e.left, c, eval).nodes \o EvalNodeSet(h, e.right, c, eval).nodes)]
    [] e.type = "filter" ->
         LET pred == e.predicates[1]
             set == EvalNodeSet(h, e.left, c, IF pred.test = "constant_one" THEN "first" ELSE "all")
             sorted == IF pred.test = "posinv" THEN set ELSE SortNodes(h, set)
         IN  [sorted EXCEPT !.nodes = ApplyPredicate(h, @, pred, EvalOnce(sorted.type, eval))]

-----------------------------------------------------------------------------
(* Rewriting                                                                *)

RECURSIVE Optimize(_)

OptimizePredicate(p) ==
  LET e == CASE p.expr.type = "position_is" -> [type |-> "number", number |-> p.expr.number]
             [] p.expr.type = "path" -> [p.expr EXCEPT !.path = Optimize(@)]
             [] p.expr.type = "equal" ->
                  LET path == Optimize(p.expr.path)
                  IN  IF path.type = "step" /\ path.axis = "attribute" /\ path.test.type = "name"
                         /\ path.left = NoPath /\ path.predicates = <<>>
                      THEN [type |-> "attribute_is", name |-> path.test.name, text |-> p.expr.text]
                      ELSE [p.expr EXCEPT !.path = path]
             [] OTHER -> p.expr
  IN  [expr |-> e, test |-> IF e.type = "number" /\ e.number = 1 THEN "constant_one"
                            ELSE IF NumberTyped(e) THEN "constant"
                            ELSE IF e.type # "not_last" THEN "posinv" ELSE "default"]

IsPosinvStep(e) == \A i \in DOMAIN e.predicates : e.predicates[i].test = "posinv"

(* A step from every descendant, which may become one to the descendants    *)
AfterDescendants(e) ==
  /\ e.axis \in {"child", "self", "descendant", "descendant_or_self"}
  /\ e.left.type = "step" /\ e.left.axis = "descendant_or_self"
  /\ e.left.test.type = "node" /\ e.left.predicates = <<>>
Shortened(e) ==
  [e EXCEPT !.axis = IF @ \in {"child", "descendant"} THEN "descendant" ELSE "descendant_or_self",
            !.left = e.left.left]

(* mutant: //foo[1] becomes /descendant::foo[1]                             *)
RewriteAlways(e) == IF AfterDescendants(e) THEN Shortened(e) ELSE e

Rewrite(e) == IF AfterDescendants(e) /\ IsPosinvStep(e) THEN Shortened(e) ELSE e

Optimize(e) ==
  CASE e.type = "step" -> Rewrite([e EXCEPT !.left = Optimize(@),
                                            !.predicates = FoldLeft(LAMBDA l, p : Append(l, OptimizePredicate(p)),
                                                                    <<>>, @)])
    [] e.type = "filter" -> [e EXCEPT !.left = Optimize(@), !.predicates = <<OptimizePredicate(@[1])>>]
    [] e.type = "union" -> [e EXCEPT !.left = Optimize(@), !.right = Optimize(@)]
    [] OTHER -> e
=============================================================================
