------------------------------ MODULE XmlLinks ------------------------------
(***************************************************************************)
(* The lists of pugixml's tree (src/pugixml/pugixml.cpp, "Low-level DOM    *)
(* operations"): children and attributes are lists linked forwards by next *)
(* and backwards by prev_c, whose first element's prev_c is the last one,  *)
(* so that a list needs no pointer to its end.                             *)
(*                                                                         *)
(* o maps objects to records; a node and an attribute differ in the field  *)
(* of their owner that leads to the first one, and in that only nodes know *)
(* their parent.                                                           *)
(***************************************************************************)
EXTENDS Sequences, Integers, FiniteSets

Null == 0

Unlinked == [parent |-> Null, first_child |-> Null, first_attribute |-> Null,
             prev_c |-> Null, next |-> Null]

(* the three ways in: at the end, at the front, before or after another     *)
LinkLast(o, first, x, n) ==
  LET head == o[n][first]
      tail == o[head].prev_c
  IN  IF head = Null THEN [o EXCEPT ![n][first] = x, ![x].prev_c = x]
      ELSE [o EXCEPT ![tail].next = x, ![x].prev_c = tail, ![head].prev_c = x]

LinkFirst(o, first, x, n) ==
  LET head == o[n][first]
      linked == IF head = Null THEN [o EXCEPT ![x].prev_c = x]
                ELSE [o EXCEPT ![x].prev_c = o[head].prev_c, ![head].prev_c = x]
  IN  [linked EXCEPT ![x].next = head, ![n][first] = x]

LinkAfter(o, first, x, place, n) ==
  LET next == o[place].next
      back == IF next # Null THEN next ELSE o[n][first]
  IN  [[o EXCEPT ![back].prev_c = x]
         EXCEPT ![x].next = next, ![x].prev_c = place, ![place].next = x]

LinkBefore(o, first, x, place, n) ==
  LET prev == o[place].prev_c
      linked == IF o[prev].next # Null THEN [o EXCEPT ![prev].next = x]
                ELSE [o EXCEPT ![n][first] = x]
  IN  [linked EXCEPT ![x].prev_c = prev, ![x].next = place, ![place].prev_c = x]

Unlink(o, first, x, n) ==
  LET next == o[x].next
      prev == o[x].prev_c
      back == IF next # Null THEN next ELSE o[n][first]
      backed == [o EXCEPT ![back].prev_c = prev]
      linked == IF backed[prev].next # Null THEN [backed EXCEPT ![prev].next = next]
                ELSE [backed EXCEPT ![n][first] = next]
  IN  [linked EXCEPT ![x].prev_c = Null, ![x].next = Null]

-----------------------------------------------------------------------------
Child(o, x, n) == [o EXCEPT ![x].parent = n]

AppendNode(o, x, n) == LinkLast(Child(o, x, n), "first_child", x, n)
PrependNode(o, x, n) == LinkFirst(Child(o, x, n), "first_child", x, n)
InsertNodeAfter(o, x, place) ==
  LinkAfter(Child(o, x, o[place].parent), "first_child", x, place, o[place].parent)
InsertNodeBefore(o, x, place) ==
  LinkBefore(Child(o, x, o[place].parent), "first_child", x, place, o[place].parent)
RemoveNode(o, x) == Child(Unlink(o, "first_child", x, o[x].parent), x, Null)

AppendAttribute(o, x, n) == LinkLast(o, "first_attribute", x, n)
PrependAttribute(o, x, n) == LinkFirst(o, "first_attribute", x, n)
InsertAttributeAfter(o, x, place, n) == LinkAfter(o, "first_attribute", x, place, n)
InsertAttributeBefore(o, x, place, n) == LinkBefore(o, "first_attribute", x, place, n)
RemoveAttribute(o, x, n) == Unlink(o, "first_attribute", x, n)

-----------------------------------------------------------------------------
(* The list as a program walks it: the objects from the first one on. More  *)
(* objects than there are means that the list does not end.                 *)
RECURSIVE From(_, _, _)
From(o, x, left) ==
  IF x = Null \/ left = 0 THEN <<>> ELSE <<x>> \o From(o, o[x].next, left - 1)

Walk(o, first, n) == From(o, o[n][first], Cardinality(DOMAIN o))
=============================================================================
