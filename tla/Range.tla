-------------------------------- MODULE Range --------------------------------
(***************************************************************************)
(* zc_range (include/zc_range.h): a closed interval of values. The range   *)
(* that is made without arguments is empty: it reaches from UPPER_BOUND    *)
(* down to LOWER_BOUND, so that the smallest range over it and any value   *)
(* is that value's.                                                        *)
(***************************************************************************)
EXTENDS Integers

UPPER_BOUND == 1000000     (* numeric_limits<T>::max()                       *)
LOWER_BOUND == -UPPER_BOUND

Lesser(a, b) == IF a <= b THEN a ELSE b
Greater(a, b) == IF a >= b THEN a ELSE b

Between(min, max) == [first |-> min, second |-> max]
EmptyRange == Between(UPPER_BOUND, LOWER_BOUND)

(* operator|= and operator| : the smallest range that has both              *)
Hull(r, s) == Between(Lesser(r.first, s.first), Greater(r.second, s.second))

(* operator&= and operator& : what both have                                *)
Common(r, s) ==
  LET c == Between(Greater(r.first, s.first), Lesser(r.second, s.second))
  IN  IF c.first > c.second THEN EmptyRange ELSE c

(* contains(range) and contains(value); an empty range is in every range    *)
ContainsRange(r, s) == r.first <= s.first /\ r.second >= s.second
InRange(r, v) == r.first <= v /\ r.second >= v

IsValid(r) == r.first <= r.second
Size(r) == r.second - r.first

Shifted(r, d) == Between(r.first + d, r.second + d)
=============================================================================
