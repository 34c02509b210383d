------------------------------ MODULE GraphAxes ------------------------------
(***************************************************************************)
(* The axes of zc_graph_ (src/zc_graph_.cpp): what the configuration calls *)
(* make of an axis, and how a wheel, a drag or the program moves the part  *)
(* of it that is shown. Data values, doubles in the code, are integers in  *)
(* units of which MinimumRange stand for set_axis_range's smallest range;  *)
(* a quotient is rounded down to a unit. An axis is a record as axis_data_t  *)
(* is, without the wording and the placing of its label.                   *)
(***************************************************************************)
EXTENDS Range, FiniteSets, Sequences

CONSTANTS
  MinimumRange,    (* the units in the smallest range, 1e-6                   *)
  Precision,       (* a float keeps integers up to this one (2^24) exactly    *)
  TickSpacing      (* tick_spacing_pixels of set_axis_params                  *)

ASSUME AxesAssumption ==
  MinimumRange \in Nat \ {0} /\ Precision \in Nat \ {0} /\ TickSpacing \in Nat \ {0}

VARIABLE kind      (* the class of the widget; it never changes               *)

Kinds == {"CARTESIAN", "CARTESIAN_2Y", "CART_OVERLAY", "POLAR", "SMITH", "DENSITY",
          "BAR_HORIZ", "BAR_VERT"}
NumAxes == IF kind \in {"CARTESIAN_2Y", "DENSITY"} THEN 3 ELSE 2
Axes == 0..NumAxes - 1
Barred == kind \in {"BAR_HORIZ", "BAR_VERT"}
IsAxisHorizontal(a) == IF kind = "BAR_HORIZ" THEN a = 1 ELSE a = 0
Scrollable == kind \notin {"POLAR", "SMITH"}
ZoomCapability ==
  CASE kind = "POLAR" -> "ZOOM_ON_ORIGIN" [] kind = "SMITH" -> "NO_ZOOM"
    [] OTHER -> "ZOOM_ON_CURSOR"
(* Axis 0 is drawn in the plot of axis 1                                     *)
PlotOf(a) == IF a = 0 THEN 1 ELSE a
OtherAxis(a) == IF a = 0 THEN 1 ELSE 0

(* axis_data_t; inv_scale is the quotient inv[1] / inv[2]                    *)
NewAxis == [outer |-> EmptyRange, inner |-> EmptyRange, default |-> EmptyRange,
            current |-> EmptyRange, position |-> 0, inv |-> <<1, 1>>, ticks |-> {},
            bar |-> FALSE]

(* set_axis_ranges throws unless the ranges lie in one another              *)
RangesAreLegal(inner, outer, default) ==
  /\ IsValid(inner) => /\ IsValid(default) => ContainsRange(default, inner)
                       /\ ContainsRange(outer, inner)
  /\ ContainsRange(outer, default)
SetAxisRanges(axis, r) ==
  [axis EXCEPT !.inner = r.inner, !.outer = r.outer, !.default = r.default]

SetBarLabels(axis, n) ==
  LET range == IF n = 0 THEN EmptyRange ELSE Between(0, n - 1)
  IN  [axis EXCEPT !.bar = TRUE, !.inner = EmptyRange, !.outer = range, !.default = range,
                   !.current = range,
                   !.ticks = {[value |-> v, major |-> TRUE] : v \in 0..n - 1}]

(* The smallest range that has all the values                                *)
Enclosing(values) ==
  IF values = {} THEN EmptyRange
  ELSE Between(CHOOSE v \in values : \A w \in values : v <= w,
               CHOOSE v \in values : \A w \in values : v >= w)

(* add_data_set: the values within the outer range are to be shown           *)
ShowValues(axis, values) ==
  LET seen == Enclosing({v \in values : InRange(axis.outer, v)})
  IN  [axis EXCEPT !.current = Hull(@, seen), !.default = Hull(@, seen)]

EndConfig(axis) == [axis EXCEPT !.current = Hull(@, axis.default)]

CanSetAxisRange(axis) == IsValid(axis.outer) /\ IsValid(axis.default)

(* mutant: the smallest range may reach beyond the outer one                  *)
SetAxisRangeUnclamped(axis, range) ==
  IF ~CanSetAxisRange(axis) \/ ~IsValid(range) THEN axis
  ELSE LET clamped == Hull(Common(range, axis.outer), axis.inner)
       IN  [axis EXCEPT !.current = IF Size(clamped) < MinimumRange
                                    THEN Between(clamped.first, clamped.first + MinimumRange) ELSE clamped]

SetAxisRange(axis, range) ==
  IF ~CanSetAxisRange(axis) \/ ~IsValid(range) THEN axis
  ELSE LET clamped == Hull(Common(range, axis.outer), axis.inner)
           wide == IF Size(clamped) < MinimumRange
                   THEN Between(clamped.first, clamped.first + MinimumRange) ELSE clamped
       IN  [axis EXCEPT !.current = Common(wide, axis.outer)]

ResetZoom(axis) == SetAxisRange(axis, axis.default)

(* 2^(zoom_factor / 10) for the wheel's steps of 10 units                    *)
ZoomChange(distance, zoom_factor) == IF zoom_factor > 0 THEN distance * 2 ELSE distance \div 2

(* mutant: the middle of what is shown stays where it is                       *)
ZoomAxisAboutMiddle(axis, at, zoom_factor) ==
  LET middle == (axis.current.first + axis.current.second) \div 2
      move == ZoomChange(axis.current.second - middle, zoom_factor)
  IN  SetAxisRange(axis, Hull(Common(Between(middle - move, middle + move), axis.outer), axis.inner))

(* zoom_axis about the value under the mouse                                 *)
ZoomAxis(axis, at, zoom_factor) ==
  LET zoomed == Between(at - ZoomChange(at - axis.current.first, zoom_factor),
                        at + ZoomChange(axis.current.second - at, zoom_factor))
      within == IF IsValid(axis.outer) THEN Common(zoomed, axis.outer) ELSE zoomed
      around == IF IsValid(axis.inner) THEN Hull(within, axis.inner) ELSE within
  IN  SetAxisRange(axis, around)

(* scroll_axis by an offset in pixels, which stops at the outer range         *)
ScrollAxis(axis, offset) ==
  LET amount == (offset * axis.inv[1]) \div axis.inv[2]
      limited == IF amount > 0 THEN Lesser(amount, axis.outer.second - axis.current.second)
                 ELSE Greater(amount, axis.outer.first - axis.current.first)
  IN  IF Scrollable THEN SetAxisRange(axis, Common(axis.outer, Shifted(axis.current, limited)))
      ELSE axis

-----------------------------------------------------------------------------
(* The ticks                                                                 *)

(* normalise and the choice of a spacing: 1, 2, 5 or 10 times the power of ten
   below num / den. A spacing finer than a unit is taken for one unit         *)
NiceSpacing(num, den) ==
  LET nice[power \in Nat] ==
        IF num * 10 <= den * 14 * power THEN power
        ELSE IF num * 10 <= den * 32 * power THEN 2 * power
        ELSE IF num <= den * 7 * power THEN 5 * power
        ELSE IF num <= den * 10 * power THEN 10 * power
        ELSE nice[10 * power]
  IN  nice[1]

(* What a float keeps of an integer: the nearest multiple of the power of two
   that its size asks for                                                     *)
Single(v) ==
  LET quantum[q \in Nat] == IF v <= Precision * q /\ -v <= Precision * q THEN q ELSE quantum[2 * q]
      q == quantum[1]
      low == (v \div q) * q
  IN  IF 2 * (v - low) < q \/ (2 * (v - low) = q /\ (v \div q) % 2 = 0) THEN low ELSE low + q

(* set_ticks: from the multiple of the spacing below the range, in steps that are
   rounded to a float. `ends' is false when a step leaves the float where it is *)
LinearTicks(axis) ==
  LET spacing == NiceSpacing(TickSpacing * axis.inv[1], axis.inv[2])
      first == Single((axis.current.first \div spacing) * spacing)
      run[v \in Int] ==
        IF v > axis.current.second THEN [ends |-> TRUE, ticks |-> {}]
        ELSE IF Single(v + spacing) = v THEN [ends |-> FALSE, ticks |-> {}]
        ELSE LET rest == run[Single(v + spacing)]
             IN  IF v < axis.current.first THEN rest
                 ELSE [rest EXCEPT !.ticks = @ \union {v}]
  IN  [run[first] EXCEPT !.ticks = {[value |-> v, major |-> v % (2 * spacing) = 0] : v \in @}]

(* zc_graph_smith::set_ticks adds fixed ticks, in tenths, to those there are  *)
SmithTicks(axis, a) ==
  LET resistance == {0, 2, 5, 10, 20, 30, 50}
      reactance == {2, 5, 10, 20, 30, 50}
      values == IF a = 0 THEN resistance ELSE reactance \union {-v : v \in reactance}
  IN  [ends |-> TRUE, ticks |-> axis.ticks \union {[value |-> v, major |-> TRUE] : v \in values}]
=============================================================================
