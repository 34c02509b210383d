----------------------------- MODULE GraphLayout -----------------------------
(***************************************************************************)
(* Where each class of zc_graph_ puts its axes and its plot, how pixels    *)
(* and data values are turned into one another, which axis is under the    *)
(* mouse, and which data of a density plot a pixel is mixed from. The      *)
(* widget has no box and its corner is the origin.                         *)
(***************************************************************************)
EXTENDS GraphAxes

CONSTANTS
  TickLength, TextHeight, CharWidth   (* in pixels                             *)

ASSUME LayoutAssumption == {TickLength, TextHeight, CharWidth} \subseteq Nat

Magnitude(v) == IF v < 0 THEN -v ELSE v

(* The characters of a number                                                *)
Characters(v) ==
  LET digits[m \in Nat] == IF m < 10 THEN 1 ELSE 1 + digits[m \div 10]
  IN  digits[Magnitude(v)] + (IF v < 0 THEN 1 ELSE 0)

(* The characters of the widest label of a few; none needs more than the columns *)
Columns == 8             (* of -1000000, the LOWER_BOUND                      *)
Widest(values) ==
  LET lengths == {Characters(v) : v \in values}
  IN  Cardinality({n \in 1..Columns : \E length \in lengths : n <= length})

(* axis_width: beside a vertical axis the widest of the labels that its last drawing
   gave it, or an estimate                                                    *)
AxisWidth(axes, a) ==
  IF a \notin Axes THEN 0
  ELSE LET r == axes[a].current
           labels == IF axes[a].ticks # {} THEN {t.value : t \in axes[a].ticks}
                     ELSE {IF Magnitude(r.first) >= Magnitude(r.second) THEN r.first ELSE r.second}
       IN  TickLength + (IF IsAxisHorizontal(a) THEN TextHeight ELSE CharWidth * Widest(labels))

(* A linear map: pixels 0..extent show lo / den .. hi / den                   *)
Linear(lo, hi, den) == [lo |-> lo, hi |-> hi, den |-> den]
(* the map whose middle `plot' pixels show r                                  *)
Around(r, before, after, plot) ==
  Linear(r.first * plot - before * Size(r), r.second * plot + after * Size(r), plot)
NoMap == Linear(0, 0, 1)

NoLayout == [w |-> 0, h |-> 0, x |-> 0, y |-> 0, pw |-> 0, ph |-> 0,
             xs |-> [p \in 1..2 |-> NoMap], ys |-> [p \in 1..2 |-> NoMap]]

(* set_plot_area, for a widget of a size                                      *)
PlotArea(axes, size, left, right, top, bottom) ==
  LET width(a) == AxisWidth(axes, a)
  IN  [NoLayout EXCEPT !.w = size.w, !.h = size.h, !.x = width(left), !.y = width(top),
                       !.pw = size.w - width(left) - width(right),
                       !.ph = size.h - width(top) - width(bottom)]

LabelRange(r) == Between(r.first, r.second + 1)     (* room for the last bar  *)

(* The layout functions without what they set in the axes                    *)
LayoutCartesian(axes, size) ==
  LET area == PlotArea(axes, size, 1, -1, -1, 0)
  IN  [area EXCEPT !.xs[1] = Around(axes[0].current, AxisWidth(axes, 1), 0, area.pw),
                   !.ys[1] = Around(axes[1].current, AxisWidth(axes, 0), 0, area.ph)]

Layout2Y(axes, size) ==
  LET area == PlotArea(axes, size, 1, 2, -1, 0)
      x == Around(axes[0].current, AxisWidth(axes, 1), AxisWidth(axes, 2), area.pw)
  IN  [area EXCEPT !.xs = [p \in 1..2 |-> x],
                   !.ys[1] = Around(axes[1].current, AxisWidth(axes, 0), 0, area.ph),
                   !.ys[2] = Around(axes[2].current, AxisWidth(axes, 0), 0, area.h)]

LayoutOverlay(axes, size) ==
  [PlotArea(axes, size, 1, -1, -1, 0) EXCEPT
     !.xs[1] = Around(axes[0].current, 0, 0, 1), !.ys[1] = Around(axes[1].current, 0, 0, 1)]

(* A circle of a radius fills the plot area                                  *)
LayoutCircle(axes, size, radius) ==
  LET area == PlotArea(axes, size, 0, 0, 0, 0)
      across == Lesser(area.pw, area.ph)
  IN  [area EXCEPT !.xs[1] = Linear(-radius * area.w, radius * area.w, across),
                   !.ys[1] = Linear(-radius * area.h, radius * area.h, across)]

LayoutBarVertical(axes, size) ==
  LET plain == LayoutCartesian(axes, size)
  IN  [plain EXCEPT !.xs[1] = Around(LabelRange(axes[0].current), AxisWidth(axes, 1), 0, plain.pw)]

(* mutant: each axis leaves room for the other one's strip                     *)
LayoutBarHorizontalCrossed(axes, size) ==
  LET area == PlotArea(axes, size, 0, -1, -1, 1)
  IN  [area EXCEPT !.xs[1] = Around(axes[1].current, AxisWidth(axes, 1), 0, area.pw),
                   !.ys[1] = Around(LabelRange(axes[0].current), AxisWidth(axes, 0), 0, area.ph)]

LayoutBarHorizontal(axes, size) ==
  LET area == PlotArea(axes, size, 0, -1, -1, 1)
  IN  [area EXCEPT !.xs[1] = Around(axes[1].current, AxisWidth(axes, 0), 0, area.pw),
                   !.ys[1] = Around(LabelRange(axes[0].current), AxisWidth(axes, 1), 0, area.ph)]

LayoutDensity(axes, size) ==
  LET plain == LayoutCartesian(axes, size)
  IN  [plain EXCEPT !.xs[2] = plain.xs[1], !.ys[2] = plain.ys[1]]

LayoutPolar(axes, size) == LayoutCircle(axes, size, axes[0].current.second)
SmithRadius == 10        (* the reflection coefficient 1, in tenths          *)
LayoutSmith(axes, size) == LayoutCircle(axes, size, SmithRadius)

Layout(axes, size) ==
  CASE kind = "CARTESIAN" -> LayoutCartesian(axes, size)
    [] kind = "BAR_VERT" -> LayoutBarVertical(axes, size)
    [] kind = "CARTESIAN_2Y" -> Layout2Y(axes, size)
    [] kind = "CART_OVERLAY" -> LayoutOverlay(axes, size)
    [] kind = "POLAR" -> LayoutPolar(axes, size)
    [] kind = "SMITH" -> LayoutSmith(axes, size)
    [] kind = "BAR_HORIZ" -> LayoutBarHorizontal(axes, size)
    [] kind = "DENSITY" -> LayoutDensity(axes, size)

(* inv_scale of an axis, per pixel. An angle takes 180 / Pi degrees of a radius *)
Scale(axes, laid, a) ==
  LET span == Size(axes[a].current) + (IF axes[a].bar THEN 1 ELSE 0)
      across == Lesser(laid.pw, laid.ph)
  IN  CASE kind \in {"POLAR", "SMITH"} ->
             IF a = 1 THEN <<2 * 57, across>>
             ELSE <<2 * (IF kind = "SMITH" THEN SmithRadius ELSE axes[0].current.second), across>>
        [] kind = "DENSITY" /\ a = 2 -> axes[a].inv
        [] kind = "CARTESIAN_2Y" /\ a = 2 -> <<span, laid.h>>
        [] OTHER -> <<span, IF IsAxisHorizontal(a) THEN laid.pw ELSE laid.ph>>

(* Where on the other axis an axis is drawn                                   *)
Position(axes, a) ==
  LET other == axes[OtherAxis(a)].current
  IN  CASE kind = "CART_OVERLAY" ->
             IF InRange(other, 0) THEN 0 ELSE IF other.first > 0 THEN other.first ELSE other.second
        [] kind = "SMITH" \/ (kind = "POLAR" /\ a = 0) \/ (kind = "DENSITY" /\ a = 2) -> 0
        [] kind = "POLAR" \/ (kind = "CARTESIAN_2Y" /\ a = 2) -> other.second
        [] OTHER -> other.first

LaidAxes(axes, laid) ==
  [a \in Axes |-> [axes[a] EXCEPT !.position = Position(axes, a), !.inv = Scale(axes, laid, a)]]

-----------------------------------------------------------------------------
(* Pixels and data                                                           *)

(* pixel_to_data: y is the top of the widget at the end of the range          *)
ValueAt(map, pixel, extent) ==
  (map.lo * extent + pixel * (map.hi - map.lo)) \div (map.den * extent)
PixelToData(laid, a, pixel) ==
  <<ValueAt(laid.xs[PlotOf(a)], pixel[1], laid.w),
    ValueAt(laid.ys[PlotOf(a)], laid.h - pixel[2], laid.h)>>

(* data_to_pixel, whose scale_y_ is negative: pixels count from the bottom, mirrored *)
Truncated(num, den) == IF num < 0 THEN -((-num) \div den) ELSE num \div den
DataToPixel(laid, a, point) ==
  LET x == laid.xs[PlotOf(a)]
      y == laid.ys[PlotOf(a)]
      up == laid.h * (y.hi - y.lo) + (point[2] * y.den - y.lo) * laid.h
  IN  <<Truncated((point[1] * x.den - x.lo) * laid.w, x.hi - x.lo), Truncated(up, y.hi - y.lo)>>

(* get_layout_area: the axis under the mouse, "plot", or "none"               *)
InPlot(laid, pixel) == /\ laid.x <= pixel[1] /\ pixel[1] <= laid.x + laid.pw
                       /\ laid.y <= pixel[2] /\ pixel[2] <= laid.y + laid.ph
LeftOfPlot(laid, pixel) == 0 <= pixel[1] /\ pixel[1] < laid.x
AreaCartesian(laid, pixel) ==
  IF InPlot(laid, pixel) THEN "plot"
  ELSE IF LeftOfPlot(laid, pixel) THEN "axis1"
  ELSE IF laid.y < pixel[2] /\ pixel[2] <= laid.y + laid.ph THEN "axis0"
  ELSE "none"
Area2Y(laid, pixel) ==
  IF InPlot(laid, pixel) THEN "plot"
  ELSE IF LeftOfPlot(laid, pixel) THEN "axis1"
  ELSE IF laid.x + laid.pw <= pixel[1] /\ pixel[1] < laid.w THEN "axis2"
  ELSE IF laid.y < pixel[2] /\ pixel[2] <= laid.h THEN "axis0"
  ELSE "none"
LayoutArea(laid, pixel) ==
  CASE kind \in {"CART_OVERLAY", "POLAR", "SMITH"} -> "plot"
    [] kind = "CARTESIAN_2Y" -> Area2Y(laid, pixel)
    [] OTHER -> AreaCartesian(laid, pixel)
AxisOfArea == [axis0 |-> 0, axis1 |-> 1, axis2 |-> 2]

-----------------------------------------------------------------------------
(* Density plots                                                             *)

(* The neighbours of p in sorted values, as shares <<index, part, whole>>: the last
   value that is less, and the next one if there is one                       *)
Neighbours(values, p) ==
  LET below == Cardinality({i \in 1..Len(values) : values[i] < p})
      i == Greater(below, 1)
      whole == values[i + 1] - values[i]
      part == Lesser(Greater(p - values[i], 0), whole)
  IN  IF i = Len(values) THEN {<<i, 1, 1>>}
      ELSE {<<i, whole - part, whole>>, <<i + 1, part, whole>>}

(* What layout() mixes the colour of a pixel from: shares in the data          *)
Contributions(grid, point) ==
  {[x |-> x[1], y |-> y[1], part |-> x[2] * y[2], whole |-> x[3] * y[3]] :
     x \in Neighbours(grid.xs, point[1]), y \in Neighbours(grid.ys, point[2])}

(* z_values are given row by row                                              *)
DataAt(grid, share) == grid.zs[(share.y - 1) * Len(grid.xs) + share.x]

(* density_colour of num / den with linear triggers: the values from the beginning of the
   range to a quarter of its end are mapped to the entries, entry i to those up to
   i / (depth - 1)                                                            *)
ColourIndex(num, den, range, depth) ==
  LET whole == den * (range.second - 4 * range.first)
      part == Lesser(Greater(4 * (num - den * range.first), 0), whole)
  IN  IF whole <= 0 THEN 1
      ELSE CHOOSE i \in 1..depth : /\ part * (depth - 1) <= i * whole
                                   /\ \A j \in 1..i - 1 : part * (depth - 1) > j * whole
=============================================================================
