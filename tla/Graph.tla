-------------------------------- MODULE Graph --------------------------------
(***************************************************************************)
(* zc_graph_ and the classes derived from it: the application configures   *)
(* the widget in the order its header gives, may append to the vectors it  *)
(* has lent it, and sets ranges; the user turns the wheel, double-clicks   *)
(* and drags; FLTK draws the widget once it is damaged. All of it happens  *)
(* in the main thread, one call at a time, so that what is hard is the     *)
(* order: several events come between two drawings, and each of them works *)
(* with the layout of the last one. A label is placed by its value, its      *)
(* angle and alignment are left out; so are colours, fonts and styles.     *)
(***************************************************************************)
EXTENDS GraphLayout

S == INSTANCE SequencesExt
F == INSTANCE FiniteSetsExt

CONSTANTS
  GraphKinds,      (* the classes to be looked at                             *)
  Configs,         (* what the application gives a class, by class            *)
  Buffers,         (* the application's vectors of points                     *)
  Initially,       (* what they hold at first                                 *)
  Appended,        (* points that may be appended                             *)
  Asked,           (* ranges the application may ask for                      *)
  Sizes,           (* sizes of the widget                                     *)
  Mouse,           (* pixels of the mouse's events                            *)
  PixelSize,       (* pixels of the screen in one of the model                *)
  MaxConfigs, MaxEvents                 (* bounds                             *)

ASSUME GraphAssumption ==
  /\ GraphKinds \subseteq Kinds /\ Initially \in [Buffers -> Seq(Int \X Int)] /\ Appended \subseteq Int \X Int
  /\ Asked \subseteq [first : Int, second : Int] /\ Mouse \subseteq Int \X Int
  /\ Sizes \subseteq [w : Nat \ {0}, h : Nat \ {0}]
  /\ PixelSize \in Nat \ {0} /\ MaxConfigs \in Nat /\ MaxEvents \in Nat

(* What the application gives does not make set_axis_ranges throw, and is within what
   the type of the values holds; a density plot has data, "sorted by X and Y values"
   (zc_graph_.cpp:2609)                                                        *)
Ascending(values) ==
  values # <<>> /\ \A i, j \in 1..Len(values) : i < j => values[i] < values[j]
Extents == [first : LOWER_BOUND..UPPER_BOUND, second : LOWER_BOUND..UPPER_BOUND]
ASSUME ConfigAssumption ==
  \A k \in GraphKinds : \A c \in Configs[k] :
    /\ c.labels \in 0..UPPER_BOUND /\ c.sets \in Seq([axis : 1..2, buffer : Buffers])
    /\ {c.grid.xs, c.grid.ys, c.grid.zs} \subseteq Seq(Int)
    /\ k = "DENSITY" => Ascending(c.grid.xs) /\ Ascending(c.grid.ys)
    /\ \A a \in 0..2 : LET r == c.ranges[a]
                      IN  {r.inner, r.outer, r.default} \subseteq Extents
                          /\ RangesAreLegal(r.inner, r.outer, r.default)

VARIABLES
  axes,            (* axes_data_                                              *)
  data_sets,       (* data_sets_: what is to be plotted, by axis              *)
  config,          (* the markers, labels and density data given at last      *)
  buffers,         (* what the buffers hold                                   *)
  size, active,
  layout,          (* the plot area and the maps of the last layout()         *)
  damage,          (* what of the widget is to be drawn anew                  *)
  picture,         (* what was drawn at last                                  *)
  grip,            (* last_mouse_x_, _y_ while a button is held, or <<>>      *)
  clicked,         (* value_, what was last double-clicked                    *)
  status,          (* "running", or "hung" in a drawing that does not end     *)
  given,           (* the points given since start_config, by axis (history)  *)
  configs, events

graphVars == <<kind, axes, data_sets, config, buffers, size, active, layout, damage, picture,
           grip, clicked, status, given, configs, events>>

NoGrid == [xs |-> <<>>, ys |-> <<>>, zs |-> <<>>, depth |-> 0]
NoConfig == [sets |-> <<>>, grid |-> NoGrid, marks |-> {}, lozenges |-> {}, texts |-> {},
             gap |-> 0, overlap |-> 0]
Redrawn == {"LAYOUT", "ALL"}
Blank == {}         (* a picture without an object                             *)

-----------------------------------------------------------------------------
(* What the application does                                                 *)

(* The values that a configuration's data sets have for an axis              *)
ValuesFor(c, a) ==
  IF kind = "DENSITY" THEN S!ToSet(CASE a = 0 -> c.grid.xs [] a = 1 -> c.grid.ys [] a = 2 -> c.grid.zs)
  ELSE {q[2][IF a = 0 THEN 1 ELSE 2] :
          q \in UNION {{s} \X S!ToSet(buffers[s.buffer]) :
                         s \in {t \in S!ToSet(c.sets) : a \in {0, t.axis}}}}

ConfiguredAxis(c, a) ==
  LET made == IF Barred /\ a = 0 THEN SetBarLabels(NewAxis, c.labels)
              ELSE SetAxisRanges(NewAxis, c.ranges[a])
  IN  EndConfig(ShowValues(made, ValuesFor(c, a)))

(* start_config .. end_config in one callback. start_config leaves data_sets_ alone,
   which clear_data_sets may have emptied before                              *)
Configure(c, clear) ==
  /\ configs < MaxConfigs /\ configs' = configs + 1
  /\ axes' = [a \in Axes |-> ConfiguredAxis(c, a)]
  /\ data_sets' = [a \in 1..2 |-> (IF clear THEN <<>> ELSE data_sets[a])
                                  \o SelectSeq(c.sets, LAMBDA s : s.axis = a)]
  /\ config' = c
  /\ given' = [a \in Axes |-> ValuesFor(c, a)]
  /\ damage' = damage \union Redrawn
  /\ UNCHANGED <<kind, buffers, size, active, layout, picture, grip, clicked, status, events>>

(* The application appends to a vector and calls redraw()                      *)
AppendPoint(b, p) ==
  /\ status = "running" /\ events < MaxEvents /\ events' = events + 1
  /\ buffers' = [buffers EXCEPT ![b] = Append(@, p)]
  /\ damage' = damage \union {"ALL"}
  /\ UNCHANGED <<kind, axes, data_sets, config, size, active, layout, picture, grip, clicked, status,
                 given, configs>>

(* An event of the user or of the application, of which there are MaxEvents    *)
Event ==
  /\ status = "running" /\ events < MaxEvents /\ events' = events + 1
  /\ UNCHANGED <<kind, data_sets, config, buffers, layout, picture, status, given, configs>>

(* mutant: the widget is not damaged                                          *)
RequestRangeQuietly(a, range) ==
  /\ Event /\ axes' = [axes EXCEPT ![a] = SetAxisRange(@, range)]
  /\ UNCHANGED <<size, active, damage, grip, clicked>>

(* set_axis_range, which damages the widget when it does something            *)
RequestRange(a, range) ==
  /\ Event
  /\ axes' = [axes EXCEPT ![a] = SetAxisRange(@, range)]
  /\ damage' = IF CanSetAxisRange(axes[a]) /\ IsValid(range) THEN damage \union {"LAYOUT"} ELSE damage
  /\ UNCHANGED <<size, active, grip, clicked>>

Resize(s) ==
  /\ Event /\ s # size
  /\ size' = s /\ damage' = damage \union Redrawn
  /\ UNCHANGED <<axes, active, grip, clicked>>

Activate(on) ==
  /\ Event /\ active # on
  /\ active' = on /\ damage' = damage \union {"ALL"} /\ grip' = <<>>
  /\ UNCHANGED <<axes, size, clicked>>

-----------------------------------------------------------------------------
(* handle()                                                                  *)

(* Bound: a widget that is too small for its axes, whose plot has no size or a negative
   one, gets no events                                                         *)
HasRoom == {layout.pw, layout.ph} \subseteq Nat \ {0}

(* The user acts on what was drawn                                            *)
UserEvent == Event /\ active /\ HasRoom /\ UNCHANGED <<size, active>>

(* zoom_axis about the mouse, or about the origin                              *)
Zoomed(a, pixel, zoom_factor) ==
  LET under == PixelToData(layout, a, pixel)[IF IsAxisHorizontal(a) THEN 1 ELSE 2]
  IN  CASE ZoomCapability = "NO_ZOOM" -> axes[a]
        [] ZoomCapability = "ZOOM_ON_ORIGIN" -> ZoomAxis(axes[a], 0, zoom_factor)
        [] ZoomCapability = "ZOOM_ON_CURSOR" -> ZoomAxis(axes[a], under, zoom_factor)

(* The model does not resolve less than a unit: a wheel that would leave less is left out *)
Resolved == \A a \in Axes : Size(axes'[a].current) # 0

MouseWheel(pixel, dy, ctrl, shift) ==
  LET area == LayoutArea(layout, pixel)
  IN  /\ UserEvent
      /\ CASE area = "plot" /\ shift -> UNCHANGED <<axes, damage>>
           [] area = "plot" /\ ~shift ->
                /\ axes' = [a \in Axes |-> Zoomed(a, pixel, dy)]
                /\ damage' = damage \union Redrawn
           [] area = "none" -> UNCHANGED axes /\ damage' = damage \union {"ALL"}
           [] OTHER ->
                LET a == AxisOfArea[area]
                IN  /\ axes' = [axes EXCEPT ![a] = IF ctrl THEN ScrollAxis(@, (dy * 10) \div PixelSize)
                                                   ELSE Zoomed(a, pixel, dy)]
                    /\ damage' = damage \union Redrawn
      /\ Resolved
      /\ UNCHANGED <<grip, clicked>>

(* FL_PUSH of a single click: the widget takes the drag                        *)
Push(pixel) ==
  /\ UserEvent /\ grip = <<>>
  /\ grip' = pixel
  /\ UNCHANGED <<axes, damage, clicked>>

Release == UserEvent /\ grip # <<>> /\ grip' = <<>> /\ UNCHANGED <<axes, damage, clicked>>

(* set_click_value: a bar is named by its label                                *)
ClickValue(pixel) ==
  LET at == PixelToData(layout, 1, pixel)
  IN  IF kind = "BAR_HORIZ" THEN <<at[2], at[1]>> ELSE at

(* A double click of the left button; the callback may do what the application may *)
Click(pixel) ==
  /\ UserEvent /\ grip = <<>> /\ kind # "POLAR"
  /\ clicked' = ClickValue(pixel)
  /\ damage' = damage \union {"ALL"}
  /\ UNCHANGED <<axes, grip>>

(* A double click of the right button; on "none", axis -1 cannot be set        *)
ResetClick(pixel) ==
  LET area == LayoutArea(layout, pixel)
  IN  /\ UserEvent /\ grip = <<>>
      /\ axes' = CASE area = "plot" -> [a \in Axes |-> ResetZoom(axes[a])]
                   [] area = "none" -> axes
                   [] OTHER -> [axes EXCEPT ![AxisOfArea[area]] = ResetZoom(@)]
      /\ damage' = damage \union Redrawn
      /\ UNCHANGED <<grip, clicked>>

(* FL_DRAG: what is scrolled depends on where the mouse is now                 *)
Drag(pixel, button, shift) ==
  LET area == LayoutArea(layout, pixel)
      dx == grip[1] - pixel[1]
      dy == grip[2] - pixel[2]
      faster == IF shift THEN 10 ELSE 1
      vertical == IF button = "left" THEN 1 ELSE 2
  IN  /\ UserEvent /\ grip # <<>>
      /\ grip' = pixel
      /\ axes' = CASE area = "plot" ->
                        [a \in Axes |-> IF a = 0 THEN ScrollAxis(axes[a], dx)
                                        ELSE IF a = vertical THEN ScrollAxis(axes[a], -dy) ELSE axes[a]]
                   [] area = "none" -> axes
                   [] area = "axis0" -> [axes EXCEPT ![0] = ScrollAxis(@, faster * dx)]
                   [] OTHER -> [axes EXCEPT ![AxisOfArea[area]] = ScrollAxis(@, -dy * faster)]
      /\ damage' = damage \union Redrawn
      /\ UNCHANGED clicked

-----------------------------------------------------------------------------
(* draw()                                                                    *)

(* What an object has at its place depends on its shape, which comes first    *)
Object(shape, plot, layer, axis, at) == <<shape, plot, layer, axis, at>>

(* generate_value_marker, a line or an area across the plot. Its values are floats *)
AcrossPlot(other) == other.current
AcrossBars(other) == LabelRange(other.current)
AcrossCircle(a, other) == IF a = 0 THEN Between(0, 360) ELSE Between(0, other.outer.second)
Inside(ax, a, from, to) == \A v \in {from, to} : InRange(ax[a].current, Single(v))
MarkerAcross(ax, a, layer, from, to) ==
  LET other == ax[OtherAxis(a)]
      across == CASE Barred -> AcrossBars(other) [] kind = "POLAR" -> AcrossCircle(a, other)
                  [] OTHER -> AcrossPlot(other)
  IN  IF ~Inside(ax, a, from, to) THEN {}
      ELSE {Object(IF from = to THEN "LINE_STRIP" ELSE "POLYGON", PlotOf(a), layer, a,
                   <<Single(from), Single(to), across.first, across.second>>)}

(* The circle of a resistance or a reactance in tenths: the centre's coordinates and the
   radius over a denominator, which is 0 for the straight line. It is drawn whatever is in view *)
SmithArc(a, layer, v) ==
  {Object("LINE_STRIP", 1, layer, a, IF a = 0 THEN <<v, 0, SmithRadius, v + SmithRadius>>
                                     ELSE <<v, SmithRadius, SmithRadius, Magnitude(v)>>)}
ValueMarker(ax, a, layer, from, to) ==
  IF kind = "SMITH" THEN SmithArc(a, layer, from) ELSE MarkerAcross(ax, a, layer, from, to)

(* The reflection coefficient of an impedance in tenths: its parts and their denominator *)
Gamma(z) == <<z[1] * z[1] + z[2] * z[2] - SmithRadius * SmithRadius, 2 * SmithRadius * z[2],
              (z[1] + SmithRadius) * (z[1] + SmithRadius) + z[2] * z[2]>>

(* generate_axis_line, generate_axis_ticks, generate_grid_lines               *)
AxisGrid(ax, a) ==
  LET ticks == IF kind = "DENSITY" /\ a = 2 THEN {} ELSE ax[a].ticks
      at(v) == IF IsAxisHorizontal(a) THEN <<v, ax[a].position>> ELSE <<ax[a].position, v>>
      place(v) == IF kind = "SMITH" THEN Gamma(at(v)) ELSE at(v)
  IN  UNION {ValueMarker(ax, OtherAxis(a), "AXES", ax[a].position, ax[a].position),
             {Object("TICK", PlotOf(a), "AXES", a, place(t.value)) :
                t \in {u \in ticks : InRange(ax[a].current, u.value)}},
             UNION {ValueMarker(ax, a, "GRID_LINES", t.value, t.value) : t \in {u \in ticks : u.major}}}

(* convert_point; a point of a polar graph keeps its radius and its angle      *)
ConvertPoint(p) == IF kind = "BAR_HORIZ" THEN <<p[2], p[1]>> ELSE p

(* generate_point_markers: the bounds of a double stand for the edges of the plot *)
Texts(ax, a) ==
  LET edge(v, r) == IF v = LOWER_BOUND THEN r.first ELSE IF v = UPPER_BOUND THEN r.second ELSE v
      x == ax[0].current
      y == ax[PlotOf(a)].current
      placed == {[layer |-> t.layer, at |-> <<edge(t.position[1], x), edge(t.position[2], y)>>] :
                   t \in {u \in config.texts : u.axis = a}}
  IN  {Object("TEXT", PlotOf(a), t.layer, a, ConvertPoint(t.at)) :
         t \in {u \in placed : InRange(x, u.at[1]) /\ InRange(y, u.at[2])}}

(* generate_lozenge_markers: those of axis 0 go to plot 0                      *)
Lozenges(a) ==
  {Object("LOZENGE", a, l.layer, a, ConvertPoint(l.position)) : l \in {m \in config.lozenges : m.axis = a}}

(* generate_data_lines: points on the pixel of the last one are left out; at first
   that is the point (0, 0)                                                   *)
DataLine(laid, a, points) ==
  LET step(line, p) ==
        IF DataToPixel(laid, a, p) = DataToPixel(laid, a, line[Len(line)]) THEN line ELSE Append(line, p)
  IN  Tail(S!FoldLeft(step, <<<<0, 0>>>>, points))
DataLines(laid, a) ==
  IF Barred THEN {}
  ELSE {Object("LINE_STRIP", PlotOf(a), "DATA", a,
               <<i, DataLine(laid, a, buffers[data_sets[a][i].buffer])>>) : i \in 1..Len(data_sets[a])}

(* generate_bar_polygons: the bars of a label share it, gap and overlap in percent.
   A bar goes from at[1] / at[3] to at[2] / at[3]                              *)
Bars(a) ==
  LET sets == data_sets[a]
      step == 100 + (Len(sets) - 1) * (100 - config.overlap) + config.gap
      start(i, p) == p[1] * step + (i - 1) * (100 - config.overlap)
  IN  IF ~Barred THEN {}
      ELSE UNION {{Object("POLYGON", PlotOf(a), "DATA", a, <<start(i, p), start(i, p) + 100, step, p[2]>>) :
                     p \in S!ToSet(buffers[sets[i].buffer])} : i \in 1..Len(sets)}

(* generate_density_plot: the colours of the pixels of the plot area            *)
Colour(ax, grid, point) ==
  LET shares == Contributions(grid, point)
  IN  ColourIndex(F!MapThenSumSet(LAMBDA s : s.part * DataAt(grid, s), shares),
                  (CHOOSE s \in shares : TRUE).whole, ax[2].current, grid.depth)
Bitmap(ax, laid) ==
  IF kind # "DENSITY" THEN {}
  ELSE {Object("BITMAP", 2, "DATA", 2,
          [p \in (laid.x..laid.x + laid.pw - 1) \X (laid.y..laid.y + laid.ph - 1) |->
             Colour(ax, config.grid, PixelToData(laid, 2, p))])}

PictureOf(ax, laid) ==
  UNION ({AxisGrid(ax, a) \union Texts(ax, a) \union Lozenges(a)
          \union UNION {ValueMarker(ax, a, m.layer, m.from, m.to) : m \in {n \in config.marks : n.axis = a}} :
            a \in Axes}
         \union {DataLines(laid, a) \union Bars(a) : a \in 1..NumAxes - 1} \union {Bitmap(ax, laid)})

(* set_ticks for the axes that have them; an axis of bars keeps its labels     *)
WithTicks(axis, a) ==
  IF axis.bar \/ (kind = "DENSITY" /\ a = 2) THEN [ends |-> TRUE, ticks |-> axis.ticks]
  ELSE IF kind = "SMITH" THEN SmithTicks(axis, a) ELSE LinearTicks(axis)

(* FLTK draws a damaged widget and takes its damage away. A widget whose layout is
   valid is always damaged with ALL or LAYOUT, so that draw() lays it out anew   *)
Draw ==
  LET laid == Layout(axes, size)
      placed == LaidAxes(axes, laid)
      ticked == [a \in Axes |-> WithTicks(placed[a], a)]
      drawn == [a \in Axes |-> [placed[a] EXCEPT !.ticks = ticked[a].ticks]]
  IN  /\ status = "running" /\ damage # {}
      /\ damage' = {}
      /\ CASE \E a \in Axes : ~IsValid(axes[a].current) ->
                /\ picture' = IF "ALL" \in damage THEN Blank ELSE picture
                /\ UNCHANGED <<axes, layout, status>>
           [] (\A a \in Axes : IsValid(axes[a].current)) /\ ~active ->
                layout' = laid /\ axes' = placed /\ picture' = Blank /\ UNCHANGED status
           [] (\A a \in Axes : IsValid(axes[a].current)) /\ active ->
                /\ layout' = laid
                /\ IF \E a \in Axes : ~ticked[a].ends
                   THEN status' = "hung" /\ axes' = placed /\ UNCHANGED picture
                   ELSE axes' = drawn /\ picture' = PictureOf(drawn, laid) /\ UNCHANGED status
      /\ UNCHANGED <<kind, data_sets, config, buffers, size, active, grip, clicked, given, configs, events>>

-----------------------------------------------------------------------------
GraphInit ==
  /\ kind \in GraphKinds
  /\ axes = [a \in Axes |-> NewAxis] /\ data_sets = [a \in 1..2 |-> <<>>] /\ config = NoConfig
  /\ buffers = Initially /\ size \in Sizes /\ active = TRUE /\ layout = NoLayout
  /\ damage = {"ALL"} /\ picture = Blank /\ grip = <<>> /\ clicked = <<0, 0>>
  /\ status = "running" /\ given = [a \in Axes |-> {}] /\ configs = 0 /\ events = 0

Application ==
  \/ \E c \in Configs[kind], clear \in BOOLEAN : status = "running" /\ Configure(c, clear)
  \/ \E b \in Buffers, p \in Appended : AppendPoint(b, p)
  \/ \E a \in Axes, r \in Asked : RequestRange(a, r)
  \/ \E on \in BOOLEAN : Activate(on)

User ==
  \/ \E s \in Sizes : Resize(s)
  \/ \E pixel \in Mouse, dy \in {-10, 10}, ctrl, shift \in BOOLEAN : MouseWheel(pixel, dy, ctrl, shift)
  \/ \E pixel \in Mouse : Push(pixel) \/ Click(pixel) \/ ResetClick(pixel)
  \/ \E pixel \in Mouse, button \in {"left", "right"}, shift \in BOOLEAN : Drag(pixel, button, shift)
  \/ Release

GraphNext == Application \/ User \/ Draw
GraphSpec == GraphInit /\ [][GraphNext]_graphVars

-----------------------------------------------------------------------------
(* Properties                                                                *)

RangeType == [first : Int, second : Int]
(* Every variable has its type                                               *)
TypeOK ==
  /\ kind \in Kinds /\ DOMAIN axes = Axes
  /\ \A a \in Axes : /\ {axes[a].outer, axes[a].inner, axes[a].default, axes[a].current} \subseteq RangeType
                     /\ axes[a].position \in Int /\ axes[a].inv \in Int \X Int /\ axes[a].bar \in BOOLEAN
  /\ buffers \in [Buffers -> Seq(Int \X Int)] /\ size \in Sizes /\ active \in BOOLEAN
  /\ damage \subseteq Redrawn /\ status \in {"running", "hung"}
  /\ grip \in Mouse \union {<<>>} /\ clicked \in Int \X Int

(* Nothing is shown beyond the outer range of an axis ("Cannot zoom further than this
   range", zc_graph_.h:462), and nothing of its inner range is hidden ("Cannot zoom closer"),
   whatever is zoomed, scrolled, reset and asked for. What the header does not say: where the
   application gives no default range and the data do not cover the inner one, the
   first view need not have it                                                 *)
ViewWithinLimits ==
  \A a \in Axes : LET x == axes[a]
                  IN  CanSetAxisRange(x) /\ IsValid(x.current) =>
                        /\ ContainsRange(x.outer, x.current)
                        /\ IsValid(x.inner) /\ ContainsRange(x.default, x.inner) =>
                             ContainsRange(x.current, x.inner)

(* What is on the screen, once nothing is damaged, is what drawing the widget as it is
   now would give: no change of a range, a buffer or the configuration is left undrawn *)
PictureIsCurrent ==
  damage = {} /\ status = "running" /\ (\A a \in Axes : IsValid(axes[a].current)) =>
    picture = IF active THEN PictureOf(axes, layout) ELSE Blank

Rectangular == kind \notin {"POLAR", "SMITH", "CART_OVERLAY"}
(* A plot that is drawn, and has pixels                                       *)
PlotIsDrawn ==
  damage = {} /\ Rectangular /\ status = "running" /\ HasRoom /\ \A a \in Axes : IsValid(axes[a].current)

(* What an axis shows; bars reach to the next label                            *)
ShownOf(axis) == IF axis.bar THEN LabelRange(axis.current) ELSE axis.current
Across == IF kind = "BAR_HORIZ" THEN 1 ELSE 0

CornersShowTheRanges ==
  PlotIsDrawn =>
    LET top == PixelToData(layout, 1, <<layout.x, layout.y>>)
        bottom == PixelToData(layout, 1, <<layout.x + layout.pw, layout.y + layout.ph>>)
    IN  /\ Between(top[1], bottom[1]) = ShownOf(axes[Across])
        /\ Between(bottom[2], top[2]) = ShownOf(axes[1 - Across])

ScalesFitThePlot ==
  PlotIsDrawn =>
    \A a \in {0, 1} :
      LET across == IsAxisHorizontal(a)
          map == IF across THEN layout.xs[1] ELSE layout.ys[1]
          extent == IF across THEN layout.w ELSE layout.h
      IN  axes[a].inv[1] * map.den * extent = axes[a].inv[2] * (map.hi - map.lo)

Near(values, p, i) ==
  \A j \in 1..Len(values) : /\ ~(values[i] < values[j] /\ values[j] < p)
                            /\ ~(p <= values[j] /\ values[j] < values[i])
PartOf(shares, x, y) ==
  IF \E s \in shares : s.x = x /\ s.y = y THEN (CHOOSE s \in shares : s.x = x /\ s.y = y).part ELSE 0

SharesAreSound(xs, ys, point, shares) ==
  /\ \A s \in shares : /\ s.x \in 1..Len(xs) /\ s.y \in 1..Len(ys) /\ s.part >= 0 /\ s.whole > 0
                       /\ s.part > 0 => Near(xs, point[1], s.x) /\ Near(ys, point[2], s.y)
  /\ \E x \in 1..Len(xs), y \in 1..Len(ys) : \A s \in shares :
       /\ s.x \in {x, x + 1} /\ s.y \in {y, y + 1}
       /\ PartOf(shares, x, y) + PartOf(shares, x + 1, y)
            + PartOf(shares, x, y + 1) + PartOf(shares, x + 1, y + 1) = s.whole

InterpolationIsSound ==
  damage = {} /\ kind = "DENSITY" /\ layout.w > 0 =>
    \A x \in 0..layout.pw - 1, y \in 0..layout.ph - 1 :
      LET point == PixelToData(layout, 2, <<layout.x + x, layout.y + y>>)
      IN  SharesAreSound(config.grid.xs, config.grid.ys, point, Contributions(config.grid, point))

(* When nothing is damaged the corners of the plot show the ends of the ranges, so that
   the axis lines and the data clipped at the plot's edge are where they seem to be; a
   pixel of a drag moves an axis by what a pixel shows of it, so that the data stay
   under the mouse; and each pixel of a density plot is mixed from data there are, the
   nearest on each side, with shares that add up to one. The first two leave out
   the overlaid graph, whose scale is for a smaller plot, the right axis, whose scale is for
   a larger one, and a plot without pixels                                     *)
PlotShowsTheRanges == CornersShowTheRanges /\ ScalesFitThePlot /\ InterpolationIsSound

(* The wheel, in the plot                                                      *)
ZoomKeepsThePoint ==
  axes' # axes /\ events' # events /\ ZoomCapability = "ZOOM_ON_CURSOR" =>
    \A pixel \in Mouse, dy \in {-10, 10}, ctrl, shift \in BOOLEAN :
      LayoutArea(layout, pixel) = "plot" /\ MouseWheel(pixel, dy, ctrl, shift) =>
        \A a \in Axes :
          LET v == PixelToData(layout, a, pixel)[IF IsAxisHorizontal(a) THEN 1 ELSE 2]
          IN  InRange(axes[a].current, v) => InRange(axes'[a].current, v)

(* An axis with an inner range grows when the drag would hide some of it (an inner range
   that is no range has its ends put in all the same, if the application gives one) *)
DragKeepsSpan ==
  axes' # axes /\ events' # events =>
    \A pixel \in Mouse, button \in {"left", "right"}, shift \in BOOLEAN :
      Drag(pixel, button, shift) =>
        \A a \in Axes : axes[a].inner = EmptyRange /\ Size(axes[a].current) >= MinimumRange =>
          Size(axes'[a].current) = Size(axes[a].current)

ResetShowsData ==
  events' # events => \A pixel \in Mouse :
    LayoutArea(layout, pixel) = "plot" /\ ResetClick(pixel) =>
      \A a \in Axes : \A v \in given[a] :
        InRange(axes[a].outer, v) => InRange(axes'[a].current, v)

(* Turning the wheel keeps the value under the mouse in view, also when several turns
   come before a drawing and when a limit cuts the range; dragging never changes how
   much of an axis is shown, at the limits either; and after a double click of the
   right button all the data given since start_config are in view that lie within
   the outer ranges                                                            *)
ViewFollowsTheMouse == [][ZoomKeepsThePoint /\ DragKeepsSpan /\ ResetShowsData]_graphVars

(* "Mouse wheel scroll on an axis to zoom in/out on that axis" (zc_graph_.h:596): the strip
   beside or below the plot is taken for the axis that is drawn there          *)
AxisIsUnderMouse ==
  damage = {} /\ layout.w > 0 /\ kind \in {"CARTESIAN", "DENSITY", "BAR_VERT", "BAR_HORIZ"} =>
    \A pixel \in Mouse :
      LET horizontal == IF kind = "BAR_HORIZ" THEN "axis1" ELSE "axis0"
      IN  pixel[2] > layout.y + layout.ph /\ pixel[1] >= layout.x => LayoutArea(layout, pixel) = horizontal
=============================================================================
