----------------------------- MODULE GraphProofs -----------------------------
(***************************************************************************)
(* Theorems about Graph: what an axis shows stays within its limits and    *)
(* follows the mouse, for every configuration and every size of the        *)
(* widget. Every change of what is shown goes through set_axis_range (or   *)
(* end_config), so that the invariant of an axis is proved for these two   *)
(* (SetKeepsAxis, ConfiguredAxisIsSound). The rest of the proof is that    *)
(* what they are given are numbers: a drag or a wheel takes them from the  *)
(* layout of the last drawing, whatever has happened since (Sound and      *)
(* ScaleInv). What is drawn, and where, is what the widget has been given  *)
(* (PictureInv). And a theorem about ZoomScrollBar: what the bar shows      *)
(* stays within its bounds, and the slider where that is drawn.            *)
(***************************************************************************)
EXTENDS Graph, ZoomScrollBar, FiniteSetTheorems, SequenceTheorems, WellFoundedInduction, TLAPS

(* The ranges of an axis lie in one another. Where the default range has   *)
(* the inner one, so has what is shown.                                    *)
AxisInv(x) ==
  /\ DOMAIN x = DOMAIN NewAxis
  /\ {x.outer, x.inner, x.default, x.current} \subseteq Extents
  /\ x.position \in Int /\ x.inv \in Int \X Int /\ x.bar \in BOOLEAN
  /\ ContainsRange(x.outer, x.default) /\ ContainsRange(x.outer, x.current)
  /\ IsValid(x.inner) => ContainsRange(x.outer, x.inner)
  /\ IsValid(x.inner) /\ ContainsRange(x.default, x.inner) /\ IsValid(x.current) =>
       ContainsRange(x.current, x.inner)

(* The data given at last are numbers, and within the default range as far *)
(* as they are within the outer one                                        *)
GivenInv(x, values) ==
  values \subseteq Int /\ \A v \in values : InRange(x.outer, v) => InRange(x.default, v)

(* The labels of bars are on axis 0, once there is a configuration         *)
LabelInv(x, a) == x.bar = (Barred /\ a = 0) \/ x.outer = EmptyRange

(* What is drawn is a configuration of the application; until there is one, *)
(* the axes have no ranges                                                 *)
Configured == config \in Configs[kind]

AxesInv ==
  /\ DOMAIN axes = Axes
  /\ Configured \/ \A a \in Axes : axes[a].outer = EmptyRange
  /\ \A a \in Axes : AxisInv(axes[a]) /\ GivenInv(axes[a], given[a]) /\ LabelInv(axes[a], a)

(* The plot of a layout has a size, and then each pixel stands for a       *)
(* number                                                                  *)
Roomy(l) == {l.pw, l.ph} \subseteq Nat \ {0}
Maps == [lo : Int, hi : Int, den : Int]
Layouts == [w : Nat, h : Nat, x : Nat, y : Nat, pw : Int, ph : Int,
            xs : [1..2 -> Maps], ys : [1..2 -> Maps]]
Sound(l) ==
  /\ l \in Layouts
  /\ Roomy(l) => /\ l.w > 0 /\ l.h > 0
                 /\ \A p \in 1..2 : l.xs[p].den > 0 /\ l.ys[p].den > 0

ScaleInv ==
  /\ Roomy(layout) => \A a \in Axes : axes[a].inv[2] > 0
  /\ kind = "DENSITY" => axes[2].inv = <<1, 1>>

GraphInv == kind \in GraphKinds /\ TypeOK /\ AxesInv /\ Sound(layout) /\ ScaleInv

-----------------------------------------------------------------------------
(* Ranges                                                                  *)
LEMMA BoundsAreNumbers == LOWER_BOUND \in Int /\ UPPER_BOUND \in Int /\ LOWER_BOUND < UPPER_BOUND
BY DEF LOWER_BOUND, UPPER_BOUND

LEMMA EmptyIsWithin == EmptyRange \in Extents /\ ~IsValid(EmptyRange) /\
  \A r \in Extents : /\ ContainsRange(r, EmptyRange) /\ Hull(r, EmptyRange) = r /\ Hull(EmptyRange, r) = r
BY BoundsAreNumbers DEF EmptyRange, Between, Extents, IsValid, ContainsRange, Hull, Lesser, Greater

LEMMA HullOfRanges ==
  ASSUME NEW r \in RangeType, NEW s \in RangeType
  PROVE  /\ Hull(r, s) \in RangeType
         /\ r \in Extents /\ s \in Extents => Hull(r, s) \in Extents
         /\ ContainsRange(Hull(r, s), r) /\ ContainsRange(Hull(r, s), s)
         /\ \A t \in RangeType : ContainsRange(t, r) /\ ContainsRange(t, s) => ContainsRange(t, Hull(r, s))
BY BoundsAreNumbers DEF RangeType, Extents, Hull, Between, Lesser, Greater, ContainsRange

LEMMA CommonOfRanges ==
  ASSUME NEW r \in RangeType, NEW s \in Extents
  PROVE  /\ Common(r, s) \in RangeType /\ Common(s, r) \in RangeType
         /\ ContainsRange(s, Common(r, s))
         /\ \A v \in Int : InRange(r, v) /\ InRange(s, v) => InRange(Common(r, s), v)
         /\ \A t \in RangeType : IsValid(t) /\ ContainsRange(r, t) /\ ContainsRange(s, t) =>
              ContainsRange(Common(r, s), t)
BY BoundsAreNumbers DEF RangeType, Extents, Common, Between, Lesser, Greater, ContainsRange, InRange,
   IsValid, EmptyRange

LEMMA CommonWithin ==
  ASSUME NEW r \in RangeType, NEW s \in Extents, IsValid(Common(r, s))
  PROVE  Common(r, s) \in Extents
BY BoundsAreNumbers DEF RangeType, Extents, Common, Between, Lesser, Greater, IsValid, EmptyRange

LEMMA ExtentsAreRanges == Extents \subseteq RangeType
BY BoundsAreNumbers DEF Extents, RangeType

-----------------------------------------------------------------------------
(* set_axis_range: only what is shown changes, and as the limits allow     *)
Others(x, y) ==
  /\ DOMAIN y = DOMAIN x
  /\ y.outer = x.outer /\ y.inner = x.inner /\ y.default = x.default
  /\ y.position = x.position /\ y.inv = x.inv /\ y.bar = x.bar

LEMMA ShownChanges ==
  ASSUME NEW x, AxisInv(x), NEW r, NEW y, y = [x EXCEPT !.current = r]
  PROVE  Others(x, y) /\ y.current = r
BY DEF AxisInv, NewAxis, Others

LEMMA SetKeepsAxis ==
  ASSUME NEW x, AxisInv(x), NEW r \in RangeType, NEW y, y = SetAxisRange(x, r)
  PROVE  /\ AxisInv(y) /\ Others(x, y)
         /\ CanSetAxisRange(x) /\ IsValid(r) =>
              \A v \in Int : InRange(r, v) /\ InRange(x.outer, v) => InRange(y.current, v)
         /\ /\ CanSetAxisRange(x) /\ IsValid(r) /\ ContainsRange(x.outer, r)
            /\ x.inner = EmptyRange /\ Size(r) >= MinimumRange
            => y.current = r
         /\ ~CanSetAxisRange(x) \/ ~IsValid(r) => y = x
<1> DEFINE common == Common(r, x.outer)
           clamped == Hull(common, x.inner)
           wide == IF Size(clamped) < MinimumRange
                   THEN Between(clamped.first, clamped.first + MinimumRange) ELSE clamped
           shown == Common(wide, x.outer)
<1>1. /\ x.outer \in Extents /\ x.inner \in Extents /\ x.outer \in RangeType /\ x.inner \in RangeType
      /\ ContainsRange(x.outer, x.default) /\ (IsValid(x.inner) => ContainsRange(x.outer, x.inner))
  BY ExtentsAreRanges DEF AxisInv
<1>2. CASE ~CanSetAxisRange(x) \/ ~IsValid(r)
  <2>1. y = x
    BY <1>2 DEF SetAxisRange
  <2> QED BY <1>2, <2>1 DEF Others
<1>3. CASE CanSetAxisRange(x) /\ IsValid(r)
  <2>1. y = [x EXCEPT !.current = shown]
    BY <1>3 DEF SetAxisRange
  <2>2. /\ common \in RangeType
        /\ \A v \in Int : InRange(r, v) /\ InRange(x.outer, v) => InRange(common, v)
        /\ IsValid(r) /\ ContainsRange(x.outer, r) => common = r
    <3>1. IsValid(r) /\ ContainsRange(x.outer, r) => common = r
      BY <1>1 DEF Common, Between, Greater, Lesser, ContainsRange, IsValid, RangeType
    <3> QED BY <1>1, <3>1, CommonOfRanges
  <2> HIDE DEF common
  <2>3. /\ clamped \in RangeType /\ ContainsRange(clamped, common) /\ ContainsRange(clamped, x.inner)
    BY <1>1, <2>2, HullOfRanges
  <2>4. x.inner = EmptyRange /\ common = r /\ ContainsRange(x.outer, r) /\ IsValid(r) => clamped = r
    BY <1>1, <2>2, BoundsAreNumbers
    DEF Hull, EmptyRange, Between, Greater, Lesser, ContainsRange, IsValid, RangeType, Extents
  <2> HIDE DEF clamped
  <2>5. /\ wide \in RangeType /\ ContainsRange(wide, clamped)
        /\ Size(clamped) >= MinimumRange => wide = clamped
    BY <2>3, AxesAssumption DEF Between, RangeType, Size, ContainsRange
  <2> HIDE DEF wide
  <2>6. /\ shown \in RangeType /\ ContainsRange(x.outer, shown)
        /\ \A v \in Int : InRange(wide, v) /\ InRange(x.outer, v) => InRange(shown, v)
        /\ \A t \in RangeType : IsValid(t) /\ ContainsRange(wide, t) /\ ContainsRange(x.outer, t) =>
              ContainsRange(shown, t)
    BY <1>1, <2>5, CommonOfRanges
  <2>7. shown \in Extents
    BY <1>1, <2>5, CommonWithin, EmptyIsWithin, BoundsAreNumbers
    DEF Common, RangeType, Extents, Between, IsValid, EmptyRange, Lesser, Greater
  <2>8. IsValid(r) /\ ContainsRange(x.outer, r) /\ wide = r => shown = r
    BY <1>1 DEF Common, Between, Greater, Lesser, ContainsRange, IsValid, RangeType
  <2> HIDE DEF shown
  <2>9. Others(x, y) /\ y.current = shown
    BY <2>1, ShownChanges
  <2>10. IsValid(x.inner) => ContainsRange(shown, x.inner)
    BY <1>1, <2>3, <2>5, <2>6 DEF ContainsRange, RangeType
  <2>11. AxisInv(y)
    BY <2>6, <2>7, <2>9, <2>10 DEF AxisInv, Others
  <2>12. \A v \in Int : InRange(r, v) /\ InRange(x.outer, v) => InRange(y.current, v)
    BY <1>1, <2>2, <2>3, <2>5, <2>6, <2>9 DEF ContainsRange, InRange, RangeType
  <2>13. ContainsRange(x.outer, r) /\ x.inner = EmptyRange /\ Size(r) >= MinimumRange => y.current = r
    BY <1>3, <2>2, <2>4, <2>5, <2>8, <2>9
  <2> QED BY <1>3, <2>9, <2>11, <2>12, <2>13
<1> QED BY <1>2, <1>3

LEMMA ResetKeepsAxis ==
  ASSUME NEW x, AxisInv(x), NEW values, GivenInv(x, values), NEW y, y = ResetZoom(x)
  PROVE  /\ AxisInv(y) /\ Others(x, y)
         /\ \A v \in values : InRange(x.outer, v) => InRange(y.current, v)
<1>1. x.default \in RangeType /\ x.outer \in RangeType /\ y = SetAxisRange(x, x.default)
  BY ExtentsAreRanges DEF AxisInv, ResetZoom
<1>2. \A v \in values : InRange(x.outer, v) =>
        v \in Int /\ InRange(x.default, v) /\ CanSetAxisRange(x) /\ IsValid(x.default)
  BY <1>1 DEF GivenInv, InRange, CanSetAxisRange, IsValid, RangeType
<1> QED BY <1>1, <1>2, SetKeepsAxis

(* A distance becomes twice or half as long                                *)
LEMMA ZoomChangeIsNumber ==
  ASSUME NEW d \in Int, NEW f \in Int
  PROVE  ZoomChange(d, f) \in Int /\ (d >= 0 => ZoomChange(d, f) >= 0)
BY DEF ZoomChange

LEMMA ZoomKeepsAxis ==
  ASSUME NEW x, AxisInv(x), NEW at \in Int, NEW f \in Int, NEW y, y = ZoomAxis(x, at, f)
  PROVE  AxisInv(y) /\ Others(x, y) /\ (InRange(x.current, at) => InRange(y.current, at))
<1> DEFINE zoomed == Between(at - ZoomChange(at - x.current.first, f), at + ZoomChange(x.current.second - at, f))
           within == IF IsValid(x.outer) THEN Common(zoomed, x.outer) ELSE zoomed
           around == IF IsValid(x.inner) THEN Hull(within, x.inner) ELSE within
<1>1. /\ x.outer \in Extents /\ {x.outer, x.inner, x.current} \subseteq RangeType
      /\ ContainsRange(x.outer, x.current)
  BY ExtentsAreRanges DEF AxisInv
<1>2. x.current.first \in Int /\ x.current.second \in Int
  BY <1>1 DEF RangeType
<1>3. /\ zoomed \in RangeType
      /\ InRange(x.current, at) => InRange(zoomed, at)
  <2>1. at - x.current.first \in Int /\ x.current.second - at \in Int
    BY <1>2
  <2>2. /\ ZoomChange(at - x.current.first, f) \in Int /\ ZoomChange(x.current.second - at, f) \in Int
        /\ at - x.current.first >= 0 => ZoomChange(at - x.current.first, f) >= 0
        /\ x.current.second - at >= 0 => ZoomChange(x.current.second - at, f) >= 0
    BY <2>1, ZoomChangeIsNumber
  <2> QED BY <1>2, <2>2 DEF Between, RangeType, InRange
<1> HIDE DEF zoomed
<1>4. /\ within \in RangeType
      /\ InRange(x.current, at) => InRange(within, at)
  <2>1. InRange(x.current, at) => InRange(x.outer, at)
    BY <1>1 DEF InRange, ContainsRange, RangeType
  <2> QED BY <1>1, <1>3, <2>1, CommonOfRanges
<1> HIDE DEF within
<1>5. /\ around \in RangeType
      /\ InRange(x.current, at) => InRange(around, at) /\ InRange(x.outer, at)
  <2>1. ContainsRange(Hull(within, x.inner), within) /\ Hull(within, x.inner) \in RangeType
    BY <1>1, <1>4, HullOfRanges
  <2> QED BY <1>1, <1>4, <2>1 DEF InRange, ContainsRange, RangeType
<1> HIDE DEF around
<1>6. y = SetAxisRange(x, around)
  BY DEF ZoomAxis, around, within, zoomed
<1>7. InRange(around, at) => IsValid(around)
  BY <1>5 DEF InRange, IsValid, RangeType
<1> QED BY <1>5, <1>6, <1>7, SetKeepsAxis

LEMMA ScrollKeepsAxis ==
  ASSUME NEW x, AxisInv(x), x.inv[2] > 0, NEW offset \in Int, NEW y, y = ScrollAxis(x, offset)
  PROVE  /\ AxisInv(y) /\ Others(x, y)
         /\ x.inner = EmptyRange /\ Size(x.current) >= MinimumRange => Size(y.current) = Size(x.current)
<1> DEFINE amount == (offset * x.inv[1]) \div x.inv[2]
           limited == IF amount > 0 THEN Lesser(amount, x.outer.second - x.current.second)
                      ELSE Greater(amount, x.outer.first - x.current.first)
           moved == Shifted(x.current, limited)
           r == Common(x.outer, moved)
<1>1. /\ x.outer \in Extents /\ {x.outer, x.current} \subseteq RangeType
      /\ ContainsRange(x.outer, x.current)
  BY ExtentsAreRanges DEF AxisInv
<1>2. amount \in Int
  <2>1. x.inv[1] \in Int /\ x.inv[2] \in Int
    BY DEF AxisInv
  <2>2. offset * x.inv[1] \in Int
    BY <2>1
  <2> QED BY <2>1, <2>2
<1> HIDE DEF amount
<1>3. /\ moved \in RangeType /\ Size(moved) = Size(x.current)
      /\ IsValid(x.current) => ContainsRange(x.outer, moved)
      /\ IsValid(x.current) => IsValid(moved)
  BY <1>1, <1>2 DEF Shifted, Between, RangeType, ContainsRange, IsValid, Size, Lesser, Greater
<1> HIDE DEF moved
<1>4. /\ r \in RangeType
      /\ IsValid(x.current) => r = moved
  <2>1. IsValid(moved) /\ ContainsRange(x.outer, moved) => r = moved
    BY <1>1, <1>3 DEF Common, Between, Greater, Lesser, ContainsRange, IsValid, RangeType
  <2> QED BY <1>1, <1>3, <2>1, CommonOfRanges
<1> HIDE DEF r
<1>5. Size(x.current) >= MinimumRange => IsValid(x.current)
  BY <1>1, AxesAssumption DEF Size, IsValid, RangeType
<1>6. CASE ~Scrollable
  BY <1>6 DEF ScrollAxis, Others
<1>7. CASE Scrollable
  <2>1. y = SetAxisRange(x, r)
    BY <1>7 DEF ScrollAxis, r, moved, amount
  <2> QED BY <1>3, <1>4, <1>5, <2>1, SetKeepsAxis
<1> QED BY <1>6, <1>7

-----------------------------------------------------------------------------
(* The configuration                                                       *)
LEMMA LeastIsThere ==
  ASSUME NEW V \in SUBSET Nat, V # {}
  PROVE  \E k \in V : \A j \in V : k <= j
<1>1. \E k \in V : \A j \in V : ~(<<j, k>> \in OpToRel(<, Nat))
  BY NatLessThanWellFounded, WFMin
<1>2. PICK k \in V : \A j \in V : ~(<<j, k>> \in OpToRel(<, Nat))
  BY <1>1
<1>3. \A j \in V : k <= j
  <2> TAKE j \in V
  <2>1. OpToRel(<, Nat) = {ss \in Nat \X Nat : ss[1] < ss[2]}
    BY DEF OpToRel
  <2>2. ~(j < k)
    BY <1>2, <2>1
  <2> QED BY <2>2
<1> QED BY <1>3

LEMMA EndsAreThere ==
  ASSUME NEW m \in Int, NEW n \in Int, NEW V \in SUBSET (m..n), V # {}
  PROVE  (\E v \in V : \A w \in V : v <= w) /\ (\E v \in V : \A w \in V : v >= w)
<1>1. \E v \in V : \A w \in V : v <= w
  <2> DEFINE T == {v - m : v \in V}
  <2>1. \A v \in V : v \in Int /\ v - m \in Nat
    OBVIOUS
  <2>2. T \in SUBSET Nat /\ T # {}
    BY <2>1
  <2>3. \E k \in T : \A j \in T : k <= j
    BY <2>2, LeastIsThere
  <2>4. PICK v \in V : \A w \in V : v - m <= w - m
    BY <2>3
  <2> QED BY <2>1, <2>4
<1>2. \E v \in V : \A w \in V : v >= w
  <2> DEFINE T == {n - v : v \in V}
  <2>1. \A v \in V : v \in Int /\ n - v \in Nat
    OBVIOUS
  <2>2. T \in SUBSET Nat /\ T # {}
    BY <2>1
  <2>3. \E k \in T : \A j \in T : k <= j
    BY <2>2, LeastIsThere
  <2>4. PICK v \in V : \A w \in V : n - v <= n - w
    BY <2>3
  <2> QED BY <2>1, <2>4
<1> QED BY <1>1, <1>2

LEMMA EnclosingIsSound ==
  ASSUME NEW outer \in Extents, NEW V \in SUBSET Int, \A v \in V : InRange(outer, v)
  PROVE  /\ Enclosing(V) \in Extents /\ ContainsRange(outer, Enclosing(V))
         /\ \A v \in V : InRange(Enclosing(V), v)
<1>1. CASE V = {}
  <2>1. Enclosing(V) = EmptyRange
    BY <1>1 DEF Enclosing
  <2> QED BY <1>1, <2>1, EmptyIsWithin
<1>2. CASE V # {}
  <2>1. /\ outer.first \in Int /\ outer.second \in Int
        /\ outer.first >= LOWER_BOUND /\ outer.second <= UPPER_BOUND
    BY BoundsAreNumbers DEF Extents
  <2>2. \A v \in V : v \in outer.first..outer.second
    BY <2>1 DEF InRange
  <2>3. (\E v \in V : \A w \in V : v <= w) /\ (\E v \in V : \A w \in V : v >= w)
    BY <1>2, <2>1, <2>2, EndsAreThere
  <2> DEFINE low == CHOOSE v \in V : \A w \in V : v <= w
             high == CHOOSE v \in V : \A w \in V : v >= w
  <2>4. low \in V /\ \A w \in V : low <= w
    BY <2>3, Zenon
  <2>5. high \in V /\ \A w \in V : high >= w
    BY <2>3, Zenon
  <2>6. Enclosing(V) = Between(low, high)
    BY <1>2 DEF Enclosing
  <2> HIDE DEF low, high
  <2> QED BY <2>1, <2>2, <2>4, <2>5, <2>6, BoundsAreNumbers DEF Extents, Between, ContainsRange, InRange
<1> QED BY <1>1, <1>2

(* An axis whose ranges have been set, and no data yet                     *)
MadeInv(x) ==
  /\ DOMAIN x = DOMAIN NewAxis
  /\ {x.outer, x.inner, x.default} \subseteq Extents /\ x.current \in {EmptyRange, x.default}
  /\ x.position \in Int /\ x.inv = <<1, 1>> /\ x.bar \in BOOLEAN
  /\ ContainsRange(x.outer, x.default)
  /\ IsValid(x.inner) => ContainsRange(x.outer, x.inner)

LEMMA MadeIsShown ==
  ASSUME NEW x, MadeInv(x), NEW values \in SUBSET Int, NEW y, y = EndConfig(ShowValues(x, values))
  PROVE  AxisInv(y) /\ GivenInv(y, values) /\ y.inv = <<1, 1>> /\ y.bar = x.bar
<1> DEFINE inside == {v \in values : InRange(x.outer, v)}
           seen == Enclosing(inside)
           default == Hull(x.default, seen)
           current == Hull(Hull(x.current, seen), default)
           z == [x EXCEPT !.current = Hull(@, seen), !.default = Hull(@, seen)]
<1>1. x.outer \in Extents /\ x.default \in Extents /\ x.current \in Extents
  BY EmptyIsWithin DEF MadeInv
<1>3. z = ShowValues(x, values)
  BY DEF ShowValues
<1>2. seen \in Extents /\ ContainsRange(x.outer, seen) /\ \A v \in inside : InRange(seen, v)
  <2>1. inside \in SUBSET Int /\ \A v \in inside : InRange(x.outer, v)
    OBVIOUS
  <2> HIDE DEF inside
  <2> QED BY <1>1, <2>1, EnclosingIsSound
<1>0. \A v \in values : InRange(x.outer, v) => v \in inside
  OBVIOUS
<1> HIDE DEF seen, inside
<1>4. /\ default \in Extents /\ ContainsRange(default, seen)
      /\ ContainsRange(x.outer, default)
  BY <1>1, <1>2, HullOfRanges, ExtentsAreRanges DEF MadeInv
<1>5. current = default
  BY <1>1, <1>2, BoundsAreNumbers
  DEF MadeInv, EmptyRange, Hull, Between, Lesser, Greater, Extents
<1>6. /\ DOMAIN z = DOMAIN x /\ z.current = Hull(x.current, seen) /\ z.default = default
      /\ z.outer = x.outer /\ z.inner = x.inner /\ z.position = x.position /\ z.inv = x.inv /\ z.bar = x.bar
  BY DEF MadeInv, NewAxis
<1> HIDE DEF default
<1>7. y = [z EXCEPT !.current = Hull(@, z.default)]
  BY <1>3 DEF EndConfig
<1> HIDE DEF z
<1>8. /\ DOMAIN y = DOMAIN x /\ y.current = current /\ y.default = default
      /\ y.outer = x.outer /\ y.inner = x.inner /\ y.position = x.position /\ y.inv = x.inv /\ y.bar = x.bar
  BY <1>6, <1>7 DEF MadeInv, NewAxis
<1> HIDE DEF current
<1>9. AxisInv(y)
  BY <1>4, <1>5, <1>8 DEF MadeInv, AxisInv
<1>10. \A v \in values : InRange(x.outer, v) => InRange(default, v)
  <2> SUFFICES ASSUME NEW v \in values, InRange(x.outer, v) PROVE InRange(default, v)
    OBVIOUS
  <2>1. InRange(seen, v) /\ v \in Int
    BY <1>0, <1>2
  <2>2. seen \in RangeType /\ default \in RangeType
    BY <1>2, <1>4, ExtentsAreRanges
  <2> QED BY <1>4, <2>1, <2>2 DEF InRange, ContainsRange, RangeType
<1> QED BY <1>8, <1>9, <1>10 DEF GivenInv, MadeInv

LEMMA ItemsAreNumbers ==
  ASSUME NEW T, NEW s \in Seq(T)
  PROVE  S!ToSet(s) \subseteq T
BY DEF S!ToSet

LEMMA ValuesAreNumbers ==
  ASSUME kind \in GraphKinds, TypeOK, NEW c \in Configs[kind], NEW a \in Axes
  PROVE  ValuesFor(c, a) \in SUBSET Int
<1>0. /\ c.sets \in Seq([axis : 1..2, buffer : Buffers])
      /\ c.grid.xs \in Seq(Int) /\ c.grid.ys \in Seq(Int) /\ c.grid.zs \in Seq(Int)
  BY ConfigAssumption
<1>1. CASE kind = "DENSITY"
  <2>1. a \in {0, 1, 2}
    BY <1>1 DEF Axes, NumAxes
  <2> QED BY <1>0, <1>1, <2>1, ItemsAreNumbers DEF ValuesFor
<1>2. CASE kind # "DENSITY"
  <2> SUFFICES ASSUME NEW v \in ValuesFor(c, a) PROVE v \in Int
    OBVIOUS
  <2> DEFINE all == UNION {{s} \X S!ToSet(buffers[s.buffer]) :
                             s \in {t \in S!ToSet(c.sets) : a \in {0, t.axis}}}
  <2>1. PICK q \in all : v = q[2][IF a = 0 THEN 1 ELSE 2]
    BY <1>2 DEF ValuesFor
  <2>2. PICK s \in S!ToSet(c.sets) : q \in {s} \X S!ToSet(buffers[s.buffer])
    BY <2>1
  <2>3. s.buffer \in Buffers
    <3>1. S!ToSet(c.sets) \subseteq [axis : 1..2, buffer : Buffers]
      BY <1>0, ItemsAreNumbers
    <3> QED BY <2>2, <3>1
  <2>4. S!ToSet(buffers[s.buffer]) \subseteq Int \X Int
    BY <2>3, ItemsAreNumbers DEF TypeOK
  <2>5. q[2] \in Int \X Int
    BY <2>2, <2>4
  <2> QED BY <2>1, <2>5
<1> QED BY <1>1, <1>2

LEMMA ConfiguredAxisIsSound ==
  ASSUME kind \in GraphKinds, TypeOK, NEW c \in Configs[kind], NEW a \in Axes, NEW y, y = ConfiguredAxis(c, a)
  PROVE  AxisInv(y) /\ GivenInv(y, ValuesFor(c, a)) /\ y.inv = <<1, 1>> /\ LabelInv(y, a)
<1> DEFINE made == IF Barred /\ a = 0 THEN SetBarLabels(NewAxis, c.labels)
                   ELSE SetAxisRanges(NewAxis, c.ranges[a])
<1>1. MadeInv(made) /\ made.bar = (Barred /\ a = 0)
  <2>1. CASE Barred /\ a = 0
    <3> DEFINE range == IF c.labels = 0 THEN EmptyRange ELSE Between(0, c.labels - 1)
    <3>1. c.labels \in 0..UPPER_BOUND
      BY ConfigAssumption
    <3>2. range \in Extents /\ ContainsRange(range, range)
      BY <3>1, EmptyIsWithin, BoundsAreNumbers DEF Between, Extents, ContainsRange, LOWER_BOUND
    <3>3. made = [NewAxis EXCEPT !.bar = TRUE, !.inner = EmptyRange, !.outer = range, !.default = range,
                   !.current = range,
                   !.ticks = {[value |-> v, major |-> TRUE] : v \in 0..c.labels - 1}]
      BY <2>1 DEF SetBarLabels
    <3> HIDE DEF range, made
    <3>4. /\ DOMAIN made = DOMAIN NewAxis /\ made.outer = range /\ made.inner = EmptyRange
          /\ made.default = range /\ made.current = range /\ made.bar = TRUE /\ made.position = 0
          /\ made.inv = <<1, 1>>
      BY <3>3 DEF NewAxis
    <3>5. {made.outer, made.inner, made.default} \subseteq Extents
      BY <3>2, <3>4, EmptyIsWithin
    <3>6. ContainsRange(made.outer, made.default) /\ ~IsValid(made.inner)
      BY <3>2, <3>4, EmptyIsWithin
    <3>7. made.current \in {EmptyRange, made.default} /\ made.bar \in BOOLEAN
      BY <3>4
    <3>8. DOMAIN made = DOMAIN NewAxis /\ made.position \in Int /\ made.inv = <<1, 1>>
      BY <3>4
    <3>9. MadeInv(made)
      BY <3>5, <3>6, <3>7, <3>8 DEF MadeInv
    <3> QED BY <2>1, <3>4, <3>9
  <2>2. CASE ~(Barred /\ a = 0)
    <3>1. a \in 0..2
      BY DEF Axes, NumAxes
    <3>2. /\ {c.ranges[a].inner, c.ranges[a].outer, c.ranges[a].default} \subseteq Extents
          /\ RangesAreLegal(c.ranges[a].inner, c.ranges[a].outer, c.ranges[a].default)
      BY <3>1, ConfigAssumption
    <3>3. made = [NewAxis EXCEPT !.inner = c.ranges[a].inner, !.outer = c.ranges[a].outer,
                                 !.default = c.ranges[a].default]
      BY <2>2 DEF SetAxisRanges
    <3> HIDE DEF made
    <3>4. /\ DOMAIN made = DOMAIN NewAxis /\ made.outer = c.ranges[a].outer /\ made.inner = c.ranges[a].inner
          /\ made.default = c.ranges[a].default /\ made.current = EmptyRange /\ made.bar = FALSE
          /\ made.position = 0 /\ made.inv = <<1, 1>>
      BY <3>3 DEF NewAxis
    <3>5. {made.outer, made.inner, made.default} \subseteq Extents
      BY <3>2, <3>4
    <3>6. ContainsRange(made.outer, made.default) /\ (IsValid(made.inner) => ContainsRange(made.outer, made.inner))
      BY <3>2, <3>4 DEF RangesAreLegal
    <3>7. made.current \in {EmptyRange, made.default} /\ made.bar \in BOOLEAN
      BY <3>4
    <3>8. DOMAIN made = DOMAIN NewAxis /\ made.position \in Int /\ made.inv = <<1, 1>>
      BY <3>4
    <3>9. MadeInv(made)
      BY <3>5, <3>6, <3>7, <3>8 DEF MadeInv
    <3> QED BY <2>2, <3>4, <3>9
  <2> QED BY <2>1, <2>2
<1>2. y = EndConfig(ShowValues(made, ValuesFor(c, a)))
  BY DEF ConfiguredAxis
<1> HIDE DEF made
<1>3. AxisInv(y) /\ GivenInv(y, ValuesFor(c, a)) /\ y.inv = <<1, 1>> /\ y.bar = made.bar
  BY <1>1, <1>2, ValuesAreNumbers, MadeIsShown
<1> QED BY <1>1, <1>3 DEF LabelInv

-----------------------------------------------------------------------------
(* The layout                                                              *)
LEMMA WidthIsNumber ==
  ASSUME NEW x, NEW a
  PROVE  AxisWidth(x, a) \in Nat
<1>1. \A V : Widest(V) \in Nat
  <2> TAKE V
  <2> DEFINE T == {n \in 1..Columns : \E length \in {Characters(v) : v \in V} : n <= length}
  <2>0. Columns \in Int
    BY DEF Columns
  <2>1. IsFiniteSet(1..Columns) /\ T \subseteq 1..Columns
    BY <2>0, FS_Interval
  <2> HIDE DEF T
  <2>2. IsFiniteSet(T)
    BY <2>1, FS_Subset
  <2>3. Cardinality(T) \in Nat
    BY <2>2, FS_CardinalityType
  <2> QED BY <2>3 DEF Widest, T
<1>2. TickLength \in Nat /\ TextHeight \in Nat /\ CharWidth \in Nat
  BY LayoutAssumption
<1>3. CASE a \notin Axes
  BY <1>3 DEF AxisWidth
<1>4. CASE a \in Axes
  <2> DEFINE labels == IF x[a].ticks # {} THEN {t.value : t \in x[a].ticks}
                       ELSE {IF Magnitude(x[a].current.first) >= Magnitude(x[a].current.second)
                             THEN x[a].current.first ELSE x[a].current.second}
             w == Widest(labels)
  <2>1. w \in Nat
    BY <1>1
  <2>2. AxisWidth(x, a) = TickLength + (IF IsAxisHorizontal(a) THEN TextHeight ELSE CharWidth * w)
    BY <1>4 DEF AxisWidth
  <2> HIDE DEF w
  <2>3. CharWidth * w \in Nat
    BY <1>2, <2>1
  <2> QED BY <1>2, <2>2, <2>3
<1> QED BY <1>3, <1>4

LEMMA AroundIsMap ==
  ASSUME NEW r \in RangeType, NEW before \in Int, NEW after \in Int, NEW plot \in Int
  PROVE  Around(r, before, after, plot) \in Maps /\ Around(r, before, after, plot).den = plot
<1>1. r.first \in Int /\ r.second \in Int /\ Size(r) \in Int
  BY DEF RangeType, Size
<1>2. /\ r.first * plot \in Int /\ before * Size(r) \in Int
      /\ r.second * plot \in Int /\ after * Size(r) \in Int
  BY <1>1
<1> QED BY <1>2 DEF Around, Linear, Maps

LEMMA NoWidth ==
  ASSUME NEW x
  PROVE  AxisWidth(x, -1) = 0
BY DEF AxisWidth, Axes

LEMMA PlotAreaIsSound ==
  ASSUME NEW x, NEW s \in [w : Nat \ {0}, h : Nat \ {0}], NEW left, NEW right, NEW top, NEW bottom,
         NEW l, l = PlotArea(x, s, left, right, top, bottom)
  PROVE  /\ Sound(l) /\ l.w = s.w /\ l.h = s.h /\ l.w > 0 /\ l.h > 0
         /\ l.x = AxisWidth(x, left) /\ l.y = AxisWidth(x, top)
         /\ l.w - l.x - l.pw = AxisWidth(x, right) /\ l.h - l.y - l.ph = AxisWidth(x, bottom)
<1>1. /\ AxisWidth(x, left) \in Nat /\ AxisWidth(x, right) \in Nat /\ AxisWidth(x, top) \in Nat
      /\ AxisWidth(x, bottom) \in Nat
  BY WidthIsNumber
<1>2. NoMap \in Maps /\ NoMap.den > 0
  BY DEF NoMap, Linear, Maps
<1> DEFINE pw == s.w - AxisWidth(x, left) - AxisWidth(x, right)
           ph == s.h - AxisWidth(x, top) - AxisWidth(x, bottom)
<1>3. pw \in Int /\ ph \in Int
  BY <1>1
<1>4. l = [w |-> s.w, h |-> s.h, x |-> AxisWidth(x, left), y |-> AxisWidth(x, top), pw |-> pw, ph |-> ph,
           xs |-> [p \in 1..2 |-> NoMap], ys |-> [p \in 1..2 |-> NoMap]]
  BY DEF PlotArea, NoLayout
<1>5. s.w - AxisWidth(x, left) - pw = AxisWidth(x, right) /\ s.h - AxisWidth(x, top) - ph = AxisWidth(x, bottom)
  BY <1>1
<1> HIDE DEF pw, ph
<1>6. Sound(l) /\ l.w > 0 /\ l.h > 0
  BY <1>1, <1>2, <1>3, <1>4 DEF Sound, Layouts
<1> QED BY <1>4, <1>5, <1>6

(* The plot shows these two ranges, and the axes are beside it and below it *)
Framed(l, r, s) ==
  /\ l.y = 0
  /\ l.xs[1] = Around(r, l.x, l.w - l.x - l.pw, l.pw)
  /\ l.ys[1] = Around(s, l.h - l.ph, 0, l.ph)

(* A layout function gives the plot its maps                               *)
WithMaps(l, m, n) == [l EXCEPT !.xs[1] = m, !.ys[1] = n]
LEMMA MapsAreSet ==
  ASSUME NEW l, Sound(l), l.w > 0, l.h > 0, NEW m \in Maps, NEW n \in Maps,
         Roomy(l) => m.den > 0 /\ n.den > 0,
         NEW y, y = WithMaps(l, m, n)
  PROVE  /\ Sound(y) /\ y.w = l.w /\ y.h = l.h /\ y.pw = l.pw /\ y.ph = l.ph
         /\ y.x = l.x /\ y.y = l.y /\ y.xs[1] = m /\ y.ys[1] = n
<1> DEFINE xs == [l.xs EXCEPT ![1] = m]
           ys == [l.ys EXCEPT ![1] = n]
<1>1. l \in Layouts
  BY DEF Sound
<1>2. /\ xs \in [1..2 -> Maps] /\ xs[1] = m /\ xs[2] = l.xs[2]
      /\ ys \in [1..2 -> Maps] /\ ys[1] = n /\ ys[2] = l.ys[2]
  BY <1>1 DEF Layouts
<1>3. y = [l EXCEPT !.xs = xs, !.ys = ys]
  BY DEF WithMaps
<1> HIDE DEF xs, ys
<1>4. /\ y \in Layouts /\ y.w = l.w /\ y.h = l.h /\ y.pw = l.pw /\ y.ph = l.ph
      /\ y.x = l.x /\ y.y = l.y /\ y.xs = xs /\ y.ys = ys
  BY <1>1, <1>2, <1>3 DEF Layouts
<1> QED BY <1>2, <1>4 DEF Sound, Roomy

LEMMA CartesianIsSound ==
  ASSUME NEW x, NEW s \in [w : Nat \ {0}, h : Nat \ {0}], x[0].current \in RangeType, x[1].current \in RangeType,
         NEW l, l = LayoutCartesian(x, s)
  PROVE  Sound(l) /\ l.w = s.w /\ l.h = s.h /\ Framed(l, x[0].current, x[1].current)
<1> DEFINE area == PlotArea(x, s, 1, -1, -1, 0)
           m == Around(x[0].current, AxisWidth(x, 1), 0, area.pw)
           n == Around(x[1].current, AxisWidth(x, 0), 0, area.ph)
<1>1. /\ Sound(area) /\ area.w = s.w /\ area.h = s.h /\ area.w > 0 /\ area.h > 0
      /\ area.x = AxisWidth(x, 1) /\ area.y = 0 /\ area.w - area.x - area.pw = 0
      /\ area.h - area.y - area.ph = AxisWidth(x, 0)
  BY PlotAreaIsSound, NoWidth
<1>2. l = WithMaps(area, m, n)
  BY DEF LayoutCartesian, WithMaps
<1> HIDE DEF area
<1>3. area.pw \in Int /\ area.ph \in Int /\ AxisWidth(x, 0) \in Int /\ AxisWidth(x, 1) \in Int
  BY <1>1, WidthIsNumber DEF Sound, Layouts
<1>4. m \in Maps /\ n \in Maps /\ m.den = area.pw /\ n.den = area.ph
  BY <1>3, AroundIsMap
<1>5. Roomy(area) => m.den > 0 /\ n.den > 0
  BY <1>4 DEF Roomy
<1>6. area.h - area.ph = AxisWidth(x, 0)
  BY <1>1, <1>3
<1>7. /\ m = Around(x[0].current, area.x, area.w - area.x - area.pw, area.pw)
      /\ n = Around(x[1].current, area.h - area.ph, 0, area.ph)
  BY <1>1, <1>6
<1> HIDE DEF m, n
<1>8. /\ Sound(l) /\ l.w = area.w /\ l.h = area.h /\ l.pw = area.pw /\ l.ph = area.ph
      /\ l.x = area.x /\ l.y = area.y /\ l.xs[1] = m /\ l.ys[1] = n
  BY <1>1, <1>2, <1>4, <1>5, MapsAreSet
<1> QED BY <1>1, <1>7, <1>8 DEF Framed

LEMMA BarVerticalIsSound ==
  ASSUME NEW x, NEW s \in [w : Nat \ {0}, h : Nat \ {0}], x[0].current \in RangeType, x[1].current \in RangeType,
         NEW l, l = LayoutBarVertical(x, s)
  PROVE  Sound(l) /\ l.w = s.w /\ l.h = s.h /\ Framed(l, LabelRange(x[0].current), x[1].current)
<1> DEFINE plain == LayoutCartesian(x, s)
           m == Around(LabelRange(x[0].current), AxisWidth(x, 1), 0, plain.pw)
           n == plain.ys[1]
<1>1. /\ Sound(plain) /\ plain.w = s.w /\ plain.h = s.h /\ plain.w > 0 /\ plain.h > 0
      /\ Framed(plain, x[0].current, x[1].current)
  BY CartesianIsSound
<1>0. plain.x = AxisWidth(x, 1) /\ plain.w - plain.x - plain.pw = 0
  <2> DEFINE area == PlotArea(x, s, 1, -1, -1, 0)
  <2>1. area.x = AxisWidth(x, 1) /\ area.w - area.x - area.pw = 0
    BY PlotAreaIsSound, NoWidth
  <2>2. plain.x = area.x /\ plain.w = area.w /\ plain.pw = area.pw
    BY PlotAreaIsSound DEF LayoutCartesian, Sound, Layouts
  <2> QED BY <2>1, <2>2
<1>2. l = [plain EXCEPT !.xs[1] = m]
  BY DEF LayoutBarVertical
<1> HIDE DEF plain
<1>3. plain.pw \in Int /\ AxisWidth(x, 1) \in Int /\ LabelRange(x[0].current) \in RangeType
  BY <1>1, WidthIsNumber DEF Sound, Layouts, LabelRange, Between, RangeType
<1>4. m \in Maps /\ m.den = plain.pw
  BY <1>3, AroundIsMap
<1>7. m = Around(LabelRange(x[0].current), plain.x, plain.w - plain.x - plain.pw, plain.pw)
  BY <1>0
<1> HIDE DEF m
<1>5. n \in Maps /\ (Roomy(plain) => m.den > 0 /\ n.den > 0)
  BY <1>1, <1>4 DEF Roomy, Sound, Layouts
<1>6. l = WithMaps(plain, m, n)
  <2>1. plain.ys = [plain.ys EXCEPT ![1] = n]
    BY <1>1 DEF Sound, Layouts, n
  <2>2. [plain EXCEPT !.xs[1] = m, !.ys = plain.ys] = [plain EXCEPT !.xs[1] = m]
    BY <1>1 DEF Sound, Layouts
  <2> QED BY <1>2, <2>1, <2>2 DEF WithMaps
<1>8. n = Around(x[1].current, plain.h - plain.ph, 0, plain.ph) /\ plain.y = 0
  BY <1>1 DEF Framed
<1> HIDE DEF n
<1>9. /\ Sound(l) /\ l.w = plain.w /\ l.h = plain.h /\ l.pw = plain.pw /\ l.ph = plain.ph
      /\ l.x = plain.x /\ l.y = plain.y /\ l.xs[1] = m /\ l.ys[1] = n
  BY <1>1, <1>4, <1>5, <1>6, MapsAreSet
<1> QED BY <1>1, <1>7, <1>8, <1>9 DEF Framed

LEMMA BarHorizontalIsSound ==
  ASSUME NEW x, NEW s \in [w : Nat \ {0}, h : Nat \ {0}], x[0].current \in RangeType, x[1].current \in RangeType,
         NEW l, l = LayoutBarHorizontal(x, s)
  PROVE  Sound(l) /\ l.w = s.w /\ l.h = s.h /\ Framed(l, x[1].current, LabelRange(x[0].current))
<1> DEFINE area == PlotArea(x, s, 0, -1, -1, 1)
           m == Around(x[1].current, AxisWidth(x, 0), 0, area.pw)
           n == Around(LabelRange(x[0].current), AxisWidth(x, 1), 0, area.ph)
<1>1. /\ Sound(area) /\ area.w = s.w /\ area.h = s.h /\ area.w > 0 /\ area.h > 0
      /\ area.x = AxisWidth(x, 0) /\ area.y = 0 /\ area.w - area.x - area.pw = 0
      /\ area.h - area.y - area.ph = AxisWidth(x, 1)
  BY PlotAreaIsSound, NoWidth
<1>2. l = WithMaps(area, m, n)
  BY DEF LayoutBarHorizontal, WithMaps
<1> HIDE DEF area
<1>3. /\ area.pw \in Int /\ area.ph \in Int /\ AxisWidth(x, 0) \in Int /\ AxisWidth(x, 1) \in Int
      /\ LabelRange(x[0].current) \in RangeType
  BY <1>1, WidthIsNumber DEF Sound, Layouts, LabelRange, Between, RangeType
<1>4. m \in Maps /\ n \in Maps /\ m.den = area.pw /\ n.den = area.ph
  BY <1>3, AroundIsMap
<1>5. Roomy(area) => m.den > 0 /\ n.den > 0
  BY <1>4 DEF Roomy
<1>6. area.h - area.ph = AxisWidth(x, 1)
  BY <1>1, <1>3
<1>7. /\ m = Around(x[1].current, area.x, area.w - area.x - area.pw, area.pw)
      /\ n = Around(LabelRange(x[0].current), area.h - area.ph, 0, area.ph)
  BY <1>1, <1>6
<1> HIDE DEF m, n
<1>8. /\ Sound(l) /\ l.w = area.w /\ l.h = area.h /\ l.pw = area.pw /\ l.ph = area.ph
      /\ l.x = area.x /\ l.y = area.y /\ l.xs[1] = m /\ l.ys[1] = n
  BY <1>1, <1>2, <1>4, <1>5, MapsAreSet
<1> QED BY <1>1, <1>7, <1>8 DEF Framed

LEMMA OverlayIsSound ==
  ASSUME NEW x, NEW s \in [w : Nat \ {0}, h : Nat \ {0}], x[0].current \in RangeType, x[1].current \in RangeType,
         NEW l, l = LayoutOverlay(x, s)
  PROVE  Sound(l) /\ l.w = s.w /\ l.h = s.h
<1> DEFINE area == PlotArea(x, s, 1, -1, -1, 0)
           m == Around(x[0].current, 0, 0, 1)
           n == Around(x[1].current, 0, 0, 1)
<1>1. Sound(area) /\ area.w = s.w /\ area.h = s.h /\ area.w > 0 /\ area.h > 0
  BY PlotAreaIsSound
<1>2. l = WithMaps(area, m, n)
  BY DEF LayoutOverlay, WithMaps
<1> HIDE DEF area
<1>3. m \in Maps /\ n \in Maps /\ m.den = 1 /\ n.den = 1
  BY AroundIsMap
<1> HIDE DEF m, n
<1> QED BY <1>1, <1>2, <1>3, MapsAreSet

LEMMA CircleIsSound ==
  ASSUME NEW x, NEW s \in [w : Nat \ {0}, h : Nat \ {0}], NEW radius \in Int,
         NEW l, l = LayoutCircle(x, s, radius)
  PROVE  Sound(l) /\ l.w = s.w /\ l.h = s.h
<1> DEFINE area == PlotArea(x, s, 0, 0, 0, 0)
           across == Lesser(area.pw, area.ph)
           m == Linear(-radius * area.w, radius * area.w, across)
           n == Linear(-radius * area.h, radius * area.h, across)
<1>1. Sound(area) /\ area.w = s.w /\ area.h = s.h /\ area.w > 0 /\ area.h > 0
  BY PlotAreaIsSound
<1>2. l = WithMaps(area, m, n)
  BY DEF LayoutCircle, WithMaps
<1> HIDE DEF area
<1>3. across \in Int /\ (Roomy(area) => across > 0)
  BY <1>1 DEF Sound, Layouts, Roomy, Lesser
<1> HIDE DEF across
<1>4. /\ -radius * area.w \in Int /\ radius * area.w \in Int
      /\ -radius * area.h \in Int /\ radius * area.h \in Int
  BY <1>1
<1>5. m \in Maps /\ n \in Maps /\ m.den = across /\ n.den = across
  BY <1>3, <1>4 DEF Linear, Maps
<1> HIDE DEF m, n
<1> QED BY <1>1, <1>2, <1>3, <1>5, MapsAreSet

LEMMA TwoAxesAreSound ==
  ASSUME NEW x, NEW s \in [w : Nat \ {0}, h : Nat \ {0}],
         \A a \in 0..2 : x[a].current \in RangeType,
         NEW l, l = Layout2Y(x, s)
  PROVE  Sound(l) /\ l.w = s.w /\ l.h = s.h /\ Framed(l, x[0].current, x[1].current)
<1> DEFINE area == PlotArea(x, s, 1, 2, -1, 0)
           m == Around(x[0].current, AxisWidth(x, 1), AxisWidth(x, 2), area.pw)
           n == Around(x[1].current, AxisWidth(x, 0), 0, area.ph)
           o == Around(x[2].current, AxisWidth(x, 0), 0, area.h)
           xs == [p \in 1..2 |-> m]
           ys == [area.ys EXCEPT ![1] = n, ![2] = o]
<1>1. /\ Sound(area) /\ area.w = s.w /\ area.h = s.h /\ area.w > 0 /\ area.h > 0 /\ area \in Layouts
      /\ area.x = AxisWidth(x, 1) /\ area.y = 0 /\ area.w - area.x - area.pw = AxisWidth(x, 2)
      /\ area.h - area.y - area.ph = AxisWidth(x, 0)
  BY PlotAreaIsSound, NoWidth DEF Sound
<1>2. l = [area EXCEPT !.xs = xs, !.ys = ys]
  BY DEF Layout2Y
<1> HIDE DEF area
<1>3. /\ area.pw \in Int /\ area.ph \in Int /\ area.h \in Int
      /\ AxisWidth(x, 0) \in Int /\ AxisWidth(x, 1) \in Int /\ AxisWidth(x, 2) \in Int
  BY <1>1, WidthIsNumber DEF Layouts
<1>4. /\ m \in Maps /\ n \in Maps /\ o \in Maps
      /\ m.den = area.pw /\ n.den = area.ph /\ o.den = area.h
  BY <1>3, AroundIsMap
<1>7. area.h - area.ph = AxisWidth(x, 0)
  BY <1>1, <1>3
<1>8. /\ m = Around(x[0].current, area.x, area.w - area.x - area.pw, area.pw)
      /\ n = Around(x[1].current, area.h - area.ph, 0, area.ph)
  BY <1>1, <1>7
<1> HIDE DEF m, n, o
<1>5. /\ xs \in [1..2 -> Maps] /\ xs[1] = m /\ xs[2] = m
      /\ ys \in [1..2 -> Maps] /\ ys[1] = n /\ ys[2] = o
  BY <1>1, <1>4 DEF Layouts
<1> HIDE DEF xs, ys
<1>6. /\ l \in Layouts /\ l.w = area.w /\ l.h = area.h /\ l.pw = area.pw /\ l.ph = area.ph
      /\ l.xs = xs /\ l.ys = ys /\ l.x = area.x /\ l.y = area.y
  BY <1>1, <1>2, <1>5 DEF Layouts
<1>9. Framed(l, x[0].current, x[1].current)
  BY <1>1, <1>5, <1>6, <1>8 DEF Framed
<1> QED BY <1>1, <1>4, <1>5, <1>6, <1>9 DEF Sound, Roomy

LEMMA DensityIsSound ==
  ASSUME NEW x, NEW s \in [w : Nat \ {0}, h : Nat \ {0}], x[0].current \in RangeType, x[1].current \in RangeType,
         NEW l, l = LayoutDensity(x, s)
  PROVE  Sound(l) /\ l.w = s.w /\ l.h = s.h /\ Framed(l, x[0].current, x[1].current)
<1> DEFINE plain == LayoutCartesian(x, s)
           xs == [plain.xs EXCEPT ![2] = plain.xs[1]]
           ys == [plain.ys EXCEPT ![2] = plain.ys[1]]
<1>1. /\ Sound(plain) /\ plain.w = s.w /\ plain.h = s.h /\ plain \in Layouts
      /\ Framed(plain, x[0].current, x[1].current)
  BY CartesianIsSound DEF Sound
<1>2. l = [plain EXCEPT !.xs = xs, !.ys = ys]
  BY DEF LayoutDensity
<1> HIDE DEF plain
<1>3. /\ xs \in [1..2 -> Maps] /\ xs[1] = plain.xs[1] /\ xs[2] = plain.xs[1]
      /\ ys \in [1..2 -> Maps] /\ ys[1] = plain.ys[1] /\ ys[2] = plain.ys[1]
  BY <1>1 DEF Layouts
<1> HIDE DEF xs, ys
<1>4. /\ l \in Layouts /\ l.w = plain.w /\ l.h = plain.h /\ l.pw = plain.pw /\ l.ph = plain.ph
      /\ l.xs = xs /\ l.ys = ys /\ l.x = plain.x /\ l.y = plain.y
  BY <1>1, <1>2, <1>3 DEF Layouts
<1>5. Framed(l, x[0].current, x[1].current)
  BY <1>1, <1>3, <1>4 DEF Framed
<1> QED BY <1>1, <1>3, <1>4, <1>5 DEF Sound, Roomy

(* What a plot shows of an axis                                            *)
Painted(x, a) == IF Barred /\ a = 0 THEN LabelRange(x.current) ELSE x.current

LEMMA LayoutIsSound ==
  ASSUME TypeOK, AxesInv, NEW l, l = Layout(axes, size)
  PROVE  /\ Sound(l) /\ l.w = size.w /\ l.h = size.h
         /\ Rectangular => Framed(l, Painted(axes[Across], Across), Painted(axes[1 - Across], 1 - Across))
<1>1. size \in [w : Nat \ {0}, h : Nat \ {0}]
  BY GraphAssumption DEF TypeOK
<1>2. {0, 1} \subseteq Axes
  BY DEF Axes, NumAxes
<1>3. axes[0].current \in RangeType /\ axes[1].current \in RangeType
  BY <1>2, ExtentsAreRanges DEF AxesInv, AxisInv
<1>4. axes[0].current.second \in Int /\ SmithRadius \in Int
  BY <1>3 DEF RangeType, SmithRadius
<1>5. CASE kind = "CARTESIAN_2Y"
  <2>1. \A a \in 0..2 : axes[a].current \in RangeType
    BY <1>5, ExtentsAreRanges DEF AxesInv, AxisInv, Axes, NumAxes
  <2> QED BY <1>1, <1>5, <2>1, TwoAxesAreSound DEF Layout, Rectangular, Painted, Across, Barred
<1>6. CASE kind = "CARTESIAN"
  BY <1>1, <1>3, <1>6, CartesianIsSound DEF Layout, Rectangular, Painted, Across, Barred
<1>7. CASE kind = "BAR_VERT"
  BY <1>1, <1>3, <1>7, BarVerticalIsSound DEF Layout, Rectangular, Painted, Across, Barred
<1>8. CASE kind = "BAR_HORIZ"
  BY <1>1, <1>3, <1>8, BarHorizontalIsSound DEF Layout, Rectangular, Painted, Across, Barred
<1>9. CASE kind = "CART_OVERLAY"
  BY <1>1, <1>3, <1>9, OverlayIsSound DEF Layout, Rectangular, Painted, Across, Barred
<1>10. CASE kind = "POLAR"
  BY <1>1, <1>4, <1>10, CircleIsSound DEF Layout, LayoutPolar, Rectangular
<1>11. CASE kind = "SMITH"
  BY <1>1, <1>4, <1>11, CircleIsSound DEF Layout, LayoutSmith, Rectangular
<1>12. CASE kind = "DENSITY"
  BY <1>1, <1>3, <1>12, DensityIsSound DEF Layout, Rectangular, Painted, Across, Barred
<1>13. kind \in Kinds
  BY DEF TypeOK
<1> QED BY <1>5, <1>6, <1>7, <1>8, <1>9, <1>10, <1>11, <1>12, <1>13 DEF Kinds

(* The other layouts of a plot use the axes as they are                    *)
LEMMA ScaleIsNumber ==
  ASSUME TypeOK, AxesInv, NEW l, Sound(l), l.h > 0, NEW a \in Axes, NEW inv, inv = Scale(axes, l, a)
  PROVE  /\ inv \in Int \X Int
         /\ Roomy(l) /\ (kind = "DENSITY" /\ a = 2 => axes[a].inv[2] > 0) => inv[2] > 0
         /\ kind = "DENSITY" /\ a = 2 => inv = axes[a].inv
<1>1. /\ l.pw \in Int /\ l.ph \in Int /\ l.h \in Nat
      /\ Roomy(l) => l.pw > 0 /\ l.ph > 0
  BY DEF Sound, Layouts, Roomy
<1>2. 0 \in Axes /\ axes[a].current \in RangeType /\ axes[0].current \in RangeType /\ axes[a].inv \in Int \X Int
  BY ExtentsAreRanges DEF AxesInv, AxisInv, Axes, NumAxes
<1> DEFINE span == Size(axes[a].current) + (IF axes[a].bar THEN 1 ELSE 0)
           across == Lesser(l.pw, l.ph)
<1>3. span \in Int /\ across \in Int /\ (Roomy(l) => across > 0)
  BY <1>1, <1>2 DEF Size, RangeType, Lesser
<1>4. axes[0].current.second \in Int /\ SmithRadius \in Int
  BY <1>2 DEF RangeType, SmithRadius
<1> HIDE DEF span, across
<1>5. CASE kind \in {"POLAR", "SMITH"}
  <2>1. inv = IF a = 1 THEN <<2 * 57, across>>
              ELSE <<2 * (IF kind = "SMITH" THEN SmithRadius ELSE axes[0].current.second), across>>
    BY <1>5 DEF Scale, across
  <2> QED BY <1>3, <1>4, <1>5, <2>1
<1>6. CASE kind = "DENSITY" /\ a = 2
  <2>1. inv = axes[a].inv
    BY <1>6 DEF Scale
  <2> QED BY <1>2, <1>6, <2>1
<1>7. CASE kind \notin {"POLAR", "SMITH"} /\ ~(kind = "DENSITY" /\ a = 2)
  <2>1. inv = IF kind = "CARTESIAN_2Y" /\ a = 2 THEN <<span, l.h>>
              ELSE <<span, IF IsAxisHorizontal(a) THEN l.pw ELSE l.ph>>
    BY <1>7 DEF Scale, span
  <2> QED BY <1>1, <1>3, <1>7, <2>1
<1> QED BY <1>5, <1>6, <1>7

LEMMA PositionIsNumber ==
  ASSUME AxesInv, NEW a \in Axes
  PROVE  Position(axes, a) \in Int
<1>1. OtherAxis(a) \in Axes
  BY DEF OtherAxis, Axes, NumAxes
<1>2. axes[OtherAxis(a)].current.first \in Int /\ axes[OtherAxis(a)].current.second \in Int
  BY <1>1, ExtentsAreRanges DEF AxesInv, AxisInv, RangeType
<1> QED BY <1>2 DEF Position

-----------------------------------------------------------------------------
(* Events: a pixel of the layout is a pair of values                       *)
LEMMA ProductIsPositive ==
  ASSUME NEW m \in Int, NEW n \in Int, m > 0, n > 0
  PROVE  m * n \in Int /\ m * n > 0
OBVIOUS

LEMMA ValueIsNumber ==
  ASSUME NEW m \in Maps, m.den > 0, NEW pixel \in Int, NEW extent \in Int, extent > 0
  PROVE  ValueAt(m, pixel, extent) \in Int
<1>1. m.lo \in Int /\ m.hi \in Int /\ m.den \in Int
  BY DEF Maps
<1>2. m.den * extent \in Int /\ m.den * extent > 0
  BY <1>1, ProductIsPositive
<1>3. m.lo * extent \in Int /\ pixel * (m.hi - m.lo) \in Int
  BY <1>1
<1> DEFINE num == m.lo * extent + pixel * (m.hi - m.lo)
           den == m.den * extent
<1>4. num \in Int /\ den \in Int /\ den > 0
  BY <1>2, <1>3
<1>5. ValueAt(m, pixel, extent) = num \div den
  BY DEF ValueAt
<1> HIDE DEF num, den
<1> QED BY <1>4, <1>5

LEMMA PixelIsNumber ==
  ASSUME Sound(layout), Roomy(layout), NEW a \in Axes, NEW pixel \in Int \X Int
  PROVE  /\ PixelToData(layout, a, pixel) \in Int \X Int
         /\ \A n \in {1, 2} : PixelToData(layout, a, pixel)[n] \in Int
<1>1. PlotOf(a) \in 1..2
  BY DEF PlotOf, Axes, NumAxes
<1>2. pixel[1] \in Int /\ pixel[2] \in Int
  BY GraphAssumption
<1>3. /\ layout.w \in Int /\ layout.h \in Int /\ layout.w > 0 /\ layout.h > 0
      /\ layout.xs[PlotOf(a)] \in Maps /\ layout.ys[PlotOf(a)] \in Maps
      /\ layout.xs[PlotOf(a)].den > 0 /\ layout.ys[PlotOf(a)].den > 0
  BY <1>1 DEF Sound, Layouts
<1>4. layout.h - pixel[2] \in Int
  BY <1>2, <1>3
<1>5. /\ ValueAt(layout.xs[PlotOf(a)], pixel[1], layout.w) \in Int
      /\ ValueAt(layout.ys[PlotOf(a)], layout.h - pixel[2], layout.h) \in Int
  BY <1>2, <1>3, <1>4, ValueIsNumber
<1> QED BY <1>5 DEF PixelToData

LEMMA ZoomedIsSound ==
  ASSUME GraphInv, Roomy(layout), NEW a \in Axes, NEW pixel \in Mouse, NEW f \in Int,
         NEW y, y = Zoomed(a, pixel, f)
  PROVE  /\ AxisInv(y) /\ Others(axes[a], y)
         /\ ZoomCapability = "ZOOM_ON_CURSOR" =>
              LET v == PixelToData(layout, a, pixel)[IF IsAxisHorizontal(a) THEN 1 ELSE 2]
              IN  InRange(axes[a].current, v) => InRange(y.current, v)
<1> DEFINE under == PixelToData(layout, a, pixel)[IF IsAxisHorizontal(a) THEN 1 ELSE 2]
<1>1. under \in Int
  <2>1. pixel \in Int \X Int
    BY GraphAssumption
  <2> QED BY <2>1, PixelIsNumber DEF GraphInv
<1>2. AxisInv(axes[a])
  BY DEF GraphInv, AxesInv
<1>3. ZoomCapability = "NO_ZOOM" => y = axes[a]
  BY DEF Zoomed
<1>4. ZoomCapability = "ZOOM_ON_ORIGIN" => y = ZoomAxis(axes[a], 0, f)
  BY DEF Zoomed
<1>5. ZoomCapability = "ZOOM_ON_CURSOR" => y = ZoomAxis(axes[a], under, f)
  BY DEF Zoomed
<1> HIDE DEF under
<1>6. CASE ZoomCapability = "NO_ZOOM"
  BY <1>2, <1>3, <1>6 DEF Others
<1>7. CASE ZoomCapability = "ZOOM_ON_ORIGIN"
  BY <1>2, <1>4, <1>7, ZoomKeepsAxis
<1>8. CASE ZoomCapability = "ZOOM_ON_CURSOR"
  <2>1. AxisInv(y) /\ Others(axes[a], y) /\ (InRange(axes[a].current, under) => InRange(y.current, under))
    BY <1>1, <1>2, <1>5, <1>8, ZoomKeepsAxis
  <2> QED BY <2>1 DEF under
<1>9. ZoomCapability \in {"NO_ZOOM", "ZOOM_ON_ORIGIN", "ZOOM_ON_CURSOR"}
  BY DEF ZoomCapability
<1> QED BY <1>6, <1>7, <1>8, <1>9

(* What any event may make of the axes                                     *)
Moving ==
  /\ DOMAIN axes' = Axes
  /\ \A a \in Axes : AxisInv(axes'[a]) /\ Others(axes[a], axes'[a])

LEMMA StillIsMoving == ASSUME GraphInv, UNCHANGED axes PROVE Moving
BY DEF GraphInv, AxesInv, Moving, Others

LEMMA OneMoves ==
  ASSUME GraphInv, NEW b, NEW y, axes' = [axes EXCEPT ![b] = y],
         b \in Axes => AxisInv(y) /\ Others(axes[b], y)
  PROVE  Moving
BY DEF GraphInv, AxesInv, Moving, Others

LEMMA EventKeepsInv ==
  ASSUME GraphInv, Event, Moving
  PROVE  AxesInv' /\ Sound(layout)' /\ ScaleInv' /\ (kind \in GraphKinds)'
<1>1. UNCHANGED <<kind, layout, given>> /\ Axes' = Axes /\ Configured' = Configured
  BY DEF Event, Axes, NumAxes, Configured
<1>2. AxesInv'
  <2>1. \A a \in Axes : GivenInv(axes'[a], given[a])
    BY DEF GraphInv, AxesInv, GivenInv, Moving, Others
  <2>2. \A a \in Axes : LabelInv(axes'[a], a)
    BY DEF GraphInv, AxesInv, LabelInv, Moving, Others
  <2>3. Barred' = Barred
    BY <1>1 DEF Barred
  <2>4. Configured \/ \A a \in Axes : axes'[a].outer = EmptyRange
    BY DEF GraphInv, AxesInv, Moving, Others
  <2> QED BY <1>1, <2>1, <2>2, <2>3, <2>4 DEF AxesInv, Moving, LabelInv
<1>3. ScaleInv'
  <2>1. \A a \in Axes : axes'[a].inv = axes[a].inv
    BY DEF Moving, Others
  <2>2. kind = "DENSITY" => 2 \in Axes
    BY DEF Axes, NumAxes
  <2> QED BY <1>1, <2>1, <2>2 DEF GraphInv, ScaleInv
<1> QED BY <1>1, <1>2, <1>3 DEF GraphInv

LEMMA RequestMoves ==
  ASSUME GraphInv, NEW b \in Axes, NEW r \in Asked, RequestRange(b, r)
  PROVE  Moving
<1> DEFINE y == SetAxisRange(axes[b], r)
<1>1. AxisInv(axes[b]) /\ r \in RangeType
  BY GraphAssumption DEF GraphInv, AxesInv, RangeType
<1>2. AxisInv(y) /\ Others(axes[b], y)
  BY <1>1, SetKeepsAxis
<1>3. axes' = [axes EXCEPT ![b] = y]
  BY DEF RequestRange
<1> HIDE DEF y
<1> QED BY <1>2, <1>3, OneMoves

LEMMA ResetMoves ==
  ASSUME GraphInv, NEW pixel \in Mouse, ResetClick(pixel)
  PROVE  /\ Moving
         /\ LayoutArea(layout, pixel) = "plot" =>
              \A a \in Axes : \A v \in given[a] : InRange(axes[a].outer, v) => InRange(axes'[a].current, v)
<1> DEFINE area == LayoutArea(layout, pixel)
<1>1. \A a \in Axes : /\ AxisInv(ResetZoom(axes[a])) /\ Others(axes[a], ResetZoom(axes[a]))
                      /\ \A v \in given[a] : InRange(axes[a].outer, v) => InRange(ResetZoom(axes[a]).current, v)
  BY ResetKeepsAxis DEF GraphInv, AxesInv
<1>2. CASE area = "plot"
  <2>1. axes' = [a \in Axes |-> ResetZoom(axes[a])]
    BY <1>2 DEF ResetClick
  <2> QED BY <1>1, <2>1 DEF Moving
<1>3. CASE area = "none"
  <2>1. axes' = axes
    BY <1>3 DEF ResetClick
  <2> QED BY <1>3, <2>1, StillIsMoving
<1>4. CASE area \notin {"plot", "none"}
  <2> DEFINE b == AxisOfArea[area]
             y == ResetZoom(axes[b])
  <2>1. axes' = [axes EXCEPT ![b] = y]
    BY <1>4 DEF ResetClick
  <2>2. b \in Axes => AxisInv(y) /\ Others(axes[b], y)
    BY <1>1
  <2> HIDE DEF b, y
  <2> QED BY <1>4, <2>1, <2>2, OneMoves
<1> QED BY <1>2, <1>3, <1>4

(* A scrolled axis, and what is shown of it afterwards                     *)
Kept(x, y) ==
  x.inner = EmptyRange /\ Size(x.current) >= MinimumRange => Size(y.current) = Size(x.current)

LEMMA ScrolledIsSound ==
  ASSUME GraphInv, Roomy(layout), NEW a \in Axes, NEW offset \in Int
  PROVE  /\ AxisInv(ScrollAxis(axes[a], offset)) /\ Others(axes[a], ScrollAxis(axes[a], offset))
         /\ Kept(axes[a], ScrollAxis(axes[a], offset))
BY ScrollKeepsAxis DEF GraphInv, AxesInv, ScaleInv, Kept

LEMMA OneScrolls ==
  ASSUME GraphInv, Roomy(layout), NEW b, NEW offset \in Int,
         axes' = [axes EXCEPT ![b] = ScrollAxis(axes[b], offset)]
  PROVE  Moving /\ \A a \in Axes : Kept(axes[a], axes'[a])
<1> DEFINE y == ScrollAxis(axes[b], offset)
<1>1. b \in Axes => AxisInv(y) /\ Others(axes[b], y) /\ Kept(axes[b], y)
  BY ScrolledIsSound
<1>2. axes' = [axes EXCEPT ![b] = y]
  OBVIOUS
<1> HIDE DEF y
<1>3. Moving
  BY <1>1, <1>2, OneMoves
<1>4. \A a \in Axes : axes'[a] = IF a = b THEN y ELSE axes[a]
  BY <1>2 DEF GraphInv, AxesInv
<1>5. \A a \in Axes : Kept(axes[a], axes[a])
  BY DEF Kept
<1> QED BY <1>1, <1>3, <1>4, <1>5

LEMMA DragMoves ==
  ASSUME GraphInv, NEW pixel \in Mouse, NEW button \in {"left", "right"}, NEW shift \in BOOLEAN,
         Drag(pixel, button, shift)
  PROVE  Moving /\ \A a \in Axes : Kept(axes[a], axes'[a])
<1> DEFINE area == LayoutArea(layout, pixel)
           dx == grip[1] - pixel[1]
           dy == grip[2] - pixel[2]
           faster == IF shift THEN 10 ELSE 1
           vertical == IF button = "left" THEN 1 ELSE 2
<1>1. Roomy(layout) /\ grip # <<>>
  BY DEF Drag, UserEvent, HasRoom, Roomy
<1>2. dx \in Int /\ dy \in Int /\ -dy \in Int /\ faster * dx \in Int /\ -dy * faster \in Int
  <2>1. grip \in Mouse
    BY <1>1 DEF GraphInv, TypeOK
  <2> QED BY <2>1, GraphAssumption
<1>3. \A a \in Axes : AxisInv(axes[a]) /\ Others(axes[a], axes[a]) /\ Kept(axes[a], axes[a])
  BY DEF GraphInv, AxesInv, Others, Kept
<1>4. CASE area = "plot"
  <2>1. axes' = [a \in Axes |-> IF a = 0 THEN ScrollAxis(axes[a], dx)
                                ELSE IF a = vertical THEN ScrollAxis(axes[a], -dy) ELSE axes[a]]
    BY <1>4 DEF Drag
  <2> HIDE DEF dx, dy, vertical
  <2>2. \A a \in Axes : AxisInv(axes'[a]) /\ Others(axes[a], axes'[a]) /\ Kept(axes[a], axes'[a])
    BY <1>1, <1>2, <1>3, <2>1, ScrolledIsSound
  <2> QED BY <2>1, <2>2 DEF Moving
<1>5. CASE area = "none"
  <2>1. axes' = axes
    BY <1>5 DEF Drag
  <2> QED BY <1>3, <2>1, StillIsMoving
<1>6. CASE area = "axis0"
  <2>1. axes' = [axes EXCEPT ![0] = ScrollAxis(axes[0], faster * dx)]
    BY <1>6 DEF Drag
  <2> HIDE DEF dx, faster
  <2> QED BY <1>1, <1>2, <2>1, OneScrolls
<1>7. CASE area \notin {"plot", "none", "axis0"}
  <2> DEFINE b == AxisOfArea[area]
  <2>1. axes' = [axes EXCEPT ![b] = ScrollAxis(axes[b], -dy * faster)]
    BY <1>7 DEF Drag
  <2> HIDE DEF dy, faster, b
  <2> QED BY <1>1, <1>2, <2>1, OneScrolls
<1> QED BY <1>4, <1>5, <1>6, <1>7

LEMMA WheelMoves ==
  ASSUME GraphInv, NEW pixel \in Mouse, NEW dy \in {-10, 10}, NEW ctrl \in BOOLEAN, NEW shift \in BOOLEAN,
         MouseWheel(pixel, dy, ctrl, shift)
  PROVE  /\ Moving
         /\ LayoutArea(layout, pixel) = "plot" /\ ZoomCapability = "ZOOM_ON_CURSOR" =>
              \A a \in Axes :
                LET v == PixelToData(layout, a, pixel)[IF IsAxisHorizontal(a) THEN 1 ELSE 2]
                IN  InRange(axes[a].current, v) => InRange(axes'[a].current, v)
<1> DEFINE area == LayoutArea(layout, pixel)
           at(a) == PixelToData(layout, a, pixel)[IF IsAxisHorizontal(a) THEN 1 ELSE 2]
<1>1. Roomy(layout)
  BY DEF MouseWheel, UserEvent, HasRoom, Roomy
<1>2. dy \in Int /\ (dy * 10) \div PixelSize \in Int
  BY GraphAssumption
<1>3. \A a \in Axes : /\ AxisInv(Zoomed(a, pixel, dy)) /\ Others(axes[a], Zoomed(a, pixel, dy))
                      /\ ZoomCapability = "ZOOM_ON_CURSOR" =>
                           (InRange(axes[a].current, at(a)) => InRange(Zoomed(a, pixel, dy).current, at(a)))
  BY <1>1, <1>2, ZoomedIsSound
<1> HIDE DEF at
<1>4. CASE area = "plot" /\ shift
  <2>1. axes' = axes
    BY <1>4 DEF MouseWheel
  <2> QED BY <2>1, StillIsMoving
<1>5. CASE area = "plot" /\ ~shift
  <2>1. axes' = [a \in Axes |-> Zoomed(a, pixel, dy)]
    BY <1>5 DEF MouseWheel
  <2>2. Moving
    BY <1>3, <2>1 DEF Moving
  <2>3. ZoomCapability = "ZOOM_ON_CURSOR" =>
          \A a \in Axes : InRange(axes[a].current, at(a)) => InRange(axes'[a].current, at(a))
    BY <1>3, <2>1
  <2> QED BY <2>2, <2>3 DEF at
<1>6. CASE area = "none"
  <2>1. axes' = axes
    BY <1>6 DEF MouseWheel
  <2> QED BY <1>6, <2>1, StillIsMoving
<1>7. CASE area \notin {"plot", "none"}
  <2> DEFINE b == AxisOfArea[area]
             y == IF ctrl THEN ScrollAxis(axes[b], (dy * 10) \div PixelSize) ELSE Zoomed(b, pixel, dy)
  <2>1. axes' = [axes EXCEPT ![b] = y]
    BY <1>7 DEF MouseWheel
  <2>2. b \in Axes => AxisInv(y) /\ Others(axes[b], y)
    BY <1>1, <1>2, <1>3, ScrolledIsSound
  <2> HIDE DEF b, y
  <2> QED BY <1>7, <2>1, <2>2, OneMoves
<1> QED BY <1>4, <1>5, <1>6, <1>7

-----------------------------------------------------------------------------
(* Drawing: the axes get a place, a scale and ticks                        *)
Replaced(x, y) ==
  AxisInv(y) /\ y.outer = x.outer /\ y.default = x.default /\ y.current = x.current /\ y.bar = x.bar

Placed(x, p, i) == [x EXCEPT !.position = p, !.inv = i]
LEMMA PlacedIsSound ==
  ASSUME NEW x, AxisInv(x), NEW p \in Int, NEW i \in Int \X Int, NEW y, y = Placed(x, p, i)
  PROVE  Replaced(x, y) /\ y.inv = i
<1>1. /\ DOMAIN y = DOMAIN NewAxis /\ y.position = p /\ y.inv = i
      /\ y.outer = x.outer /\ y.inner = x.inner /\ y.default = x.default /\ y.current = x.current
      /\ y.bar = x.bar
  BY DEF AxisInv, NewAxis, Placed
<1> QED BY <1>1 DEF AxisInv, Replaced

LEMMA TickedIsSound ==
  ASSUME NEW x, AxisInv(x), NEW ticks, NEW y, y = [x EXCEPT !.ticks = ticks]
  PROVE  Replaced(x, y) /\ y.inv = x.inv
<1>1. /\ DOMAIN y = DOMAIN NewAxis /\ y.position = x.position /\ y.inv = x.inv
      /\ y.outer = x.outer /\ y.inner = x.inner /\ y.default = x.default /\ y.current = x.current
      /\ y.bar = x.bar
  BY DEF AxisInv, NewAxis
<1> QED BY <1>1 DEF AxisInv, Replaced

LEMMA LaidAxesAreSound ==
  ASSUME GraphInv, NEW l, Sound(l), l.h > 0, NEW placed, placed = LaidAxes(axes, l)
  PROVE  /\ DOMAIN placed = Axes
         /\ \A a \in Axes : Replaced(axes[a], placed[a]) /\ (Roomy(l) => placed[a].inv[2] > 0)
         /\ kind = "DENSITY" => placed[2].inv = <<1, 1>>
<1> DEFINE p(a) == Position(axes, a)
           i(a) == Scale(axes, l, a)
<1>1. placed = [a \in Axes |-> [axes[a] EXCEPT !.position = p(a), !.inv = i(a)]]
  BY DEF LaidAxes
<1>2. \A a \in Axes : p(a) \in Int
  BY PositionIsNumber DEF GraphInv
<1>3. \A a \in Axes : /\ i(a) \in Int \X Int
                      /\ kind = "DENSITY" /\ a = 2 => i(a) = axes[a].inv
                      /\ Roomy(l) /\ (kind = "DENSITY" /\ a = 2 => axes[a].inv[2] > 0) => i(a)[2] > 0
  BY ScaleIsNumber DEF GraphInv
<1>4. \A a \in Axes : Replaced(axes[a], placed[a]) /\ placed[a].inv = i(a)
  <2> TAKE a \in Axes
  <2>1. AxisInv(axes[a]) /\ p(a) \in Int /\ i(a) \in Int \X Int
    BY <1>2, <1>3 DEF GraphInv, AxesInv
  <2>2. placed[a] = Placed(axes[a], p(a), i(a))
    BY <1>1 DEF Placed
  <2> HIDE DEF p, i
  <2> QED BY <2>1, <2>2, PlacedIsSound
<1>5. kind = "DENSITY" => 2 \in Axes /\ axes[2].inv = <<1, 1>>
  BY DEF GraphInv, ScaleInv, Axes, NumAxes
<1>6. DOMAIN placed = Axes
  BY <1>1
<1>7. \A a \in Axes : Roomy(l) => i(a)[2] > 0
  <2> TAKE a \in Axes
  <2>1. kind = "DENSITY" /\ a = 2 => axes[a].inv[2] > 0
    BY <1>5
  <2> HIDE DEF i
  <2> QED BY <1>3, <2>1
<1> HIDE DEF p, i
<1> QED BY <1>3, <1>4, <1>5, <1>6, <1>7

LEMMA DrawKeepsInv ==
  ASSUME GraphInv, Draw
  PROVE  AxesInv' /\ Sound(layout)' /\ ScaleInv' /\ (kind \in GraphKinds)'
<1> DEFINE laid == Layout(axes, size)
           placed == LaidAxes(axes, laid)
           ticked == [a \in Axes |-> WithTicks(placed[a], a)]
           drawn == [a \in Axes |-> [placed[a] EXCEPT !.ticks = ticked[a].ticks]]
<1>1. UNCHANGED <<kind, given>> /\ Axes' = Axes /\ Barred' = Barred /\ Configured' = Configured
  BY DEF Draw, Axes, NumAxes, Barred, Configured
<1>2. Sound(laid) /\ laid.h > 0
  <2>1. size.h > 0
    BY GraphAssumption DEF GraphInv, TypeOK
  <2> QED BY <2>1, LayoutIsSound DEF GraphInv
<1>3. \/ UNCHANGED <<axes, layout>>
      \/ layout' = laid /\ axes' \in {placed, drawn}
  BY DEF Draw
<1> HIDE DEF laid
<1>4. /\ DOMAIN placed = Axes
      /\ \A a \in Axes : Replaced(axes[a], placed[a]) /\ (Roomy(laid) => placed[a].inv[2] > 0)
      /\ kind = "DENSITY" => placed[2].inv = <<1, 1>>
  BY <1>2, LaidAxesAreSound
<1> HIDE DEF placed
<1>5. CASE UNCHANGED <<axes, layout>>
  BY <1>1, <1>5 DEF GraphInv, AxesInv, LabelInv, ScaleInv
<1>6. ASSUME NEW y, DOMAIN y = Axes, layout' = laid, axes' = y,
             \A a \in Axes : Replaced(axes[a], y[a]) /\ y[a].inv = placed[a].inv
      PROVE  AxesInv' /\ Sound(layout)' /\ ScaleInv' /\ (kind \in GraphKinds)'
  <2>1. \A a \in Axes : AxisInv(y[a]) /\ GivenInv(y[a], given[a]) /\ LabelInv(y[a], a)
    BY <1>6 DEF GraphInv, AxesInv, GivenInv, LabelInv, Replaced
  <2>2. kind = "DENSITY" => 2 \in Axes
    BY DEF Axes, NumAxes
  <2>3. Configured \/ \A a \in Axes : y[a].outer = EmptyRange
    BY <1>6 DEF GraphInv, AxesInv, Replaced
  <2>5. AxesInv'
    BY <1>1, <1>6, <2>1, <2>3 DEF AxesInv, LabelInv
  <2>4. ScaleInv'
    BY <1>1, <1>4, <1>6, <2>2 DEF ScaleInv
  <2> QED BY <1>1, <1>2, <1>6, <2>4, <2>5 DEF GraphInv
<1>7. CASE layout' = laid /\ axes' = placed
  BY <1>4, <1>6, <1>7
<1>8. CASE layout' = laid /\ axes' = drawn
  <2>1. \A a \in Axes : Replaced(placed[a], drawn[a]) /\ drawn[a].inv = placed[a].inv
    <3> TAKE a \in Axes
    <3> DEFINE y == drawn[a]
               t == ticked[a].ticks
    <3>1. y = [placed[a] EXCEPT !.ticks = t]
      OBVIOUS
    <3> HIDE DEF y, t
    <3>2. Replaced(placed[a], y) /\ y.inv = placed[a].inv
      BY <1>4, <3>1, TickedIsSound DEF Replaced
    <3> QED BY <3>2 DEF y
  <2>2. DOMAIN drawn = Axes
    OBVIOUS
  <2> HIDE DEF drawn
  <2>3. \A a \in Axes : Replaced(axes[a], drawn[a])
    BY <1>4, <2>1 DEF Replaced
  <2> QED BY <1>6, <1>8, <2>1, <2>2, <2>3
<1> QED BY <1>3, <1>5, <1>7, <1>8

-----------------------------------------------------------------------------
(* The invariant                                                           *)
LEMMA ConfigureKeepsInv ==
  ASSUME GraphInv, NEW c \in Configs[kind], NEW clear \in BOOLEAN, Configure(c, clear)
  PROVE  AxesInv' /\ Sound(layout)' /\ ScaleInv' /\ (kind \in GraphKinds)'
<1>1. UNCHANGED <<kind, layout>> /\ Axes' = Axes /\ Barred' = Barred /\ Configured'
  BY DEF Configure, Axes, NumAxes, Barred, Configured
<1>2. axes' = [a \in Axes |-> ConfiguredAxis(c, a)] /\ given' = [a \in Axes |-> ValuesFor(c, a)]
  BY DEF Configure
<1>3. \A a \in Axes : /\ AxisInv(ConfiguredAxis(c, a)) /\ GivenInv(ConfiguredAxis(c, a), ValuesFor(c, a))
                      /\ ConfiguredAxis(c, a).inv = <<1, 1>> /\ LabelInv(ConfiguredAxis(c, a), a)
  BY ConfiguredAxisIsSound DEF GraphInv
<1>4. AxesInv'
  BY <1>1, <1>2, <1>3 DEF AxesInv, LabelInv
<1>5. kind = "DENSITY" => 2 \in Axes
  BY DEF Axes, NumAxes
<1>6. ScaleInv'
  BY <1>1, <1>2, <1>3, <1>5 DEF ScaleInv
<1> QED BY <1>1, <1>4, <1>6 DEF GraphInv

LEMMA AppendKeepsInv ==
  ASSUME GraphInv, NEW b \in Buffers, NEW p \in Appended, AppendPoint(b, p)
  PROVE  AxesInv' /\ Sound(layout)' /\ ScaleInv' /\ (kind \in GraphKinds)'
<1>1. UNCHANGED <<kind, layout, axes, given>> /\ Axes' = Axes /\ Barred' = Barred /\ Configured' = Configured
  BY DEF AppendPoint, Axes, NumAxes, Barred, Configured
<1> QED BY <1>1 DEF GraphInv, AxesInv, LabelInv, ScaleInv

LEMMA AxesAreKept ==
  ASSUME GraphInv, [GraphNext]_graphVars
  PROVE  AxesInv' /\ Sound(layout)' /\ ScaleInv' /\ (kind \in GraphKinds)'
<1>1. CASE UNCHANGED graphVars
  <2>1. UNCHANGED <<kind, layout, axes, given>> /\ Axes' = Axes /\ Barred' = Barred /\ Configured' = Configured
    BY <1>1 DEF graphVars, Axes, NumAxes, Barred, Configured
  <2> QED BY <2>1 DEF GraphInv, AxesInv, LabelInv, ScaleInv
<1>2. CASE Application
  <2>1. ASSUME NEW c \in Configs[kind], NEW clear \in BOOLEAN, Configure(c, clear)
        PROVE  AxesInv' /\ Sound(layout)' /\ ScaleInv' /\ (kind \in GraphKinds)'
    BY <2>1, ConfigureKeepsInv
  <2>2. ASSUME NEW b \in Buffers, NEW p \in Appended, AppendPoint(b, p)
        PROVE  AxesInv' /\ Sound(layout)' /\ ScaleInv' /\ (kind \in GraphKinds)'
    BY <2>2, AppendKeepsInv
  <2>3. ASSUME NEW b \in Axes, NEW r \in Asked, RequestRange(b, r)
        PROVE  Event /\ Moving
    BY <2>3, RequestMoves DEF RequestRange
  <2>4. ASSUME NEW on \in BOOLEAN, Activate(on)
        PROVE  Event /\ Moving
    BY <2>4, StillIsMoving DEF Activate
  <2> QED BY <1>2, <2>1, <2>2, <2>3, <2>4, EventKeepsInv DEF Application
<1>3. CASE User
  <2>1. ASSUME NEW s \in Sizes, Resize(s)
        PROVE  Event /\ Moving
    BY <2>1, StillIsMoving DEF Resize
  <2>2. ASSUME NEW pixel \in Mouse, NEW dy \in {-10, 10}, NEW ctrl \in BOOLEAN, NEW shift \in BOOLEAN,
               MouseWheel(pixel, dy, ctrl, shift)
        PROVE  Event /\ Moving
    BY <2>2, WheelMoves DEF MouseWheel, UserEvent
  <2>3. ASSUME NEW pixel \in Mouse, Push(pixel) \/ Click(pixel)
        PROVE  Event /\ Moving
    BY <2>3, StillIsMoving DEF Push, Click, UserEvent
  <2>4. ASSUME NEW pixel \in Mouse, ResetClick(pixel)
        PROVE  Event /\ Moving
    BY <2>4, ResetMoves DEF ResetClick, UserEvent
  <2>5. ASSUME NEW pixel \in Mouse, NEW button \in {"left", "right"}, NEW shift \in BOOLEAN,
               Drag(pixel, button, shift)
        PROVE  Event /\ Moving
    BY <2>5, DragMoves DEF Drag, UserEvent
  <2>6. ASSUME Release
        PROVE  Event /\ Moving
    BY <2>6, StillIsMoving DEF Release, UserEvent
  <2> QED BY <1>3, <2>1, <2>2, <2>3, <2>4, <2>5, <2>6, EventKeepsInv DEF User
<1>4. CASE Draw
  BY <1>4, DrawKeepsInv
<1> QED BY <1>1, <1>2, <1>3, <1>4 DEF GraphNext

(* The other variables                                                     *)
RestOK ==
  /\ buffers \in [Buffers -> Seq(Int \X Int)] /\ size \in Sizes /\ active \in BOOLEAN
  /\ damage \subseteq Redrawn /\ status \in {"running", "hung"}
  /\ grip \in Mouse \union {<<>>} /\ clicked \in Int \X Int

LEMMA TypeHasParts ==
  /\ TypeOK => RestOK
  /\ kind \in Kinds /\ AxesInv /\ RestOK => TypeOK
<1>1. TypeOK => RestOK
  BY DEF TypeOK, RestOK
<1>2. AxesInv => \A a \in Axes :
        /\ {axes[a].outer, axes[a].inner, axes[a].default, axes[a].current} \subseteq RangeType
        /\ axes[a].position \in Int /\ axes[a].inv \in Int \X Int /\ axes[a].bar \in BOOLEAN
  BY ExtentsAreRanges DEF AxesInv, AxisInv
<1>3. AxesInv => DOMAIN axes = Axes
  BY DEF AxesInv
<1> QED BY <1>1, <1>2, <1>3 DEF TypeOK, RestOK

LEMMA RestIsKept ==
  ASSUME GraphInv, [GraphNext]_graphVars
  PROVE  RestOK'
<1>1. RestOK
  BY TypeHasParts DEF GraphInv
<1>2. Redrawn = {"LAYOUT", "ALL"}
  BY DEF Redrawn
<1>3. CASE UNCHANGED graphVars
  BY <1>1, <1>3 DEF RestOK, graphVars
<1>4. CASE Application
  <2>1. ASSUME NEW c \in Configs[kind], NEW clear \in BOOLEAN, Configure(c, clear)
        PROVE  RestOK'
    BY <1>1, <1>2, <2>1 DEF Configure, RestOK
  <2>2. ASSUME NEW b \in Buffers, NEW p \in Appended, AppendPoint(b, p)
        PROVE  RestOK'
    <3>1. Append(buffers[b], p) \in Seq(Int \X Int)
      BY <1>1, GraphAssumption DEF RestOK
    <3>2. buffers' \in [Buffers -> Seq(Int \X Int)]
      BY <1>1, <2>2, <3>1 DEF AppendPoint, RestOK
    <3> QED BY <1>1, <1>2, <2>2, <3>2 DEF AppendPoint, RestOK
  <2>3. ASSUME NEW b \in Axes, NEW r \in Asked, RequestRange(b, r)
        PROVE  RestOK'
    BY <1>1, <1>2, <2>3 DEF RequestRange, Event, RestOK
  <2>4. ASSUME NEW on \in BOOLEAN, Activate(on)
        PROVE  RestOK'
    BY <1>1, <1>2, <2>4 DEF Activate, Event, RestOK
  <2> QED BY <1>4, <2>1, <2>2, <2>3, <2>4 DEF Application
<1>5. CASE User
  <2>1. ASSUME NEW s \in Sizes, Resize(s)
        PROVE  RestOK'
    BY <1>1, <1>2, <2>1 DEF Resize, Event, RestOK
  <2>2. ASSUME NEW pixel \in Mouse, NEW dy \in {-10, 10}, NEW ctrl \in BOOLEAN, NEW shift \in BOOLEAN,
               MouseWheel(pixel, dy, ctrl, shift)
        PROVE  RestOK'
    <3>1. damage' = damage \/ damage' = damage \union {"ALL"} \/ damage' = damage \union Redrawn
      BY <2>2 DEF MouseWheel
    <3>2. UNCHANGED <<buffers, size, active, status, grip, clicked>>
      BY <2>2 DEF MouseWheel, UserEvent, Event
    <3> QED BY <1>1, <1>2, <3>1, <3>2 DEF RestOK
  <2>3. ASSUME NEW pixel \in Mouse, Push(pixel)
        PROVE  RestOK'
    BY <1>1, <2>3 DEF Push, UserEvent, Event, RestOK
  <2>4. ASSUME NEW pixel \in Mouse, Click(pixel)
        PROVE  RestOK'
    <3>1. Roomy(layout) /\ Sound(layout) /\ 1 \in Axes
      BY <2>4 DEF Click, UserEvent, HasRoom, Roomy, GraphInv, Axes, NumAxes
    <3>2. PixelToData(layout, 1, pixel) \in Int \X Int
      <4>1. pixel \in Int \X Int
        BY GraphAssumption
      <4> QED BY <3>1, <4>1, PixelIsNumber
    <3>3. clicked' \in Int \X Int
      BY <2>4, <3>2 DEF Click, ClickValue
    <3> QED BY <1>1, <1>2, <2>4, <3>3 DEF Click, UserEvent, Event, RestOK
  <2>5. ASSUME NEW pixel \in Mouse, ResetClick(pixel)
        PROVE  RestOK'
    BY <1>1, <1>2, <2>5 DEF ResetClick, UserEvent, Event, RestOK
  <2>6. ASSUME NEW pixel \in Mouse, NEW button \in {"left", "right"}, NEW shift \in BOOLEAN,
               Drag(pixel, button, shift)
        PROVE  RestOK'
    BY <1>1, <1>2, <2>6 DEF Drag, UserEvent, Event, RestOK
  <2>7. ASSUME Release
        PROVE  RestOK'
    BY <1>1, <2>7 DEF Release, UserEvent, Event, RestOK
  <2> QED BY <1>5, <2>1, <2>2, <2>3, <2>4, <2>5, <2>6, <2>7 DEF User
<1>6. CASE Draw
  <2>1. damage' = {} /\ status' \in {status, "hung"}
    BY <1>6 DEF Draw
  <2>2. UNCHANGED <<buffers, size, active, grip, clicked>>
    BY <1>6 DEF Draw
  <2> QED BY <1>1, <1>2, <2>1, <2>2 DEF RestOK
<1> QED BY <1>3, <1>4, <1>5, <1>6 DEF GraphNext

LEMMA GraphInvInit == GraphInit => GraphInv
<1> SUFFICES ASSUME GraphInit PROVE GraphInv
  OBVIOUS
<1>1. kind \in GraphKinds /\ kind \in Kinds
  BY GraphAssumption DEF GraphInit
<1>2. AxisInv(NewAxis) /\ NewAxis.inv = <<1, 1>>
  <2>1. /\ NewAxis.outer = EmptyRange /\ NewAxis.inner = EmptyRange /\ NewAxis.default = EmptyRange
        /\ NewAxis.current = EmptyRange /\ NewAxis.position = 0 /\ NewAxis.inv = <<1, 1>> /\ NewAxis.bar = FALSE
    BY DEF NewAxis
  <2>2. EmptyRange \in Extents /\ ~IsValid(EmptyRange) /\ ContainsRange(EmptyRange, EmptyRange)
    BY EmptyIsWithin
  <2>3. {NewAxis.outer, NewAxis.inner, NewAxis.default, NewAxis.current} \subseteq Extents
    BY <2>1, <2>2
  <2>4. NewAxis.position \in Int /\ NewAxis.inv \in Int \X Int /\ NewAxis.bar \in BOOLEAN
    BY DEF NewAxis
  <2>5. ~IsValid(NewAxis.inner) /\ ContainsRange(NewAxis.outer, NewAxis.default)
        /\ ContainsRange(NewAxis.outer, NewAxis.current)
    BY <2>1, <2>2
  <2> QED BY <2>1, <2>3, <2>4, <2>5, Zenon DEF AxisInv
<1>3. AxesInv
  BY <1>2 DEF GraphInit, AxesInv, GivenInv, LabelInv, NewAxis
<1>4. Sound(layout) /\ ~Roomy(layout)
  <2>1. layout = NoLayout
    BY DEF GraphInit
  <2>2. NoMap \in Maps
    BY DEF NoMap, Linear, Maps
  <2>3. [p \in 1..2 |-> NoMap] \in [1..2 -> Maps]
    BY <2>2
  <2> QED BY <2>1, <2>3 DEF NoLayout, Sound, Layouts, Roomy
<1>5. ScaleInv
  BY <1>2, <1>4 DEF GraphInit, ScaleInv, Axes, NumAxes
<1>6. RestOK
  BY GraphAssumption DEF GraphInit, RestOK, Redrawn
<1> QED BY <1>1, <1>3, <1>4, <1>5, <1>6, TypeHasParts DEF GraphInv

LEMMA GraphInvStep == GraphInv /\ [GraphNext]_graphVars => GraphInv'
<1> SUFFICES ASSUME GraphInv, [GraphNext]_graphVars PROVE GraphInv'
  OBVIOUS
<1>1. AxesInv' /\ Sound(layout)' /\ ScaleInv' /\ (kind \in GraphKinds)'
  BY AxesAreKept
<1>2. RestOK'
  BY RestIsKept
<1>3. (kind \in Kinds)'
  BY <1>1, GraphAssumption
<1>4. (kind \in Kinds /\ AxesInv /\ RestOK => TypeOK)'
  BY TypeHasParts, PTL
<1> QED BY <1>1, <1>2, <1>3, <1>4 DEF GraphInv

-----------------------------------------------------------------------------
(* The results                                                             *)

(* Every variable of a graph has its type, in particular whatever a wheel  *)
(* or a drag computes from the pixels of an old layout is a number         *)
THEOREM GraphTypeCorrect == GraphSpec => []TypeOK
<1>1. GraphInv => TypeOK
  BY DEF GraphInv
<1> QED BY <1>1, GraphInvInit, GraphInvStep, PTL DEF GraphSpec

(* Zooming, scrolling, resetting and asking for a range never show anything *)
(* beyond the outer range of an axis nor hide any of its inner range       *)
THEOREM ViewStaysWithinLimits == GraphSpec => []ViewWithinLimits
<1>1. GraphInv => ViewWithinLimits
  BY DEF GraphInv, AxesInv, AxisInv, ViewWithinLimits
<1> QED BY <1>1, GraphInvInit, GraphInvStep, PTL DEF GraphSpec

LEMMA StepFollows ==
  ASSUME GraphInv, [GraphNext]_graphVars
  PROVE  ZoomKeepsThePoint /\ DragKeepsSpan /\ ResetShowsData
<1>1. ZoomKeepsThePoint
  BY WheelMoves DEF ZoomKeepsThePoint
<1>2. DragKeepsSpan
  BY DragMoves DEF DragKeepsSpan, Kept
<1>3. ResetShowsData
  BY ResetMoves DEF ResetShowsData
<1> QED BY <1>1, <1>2, <1>3

(* Turning the wheel in the plot keeps the value under the mouse in view,  *)
(* a drag keeps how much of an axis is shown, and a double click of the    *)
(* right button brings the data back                                       *)
THEOREM ViewFollows == GraphSpec => ViewFollowsTheMouse
<1>1. GraphInv /\ [GraphNext]_graphVars => [ZoomKeepsThePoint /\ DragKeepsSpan /\ ResetShowsData]_graphVars
  BY StepFollows
<1> QED BY <1>1, GraphInvInit, GraphInvStep, PTL DEF GraphSpec, ViewFollowsTheMouse



-----------------------------------------------------------------------------
(* The picture: what it is made of besides the axes and the layout         *)
Drawn == <<kind, data_sets, config, buffers>>
LEMMA MarkIsAsItWas ==
  ASSUME NEW x, NEW a, NEW layer, NEW from, NEW to, UNCHANGED Drawn
  PROVE  ValueMarker(x, a, layer, from, to)' = ValueMarker(x, a, layer, from, to)
BY DEF Drawn, ValueMarker, MarkerAcross, Barred

LEMMA LinesAreAsTheyWere ==
  ASSUME NEW x, NEW l, NEW a, UNCHANGED Drawn
  PROVE  /\ DataLines(l, a)' = DataLines(l, a) /\ Bars(a)' = Bars(a) /\ Bitmap(x, l)' = Bitmap(x, l)
         /\ Lozenges(a)' = Lozenges(a) /\ Texts(x, a)' = Texts(x, a) /\ AxisGrid(x, a)' = AxisGrid(x, a)
<1>1. DataLines(l, a)' = DataLines(l, a)
  BY DEF Drawn, DataLines, Barred
<1>2. Bars(a)' = Bars(a)
  BY DEF Drawn, Bars, Barred
<1>3. Bitmap(x, l)' = Bitmap(x, l)
  BY DEF Drawn, Bitmap
<1>4. Lozenges(a)' = Lozenges(a)
  BY DEF Drawn, Lozenges, ConvertPoint
<1>5. Texts(x, a)' = Texts(x, a)
  BY DEF Drawn, Texts, ConvertPoint
<1>6. AxisGrid(x, a)' = AxisGrid(x, a)
  BY DEF Drawn, AxisGrid, IsAxisHorizontal, ValueMarker, MarkerAcross, Barred
<1> QED BY <1>1, <1>2, <1>3, <1>4, <1>5, <1>6

LEMMA PictureIsAsItWas ==
  ASSUME NEW x, NEW l, UNCHANGED Drawn
  PROVE  PictureOf(x, l)' = PictureOf(x, l)
<1> DEFINE marks(a) == UNION {ValueMarker(x, a, m.layer, m.from, m.to) : m \in {n \in config.marks : n.axis = a}}
           part(a) == AxisGrid(x, a) \union Texts(x, a) \union Lozenges(a) \union marks(a)
           parts == {part(a) : a \in Axes}
           lines == {DataLines(l, a) \union Bars(a) : a \in 1..NumAxes - 1}
<1>1. Axes' = Axes /\ NumAxes' = NumAxes /\ config' = config
  BY DEF Drawn, Axes, NumAxes
<1>2. ASSUME NEW a PROVE marks(a)' = marks(a)
  BY <1>1, MarkIsAsItWas
<1>3. ASSUME NEW a PROVE part(a)' = part(a)
  <2> HIDE DEF marks
  <2> QED BY <1>2, LinesAreAsTheyWere
<1>4. parts' = parts
  <2> HIDE DEF part
  <2> QED BY <1>1, <1>3
<1>5. lines' = lines
  BY <1>1, LinesAreAsTheyWere
<1>6. {Bitmap(x, l)}' = {Bitmap(x, l)}
  BY LinesAreAsTheyWere
<1>7. PictureOf(x, l) = UNION (parts \union lines \union {Bitmap(x, l)})
  BY DEF PictureOf
<1>8. PictureOf(x, l)' = UNION (parts' \union lines' \union {Bitmap(x, l)}')
  BY DEF PictureOf
<1> HIDE DEF parts, lines
<1> QED BY <1>4, <1>5, <1>6, <1>7, <1>8

(* A plot that is laid out shows the ranges of its axes, whose scales are its own *)
AllValid == \A a \in Axes : IsValid(axes[a].current)
Laid(x, l) ==
  Rectangular =>
    /\ Framed(l, Painted(x[Across], Across), Painted(x[1 - Across], 1 - Across))
    /\ \A a \in {0, 1} :
         /\ x[a].bar = (Barred /\ a = 0)
         /\ x[a].inv = <<Size(Painted(x[a], a)), IF IsAxisHorizontal(a) THEN l.pw ELSE l.ph>>
PlotInv == damage = {} /\ status = "running" /\ AllValid => Laid(axes, layout)

(* The axes are a function, so that an axis set to what it was is no change *)
PictureInv == axes = [a \in Axes |-> axes[a]] /\ PictureIsCurrent /\ PlotInv

LEMMA ShownHaveRanges ==
  ASSUME GraphInv, AllValid, NEW a \in Axes
  PROVE  axes[a].outer # EmptyRange
<1>1. /\ ContainsRange(axes[a].outer, axes[a].current) /\ IsValid(axes[a].current)
      /\ axes[a].current \in RangeType
  BY ExtentsAreRanges DEF GraphInv, AxesInv, AxisInv, AllValid
<1> QED BY <1>1, BoundsAreNumbers DEF ContainsRange, IsValid, EmptyRange, Between, RangeType

LEMMA BarsAreLabelled ==
  ASSUME GraphInv, AllValid, NEW a \in Axes
  PROVE  axes[a].bar = (Barred /\ a = 0)
BY ShownHaveRanges DEF GraphInv, AxesInv, LabelInv

LEMMA ScaleIsThePlots ==
  ASSUME GraphInv, AllValid, Rectangular, NEW l, NEW a \in {0, 1}
  PROVE  Scale(axes, l, a) = <<Size(Painted(axes[a], a)), IF IsAxisHorizontal(a) THEN l.pw ELSE l.ph>>
<1>1. a \in Axes
  BY DEF Axes, NumAxes
<1>2. axes[a].bar = (Barred /\ a = 0) /\ axes[a].current \in RangeType
  BY <1>1, BarsAreLabelled, ExtentsAreRanges DEF GraphInv, AxesInv, AxisInv
<1> DEFINE r == axes[a].current
<1>3. Size(Painted(axes[a], a)) = Size(r) + (IF axes[a].bar THEN 1 ELSE 0)
  <2>1. CASE Barred /\ a = 0
    <3>1. Painted(axes[a], a) = LabelRange(r) /\ axes[a].bar
      BY <1>2, <2>1 DEF Painted
    <3>2. r.first \in Int /\ r.second \in Int
      BY <1>2 DEF RangeType
    <3> HIDE DEF r
    <3>3. Size(LabelRange(r)) = Size(r) + 1
      BY <3>2 DEF LabelRange, Between, Size
    <3> QED BY <3>1, <3>3
  <2>2. CASE ~(Barred /\ a = 0)
    <3>1. Painted(axes[a], a) = r /\ ~axes[a].bar
      BY <1>2, <2>2 DEF Painted
    <3>2. Size(r) \in Int
      BY <1>2 DEF Size, RangeType
    <3> HIDE DEF r
    <3> QED BY <3>1, <3>2
  <2> QED BY <2>1, <2>2
<1> QED BY <1>3 DEF Scale, Rectangular

LEMMA LaidOut ==
  ASSUME GraphInv, AllValid, NEW l, l = Layout(axes, size), NEW x,
         \A a \in Axes : /\ x[a].current = axes[a].current /\ x[a].bar = axes[a].bar
                         /\ x[a].inv = Scale(axes, l, a)
  PROVE  Laid(x, l)
<1> SUFFICES ASSUME Rectangular PROVE Laid(x, l)
  BY DEF Laid
<1>1. {0, 1} \subseteq Axes /\ Across \in {0, 1} /\ 1 - Across \in {0, 1}
  BY DEF Axes, NumAxes, Across
<1>2. Framed(l, Painted(axes[Across], Across), Painted(axes[1 - Across], 1 - Across))
  BY LayoutIsSound DEF GraphInv
<1>3. \A a \in {0, 1} : Painted(x[a], a) = Painted(axes[a], a)
  BY <1>1 DEF Painted
<1>4. \A a \in {0, 1} :
         /\ x[a].bar = (Barred /\ a = 0)
         /\ x[a].inv = <<Size(Painted(x[a], a)), IF IsAxisHorizontal(a) THEN l.pw ELSE l.ph>>
  BY <1>1, <1>3, BarsAreLabelled, ScaleIsThePlots
<1>5. Framed(l, Painted(x[Across], Across), Painted(x[1 - Across], 1 - Across))
  BY <1>1, <1>2, <1>3
<1> QED BY <1>4, <1>5 DEF Laid

LEMMA DrawLaysOut ==
  ASSUME GraphInv, Draw
  PROVE  PlotInv'
<1> DEFINE laid == Layout(axes, size)
           placed == LaidAxes(axes, laid)
           ticked == [a \in Axes |-> WithTicks(placed[a], a)]
           drawn == [a \in Axes |-> [placed[a] EXCEPT !.ticks = ticked[a].ticks]]
<1>1. UNCHANGED kind /\ Axes' = Axes
  BY DEF Draw, Axes, NumAxes
<1>2. CASE \E a \in Axes : ~IsValid(axes[a].current)
  <2>1. axes' = axes
    BY <1>2 DEF Draw
  <2> QED BY <1>1, <1>2, <2>1 DEF PlotInv, AllValid
<1>3. CASE AllValid
  <2>1. /\ layout' = laid
        /\ axes' = placed \/ axes' = drawn
    BY <1>3 DEF Draw, AllValid
  <2>2. \A a \in Axes : /\ placed[a].current = axes[a].current /\ placed[a].bar = axes[a].bar
                        /\ placed[a].inv = Scale(axes, laid, a) /\ AxisInv(placed[a])
    <3>1. Sound(laid) /\ laid.h > 0
      <4>1. size.h > 0
        BY GraphAssumption DEF GraphInv, TypeOK
      <4> QED BY <4>1, LayoutIsSound DEF GraphInv
    <3>2. \A a \in Axes : Replaced(axes[a], placed[a])
      BY <3>1, LaidAxesAreSound
    <3>3. \A a \in Axes : DOMAIN axes[a] = DOMAIN NewAxis
      BY DEF GraphInv, AxesInv, AxisInv
    <3>4. \A a \in Axes : placed[a] = Placed(axes[a], Position(axes, a), Scale(axes, laid, a))
      BY DEF LaidAxes, Placed
    <3>5. \A a \in Axes : placed[a].inv = Scale(axes, laid, a)
      BY <3>3, <3>4 DEF Placed, NewAxis
    <3> QED BY <3>2, <3>5 DEF Replaced
  <2>3. \A a \in Axes : /\ drawn[a].current = placed[a].current /\ drawn[a].bar = placed[a].bar
                        /\ drawn[a].inv = placed[a].inv
    <3> TAKE a \in Axes
    <3> DEFINE y == drawn[a]
               t == ticked[a].ticks
    <3>1. y = [placed[a] EXCEPT !.ticks = t]
      OBVIOUS
    <3>2. AxisInv(placed[a])
      BY <2>2
    <3> HIDE DEF y, t, placed
    <3>3. Replaced(placed[a], y) /\ y.inv = placed[a].inv
      BY <3>1, <3>2, TickedIsSound
    <3> QED BY <3>3 DEF y, Replaced
  <2> HIDE DEF laid, placed, drawn
  <2>4. Laid(placed, laid) /\ Laid(drawn, laid)
    <3>1. \A a \in Axes : /\ drawn[a].current = axes[a].current /\ drawn[a].bar = axes[a].bar
                          /\ drawn[a].inv = Scale(axes, laid, a)
      BY <2>2, <2>3
    <3> QED BY <1>3, <2>2, <3>1, LaidOut DEF laid
  <2>5. Laid(axes', layout')
    BY <2>1, <2>4
  <2>6. Laid(axes, layout)'
    BY <1>1, <2>5 DEF Laid, Rectangular, Painted, Across, Barred, IsAxisHorizontal
  <2> QED BY <2>6 DEF PlotInv
<1> QED BY <1>2, <1>3 DEF AllValid

LEMMA PlotIsAsItWas ==
  ASSUME PlotInv, UNCHANGED <<kind, axes, layout, damage, status>>
  PROVE  PlotInv'
<1>1. Axes' = Axes
  BY DEF Axes, NumAxes
<1> QED BY <1>1 DEF PlotInv, AllValid, Laid, Rectangular, Painted, Across, Barred, IsAxisHorizontal

LEMMA DrawShowsAll ==
  ASSUME Draw
  PROVE  PictureIsCurrent'
<1> DEFINE laid == Layout(axes, size)
           placed == LaidAxes(axes, laid)
           ticked == [a \in Axes |-> WithTicks(placed[a], a)]
           drawn == [a \in Axes |-> [placed[a] EXCEPT !.ticks = ticked[a].ticks]]
<1>1. UNCHANGED Drawn /\ UNCHANGED active /\ Axes' = Axes
  BY DEF Draw, Drawn, Axes, NumAxes
<1>2. CASE \E a \in Axes : ~IsValid(axes[a].current)
  <2>1. axes' = axes
    BY <1>2 DEF Draw
  <2> QED BY <1>1, <1>2, <2>1 DEF PictureIsCurrent
<1>3. CASE (\A a \in Axes : IsValid(axes[a].current)) /\ ~active
  <2>1. picture' = Blank
    BY <1>3 DEF Draw
  <2> QED BY <1>1, <1>3, <2>1 DEF PictureIsCurrent
<1>4. CASE (\A a \in Axes : IsValid(axes[a].current)) /\ active
  <2>1. \/ status' = "hung"
        \/ axes' = drawn /\ layout' = laid /\ picture' = PictureOf(drawn, laid)
    BY <1>4 DEF Draw
  <2>2. \A x, l : PictureOf(x, l)' = PictureOf(x, l)
    BY <1>1, PictureIsAsItWas
  <2> HIDE DEF drawn, laid
  <2>3. status' = "hung" \/ (picture = PictureOf(axes, layout))'
    BY <2>1, <2>2
  <2> QED BY <1>1, <1>4, <2>3 DEF PictureIsCurrent
<1> QED BY <1>2, <1>3, <1>4

LEMMA OldPictureIsCurrent ==
  ASSUME PictureInv, UNCHANGED Drawn, UNCHANGED <<axes, layout, damage, picture, status, active>>
  PROVE  PictureInv'
<1>1. \A x, l : PictureOf(x, l)' = PictureOf(x, l)
  BY PictureIsAsItWas
<1>2. Axes' = Axes
  BY DEF Drawn, Axes, NumAxes
<1>3. PictureOf(axes, layout)' = PictureOf(axes, layout)
  BY <1>1
<1>4. PlotInv'
  BY PlotIsAsItWas DEF PictureInv, Drawn
<1> QED BY <1>2, <1>3, <1>4 DEF PictureInv, PictureIsCurrent

(* A step is drawn, or has damaged the widget, or changed nothing of it    *)
LEMMA PictureInvStep ==
  ASSUME GraphInv, PictureInv, [GraphNext]_graphVars
  PROVE  PictureInv'
<1> DEFINE Fun(x) == x = [a \in Axes |-> x[a]]
<1>1. Axes' = Axes
  BY DEF GraphNext, graphVars, Application, User, Draw, Configure, AppendPoint, RequestRange, Activate,
     Resize, MouseWheel, Push, Click, ResetClick, Drag, Release, UserEvent, Event, Axes, NumAxes
<1>2. Fun(axes)
  BY DEF PictureInv
<1>3. ASSUME damage' # {}, NEW b, NEW y, axes' = axes \/ axes' = [axes EXCEPT ![b] = y] \/ Fun(axes')
      PROVE  PictureInv'
  <2>1. Fun(axes')
    BY <1>2, <1>3
  <2>2. PlotInv' /\ PictureIsCurrent'
    BY <1>3 DEF PlotInv, PictureIsCurrent
  <2> QED BY <1>1, <2>1, <2>2 DEF PictureInv
<1>4. ASSUME Event, UNCHANGED <<axes, damage, active>>
      PROVE  PictureInv'
  BY <1>4, OldPictureIsCurrent DEF Event, Drawn
<1>5. CASE UNCHANGED graphVars
  BY <1>5, OldPictureIsCurrent DEF graphVars, Drawn
<1>6. CASE Application
  <2>1. ASSUME NEW c \in Configs[kind], NEW clear \in BOOLEAN, Configure(c, clear)
        PROVE  PictureInv'
    BY <1>3, <2>1 DEF Configure, Redrawn
  <2>2. ASSUME NEW b \in Buffers, NEW p \in Appended, AppendPoint(b, p)
        PROVE  PictureInv'
    BY <1>3, <2>2 DEF AppendPoint
  <2>3. ASSUME NEW b \in Axes, NEW r \in Asked, RequestRange(b, r)
        PROVE  PictureInv'
    <3>1. CASE CanSetAxisRange(axes[b]) /\ IsValid(r)
      BY <1>3, <2>3, <3>1 DEF RequestRange
    <3>2. CASE ~(CanSetAxisRange(axes[b]) /\ IsValid(r))
      <4>1. SetAxisRange(axes[b], r) = axes[b]
        BY <3>2 DEF SetAxisRange
      <4>2. axes' = [axes EXCEPT ![b] = axes[b]]
        BY <2>3, <4>1 DEF RequestRange
      <4>3. axes' = axes
        BY <1>2, <4>2
      <4> QED BY <1>4, <2>3, <3>2, <4>3 DEF RequestRange
    <3> QED BY <3>1, <3>2
  <2>4. ASSUME NEW on \in BOOLEAN, Activate(on)
        PROVE  PictureInv'
    BY <1>3, <2>4 DEF Activate
  <2> QED BY <1>6, <2>1, <2>2, <2>3, <2>4 DEF Application
<1>7. CASE User
  <2>1. ASSUME NEW s \in Sizes, Resize(s)
        PROVE  PictureInv'
    BY <1>3, <2>1 DEF Resize, Redrawn
  <2>2. ASSUME NEW pixel \in Mouse, NEW dy \in {-10, 10}, NEW ctrl \in BOOLEAN, NEW shift \in BOOLEAN,
               MouseWheel(pixel, dy, ctrl, shift)
        PROVE  PictureInv'
    <3> DEFINE area == LayoutArea(layout, pixel)
               y == IF ctrl THEN ScrollAxis(axes[AxisOfArea[area]], (dy * 10) \div PixelSize)
                    ELSE Zoomed(AxisOfArea[area], pixel, dy)
    <3>1. CASE area = "plot" /\ shift
      BY <1>4, <2>2, <3>1 DEF MouseWheel, UserEvent
    <3>2. CASE area = "plot" /\ ~shift
      BY <1>3, <2>2, <3>2 DEF MouseWheel, Redrawn
    <3>3. CASE area = "none"
      BY <1>3, <2>2, <3>3 DEF MouseWheel
    <3>4. CASE area \notin {"plot", "none"}
      <4>1. axes' = [axes EXCEPT ![AxisOfArea[area]] = y] /\ damage' = damage \union Redrawn
        BY <2>2, <3>4 DEF MouseWheel
      <4> QED BY <1>3, <4>1 DEF Redrawn
    <3> QED BY <3>1, <3>2, <3>3, <3>4
  <2>3. ASSUME NEW pixel \in Mouse, Push(pixel)
        PROVE  PictureInv'
    BY <1>4, <2>3 DEF Push, UserEvent
  <2>4. ASSUME NEW pixel \in Mouse, Click(pixel)
        PROVE  PictureInv'
    BY <1>3, <2>4 DEF Click
  <2>5. ASSUME NEW pixel \in Mouse, ResetClick(pixel)
        PROVE  PictureInv'
    BY <1>3, <2>5 DEF ResetClick, Redrawn
  <2>6. ASSUME NEW pixel \in Mouse, NEW button \in {"left", "right"}, NEW shift \in BOOLEAN,
               Drag(pixel, button, shift)
        PROVE  PictureInv'
    BY <1>3, <2>6 DEF Drag, Redrawn
  <2>7. ASSUME Release
        PROVE  PictureInv'
    BY <1>4, <2>7 DEF Release, UserEvent
  <2> QED BY <1>7, <2>1, <2>2, <2>3, <2>4, <2>5, <2>6, <2>7 DEF User
<1>8. CASE Draw
  <2>1. axes' = axes \/ Fun(axes')
    BY <1>8 DEF Draw, LaidAxes
  <2> QED BY <1>1, <1>2, <1>8, <2>1, DrawShowsAll, DrawLaysOut DEF PictureInv
<1> QED BY <1>5, <1>6, <1>7, <1>8 DEF GraphNext

LEMMA PictureInvInit == GraphInit => PictureInv
BY DEF GraphInit, PictureInv, PictureIsCurrent, PlotInv

(* What has been drawn was configured                                      *)
DrawnInv == layout.w > 0 => Configured

LEMMA DrawnInvInit == GraphInit => DrawnInv
BY DEF GraphInit, DrawnInv, NoLayout

LEMMA DrawnInvStep ==
  ASSUME GraphInv, DrawnInv, [GraphNext]_graphVars
  PROVE  DrawnInv'
<1>1. CASE UNCHANGED <<kind, config, layout>>
  BY <1>1 DEF DrawnInv, Configured
<1>2. CASE Draw
  <2>1. UNCHANGED <<kind, config>>
    BY <1>2 DEF Draw
  <2>2. CASE UNCHANGED layout
    BY <1>1, <2>1, <2>2
  <2>3. CASE AllValid
    <3>1. 0 \in Axes
      BY DEF Axes, NumAxes
    <3>2. Configured
      BY <2>3, <3>1, ShownHaveRanges DEF GraphInv, AxesInv
    <3> QED BY <2>1, <3>2 DEF DrawnInv, Configured
  <2> QED BY <1>2, <2>2, <2>3 DEF Draw, AllValid
<1>3. ASSUME NEW c \in Configs[kind], NEW clear \in BOOLEAN, Configure(c, clear)
      PROVE  DrawnInv'
  BY <1>3 DEF Configure, DrawnInv, Configured
<1>4. CASE UNCHANGED graphVars
  BY <1>1, <1>4 DEF graphVars
<1>5. CASE Application
  <2>1. \/ \E c \in Configs[kind], clear \in BOOLEAN : Configure(c, clear)
        \/ UNCHANGED <<kind, config, layout>>
    BY <1>5 DEF Application, AppendPoint, RequestRange, Activate, Event
  <2> QED BY <1>1, <1>3, <2>1
<1>6. CASE User
  <2>1. Event
    BY <1>6 DEF User, Resize, MouseWheel, Push, Click, ResetClick, Drag, Release, UserEvent
  <2> QED BY <1>1, <2>1 DEF Event
<1> QED BY <1>2, <1>4, <1>5, <1>6 DEF GraphNext

(* Whatever the application and the user do, and in whatever order, what is *)
(* on the screen once FLTK has nothing more to draw is the configuration,  *)
(* the buffers, the ranges and the size of now                             *)
THEOREM PictureStaysCurrent == GraphSpec => []PictureIsCurrent
<1>1. PictureInv => PictureIsCurrent
  BY DEF PictureInv
<1>2. GraphInv /\ PictureInv /\ [GraphNext]_graphVars => PictureInv'
  BY PictureInvStep
<1> QED BY <1>1, <1>2, PictureInvInit, GraphInvInit, GraphInvStep, PTL DEF GraphSpec

-----------------------------------------------------------------------------
(* Quotients and products                                                  *)
LEMMA QuotientBounds ==
  ASSUME NEW n \in Int, NEW d \in Int, d > 0
  PROVE  /\ n \div d \in Int /\ d * (n \div d) \in Int
         /\ d * (n \div d) <= n /\ n < d * (n \div d) + d
<1> DEFINE q == n \div d
<1>1. q \in Int /\ n = d * q + (n % d) /\ n % d \in 0..(d - 1)
  OBVIOUS
<1> HIDE DEF q
<1>2. d * q \in Int
  BY <1>1
<1>3. d * q <= n /\ n < d * q + d
  BY <1>1, <1>2
<1> QED BY <1>1, <1>2, <1>3 DEF q

LEMMA ProductsGrow ==
  ASSUME NEW d \in Nat, NEW a \in Int, NEW b \in Int, a <= b
  PROVE  d * a \in Int /\ d * b \in Int /\ d * a <= d * b
<1>1. d * (b - a) \in Int /\ d * (b - a) >= 0
  <2> DEFINE c == b - a
  <2>1. c \in Nat
    OBVIOUS
  <2> HIDE DEF c
  <2>2. d * c \in Int /\ d * c >= 0
    BY <2>1
  <2> QED BY <2>2 DEF c
<1>2. d * (b - a) = d * b - d * a
  OBVIOUS
<1> QED BY <1>1, <1>2

LEMMA QuotientIsBetween ==
  ASSUME NEW n \in Int, NEW d \in Int, d > 0, NEW lo \in Int, NEW hi \in Int,
         d * lo <= n, n < d * hi + d
  PROVE  n \div d \in lo..hi
<1> DEFINE q == n \div d
<1>1. q \in Int /\ d * q \in Int /\ d * q <= n /\ n < d * q + d
  BY QuotientBounds
<1> HIDE DEF q
<1>2. d \in Nat /\ d * lo \in Int /\ d * hi \in Int
  OBVIOUS
<1>3. ~ q < lo
  <2> SUFFICES ASSUME q < lo PROVE FALSE
    OBVIOUS
  <2>1. q + 1 \in Int /\ q + 1 <= lo
    BY <1>1
  <2>2. d * (q + 1) <= d * lo /\ d * (q + 1) \in Int
    BY <1>2, <2>1, ProductsGrow
  <2>3. d * (q + 1) = d * q + d
    BY <1>1
  <2> QED BY <1>1, <1>2, <2>2, <2>3
<1>4. ~ q > hi
  <2> SUFFICES ASSUME q > hi PROVE FALSE
    OBVIOUS
  <2>1. hi + 1 \in Int /\ hi + 1 <= q
    BY <1>1
  <2>2. d * (hi + 1) <= d * q /\ d * (hi + 1) \in Int
    BY <1>1, <1>2, <2>1, ProductsGrow
  <2>3. d * (hi + 1) = d * hi + d
    OBVIOUS
  <2> QED BY <1>1, <1>2, <2>2, <2>3
<1>5. q \in lo..hi
  BY <1>1, <1>3, <1>4
<1> QED BY <1>5 DEF q

(* A part of something, in proportion                                      *)
LEMMA PartIsPart ==
  ASSUME NEW o \in Nat, NEW n \in Nat, NEW d \in Int, d > 0, o <= d
  PROVE  (o * n) \div d \in 0..n
<1>1. o * n \in Int /\ d * n \in Int /\ d * 0 = 0 /\ o * n >= 0
  OBVIOUS
<1>2. n * o <= n * d
  BY ProductsGrow
<1>3. n * o = o * n /\ n * d = d * n
  OBVIOUS
<1> DEFINE p == o * n
<1>4. p \in Int /\ d * 0 <= p /\ p < d * n + d
  BY <1>1, <1>2, <1>3
<1> HIDE DEF p
<1>5. p \div d \in 0..n
  BY <1>4, QuotientIsBetween
<1> QED BY <1>5 DEF p

LEMMA WholeOfIt ==
  ASSUME NEW n \in Int, NEW d \in Int, d > 0
  PROVE  (d * n) \div d = n
<1> DEFINE p == d * n
<1>1. p \in Int /\ d * n <= p /\ p < d * n + d
  OBVIOUS
<1> HIDE DEF p
<1>2. p \div d \in n..n
  BY <1>1, QuotientIsBetween
<1>3. p \div d = n
  BY <1>2
<1> QED BY <1>3 DEF p

(* What is scaled up and down again is itself or one less                  *)
LEMMA ThereAndBack ==
  ASSUME NEW o \in Nat, NEW span \in Int, NEW spare \in Int, 0 < spare, spare <= span
  PROVE  (((o * span) \div spare) * spare) \div span \in (o - 1)..o
<1> DEFINE p == o * span
           e == p \div spare
           n == e * spare
           low == o - 1
<1>1. p \in Int
  OBVIOUS
<1>2. e \in Int /\ spare * e \in Int /\ spare * e <= p /\ p < spare * e + spare
  <2> HIDE DEF p
  <2> QED BY <1>1, QuotientBounds
<1> HIDE DEF e
<1>3. n \in Int /\ n <= p /\ p < n + spare
  BY <1>2
<1>4. span * o = p /\ span * low = p - span /\ low \in Int
  OBVIOUS
<1> HIDE DEF n, p, low
<1>5. span * low <= n /\ n < span * o + span
  BY <1>1, <1>3, <1>4
<1>6. n \div span \in low..o
  BY <1>3, <1>4, <1>5, QuotientIsBetween
<1> QED BY <1>6 DEF n, low, e, p

-----------------------------------------------------------------------------
(* The ends of a plot that is laid out                                     *)
LEMMA EndsAreShown ==
  ASSUME NEW r \in RangeType, NEW before \in Int, NEW after \in Int, NEW plot \in Int, plot > 0,
         NEW extent \in Int, extent > 0, extent = before + plot + after,
         NEW m, m = Around(r, before, after, plot)
  PROVE  /\ m.hi - m.lo = Size(r) * extent /\ m.den = plot
         /\ ValueAt(m, before, extent) = r.first
         /\ ValueAt(m, before + plot, extent) = r.second
<1> DEFINE f == r.first
           s == r.second
           span == Size(r)
<1>1. f \in Int /\ s \in Int /\ span \in Int /\ s = f + span
  BY DEF RangeType, Size
<1>2. m.lo = f * plot - before * span /\ m.hi = s * plot + after * span /\ m.den = plot
  BY DEF Around, Linear
<1>0. ValueAt(m, before, extent) = (m.lo * extent + before * (m.hi - m.lo)) \div (m.den * extent)
      /\ ValueAt(m, before + plot, extent)
           = (m.lo * extent + (before + plot) * (m.hi - m.lo)) \div (m.den * extent)
  BY DEF ValueAt
<1> HIDE DEF f, s, span
<1> DEFINE den == plot * extent
<1>3. den \in Int /\ den > 0
  BY ProductIsPositive
<1>4. m.hi - m.lo = span * extent
  <2>1. s * plot = f * plot + span * plot
    BY <1>1
  <2>2. span * extent = span * before + span * plot + span * after
    BY <1>1
  <2> QED BY <1>1, <1>2, <2>1, <2>2
<1>5. m.lo * extent + before * (m.hi - m.lo) = den * f
  <2>1. m.lo * extent = (f * plot) * extent - (before * span) * extent
    BY <1>1, <1>2
  <2>2. before * (span * extent) = (before * span) * extent
    BY <1>1
  <2>3. (f * plot) * extent = den * f
    BY <1>1
  <2> QED BY <1>1, <1>4, <2>1, <2>2, <2>3
<1>6. m.lo * extent + (before + plot) * (m.hi - m.lo) = den * s
  <2>1. (before + plot) * (span * extent) = before * (span * extent) + plot * (span * extent)
    BY <1>1
  <2>2. plot * (span * extent) = den * span
    BY <1>1
  <2>3. den * s = den * f + den * span
    BY <1>1
  <2>4. m.lo * extent \in Int
    BY <1>1, <1>2
  <2> DEFINE low == m.lo * extent
             step == before * (span * extent)
             first == den * f
             more == den * span
  <2>5. low + step = first
    BY <1>4, <1>5
  <2>6. (before + plot) * (m.hi - m.lo) = step + more
    BY <1>4, <2>1, <2>2
  <2>7. step \in Int /\ first \in Int /\ more \in Int
    <3>1. span * extent \in Int
      BY <1>1
    <3> QED BY <1>1, <1>3, <3>1
  <2>8. den * s = first + more
    BY <2>3
  <2> HIDE DEF low, step, first, more, den
  <2>9. low + (step + more) = first + more
    BY <2>4, <2>5, <2>7 DEF low
  <2> QED BY <2>6, <2>8, <2>9 DEF low
<1>7. m.den * extent = den
  BY <1>2
<1> HIDE DEF den
<1>8. (den * f) \div den = f /\ (den * s) \div den = s
  BY <1>1, <1>3, WholeOfIt
<1>9. ValueAt(m, before, extent) = f /\ ValueAt(m, before + plot, extent) = s
  BY <1>0, <1>5, <1>6, <1>7, <1>8
<1> QED BY <1>2, <1>4, <1>9 DEF f, s, span

LEMMA PlotShowsItsAxes ==
  ASSUME GraphInv, PlotInv
  PROVE  CornersShowTheRanges /\ ScalesFitThePlot
<1> SUFFICES ASSUME PlotIsDrawn
             PROVE  CornersShowTheRanges /\ ScalesFitThePlot
  BY DEF CornersShowTheRanges, ScalesFitThePlot
<1> DEFINE l == layout
           r == Painted(axes[Across], Across)
           s == Painted(axes[1 - Across], 1 - Across)
<1>1. /\ Framed(l, r, s)
      /\ \A a \in {0, 1} :
           /\ axes[a].bar = (Barred /\ a = 0)
           /\ axes[a].inv = <<Size(Painted(axes[a], a)), IF IsAxisHorizontal(a) THEN l.pw ELSE l.ph>>
  BY DEF PlotInv, PlotIsDrawn, AllValid, Laid
<1>2. /\ l.w \in Nat /\ l.h \in Nat /\ l.x \in Nat /\ l.y = 0 /\ l.pw \in Int /\ l.ph \in Int
      /\ l.w > 0 /\ l.h > 0 /\ l.pw > 0 /\ l.ph > 0
  BY <1>1 DEF GraphInv, Sound, Layouts, Roomy, PlotIsDrawn, HasRoom, Framed
<1>3. {0, 1} \subseteq Axes /\ Across \in {0, 1} /\ 1 - Across \in {0, 1}
  BY DEF Axes, NumAxes, Across
<1>4. r \in RangeType /\ s \in RangeType
  <2>1. \A a \in {0, 1} : axes[a].current \in RangeType
    BY <1>3, ExtentsAreRanges DEF GraphInv, AxesInv, AxisInv
  <2> QED BY <1>3, <2>1 DEF Painted, LabelRange, Between, RangeType
<1>5. r = ShownOf(axes[Across]) /\ s = ShownOf(axes[1 - Across])
  BY <1>1, <1>3 DEF Painted, ShownOf
<1> DEFINE m == l.xs[1]
           n == l.ys[1]
<1>6. /\ m.hi - m.lo = Size(r) * l.w /\ m.den = l.pw
      /\ ValueAt(m, l.x, l.w) = r.first
      /\ ValueAt(m, l.x + l.pw, l.w) = r.second
  <2>1. m = Around(r, l.x, l.w - l.x - l.pw, l.pw)
    BY <1>1 DEF Framed
  <2>2. l.w - l.x - l.pw \in Int /\ l.w = l.x + l.pw + (l.w - l.x - l.pw)
    BY <1>2
  <2> HIDE DEF m, r, l
  <2> QED BY <1>2, <1>4, <2>1, <2>2, EndsAreShown
<1>7. /\ n.hi - n.lo = Size(s) * l.h /\ n.den = l.ph
      /\ ValueAt(n, l.h - l.ph, l.h) = s.first
      /\ ValueAt(n, l.h - l.ph + l.ph, l.h) = s.second
  <2>1. n = Around(s, l.h - l.ph, 0, l.ph)
    BY <1>1 DEF Framed
  <2>2. l.h - l.ph \in Int /\ l.h = (l.h - l.ph) + l.ph + 0
    BY <1>2
  <2> HIDE DEF n, s, l
  <2> QED BY <1>2, <1>4, <2>1, <2>2, EndsAreShown
<1>8. CornersShowTheRanges
  <2>1. /\ PixelToData(l, 1, <<l.x, l.y>>) = <<ValueAt(m, l.x, l.w), ValueAt(n, l.h - l.y, l.h)>>
        /\ PixelToData(l, 1, <<l.x + l.pw, l.y + l.ph>>)
              = <<ValueAt(m, l.x + l.pw, l.w), ValueAt(n, l.h - (l.y + l.ph), l.h)>>
    BY DEF PixelToData, PlotOf
  <2>2. l.h - l.y = l.h - l.ph + l.ph /\ l.h - (l.y + l.ph) = l.h - l.ph
    BY <1>2
  <2>3. r = Between(r.first, r.second) /\ s = Between(s.first, s.second)
    BY <1>4 DEF RangeType, Between
  <2> HIDE DEF m, n, r, s
  <2>4. /\ PixelToData(l, 1, <<l.x, l.y>>) = <<r.first, s.second>>
        /\ PixelToData(l, 1, <<l.x + l.pw, l.y + l.ph>>) = <<r.second, s.first>>
    BY <1>6, <1>7, <2>1, <2>2
  <2> QED BY <1>5, <2>3, <2>4 DEF CornersShowTheRanges
<1>9. ScalesFitThePlot
  <2> SUFFICES ASSUME NEW a \in {0, 1}
               PROVE  LET across == IsAxisHorizontal(a)
                          map == IF across THEN l.xs[1] ELSE l.ys[1]
                          extent == IF across THEN l.w ELSE l.h
                      IN  axes[a].inv[1] * map.den * extent = axes[a].inv[2] * (map.hi - map.lo)
    BY DEF ScalesFitThePlot
  <2>1. Size(r) \in Int /\ Size(s) \in Int
    BY <1>4 DEF Size, RangeType
  <2>2. CASE IsAxisHorizontal(a)
    <3>1. a = Across
      BY <2>2 DEF IsAxisHorizontal, Across
    <3>2. axes[a].inv = <<Size(r), l.pw>>
      BY <1>1, <2>2, <3>1
    <3> HIDE DEF r, m
    <3> DEFINE z == Size(r)
    <3> HIDE DEF z
    <3>3. z * l.pw * l.w = l.pw * (z * l.w)
      BY <1>2, <2>1 DEF z
    <3>4. axes[a].inv[1] = z /\ axes[a].inv[2] = l.pw
      BY <3>2 DEF z
    <3>5. axes[a].inv[1] * m.den * l.w = axes[a].inv[2] * (m.hi - m.lo)
      BY <1>6, <3>3, <3>4 DEF z
    <3> QED BY <2>2, <3>5 DEF m
  <2>3. CASE ~IsAxisHorizontal(a)
    <3>1. a = 1 - Across
      BY <2>3 DEF IsAxisHorizontal, Across
    <3>2. axes[a].inv = <<Size(s), l.ph>>
      BY <1>1, <2>3, <3>1
    <3> HIDE DEF s, n
    <3> DEFINE z == Size(s)
    <3> HIDE DEF z
    <3>3. z * l.ph * l.h = l.ph * (z * l.h)
      BY <1>2, <2>1 DEF z
    <3>4. axes[a].inv[1] = z /\ axes[a].inv[2] = l.ph
      BY <3>2 DEF z
    <3>5. axes[a].inv[1] * n.den * l.h = axes[a].inv[2] * (n.hi - n.lo)
      BY <1>7, <3>3, <3>4 DEF z
    <3> QED BY <2>3, <3>5 DEF n
  <2> QED BY <2>2, <2>3
<1> QED BY <1>8, <1>9

(* The values of a sorted sequence that are less than p are its first ones  *)
Less(values, p) == {k \in 1..Len(values) : values[k] < p}

LEMMA LessAreFirst ==
  ASSUME NEW values \in Seq(Int), Ascending(values), NEW p \in Int
  PROVE  \E b \in 0..Len(values) : Less(values, p) = 1..b /\ Cardinality(Less(values, p)) = b
<1> DEFINE n == Len(values)
           rest == (1..n + 1) \ Less(values, p)
<1>1. n \in Nat /\ \A k \in 1..n : values[k] \in Int
  OBVIOUS
<1>2. rest \in SUBSET Nat /\ n + 1 \in rest
  BY <1>1 DEF Less
<1>3. PICK m \in rest : \A k \in rest : m <= k
  BY <1>2, LeastIsThere
<1>4. m \in 1..n + 1 /\ m - 1 \in 0..n
  BY <1>1, <1>2
<1>5. ASSUME NEW k \in 1..n
      PROVE  values[k] < p <=> k <= m - 1
  <2>1. CASE k <= m - 1
    <3>1. k \notin rest
      BY <1>2, <1>3, <1>4, <2>1
    <3> QED BY <1>1, <2>1, <3>1 DEF Less
  <2>2. CASE m <= k
    <3>1. m \in 1..n /\ ~(values[m] < p)
      BY <1>1, <1>4, <2>2 DEF Less
    <3>2. values[m] <= values[k]
      BY <1>1, <2>2, <3>1 DEF Ascending
    <3> QED BY <1>1, <1>4, <2>2, <3>1, <3>2
  <2> QED BY <1>4, <2>1, <2>2
<1>6. Less(values, p) = 1..m - 1
  BY <1>1, <1>4, <1>5 DEF Less
<1>7. Cardinality(1..m - 1) = m - 1
  BY <1>4, FS_Interval
<1> QED BY <1>4, <1>6, <1>7

(* The neighbours of a value: the shares of the one that is less and the   *)
(* next add up to the whole, and who has a share is near                   *)
Weighs(values, p, i, a, b) ==
  /\ i \in 1..Len(values) /\ a \in Nat /\ b \in Nat /\ a + b > 0
  /\ i = Len(values) => b = 0
  /\ a > 0 => Near(values, p, i)
  /\ b > 0 => Near(values, p, i + 1)
  /\ Neighbours(values, p) =
       {<<i, a, a + b>>} \cup IF i = Len(values) THEN {} ELSE {<<i + 1, b, a + b>>}

LEMMA NeighboursAreSound ==
  ASSUME NEW values \in Seq(Int), Ascending(values), NEW p \in Int
  PROVE  \E i, a, b : Weighs(values, p, i, a, b)
<1> DEFINE n == Len(values)
<1>1. n \in Nat \ {0} /\ \A k \in 1..n : values[k] \in Int
  BY DEF Ascending
<1>2. PICK below \in 0..n : Less(values, p) = 1..below /\ Cardinality(Less(values, p)) = below
  BY LessAreFirst
<1>3. \A k \in 1..n : values[k] < p <=> k <= below
  BY <1>1, <1>2 DEF Less
<1> DEFINE i == IF below = 0 THEN 1 ELSE below
<1>4. i \in 1..n /\ Greater(below, 1) = i
  BY <1>1 DEF Greater
<1>5. \A j, k \in 1..n : j < k <=> values[j] < values[k]
  BY <1>1 DEF Ascending
<1>6. CASE i = n
  <2>1. Neighbours(values, p) = {<<n, 1, 1>>}
    BY <1>2, <1>4, <1>6 DEF Neighbours, Less
  <2>2. Near(values, p, n)
    <3> SUFFICES ASSUME NEW j \in 1..n
                 PROVE  ~(values[n] < values[j]) /\ ~(p <= values[j] /\ values[j] < values[n])
      BY DEF Near
    <3>1. ~(values[n] < values[j])
      BY <1>1, <1>5
    <3>2. ~(p <= values[j] /\ values[j] < values[n])
      BY <1>1, <1>3, <1>5, <1>6
    <3> QED BY <3>1, <3>2
  <2>3. Weighs(values, p, n, 1, 0)
    BY <1>1, <2>1, <2>2 DEF Weighs
  <2> QED BY <2>3
<1>7. CASE i < n
  <2> DEFINE whole == values[i + 1] - values[i]
             part == Lesser(Greater(p - values[i], 0), whole)
  <2>1. i + 1 \in 1..n /\ values[i] \in Int /\ values[i + 1] \in Int /\ values[i] < values[i + 1]
    BY <1>1, <1>4, <1>5, <1>7
  <2>2. whole \in Nat \ {0} /\ part \in 0..whole
    BY <2>1 DEF Lesser, Greater
  <2>3. Neighbours(values, p) = {<<i, whole - part, whole>>, <<i + 1, part, whole>>}
    <3>1. Greater(Cardinality({k \in 1..Len(values) : values[k] < p}), 1) = i
      BY <1>2, <1>4 DEF Less
    <3> HIDE DEF i
    <3>2. i # Len(values)
      BY <1>1, <1>4, <1>7
    <3> QED BY <3>1, <3>2 DEF Neighbours
  <2>4. Near(values, p, i)
    <3> SUFFICES ASSUME NEW j \in 1..n
                 PROVE  /\ ~(values[i] < values[j] /\ values[j] < p)
                        /\ ~(p <= values[j] /\ values[j] < values[i])
      BY DEF Near
    <3> QED BY <1>1, <1>3, <1>4, <1>5
  <2>5. ASSUME part > 0
        PROVE  Near(values, p, i + 1)
    <3>1. values[i] < p
      BY <2>1, <2>5 DEF Lesser, Greater
    <3>2. below = i
      BY <1>3, <1>4, <3>1
    <3> SUFFICES ASSUME NEW j \in 1..n
                 PROVE  /\ ~(values[i + 1] < values[j] /\ values[j] < p)
                        /\ ~(p <= values[j] /\ values[j] < values[i + 1])
      BY DEF Near
    <3> QED BY <1>1, <1>3, <1>5, <2>1, <3>2
  <2>6. whole - part \in Nat /\ part \in Nat /\ (whole - part) + part = whole
    BY <2>2
  <2> HIDE DEF whole, part, i
  <2>7. Weighs(values, p, i, whole - part, part)
    BY <1>4, <1>7, <2>2, <2>3, <2>4, <2>5, <2>6 DEF Weighs
  <2> QED BY <2>7
<1> HIDE DEF i
<1> QED BY <1>1, <1>4, <1>6, <1>7

(* So do the shares of the four around a point                             *)
LEMMA ProductsAreShares ==
  ASSUME NEW a \in Nat, NEW b \in Nat, NEW c \in Nat, NEW d \in Nat, a + b > 0, c + d > 0
  PROVE  /\ a * c + b * c + a * d + b * d = (a + b) * (c + d)
         /\ (a + b) * (c + d) \in Nat /\ (a + b) * (c + d) > 0
<1>1. (a + b) * (c + d) = (a + b) * c + (a + b) * d
  OBVIOUS
<1>2. (a + b) * c = a * c + b * c /\ (a + b) * d = a * d + b * d
  OBVIOUS
<1>3. a + b \in Int /\ c + d \in Int
  OBVIOUS
<1>4. (a + b) * (c + d) \in Int /\ (a + b) * (c + d) > 0
  BY <1>3, ProductIsPositive
<1>5. a * c \in Int /\ b * c \in Int /\ a * d \in Int /\ b * d \in Int
  OBVIOUS
<1> QED BY <1>1, <1>2, <1>4, <1>5

LEMMA FactorsArePositive ==
  ASSUME NEW a \in Nat, NEW b \in Nat
  PROVE  a * b \in Nat /\ (a * b > 0 => a > 0 /\ b > 0)
<1>1. a = 0 \/ b = 0 => a * b = 0
  OBVIOUS
<1>2. a * b \in Nat
  OBVIOUS
<1> QED BY <1>1, <1>2

LEMMA MixIsSound ==
  ASSUME NEW xs \in Seq(Int), NEW ys \in Seq(Int), Ascending(xs), Ascending(ys),
         NEW point \in Int \X Int, NEW grid, grid.xs = xs, grid.ys = ys
  PROVE  SharesAreSound(xs, ys, point, Contributions(grid, point))
<1>1. point[1] \in Int /\ point[2] \in Int
  OBVIOUS
<1>2. PICK i, a, b : Weighs(xs, point[1], i, a, b)
  BY <1>1, NeighboursAreSound
<1>3. PICK j, c, d : Weighs(ys, point[2], j, c, d)
  BY <1>1, NeighboursAreSound
<1>4. /\ i \in 1..Len(xs) /\ a \in Nat /\ b \in Nat /\ a + b > 0 /\ (i = Len(xs) => b = 0)
      /\ j \in 1..Len(ys) /\ c \in Nat /\ d \in Nat /\ c + d > 0 /\ (j = Len(ys) => d = 0)
  BY <1>2, <1>3 DEF Weighs
<1> DEFINE whole == (a + b) * (c + d)
           shares == Contributions(grid, point)
           left == [k \in {i, i + 1} |-> IF k = i THEN a ELSE b]
           low == [k \in {j, j + 1} |-> IF k = j THEN c ELSE d]
           across == {i} \cup IF i = Len(xs) THEN {} ELSE {i + 1}
           up == {j} \cup IF j = Len(ys) THEN {} ELSE {j + 1}
<1>5. /\ left[i] = a /\ left[i + 1] = b /\ low[j] = c /\ low[j + 1] = d
      /\ \A k \in {i, i + 1} : left[k] \in Nat
      /\ \A k \in {j, j + 1} : low[k] \in Nat
  BY <1>4
<1>6. /\ Neighbours(xs, point[1]) = {<<k, left[k], a + b>> : k \in across}
      /\ Neighbours(ys, point[2]) = {<<k, low[k], c + d>> : k \in up}
  <2>1. Neighbours(xs, point[1]) = {<<k, left[k], a + b>> : k \in across}
    <3>1. CASE i = Len(xs)
      BY <1>2, <1>5, <3>1 DEF Weighs
    <3>2. CASE i # Len(xs)
      BY <1>2, <1>5, <3>2 DEF Weighs
    <3> QED BY <3>1, <3>2
  <2>2. Neighbours(ys, point[2]) = {<<k, low[k], c + d>> : k \in up}
    <3>1. CASE j = Len(ys)
      BY <1>3, <1>5, <3>1 DEF Weighs
    <3>2. CASE j # Len(ys)
      BY <1>3, <1>5, <3>2 DEF Weighs
    <3> QED BY <3>1, <3>2
  <2> QED BY <2>1, <2>2
<1>7. /\ across \subseteq {i, i + 1} /\ across \subseteq 1..Len(xs)
      /\ up \subseteq {j, j + 1} /\ up \subseteq 1..Len(ys)
  BY <1>4
<1>8. /\ \A k \in across : left[k] > 0 => Near(xs, point[1], k)
      /\ \A k \in up : low[k] > 0 => Near(ys, point[2], k)
  BY <1>2, <1>3, <1>5, <1>7 DEF Weighs
<1>9. i + 1 \notin across => left[i + 1] = 0
  BY <1>4, <1>5
<1>10. j + 1 \notin up => low[j + 1] = 0
  BY <1>4, <1>5
<1>11. i \in across /\ j \in up
  OBVIOUS
<1> HIDE DEF left, low, across, up
<1> DEFINE Share(k, l) == [x |-> k, y |-> l, part |-> left[k] * low[l], whole |-> whole]
<1>12. /\ \A k \in across, l \in up : Share(k, l) \in shares
       /\ \A s \in shares : \E k \in across, l \in up : s = Share(k, l)
  <2> DEFINE beside == Neighbours(xs, point[1])
             above == Neighbours(ys, point[2])
             Mixed(u, v) == [x |-> u[1], y |-> v[1], part |-> u[2] * v[2], whole |-> u[3] * v[3]]
  <2>1. shares = {Mixed(u, v) : u \in beside, v \in above}
    BY DEF Contributions
  <2>2. \A k, l : Mixed(<<k, left[k], a + b>>, <<l, low[l], c + d>>) = Share(k, l)
    OBVIOUS
  <2>3. /\ \A k \in across : <<k, left[k], a + b>> \in beside
        /\ \A u \in beside : \E k \in across : u = <<k, left[k], a + b>>
    BY <1>6
  <2>4. /\ \A l \in up : <<l, low[l], c + d>> \in above
        /\ \A v \in above : \E l \in up : v = <<l, low[l], c + d>>
    BY <1>6
  <2> HIDE DEF beside, above, Mixed, Share, shares
  <2>5. ASSUME NEW k \in across, NEW l \in up
        PROVE  Share(k, l) \in shares
    <3>1. Mixed(<<k, left[k], a + b>>, <<l, low[l], c + d>>) \in shares
      BY <2>1, <2>3, <2>4
    <3> QED BY <2>2, <3>1, Zenon
  <2>6. ASSUME NEW s \in shares
        PROVE  \E k \in across, l \in up : s = Share(k, l)
    <3>1. PICK u \in beside, v \in above : s = Mixed(u, v)
      BY <2>1
    <3>2. PICK k \in across : u = <<k, left[k], a + b>>
      BY <2>3
    <3>3. PICK l \in up : v = <<l, low[l], c + d>>
      BY <2>4
    <3> QED BY <2>2, <3>1, <3>2, <3>3, Zenon
  <2> QED BY <2>5, <2>6
<1>13. whole \in Nat /\ whole > 0 /\ a * c + b * c + a * d + b * d = whole
  <2>1. a \in Nat /\ b \in Nat /\ c \in Nat /\ d \in Nat /\ a + b > 0 /\ c + d > 0
    BY <1>4
  <2> HIDE DEF whole
  <2>2. /\ a * c + b * c + a * d + b * d = (a + b) * (c + d)
        /\ (a + b) * (c + d) \in Nat /\ (a + b) * (c + d) > 0
    BY <2>1, ProductsAreShares, Zenon
  <2> QED BY <2>2 DEF whole
<1>0. \A k, l : /\ Share(k, l).x = k /\ Share(k, l).y = l /\ Share(k, l).part = left[k] * low[l]
                /\ Share(k, l).whole = whole
  OBVIOUS
<1> HIDE DEF whole, shares, Share
<1>14. ASSUME NEW k \in {i, i + 1}, NEW l \in {j, j + 1}
       PROVE  PartOf(shares, k, l) = left[k] * low[l]
  <2>1. CASE k \in across /\ l \in up
    <3>1. \A s \in shares : s.x = k /\ s.y = l => s.part = left[k] * low[l]
      BY <1>0, <1>12
    <3>2. \E s \in shares : s.x = k /\ s.y = l
      BY <1>0, <1>12, <2>1
    <3> QED BY <3>1, <3>2 DEF PartOf
  <2>2. CASE ~(k \in across /\ l \in up)
    <3>1. ~\E s \in shares : s.x = k /\ s.y = l
      BY <1>0, <1>12, <2>2
    <3>2. left[k] = 0 \/ low[l] = 0
      BY <1>9, <1>10, <1>11, <2>2
    <3>3. left[k] * low[l] = 0
      BY <1>5, <3>2
    <3> QED BY <3>1, <3>3 DEF PartOf
  <2> QED BY <2>1, <2>2
<1>15. PartOf(shares, i, j) + PartOf(shares, i + 1, j) + PartOf(shares, i, j + 1)
         + PartOf(shares, i + 1, j + 1) = whole
  BY <1>5, <1>13, <1>14
<1>16. ASSUME NEW s \in shares
       PROVE  /\ s.x \in 1..Len(xs) /\ s.y \in 1..Len(ys) /\ s.part >= 0 /\ s.whole > 0
              /\ s.part > 0 => Near(xs, point[1], s.x) /\ Near(ys, point[2], s.y)
              /\ s.x \in {i, i + 1} /\ s.y \in {j, j + 1} /\ s.whole = whole
  <2>1. PICK k \in across, l \in up : s = Share(k, l)
    BY <1>12
  <2>2. left[k] \in Nat /\ low[l] \in Nat
    BY <1>5, <1>7
  <2>3. left[k] * low[l] \in Nat /\ (left[k] * low[l] > 0 => left[k] > 0 /\ low[l] > 0)
    BY <2>2, FactorsArePositive
  <2>4. s.x = k /\ s.y = l /\ s.part = left[k] * low[l] /\ s.whole = whole
    BY <1>0, <2>1
  <2> QED BY <1>7, <1>8, <1>13, <2>3, <2>4
<1> QED BY <1>4, <1>15, <1>16 DEF SharesAreSound, shares

LEMMA DensityMixesItsData ==
  ASSUME GraphInv, DrawnInv
  PROVE  InterpolationIsSound
<1> SUFFICES ASSUME kind = "DENSITY", layout.w > 0,
                    NEW x \in 0..layout.pw - 1, NEW y \in 0..layout.ph - 1
             PROVE  LET point == PixelToData(layout, 2, <<layout.x + x, layout.y + y>>)
                    IN  SharesAreSound(config.grid.xs, config.grid.ys, point,
                                       Contributions(config.grid, point))
  BY DEF InterpolationIsSound
<1> DEFINE pixel == <<layout.x + x, layout.y + y>>
<1>1. Sound(layout) /\ Roomy(layout) /\ layout.x \in Nat /\ layout.y \in Nat
  BY DEF GraphInv, Sound, Layouts, Roomy
<1>2. pixel \in Int \X Int /\ 2 \in Axes
  BY <1>1 DEF Axes, NumAxes
<1>3. PixelToData(layout, 2, pixel) \in Int \X Int
  BY <1>1, <1>2, PixelIsNumber
<1>4. /\ config.grid.xs \in Seq(Int) /\ config.grid.ys \in Seq(Int)
      /\ Ascending(config.grid.xs) /\ Ascending(config.grid.ys)
  BY ConfigAssumption DEF GraphInv, DrawnInv, Configured
<1> QED BY <1>3, <1>4, MixIsSound

(* Once FLTK has nothing more to draw, the corners of the plot are the ends *)
(* of the ranges, a drag moves each axis by what its pixels show, and the  *)
(* pixels of a density plot are mixed from the nearest data, for every font, *)
(* size and configuration (zc_graph_.cpp: the layout functions)            *)
THEOREM PlotStaysInPlace == GraphSpec => []PlotShowsTheRanges
<1>1. GraphInv /\ PictureInv /\ DrawnInv => PlotShowsTheRanges
  BY PlotShowsItsAxes, DensityMixesItsData DEF PictureInv, PlotShowsTheRanges
<1>2. GraphInv /\ PictureInv /\ [GraphNext]_graphVars => PictureInv'
  BY PictureInvStep
<1>3. GraphInv /\ DrawnInv /\ [GraphNext]_graphVars => DrawnInv'
  BY DrawnInvStep
<1> QED BY <1>1, <1>2, <1>3, PictureInvInit, DrawnInvInit, GraphInvInit, GraphInvStep, PTL DEF GraphSpec

-----------------------------------------------------------------------------
(* The scroll bar: what it shows lies in its bounds, and the slider where  *)
(* it is drawn for that                                                    *)
Shows(bounds, range) == IsValid(range) => ContainsRange(bounds, range)
InPlace(bounds, range, drawn) == FromDrawn(bounds, range, drawn) - range.first \in {-1, 0}

BarInv ==
  /\ barBounds \in RangeType /\ IsValid(barBounds)
  /\ barValue \in RangeType /\ barDrawn \in Int
  /\ Shows(barBounds, barValue)
  /\ IsValid(barValue) /\ barSynced => InPlace(barBounds, barValue, barDrawn)

LEMMA PlaceIsNumber ==
  ASSUME NEW bounds \in RangeType, NEW range \in RangeType, NEW drawn \in Int
  PROVE  ToDrawn(bounds, range) \in Int /\ FromDrawn(bounds, range, drawn) \in Int
<1> DEFINE total == bounds.second - bounds.first
           spare == total - (range.second - range.first)
           offset == range.first - bounds.first
           p == offset * total
           n == (drawn - bounds.first) * spare
<1>1. bounds.first \in Int /\ total \in Int /\ spare \in Int /\ offset \in Int
  BY DEF RangeType
<1>2. ToDrawn(bounds, range) = bounds.first + (IF spare > 0 THEN p \div spare ELSE offset)
  BY DEF ToDrawn, Size
<1>3. FromDrawn(bounds, range, drawn) = IF total > 0 THEN bounds.first + n \div total ELSE drawn
  BY DEF FromDrawn, Size
<1> HIDE DEF total, spare, offset
<1>4. p \in Int /\ n \in Int
  BY <1>1
<1> HIDE DEF p, n
<1>5. spare > 0 => p \div spare \in Int
  BY <1>1, <1>4, QuotientBounds
<1>6. total > 0 => n \div total \in Int
  BY <1>1, <1>4, QuotientBounds
<1> QED BY <1>1, <1>2, <1>3, <1>5, <1>6

LEMMA DrawnWhereItIs ==
  ASSUME NEW bounds \in RangeType, IsValid(bounds), NEW range \in RangeType, IsValid(range),
         ContainsRange(bounds, range)
  PROVE  InPlace(bounds, range, ToDrawn(bounds, range))
<1> DEFINE total == bounds.second - bounds.first
           spare == total - (range.second - range.first)
           offset == range.first - bounds.first
           p == offset * total
           e == p \div spare
           n == e * spare
<1>1. /\ bounds.first \in Int /\ range.first \in Int /\ total \in Int /\ spare \in Int /\ offset \in Nat
      /\ 0 <= spare /\ spare <= total /\ range.first = bounds.first + offset /\ offset <= spare
  BY DEF RangeType, ContainsRange, IsValid
<1>2. ToDrawn(bounds, range) = bounds.first + (IF spare > 0 THEN e ELSE offset)
  BY DEF ToDrawn, Size
<1>3. \A d : FromDrawn(bounds, range, d)
             = IF total > 0 THEN bounds.first + ((d - bounds.first) * spare) \div total ELSE d
  BY DEF FromDrawn, Size
<1>4. CASE spare > 0
  <2>1. total > 0
    BY <1>1, <1>4
  <2>2. n \div total \in (offset - 1)..offset
    <3> HIDE DEF total, spare, offset
    <3> QED BY <1>1, <1>4, ThereAndBack
  <2>3. e \in Int
    <3> HIDE DEF total, spare, offset
    <3>1. p \in Int
      BY <1>1
    <3> HIDE DEF p
    <3> QED BY <1>1, <1>4, <3>1, QuotientBounds
  <2> HIDE DEF total, spare, offset, e
  <2>4. ToDrawn(bounds, range) = bounds.first + e
    BY <1>2, <1>4
  <2>5. (bounds.first + e) - bounds.first = e
    BY <1>1, <2>3
  <2>6. FromDrawn(bounds, range, ToDrawn(bounds, range)) = bounds.first + n \div total
    BY <1>3, <2>1, <2>4, <2>5
  <2> DEFINE q == n \div total
  <2> HIDE DEF n, q
  <2>7. q \in (offset - 1)..offset /\ FromDrawn(bounds, range, ToDrawn(bounds, range)) = bounds.first + q
    BY <2>2, <2>6 DEF q
  <2> QED BY <1>1, <2>7 DEF InPlace
<1>5. CASE spare = 0
  <2>1. offset = 0 /\ range.first = bounds.first
    BY <1>1, <1>5
  <2>2. ToDrawn(bounds, range) = bounds.first
    BY <1>1, <1>2, <1>5, <2>1
  <2>3. total > 0 => ((bounds.first - bounds.first) * spare) \div total = 0
    <3>1. (bounds.first - bounds.first) * spare = 0
      BY <1>1
    <3> HIDE DEF total
    <3> SUFFICES ASSUME total > 0 PROVE 0 \div total = 0
      BY <3>1
    <3> QED BY <1>1, WholeOfIt, total * 0 = 0
  <2>4. FromDrawn(bounds, range, bounds.first) = bounds.first
    <3> HIDE DEF total, spare, offset
    <3> QED BY <1>1, <1>3, <2>3
  <2> QED BY <1>1, <2>1, <2>2, <2>4 DEF InPlace
<1> QED BY <1>1, <1>4, <1>5

LEMMA ValidatedIsShown ==
  ASSUME NEW bounds \in RangeType, IsValid(bounds), NEW range \in RangeType,
         NEW value, value = Validated(bounds, range)
  PROVE  /\ value \in RangeType /\ Shows(bounds, value)
         /\ \A v \in Int : InRange(bounds, v) /\ InRange(range, v) => InRange(value, v)
<1> DEFINE common == Common(range, bounds)
<1>1. /\ common \in RangeType
      /\ \A v \in Int : InRange(bounds, v) /\ InRange(range, v) =>
           InRange(common, v) /\ ContainsRange(bounds, common)
  BY DEF RangeType, Common, Between, Lesser, Greater, EmptyRange, LOWER_BOUND, UPPER_BOUND, InRange, ContainsRange
<1>2. value = IF ContainsRange(bounds, range) THEN range
              ELSE IF ContainsRange(bounds, common) THEN common ELSE bounds
  BY DEF Validated
<1>3. ContainsRange(bounds, bounds)
  BY DEF ContainsRange, RangeType
<1> HIDE DEF common
<1> QED BY <1>1, <1>2, <1>3 DEF Shows

LEMMA SetKeepsBar ==
  ASSUME NEW bounds \in RangeType, IsValid(bounds), barBounds' = bounds, NEW range \in RangeType,
         SetValue(bounds, range)
  PROVE  /\ BarInv'
         /\ \A v \in Int : InRange(bounds, v) /\ InRange(range, v) => InRange(barValue', v)
<1> DEFINE value == Validated(bounds, range)
<1>1. /\ barValue' = value /\ barDrawn' = IF IsValid(value) THEN ToDrawn(bounds, value) ELSE bounds.first
      /\ barSynced'
  BY DEF SetValue
<1>2. /\ value \in RangeType /\ Shows(bounds, value)
      /\ \A v \in Int : InRange(bounds, v) /\ InRange(range, v) => InRange(value, v)
  BY ValidatedIsShown
<1> HIDE DEF value
<1>3. barDrawn' \in Int
  BY <1>1, <1>2, PlaceIsNumber, bounds.first \in Int DEF RangeType
<1>4. IsValid(value) => InPlace(bounds, value, barDrawn')
  BY <1>1, <1>2, DrawnWhereItIs DEF Shows
<1> QED BY <1>1, <1>2, <1>3, <1>4 DEF BarInv

(* Where the slider is left within its bounds, there is room for what is   *)
(* shown                                                                   *)
LEMMA SlideHasRoom ==
  ASSUME BarInv, IsValid(barValue), Size(barValue) > 0,
         NEW drawn \in Int, InRange(barBounds, drawn)
  PROVE  /\ FromDrawn(barBounds, barValue, drawn) \in barBounds.first..(barBounds.second - Size(barValue))
         /\ drawn = barBounds.first => FromDrawn(barBounds, barValue, drawn) = barBounds.first
         /\ drawn = barBounds.second =>
              FromDrawn(barBounds, barValue, drawn) = barBounds.second - Size(barValue)
<1> DEFINE total == barBounds.second - barBounds.first
           spare == total - Size(barValue)
           o == drawn - barBounds.first
<1>1. /\ {barBounds.first, barBounds.second, barValue.first, barValue.second} \subseteq Int
      /\ Size(barValue) \in Int
      /\ total \in Int /\ total > 0 /\ spare \in Nat /\ o \in Nat /\ o <= total
      /\ drawn = barBounds.first <=> o = 0
      /\ drawn = barBounds.second <=> o = total
      /\ barBounds.first + spare = barBounds.second - Size(barValue)
  BY DEF BarInv, Shows, RangeType, ContainsRange, IsValid, InRange, Size
<1>2. FromDrawn(barBounds, barValue, drawn) = barBounds.first + (o * spare) \div total
  BY <1>1 DEF FromDrawn, Size
<1> HIDE DEF total, spare, o
<1>3. (o * spare) \div total \in 0..spare
  BY <1>1, PartIsPart
<1>4. o = 0 => (o * spare) \div total = 0
  <2>1. (total * 0) \div total = 0 /\ total * 0 = 0 /\ 0 * spare = 0
    BY <1>1, WholeOfIt
  <2> QED BY <2>1
<1>5. o = total => (o * spare) \div total = spare
  BY <1>1, WholeOfIt
<1> DEFINE k == (o * spare) \div total
<1> HIDE DEF k
<1>6. /\ FromDrawn(barBounds, barValue, drawn) = barBounds.first + k /\ k \in 0..spare
      /\ (o = 0 => k = 0) /\ (o = total => k = spare)
  BY <1>2, <1>3, <1>4, <1>5 DEF k
<1> QED BY <1>1, <1>6

LEMMA SlideKeepsBar ==
  ASSUME BarInv, IsValid(barValue), Size(barValue) > 0,
         NEW drawn \in Int, InRange(barBounds, drawn), Slide(drawn)
  PROVE  /\ BarInv'
         /\ drawn = barBounds.first => barValue'.first = barBounds.first
         /\ drawn = barBounds.second => barValue'.second = barBounds.second
<1> DEFINE span == Size(barValue)
           first == FromDrawn(barBounds, barValue, drawn)
<1>1. /\ {barBounds.first, barBounds.second, barValue.first, barValue.second} \subseteq Int
      /\ span \in Int /\ span > 0 /\ barValue.second = barValue.first + span
      /\ barBounds \in RangeType /\ barValue \in RangeType /\ ContainsRange(barBounds, barValue)
      /\ IsValid(barBounds)
  BY DEF BarInv, Shows, RangeType, Size
<1>2. /\ first \in barBounds.first..(barBounds.second - span)
      /\ drawn = barBounds.first => first = barBounds.first
      /\ drawn = barBounds.second => first = barBounds.second - span
  BY SlideHasRoom
<1>3. ~ (barBounds.second - first < span) /\ first \in Int
  <2> HIDE DEF first, span
  <2> QED BY <1>1, <1>2
<1>4. /\ barDrawn' = drawn
      /\ IF first = barValue.first THEN barValue' = barValue ELSE barValue' = Between(first, first + span)
      /\ barBounds' = barBounds /\ barSynced' = barSynced
  <2>1. /\ IF first = barValue.first THEN barDrawn' = drawn /\ barValue' = barValue
           ELSE /\ barDrawn' = IF barBounds.second - first < span THEN barBounds.second - span ELSE drawn
                /\ barValue' = LET begin == IF barBounds.second - first < span THEN barBounds.second - span
                                           ELSE first
                               IN  Between(begin, begin + span)
        /\ barBounds' = barBounds /\ barSynced' = barSynced
    BY DEF Slide
  <2> HIDE DEF first, span
  <2> QED BY <1>3, <2>1
<1>5. FromDrawn(barBounds, Between(first, first + span), drawn) = first
  <2> DEFINE moved == Between(first, first + span)
  <2>1. Size(moved) = span
    <3> HIDE DEF first, span
    <3> QED BY <1>1, <1>3 DEF Size, Between
  <2>2. FromDrawn(barBounds, moved, drawn) = FromDrawn(barBounds, barValue, drawn)
    <3> HIDE DEF moved
    <3> QED BY <2>1 DEF FromDrawn
  <2> QED BY <2>2
<1> HIDE DEF span
<1>6. CASE first = barValue.first
  <2>1. barValue' = barValue
    BY <1>4, <1>6
  <2>2. InPlace(barBounds, barValue, drawn)
    BY <1>1, <1>6 DEF InPlace
  <2>3. BarInv'
    BY <1>1, <1>4, <2>1, <2>2 DEF BarInv, Shows
  <2> HIDE DEF first
  <2> QED BY <1>1, <1>2, <1>6, <2>1, <2>3
<1>7. CASE first # barValue.first
  <2>1. barValue' = Between(first, first + span)
    BY <1>4, <1>7
  <2>2. barValue'.first = first /\ barValue'.second = first + span /\ barValue' \in RangeType
    <3> HIDE DEF first
    <3> QED BY <1>1, <1>3, <2>1 DEF Between, RangeType
  <2>3. InPlace(barBounds, barValue', drawn)
    <3>1. FromDrawn(barBounds, barValue', drawn) = first
      BY <1>5, <2>1
    <3> HIDE DEF first
    <3> QED BY <1>3, <2>2, <3>1 DEF InPlace
  <2>4. ContainsRange(barBounds, barValue')
    <3> HIDE DEF first
    <3> QED BY <1>1, <1>2, <2>2 DEF ContainsRange
  <2>5. BarInv'
    BY <1>1, <1>4, <2>2, <2>3, <2>4 DEF BarInv, Shows
  <2> HIDE DEF first
  <2> QED BY <1>1, <1>2, <2>2, <2>5
<1> QED BY <1>6, <1>7

(* The wheel asks for a range that has the value under the mouse           *)
AskedFor(mouse, span) ==
  IF InRange(barValue, mouse) THEN ZoomedAbout(barValue, mouse, span)
  ELSE Hull(barValue, Between(mouse, mouse))

LEMMA AskedHasTheMouse ==
  ASSUME BarInv, IsValid(barValue), Size(barValue) > 0, NEW mouse \in Int, NEW span \in Nat
  PROVE  AskedFor(mouse, span) \in RangeType /\ InRange(AskedFor(mouse, span), mouse)
<1>1. /\ {barValue.first, barValue.second} \subseteq Int /\ Size(barValue) \in Int
      /\ barValue.second = barValue.first + Size(barValue)
  BY DEF BarInv, RangeType, Size
<1>2. CASE InRange(barValue, mouse)
  <2> DEFINE o == mouse - barValue.first
             k == (o * span) \div Size(barValue)
  <2>1. o \in Nat /\ o <= Size(barValue)
    BY <1>1, <1>2 DEF InRange
  <2>2. k \in 0..span
    <3> HIDE DEF o
    <3> QED BY <1>1, <2>1, PartIsPart
  <2>3. AskedFor(mouse, span) = Between(mouse - k, (mouse - k) + span)
    BY <1>2 DEF AskedFor, ZoomedAbout
  <2> HIDE DEF k
  <2> QED BY <2>2, <2>3 DEF Between, RangeType, InRange
<1>3. CASE ~InRange(barValue, mouse)
  <2>1. AskedFor(mouse, span) = Hull(barValue, Between(mouse, mouse))
    BY <1>3 DEF AskedFor
  <2> QED BY <1>1, <2>1 DEF Hull, Between, Lesser, Greater, RangeType, InRange
<1> QED BY <1>2, <1>3

LEMMA WheelKeepsBar ==
  ASSUME BarInv, IsValid(barValue), Size(barValue) > 0, NEW place \in Int, NEW dy \in Int, Wheel(place, dy)
  PROVE  /\ BarInv'
         /\ InRange(barBounds, MouseValue(place)) => InRange(barValue', MouseValue(place))
<1> DEFINE mouse == MouseValue(place)
           wanted == (Size(barValue) * (10 - dy)) \div 10
           span == Lesser(Greater(wanted, 1), Size(barBounds))
<1>1. /\ barBounds \in RangeType /\ IsValid(barBounds) /\ barBounds.first \in Int
      /\ Size(barBounds) \in Int /\ Size(barBounds) > 0 /\ Size(barValue) \in Int
  BY DEF BarInv, Shows, ContainsRange, RangeType, Size, IsValid
<1>2. mouse \in Int
  <2> DEFINE n == place * Size(barBounds)
  <2>1. n \in Int
    BY <1>1
  <2>2. mouse = barBounds.first + n \div 10
    BY DEF MouseValue
  <2> HIDE DEF n
  <2> QED BY <1>1, <2>1, <2>2, QuotientBounds
<1>3. wanted \in Int
  <2> DEFINE n == Size(barValue) * (10 - dy)
  <2>1. n \in Int
    BY <1>1
  <2>2. wanted = n \div 10
    OBVIOUS
  <2> HIDE DEF n, wanted
  <2> QED BY <2>1, <2>2, QuotientBounds
<1>4. span \in Nat
  <2> HIDE DEF wanted
  <2> QED BY <1>1, <1>3 DEF Lesser, Greater
<1>5. SetValue(barBounds, AskedFor(mouse, span)) /\ barBounds' = barBounds
  BY DEF Wheel, AskedFor
<1> HIDE DEF mouse, span, wanted
<1>6. AskedFor(mouse, span) \in RangeType /\ InRange(AskedFor(mouse, span), mouse)
  BY <1>2, <1>4, AskedHasTheMouse
<1>7. /\ BarInv'
      /\ \A v \in Int : InRange(barBounds, v) /\ InRange(AskedFor(mouse, span), v) => InRange(barValue', v)
  BY <1>1, <1>5, <1>6, SetKeepsBar
<1>8. InRange(barBounds, mouse) => InRange(barValue', mouse)
  BY <1>2, <1>6, <1>7
<1> QED BY <1>7, <1>8 DEF mouse

-----------------------------------------------------------------------------
LEMMA BarInvInit == BarInit => BarInv
<1> SUFFICES ASSUME BarInit PROVE BarInv
  OBVIOUS
<1>1. /\ barBounds \in RangeType /\ IsValid(barBounds) /\ barBounds.first \in Int
      /\ ContainsRange(barBounds, barBounds)
  BY BarAssumption DEF BarInit, RangeType, ContainsRange
<1>2. ToDrawn(barBounds, barBounds) = barBounds.first
  BY <1>1 DEF ToDrawn, Size, RangeType
<1> QED BY <1>1, <1>2, DrawnWhereItIs DEF BarInit, BarInv, Shows

Held ==
  /\ Shows(barBounds', barValue')
  /\ IsValid(barValue') /\ barSynced' => InPlace(barBounds', barValue', barDrawn')
  /\ Slide(barBounds.first) => barValue'.first = barBounds.first
  /\ Slide(barBounds.second) => barValue'.second = barBounds.second
  /\ ZoomedUnderTheMouse

LEMMA BarStep == BarInv /\ BarNext => BarInv' /\ Held
<1> SUFFICES ASSUME BarInv, BarNext PROVE BarInv' /\ Held
  OBVIOUS
<1>1. IsValid(barValue) /\ Size(barValue) > 0
  BY DEF BarNext
<1>2. /\ barBounds \in RangeType /\ IsValid(barBounds) /\ barBounds.first \in Int /\ barBounds.second \in Int
      /\ InRange(barBounds, barBounds.first) /\ InRange(barBounds, barBounds.second)
  BY DEF BarInv, RangeType, InRange, IsValid
<1>3. BarInv'
  <2>1. CASE BarSetBounds
    <3> PICK bounds \in BarBounds :
          /\ barBounds' = bounds
          /\ IF ContainsRange(bounds, barValue) THEN barSynced' = FALSE /\ UNCHANGED <<barValue, barDrawn>>
             ELSE SetValue(bounds, bounds)
      BY <2>1 DEF BarSetBounds
    <3>1. bounds \in RangeType /\ IsValid(bounds)
      BY BarAssumption DEF RangeType
    <3>2. CASE ContainsRange(bounds, barValue)
      BY <3>1, <3>2 DEF BarInv, Shows
    <3>3. CASE ~ContainsRange(bounds, barValue)
      BY <3>1, <3>3, SetKeepsBar
    <3> QED BY <3>2, <3>3
  <2>2. CASE BarSetValue
    <3> PICK range \in BarRanges : SetValue(barBounds, range) /\ barBounds' = barBounds
      BY <2>2 DEF BarSetValue
    <3>1. range \in RangeType
      BY BarAssumption DEF RangeType
    <3> QED BY <1>2, <3>1, SetKeepsBar
  <2>3. CASE DoubleClick
    BY <1>2, <2>3, SetKeepsBar DEF DoubleClick
  <2>4. CASE \E drawn \in Drawable : Slide(Lesser(Greater(drawn, barBounds.first), barBounds.second))
    <3> PICK drawn \in Drawable : Slide(Lesser(Greater(drawn, barBounds.first), barBounds.second))
      BY <2>4
    <3> DEFINE at == Lesser(Greater(drawn, barBounds.first), barBounds.second)
    <3>1. drawn \in Int
      <4>1. barDrawn \in Int /\ Size(barBounds) \in Int
        BY <1>2 DEF BarInv, Size
      <4>2. ASSUME NEW k \in 0..4 PROVE barBounds.first + (k * Size(barBounds)) \div 4 \in Int
        <5> DEFINE n == k * Size(barBounds)
        <5>1. n \in Int
          BY <4>1
        <5> HIDE DEF n
        <5>2. n \div 4 \in Int
          BY <5>1, QuotientBounds
        <5>3. barBounds.first + n \div 4 \in Int
          BY <1>2, <5>2
        <5> QED BY <5>3 DEF n
      <4> QED BY <4>1, <4>2 DEF Drawable
    <3>2. at \in Int /\ InRange(barBounds, at)
      BY <1>2, <3>1 DEF Lesser, Greater, InRange
    <3> HIDE DEF at
    <3> QED BY <1>1, <3>2, SlideKeepsBar DEF at
  <2>5. CASE \E place \in BarPlaces, dy \in {-1, 1, 10} : Wheel(place, dy)
    <3> PICK place \in BarPlaces, dy \in {-1, 1, 10} : Wheel(place, dy)
      BY <2>5
    <3>1. place \in Int /\ dy \in Int
      BY BarAssumption
    <3> QED BY <1>1, <3>1, WheelKeepsBar
  <2> QED BY <2>1, <2>2, <2>3, <2>4, <2>5 DEF BarNext
<1>4. /\ Slide(barBounds.first) => barValue'.first = barBounds.first
      /\ Slide(barBounds.second) => barValue'.second = barBounds.second
  BY <1>1, <1>2, SlideKeepsBar
<1>5. ZoomedUnderTheMouse
  <2> SUFFICES ASSUME NEW place \in BarPlaces, NEW dy \in {-1, 1, 10},
                      Wheel(place, dy), InRange(barBounds, MouseValue(place))
               PROVE  InRange(barValue', MouseValue(place))
    BY DEF ZoomedUnderTheMouse
  <2>1. place \in Int /\ dy \in Int
    BY BarAssumption
  <2> QED BY <1>1, <2>1, WheelKeepsBar
<1> QED BY <1>3, <1>4, <1>5 DEF Held, BarInv

(* What the bar shows stays within its bounds, the slider where what is    *)
(* shown is drawn, and a drag to an end or a turn of the wheel shows what  *)
(* it is meant to (zc_zoom_scroll_bar.cpp:handle)                          *)
THEOREM BarKeepsTheRange == BarSpec => BarHoldsTheRange
<1>1. BarInv /\ [BarNext]_barVars => BarInv'
  <2>1. BarInv /\ UNCHANGED barVars => BarInv'
    BY DEF BarInv, barVars
  <2> QED BY <2>1, BarStep
<1>2. BarInv /\ [BarNext]_barVars =>
        [barEvents' # barEvents =>
           /\ IsValid(barValue') => ContainsRange(barBounds', barValue')
           /\ IsValid(barValue') /\ barSynced' =>
                FromDrawn(barBounds', barValue', barDrawn') - barValue'.first \in {-1, 0}
           /\ Slide(barBounds.first) => barValue'.first = barBounds.first
           /\ Slide(barBounds.second) => barValue'.second = barBounds.second
           /\ ZoomedUnderTheMouse]_barVars
  BY BarStep DEF Held, Shows, InPlace
<1> QED BY BarInvInit, <1>1, <1>2, PTL DEF BarSpec, BarHoldsTheRange
=============================================================================
