---------------------------- MODULE ZoomScrollBar ----------------------------
(***************************************************************************)
(* A scroll bar whose button is as long as what is shown                   *)
(* (src/src/zc_zoom_scroll_bar.cpp). Values are whole multiples of the     *)
(* smallest range the wheel gives. FLTK's slider, which the class is       *)
(* derived from, draws its value as if its button had no length, so the    *)
(* value it is given is another one, barDrawn.                             *)
(***************************************************************************)
EXTENDS Range

CONSTANTS BarBounds, BarRanges,  (* the ranges the application asks for      *)
          BarPlaces,             (* where the mouse is, in tenths of the bar *)
          MaxBarEvents           (* bound                                    *)

(* Bounds may be a single value, but they are not the wrong way round       *)
ASSUME BarAssumption ==
  /\ \A range \in BarBounds \cup BarRanges : range \in [first : Int, second : Int]
  /\ \A bounds \in BarBounds : IsValid(bounds)
  /\ BarPlaces \subseteq Int /\ MaxBarEvents \in Nat

VARIABLES barBounds, barValue, barDrawn,
          barSynced,             (* the slider was set since the bounds were *)
          barEvents

barVars == <<barBounds, barValue, barDrawn, barSynced, barEvents>>

ToDrawn(bounds, range) ==
  LET spare == Size(bounds) - Size(range)
      offset == range.first - bounds.first
  IN  bounds.first + (IF spare > 0 THEN (offset * Size(bounds)) \div spare ELSE offset)

FromDrawn(bounds, range, drawn) ==
  IF Size(bounds) > 0
  THEN bounds.first + ((drawn - bounds.first) * (Size(bounds) - Size(range))) \div Size(bounds)
  ELSE drawn

(* value: a range that has nothing in common with the bounds becomes the    *)
(* empty one, which is within any bounds                                    *)
Validated(bounds, range) ==
  LET common == Common(range, bounds)
  IN  IF ContainsRange(bounds, range) THEN range
      ELSE IF ContainsRange(bounds, common) THEN common ELSE bounds

SetValue(bounds, range) ==
  /\ barValue' = Validated(bounds, range)
  /\ barDrawn' = IF IsValid(barValue') THEN ToDrawn(bounds, barValue') ELSE bounds.first
  /\ barSynced' = TRUE

(* mutant: the range is scaled from its beginning                           *)
ZoomedFromFirst(range, mouse, size) == Between(range.first, range.first + size)

ZoomedAbout(range, mouse, size) ==
  LET first == mouse - ((mouse - range.first) * size) \div Size(range)
  IN  Between(first, first + size)
-----------------------------------------------------------------------------
BarInit ==
  /\ barBounds \in BarBounds /\ barValue = barBounds /\ barDrawn = barBounds.first
  /\ barSynced = TRUE /\ barEvents = 0

(* bounds: the slider is only set when the range is out of the new ones     *)
BarSetBounds ==
  \E bounds \in BarBounds :
    /\ barBounds' = bounds
    /\ IF ContainsRange(bounds, barValue) THEN barSynced' = FALSE /\ UNCHANGED <<barValue, barDrawn>>
       ELSE SetValue(bounds, bounds)

BarSetValue == \E range \in BarRanges : SetValue(barBounds, range) /\ UNCHANGED barBounds

DoubleClick == SetValue(barBounds, barBounds) /\ UNCHANGED barBounds

(* FLTK has moved the slider to a value within its bounds, or left it       *)
Slide(drawn) ==
  LET size == Size(barValue)
      first == FromDrawn(barBounds, barValue, drawn)
      beyond == barBounds.second - first < size
      limited == IF beyond THEN barBounds.second - size ELSE first
  IN  /\ IF first = barValue.first THEN barDrawn' = drawn /\ UNCHANGED barValue
         ELSE /\ barDrawn' = IF beyond THEN limited ELSE drawn
              /\ barValue' = Between(limited, limited + size)
      /\ UNCHANGED <<barBounds, barSynced>>

MouseValue(place) == barBounds.first + (place * Size(barBounds)) \div 10

(* The wheel makes what is shown a tenth longer or shorter per tick, within *)
(* limits, or reaches out to the mouse                                      *)
Wheel(place, dy) ==
  LET mouse == MouseValue(place)
      wanted == (Size(barValue) * (10 - dy)) \div 10
      size == Lesser(Greater(wanted, 1), Size(barBounds))
  IN  /\ SetValue(barBounds, IF InRange(barValue, mouse) THEN ZoomedAbout(barValue, mouse, size)
                             ELSE Hull(barValue, Between(mouse, mouse)))
      /\ UNCHANGED barBounds

Drawable == {barDrawn} \cup {barBounds.first + (k * Size(barBounds)) \div 4 : k \in 0..4}

BarNext ==
  /\ barEvents < MaxBarEvents /\ barEvents' = barEvents + 1
  /\ IsValid(barValue) /\ Size(barValue) > 0          (* bound *)
  /\ \/ BarSetBounds \/ BarSetValue \/ DoubleClick
     \/ \E drawn \in Drawable : Slide(Lesser(Greater(drawn, barBounds.first), barBounds.second))
     \/ \E place \in BarPlaces, dy \in {-1, 1, 10} : Wheel(place, dy)
BarSpec == BarInit /\ [][BarNext]_barVars
-----------------------------------------------------------------------------
(* What is shown stays within the bounds and the slider where it is shown,  *)
(* to the rounding (but after a change of the bounds, which leaves the      *)
(* slider where it was); dragged to an end it shows that end, and the wheel *)
(* keeps the value under the mouse in what is shown                         *)
ZoomedUnderTheMouse ==
  \A place \in BarPlaces, dy \in {-1, 1, 10} :
    Wheel(place, dy) /\ InRange(barBounds, MouseValue(place)) => InRange(barValue', MouseValue(place))
BarHoldsTheRange ==
  [][barEvents' # barEvents =>
       /\ IsValid(barValue') => ContainsRange(barBounds', barValue')
       /\ IsValid(barValue') /\ barSynced' =>
            FromDrawn(barBounds', barValue', barDrawn') - barValue'.first \in {-1, 0}
       /\ Slide(barBounds.first) => barValue'.first = barBounds.first
       /\ Slide(barBounds.second) => barValue'.second = barBounds.second
       /\ ZoomedUnderTheMouse]_barVars
=============================================================================
