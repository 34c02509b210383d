------------------------------ MODULE Calendar ------------------------------
(***************************************************************************)
(* A text field with a calendar: src/src/zc_calendar_input.cpp,            *)
(* zc_calendar.cpp and zc_calendar_table.cpp. The field's text is the date *)
(* it says, not always one that exists, or NoDate. The calendar remembers  *)
(* where the text was, not the text: value_ points into the field, or into *)
(* a string that is no more.                                               *)
(*                                                                         *)
(* The calendar's dates are UTC, and mktime takes them for local time: a   *)
(* tm is [year, mon, mday, hour, isdst], and where the zone has summer time *)
(* on that day mktime puts the clock on and sets isdst.                    *)
(***************************************************************************)
EXTENDS Dates, FiniteSets

CONSTANTS BaseYear,     (* 1900: the year buttons go back no further         *)
          MaxYear,      (* bound on the year                                 *)
          Today, Hours, (* the date, and the hours of it (UTC) in which      *)
                        (* the Today button may be pressed                   *)
          Typed,        (* the texts typed into the field                    *)
          Summer,       (* the days <<mon, mday>> the zone has summer time   *)
          Earliest,     (* the first day mktime can represent (1 January     *)
                        (* 1970 on Windows), as DayNumber counts them        *)
          Accepted      (* bound: the dates confirmed with OK                *)

VARIABLES field, open,
          valueAt,            (* where value_ points: "field" or "gone"      *)
          displayDate, table  (* display_date_, the table's selected_date_   *)

calendarVars == <<field, open, valueAt, displayDate, table>>

Date(y, m, d) == [year |-> y, mon |-> m, mday |-> d]
NoDate == Date(0, 0, 0)

DaysIn(date) == IF date.mon \in 0..11 THEN DaysInMonth(date.year, date.mon) ELSE -1

(* Any numbers can be typed, but today is a date that exists                *)
ASSUME CalendarAssumption ==
  /\ {BaseYear, MaxYear, Earliest} \subseteq Int /\ Accepted # {} /\ Hours \subseteq 0..23
  /\ \A date \in Typed \cup {Today} : date \in [year : Int, mon : Int, mday : Int]
  /\ Today.mon \in 0..11 /\ Today.mday \in 1..DaysIn(Today)

(* The date that the numbers of one that does not exist come to            *)
Carried(date) ==
  LET Found(tm) == Date(tm.year, tm.mon, tm.mday)
      Of(year, mon) == Found(Gmtime((DayNumber(year, mon, 1) + date.mday - 1) * 86400))
  IN  IF date.mday \in 1..DaysIn(date) THEN date ELSE Of(date.year + date.mon \div 12, date.mon % 12)

At(date, hour, isdst) ==
  [year |-> date.year, mon |-> date.mon, mday |-> date.mday, hour |-> hour, isdst |-> isdst]
Day(tm) == Date(tm.year, tm.mon, tm.mday)
Later(tm, n) == Carried(Date(tm.year, tm.mon, tm.mday + n))

(* What mktime makes of a tm, by way of the zone's standard time            *)
Standard(tm) ==
  IF tm.hour < tm.isdst THEN At(Later(tm, -1), 23, 0) ELSE At(Later(tm, 0), tm.hour - tm.isdst, 0)
Local(tm) ==
  IF <<tm.mon, tm.mday>> \notin Summer THEN tm
  ELSE IF tm.hour = 23 THEN At(Later(tm, 1), 0, 1) ELSE At(tm, tm.hour + 1, 1)
Mktime(tm) == Local(Standard(tm))

(* ... and whether mktime returns -1 instead                                *)
NumberOf(date) == DayNumber(date.year, date.mon, date.mday)
Representable(tm) == Earliest <= NumberOf(Standard(tm))
Weekday(date) == (NumberOf(date) + 4) % 7

Clamped(date) == [date EXCEPT !.mday = IF @ > DaysIn(date) THEN DaysIn(date) ELSE @]

(* mutant: the overflow starts a day early                                  *)
LastSundayEarly(first) == 35 - first

LastSunday(first) == 36 - first

(* value(tm): today at midnight if the date cannot be represented           *)
Selected(tm) == IF Representable(tm) THEN Mktime(tm) ELSE At(Today, 0, 0)

(* What the table shows in a cell. The days after the last Saturday of five *)
(* rows are in the first one                                                *)
MonthStart == Mktime([table EXCEPT !.mday = 1])
GetDate(row, col) ==
  LET start == MonthStart
      last == DaysIn(table)
      In(early, sunday) ==
        IF col <= last - sunday \/ (~early /\ col + 1 > sunday)
        THEN {Mktime([start EXCEPT !.mday = sunday + col])} ELSE {}
      From(first) ==
        IF row = 0 /\ col < first THEN In(TRUE, LastSunday(first)) ELSE In(FALSE, row * 7 + 1 - first)
  IN  From(Weekday(start))
-----------------------------------------------------------------------------
CalendarInit ==
  /\ field = NoDate /\ open = FALSE /\ valueAt = "field"
  /\ displayDate = At(Today, 0, 0) /\ table = displayDate

ChangeDate(tm) ==
  /\ displayDate' = Clamped(tm)
  /\ table' = Selected(Clamped(tm))
  /\ UNCHANGED <<field, open, valueAt>>

(* The calendar opens on the field's date, and on today if there is none:   *)
(* the text of today is a string that ends with the block                   *)
PressButton ==
  LET date == IF field = NoDate THEN Today ELSE field
  IN  /\ ~open /\ open' = TRUE
      /\ field' = date /\ valueAt' = IF field = NoDate THEN "gone" ELSE "field"
      /\ table' = Selected(Clamped(At(date, 0, 0))) /\ displayDate' = table'

(* The field can be typed into at any time: its buffer may move             *)
Type ==
  /\ field' \in Typed \cup {NoDate}
  /\ valueAt' \in IF open THEN {valueAt, "gone"} ELSE {valueAt}
  /\ UNCHANGED <<open, displayDate, table>>

PrevYear == open /\ displayDate.year > BaseYear /\ ChangeDate([displayDate EXCEPT !.year = @ - 1])
PrevMonth ==
  /\ open
  /\ \/ displayDate.mon > 0 /\ ChangeDate([displayDate EXCEPT !.mon = @ - 1])
     \/ /\ displayDate.mon = 0 /\ displayDate.year > BaseYear
        /\ ChangeDate([displayDate EXCEPT !.mon = 11, !.year = @ - 1])
NextYear == open /\ displayDate.year < MaxYear /\ ChangeDate([displayDate EXCEPT !.year = @ + 1])
NextMonth ==
  /\ open
  /\ \/ displayDate.mon < 11 /\ ChangeDate([displayDate EXCEPT !.mon = @ + 1])
     \/ /\ displayDate.mon = 11 /\ displayDate.year < MaxYear
        /\ ChangeDate([displayDate EXCEPT !.mon = 0, !.year = @ + 1])
GoToToday == open /\ \E hour \in Hours : ChangeDate(At(Today, hour, 0))
ClickCell == open /\ \E row \in 0..4, col \in 0..6 : \E tm \in GetDate(row, col) : ChangeDate(tm)

(* Both write value_ to the field: on OK the text of the date, on Cancel    *)
(* the text it was opened with, and no one knows what if that is gone       *)
Ok ==
  /\ open /\ Day(table) \in Accepted
  /\ open' = FALSE /\ field' = Day(table) /\ displayDate' = table
  /\ UNCHANGED <<valueAt, table>>
Cancel ==
  /\ open /\ open' = FALSE
  /\ field' \in IF valueAt = "field" THEN {field} ELSE Typed \cup {NoDate}
  /\ UNCHANGED <<valueAt, displayDate, table>>

CalendarNext ==
  \/ PressButton \/ Type \/ Ok \/ Cancel
  \/ PrevYear \/ PrevMonth \/ NextYear \/ NextMonth \/ GoToToday \/ ClickCell
CalendarSpec == CalendarInit /\ [][CalendarNext]_calendarVars
-----------------------------------------------------------------------------
(* The hour that summer time adds does not take the tm to another day       *)
Steady(tm) == tm.hour - tm.isdst \in 0..22

(* However the calendar got to its date, the table shows a date that exists:*)
(* the calendar's own if mktime can represent it, and today if it cannot    *)
(* (the month's name and the next step are still of the calendar's date);   *)
(* and the table has each day of its month once, under its day of the week, *)
(* and nothing else. What Today was pressed for in the last hour of the UTC *)
(* day is another day in summer time, and its month may be another month's. *)
CalendarIsTrue ==
  LET Dates(tms) == {Day(tm) : tm \in tms}
      shown == {<<c, Dates(GetDate(c[1], c[2]))>> : c \in (0..4) \X (0..6)}
      days == {Date(table.year, table.mon, d) : d \in 1..DaysIn(table)}
      IsAMonth(cells) ==
        /\ Cardinality(cells) = Cardinality(days)
        /\ UNION {s[2] : s \in cells} = days
        /\ \A s \in cells : \A date \in s[2] : Weekday(date) = s[1][2]
  IN  open => /\ Day(table) \in days
              /\ \/ displayDate = table
                 \/ IF Representable(displayDate) THEN Steady(displayDate) => Day(table) = Day(displayDate)
                    ELSE Day(table) = Today
              /\ Steady(table) => IsAMonth({s \in shown : s[2] # {}})
=============================================================================
