------------------------------ MODULE MCDesktop ------------------------------
(* TLC instance of the parts of a desktop application that share no state    *)
(* but the main thread: its files and settings, its file viewer, its banner  *)
(* and status messages, its ticker, its graph, its calendar and its scroll   *)
(* bar. Each behaviour has one of them move.                                 *)
EXTENDS Settings, FileViewer, Status, Ticker, Graph, Calendar, ZoomScrollBar, TLC

CONSTANTS settings, bandplan, icon, line, more,
          Parts         (* the parts this run looks at                       *)

VARIABLE part           (* rigid: the part that moves                        *)

-----------------------------------------------------------------------------
(* The settings file, a shipped file that may be changed and one that is     *)
(* only read (settings.json, band_plan.json and rose.png in the example in   *)
(* zc_file_holder.h)                                                         *)
MCControl ==
  [f \in {settings, bandplan, icon} |->
    [reference |-> f # settings, read_only |-> f = icon,
     reset_mask |-> IF f = icon THEN {} ELSE IF f = settings THEN {"SETT"} ELSE {"BAND"}]]

Uses(uses, faulty, readsFirst, n) ==
  [uses |-> uses, faulty |-> faulty, readsFirst |-> readsFirst, loads |-> n]

(* The settings on their own and the other files on their own (they share    *)
(* nothing but the request to reset), with files that open and with files   *)
(* that may not                                                             *)
MCWorlds ==
  {Uses({settings}, FALSE, FALSE, 2), Uses({settings}, TRUE, FALSE, 1),
   Uses({bandplan, icon}, FALSE, TRUE, 0), Uses({bandplan, icon}, TRUE, FALSE, 0)}

FilesAtRest == world.uses = {settings} /\ world.faulty /\ working[settings] = Absent
               /\ working[bandplan] = Absent /\ reset = {}

-----------------------------------------------------------------------------
Scene(banner, logs, kinds, n) ==
  [banner |-> banner, logfile |-> logs # "none", faulty |-> logs = "faulty",
   nested |-> kinds.nested, progress |-> kinds.counts # {}, levels |-> kinds.levels,
   topics |-> kinds.about \union kinds.counts, verbosities |-> kinds.verbosities, sessions |-> n]

Talk(nested, counts, levels, about, verbosities) ==
  [nested |-> nested, counts |-> counts, levels |-> levels, about |-> about,
   verbosities |-> verbosities]

Messages == Talk(TRUE, {}, {"DEBUG", "SEVERE"}, {"radio", "rig"}, {"ERRORS", "FULL"})
Reports == Talk(TRUE, {}, {"NOTE", "FATAL"}, {}, {"INFO"})
Counts(nested) == Talk(nested, {"file"}, {}, {}, {"INFO"})

(* A banner without a log; a log that opens, through several runs of the     *)
(* program, one without a banner, and one that may not open; progress, in    *)
(* turn and nested                                                           *)
Counting == Scene(TRUE, "good", Counts(FALSE), 1)
MCScenes ==
  {Scene(TRUE, "none", Messages, 1), Scene(TRUE, "good", Reports, 5),
   Scene(FALSE, "good", Reports, 3), Scene(TRUE, "faulty", Reports, 3), Counting,
   Scene(TRUE, "none", Counts(TRUE), 1)}

BannerAtRest == scene = Counting

-----------------------------------------------------------------------------
(* Every class of graph, with an axis that has an inner range and one that   *)
(* has none, data within and beyond the outer range, and a widget of 10 by   *)
(* 8 pixels whose plot takes 8 by 5 or less.                                 *)
MCInitially == [b \in {line, more} |-> IF b = line THEN <<<<1, 2>>, <<3, 9>>, <<20, 4>>>>
                                       ELSE <<<<0, 0>>, <<2, 12>>>>]
MCAppended == {<<4, 6>>}
MCAsked == {Between(3, 30), Between(40, 50)}
MCSizes == {[w |-> 10, h |-> 8], [w |-> 14, h |-> 10]}
MCMouse == {<<5, 3>>, <<1, 3>>, <<6, 7>>, <<9, 4>>}

Free(low, high) == [inner |-> EmptyRange, outer |-> Between(low, high),
                    default |-> Between(low \div 2, high \div 2)]
Bound(low, high) == [Free(low, high) EXCEPT !.inner = Between(low \div 4 + 1, high \div 4 + 1)]
Given(first, second, third, sets) ==
  [NoConfig EXCEPT !.sets = sets, !.marks = {[axis |-> 1, layer |-> "FOREGROUND", from |-> 4, to |-> 4]},
                   !.lozenges = {[axis |-> 1, layer |-> "DATA", position |-> <<3, 9>>]},
                   !.texts = {[axis |-> 0, layer |-> "FOREGROUND", position |-> <<2, UPPER_BOUND>>]}]
  @@ [ranges |-> [a \in 0..2 |-> CASE a = 0 -> first [] a = 1 -> second [] a = 2 -> third], labels |-> 3]

OnLine == <<[axis |-> 1, buffer |-> line]>>
Plain == Given(Free(0, 16), Bound(0, 16), Free(0, 8), OnLine)
Signed == Given(Free(-8, 16), Free(-8, 8), Free(0, 8), OnLine \o <<[axis |-> 1, buffer |-> more]>>)
TwoAxes == Given(Free(0, 16), Free(0, 16), Bound(0, 12), OnLine \o <<[axis |-> 2, buffer |-> more]>>)
(* The data are to give the default range, and do not cover the inner one *)
Late == Given(Free(0, 16), [Bound(0, 16) EXCEPT !.inner = Between(10, 12), !.default = EmptyRange],
              Free(0, 8), OnLine)
BarChart == [Signed EXCEPT !.gap = 50, !.overlap = 20]
Dense == [Plain EXCEPT !.grid = [xs |-> <<0, 3, 8>>, ys |-> <<2, 6>>, zs |-> <<0, 4, 8, 1, 2, 3>>,
                                 depth |-> 4], !.sets = <<>>]

MCConfigs == [k \in Kinds |-> CASE k = "CARTESIAN_2Y" -> {TwoAxes}
                                [] k = "CARTESIAN" -> {Plain, Signed, Late}
                                [] k \in {"BAR_HORIZ", "BAR_VERT"} -> {BarChart}
                                [] k = "DENSITY" -> {Dense}
                                [] OTHER -> {Plain}]
MCKinds == Kinds

GraphAtRest == kind = "CARTESIAN" /\ size = [w |-> 10, h |-> 8]

-----------------------------------------------------------------------------
(* A leap day, a text that says no date (day 0 of a month 13), and a date to *)
(* accept                                                                    *)
MCToday == Date(2024, 1, 29)
MCTyped == {Date(2024, 12, 0)}
(* Summer time as in Europe, and a mktime that fails before 1 March 2023     *)
MCSummer ==
  {<<2, 31>>} \union (3..8) \X (1..31) \union {9} \X (1..28)
MCEarliest == DayNumber(2023, 2, 1)
MCAccepted == {Date(2024, 4, 31)}

(* Bounds within each other and apart, and ranges within, across and outside *)
MCBarBounds == {Between(0, 1000), Between(-200, 600), Between(300, 3000)}
MCBarRanges == {Between(200, 400), Between(550, 1200), Between(4000, 5000), Between(0, 10)}
BarAtRest == barBounds = Between(0, 1000)

ViewerAtRest == type = "VT_DATA" /\ \A n \in Names : disk[n] = Empty

-----------------------------------------------------------------------------
Init ==
  /\ part \in Parts
  /\ SettingsInit /\ ViewerInit /\ StatusInit /\ TickerInit /\ GraphInit /\ CalendarInit /\ BarInit
  /\ part # "files" => FilesAtRest
  /\ part # "viewer" => ViewerAtRest
  /\ part # "banner" => BannerAtRest
  /\ part # "graph" => GraphAtRest
  /\ part # "bar" => BarAtRest

Next ==
  /\ UNCHANGED part
  /\ \/ part = "files" /\ SettingsNext /\ UNCHANGED <<viewerVars, statusVars, tickerVars, graphVars,
                                                      calendarVars, barVars>>
     \/ part = "viewer" /\ ViewerNext /\ UNCHANGED <<settingsAllVars, statusVars, tickerVars, graphVars,
                                                     calendarVars, barVars>>
     \/ part = "banner" /\ StatusNext /\ UNCHANGED <<settingsAllVars, viewerVars, tickerVars, graphVars,
                                                     calendarVars, barVars>>
     \/ part = "ticker" /\ TickerNext /\ UNCHANGED <<settingsAllVars, viewerVars, statusVars, graphVars,
                                                     calendarVars, barVars>>
     \/ part = "graph" /\ GraphNext /\ UNCHANGED <<settingsAllVars, viewerVars, statusVars, tickerVars,
                                                   calendarVars, barVars>>
     \/ part = "calendar" /\ CalendarNext /\ UNCHANGED <<settingsAllVars, viewerVars, statusVars, tickerVars,
                                                         graphVars, barVars>>
     \/ part = "bar" /\ BarNext /\ UNCHANGED <<settingsAllVars, viewerVars, statusVars, tickerVars, graphVars,
                                               calendarVars>>

Spec == Init /\ [][Next]_<<part, settingsAllVars, viewerVars, statusVars, tickerVars, graphVars, calendarVars,
                           barVars>>
=============================================================================
