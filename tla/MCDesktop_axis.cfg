CONSTANTS
  settings = settings
  bandplan = bandplan
  icon = icon
  Settings_ = settings
  Files = {settings, bandplan, icon}
  Control <- MCControl
  Bits = {"BAND", "SETT"}
  Shipped0 = {bandplan, icon}
  Worlds <- MCWorlds
  Roots = {"r1", "r2"}
  Groups = {"g1"}
  MaxVersion = 2
  MaxLoads = 2
  MaxCrashes = 2
  Nested = TRUE
  Names = {"a", "b"}
  FilesMayFail = TRUE
  MaxEdits = 3
  Scenes <- MCScenes
  NoTopic = NoTopic
  Maxima = {200}
  Values = {1, 3, 150, 200}
  Width = 10
  Depth = 3
  MaxMessages = 3
  MaxCalls = 3
  Objects = {"o1", "o2"}
  Intervals = {1, 2, 3, 5}
  QuickCap = 4
  TickCounts = 8
  MaxEntries = 2
  InCallback = {"activate"}
  Outside = {"add", "remove", "activate", "stop"}
  line = line
  more = more
  MinimumRange = 2
  Precision = 1000
  TickSpacing = 2
  TickLength = 1
  TextHeight = 2
  CharWidth = 1
  PixelSize = 50
  GraphKinds <- MCKinds
  Configs <- MCConfigs
  Buffers = {line, more}
  Initially <- MCInitially
  Appended <- MCAppended
  Asked <- MCAsked
  Sizes <- MCSizes
  Mouse <- MCMouse
  MaxConfigs = 1
  MaxEvents = 0
  BaseYear = 2023
  MaxYear = 2024
  Today <- MCToday
  Hours = {23}
  Summer <- MCSummer
  Earliest <- MCEarliest
  Typed <- MCTyped
  Accepted <- MCAccepted
  BarBounds <- MCBarBounds
  BarRanges <- MCBarRanges
  BarPlaces = {0, 3, 6, 10}
  MaxBarEvents = 4
  Parts = {"graph"}
SPECIFICATION Spec
CHECK_DEADLOCK FALSE
INVARIANTS AxisIsUnderMouse
