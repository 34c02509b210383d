CONSTANTS
  Items <- MCItems
  IntWidth = 5
  Mantissa = 6
  Precision = 3
  SampleBytes = {0, 62, 170, 255}
  MaxBytes = 5
  PageSize = 12
  NodeSize = 3
  AttributeSize = 2
  ExtraSize = 1
  HeaderSize = 1
  Alignment = 1
  Docs = {1, 2}
  ReuseThreshold = 2
  Kinds = {"element", "pcdata", "declaration"}
  Strings <- MCStrings
  Forests <- MCForests
  Queries <- MCQueries
  MaxObjects = 7
  MaxCalls = 3
  BufCapacity = 8
  Saves <- MCSaves
  Interrupted <- MCInterrupted
  OptionSets <- MCOptionSets
  SafeOptions <- MCSafeOptions
  SampleTexts <- MCSampleTexts
  SampleLines <- MCSampleLines
  SampleNumbers <- MCSampleNumbers
  RangeLists <- MCRangeLists
  SamplePlaces <- MCSamplePlaces
  SampleTimes <- MCSampleTimes
  Zones <- MCZones
  SampleDates <- MCSampleDates
  Formats <- MCFormats
  DepthLimit = 12
  QueryTexts <- MCQueryTexts
  QueryLexemes <- MCQueryLexemes
  Waiters = {"w1", "w2", "w3"}
  Readers = {"r1"}
  Lockers = {"l1"}
  MaxPushes = 4
  AverageLength = 3
  AverageLimit = 8
  SizeLimit = 64
  Samples <- MCSamples
  MaxSamples = 6
  MaxPulls = 4
  MaxDepth = 3
  Parts = {"documents"}
SPECIFICATION DataSpec
CHECK_DEADLOCK FALSE
INVARIANT OrderIsTrue
