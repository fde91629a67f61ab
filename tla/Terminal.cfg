\* The prompt, the layout, the scale, the clock and the export.
SPECIFICATION MCSpec
CONSTANTS
  Parts = {"prompt", "screen", "scale", "export", "clock"}
  Char = {"a", "b", " "}
  Space = {" "}
  Initials <- MCInitials
  NULL = NULL
  NUL = NUL
  COLS = 16
  Prompt = 10
  MaxLen = 5
  Sessions <- MCSessions
  LINES = 10
  Regexps <- MCRegexps
  Filters = {"tcp"}
  Rates <- MCRates
  MaxBandwidths = {0, 1000, 10000, 100000, 1000000}
  MaxBars = 2
  Interfaces <- MCInterfaces
  ProcessNames <- MCPlainNames
  MaxFlows = 2
  MaxSnapshots = 2
  Second = 3
  RESOLUTION = 3
  DISPLAY_RESOLUTION = 2
  PROCINFO_RESOLUTION = 2
  HELP_TIME = 1
  HISTORY_LENGTH = 3
  history_divs <- MCDivs
  Settings <- MCSettings
  Late = 2
  MaxClock = 10
INVARIANTS TextFits LayoutIsRight ScaleFollowsRates ExportReadsBack
  RatesNearlyRight ExportTakesItsTime
PROPERTIES EditsTheLine PromptsEndWell EveryRateFits HelpIsReadable ExportEnds
