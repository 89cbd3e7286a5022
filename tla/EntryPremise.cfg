SPECIFICATION Spec
CONSTANTS
  Windows <- MCWindows
  Moments <- MCMoments
  Paths <- MCPaths
  OldStops <- MCOldStops
  Specs <- MCSpecs
  HistoryDays = 21
  Closures <- MCClosures
  EarlyDays <- MCEarlyDays
  SummerTime <- MCSummerTime
  NoDay = NoDay
  NoPayload = NoPayload
  Missing = Missing
  NoDate = NoDate
  AbsenceAuthoritative = FALSE
INVARIANT EntryPremiseHolds
CHECK_DEADLOCK FALSE
