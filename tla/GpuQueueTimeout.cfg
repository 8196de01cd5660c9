SPECIFICATION FairSpec
CONSTANTS
  WordModulus = 16
  FieldTimeout = 2
  PollTimeout = 3
  QueueSize = 4
PROPERTIES
  ReportNamesTheBacklog
  TimesOutOnTime
  EveryWaitEnds
