SPECIFICATION ParserSpec
CONSTANTS
  Events <- MCEvents
  MaxEvents = 4
CHECK_DEADLOCK FALSE
INVARIANTS TimesOfLog DistanceOfPath
