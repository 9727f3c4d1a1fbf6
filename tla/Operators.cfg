SPECIFICATION PhraseSpec
CONSTANTS
  Cases <- MCCases
  Texts <- MCTexts
  TrainMax = 2
  MaxClock = 1
  Predicates <- MCPredicates
  UseFalsePort = TRUE
  BSortSlack = 1
  JoinWindow = 1
  JoinSlack <- MCJoinSlack
  JoinPredicate <- MCJoinPredicate
  ResampleWindow = 1
  ResampleSlack <- MCResampleSlack
  AggSlack = 1
  Timeout = 0
  TruncatingAbs = TRUE
INVARIANTS
  PassedOnce
  BSortSorted
  JoinExact
  ResampleWindows
  AggregateWindows
  TextMeans
  AggregatesExact
CHECK_DEADLOCK FALSE
