SPECIFICATION FairSpec
CONSTANTS
  MaxVersion = 3
INVARIANTS TypeOK FetchIsFresh ErrorTellsLastAttempt ReportIsRecorded
PROPERTIES RetriesAreSound CallIsBounded CallReturns
