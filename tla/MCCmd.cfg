SPECIFICATION Spec
CONSTANTS
  Files <- SomeFiles
  MaxOf <- MCMaxOf
  MaxMessages = 2
  MaxReads = 3
INVARIANTS
  TypeOK
  LatestFileWins
  LookupIsExact
  OnlyMessagesGetLostInSilence
CHECK_DEADLOCK TRUE
