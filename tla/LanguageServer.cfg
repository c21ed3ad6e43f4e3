SPECIFICATION FairSpec
CONSTANTS
  d1 = d1
  d2 = d2
  Uris <- MCUris
  None = None
  MaxChanges = 2
  MaxManifest = 1
INVARIANTS QuietMeansCurrent AnswersWaitForTheWorker
PROPERTIES ChangesAreAnalysed RequestsAreAnswered ExitsUnlessAsleep
CHECK_DEADLOCK FALSE
