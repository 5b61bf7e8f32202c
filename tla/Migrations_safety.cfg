SPECIFICATION FairSpec
CONSTANTS
  Script <- SixFiles
  Templates = {t1, t2}
  MaxCrashes = 3
INVARIANTS RecordedIsApplied UpHasSchema FailureIsTornAlter SeededOnce
PROPERTY ComesUp
