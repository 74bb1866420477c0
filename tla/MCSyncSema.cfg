SPECIFICATION FairSpec
CONSTANTS
  t1 = t1
  t2 = t2
  t3 = t3
  Threads = {t1, t2, t3}
  Priority <- Three
  FixedPriority = TRUE
  InitialValues = {0, 1}
  MaxCount = 2
  Aborts = TRUE
CHECK_DEADLOCK FALSE
INVARIANTS TokensConserved RuleOfThumb UrgentFirst
PROPERTY DestroyReleases
