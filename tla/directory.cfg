\* `inventory` or `analyze` racing the compression and archival jobs: when
\* a .db can reappear, and when a stat() can fail.
SPECIFICATION Spec
CONSTANTS
  NumDbs <- RaceDbs
  LIST_LIMIT <- RaceLimit
  Compressible <- RaceCompressible
  Commands <- BothCommands
INVARIANT TypeOK
INVARIANT DoubleListedOnlyWhileBusyOrStray
INVARIANT NoDatabaseCreatedUnlessCompressing
INVARIANT CrashOnlyWhileJobsRun
