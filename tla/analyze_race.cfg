\* A database compressed between analyze's stat() and its sqlite3.connect()
\* comes back as an empty .db beside its archive.
SPECIFICATION Spec
CONSTANTS
  NumDbs <- RaceDbs
  LIST_LIMIT <- RaceLimit
  Compressible <- RaceCompressible
  Commands <- AnalyzeOnly
INVARIANT NoDatabaseCreated
