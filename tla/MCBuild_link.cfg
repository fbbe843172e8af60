CONSTANTS
  a = a
  b = b
  Files <- MCFiles
  maxJobs = 2
SPECIFICATION Spec
INVARIANTS FilesUpToDate
