CONSTANTS
  a = a
  b = b
  Files <- MCFiles
  maxJobs = 2
SPECIFICATION FairSpec
INVARIANTS ImageCurrent LinkComplete
PROPERTIES BuildEnds
