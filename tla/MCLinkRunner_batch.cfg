\* One run of two jobs on three files: every conflict-free pair of jobs.
CONSTANTS
  f1 = f1  f2 = f2  f3 = f3
  i1 = i1  i2 = i2  i3 = i3  i4 = i4
  NoFile = NoFile
  Files = {f1, f2, f3}
  Inodes = {i1, i2, i3, i4}
  MaxJobs = 2
  MaxRuns = 1
  InitialShares <- SharesOfThree
SPECIFICATION FairSpec
INVARIANTS IInv ReplacedIsLinked VictimRecoverable
PROPERTIES RunEnds RunAdvances ImplementsLinkRun
