\* Two runs, one after another, of one job each on two files: late
\* operations of earlier runs meet later ones.
CONSTANTS
  f1 = f1  f2 = f2  f3 = f3
  i1 = i1  i2 = i2  i3 = i3  i4 = i4
  NoFile = NoFile
  Files = {f1, f2}
  Inodes = {i1, i2, i3}
  MaxJobs = 1
  MaxRuns = 2
  InitialShares <- SharesOfTwo
SPECIFICATION Spec
INVARIANTS ReplacedIsLinked RestoredIsOriginal RenameRefusedIsUntouched ReportInv
PROPERTIES VictimDataKept
