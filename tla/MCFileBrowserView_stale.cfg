\* A directory that is listed again.
CONSTANTS
  d1 = d1  d2 = d2  f1 = f1  f2 = f2  f3 = f3
  Dirs = {d1, d2}
  Files = {f1, f2, f3}
  Content <- InDirs
  Nothing = Nothing
  Filters <- MCFilters
  MaxInFlight = 1
  Overshoot = 0
  MaxNavigations = 2
  MaxOthers = 0
SPECIFICATION Spec
INVARIANT LinkCountsAreCurrent
