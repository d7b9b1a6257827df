\* A listing pending at a teardown is never answered.
CONSTANTS
  l1 = l1  l2 = l2  s1 = s1
  Lists = {l1}
  Stats = {s1}
  MaxOps = 1
SPECIFICATION FairSpec
PROPERTIES ListAnswered
