\* Two listings, a stat and two mutating operations over any number of
\* connections, each broken or given up at any moment.
CONSTANTS
  l1 = l1  l2 = l2  s1 = s1
  Lists = {l1, l2}
  Stats = {s1}
  MaxOps = 2
SPECIFICATION FairSpec
INVARIANTS IInv ContextMatchesState NoStaleTeardown EndIsExplained
PROPERTIES NeverDestroyedInService ImplementsSessionOps OpsCompleted ReadsSettle AttemptEnds
