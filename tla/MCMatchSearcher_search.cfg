\* Two searches, one after another, with two slots.
CONSTANTS
  root = root  a = a  aa = aa  b = b
  Dirs = {root, a, aa, b}
  Above <- Tree
  OptionSet <- Searches
  MaxInFlight = 2
  MaxSearches = 2
  MaxForeign = 1
SPECIFICATION FairSpec
INVARIANTS IInv ResultCoversTrees NeverStuck
PROPERTIES EndedSearchIsSilent SearchEnds
