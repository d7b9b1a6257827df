\* One slot, and a search cancelled and started again.
CONSTANTS
  root = root  a = a  aa = aa  b = b
  Dirs = {root, a, aa, b}
  Above <- Tree
  OptionSet <- Searches
  MaxInFlight = 1
  MaxSearches = 2
  MaxForeign = 0
SPECIFICATION Spec
INVARIANTS ListingsBounded
