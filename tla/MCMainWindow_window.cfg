\* Two paths, three files, tables of up to three rows.
CONSTANTS
  f1 = f1  f2 = f2  f3 = f3
  Nothing = Nothing
  Files = {f1, f2, f3}
  Message = {"replaced", "restored"}
  MatchLists <- MCMatchLists
  Paths = {a, b}
SPECIFICATION FairSpec
INVARIANTS IInv OneActivity StatusIsOfItsMatch RunIsAsConfirmed ControlsCurrent WrittenThrough
PROPERTIES SavedPathsKept ControlsComeBack
