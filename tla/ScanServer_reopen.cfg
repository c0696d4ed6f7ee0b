SPECIFICATION FairSpec
CONSTANTS
  p1 = p1
  p2 = p2
  p3 = p3
  r1 = r1
  r2 = r2
  f1 = f1
  f2 = f2
  Plain = Plain
  Flagged = {1}
  Path = {p1}
  Root = {r1}
  File = {f1, f2}
  Config = {f2}
  Linked = {p1}
  Above = {}
  Resolve <- OneResolve
  FilesOf <- OneFiles
  Opening <- OnlyP1
  MaxVersion = 1
  MaxEvents = 3
INVARIANTS NoLostSave RestIsFresh ClosedKeepsNothing EmptyWarningIsHonest
PROPERTIES NeverGoesBack SavesAreAnswered
CHECK_DEADLOCK FALSE
