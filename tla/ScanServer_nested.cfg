SPECIFICATION Spec
CONSTANTS
  p1 = p1
  p2 = p2
  p3 = p3
  r1 = r1
  r2 = r2
  f1 = f1
  f2 = f2
  Plain = Plain
  Flagged = {1}
  Path = {p1, p2, p3}
  Root = {r1, r2}
  File = {f2}
  Config = {}
  Linked = {p3}
  Above <- NestedAbove
  Resolve <- TwoNames
  FilesOf <- SharedFiles
  Opening <- InnerOrOuter
  MaxVersion = 1
  MaxEvents = 2
INVARIANT ViewMatchesFindings
PROPERTIES ImplementsBoard MarkersFollowName
CHECK_DEADLOCK FALSE
