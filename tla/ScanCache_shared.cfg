SPECIFICATION Spec
CONSTANTS
  x = x y = y png = png c1 = c1 c2 = c2 p = p q = q
  None = None Torn = Torn
  File = {x, png}
  Hashed = {x}
  Content = {c1, c2}
  Run = {p, q}
  Plugins = {1}
  Overlap = FALSE
  MaxEnv = 1
SYMMETRY Alike
INVARIANTS HitIsLive EntriesAreTrue
PROPERTIES EntrySurvives
