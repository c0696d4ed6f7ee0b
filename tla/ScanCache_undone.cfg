SPECIFICATION Spec
CONSTANTS
  x = x y = y png = png c1 = c1 c2 = c2 p = p q = q
  None = None Torn = Torn
  File = {x}
  Hashed = {x}
  Content = {c1, c2}
  Run = {p, q}
  Plugins = {}
  Overlap = TRUE
  MaxEnv = 0
SYMMETRY Alike
INVARIANTS HitIsLive
