SPECIFICATION Spec
CONSTANTS
  a = a
  b = b
  ma = ma
  xa = xa
  mb = mb
  c1 = c1
  c2 = c2
  c3 = c3
  None = None
  Failed = Failed
  File = {ma, xa, mb}
  Manifest = {ma, mb}
  Addon = {a, b}
  AddonOf <- TwoAddonOf
  Closure <- TwoClosure
  Content = {c1, c2}
  SizeOf <- Sizes
  Window = 1
  MaxClock = 2
  MaxEnv = 1
  Settings <- PlainSettings
PROPERTIES FailureIsRetried
