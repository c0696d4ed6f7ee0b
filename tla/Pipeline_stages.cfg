SPECIFICATION MCSpec
CONSTANTS
  N = 3
  MinSample = 2
  None = None
  Unknown = Unknown
  Malformed = Malformed
  Module <- MCModule
  Rule <- MCRule
  Path <- MCPath
  File <- MCFile
  Norm <- MCNorm
  Registered <- MCRegistered
  MinVersion <- MCMinVersion
  Requires <- MCRequires
  Excludes <- MCExcludes
  Capability <- MCCapability
  VersionCap <- MCVersionCap
  Version <- MCVersion
  Detection <- MCDetection
  Diagnostics <- MCDiagnostics
  Comment <- MCComment
  Configs <- MCConfigs
  Documents <- MCDocuments
  Typing <- MCTyping
  MaxChanges = 2
CHECK_DEADLOCK FALSE
INVARIANTS
  EveryFindingCounted
  ScoreCountsOnce
  ActionsHitTheirLine
