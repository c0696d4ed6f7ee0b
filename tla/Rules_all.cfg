SPECIFICATION MCSpec
CONSTANTS
  MaxHops = 3
  Bodies <- MCBodies
  SqlFiles <- MCSqlFiles
  Dispatchers <- MCDispatchers
  Identifiers <- MCNames
  Levels <- MCLevels
  Projects <- MCProjects
  Worlds <- MCWorlds
  CoreRefs <- MCCoreRefs
  Controllers <- MCControllers
  LoopBodies <- MCLoopBodies
  ViewFiles <- MCViewFiles
  IdFiles <- MCIdFiles
  Callables <- MCMethods
  Records <- MCRecords
  Sites <- MCSites
  MaxSeparators = 2
  BuiltinRules <- MCBuiltin
  Setups <- MCSetups
INVARIANTS
  TaintCovers HighMeansReached SilenceIsFixed
  AbsenceIsProved HighIsCertain RoutesAsServed RepeatsAreSame ElevationSeen
  FieldsOfOwnModel PatchesCommute MechanicalIsFixed
  RegistryIsWhole EditsKeep
CHECK_DEADLOCK FALSE
