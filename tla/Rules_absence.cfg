SPECIFICATION RulesSpec
CONSTANTS
  MaxHops = 3
  Bodies = {}
  SqlFiles = {}
  Dispatchers = {}
  Identifiers = {}
  Levels <- NoLevels
  Projects <- MCWrittenOut
  Worlds = {}
  CoreRefs = {}
  Controllers = {}
  LoopBodies = {}
  ViewFiles = {}
  IdFiles = {}
  Callables = {}
  Records = {}
  Sites = {}
  MaxSeparators = 2
INVARIANT AbsenceIsProvedAlways
CHECK_DEADLOCK FALSE
