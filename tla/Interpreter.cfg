CONSTANTS
  Common <- MCCommon
  Programs <- MCPrograms
  MaxStatements = 2
  NoSuper = NoSuper
  Zero <- MCZero
  Null <- MCNull
  Garbage <- MCGarbage
  StackDepth <- MCStackDepth
SPECIFICATION FairSpec
INVARIANTS
  TypeOK
  FramesMatchActivations
  NeverExits
  ClinitRunsOnce
PROPERTIES
  ImplementsJavaMachine
  ProgramEnds
