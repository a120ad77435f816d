CONSTANTS
  Common <- MCCommon
  Programs <- MCClinitAgain
  MaxStatements = 2
  NoSuper = NoSuper
  Zero <- MCZero
  Null <- MCNull
  Garbage <- MCGarbage
  StackDepth <- MCStackDepth
SPECIFICATION Spec
PROPERTIES
  CallsStartAtTheBeginning
