CONSTANTS
  Common <- MCCommon
  Programs <- MCReentered
  MaxStatements = 1
  NoSuper = NoSuper
  Zero <- MCZero
  Null <- MCNull
  Garbage <- MCGarbage
  StackDepth <- MCStackDepth
SPECIFICATION Spec
PROPERTIES
  ReturnsRestoreTheCaller
