CONSTANTS
  JVM_ATTRIBUTE <- AttributeNames
  Files <- MCFiles
SPECIFICATION Spec
INVARIANTS
  TypeOK
  ReadsTheWholeFile
  ClassReadBack
  ReferencesResolve
