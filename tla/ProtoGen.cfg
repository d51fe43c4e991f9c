SPECIFICATION Spec
CONSTANTS
  Starts <- MCStarts
  Edits <- MCEdits
  Imports <- MCImports
  NoFile = noFile
  NoDesc = noDesc
  noFile = noFile
  noDesc = noDesc
INVARIANTS TypeOK OutputsTogether GeneratedAsAnnotated ConfParses
CHECK_DEADLOCK FALSE
