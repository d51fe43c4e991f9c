SPECIFICATION Spec
CONSTANTS
  Categories <- MCCategories
  LegacyCategories <- MCLegacy
  CSuppressed <- MCC
  KernelSuppressed <- MCKernel
  NamespaceLines = 3
  SmallClass = 1
  NormalTrigger = 1
  TestTrigger = 2
  Commands <- MCCommands
  DefaultLineLength = 8
  DefaultRoot = "none"
  DefaultExtensions = {"cc", "h"}
  NestLen = 4
  IncludeLen = 5
  FunctionLen = 4
  ClassLen = 3
  ScopeLen = 4
  GuardLen = 3
INVARIANTS
  TypeOK
  FiltersRestored
  ShownExactly
  CountsAgree
  NestingReference
  DuplicateIsReal
  OrderIsReal
  LongFunctionShown
