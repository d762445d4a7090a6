SPECIFICATION Spec
CONSTANTS
  Contract <- MCContract
  Declaration <- MCDeclaration
  Reports <- MCReports
  CallerVisible <- MCVisible
  FnOf <- MCFnOf
  MaxDeclarations = 5
INVARIANTS
  CyclesTold
  ToldOnce
\* a call returns
CHECK_DEADLOCK FALSE
