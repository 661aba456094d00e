SPECIFICATION Spec
CONSTANTS
  Files = {"a1", "a2", "b1"}
  Order <- MCOrder
  Project <- MCProject
  Lang <- MCLang
  Dir <- MCDir
  Within <- MCWithin
  Capitals <- MCCapitals
  Words <- MCWords
  Builtin <- MCBuiltin
  BuiltinModules <- MCBuiltinModules
  GoStdPackages <- MCGoStdPackages
  GoImport <- MCGoImport
  IdBefore <- MCIdBefore
  MaxSyncs = 2
  MaxFaults = 0
INVARIANT ExtendsReachesTheBase
CHECK_DEADLOCK FALSE
