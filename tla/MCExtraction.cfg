SPECIFICATION Spec
CONSTANTS
  Programs <- MCPrograms
  Height = 14
  ConstantNames = {"MAX"}
  Capitalized = {"B", "C", "S", "N"}
  Builtin <- MCBuiltin
CHECK_DEADLOCK FALSE
INVARIANT ReferencesHaveSources
INVARIANT CallsStayInside
INVARIANT MembersBelongToTheirClass
