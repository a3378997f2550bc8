\* ARG(x, OPTIONAL<T>) in a FN: the type it stores.
CONSTANTS
  Maroons <- MCMaroons
  Fibers <- MCFibers
  Fns <- MCFns
  UserTypes <- MCUserTypes
  Bases <- MCBases
  ArgSpellings <- MCArgAny
  MaxLine = 6
SPECIFICATION Spec
\* A stream ends after its last event or after Finalize().
CHECK_DEADLOCK FALSE
INVARIANT TypeNamesResolve
