\* Declaration streams of up to MaxLine events over two namespaces.
CONSTANTS
  Maroons <- MCMaroons
  Fibers <- MCFibers
  Fns <- MCFns
  UserTypes <- MCUserTypes
  Bases <- MCBases
  ArgSpellings <- MCArgPlain
  MaxLine = 6
SPECIFICATION Spec
\* A stream ends after its last event or after Finalize().
CHECK_DEADLOCK FALSE
INVARIANTS TypeOK NoInternalError OptionalsDeclared
PROPERTIES UserTypesKept
