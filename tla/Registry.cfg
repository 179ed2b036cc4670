SPECIFICATION FairSpec
CONSTANTS
  Names = {1, 2, 3}
  Handlers = {h1, h2}
INVARIANTS ResolveAgrees DependenciesUp ServedWhole
PROPERTY ShutdownEnds
CHECK_DEADLOCK FALSE
