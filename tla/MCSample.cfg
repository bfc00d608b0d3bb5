SPECIFICATION FairSpec
CONSTANTS
  MaxLoads = 2
  Broken = {2}
  Nodes <- Models

INVARIANTS TypeOK NoLoadIsForgotten DrawsAreBound LoadedBeforeRendered
PROPERTIES LoadingEnds
CHECK_DEADLOCK FALSE
