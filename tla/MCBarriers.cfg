SPECIFICATION Spec
CONSTANTS
  target = target
  chain = chain
  Resources = {target, chain}
  Subresources <- Counts
  Chains = {chain}
  States = {COMMON, WRITE}
  Common = COMMON
  Lists = {l1, l2}
  MaxRecorded = 2
  MaxQueue = 0
  All = All
  NoList = NoList
SYMMETRY Symmetry
INVARIANTS TypeOK BeforeStatesMatch UsesFindStates GlobalIsLastState
