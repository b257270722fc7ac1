CONSTANTS
  timed = timed
  parented = parented
  Tasks = {timed, parented}
  Workers = {w1}
  Coordinator = coordinator
  None = None
  MaxPending = 2
  MaxRetained = 3
  Bytes <- MCBytes
  Parented <- MCParented
  Timed <- MCTimed
SPECIFICATION Spec
INVARIANTS
  CountersAgree
  BytesAreBounded
  CompletionOnce
  FirstReasonWins
  JoinRetiresAll
PROPERTIES
  StartsInOrder
  CancellationActs
  WorkEnds
