SPECIFICATION GraphSpec
CONSTANTS
  NodeIds = {start, finish, n1, n2}
  Start = start
  Finish = finish
  NoBlock = NoBlock
  MaxEdges = 4
  MaxPatches = 0
INVARIANTS
  PublishableIsApproved
CHECK_DEADLOCK FALSE
