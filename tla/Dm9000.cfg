SPECIFICATION FairSpec
CONSTANTS
  Boards <- SafeBoards
  Lens = {1, 2}
  MaxRx = 1
INVARIANTS AddressPreserved  CountMatchesChip OwnLength OwnTransaction PollEnds
PROPERTIES QueueMoves RxServed
