SPECIFICATION FairSpec
CONSTANTS
  Producer = {p1, p2}
  PoolSize = 3
  Heap = {h1}
  Chunk = {x, y}
  None = None
  QueueSize = 2
INVARIANTS TypeOK OneOwner NothingLeaks
PROPERTIES ChannelsAreFifo BuffersReturn
