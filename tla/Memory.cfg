\* Two workers. The sizes are those of the code divided: the alignment is four
\* times a chunk header, the pool larger than the first chunk of an allocator;
\* the larger request is the largest that RequestsFit admits.
CONSTANTS
  Threads = {w1, w2}
  Nobody = Nobody
  Sizes = {}
  Bases = {0, 200, 400}
  First = 200
  Header = 1
  PoolSize = 40
  Requests = {7, 24}
  Align = 4
  ChunkHeader = 1
  InitialSize = 16
  MaxCalls = 5
SPECIFICATION Spec
INVARIANT GrantsApart
INVARIANT BlocksApart
CHECK_DEADLOCK FALSE
