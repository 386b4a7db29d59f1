\* Three classes of buffers, of half a page, a page and two pages, on a heap
\* of four pages; a request of 7 is no power of two, one of 9 is too large.
SPECIFICATION BuffersSpec
CONSTANTS
  None = None
  MAX_ORDER = 2
  BLOCK_SIZE = 4
  MIN_BUFF_ORDER = 1
  MAX_BUFF_ORDER = 3
  Requests = {2, 4, 7, 9}
  headersInSlab = 2
\* SlabFinalize is the last call.
CHECK_DEADLOCK FALSE
INVARIANTS
  HeadersMatchBlocks
  BuffersFound
PROPERTIES
  ImplementsBufferPool
