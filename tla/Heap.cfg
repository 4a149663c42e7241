CONSTANTS
  Chunk_size <- MCChunks
  Chunk_first <- MCFirst
  MaxRequest = 3
SPECIFICATION MCSpec
INVARIANTS Tiled ListSound
PROPERTIES IsAllocator GrowsWhenFull BecomesWhole GarbageCollected
