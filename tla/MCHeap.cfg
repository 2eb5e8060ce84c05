CONSTANTS
    HeapStart = 3
    HeapSize = 26
    Requests = {2, 3, 5, 8}
SPECIFICATION FairSpec
INVARIANTS TypeOK Tiling FreeListSorted Defragmented WalksRight
PROPERTIES ImplementsAllocator CallsReturn
