CONSTANTS
    Base = 6
    RomTop = 3
    HeapStart = 5
    HeapSize = 16
    Requests = {2, 6}
    Marks = {2}
SPECIFICATION Spec
INVARIANTS ContentsIntact Confined
PROPERTY ImplementsHeap
