----------------------------- MODULE MCHeapMem -----------------------------
\* The byte-level memory manager with an address space of Base * Base cells.
EXTENDS HeapMem
=============================================================================
