------------------------------- MODULE MCHeap -------------------------------
\* A small heap for TLC: HeapSize - 4 bytes of blocks of four bytes and more.
EXTENDS Heap
=============================================================================
