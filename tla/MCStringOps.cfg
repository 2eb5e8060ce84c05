CONSTANTS
    Words = 8
    Chars <- MCChars
    MaxLen = 3
    MaxIndex = 7
    Unread = Unread
SPECIFICATION Spec
INVARIANTS ComparisonsRight SliceRight FoldingAgrees SliceAssignmentRight
CHECK_DEADLOCK FALSE
