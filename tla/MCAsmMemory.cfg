CONSTANTS
    Kits <- MCKits
    MaxMem = 9
    MaxDepth = 2
SPECIFICATION Spec
INVARIANTS OperandsResolve DuplicatesRight ProperAssembles TemporariesResolve OutputPlaced
CHECK_DEADLOCK FALSE
