SPECIFICATION AllSpec
CONSTANTS
    Processes = {p1, p2}
    p1 = p1 p2 = p2 r = r q = q a = a b = b
    Roots = {r, q}
    Keysets <- MCKeysets
    Casts <- MCCasts
    None = None  Unused = Unused
    MaxTime = 2
    MaxStamps = 1
    MaxFaults = 1
INVARIANTS  CopiesSafe SetupSafe
PROPERTIES Implements WritesKeep
CHECK_DEADLOCK FALSE
