SPECIFICATION Spec
CONSTANTS
    Processes = {p1, p2}
    p1 = p1 p2 = p2 r = r q = q a = a b = b
    Roots = {r, q}
    Keysets <- MCKeysets
    Casts <- MCCasts
    None = None
    MaxTime = 2
    MaxStamps = 1
    MaxFaults = 1
INVARIANT AcceptedFinishes
CHECK_DEADLOCK FALSE
