SPECIFICATION Spec
CONSTANTS
    Callers = {relay1, relay2, relay3}
    Ghost = Ghost
    None = None
    Ownerless = Ownerless
    Leftovers = {None}
    MaxCrashes = 0
INVARIANTS OneRelay
CHECK_DEADLOCK FALSE
