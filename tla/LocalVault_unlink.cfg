CONSTANTS
    Procs = {relay, cli}
    Relay = relay
    Raws = {r1, r2}
    First = r1
    Suffixes = {1, 2, 3}
    None = None
    MaxCaptures = 3
    MaxExpiries = 0
    MaxRetired = 0
    MaxFaults = 0
SPECIFICATION Spec
INVARIANT FilesOfRows
CHECK_DEADLOCK FALSE
