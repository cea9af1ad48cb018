CONSTANTS
    Procs = {relay, cli}
    Relay = relay
    Raws = {r1, r2}
    First = r1
    Suffixes = {1, 2, 3}
    None = None
    MaxCaptures = 2
    MaxExpiries = 1
    MaxRetired = 1
    MaxFaults = 1
SPECIFICATION Spec
INVARIANT VaultSafe
PROPERTY Settles
CHECK_DEADLOCK FALSE
