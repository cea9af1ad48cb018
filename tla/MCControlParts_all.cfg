SPECIFICATION AllSpec
CONSTANTS
    loop1 = loop1  command = command  relay = relay
    Callers = {loop1, command}
    Processes = {relay, command}
    ProcessOf <- MCProcessOf
    Pids = {p1, p2}
    Files = {f1, f2, f3}
    None = None  Local = Local  Unused = Unused
    MaxCrashes = 2
    k1 = k1  k2 = k2
INVARIANTS LockSafe PolicySafe HostSafe
PROPERTIES AbandonedMutexPreserved DeadLockRecovered RecordRepaired
CHECK_DEADLOCK FALSE
