SPECIFICATION AllSpec
CONSTANTS
    Unused = Unused  r1 = r1  r2 = r2
    poll = poll  capsule = capsule  connect = connect  done = done  done2 = done2  ack = ack
    Clients = {"relay"}
    Isolated = {}
    Requests = {capsule, done, done2, ack}
    Kind <- MCKind
    SessionOpen = SessionOpen
    None = None
    Capacity = 1
    MaxSessions = 2
    MaxMessages = 4
    MaxFaults = 1
    MaxDiskFaults = 0
INVARIANTS OutboxSafe PreparationSafe
PROPERTIES ContentNeverResent ImplementsLedger OutboxDrains Converges
CHECK_DEADLOCK FALSE
