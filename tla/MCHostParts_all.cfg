SPECIFICATION AllSpec
CONSTANTS
    Unused = Unused
    poll = poll  capsule = capsule  connect = connect  done = done  done2 = done2  ack = ack
    Clients = {"relay", "command"}
    Isolated = {"command"}
    Requests = {capsule, done}
    Kind <- MCKind
    SessionOpen = SessionOpen
    None = None
    Capacity = 1
    MaxSessions = 2
    MaxMessages = 3
    MaxFaults = 1
    MaxDiskFaults = 1
INVARIANTS Inv ReceiptsAreReal FileIsReliable 
CHECK_DEADLOCK FALSE
