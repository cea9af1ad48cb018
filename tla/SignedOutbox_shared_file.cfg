SPECIFICATION Spec
CONSTANTS
    poll = poll  capsule = capsule  connect = connect  done = done  done2 = done2  ack = ack
    Clients = {"a", "b"}
    Isolated = {}
    Requests = {poll, done}
    Kind <- MCKind
    SessionOpen = SessionOpen
    None = None
    Capacity = 1
    MaxSessions = 2
    MaxMessages = 4
    MaxFaults = 1
    MaxDiskFaults = 0
INVARIANTS CompletionRetained
CHECK_DEADLOCK FALSE
