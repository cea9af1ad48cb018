SPECIFICATION AllSpec
CONSTANTS
    None = None  Ownerless = Ownerless  Ghost = Ghost  Unused = Unused
    relay1 = relay1  relay2 = relay2
    s1 = s1  s2 = s2  g1 = g1  g2 = g2
    w1 = w1  p1 = p1  p2 = p2
    loop = loop  task1 = task1  task2 = task2
    WorkspaceLoops = {loop}
    Tasks = {task1, task2}
    Home <- MCHome
    Revisions = {1, 2}
    MaxFaults = 3
    MaxChanges = 2
INVARIANTS ActionSafe LeaseSafe PresenceSafe CompletionSafe
PROPERTIES Settles
PROPERTIES DeadForgotten
PROPERTIES  EvidenceDelivered
CHECK_DEADLOCK FALSE
