SPECIFICATION FairSpec
CONSTANTS
    Workspaces = {w1, w2}
    Paths = {p1, p2}
    None = None
    LongestDelay = 1
    CredentialLimit = 1
    CredentialRetry = 2
    MaxFailures = 1
    MaxChanges = 1
    MaxOutages = 1
INVARIANTS RelaySafe
PROPERTIES AuthorizedTasks RegistrationFollowed StopCompletes
CHECK_DEADLOCK FALSE
