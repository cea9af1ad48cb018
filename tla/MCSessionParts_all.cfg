SPECIFICATION AllSpec
CONSTANTS
    Bundles = {b1, b2}
    SkillIds = {"s1", "s2"}
    Skills <- SkillsOfTwo
    None = None  Unused = Unused
    Readers = {"reader"}
    MaxReceipts = 6
    MaxRollouts = 2
    MaxFaults = 1
    MaxCommands = 2
    p1 = p1  p2 = p2  q1 = q1  q2 = q2
INVARIANTS SkillSafe InboxSafe
PROPERTIES SwitchesUnlessTouched SkillsRecover AnswersSettled
CHECK_DEADLOCK FALSE
