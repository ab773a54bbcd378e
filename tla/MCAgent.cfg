\* One file, an agent that is started twice, two attempts per message.
SPECIFICATION FairSpec
CONSTANTS
    Files = {"auth"}
    Log <- MCLog
    MaxAttempts = 2
    MaxBoots = 2
INVARIANTS TypeOK LostForAReason OvertakenOnlyIfLate
PROPERTIES EveryLineIsTried
CHECK_DEADLOCK FALSE
