SPECIFICATION FairSpec
CONSTANTS
    Instances = {a, b}
    MaxChild = 3
    MaxCrashes = 3
    MaxForkFails = 3
    Nobody = Nobody
CHECK_DEADLOCK FALSE
INVARIANTS CountIsRight PidFileNamesMaster
PROPERTIES ServiceRecovers InterruptEndsAll
