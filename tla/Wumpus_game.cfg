SPECIFICATION FairSpec
CONSTANTS
    Users = {ann, bob}
    Mazes <- MCMazes
    Objects = {"arrows", "bats", "pit"}
    WantSizes <- MCWantSizes
    MinSize = 3
    MaxSize = 3
    UIntRange = 100
    StartArrows = 1
    MoreArrows = 1
    PlayerHp = 20
    PlayerWound = 10
    WumpusHp = 10
    WumpusWound = 5
    Speed = 2
    SpeedUp = 1
    StartDelay = 2
    TimerIds = {t1, t2, t3}
INVARIANTS TypeOK GameAgrees SpeedMatchesWounds TimersOwned TimersDrive
PROPERTIES MeetingIsFatal ObjectsNeverMultiply LifecycleHolds EveryGameEnds WumpusNeverRests
CHECK_DEADLOCK FALSE
