CONSTANTS
    Key = {k1, k2, k3}
    Worker = {w1, w2, w3}
    NoKey = NoKey
SPECIFICATION QFairSpec
INVARIANTS
    QTypeOK
    QueueDiscipline
    Stingy
    WakeupsCoverQueue
    DrainedBeforeExit
PROPERTIES
    EveryItemIsTaken
    RefinesKeyedWork
