CONSTANTS
    t1 = t1  t2 = t2
    Client = {t1, t2}
    ParcelLimit = 2
    ExtraLimit = 2
    BatchLimit = 2
    Losses = TRUE
    ConsumerSets <- ConsumerMixes
    Transforms = {"ROTATE_NONE", "ROTATE_90"}
    Shapes <- AllShapes
    MethodMixes <- BothMixes
    Caller = {a}
    MaxQueue = 64
    FrameWidth = 2
    FrameHeight = 3
    Unit = 6
    Surface = {s1, s2}
    Hints = {h0, h1}
    FirstHint = h0
    Limits = {0, 1}
    MaxInbox = 2
    Setter = {t1, t2}
    QueueId = 7
    Thread = {t1, t2}
    OtherKeys = {k1}
    Limit = 2
    Buffer = {1, 2}
    Releaser = {c1}
    MaxListeners = 2
    App = {a1, a2}
    Window = {w1, w2}
    Number = {1, 2}
    MaxBuffers = 2
    MaxRefs = 2
    LppBuffer = {b1, b2}
    SlotSize = 3
    MaxAcquired = 0
    MaxSkipped = 10
    MaxFrames = 4
    BufferObject = {o1, o2}
    MaxSequence = 3
    CounterSize = 4
    MaxAbroad = 1
SPECIFICATION PartsSpec
INVARIANTS
    MessagesParse AnswersAreTrue CacheIsTrue
    OkMeansDone SettingsInRange
    MatrixIsGeometric
    HintsAgree
    ListenerKnows
    WindowDataAgrees
    HandedOnce NoneForgotten
    WindowsAgree
    RingIsSafe
    OwnersDiffer
