SPECIFICATION Spec
CONSTANTS
    t1 = t1  t2 = t2  t3 = t3  NoThread = NoThread
    Threads <- MCThreads
    Interface <- MCInterface
    Plans <- MCPlans
    SeqIds = 5
INVARIANTS OwnReply StreamAligned
PROPERTY CallReturns
CHECK_DEADLOCK FALSE
