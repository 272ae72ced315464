SPECIFICATION Spec
CONSTANTS
    \* processes and semaphores
    Pid = {p1, p2, p3}
    NULLPROC = prnull
    Sem = {s1, s2}
    None = None
    \* memory
    WORD = 64
    MB = 4
    UINT = 2
    minheap = 8
    maxheap = 32
    MINSTK = 5
    NoMem = NoMem
    Requests = {1, 5, 62}
    StackSizes = {1, 9, 60}
    MaxHeld = 2
    Slot = {1, 2}
    \* buffer pools
    NBPOOLS = 3
    BP_MINB = 1
    BP_MAXB = 3
    BP_MAXN = 2
    BufSizes = {1, 3}
    BufCounts = {1, 2}
    BufVictims = {p1, p2, p3}
    \* memory marks
    Loc = {l1, l2}
    Garbage <- MCGarbage
    MAXMARK = 1
    \* the table of queues
    NPROC = 3
    NSEM = 1
    NQENT = 9
    EMPTY <- MCNone
    MINKEY = 0
    MAXKEY = 99
    Prio <- MCPrio
    Delays = {1, 2}
    \* dates
    SECPERDY = 86400
    SECPERHR = 3600
    SECPERMN = 60
    Times <- MCTimes
    Modes = {"on", "off", "auto"}
    \* the time of day
    Caller = {c1, c2}
    Nobody = Nobody
    ZONE = 1
    Boot = 2
    MaxTime = 4
SYMMETRY Symmetry
INVARIANTS
    HeapPartitioned
    DoubleFreeRefused
    OneOwner
    UnitsHaveBuffers
    PoolsInHeap
    OverrunBounded
    EntriesFilled
    MarkedOnReturn
    WellLinked
    StandardTimeRight
    DaylightTimeRight
    DaylightPeriod
    BarelyAhead
    SlotReleased
PROPERTIES
    OnlyWrapBreaks
    ImplementsHeap
    MarksStay
    ImplementsQueues
CHECK_DEADLOCK FALSE
