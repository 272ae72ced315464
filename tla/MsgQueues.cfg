SPECIFICATION MsgQueueSpec
CONSTANTS
    NULLPROC = null
    Pid = {null, p1, p2}
    Sem = {s1}
    None = None
    QUANTUM = 1
    INITPRIO = 2
    Prios = {2}
    NewPrios = {3}
    Counts = {0}
    MaxCount = 1
    Delays = {1}
    Timeouts = {1}
    Calls = {"create", "resume", "sendmsg", "sendmsgs", "sendnmsg", "receivemsg", "receivemsgs"}
    SerialKills = TRUE
    FreeIsBad = TRUE
    Msg = {m1, m2}
    MAX_MSGS = 2
    MAX_RECVERS = 3
    Batches <- MCBatches
    Takes = {1}
SYMMETRY Symmetry
INVARIANTS RingConsistent FoundEnough NoMessageWaits
PROPERTIES ImplementsInboxes
