SPECIFICATION Spec
CONSTANTS
    NULLPROC = null
    Pid = {null, p1, p2, p3}
    Sem = {s1}
    None = None
    QUANTUM = 1
    INITPRIO = 2
    Prios = {2, 3}
    NewPrios = {3}
    Counts = {0}
    MaxCount = 1
    Delays = {0, 1}
    Timeouts = {2}
    Calls = {"create", "resume", "kill", "send", "receive", "recvclr", "recvtime",
             "sleepms"}
    SerialKills = TRUE
    FreeIsBad = TRUE
SYMMETRY Symmetry
INVARIANTS LiveCount ReceiveHasMessage
PROPERTIES ImplementsTimers NoEarlyWake
