SPECIFICATION FairSpec
CONSTANTS
    NULLPROC = null
    Pid = {null, p1, p2, p3}
    Sem = {s1}
    None = None
    QUANTUM = 2
    INITPRIO = 2
    Prios = {2}
    NewPrios = {2}
    Counts = {0}
    MaxCount = 1
    Delays = {1}
    Timeouts = {2}
    Calls = {"create", "resume", "suspend", "recvtime", "sleepms", "chprio"}
    SerialKills = TRUE
    FreeIsBad = TRUE
PROPERTIES SleeperWakes TimeSharing
