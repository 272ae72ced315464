SPECIFICATION Spec
CONSTANTS
    NULLPROC = null
    Pid = {null, p1, p2, p3}
    Sem = {s1}
    None = None
    QUANTUM = 1
    INITPRIO = 2
    Prios = {1, 2}
    NewPrios = {3}
    Counts = {0}
    MaxCount = 1
    Delays = {1}
    Timeouts = {1}
    Calls = {"create", "resume", "kill", "receive"}
    SerialKills = FALSE
    FreeIsBad = TRUE
INVARIANTS HaltsWhenDone
