SPECIFICATION Spec
CONSTANTS
    NULLPROC = null
    Pid = {null, p1, p2, p3}
    Sem = {s1}
    None = None
    QUANTUM = 1
    INITPRIO = 2
    Prios = {2, 3}
    NewPrios = {3}
    Counts = {0, 1}
    MaxCount = 1
    Delays = {1}
    Timeouts = {1}
    Calls = {"create", "resume", "kill", "suspend", "wait", "signal",
             "signaln", "semcreate", "semdelete", "semreset", "yield"}
    SerialKills = TRUE
    FreeIsBad = TRUE
SYMMETRY Symmetry
INVARIANTS TypeOK OneQueue CountMatchesQueue HighestPriorityRuns DeferredOnlyInLoops SomeoneToRun
PROPERTIES ImplementsSemaphores
