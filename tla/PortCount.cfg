SPECIFICATION Spec
CONSTANTS
    NULLPROC = null
    Pid = {p1, p2, p3}
    Sem = {s1, s2}
    None = None
    NPORTS = 1
    Msg = {m1, m2}
    Counts = {2}
    MaxMsgs = 2
    MaxSeq = 3
    Victims = {p1, p2, p3}
SYMMETRY Symmetry
INVARIANTS CountIsMessages
