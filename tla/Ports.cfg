SPECIFICATION Spec
CONSTANTS
    NULLPROC = null
    Pid = {p1, p2, p3}
    Sem = {s1, s2, s3}
    None = None
    NPORTS = 2
    Msg = {m1, m2}
    Counts = {2}
    MaxMsgs = 2
    MaxSeq = 3
    Victims = {p1, p2, p3}
SYMMETRY Symmetry
INVARIANTS UnitsAccounted NodesConserved PanicJustified WaitersBelong
PROPERTIES ImplementsChannels
