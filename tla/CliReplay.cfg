SPECIFICATION CliSpec
CONSTANTS
    r1 = r1
    r2 = r2
    r3 = r3
    c1 = c1
    c2 = c2
    Run = {r1, r2, r3}
    Challenge = {c1, c2}
CHECK_DEADLOCK FALSE
INVARIANT ReplayRejected
