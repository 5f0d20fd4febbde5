\* A route and a placement call beside an editor and a person who undoes, with failures, crashes and expiry.
SPECIFICATION Spec
CONSTANTS
    Calls = {p1, p2}
    Inodes = {i1, i2, i3, i4}
    i1 = i1  t1 = t1  t2 = t2  t3 = t3  s1 = s1
    r0 = r0  rA = rA  rB = rB  rAB = rAB  rX = rX
    Contents = {r0, rA, rB, rAB, rX}
    None = None
    Tokens = {t1, t2}
    Servers = {s1}
    Issuer <- MCIssuer
    TokenTtl = 1
    MaxTime = 2
    Base <- MCBase
    Output <- MCOutput
    Placing = {t2}
    MaxBackups = 2
    OldBackups <- MCOldBackups
    Outside = {r0}
    Replacing = TRUE
    MayFail = TRUE
SYMMETRY MCSymmetry
INVARIANTS TypeOK RefusedLeavesBoard SpentTokenStaysSpent WayBackKept
\* Every call may be over.
CHECK_DEADLOCK FALSE
