\* No outside writer: three calls and one failed write.
SPECIFICATION Spec
CONSTANTS
    Calls = {p1, p2, p3}
    Inodes = {i1, i2, i3, i4, i5}
    i1 = i1  t1 = t1  t2 = t2  t3 = t3  s1 = s1
    r0 = r0  rA = rA  rB = rB  rAB = rAB  rX = rX
    Contents = {r0, rA, rB, rAB, rX}
    None = None
    Tokens = {t1, t2}
    Servers = {s1}
    Issuer <- MCIssuer
    TokenTtl = 5
    MaxTime = 1
    Base <- MCBase
    Output <- MCOutput
    Placing = {}
    MaxBackups = 3
    OldBackups <- MCNoBackups
    Outside = {}
    Replacing = FALSE
    MayFail = TRUE
SYMMETRY MCSymmetry
PROPERTIES LoserRefuses
\* Every call may be over.
CHECK_DEADLOCK FALSE
