\* Three calls, two tokens for one base and one for the result of the first, nobody else writing.
\* Liveness: no symmetry.
SPECIFICATION MCFairSpec
CONSTANTS
    Calls = {p1, p2, p3}
    Inodes = {i1, i2, i3, i4, i5}
    i1 = i1  t1 = t1  t2 = t2  t3 = t3  s1 = s1
    r0 = r0  rA = rA  rB = rB  rAB = rAB  rX = rX
    Contents = {r0, rA, rB, rAB, rX}
    None = None
    Tokens = {t1, t2, t3}
    Servers = {s1}
    Issuer <- MCIssuer
    TokenTtl = 5
    MaxTime = 1
    Base <- MCBase
    Output <- MCOutput
    Placing = {}
    MaxBackups = 3
    OldBackups <- MCNoBackups
    Outside = {}
    Replacing = FALSE
    MayFail = FALSE
PROPERTIES ImplementsAtomicApply CallsEnd
\* Every call may be over.
CHECK_DEADLOCK FALSE
