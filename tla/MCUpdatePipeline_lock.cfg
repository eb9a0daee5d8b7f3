SPECIFICATION Spec
CONSTANTS
    p1 = p1
    p2 = p2
    full = full
    part = part
    old = old
    bad = bad
    alien = alien
    kernelFile = kernelFile
    radioFile = radioFile
    Nothing = Nothing
    Torn = Torn
    Proc = {p1, p2}
    Image <- MCImage
    Carries <- MCCarries
    SameVersion <- MCSameVersion
    Unsigned <- MCUnsigned
    Foreign <- MCForeign
    File <- MCFile
    Concurrent = TRUE
    MaxInstalls = 2
INVARIANT
    LockExcludes
