SPECIFICATION Spec
CONSTANTS
    i1 = i1  i2 = i2  i3 = i3  p1 = p1  p2 = p2
    w1 = w1  w2 = w2  c1 = c1  c2 = c2
    Id <- ThreeIds
    Phone <- OnePhone
    Password <- TwoPasswords
    Call <- TwoCalls
    NULL = NULL
    Bootstrap <- FirstExpiry
    Lifetime = 1
    MaxTime = 2
SYMMETRY Symmetry
CHECK_DEADLOCK FALSE
INVARIANTS PublicRoutesAreOpen
