SPECIFICATION Spec
CONSTANTS
    u1 = u1  u2 = u2  k1 = k1  k2 = k2
    s1 = s1  s2 = s2  v1 = v1  v2 = v2
    User <- OneUser
    NoUser = NoUser
    Key <- TwoKeys
    NoKey = NoKey
    SubmitCall <- TwoSubmits
    ReviewCall <- TwoReviews
    MaxRequests = 3
SYMMETRY Symmetry
CHECK_DEADLOCK FALSE
PROPERTY DecisionFinal
