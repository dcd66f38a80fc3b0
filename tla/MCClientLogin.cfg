SPECIFICATION Spec
CONSTANTS
    u1 = u1  u2 = u2  c1 = c1  c2 = c2
    User <- TwoUsers
    Call <- OneCall
    Answer <- FieldsSent
    Nobody = Nobody
    Guarded <- BothRoutes
    Bootstrap <- OneToken
    MaxTokens = 3
    MaxKeys = 2
PROPERTIES AcceptedCallStoresToken
