SPECIFICATION BackendSpec
CONSTANTS
    a = a  b = b  t1 = t1  t2 = t2
    u1 = u1  c1 = c1  k1 = k1
    Conn <- TwoConns
    Texts <- TwoTexts
    Relays = {}
    Close = Close
    Slots = 1
    PoolSize = 1
    UserId <- OneUser
    Content <- OneContent
    Empty = Empty
    Reaction <- NoReaction
    Delay <- Soon
    MaxTime = 1
    Null = Null
    UserOf <- SameUser
    ConversationId <- OneConversation
    Conversations <- OneConversation
SYMMETRY Symmetry
CHECK_DEADLOCK FALSE
INVARIANTS BackendTypeOK PersistedBeforeBroadcast OrderKept OnlyLastUnbroadcast ShownUntilExpired ThreadsInOrder RefusedOnlyForCause
