SPECIFICATION FairSpec
CONSTANTS
    m1 = m1  m2 = m2
    u1 = u1  c1 = c1  r1 = r1
    MessageId <- TwoIds
    UserId <- OneUser
    Content <- OneContent
    Empty = Empty
    Reaction <- NoReaction
    Delay <- PastAndFuture
    MaxTime = 1
    Null = Null
CHECK_DEADLOCK FALSE
PROPERTY ExpiredPurged
