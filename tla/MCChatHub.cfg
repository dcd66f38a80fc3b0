SPECIFICATION FairSpec
CONSTANTS
    a = a  b = b
    t1 = t1  r1 = r1
    Conn <- TwoConns
    Texts <- OneText
    Relays <- OneRelay
    Close = Close
    Slots = 1
    PoolSize = 1
CHECK_DEADLOCK FALSE
PROPERTIES HubIsOrderedBroadcast EveryoneHears TasksEndTogether FramesHandled
