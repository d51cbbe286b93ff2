SPECIFICATION FairSpec
CONSTANTS
    MsgLens <- MCMsgLens
    BodyByte = 1
CHECK_DEADLOCK FALSE
INVARIANT TypeOK
INVARIANT FramedAnswer
