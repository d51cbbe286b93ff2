SPECIFICATION FairSpec
CONSTANTS
    MsgLens <- MCMsgLens
    BodyByte = 1
CHECK_DEADLOCK FALSE
PROPERTY WholeAnswerAccepted
