SPECIFICATION FairSpec
CONSTANTS
    MaxConn = 2
    MaxMessage = 2
    HeaderLen = 2
    BodyLen = 2
    maxPayload = 2
INVARIANTS
    FramesInStep
PROPERTIES
    AnswersMatch
    EveryRequestAnswered
    EveryHandlerEnds
\* the requests and transactions end with MaxMessage
CHECK_DEADLOCK FALSE
