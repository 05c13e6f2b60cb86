SPECIFICATION Spec
CONSTANTS
    MaxReqHead = 10
    MaxReqBody = 2
    ReadSize = 3
    MaxHead = 12
    MaxBody = 3
    MaxChunkLine = 2
    MaxText = 6
    MinWordCut = 2
    MaxMsg = 3
    Tokens <- MCTokens
    Requests <- MCRequests
    Deliveries <- MCDeliveries
    Responses <- MCResponses
    Raws <- MCRaws
INVARIANTS
    MessagesAreReadAsFramed
    AdmittedIsWhatWasMeant
    AnswersAreReadable
    ShownIsWhatWasMade
CHECK_DEADLOCK FALSE
