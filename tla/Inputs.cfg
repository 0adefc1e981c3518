\* HTTP clients and control inputs, in pieces of any length and in any order.
CONSTANTS
    Targets = {"t1", "t2"}
    RecvChunk = 5
    SizeLimit = 6
    Chunk = 3
    Limit = 4
    Conversations <- MCConversations
    Plans <- MCPlans
    Workloads <- MCWorkloads
    MaxExchanges = 2
    MaxStreams = 3
SPECIFICATION Spec
INVARIANTS HttpTypeOK ControlTypeOK SlotUntilOutcome HttpBufferBounded LinesAreWhole ControlBufferBounded HandlersHaveInput
PROPERTIES TextIsRead RequestsAreDecided RequestsAreAnswered
CHECK_DEADLOCK FALSE
