CONSTANTS
    HashWidth = 2
    Messages <- SampleMessages
    PacketSizes = {0, 1, 2, 3, 5, 9, 30}
    client_init <- NoCalls
    Callback <- Trace
    Accepts <- Always
SPECIFICATION MCSpec
CHECK_DEADLOCK FALSE
INVARIANTS TypeOK ReadsWhatWasWritten CutsDoNotMatter IncompleteConsumesAll ChunksGapless
PROPERTY Answers
