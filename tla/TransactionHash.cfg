CONSTANTS
    HashWidth = 2
    Messages <- AnnotatedMessages
    PacketSizes = {1, 2, 3, 7, 13, 64}
    client_init <- hash_init
    Callback <- OnCall
    Accepts <- AcceptsSize
    Digest <- SmallDigest
    PathWidth = 4
SPECIFICATION Spec
CHECK_DEADLOCK FALSE
INVARIANTS HashIsOfStandardEncoding RefusesWrongCount
