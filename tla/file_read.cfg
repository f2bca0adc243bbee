SPECIFICATION FairSpec
CONSTANTS
    r1 = r1
    w1 = w1
    w2 = w2
    Readers = {r1}
    Writers = {w1, w2}
    Own = Own
    Through <- OneShares
    MsgLen <- AufsMsgLen
    ReadSizes = {0, 8, 4096}
    Positions = {0, 19, 100}
    Bytes = {48, 49, 10}
    MayFault = TRUE
INVARIANTS TypeOK NoOverread SeamlessPass WholeMessage
PROPERTY ReaderReachesEnd
\* The system may stop: a reader whose open file a dead writer has locked
\* waits for ever.
CHECK_DEADLOCK FALSE
