\* One run of four events, two viewers, a channel that holds one message.
CONSTANTS
    Runs = {r1}
    Viewers = {v1, v2}
    Buf = 1
    MaxSeq = 4
    LogMayFail = TRUE
SPECIFICATION FairSpec
INVARIANTS TypeOK InOrderOnce NoGap EofComplete NoStrandedViewer
PROPERTIES StreamsEnd
CHECK_DEADLOCK FALSE
