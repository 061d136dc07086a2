SPECIFICATION FairSpec
CONSTANTS
    OutputKinds = {"tcp", "udp", "unix", "ltp", "kafka", "file", "stdout"}
    NPeers = 2
    N = 3
    MaxAttempts = 2
CHECK_DEADLOCK FALSE
INVARIANTS TypeOK Honest WholeFrames
PROPERTIES ConsumeReturns
