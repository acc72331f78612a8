SPECIFICATION FairConnect
CONSTANT N = 4
INVARIANTS ConnectTypeOK NoSurplusAccept PeersComplete
PROPERTY AllInitialized
CHECK_DEADLOCK FALSE
