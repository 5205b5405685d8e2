SPECIFICATION FairSpec
CONSTANTS
    MaxLines = 4
    LineBuf = 2
INVARIANTS CleanEndIsWhole StallOnlyWhenSilent LeavingIsTheClients
PROPERTIES StreamEndsOrFlows ReaderExits
CHECK_DEADLOCK FALSE
