SPECIFICATION Spec
INVARIANTS  SyscallsAnswered TracesReplayed MessagesHandled HeatBalances   FloorplansTiled
PROPERTIES RemapConsistent SpinsDetected
CHECK_DEADLOCK FALSE
