SPECIFICATION Spec
INVARIANTS SamplingAccounts AccessesWhole BranchesLearned BusSharedFairly PacketsDelivered MemorySideSound PrefetchesFollowHistory IntervalsExact MicroOpsExact
PROPERTIES ReorderBufferSound ReplacementSound
CHECK_DEADLOCK FALSE
