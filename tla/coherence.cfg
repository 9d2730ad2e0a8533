SPECIFICATION Spec
CONSTANTS
    Cores = {1, 2, 3, 4}
    Llcs = {0, 1, 2}
    LlcOf <- Machine
    DramLag = 1
    Configs <- FullMap
INVARIANTS Coherent UpdatesKept
