SPECIFICATION LiveSpec
CONSTANTS
    Cores = {1, 2, 3}
    Llcs = {0, 1}
    LlcOf <- SmallMachine
    DramLag = 1
    Configs <- Fair
PROPERTIES Served
