SPECIFICATION FairSpec
CONSTANTS
    w1 = w1
    t1 = t1
    Writers = {w1}
    Targets = {t1}
    MaxGenerations = 2
    MaxDials = 1
PROPERTIES
    RequestsFinish
    LossVisible
    ShutdownReturns
