SPECIFICATION FairSpec
CONSTANTS
    MaxGenerations = 2
    MaxRestarts = 1
PROPERTIES
    WarmLossReportedInEveryRun
