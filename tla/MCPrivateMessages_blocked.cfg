CONSTANTS
    u1 = u1
    u2 = u2
    Users <- MCUsers
    Schemes <- MCSchemes
    Contents <- MCContents
    Framings = {"eof"}
    Reasons = {TRUE}
    Blanks = {FALSE}
    Servers <- MCServers
    Configs <- MCOneConfig
    MaxIssue = 0
    MaxFaults = 0
SPECIFICATION FairSpec
PROPERTY
    LoopReturns
