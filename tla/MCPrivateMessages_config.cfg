CONSTANTS
    u1 = u1
    u2 = u2
    Users <- MCUsers
    Schemes <- MCSchemes
    Contents <- MCContents
    Framings = {"length"}
    Reasons = {TRUE}
    Blanks = {FALSE}
    Servers <- MCServers
    Configs <- MCConfigs
    MaxIssue = 0
    MaxFaults = 1
SPECIFICATION Spec
INVARIANT
    ConfigAppliesAtStart
