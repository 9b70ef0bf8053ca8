CONSTANTS
    u1 = u1
    u2 = u2
    Users <- MCUsers
    Schemes <- MCSchemes
    Contents <- MCContents
    Framings = {"length", "eof"}
    Reasons = {TRUE, FALSE}
    Blanks = {TRUE, FALSE}
    Servers <- MCServers
    Configs <- MCKeyConfigs
    MaxIssue = 1
    MaxFaults = 1
SPECIFICATION FairSpec
INVARIANTS
    AuthTypeOK
    OwnResponse
    ResponseFaithful
    AnswerIsServers
    FreshKey
    IdentityWhole
    PrivateReadable
PROPERTY
    AuthCallsReturn
