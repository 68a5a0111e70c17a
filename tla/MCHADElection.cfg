CONSTANTS
    N = 3
    SendTicks = 1
    Stabilise <- MCStabilise
    MaxFaults = 1
    MaxCopies = 1
SPECIFICATION SettledSpec
INVARIANTS
    OneNegotiator
    Stabilises
    NegotiatorFollowsLeader
PROPERTIES
    Incumbent
    FirstKeepsLeading
