CONSTANTS
    N = 2
    SendTicks = 1
    Stabilise <- MCStabilise
    MaxFaults = 5
    MaxCopies = 6
SPECIFICATION SpecReconfigure
INVARIANTS
    OneNegotiatorWhenReconfigured
