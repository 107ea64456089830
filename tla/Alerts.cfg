SPECIFICATION MCSpec
CONSTANTS
    Size = 1
    MaxAlerts = 2
    MaxCalls = 2
    MaxPolls = 2
    MaxFaults = 2
INVARIANT PageTellsTruth
PROPERTY BadgeSettles
