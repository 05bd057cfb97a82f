CONSTANTS
    Nobody = nobody
    MaxConfigs = 2
    MaxInt = 1000000
    Inputs <- MCItems
SPECIFICATION Spec
INVARIANT
    AccessIsAsDocumented
    RoutesAreAsConfigured
    DurationsAreExact
    ItemsBlockForCause
