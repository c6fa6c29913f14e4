SPECIFICATION Spec
CONSTANTS
    Workers = {0, 1}
    Requests = {1, 2}
    Configs <- MCConfigs
    Locations <- MCLocations
    Clients <- MCClients
    Arrivals <- MCArrivals
    UPSTREAM_CAP = 1
    RingCap = 1
    Tick = 600
    MaxTicks = 1
    Steps <- MCSteps
    MaxRedirects = 1
    MaxBatches = 1
INVARIANTS
    OneFaithfulSpan
    DeclinedIsInvisible
    UpstreamToldTruth
    MetricsAgree
CHECK_DEADLOCK FALSE
