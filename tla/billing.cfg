SPECIFICATION Spec
CONSTANTS
    Contracts <- MCContracts
    NoContract = "none"
    CustomerOf <- MCCustomerOf
    SiteOf <- MCSiteOf
    Batches <- MCBatches
    BatchSite <- MCBatchSite
    Adjustments = {"setup"}
    OnBehalfOf <- MCOnBehalfOf
    MaxRuns = 2
    Ending = {"alice2"}
    MaxFaults = 2
INVARIANT AdjustmentsBilledOnce
INVARIANT NumberedInTurn
PROPERTY BatchAccountsForAll
CHECK_DEADLOCK FALSE
