CONSTANTS
    a1 = a1
    s1 = s1
    Adapters <- MCAdapters
    Statics <- MCStatics
    Jobs <- MCJobs
    SavedAdapter = a1
    None = None
SPECIFICATION Spec
INVARIANTS SuccessMeansApplied TableSettles DisabledWhileRefreshing
CHECK_DEADLOCK FALSE
