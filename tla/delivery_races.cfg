CONSTANTS
    g1 = g1  g2 = g2
    p1 = p1  p2 = p2  p3 = p3
    retry1 = retry1  retry2 = retry2
    Guids = {g1, g2}
    Pipelines = {p1, p2, p3}
    VoucherOf <- TwoUploads
    Routed = {g1}
    Worker = worker
    Retriers = {retry1, retry2}
    MaxAttempts = 2
    BatchSize = 2
    DeleteAfterSuccess = TRUE
    Rejects = TRUE
    MaxFaults = 2
SPECIFICATION ScenarioSpec
INVARIANTS TypeOK SucceededWasDelivered DeletedWasDelivered PendingHasAttemptsLeft
PROPERTY RoutedSettles
CHECK_DEADLOCK FALSE
