CONSTANTS
    g1 = g1  g2 = g2 
    p1 = p1  p2 = p2  p3 = p3
    retry1 = retry1  retry2 = retry2
    Guids = {g1, g2}
    Pipelines = {p1, p2}
    VoucherOf <- TwoVouchers
    Routed = {g1}
    Worker = worker
    Retriers = {}
    MaxAttempts = 2
    BatchSize = 1
    DeleteAfterSuccess = FALSE
    Rejects = FALSE
    MaxFaults = 0
SPECIFICATION Spec
PROPERTY BackgroundRetry

