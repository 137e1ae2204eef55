SPECIFICATION FairSpec
CONSTANTS
    Order <- order
    Names <- names
    Weights <- weights
    Commands <- commands
    FullWeight = 1
    Handlers = {h1, h2}
    Conns = {k1}
    None = None
INVARIANTS WeightsAtRest FileIsCurrent RollbackDecides OneLateConnection
PROPERTY DrainEnds
CHECK_DEADLOCK FALSE
