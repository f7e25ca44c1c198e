SPECIFICATION Spec
CONSTANTS
    kant = kant
    rikyu = rikyu
    Agents = {kant, rikyu}
    Self = kant
    Zones = {"study", "agora"}
    Keys = {"study", "agora"}
    Impact <- MCImpact
    Prints <- MCPrints
    One = 4
    Threshold = 3
    TrustFloor = 4
    MinInteractions = 2
    MaxTurns = 4
    Step = 2
    Cap = 3
    Horizon = 1
    None = None
    NoEntry = NoEntry
INVARIANT
    NoSignFlip
CHECK_DEADLOCK FALSE
