SPECIFICATION Spec
CONSTANTS
    kant = kant
    nietzsche = nietzsche
    rikyu = rikyu
    study = study
    agora = agora
    Agents = {kant, nietzsche, rikyu}
    PairOrder <- MCPairOrder
    Zones = {study, agora}
    Centre <- MCCentre
    Props = {4}
    Speed = 1
    Radius <- MCRadius
    Push = 1
    Near = 3
    Reach = 1
    Extent = 6
    None = None
INVARIANTS
    ZonesTold
    NearnessTold
CHECK_DEADLOCK FALSE
