SPECIFICATION MCSpec
CONSTANTS
    src = src
    flt = flt
    snk = snk
    Sources = {src}
    Filters = {flt}
    Sinks = {snk, s2, s3}
    Ports <- ChainPorts
    Interrupters = {i1, i2}
    DefaultInterrupter = i1
    GuintModulus = 8
    DevMode = TRUE
INVARIANTS NoSinkLost EndMeansAllSinksEnded ConsumeOnlyConfigured LegalRunNeverAborts ExclusiveConsumption ConnectionsSound
PROPERTIES SingleSinkAgainReturns RoundRobin WaitingSinkIsServed InterruptedRunReturns TopologyFrozen
