SPECIFICATION Spec
CONSTANTS
    src = src
    flt = flt
    snk = snk
    Sources = {}
    Filters = {}
    Sinks = {snk, s2, s3}
    Ports = {}
    Interrupters = {i1}
    DefaultInterrupter = i1
    GuintModulus = 8
    DevMode = TRUE
PROPERTIES LastSinkAgainReturns
