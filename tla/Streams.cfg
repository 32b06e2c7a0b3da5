SPECIFICATION Spec
CONSTANTS
    Calls <- MCCalls
    Upstreams <- MCUpstreams
    MaxValues <- MCMaxValues
    MaxChunks = 5
    MaxItemEvents = 8
    MaxCandidates = 4
    web = web
    Prose = Prose
    MaxEvents = 10
    NoUsage = NoUsage
    NoIndex = NoIndex
    NoId = NoId
    Generated = Generated
    c1 = c1
    c2 = c2
    i1 = i1
    i2 = i2
INVARIANTS WellFormed MessageEnds ArgumentsArrive  DocumentMatchesStream  CountsAgree
CHECK_DEADLOCK FALSE
