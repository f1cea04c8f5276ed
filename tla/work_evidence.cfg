\* Two turns and a registry for one of them, two threads.
SPECIFICATION ProducerSpec
CONSTANTS
    Contexts = {x1, x2}
    Workers = {w1, w2}
    Counts = {1, 2}
    MaxContexts = 1
    MaxPerContext = 2
    Ttl = 1
    MaxTime = 2
    MaxTools = 3
SYMMETRY ProducerSymmetry
INVARIANT EvidenceRetained
