SPECIFICATION Spec
SYMMETRY Symmetry
CONSTANTS
    k1 = k1
    k2 = k2
    Keys <- TwoKeys
    Absent = Absent
    Loads = {l1, l2, l3}
    Parents <- SomeParents
    Ttl = 1
    MaxLatency = 1
    MaxNow = 3
    MaxWrites = 2
    ChildIds <- SomeChildIds
    Resolvers <- SomeResolvers
    Queries <- SomeQueries
    max_depth = 2
INVARIANT OneRecentState
INVARIANT DocumentComplete
CHECK_DEADLOCK FALSE
