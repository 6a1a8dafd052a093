CONSTANTS
    Template <- MCTemplate
    Wanted <- MCWanted
    Pod = {p1, p2}
    Replicas = 1
    MaxChanges = 2
SPECIFICATION Spec
PROPERTIES NoPassAcrossChange PassMeansOneRelease
SYMMETRY Symmetry
CHECK_DEADLOCK FALSE
