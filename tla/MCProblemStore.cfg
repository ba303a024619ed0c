SPECIFICATION ProblemSpec
CONSTANTS
    Instances = {i1, i2}
    Calls = {c1, c2}
    CaseNos = {n1, n2}
    Limits = {l1, l2}
    MaxIds = 3
SYMMETRY Symmetry
INVARIANT HandedOutIsLoadable
PROPERTY ChangesBuildOnRevision
CHECK_DEADLOCK FALSE
