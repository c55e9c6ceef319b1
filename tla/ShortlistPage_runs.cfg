SPECIFICATION Spec
CONSTANTS
    MaxStarts = 2
    MaxLoads = 2
CHECK_DEADLOCK FALSE
INVARIANTS
    ShortlistOfCurrentRun
