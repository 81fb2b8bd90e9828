CONSTANTS
    Setters = {s1, s2}
    Collectors = {k1}
    PoolSizes = {0, 2}
    Thresholds = {5}
    None = None

SPECIFICATION Spec
INVARIANT CollectNeverPanics
