\* At the bound (every generation built) callers may all be idle for good.
CHECK_DEADLOCK FALSE
CONSTANTS
    Callers = {c1, c2, c3}
    Gens = {1, 2, 3, 4}
    Nil = Nil
SPECIFICATION Spec
INVARIANTS NoOrphanGeneration StatusNamesCurrent OneGenerationActive
