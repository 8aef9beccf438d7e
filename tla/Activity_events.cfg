CONSTANTS
    r1 = r1
    r2 = r2
    Run = {r1, r2}
    ToolOf <- SameTool
SPECIFICATION Spec
SYMMETRY Symmetry
CHECK_DEADLOCK FALSE
INVARIANTS
    TypeOK
    IdsDiffer
    RunsInOrder
