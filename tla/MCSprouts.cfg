CONSTANTS
    nodes = 2
    MaxCuts = 2
    MaxLeftovers = 1
SPECIFICATION Spec
INVARIANTS
    BoardLegal
PROPERTIES
    EndsWhenStuck
CHECK_DEADLOCK FALSE
