\* Answers of up to two items and three deltas.
CONSTANTS
    ItemCap = 2
    DeltaCap = 3
SPECIFICATION Spec
INVARIANTS SameAnswer EndsProperly
CHECK_DEADLOCK FALSE
