SPECIFICATION Spec
CONSTANT MaxOrphans = 3
INVARIANTS
    TypeOK
    HandlersInOrder
    PowerHasAnOwner
CHECK_DEADLOCK FALSE
