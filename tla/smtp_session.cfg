CONSTANT N = 2
SPECIFICATION FairSpec
INVARIANTS TypeOK AllOrNothing InStep
PROPERTIES ImplementsOneSend SessionEnds
CHECK_DEADLOCK FALSE
