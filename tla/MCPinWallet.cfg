SPECIFICATION Spec
CONSTANT MaxKey = 3
CONSTRAINT FewInDoubt
INVARIANTS TypeOK AttemptsKept ErasedStaysErased LastPinOpens
PROPERTY ImplementsLock
