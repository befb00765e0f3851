SPECIFICATION Spec
CONSTANTS
    MaxSeq = 3
    MaxGen = 3
INVARIANTS
    TypeOK
    CardKeepsWord
PROPERTIES
    NoRollback
    ImplementsRegister
