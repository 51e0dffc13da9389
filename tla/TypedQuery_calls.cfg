\* Integers of 4 and 8 bits.
CONSTANTS
    Bytes32 = 2
    Bytes64 = 4
    MAX_SAFE_INTEGER = 31
    Scenarios <- MCScenarios
    Schemas <- MCSchemas
    NameBytes <- MCNameBytes
    MaxWire = 15
    StaleChanges = 7
SPECIFICATION Spec
CHECK_DEADLOCK FALSE
INVARIANTS
    TypeOK
    ValuesExact
    OutcomeTruthful
    CodecsAgree
