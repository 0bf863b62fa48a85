SPECIFICATION Spec
CONSTANTS
    Requests = {r1, r2, r3, r4}
    Namespaces <- MCNamespaces
    PrefixOf <- MCPrefixOf
    FirstYear = 99
    LastYear = 101
    MaxSequence = 3
    Serial = FALSE
CHECK_DEADLOCK FALSE
SYMMETRY RequestSymmetry
INVARIANTS
    TypeOK
    LoserOvertaken
    DenseSequences
PROPERTIES
    ImplementsSequence
