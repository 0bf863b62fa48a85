SPECIFICATION Spec
CONSTANTS
    Requests = {r1, r2}
    Namespaces <- MCNamespaces
    PrefixOf <- MCSharedPrefixOf
    FirstYear = 26
    LastYear = 26
    MaxSequence = 99
    Serial = TRUE
CHECK_DEADLOCK FALSE
SYMMETRY RequestSymmetry
INVARIANTS
    GeneratedUnique
