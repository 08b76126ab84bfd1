\* Two entities, the table of the second a prefix of the first's.
SPECIFICATION Spec
CONSTANTS
    Entities <- Prefixed
    FieldLists <- OneList
    Plural <- MCPlural
    Extends <- MCExtends
    None = None
    MaxFaults = 1
INVARIANTS
    ScaffoldAddsTable
CHECK_DEADLOCK TRUE
