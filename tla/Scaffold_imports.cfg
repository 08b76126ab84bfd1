\* One entity, of two words.
SPECIFICATION Spec
CONSTANTS
    Entities <- TwoWords
    FieldLists <- OneList
    Plural <- MCPlural
    Extends <- MCExtends
    None = None
    MaxFaults = 1
INVARIANTS
    ImportsResolve
CHECK_DEADLOCK TRUE
