\* One entity, generated and cleared.
SPECIFICATION Spec
CONSTANTS
    Entities <- OneWord
    FieldLists <- OneList
    Plural <- MCPlural
    Extends <- MCExtends
    None = None
    MaxFaults = 1
INVARIANTS
    ClearPrunesSchema
CHECK_DEADLOCK TRUE
