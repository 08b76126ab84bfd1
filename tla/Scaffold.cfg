\* One entity, six field lists, generated and cleared again and again, with up
\* to three faults.
SPECIFICATION Spec
CONSTANTS
    Entities <- OneWord
    FieldLists <- MCFieldLists
    Plural <- MCPlural
    Extends <- MCExtends
    None = None
    MaxFaults = 3
INVARIANTS
    TypeOK
    RoutesComplete
    RetryAfterClear
    ImportsResolve
CHECK_DEADLOCK TRUE
