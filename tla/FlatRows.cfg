CONSTANT
    Texts <- SmallCards
SPECIFICATION Spec
CHECK_DEADLOCK FALSE
INVARIANTS
    TypeOK
    EveryLineInOneRow
    GroupEndsAtOwnEmployer
    FieldsShareOutTheRow
