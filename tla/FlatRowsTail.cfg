CONSTANT
    Texts <- BulletCards
SPECIFICATION Spec
CHECK_DEADLOCK FALSE
INVARIANT
    NoTailOpensARow
