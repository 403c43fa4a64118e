CONSTANT
    MAXIMUM_INDEX <- MCMaximumIndex
SPECIFICATION Spec
INVARIANT
    PublishedOnce
PROPERTY
    OthersKept
