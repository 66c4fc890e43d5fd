CONSTANTS
    Nodes <- MCNodes
    Height <- MCHeight
    Streams <- MCStreams
    TextTags <- MCTextTags
    BehaviourProps <- MCBehaviour
    ElementProps <- MCOfElement
    MaxDepth = 7
SPECIFICATION Spec
CHECK_DEADLOCK FALSE
INVARIANTS
    CyclesAreCut
    ContentIsFound
    CopiesAreDropped
    NothingIsLost
