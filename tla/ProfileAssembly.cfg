CONSTANTS
    x = x
    y = y
    typedX = typedX
    noise = noise
    heading = heading
    detail = detail
    NoiseLines <- Noise
    HeadingLines <- Headings
    DetailLines <- Details
    BareName <- Bare
    CardOrder <- TwoCards
    Fetches <- ManyFetches
SPECIFICATION Spec
CHECK_DEADLOCK FALSE
INVARIANTS
    RowsOnceInPageOrder
    EveryCardAccountedFor
    NoGluedRows
    RowsStandApart
