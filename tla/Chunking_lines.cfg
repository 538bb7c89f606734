SPECIFICATION FairSpec
CONSTANTS
    Document <- MCDocument
    MaxTokens = {2, 4}
    Overlap = {0, 1}
    DefaultOverlap = 3
    MaxChunks = 20
INVARIANT WindowsTile
INVARIANT TextUnderItsHeadings
PROPERTY ChunkingEnds
CHECK_DEADLOCK FALSE
