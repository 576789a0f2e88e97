SPECIFICATION Spec
CONSTANTS
    Files <- MCFiles
    EmbeddedFp <- MCEmbeddedFp
    Fps = {"x", "y"}
    ANY = ANY
    CNAME = CNAME
    Overlap <- MCOverlap
    Gens = {1, 2, 3, 4, 5}
    NULL = NULL
    BAD = BAD
INVARIANT WildcardsNeverMeet
