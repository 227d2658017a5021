CONSTANTS
    CR = CR
    LF = LF
    DOT = DOT
    SP = SP
    LEAD = LEAD
    TAIL = TAIL
    INVALID = INVALID
    VerbBytes = 6
    x = x
    Chars <- MCChars
    Lines <- MCLines
    Following <- MCFollowing
    MaxLines = 3
SPECIFICATION BodySpec
INVARIANTS
    BodyTypeOK
    ExactWhenCutClean
    TruncatedAtWorst
    RelayExactWithoutDots
