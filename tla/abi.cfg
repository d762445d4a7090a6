SPECIFICATION CallSpec
CONSTANTS
    NoType = NoType
    Type <- MCType
    EventType = {}
    Fn <- MCFn
    Name <- MCName
    Shape <- MCShape
    Doc = {""}
    Meetings <- MCMeetings
    Depth = 4
INVARIANTS
    NoBreakMissed
    NoBreakInvented
    DecodesWhatItIsSent
PROPERTY
    WalkEnds
CHECK_DEADLOCK FALSE
