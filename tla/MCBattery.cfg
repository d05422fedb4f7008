SPECIFICATION FairSpec
CONSTANTS
    Header = 9
    Footer = 8
    RecvSize = 4
    FrameSize = 7
    Boards = {"rock5a", "pi4"}
    Reports <- MCReports
    Phases = {0, 2}
    Low = 3
    Critical = 2
INVARIANTS
    ErrorHasCause
    DismissedStaysQuiet
PROPERTIES
    NewestTaken
    IgnoreSilences
    CriticalIsHeard
