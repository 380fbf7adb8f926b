SPECIFICATION Spec
CONSTANTS
    Entries <- MCEntries
    NoEntry = "none"
    Letter <- MCLetter
    Sizes = {14, 16, 17}
    MenuMin = 15
    MenuFrame = 14
    list_height = 2
    ListNeeds = 17
    Initial <- MCInitial
    Charset = {"a", "b", "c"}
    Chars = {"a"}
    Blank = " "
    box_width = 3
    MaxLen = 4
    FieldNeeds = 9
    TextFrame = 8
    TextMin = 8
    MaxScroll = 1
    Tree <- MCTree
    Kind <- MCKind
    Needs <- MCNeeds
    Root = "main"
    Picks <- MCPicks
    Remark = "B"
    Values <- MCValues
    IsValid <- MCValid
    HelpText <- MCHelpText
    Message <- MCMessage
    FoundText <- MCFound
    Marks <- MCMarks
    Line <- MCLine
    Target <- MCTarget
    MaxDepth = 1
INVARIANTS ScreenShowsTheItems FieldShowsTheText EdgesAreKnown
PROPERTY ImplementsCursor
CHECK_DEADLOCK FALSE
