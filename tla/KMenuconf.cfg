SPECIFICATION Spec
CONSTANTS
    SymType <- MCSymType
    Rank <- MCRank
    Number <- MCNumber
    WordSize = 64
    MaxOperands = 8
    ChoiceSyms <- MCChoiceSyms
    Kconfigs <- MCKconfigs
    ValidText <- MCValidText
    Prefixed <- MCPrefixed
    Text <- MCText
    StartFiles <- MCStartFiles
    StartAuto <- MCStartAuto
    Seeds <- MCSeeds
    Dice <- MCDice
    Texts <- MCTexts
    Modes <- MCModes
    MaxPrograms = 2
    MaxKeys = 2
    MaxClicks <- MCMaxClicks
INVARIANTS CachedValueIsFresh ReloadIsQuiet NothingLeftToAsk MinimalIsEnough OneChosen EveryQuestionIsShown RowsAreTrue
PROPERTIES TouchedIsChanged Ends
