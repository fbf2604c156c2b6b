\* Two tokens a message, any number of messages from three positions.
CONSTANTS
    Tokens <- MCTokens
    Stars <- MCStars
    Texts <- MCTexts
    Symbols <- MCSymbols
    Frames <- MCFrames
    Dumps <- MCDumps
    SizeMax = 16
    MaxTokens = 2
    MaxText = 2
SPECIFICATION Spec
INVARIANTS
    TypeOK
    ArgumentsInStep
    LayoutAsC
    StackAgrees
    FrameIsRead
    DumpIsComplete
