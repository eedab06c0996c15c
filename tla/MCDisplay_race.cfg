\* Plain typing (characters and Enter) while a program writes characters
\* and newlines to the same, displayed, terminal.
CONSTANTS
    TERM_WIDTH <- MCWidth
    TERM_HEIGHT <- MCHeight
    TERM_TAB_WIDTH <- MCTab
    IN_BUF_SIZE <- MCInBuf
    NR_TERM <- MCNrTerm
    WRITER_TERM = 0
    Keys = {"char", "enter"}
    Out = {"char", "enter"}
SPECIFICATION Spec
INVARIANT ScreenWritesInBounds
