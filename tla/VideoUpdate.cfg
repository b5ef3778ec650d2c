SPECIFICATION FairSpec
CONSTANTS
    Pages = {1, 2}
    ZxPage = 1
    ShellPage = 2
    Modes = {1, 2}
    ResetMode = 1
    Colours = {0, 1}
INVARIANTS TypeOK BorderComesBack
PROPERTIES WholeSets UpdatesShown
