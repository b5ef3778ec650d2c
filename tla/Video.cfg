SPECIFICATION WholeSpec
CONSTANTS
    Pages = {1}
    ZxPage = 1
    ShellPage = 1
    Modes = {1, 2}
    ResetMode = 1
    Colours = {0}
    Lines = 2
    Beats = 2
    Depth = 4
    Repeats = 4
INVARIANTS TypeOK InStep
PROPERTIES FromTheTop PictureGoesOn
CHECK_DEADLOCK FALSE
