CONSTANT None = None
SPECIFICATION Spec
INVARIANTS LiveBlocks MisusedBlocks MazeRight JobControl CommandLine ClientsStop
           TablesAgree  LabsRight
PROPERTY BufferingIsHidden
CHECK_DEADLOCK FALSE
