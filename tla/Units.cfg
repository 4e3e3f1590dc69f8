SPECIFICATION UnitsSpec
CONSTANTS
    ByteBits = 1
    RegionBits = 4
    GPR = {0, 1, 2, 3}
    R31 = 3
    MemBytes = 12
    Instr <- MCInstr
    UserStates <- MCUserStates
    MaxInstr = 1
    Host = {"MIPS", "SPARC", "SNAKE", "i386"}
    main = "main"
    Forked = {"t1", "t2"}
    Layouts <- MCLayouts
    HeaderSize = 2
    PageSize = 4
    UserStackSize = 5
    NumPhysPages = 3
    StackMargin = 1
    MEMSIZE = 5
    FileLimit = 12
    MaxPrograms = 2
    ListElements = {e1, e2, e3}
    NULL = NULL
    Items = {1, 2}
    Keys = {0, 1}
    StackSizes = {1, 3}
    PageBytes = 2
    Frames = 2
    VirtualPages = 3
    StoreAt = {1}
    Buffers <- MCBuffers
    MaxFile = 3
    Letters = {"a", "b"}
    MaxName = 6
  
PROPERTIES InstructionsExact RestartTransparent ListingsExact SwitchExact ListsExact 
CHECK_DEADLOCK FALSE
