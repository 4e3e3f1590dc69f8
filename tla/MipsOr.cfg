SPECIFICATION Spec
CONSTANTS
    ByteBits = 1
    RegionBits = 4
    GPR = {0, 1, 2, 3}
    R31 = 3
    MemBytes = 12
    Instr <- MCInstr
    UserStates <- MCUserStates
    MaxInstr = 1

PROPERTY OrCombinesBoth
CHECK_DEADLOCK FALSE
