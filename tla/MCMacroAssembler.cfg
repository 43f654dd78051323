SPECIFICATION MasmSpec
CONSTANTS
    Clients = {"one", "jumps", "masm"}
    Instructions <- MCInstructions
    JumpKinds <- MCJumpKinds
    Fillers <- MCFillers
    Alignments <- MCAlignments
    MaxLabels <- MCMaxLabels
    MaxJumps = 2
    Operations <- MCOperations
    Inputs <- MCInputs
INVARIANTS  JumpsLand  FrameKept SitesFound
CHECK_DEADLOCK FALSE
