SPECIFICATION CommandsSpec
CONSTANTS
    Levels = {0, 3, 128, 255}
    Freqs = {20000, 33500, 33700}
    Textures <- MCTextures
    MaxMerge = 1
    MaxSent = 4
INVARIANTS
    Obeyed
    Oscillates
CHECK_DEADLOCK FALSE
