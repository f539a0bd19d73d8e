SPECIFICATION Spec
CONSTANTS
    Texts <- MCTexts
    Durations <- MCDurations
    Numbers <- MCNumbers
    Lists <- MCLists
    HomeDirs <- MCHomeDirs
    Inputs <- MCInputs
    Dirs <- MCDirs
    Keys = {k1, k2, k3}
    NoKey = NoKey
    NoFile = NoFile
    Partial = Partial
    NoInput = NoInput
    NoConfig = NoConfig
SYMMETRY KeySymmetry
INVARIANTS
    Precedence
    KnobsPositive
    IdentityKept
    
PROPERTIES
    PanicsExplained
