SPECIFICATION RelaySpec
CONSTANTS
    MaxPeers = 128
    BlockPairs = 1024
    InlineActions = 128
    Scopes <- MCScopes
    VarKeys <- MCVarKeys
    VarValues <- MCVarValues
    Separators <- MCSeparators
    FirstLegs <- MCFirstLegs
    MoreLegs <- MCMoreLegs
    Targets <- MCTargets
    Lines <- MCLines
    PlainLine <- MCPlainLine
    ArgvSeparators <- MCArgvSeparators
    InlineDelimiters <- MCInlineDelimiters
    Arguments <- MCArguments
    Specials <- MCSpecials
    MaxBlockCost = 3
    MaxListCost = 2
    MaxLegs = 2
    Inputs <- MCInputs
    MaxRelayCost = 1
INVARIANTS
    VariablesArrive
    EndpointArrives
    BridgeArrives
    OriginateArrives
    ArgumentStaysWhole
    ForwardsVerbatim
    KeptLegsArrive
CHECK_DEADLOCK FALSE
