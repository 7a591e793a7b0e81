SPECIFICATION Spec
CONSTANTS
    MaxSwitchEntries = 3
    Numbers <- MCNumbers
    Offers <- MCOffers
    Options <- MCOptions
    Texts <- MCTexts
    Policies <- MCPolicies
    NewEntries <- MCNewEntries
    NewNames <- MCNewNames
    NewModules <- MCNewModules
    NewFmtps <- MCNewFmtps
    Qualifiers <- MCQualifiers
    Tables <- MCTables
    MaxEdits = 2
    MaxEntries = 4
INVARIANTS
    ListArrives
    VettedStays
    OfferAccounted
CHECK_DEADLOCK FALSE
