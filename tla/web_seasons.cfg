SPECIFICATION Spec
CONSTANTS
    x1 = x1
    x2 = x2
    y1 = y1
    y2 = y2
    Miss = Miss
    Null = Null
SYMMETRY Symmetry
CHECK_DEADLOCK FALSE
INVARIANTS
    SeasonsAreSound
    FrozenIsSound
    OnlyEntitledSee
    NumbersAgree
    PagesAreTrue
PROPERTIES
    SeasonsKeepTheirTerms
    OnlyPublicToMembers
    AsWasAsked
