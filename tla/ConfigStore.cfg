CONSTANTS
    p1 = p1
    p2 = p2
    l1 = l1
    l2 = l2
    Names <- MCNames
    Layouts <- MCLayouts
    Missing = Missing
    Torn = Torn
    Mangled = Mangled
    Nothing = Nothing
SPECIFICATION ConfigSpec
INVARIANTS DeletedStaysDeleted ChoiceKept
PROPERTIES ClearedAfterKept LayoutReturns
