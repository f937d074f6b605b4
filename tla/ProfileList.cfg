CONSTANTS
    p1 = p1
    p2 = p2
    Names <- MCNames
    SavedProfile = p1
    MaxProfiles = 2
    None = None
SPECIFICATION Spec
PROPERTY DeletesWhatWasAsked
