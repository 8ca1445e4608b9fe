CONSTANTS
    t1 = t1
    t2 = t2
    t3 = t3
    Authors = {a1, a2}
    Texts = {t1, t2, t3}
    Meaning <- MCMeaning
    Missing = Missing
    Invalid = Invalid
    MaxCalls = 2
    MaxRacing = 1
    Letter = 1
    Lead = 2
    Cont = 3
    Nul = 0
    Initials <- MCInitials
    Fragments <- MCFragments
    Absent <- MCAbsent
    MaxBytes = 5
    MaxNeedle = 2
    MaxEdits = 2
    Limit = 4
SYMMETRY Symmetry
SPECIFICATION AllSpec
INVARIANTS
    RefusedNeverSaved AcceptedSavedOnce EditsAreSound
PROPERTIES
    ReplacesExpected EditIsExact
CHECK_DEADLOCK FALSE
