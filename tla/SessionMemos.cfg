SPECIFICATION Spec
CONSTANTS
    Sessions = {s1, s2}
    NoSession = NoSession
    Texts = {x, y}
    MaxMemos = 2
    MaxClicks = 5
    MaxCalls = 2
SYMMETRY Symmetry
INVARIANTS
    ShownOnce
PROPERTIES
    NotesAddedOnce
    RollbackSparesPending
CHECK_DEADLOCK FALSE
