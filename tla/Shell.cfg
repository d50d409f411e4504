CONSTANTS
    Chars = {"x", ";", "'", "-", "/", "*", "nl"}
    Outcomes = {"ok", "error", "lost"}
    MaxText = 6
SPECIFICATION Spec
INVARIANTS
    SplitAgrees
    
CHECK_DEADLOCK FALSE
