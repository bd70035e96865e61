\* One product in two tabs; what a form was refused for does not matter.
SPECIFICATION Spec
CONSTANTS
    NULL = NULL
    GONE = GONE
    Tabs = {t, u}
    Products = {p}
    Boxes = {isActive}
    Categories = {a}
    MaxAttempts = 1
INVARIANTS
    SubmittedIsShown
