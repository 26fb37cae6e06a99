SPECIFICATION Spec
CONSTANTS
    c1 = c1
    c2 = c2
    Callers = {c1, c2}
    None = None
    MaxIds = 4
INVARIANTS
    SandboxIsAccounted
    EditsSurvive
PROPERTIES
    ImplementsEnvironment
CHECK_DEADLOCK FALSE
