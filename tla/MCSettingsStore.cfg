SPECIFICATION Spec
CONSTANTS
    Handlers = {h1, h2}
INVARIANTS
    PolicySurvives
    RefusedOnlyWhenDisturbed
    AdmittedByOnePolicy
CHECK_DEADLOCK FALSE
