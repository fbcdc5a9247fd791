SPECIFICATION Spec
CONSTANTS
    Callers = {c1}
    MaxDisturbances = 2
INVARIANTS
    AnswerPending
    AwakeWhileTalking
    ResetDue
PROPERTIES
    AuthReturns
