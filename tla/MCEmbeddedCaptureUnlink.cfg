\* A failure after the output has been linked.
CONSTANTS
    Callers = {main}
SPECIFICATION Spec
INVARIANTS FailureNeverPublishes
