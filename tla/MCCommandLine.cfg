SPECIFICATION Spec
CONSTANTS
    Argument <- MCArgument
    MaxArguments = 6
INVARIANTS
    
    AcceptedAsDocumented
    LabelsApply
