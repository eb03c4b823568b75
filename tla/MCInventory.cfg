SPECIFICATION Spec
CONSTANTS
    N = 4
    Places = 3
    Foreign = {3}
    OptionSets <- MCOptionSets
    Actor <- MCActor
INVARIANTS
    NumbersIdentify
    ParentsAreRight
    SourcesDescribeRecords
    SelectorsAgree
    StructureSelects
