SPECIFICATION Spec
CONSTANTS
    a1 = a1  a2 = a2  belt = belt  k1 = k1  k2 = k2
    None = None
    Actor = {a1, a2}
    Project = {belt}
    Key = {k1, k2}
    Priority = {2, 3}
    MaxItems = 3
    MaxTime = 0
    Command <- BoardCommands
SYMMETRY Symmetry
INVARIANTS TypeOK BoardIsSound NoOpaqueConflict AddRefusedOnlyForDuplicates
PROPERTIES HonestTransition ImplementsBoardRules
