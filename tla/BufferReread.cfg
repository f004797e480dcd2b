SPECIFICATION Spec
CONSTANTS
    Align = 4
    Capas <- MCCapas
    Sizes <- MCByteSizes
    EleSize = 1
    MaxBytes = 4
    MaxBlocks = 3
    Discipline = {"commit", "whole", "rewound"}
    Operations = {"keep"}
INVARIANTS
    DrainedWhenEmpty
