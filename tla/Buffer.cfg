SPECIFICATION LiveSpec
CONSTANTS
    Align = 4
    Capas <- MCCapas
    Sizes <- MCSizes
    EleSize = 2
    MaxBytes = 14
    MaxBlocks = 5
    Discipline = {"commit", "turns", "whole", "rewound"}
    Operations = {"keep", "remove", "reset", "construct", "assign"}
INVARIANTS
    CursorsValid
    DrainedWhenEmpty
    DupSameContent
PROPERTIES
    ImplementsByteStream
    AllArrives
