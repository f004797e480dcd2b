SPECIFICATION Spec
CONSTANTS
    V4s <- MCV4s
    V6s <- MCV6s
    Ports <- MCPorts
    Texts4 <- MCTexts4
    Texts6 <- MCTexts6
    Lengths <- MCLengths
    Steps <- MCSteps
    Fold <- MCFold
    Delim <- MCDelim
    Rates <- MCRates
    MaxLength = 3
    SizeModulus = 256
    MaxTicks = 40
    Errnos = {1, 9, 22}
    Results = {0, 1, 3}
    Stack = 8
    MaxNumber = 70
    MaxTails = 20
    Widths = {2, 3, 4}
    IntWidth = 3
INVARIANTS
    TextsRejectWrong
