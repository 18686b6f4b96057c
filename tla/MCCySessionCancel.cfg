CONSTANTS
    p1 = p1
    p2 = p2
    Inputs <- Prompts
    Batches <- SomeBatches
    MaxRuns = 2
    MaxIterations = 1
    InputLimit = 5
    TailBudget = 3
    ResultWeight = 2
    MaxFaults = 2
SPECIFICATION Spec
SYMMETRY PromptSymmetry
INVARIANT RequestHasResults
CHECK_DEADLOCK FALSE
