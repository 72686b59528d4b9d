SPECIFICATION Spec
CONSTANTS
    t1 = t1
    t2 = t2
    WordCount = 2
    Values = {0, 1}
    Threads <- BothThreads
    MaxNesting = 2
SYMMETRY ThreadSymmetry
PROPERTIES
    ScPaired
    ScSound
    ScProgress
