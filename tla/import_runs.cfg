\* Two lists, four cards, batches of two, one card read ahead; two runs; clients
\* add one task.
CONSTANTS
    NumLists = 2
    NumCards = 4
    BatchSize = 2
    Ahead = 1
    MaxRuns = 2
    MaxOthers = 1
SPECIFICATION Spec
INVARIANTS TypeOK CompletedMeansImported ImportedInFileOrder
PROPERTIES EveryJobEnds
\* When the runs are used up, nothing is left to do.
CHECK_DEADLOCK FALSE
