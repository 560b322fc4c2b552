SPECIFICATION FairSpec
CONSTANTS
    t1 = t1
    t2 = t2
    c1 = c1
    c2 = c2
    f1 = f1
    m1 = m1
    Events <- mcEvents
    Kind <- mcKind
    RowKey <- mcRowKey
    Mapped <- mcMapped
    Messages <- mcMessages
    BatchSize = 2
    RestImports = TRUE
INVARIANTS IInv LiveBeforeDurable
PROPERTIES LossOnlyByFailedFlush ImplementsLog BufferedRowsMove StopLeadsToExit
