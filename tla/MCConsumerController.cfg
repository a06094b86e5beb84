CONSTANTS
    Lines <- MCLinesAboveHigh
    ReaderQueueSize <- MCReaderQueueSize
    WorkerQueueSize <- MCWorkerQueueSize
    WriterQueueSize <- MCWriterQueueSize
    LowPercentage <- MCLowPercentage
    HighPercentage <- MCHighPercentage
    MaxConsumers <- MCMaxConsumers

SPECIFICATION Spec
\* main returns once the reader and the writer are joined: the process ends.
CHECK_DEADLOCK FALSE

INVARIANTS
    TypeOK

PROPERTIES
    PipelineRefinement
