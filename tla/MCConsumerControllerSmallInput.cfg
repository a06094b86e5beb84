CONSTANTS
    Lines <- MCLinesAtHigh
    ReaderQueueSize <- MCReaderQueueSize
    WorkerQueueSize <- MCWorkerQueueSize
    WriterQueueSize <- MCWriterQueueSize
    LowPercentage <- MCLowPercentage
    HighPercentage <- MCHighPercentage
    MaxConsumers <- MCMaxConsumers

SPECIFICATION Spec
\* main returns once the reader and the writer are joined: the process ends.
CHECK_DEADLOCK FALSE

PROPERTIES
    ProgramTerminates
