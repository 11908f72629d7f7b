\* ERRO output against the watcher, which does not drain the fifo after a timeout.
SPECIFICATION Spec
CONSTANTS
    DeployAttempts = 2
    FifoLines = 2
    Lines <- MCLines
INVARIANT ErroFailsClosed
