CONSTANTS
    a = a
    b = b
    MAX_SIGNALS = 3
    Signal <- MCSignal
    NoSignal = NoSignal
SPECIFICATION Spec
INVARIANT TypeOK
PROPERTY FifoQueue
