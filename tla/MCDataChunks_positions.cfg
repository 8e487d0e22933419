CONSTANTS
    MAX_MSG_SIZE = 4
    CHUNK_LIMIT = 3
    LOOP_LIMIT = 2
    MaxBytes = 15
    MaxIovecs = 3
    MaxIovLen = 5
    Positions = {0, 7}

SPECIFICATION Spec
INVARIANT PlainPositionsAdvance
CHECK_DEADLOCK FALSE
