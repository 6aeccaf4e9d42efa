SPECIFICATION LiveSpec
CONSTANTS
    Replies = {1, 2}
    Jobs = {j1, j2, j3, j4}  Workers = {w1, w2}
    None = None
    BatchSize = 2  MaxFaults = 1
INVARIANTS TypeOK WatermarkIsEarned
PROPERTIES AnswerIsDue EveryReplySettled
CHECK_DEADLOCK FALSE
