SPECIFICATION LiveSpec
CONSTANTS
    i0 = i0  i1 = i1  i2 = i2
    None = None
    Episodes = {e1}  Incidents = {i0, i1, i2}  Handlers = {w1, w2}
    NoticeHome <- NoNotice  CanRead = FALSE
    Outside = {}  MaxOutside = 0
PROPERTIES ClearArrives
CHECK_DEADLOCK FALSE
