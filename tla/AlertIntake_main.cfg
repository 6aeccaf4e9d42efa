SPECIFICATION LiveSpec
CONSTANTS
    i0 = i0  i1 = i1  i2 = i2
    None = None
    Episodes = {e1}  Incidents = {i0, i1, i2}  Handlers = {w1, w2}
    NoticeHome <- OneNotice  CanRead = TRUE
    Outside <- Kinds  MaxOutside = 2
INVARIANTS TypeOK OneRootPerEpisode AcceptedIsComplete
PROPERTIES ClearIsFinal EpisodeSettles ClearArrives
CHECK_DEADLOCK FALSE
