CONSTANTS
    MaxTimers <- MCMaxTimers
    MaxChanges <- MCMaxChanges
SPECIFICATION Spec


\* The page stops re-rendering once the contexts stop changing.
CHECK_DEADLOCK FALSE
PROPERTY RefinesButtonMode
