CONSTANTS
    MaxTimers <- MCMaxTimers
    MaxChanges <- MCMaxChanges
SPECIFICATION Spec
PROPERTY StopEventuallyOffered
PROPERTY RunEventuallyRestored
\* The page stops re-rendering once the contexts stop changing.
CHECK_DEADLOCK FALSE
