CONSTANTS
    MaxTimers <- MCMaxTimers
    MaxChanges <- MCMaxChanges
SPECIFICATION Spec
INVARIANT NoOrphanTimer
INVARIANT StopOnlyWhileRunning
\* The page stops re-rendering once the contexts stop changing.
CHECK_DEADLOCK FALSE
