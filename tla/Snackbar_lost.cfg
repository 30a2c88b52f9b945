CONSTANTS
    retry = retry
    undo = undo
    noop = noop
    Undefined = Undefined
    Actions = {retry, undo}
    Durations <- MCDurations
    MaxShows <- MCMaxShows
SPECIFICATION Spec
INVARIANT NoMessageLost
\* Once MaxShows messages were shown and closed nothing is left to do.
CHECK_DEADLOCK FALSE
