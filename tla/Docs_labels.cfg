CONSTANTS
    work = work
    side = side
    quiet = quiet
    bots = bots
    Registry <- Ordered
    LabelKey <- Distinct
    Splits = {side}
    SweepExclude = {quiet}
    NoUserToken = {bots}
    LastPost = 3
    MaxPulls = 3
SPECIFICATION CursorsSpec
PROPERTIES TokenRoundTrips
CHECK_DEADLOCK FALSE
