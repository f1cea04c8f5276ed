\* An advisory post fails before the percept of the turn.
SPECIFICATION Spec
CONSTANTS
    h1 = h1  h2 = h2  m1 = m1  m2 = m2  m3 = m3  m4 = m4  a = a  b = b  p = p  q = q
    NoDoc = NoDoc  Gone = Gone  Unset = Unset  Cli = Cli  NoRoute = NoRoute
    Hosts = {h1, h2}
    Messages = {m1, m2, m3, m4}
    TargetOf <- MCTargetOf
    Targets = {a, b}
    PlatformOf <- OnePlatform
    LengthOf <- MCLengthOf
    Configured = p
    MaxAge = 1
    MaxTime = 2
    MayCrash = FALSE
    MaxTurns = 3
PROPERTY FailuresAreVisible
CHECK_DEADLOCK FALSE
