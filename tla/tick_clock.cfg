SPECIFICATION FairSpec
CONSTANTS
    Apps = {a, b}
    Broken = {b}
    unset = unset
    Unset = unset
    Lifecycles <- SomeLifecycles
    PauseSettings = {TRUE, FALSE}
    LeftBehind <- AnyStatus
    DefaultPause = 2
    DefaultStop = 2
    Grace = 1
    Throttle = 1
    MinIdle = 1
    MinSize <- Small
    Answers = {1}
    SelfHosted = selfhosted
    NotStored = notstored
    Pressures = {FALSE}
    Lows = {TRUE, FALSE}
    Used = {a}
    MaxIdle = 2
PROPERTIES AlwaysOnRevived UnusedAppStops UsedAppRuns
