SPECIFICATION FairSpec
CONSTANTS
    Apps = {a, b}
    Broken = {}
    unset = unset
    Unset = unset
    Lifecycles <- PlainLifecycles
    PauseSettings = {TRUE}
    LeftBehind = {"RUNNING", "PAUSED", "DOWN"}
    DefaultPause = 3
    DefaultStop = 3
    Grace = 0
    Throttle = 0
    MinIdle = 1
    MinSize <- Small
    Answers = {selfhosted}
    SelfHosted = selfhosted
    NotStored = notstored
    Pressures = {TRUE, FALSE}
    Lows = {FALSE}
    Used = {a}
    MaxIdle = 1
PROPERTY PressureRelieved
