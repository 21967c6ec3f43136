\* Any start of the process, with two files replaced under its hands.
SPECIFICATION Spec
CONSTANTS
    FileSystems <- MCFileSystems
    Environments <- MCEnvironments
    MaxTouches = 2
INVARIANTS
    EnvironmentRestored
    NoFilePassedOver
    OverriddenHaveNoSay
CHECK_DEADLOCK FALSE
