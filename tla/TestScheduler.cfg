SPECIFICATION FairSpec
CONSTANTS
    Background = Background
    Io = Io
    None = None
    Tasks <- TwoTasks
    Timers <- OneTimer
    Sessions = {s1, s2}
    Durations = {1}
    TimeoutTicks = {1}
    MaxNow = 1
    MaxOps = 4
    MaxDepth = 4
INVARIANTS SessionOrder NestingIsTransparent GivesUpOnlyWhenStuck
PROPERTIES TimersOnTime OperationsReturn
