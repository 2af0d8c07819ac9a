SPECIFICATION FairSpec
CONSTANTS
    Speeds = {1, 3}
    Angles = {0, 2}
    speed_to_erpm_gain_ = 2
    speed_to_erpm_offset_ = 2
    steering_to_servo_gain_ = 1
    steering_to_servo_offset_ = 0
    ServoLimit = 1
    DeadBand = 2
    Curvature <- MCCurvature
    ClockSteps <- MCClockSteps
    Depth = 2
    MaxReports = 3
    MaxDrives = 2
    None = None
INVARIANTS
    SteadyDrive
PROPERTIES
    CatchesUp
CHECK_DEADLOCK FALSE
