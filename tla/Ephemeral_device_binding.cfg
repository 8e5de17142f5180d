SPECIFICATION Spec
CONSTANTS
    Device = {d1, d2}
    Req = {r1, r2}
    NoDevice = NoDevice
    MaxUses = 2
    MaxAttempts = 2
CHECK_DEADLOCK FALSE
INVARIANT DeviceBindingHolds
