CONSTANTS
    MaxAttempts = 2
    Absent = Absent
SPECIFICATION WidgetSpec
CHECK_DEADLOCK FALSE
INVARIANT IdentityHandedOver
