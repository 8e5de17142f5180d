CONSTANTS
    MaxAttempts = 2
    Absent = Absent
SPECIFICATION WidgetFairSpec
CHECK_DEADLOCK FALSE
PROPERTY ApprovalReachesPage
