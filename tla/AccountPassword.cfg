SPECIFICATION Spec
CHECK_DEADLOCK FALSE
CONSTANTS
    MaxCodes = 2
    MaxLogins = 2
    MaxViews = 3
    MaxCalls = 2
PROPERTIES
    WrongPasswordStays
