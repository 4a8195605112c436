SPECIFICATION Spec
CONSTANTS
    u = u
    r1 = r1
    r2 = r2
    UserLine = {u}
    Begin = Begin
    End = End
    Blank = Blank
    Records = {r1}
    Nothing = Nothing
    MaxStarts = 1
    MaxChanges = 0
    MaxEdits = 0
    MaxBreaks = 0
    MaxFails = 0
PROPERTIES
    CleanAfterExit
CHECK_DEADLOCK FALSE
