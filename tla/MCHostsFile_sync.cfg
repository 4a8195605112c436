SPECIFICATION FairSpec
CONSTANTS
    u = u
    r1 = r1
    r2 = r2
    UserLine = {u}
    Begin = Begin
    End = End
    Blank = Blank
    Records = {r1, r2}
    Nothing = Nothing
    MaxStarts = 2
    MaxChanges = 1
    MaxEdits = 2
    MaxBreaks = 1
    MaxFails = 1
INVARIANTS
    TypeOK
    WriteSettles
    OneSection
    RestPreserved

    
CHECK_DEADLOCK FALSE
