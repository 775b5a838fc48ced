CONSTANTS
    A = A
    B = B
    main = main
    helper = helper
    tool = tool
    nobody = nobody
    Absent = Absent
    NoClaim = NoClaim
    Pid = {2, 3, 4}
    Exe = {main, helper, tool}
    MainExe = main
    Bundle = {main, helper}
    Dir = {A, B}
    Profile = {A, B}
    Nobody = nobody
    Target = A
    Boot <- MCSuccessBoot
    ScanFaults = {}
    MaxWindow = 3
    MaxBorn = 4
    MaxPolls = 1
SPECIFICATION Spec
INVARIANTS
    ReportedAbsent
    SuccessLeavesNoOwned
    SuccessLeavesNoNamed
    SuccessSparesOthers
