CONSTANTS
    A = A
    B = B
    main = main
    helper = helper
    tool = tool
    nobody = nobody
    Absent = Absent
    NoClaim = NoClaim
    Pid = {2, 3, 4}
    Exe = {main, helper}
    MainExe = main
    Bundle = {main, helper}
    Dir = {A, B}
    Profile = {A, B}
    Nobody = nobody
    Target = A
    Boot <- MCContractBoot
    ScanFaults = {}
    MaxWindow = 2
    MaxBorn = 4
    MaxPolls = 1
SPECIFICATION FairSpec
PROPERTIES
    ImplementsContract
    StopReturns
