CONSTANTS
    A = A
    B = B
    main = main
    helper = helper
    nobody = nobody
    Absent = Absent
    NoClaim = NoClaim
    Pid = {2, 3}
    Exe = {main, helper}
    MainExe = main
    Bundle = {main, helper}
    Dir = {A, B}
    Profile = {A, B}
    Nobody = nobody
    Target = A
    Boot <- MCBoot
    ScanFaults = {}
    MaxWindow = 2
    MaxBorn = 3
    MaxPolls = 1
SPECIFICATION Spec
INVARIANTS
    ListKnowsLaunched
    SessionCloses
PROPERTIES
    LaunchTruthful
    StopKnowsLaunched
