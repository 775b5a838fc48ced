CONSTANTS
    A = A
    B = B
    main = main
    helper = helper
    nobody = nobody
    Absent = Absent
    Pid = {2, 3, 4}
    Exe = {main, helper}
    MainExe = main
    Bundle = {main, helper}
    Dir = {A, B}
    Profile = {A, B}
    Nobody = nobody
    Boot <- MCBoot
    ScanFaults = {}
    MaxWindow = 4
    MaxBorn = 5
SPECIFICATION Spec
INVARIANTS
    ListedRan
    LastingListed
