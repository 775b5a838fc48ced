CONSTANTS
    Absent = Absent
    Pid = {2, 3, 4}
    Exe = {main, helper}
    MainExe = main
    Bundle = {main, helper}
    Dir = {A, B}
    Profile = {A, B}
SPECIFICATION RulesSpec
INVARIANTS
    AncestryIsReachability
    EvidenceExclusive
    EvidenceIsResidual
