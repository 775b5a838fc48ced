CONSTANTS
    A = A
    B = B
    l1 = l1
    l2 = l2
    Launcher = {l1, l2}
    Profile = {A, B}
    Layouts <- MCLayouts
    MaxPolls = 1
SPECIFICATION FairSpec
INVARIANTS
    TypeOK
    DuplicateRefused
    DirectoriesPrivate
PROPERTIES
    RunningSettingsKept
    LaunchReturns
