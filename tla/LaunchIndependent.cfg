CONSTANTS
    A = A
    B = B
    l1 = l1
    l2 = l2
    Launcher = {l1, l2}
    Profile = {A, B}
    Layouts <- FreshOnly
    MaxPolls = 1
SPECIFICATION Spec
INVARIANTS
    LaunchesIndependent
