CONSTANTS
    Missing = Missing
    Broken = Broken
    Profile = {"a", "b"}
    Root <- MCRoot
    Disk <- MCDisk
    Removable <- MCRemovable
    Linkable <- MCLinkable
    Movable <- MCMovable
    MaxEdits = 5
    MaxLinks = 3
SPECIFICATION Spec
INVARIANTS
    IdentityKept
    IdentitiesDisjoint
PROPERTIES
    LaunchedPrivate
    OnlyOwnTouched
