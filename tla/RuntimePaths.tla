---------------------------- MODULE RuntimePaths ----------------------------
(***************************************************************************)
(* The runtime directories on a disk with symbolic links, which the user   *)
(* rearranges between commands (internal/runtime/paths.go): launch         *)
(* prepares a profile's directories and takes the identity it finds them   *)
(* under; stop and list later work that identity out again, without        *)
(* touching the disk.  A path is the sequence of its components.           *)
(***************************************************************************)
EXTENDS Integers, SequencesExt

CONSTANTS
    Profile,            \* profile ids, as path components
    Root,               \* the configured runtime root, a lexical path
    Disk,               \* the initial disk
    Removable, Linkable, Movable,   \* what the user may do: see below
    MaxEdits,           \* bound: changes made by the user
    MaxLinks,           \* links one resolution may follow
    Missing, Broken     \* in place of a path: nothing there; not a path at all

VARIABLES
    disk,       \* what is at each physical path: a directory, file or link
    launched,   \* the instances: records [profile, root, ids]
    edits

vars == <<disk, launched, edits>>

(* A path is the sequence of the names between its slashes.                *)
Name == STRING \cup {"profiles", "codex-home", "chatgpt-user-data"}
Path == Seq(Name)

Node == [kind : {"dir", "file", "link"}, private : BOOLEAN, to : Path]

Dir(private) == [kind |-> "dir", private |-> private, to |-> <<>>]
File == [kind |-> "file", private |-> FALSE, to |-> <<>>]
Link(to) == [kind |-> "link", private |-> FALSE, to |-> to]

ASSUME LinksAssumption == MaxLinks \in Nat

ASSUME FailuresAssumption == Missing # Broken /\ Missing \notin Path /\ Broken \notin Path

(* The user leaves the root of the file system alone.                      *)
ASSUME PlacesAssumption ==
    /\ Root \in Path /\ Profile \subseteq Name
    /\ Removable \subseteq Path /\ <<>> \notin Removable
    /\ Linkable \subseteq Path \X Path /\ Movable \subseteq Path \X Path

ASSUME DiskAssumption ==
    /\ DOMAIN Disk \subseteq Path /\ Disk \in [DOMAIN Disk -> Node]
    /\ <<>> \in DOMAIN Disk /\ Disk[<<>>].kind = "dir"

-----------------------------------------------------------------------------
(* The operating system. *)

Kind(fs, path) == IF path \in DOMAIN fs THEN fs[path].kind ELSE "none"

(* The k-th component is the first that is no directory, but of that kind. *)
StopsAt(fs, path, k, kind) ==
    /\ \A i \in 0..(k - 1) : Kind(fs, SubSeq(path, 1, i)) = "dir"
    /\ Kind(fs, SubSeq(path, 1, k)) = kind

Stops(fs, path, kind) == {k \in 1..Len(path) : StopsAt(fs, path, k, kind)}

Follow(fs, path) ==
    IF Stops(fs, path, "link") = {} THEN path ELSE
    LET k == CHOOSE k \in Stops(fs, path, "link") : TRUE IN
    fs[SubSeq(path, 1, k)].to \o SubSeq(path, k + 1, Len(path))

Target(fs, path) ==
    LET after[n \in 0..MaxLinks] == IF n = 0 THEN path ELSE Follow(fs, after[n - 1])
    IN  after[MaxLinks]

(* Only the last component may be a file.                                  *)
Resolved(fs, target) ==
    IF Stops(fs, target, "none") # {} THEN Missing
    ELSE IF Stops(fs, target, "link") \cup (Stops(fs, target, "file") \ {Len(target)}) # {}
    THEN Broken
    ELSE target

EvalSymlinks(fs, path) == Resolved(fs, Target(fs, path))

Failed(path) == path \in {Missing, Broken}

(* Where the last component itself is, whatever it is.                     *)
Entry(fs, parent, name) ==
    IF Failed(parent) THEN parent
    ELSE IF fs[parent].kind # "dir" THEN Broken
    ELSE IF Append(parent, name) \in DOMAIN fs THEN Append(parent, name)
    ELSE Missing

Lstat(fs, path) ==
    IF path = <<>> THEN path ELSE Entry(fs, EvalSymlinks(fs, Front(path)), Last(path))

Put(fs, path, node) == [p \in DOMAIN fs \cup {path} |-> IF p = path THEN node ELSE fs[p]]

(***************************************************************************)
(* Preparation goes step by step and leaves what it did when it fails: a   *)
(* step takes and returns [fs, ok].                                        *)
(***************************************************************************)
Refuse(s) == [s EXCEPT !.ok = FALSE]

MakePrivate(s, path) == [s EXCEPT !.fs = Put(s.fs, path, Dir(TRUE))]

Mkdir(s, path) ==
    LET parent == EvalSymlinks(s.fs, Front(path)) IN
    IF Failed(parent) THEN Refuse(s) ELSE MakePrivate(s, Append(parent, Last(path)))

MkdirStep(s, path) ==
    LET there == EvalSymlinks(s.fs, path) IN
    IF ~s.ok THEN s
    ELSE IF Lstat(s.fs, path) = Missing THEN Mkdir(s, path)
    ELSE IF Failed(there) \/ s.fs[there].kind # "dir" THEN Refuse(s)
    ELSE s

MkdirAll(fs, path) ==
    LET made[i \in 0..Len(path)] ==
            IF i = 0 THEN [fs |-> fs, ok |-> TRUE]
            ELSE MkdirStep(made[i - 1], SubSeq(path, 1, i))
    IN  made[Len(path)]

Chmod(s, path) == MakePrivate(s, EvalSymlinks(s.fs, path))

-----------------------------------------------------------------------------
(* paths.go. *)

IsWithin(root, path) == IsPrefix(root, path)

DeriveProfilePaths(root, p) ==
    LET base == root \o <<"profiles", p>> IN
    [home |-> Append(base, "codex-home"), data |-> Append(base, "chatgpt-user-data")]

Managed(root, p) ==
    << Append(root, "profiles"), root \o <<"profiles", p>>,
       DeriveProfilePaths(root, p).home, DeriveProfilePaths(root, p).data >>

(* Mutant: a link is followed as long as it stays within the root.         *)
EnsureDirectoryAnywhere(s, path) ==
    LET there == EvalSymlinks(s.fs, path) IN
    IF ~s.ok THEN s
    ELSE IF Lstat(s.fs, path) = Missing THEN Mkdir(s, path)
    ELSE IF Failed(there) \/ s.fs[there].kind # "dir" THEN Refuse(s)
    ELSE Chmod(s, path)

(* Mutant: a directory that is there keeps its mode.                       *)
EnsureDirectoryKeepingMode(s, path) ==
    LET here == Lstat(s.fs, path) IN
    IF ~s.ok THEN s
    ELSE IF here = Missing THEN Mkdir(s, path)
    ELSE IF here = Broken \/ s.fs[here].kind # "dir" THEN Refuse(s)
    ELSE s

(* A link is refused wherever it leads, and so is a file.                  *)
Ensure(s, path, here) ==
    IF ~s.ok THEN s
    ELSE IF here = Missing THEN Mkdir(s, path)
    ELSE IF here = Broken \/ s.fs[here].kind # "dir" THEN Refuse(s)
    ELSE Chmod(s, path)

EnsureDirectoryWithin(s, path) == Ensure(s, path, Lstat(s.fs, path))

Identity(fs, root, p) ==
    [home |-> EvalSymlinks(fs, DeriveProfilePaths(root, p).home),
     data |-> EvalSymlinks(fs, DeriveProfilePaths(root, p).data)]

Contained(fs, root, p) ==
    LET profileRoot == EvalSymlinks(fs, root \o <<"profiles", p>>)
        ids == Identity(fs, root, p)
    IN  /\ IsWithin(root, profileRoot)
        /\ IsWithin(profileRoot, ids.home) /\ IsWithin(profileRoot, ids.data)

(***************************************************************************)
(* The disk and the identity a launch comes to; ids is Missing when it is  *)
(* refused.  The paths expected by the configuration are the lexical ones, *)
(* which always match.                                                     *)
(***************************************************************************)
PrepareProfilePaths(fs, p) ==
    LET made == MkdirAll(fs, Root)
        root == EvalSymlinks(made.fs, Root)
        managed == Managed(root, p)
        secured == Chmod(made, root)
        profiles == EnsureDirectoryWithin(secured, managed[1])
        profile == EnsureDirectoryWithin(profiles, managed[2])
        home == EnsureDirectoryWithin(profile, managed[3])
        ensured == EnsureDirectoryWithin(home, managed[4])
    IN  IF ~made.ok THEN [fs |-> made.fs, root |-> Missing, ids |-> Missing]
        ELSE IF ensured.ok /\ Contained(ensured.fs, root, p)
        THEN [fs |-> ensured.fs, root |-> root, ids |-> Identity(ensured.fs, root, p)]
        ELSE [fs |-> ensured.fs, root |-> root, ids |-> Missing]

ValidateExistingDirectory(fs, path) ==
    LET here == Lstat(fs, path) IN
    here = Missing \/ (here # Broken /\ fs[here].kind = "dir")

(* Mutant: the lexical paths are good enough.                              *)
ResolveLexically(fs, p) == DeriveProfilePaths(Root, p)

(* Without a root the paths are lexical; with one they are below what it   *)
(* stands for.  Broken in place of the paths when they are refused.        *)
ResolveProfilePaths(fs, p) ==
    LET root == EvalSymlinks(fs, Root) IN
    IF Lstat(fs, Root) = Missing THEN DeriveProfilePaths(Root, p)
    ELSE IF ~Failed(root) /\ fs[root].kind = "dir"
            /\ \A i \in 1..4 : ValidateExistingDirectory(fs, Managed(root, p)[i])
    THEN DeriveProfilePaths(root, p)
    ELSE Broken

-----------------------------------------------------------------------------
Init ==
    /\ disk = Disk
    /\ launched = {}
    /\ edits = 0

Launch(p) ==
    \E done \in {PrepareProfilePaths(disk, p)} :
        /\ disk' = done.fs
        /\ launched' = launched \cup
               (IF done.ids = Missing THEN {}
                ELSE {[profile |-> p, root |-> done.root, ids |-> done.ids]})
        /\ UNCHANGED edits

Edit(fs) ==
    /\ edits < MaxEdits
    /\ edits' = edits + 1
    /\ disk' = fs
    /\ UNCHANGED launched

Below(path) == {p \in DOMAIN disk : IsPrefix(path, p)}

Delete(path) ==
    /\ path \in DOMAIN disk
    /\ Edit([p \in DOMAIN disk \ Below(path) |-> disk[p]])

Vacant(path) ==
    /\ path \notin DOMAIN disk
    /\ Front(path) \in DOMAIN disk /\ disk[Front(path)].kind = "dir"

(* A new link or file. *)
Place(path, node) == Vacant(path) /\ Edit(Put(disk, path, node))

Loosen ==
    Edit([p \in DOMAIN disk |-> IF disk[p].kind = "dir" THEN Dir(FALSE) ELSE disk[p]])

(* A directory is moved with everything in it. *)
Move(from, to) ==
    LET moved == {to \o SubSeq(p, Len(from) + 1, Len(p)) : p \in Below(from)} IN
    /\ from \in DOMAIN disk /\ Vacant(to) /\ ~IsPrefix(from, to)
    /\ Edit([p \in (DOMAIN disk \ Below(from)) \cup moved |->
                IF p \in moved THEN disk[from \o SubSeq(p, Len(to) + 1, Len(p))]
                ELSE disk[p]])

User ==
    \/ \E path \in Removable : Delete(path) \/ Place(path, File)
    \/ \E link \in Linkable : Place(link[1], Link(link[2]))
    \/ \E move \in Movable : Move(move[1], move[2])
    \/ Loosen

Next == (\E p \in Profile : Launch(p)) \/ User

Spec == Init /\ [][Next]_vars

-----------------------------------------------------------------------------
(* As long as the root stands for the directory it stood for when an       *)
(* instance was launched, stop and list look for it under the identity it  *)
(* was launched with, or refuse; and when the root is gone they do, if its *)
(* path went through no link.                                              *)
IdentityKept ==
    \A n \in launched :
        LET root == EvalSymlinks(disk, Root)
            ids == ResolveProfilePaths(disk, n.profile)
        IN  root = n.root \/ (Lstat(disk, Root) = Missing /\ n.root = Root) =>
                ids \in {Broken, n.ids}

(* Two profiles never share a directory, nor is one's inside the other's,  *)
(* however the user has linked their directories.                          *)
IdentitiesDisjoint ==
    \A m, n \in launched :
        m.profile # n.profile =>
            \A d \in {m.ids.home, m.ids.data}, e \in {n.ids.home, n.ids.data} :
                ~IsPrefix(d, e)

(* An instance is launched only on directories that are there and private, *)
(* from the root down, and not in reach of another profile by a link.      *)
LaunchedPrivate ==
    [][\A n \in launched' \ launched :
          /\ disk'[n.root] = Dir(TRUE)
          /\ \A i \in 1..4 : disk'[Managed(n.root, n.profile)[i]] = Dir(TRUE)
      ]_vars

(* What is not as it was on the disk.                                      *)
Changed ==
    {q \in DOMAIN disk \cup DOMAIN disk' :
        ~(q \in DOMAIN disk \cap DOMAIN disk' /\ disk[q] = disk'[q])}

(* A launch of a profile, refused or not, changes nothing of the disk but  *)
(* the missing part of the way to the root, the root and the four          *)
(* directories of that very profile, wherever these may be linked to.      *)
OnlyOwnTouched ==
    [][\A p \in Profile : Launch(p) =>
          LET root == EvalSymlinks(disk', Root) IN
          \A q \in Changed :
              \/ q \notin DOMAIN disk /\ \E i \in 1..Len(Root) :
                     q = EvalSymlinks(disk', SubSeq(Root, 1, i))
              \/ q = root \/ \E i \in 1..4 : q = Managed(root, p)[i]
      ]_vars

=============================================================================
