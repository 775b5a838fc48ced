----------------------------- MODULE Ownership -----------------------------
(***************************************************************************)
(* Which processes belong to the profile being stopped: the pure rules of  *)
(* internal/stop/service.go.  A snapshot maps every process id to what was *)
(* read of it, or to Absent.  A claim is what Stop remembers of its first  *)
(* snapshot: the target's main process, the main processes of the other    *)
(* running profiles, and the processes seen to be the target's.            *)
(***************************************************************************)
EXTENDS ProcessInfo, FiniteSets

ASSUME FinitelyManyPids == IsFiniteSet(Pid)

Snapshot == [Pid -> Info \cup {Absent}]

Listed(snap) == {p \in DOMAIN snap : snap[p] # Absent}

Claim == [target : Info, dir : Profile,
          others : [Profile -> Info \cup {Absent}],
          evidence : SUBSET Info]

Mains(snap, dir) == {p \in Listed(snap) : MatchesMainProcess(snap[p], dir)}

(* Mutant: only the parent is looked at.                                   *)
HasParent(candidate, ancestor, snap) ==
    /\ candidate.ppid \in Listed(snap)
    /\ SameIdentity(snap[candidate.ppid], ancestor)

(***************************************************************************)
(* The k-th ancestor of the candidate that the snapshot shows, 0 past the  *)
(* end of the chain.                                                       *)
(***************************************************************************)
Lineage(candidate, snap) ==
    LET up[k \in 0..(Cardinality(Listed(snap)) + 1)] ==
            CASE k = 0 -> candidate.pid
              [] k = 1 -> candidate.ppid
              [] OTHER -> IF up[k - 1] \in Listed(snap)
                          THEN snap[up[k - 1]].ppid ELSE 0
    IN  up

(***************************************************************************)
(* The walk gives up when it meets a process id again: a snapshot read     *)
(* over time may show a cycle of parents.                                  *)
(***************************************************************************)
HasAncestryTo(candidate, ancestor, snap) ==
    LET up == Lineage(candidate, snap) IN
    \E k \in DOMAIN up \ {0} :
        /\ up[k] \in Listed(snap)
        /\ SameIdentity(snap[up[k]], ancestor)
        /\ \A i, j \in 0..(k - 1) : i # j => up[i] # up[j]

(***************************************************************************)
(* What the walk is to find, said without a walk: what lies in every set   *)
(* that holds the candidate's parent and, with a process, its parent.      *)
(***************************************************************************)
UpwardClosed(S, snap) == \A p \in S \cap Listed(snap) : snap[p].ppid \in S

Ancestors(candidate, snap) ==
    {p \in Listed(snap) : \A S \in SUBSET (Pid \cup {Launchd}) :
        candidate.ppid \in S /\ UpwardClosed(S, snap) => p \in S}

HasConflictingUserDataDir(info, dir) == \E d \in info.dirs : d # dir

(* Mutant: only a flag makes a process another profile's.                  *)
NamesForeignDir(candidate, snap, others) ==
    \E id \in Listed(others) : HasExactUserDataDir(candidate, id)

IsForeignOwned(candidate, snap, others) ==
    \E id \in Listed(others) :
        \/ candidate.ppid = others[id].pid
        \/ HasExactUserDataDir(candidate, id)
        \/ HasAncestryTo(candidate, others[id], snap)

(* Mutant: what the first snapshot showed is forgotten.                    *)
IsOwnedAtPresent(candidate, snap, claim) ==
    /\ candidate.pid # claim.target.pid
    /\ candidate.exe \in Bundle
    /\ ~HasConflictingUserDataDir(candidate, claim.dir)
    /\ ~IsForeignOwned(candidate, snap, claim.others)
    /\ \/ HasExactUserDataDir(candidate, claim.dir)
       \/ HasAncestryTo(candidate, claim.target, snap)

(* Mutant: the profile's own flag is no evidence.                          *)
IsOwnedByDescent(candidate, snap, claim) ==
    /\ candidate.pid # claim.target.pid
    /\ candidate.exe \in Bundle
    /\ ~HasConflictingUserDataDir(candidate, claim.dir)
    /\ ~IsForeignOwned(candidate, snap, claim.others)
    /\ \/ \E initial \in claim.evidence : SameIdentity(initial, candidate)
       \/ HasAncestryTo(candidate, claim.target, snap)

(***************************************************************************)
(* The exclusions come first: no ancestry or old evidence can claim a      *)
(* process that names another directory or belongs to another profile.     *)
(***************************************************************************)
IsTargetOwned(candidate, snap, claim) ==
    /\ candidate.pid # claim.target.pid
    /\ candidate.exe \in Bundle
    /\ ~HasConflictingUserDataDir(candidate, claim.dir)
    /\ ~IsForeignOwned(candidate, snap, claim.others)
    /\ \/ HasExactUserDataDir(candidate, claim.dir)
       \/ \E initial \in claim.evidence : SameIdentity(initial, candidate)
       \/ HasAncestryTo(candidate, claim.target, snap)

(* Mutants: evidence without one of the two exclusions.                    *)
CaptureDespiteOthers(snap, target, dir, others) ==
    {c \in {snap[p] : p \in Listed(snap)} :
        /\ c.pid # target.pid
        /\ c.exe \in Bundle
        /\ ~HasConflictingUserDataDir(c, dir)
        /\ HasExactUserDataDir(c, dir) \/ HasAncestryTo(c, target, snap)}

CaptureDespiteConflict(snap, target, dir, others) ==
    {c \in {snap[p] : p \in Listed(snap)} :
        /\ c.pid # target.pid
        /\ c.exe \in Bundle
        /\ ~IsForeignOwned(c, snap, others)
        /\ HasExactUserDataDir(c, dir) \/ HasAncestryTo(c, target, snap)}

(***************************************************************************)
(* captureOwnershipEvidence applies the rule of isTargetOwned to the first *)
(* snapshot, when there is no evidence yet.                                *)
(***************************************************************************)
CaptureOwnershipEvidence(snap, target, dir, others) ==
    {c \in {snap[p] : p \in Listed(snap)} :
        /\ c.pid # target.pid
        /\ c.exe \in Bundle
        /\ ~HasConflictingUserDataDir(c, dir)
        /\ ~IsForeignOwned(c, snap, others)
        /\ HasExactUserDataDir(c, dir) \/ HasAncestryTo(c, target, snap)}

(* Mutant: off by one.                                                     *)
IdentifiableUpToTwo(snap) == \A id \in Profile : Cardinality(Mains(snap, id)) <= 2

(***************************************************************************)
(* No profile at all, running or to be stopped, may have two main          *)
(* processes: stop refuses to tell them apart.                             *)
(***************************************************************************)
Identifiable(snap) == \A id \in Profile : Cardinality(Mains(snap, id)) <= 1

MainOf(snap, id) == snap[CHOOSE p \in Mains(snap, id) : TRUE]

ClaimOn(snap, dir) ==
    LET target == MainOf(snap, dir)
        others == [id \in Profile |->
                      IF id # dir /\ Mains(snap, id) # {}
                      THEN MainOf(snap, id) ELSE Absent]
    IN  [target |-> target, dir |-> dir, others |-> others,
         evidence |-> CaptureOwnershipEvidence(snap, target, dir, others)]

ClassifyResiduals(snap, claim) ==
    {c \in {snap[p] : p \in Listed(snap)} : IsTargetOwned(c, snap, claim)}

(* Mutant: any main process of the other profile will do.                  *)
OthersRunning(snap, others) ==
    \A id \in Listed(others) : Cardinality(Mains(snap, id)) = 1

(***************************************************************************)
(* Every other running profile still has the main process it had, alone.   *)
(***************************************************************************)
OthersIntact(snap, others) ==
    \A id \in Listed(others) :
        \E p \in Listed(snap) :
            /\ Mains(snap, id) = {p}
            /\ SameIdentity(others[id], snap[p])

=============================================================================
