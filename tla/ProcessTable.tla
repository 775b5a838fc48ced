---------------------------- MODULE ProcessTable ----------------------------
(***************************************************************************)
(* The macOS process table as cpr meets it, and the scanner that reads it  *)
(* (internal/process/scanner_darwin.go).                                   *)
(*                                                                         *)
(* A scan is not atomic: the process ids are listed first and every        *)
(* process is read later, one after the other.  window holds the tables    *)
(* that existed since cpr's previous step, the current one last, and a     *)
(* scan reads each listed process in a table of its choice no older than   *)
(* the listing.                                                            *)
(*                                                                         *)
(* owner is what no scan can see: the profile whose launch a process       *)
(* descends from.  Start times are unique, so owner is indexed by them.    *)
(***************************************************************************)
EXTENDS Ownership, Sequences

CONSTANTS
    Boot,       \* the initial tables: records [procs, owner]
    Nobody,     \* the owner of an instance no profile launched
    ScanFaults, \* what may fail in the scanner without an error: see below
    MaxWindow,  \* bound: tables in one window
    MaxBorn     \* bound: processes ever started

Owner == Profile \cup {Nobody}

ASSUME BootAssumption ==
    \A b \in Boot :
        /\ b.owner \in Seq(Owner)
        /\ b.procs \in Snapshot
        /\ \A p \in Listed(b.procs) :
              /\ b.procs[p].pid = p
              /\ b.procs[p].start \in 1..Len(b.owner)
        /\ \A p, q \in Listed(b.procs) :
              b.procs[p].start = b.procs[q].start => p = q

(***************************************************************************)
(* Where processes come from: the flag of one profile alone stands for     *)
(* that profile; a parent is a running process or launchd; and a process   *)
(* that was not opened as an instance belongs where its parent does.       *)
(***************************************************************************)
Opened(info) == info.exe = MainExe /\ \E id \in Profile : info.dirs = {id}

Descent(procs, owners) ==
    \A p \in Listed(procs) :
        LET info == procs[p] IN
        /\ \A id \in Profile : info.dirs = {id} => owners[info.start] = id
        /\ \/ info.ppid = Launchd
           \/ /\ info.ppid \in Listed(procs)
              /\ \/ Opened(info)
                 \/ owners[info.start] = owners[procs[info.ppid].start]

ASSUME BootOwnerAssumption == \A b \in Boot : Descent(b.procs, b.owner)
ASSUME BoundAssumption == MaxWindow \in Nat \ {0} /\ MaxBorn \in Nat
ASSUME FaultAssumption == ScanFaults \subseteq {"probe", "read"}

VARIABLES window, owner

tableVars == <<window, owner>>

Table == window[Len(window)]

Live == Listed(Table)

TableTypeOK ==
    /\ window \in Seq(Snapshot) /\ Len(window) \in 1..MaxWindow
    /\ owner \in Seq(Owner)

TableInit ==
    \E b \in Boot : window = <<b.procs>> /\ owner = b.owner

-----------------------------------------------------------------------------
(* What the other programs of the machine do, at any moment. *)

Change(T) ==
    /\ Len(window) < MaxWindow
    /\ window' = Append(window, T)

(***************************************************************************)
(* A process ends and launchd adopts its children.                         *)
(***************************************************************************)
Exit(p) ==
    /\ p \in Live
    /\ Change([q \in Pid |->
                  CASE q = p -> Absent
                    [] q \in Live \ {p} /\ Table[q].ppid = p ->
                           [Table[q] EXCEPT !.ppid = Launchd]
                    [] OTHER -> Table[q]])
    /\ UNCHANGED owner

(***************************************************************************)
(* The kernel hands out process ids in sequence and wraps around, so an id *)
(* freed during a window is not handed out again in it.  It may be at any  *)
(* later time: what cpr remembered of it is then stale.                    *)
(***************************************************************************)
Start(p, parent, exe, dirs, o) ==
    /\ Len(owner) < MaxBorn
    /\ \A i \in DOMAIN window : p \notin Listed(window[i])
    /\ Change([Table EXCEPT ![p] =
                  [pid |-> p, ppid |-> parent, start |-> Len(owner) + 1,
                   exe |-> exe, dirs |-> dirs]])
    /\ owner' = Append(owner, o)

(***************************************************************************)
(* A running process starts a child: a helper or a program outside the     *)
(* bundle, with or without its parent's flag.                              *)
(***************************************************************************)
Spawn ==
    \E parent \in Live, p \in Pid, exe \in Exe \ {MainExe} :
        \E dirs \in {{}, Table[parent].dirs} :
            Start(p, parent, exe, dirs, owner[Table[parent].start])

(***************************************************************************)
(* A ChatGPT instance is opened for a profile, by cpr or by hand, from     *)
(* launchd or from a terminal inside another instance; or by hand with no  *)
(* profile at all.                                                         *)
(***************************************************************************)
OpenInstance ==
    \E p \in Pid :
        \/ \E id \in Profile, parent \in Live \cup {Launchd} :
              Start(p, parent, MainExe, {id}, id)
        \/ Start(p, Launchd, MainExe, {}, Nobody)

(***************************************************************************)
(* A helper execs a program outside the bundle: it keeps its id and its    *)
(* start time, and gains no flag.                                          *)
(***************************************************************************)
Exec ==
    \E p \in Live, exe \in Exe \ Bundle :
        \E dirs \in {{}, Table[p].dirs} :
            /\ Table[p].exe \in Bundle \ {MainExe}
            /\ Change([Table EXCEPT ![p] = [@ EXCEPT !.exe = exe, !.dirs = dirs]])
            /\ UNCHANGED owner

Environment == (\E p \in Pid : Exit(p)) \/ Spawn \/ OpenInstance \/ Exec

-----------------------------------------------------------------------------
(* The scanner. *)

(***************************************************************************)
(* The snapshot of a scan that lists the process ids in table l and reads  *)
(* process p in table at[p].  A process that is gone when it is read is    *)
(* left out, and with the fault "read" any other may be: its user, path,   *)
(* metadata or argv could not be had.  With the fault "probe" one of the   *)
(* calls of proc_listallpids may fail and return 0, the one that only asks *)
(* how many ids there are or a later one (pidListResult): the scanner then *)
(* reports no process at all, and no error.                                *)
(***************************************************************************)
Readable(l, at) == {p \in Listed(window[l]) : p \in Listed(window[at[p]])}

ReadAt(at, seen) == [p \in Pid |-> IF p \in seen THEN window[at[p]][p] ELSE Absent]

Empty == [p \in Pid |-> Absent]

ReadsMayFail == "read" \in ScanFaults

Scans(l) ==
    UNION { {ReadAt(at, seen) : seen \in IF ReadsMayFail
                                         THEN SUBSET Readable(l, at)
                                         ELSE {Readable(l, at)}}
          : at \in [Listed(window[l]) -> l..Len(window)] }

(* Mutant: when the ids cannot be listed there are none.                   *)
SnapshotUnchecked == (UNION {Scans(l) : l \in DOMAIN window}) \cup {Empty}

SnapshotAll ==
    (UNION {Scans(l) : l \in DOMAIN window})
        \cup (IF "probe" \in ScanFaults THEN {Empty} ELSE {})

(***************************************************************************)
(* Snapshot keeps only the processes whose path, read just before the      *)
(* rest, is the main executable's.  No process execs to or from it.        *)
(***************************************************************************)
RunningMainExe(snap) ==
    [p \in Pid |-> IF p \in Listed(snap) /\ snap[p].exe = MainExe
                   THEN snap[p] ELSE Absent]

(***************************************************************************)
(* Revalidate re-reads one process now.  With the fault "read" it may also *)
(* fail on a process that is still there.                                  *)
(***************************************************************************)
Revalidates(expected) ==
    expected.pid \in Live /\ SameIdentity(expected, Table[expected.pid])
=============================================================================
