----------------------------- MODULE LaunchScan -----------------------------
(***************************************************************************)
(* What one `cpr launch` (internal/launch/launch.go) does with the process *)
(* table: FindMain before it opens an instance, and FindMain again until   *)
(* one shows up.  The directories and the settings are in LaunchService,   *)
(* where FindMain is a single step; here it is the scan it is.  The        *)
(* instance appears, or does not, like any other: see OpenInstance.        *)
(***************************************************************************)
EXTENDS ProcessTable

CONSTANTS
    Target,     \* the profile to launch
    MaxPolls    \* bound: sleeps before the verification deadline

VARIABLES
    pc,         \* "check", "open", "await" or "done"
    polls,
    found,      \* the process FindMain returned last, or Absent
    result

vars == <<window, owner, pc, polls, found, result>>

Init ==
    /\ TableInit
    /\ pc = "check"
    /\ polls = 0
    /\ found = Absent
    /\ result = "none"

Proceed(next) ==
    /\ pc' = next
    /\ window' = <<Table>>
    /\ UNCHANGED <<owner, result>>

Return(r) ==
    /\ pc' = "done"
    /\ result' = r
    /\ UNCHANGED <<window, owner, polls>>

(* Mutant: the executable alone tells an instance.                         *)
AnyMainExe(snap) ==
    LET running == RunningMainExe(snap) IN
    IF Listed(running) = {} THEN {Absent} ELSE {running[p] : p \in Listed(running)}

(* Any one of the processes that match: the first in the kernel's order.   *)
FindMain(snap) ==
    LET running == RunningMainExe(snap) IN
    IF Mains(running, Target) = {} THEN {Absent}
    ELSE {running[p] : p \in Mains(running, Target)}

(* The request is refused, the directories cannot be made or the ids not   *)
(* be listed; then, in the open step, the guard or `open -n` fails.        *)
Fails == pc # "done" /\ found' = Absent /\ Return("failed")

Check ==
    /\ pc = "check"
    /\ \E snap \in SnapshotAll : found' \in FindMain(snap)
    /\ \/ found' # Absent /\ Return("already_running")
       \/ found' = Absent /\ Proceed("open") /\ UNCHANGED polls

Open == pc = "open" /\ Proceed("await") /\ UNCHANGED <<polls, found>>

Await ==
    /\ pc = "await"
    /\ \E snap \in SnapshotAll : found' \in FindMain(snap)
    /\ \/ found' # Absent /\ Return("ok")
       \/ found' = Absent /\ Return("timeout")
       \/ /\ found' = Absent /\ polls < MaxPolls
          /\ polls' = polls + 1
          /\ Proceed("await")

Launch == Fails \/ Check \/ Open \/ Await

=============================================================================
