---------------------------- MODULE ListService ----------------------------
(***************************************************************************)
(* One `cpr list` (internal/list/list.go): one scan of the processes that  *)
(* run the main executable, then, from that snapshot alone, one instance   *)
(* for every profile that has a main process in it.                        *)
(***************************************************************************)
EXTENDS ProcessTable

VARIABLES
    pc,         \* "scan", "identify" or "done"
    snapshot,   \* what the scan showed
    instances,  \* the answer: records [profile, pid, start]
    result      \* "ok" or the error returned

vars == <<window, owner, pc, snapshot, instances, result>>

Init ==
    /\ TableInit
    /\ pc = "scan"
    /\ snapshot = Empty
    /\ instances = {}
    /\ result = "none"

Return(r, found) ==
    /\ pc' = "done"
    /\ result' = r
    /\ instances' = found
    /\ UNCHANGED <<window, owner, snapshot>>

(* No snapshotter or an invalid app; or the ids cannot be listed.          *)
Refuse == pc = "scan" /\ \E r \in {"invalid", "scan"} : Return(r, {})

(* The table is not read again: what happens after the scan is of no       *)
(* consequence to the list, and window keeps the time of the scan.         *)
Scan ==
    /\ pc = "scan"
    /\ \E snap \in SnapshotAll : snapshot' = RunningMainExe(snap)
    /\ pc' = "identify"
    /\ UNCHANGED <<window, owner, instances, result>>

InstanceOf(id) == [profile |-> id, pid |-> MainOf(snapshot, id).pid,
                   start |-> MainOf(snapshot, id).start]

Found == {InstanceOf(id) : id \in {d \in Profile : Mains(snapshot, d) # {}}}

(* Mutant: the first match is taken, as FindMain does.                     *)
IdentifyFirst ==
    /\ pc = "identify"
    /\ \/ Return("paths", {})
       \/ Return("ok", Found)

(* The profiles are taken one after the other, in order of their ids; the  *)
(* first whose paths cannot be resolved, or that has two main processes,   *)
(* ends the command without a list.                                        *)
Identify ==
    /\ pc = "identify"
    /\ \/ Return("paths", {})
       \/ ~Identifiable(snapshot) /\ Return("ambiguous", {})
       \/ Identifiable(snapshot) /\ Return("ok", Found)

List == Refuse \/ Scan \/ Identify

World ==
    /\ pc = "scan"
    /\ Environment
    /\ UNCHANGED <<pc, snapshot, instances, result>>

Finished == pc = "done" /\ UNCHANGED vars

Next == List \/ World \/ Finished

Spec == Init /\ [][Next]_vars

-----------------------------------------------------------------------------
LastingMain(id, p) == \A i \in DOMAIN window : p \in Mains(window[i], id)

(* Nothing is listed that was not there: every instance was, at some       *)
(* moment of the scan, a main process of its profile, and one that was     *)
(* started for no other profile.                                           *)
ListedRan ==
    \A n \in instances :
        /\ owner[n.start] = n.profile
        /\ \E i \in DOMAIN window :
               /\ n.pid \in Mains(window[i], n.profile)
               /\ window[i][n.pid].start = n.start

(* Nothing is missing that was there: a list without an error names every  *)
(* main process that ran throughout the scan; two of one profile, which it *)
(* could not both name, make it refuse.                                    *)
LastingListed ==
    result = "ok" =>
        \A id \in Profile, p \in Pid :
            LastingMain(id, p) =>
                /\ [profile |-> id, pid |-> p, start |-> Table[p].start] \in instances
                /\ \A q \in Pid \ {p} : ~LastingMain(id, q)

=============================================================================
