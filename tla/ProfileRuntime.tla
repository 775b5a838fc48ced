--------------------------- MODULE ProfileRuntime ---------------------------
(***************************************************************************)
(* A user's session with one profile: `cpr launch`, then `cpr list`, then  *)
(* `cpr stop`, each a process of its own that remembers nothing of the     *)
(* others.  They meet only in the process table, which goes on changing    *)
(* during and between them: other launches of the same profile included.   *)
(***************************************************************************)
EXTENDS ProcessTable

CONSTANTS Target, MaxPolls, NoClaim

ASSUME TargetAssumption == Target \in Profile

VARIABLES
    command,                                    \* which command runs
    launchPc, launchPolls, found, launchResult,
    listPc, snapshot, instances, listResult,
    stopPc, force, claim, pending, fresh, stopPolls, sent, stopResult

launchVars == <<launchPc, launchPolls, found, launchResult>>
listVars == <<listPc, snapshot, instances, listResult>>
stopVars == <<stopPc, force, claim, pending, fresh, stopPolls, sent, stopResult>>
vars == <<window, owner, command, launchVars, listVars, stopVars>>

L == INSTANCE LaunchScan WITH pc <- launchPc, polls <- launchPolls, result <- launchResult
I == INSTANCE ListService WITH pc <- listPc, result <- listResult
S == INSTANCE StopService WITH pc <- stopPc, polls <- stopPolls, result <- stopResult

Init == L!Init /\ I!Init /\ S!Init /\ command = "launch"

LaunchStep ==
    /\ command = "launch" /\ L!Launch
    /\ UNCHANGED <<command, listVars, stopVars>>

ListStep ==
    /\ command = "list" /\ I!List
    /\ UNCHANGED <<command, launchVars, stopVars>>

StopStep ==
    /\ command = "stop" /\ S!Stop
    /\ UNCHANGED <<command, launchVars, listVars>>

(* The user goes on when a command has succeeded.                          *)
NextCommand ==
    /\ \/ command = "launch" /\ launchResult = "ok" /\ command' = "list"
       \/ command = "list" /\ listResult = "ok" /\ command' = "stop"
    /\ window' = <<Table>>
    /\ UNCHANGED <<owner, launchVars, listVars, stopVars>>

Over ==
    \/ command = "launch" /\ launchPc = "done" /\ launchResult # "ok"
    \/ command = "list" /\ listPc = "done" /\ listResult # "ok"
    \/ command = "stop" /\ stopPc = "done"

(* The answer of a command stands for the time of its last scan.           *)
Answered ==
    \/ command = "launch" /\ launchPc = "done"
    \/ command = "list" /\ listPc \in {"identify", "done"}
    \/ command = "stop" /\ stopPc = "done"

World ==
    /\ ~Answered
    /\ Environment
    /\ UNCHANGED <<command, launchVars, listVars, stopVars>>

Finished == Over /\ UNCHANGED vars

Next == LaunchStep \/ ListStep \/ StopStep \/ NextCommand \/ World \/ Finished

Spec == Init /\ [][Next]_vars

-----------------------------------------------------------------------------
Lasting(info) ==
    \A i \in DOMAIN window :
        info.pid \in Listed(window[i]) /\ window[i][info.pid].start = info.start

LastingMain(p) == \A i \in DOMAIN window : p \in Mains(window[i], Target)

(* A launch opens an instance, or gives up waiting for one, only when no   *)
(* process was a main process of the profile throughout its last scan; the *)
(* one that it reports was one at some moment of it.                       *)
LaunchTruthful ==
    [][/\ launchPc' # launchPc /\ (launchPc' = "open" \/ launchResult' = "timeout")
              => \A p \in Pid : ~LastingMain(p)
       /\ launchPc' # launchPc /\ launchResult' = "ok"
              => \E i \in DOMAIN window : \E p \in Mains(window[i], Target) :
                     window[i][p] = found'
      ]_vars

(* The commands agree who the profile's instance is: as long as the one    *)
(* that launch reported is there, a list without an error names it, and    *)
(* the one that stop settles on is no other.                               *)
ListKnowsLaunched ==
    (command = "list" /\ listResult = "ok" /\ Lasting(found)) =>
        [profile |-> Target, pid |-> found.pid, start |-> found.start] \in instances

StopKnowsLaunched ==
    [][(stopPc = "identify" /\ stopPc' = "revalidate_term" /\ Lasting(found)) =>
           claim'.target.start = found.start]_vars

(* When the session has gone through, what it launched is gone.            *)
SessionCloses == stopResult = "ok" => ~Lasting(found)

=============================================================================
