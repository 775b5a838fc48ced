---------------------------- MODULE StopService ----------------------------
(***************************************************************************)
(* One `cpr stop <profile> [--force]` (internal/stop/service.go) against a *)
(* process table that changes under it.  Every call Stop makes to the      *)
(* inspector or to the signaler, with the decision taken on its result, is *)
(* one action; the table may change between any two of them.               *)
(***************************************************************************)
EXTENDS ProcessTable

CONSTANTS
    Target,     \* the profile to stop
    MaxPolls,   \* bound: sleeps in one wait before its deadline
    NoClaim     \* the claim before the first scan

ASSUME TargetAssumption == Target \in Profile
ASSUME PollAssumption == MaxPolls \in Nat
ASSUME NoClaimAssumption == NoClaim \notin Claim

VARIABLES
    pc,         \* the next call to make
    force,      \* was --force given
    claim,      \* what the first scan showed
    pending,    \* forceResiduals: residuals not yet signalled
    fresh,      \* forceResiduals: the scan taken for the first of them
    polls,      \* sleeps in the present wait
    sent,       \* the signals delivered, in order
    result      \* what Stop returned

vars == <<window, owner, pc, force, claim, pending, fresh, polls, sent, result>>

Scanning == {"identify", "await_term", "await_kill", "rescan",
             "await_residuals", "final"}
Revalidating == {"revalidate_term", "revalidate_kill", "revalidate_residual"}
Signalling == {"term", "kill", "kill_residual"}
Results == {"ok", "invalid", "scan", "ambiguous", "not_running", "identity",
            "signal", "timeout", "residual", "affected"}

(***************************************************************************)
(* One signal: whom the code meant, and the process that received it.      *)
(***************************************************************************)
Delivery == [signal : {"TERM", "KILL"}, meant : Info, hit : Info]

Init ==
    /\ TableInit
    /\ pc = "identify"
    /\ force \in BOOLEAN
    /\ claim = NoClaim
    /\ pending = {}
    /\ fresh = Empty
    /\ polls = 0
    /\ sent = <<>>
    /\ result = "none"

-----------------------------------------------------------------------------
(* A step of Stop ends the window: the next scan reads from here on.       *)

Proceed(next) ==
    /\ pc' = next
    /\ window' = <<Table>>
    /\ UNCHANGED <<owner, force, result>>

Return(r) ==
    /\ pc' = "done"
    /\ result' = r
    /\ UNCHANGED <<window, owner, force, claim, pending, fresh, polls, sent>>

(* The request is refused before the first scan: no inspector or signaler, *)
(* an invalid app, a runtime root that does not resolve, an unknown id.    *)
RefuseRequest == pc = "identify" /\ Return("invalid")

(* The process ids cannot be listed. *)
ScanFails == pc \in Scanning /\ Return("scan")

Identify ==
    /\ pc = "identify"
    /\ \E snap \in SnapshotAll :
        \/ ~Identifiable(snap) /\ Return("ambiguous")
        \/ /\ Identifiable(snap)
           /\ Mains(snap, Target) = {}
           /\ Return("not_running")
        \/ /\ Identifiable(snap)
           /\ Mains(snap, Target) # {}
           /\ claim' = ClaimOn(snap, Target)
           /\ Proceed("revalidate_term")
           /\ UNCHANGED <<pending, fresh, polls, sent>>

-----------------------------------------------------------------------------
(* revalidateMain, before SIGTERM, and the second half of forceMain, before *)
(* SIGKILL, re-read the main process in the same way.                       *)

StillTargetMain ==
    /\ Revalidates(claim.target)
    /\ MatchesMainProcess(Table[claim.target.pid], Target)

RevalidateMain ==
    /\ pc \in {"revalidate_term", "revalidate_kill"}
    /\ \/ /\ StillTargetMain
          /\ Proceed(IF pc = "revalidate_term" THEN "term" ELSE "kill")
          /\ UNCHANGED <<claim, pending, fresh, polls, sent>>
       \/ /\ ReadsMayFail \/ ~StillTargetMain
          /\ Return("identity")

(* kill(2) names a process by its id: whoever holds it now is hit.         *)
Deliver(signal, meant) ==
    /\ meant.pid \in Live
    /\ sent' = Append(sent, [signal |-> signal, meant |-> meant,
                             hit |-> Table[meant.pid]])

SignalMain ==
    /\ pc \in {"term", "kill"}
    /\ Deliver(IF pc = "term" THEN "TERM" ELSE "KILL", claim.target)
    /\ polls' = 0
    /\ Proceed(IF pc = "term" THEN "await_term" ELSE "await_kill")
    /\ UNCHANGED <<claim, pending, fresh>>

(* The residual whose turn it is: classifyResiduals sorts by process id.   *)
NextResidual == {c \in pending : \A d \in pending : c.pid <= d.pid}

(* Stop gives up when a signal cannot be sent; it never escalates.         *)
SignalFails ==
    /\ \/ pc \in {"term", "kill"} /\ claim.target.pid \notin Live
       \/ pc = "kill_residual" /\ \E c \in NextResidual : c.pid \notin Live
    /\ Return("signal")

-----------------------------------------------------------------------------
(* waitForMainExit, after SIGTERM and after SIGKILL.                        *)

(* Mutant: one sleep too many.                                             *)
PollPastDeadline ==
    /\ polls <= MaxPolls
    /\ polls' = polls + 1
    /\ Proceed(pc)
    /\ UNCHANGED <<claim, pending, fresh, sent>>

PollAgain ==
    /\ polls < MaxPolls
    /\ polls' = polls + 1
    /\ Proceed(pc)
    /\ UNCHANGED <<claim, pending, fresh, sent>>

(* Mutant: what the wait saw is taken for the final state.                 *)
MainGoneUnverified(snap) ==
    LET residuals == ClassifyResiduals(snap, claim) IN
    \/ residuals = {} /\ Return("ok")
    \/ residuals # {} /\ ~force /\ Return("residual")
    \/ /\ residuals # {} /\ force
       /\ pending' = residuals
       /\ polls' = 0
       /\ Proceed("rescan")
       /\ UNCHANGED <<claim, fresh, sent>>

(* No main process is left: look for what it left behind.                  *)
MainGone(snap) ==
    LET residuals == ClassifyResiduals(snap, claim) IN
    \/ /\ residuals = {}
       /\ polls' = 0
       /\ Proceed("final")
       /\ UNCHANGED <<claim, pending, fresh, sent>>
    \/ /\ residuals # {} /\ ~force
       /\ Return("residual")
    \/ /\ residuals # {} /\ force
       /\ pending' = residuals
       /\ polls' = 0
       /\ Proceed("rescan")
       /\ UNCHANGED <<claim, fresh, sent>>

(* Mutant: a stop escalates without --force.                               *)
MainTimeoutUnforced(snap) ==
    \/ pc = "await_kill" /\ Return("timeout")
    \/ /\ pc = "await_term"
       /\ SameIdentity(claim.target, MainOf(snap, Target))
       /\ Proceed("revalidate_kill")
       /\ UNCHANGED <<claim, pending, fresh, polls, sent>>
    \/ /\ pc = "await_term"
       /\ ~SameIdentity(claim.target, MainOf(snap, Target))
       /\ Return("identity")

(* The deadline has passed.  Only --force goes on, once, and only when the *)
(* process still there is the one that got SIGTERM.                        *)
MainTimeout(snap) ==
    \/ (pc = "await_kill" \/ ~force) /\ Return("timeout")
    \/ /\ pc = "await_term" /\ force
       /\ SameIdentity(claim.target, MainOf(snap, Target))
       /\ Proceed("revalidate_kill")
       /\ UNCHANGED <<claim, pending, fresh, polls, sent>>
    \/ /\ pc = "await_term" /\ force
       /\ ~SameIdentity(claim.target, MainOf(snap, Target))
       /\ Return("identity")

(* Mutant: the wait is for the process, not for the profile.               *)
AwaitProcess ==
    /\ pc \in {"await_term", "await_kill"}
    /\ \E snap \in SnapshotAll :
        LET gone == \A p \in Mains(snap, Target) :
                        ~SameIdentity(claim.target, snap[p])
        IN
        \/ gone /\ MainGone(snap)
        \/ ~gone /\ PollAgain
        \/ ~gone /\ MainTimeout(snap)

AwaitMain ==
    /\ pc \in {"await_term", "await_kill"}
    /\ \E snap \in SnapshotAll :
        LET mains == Cardinality(Mains(snap, Target)) IN
        \/ mains > 1 /\ Return("ambiguous")
        \/ mains = 0 /\ MainGone(snap)
        \/ mains = 1 /\ PollAgain
        \/ mains = 1 /\ MainTimeout(snap)

-----------------------------------------------------------------------------
(* forceResiduals: rescan, revalidate, SIGKILL, for each residual in order  *)
(* of process id.                                                           *)

Rescan ==
    /\ pc = "rescan"
    /\ \E snap \in SnapshotAll :
        \/ Mains(snap, Target) # {} /\ Return("identity")
        \/ /\ Mains(snap, Target) = {}
           /\ fresh' = snap
           /\ Proceed("revalidate_residual")
           /\ UNCHANGED <<claim, pending, polls, sent>>

StillTargetOwned(expected) ==
    /\ Revalidates(expected)
    /\ IsTargetOwned(Table[expected.pid], fresh, claim)

RevalidateResidual ==
    /\ pc = "revalidate_residual"
    /\ \E expected \in NextResidual :
        \/ /\ StillTargetOwned(expected)
           /\ fresh' = Empty
           /\ Proceed("kill_residual")
           /\ UNCHANGED <<claim, pending, polls, sent>>
        \/ /\ ReadsMayFail \/ ~StillTargetOwned(expected)
           /\ Return("identity")

KillResidual ==
    /\ pc = "kill_residual"
    /\ \E expected \in NextResidual :
        /\ Deliver("KILL", expected)
        /\ pending' = pending \ {expected}
        /\ Proceed(IF pending' = {} THEN "await_residuals" ELSE "rescan")
        /\ UNCHANGED <<claim, fresh, polls>>

(* Mutant: the deadline is set anew at every turn.                         *)
AwaitResidualsForever ==
    /\ pc = "await_residuals"
    /\ \E snap \in SnapshotAll :
        LET residuals == ClassifyResiduals(snap, claim) IN
        \/ Mains(snap, Target) # {} /\ Return("identity")
        \/ /\ Mains(snap, Target) = {} /\ residuals # {}
           /\ polls' = (polls + 1) % (MaxPolls + 1)
           /\ Proceed(pc)
           /\ UNCHANGED <<claim, pending, fresh, sent>>
        \/ /\ Mains(snap, Target) = {} /\ residuals = {}
           /\ polls' = 0
           /\ Proceed("final")
           /\ UNCHANGED <<claim, pending, fresh, sent>>

(* waitForResidualExit, and the classification Stop repeats on the same    *)
(* snapshot, which finds nothing more.                                     *)
AwaitResiduals ==
    /\ pc = "await_residuals"
    /\ \E snap \in SnapshotAll :
        LET residuals == ClassifyResiduals(snap, claim) IN
        \/ Mains(snap, Target) # {} /\ Return("identity")
        \/ Mains(snap, Target) = {} /\ residuals # {} /\ PollAgain
        \/ Mains(snap, Target) = {} /\ residuals # {} /\ Return("residual")
        \/ /\ Mains(snap, Target) = {} /\ residuals = {}
           /\ polls' = 0
           /\ Proceed("final")
           /\ UNCHANGED <<claim, pending, fresh, sent>>

(* Mutant: the final scan looks for residuals and others only.             *)
FinalScanIgnoringMains ==
    /\ pc = "final"
    /\ \E snap \in SnapshotAll :
        LET residuals == ClassifyResiduals(snap, claim) IN
        \/ residuals # {} /\ Return("residual")
        \/ /\ residuals = {} /\ ~OthersIntact(snap, claim.others)
           /\ Return("affected")
        \/ /\ residuals = {} /\ OthersIntact(snap, claim.others)
           /\ Return("ok")

(* verifyFinalState and verifyOtherProfiles. *)
FinalScan ==
    /\ pc = "final"
    /\ \E snap \in SnapshotAll :
        LET mains == Cardinality(Mains(snap, Target))
            residuals == ClassifyResiduals(snap, claim)
        IN
        \/ mains > 1 /\ Return("ambiguous")
        \/ mains = 1 /\ Return("identity")
        \/ mains = 0 /\ residuals # {} /\ Return("residual")
        \/ /\ mains = 0 /\ residuals = {}
           /\ ~OthersIntact(snap, claim.others)
           /\ Return("affected")
        \/ /\ mains = 0 /\ residuals = {}
           /\ OthersIntact(snap, claim.others)
           /\ Return("ok")

-----------------------------------------------------------------------------
Stop ==
    \/ RefuseRequest \/ ScanFails \/ Identify
    \/ RevalidateMain \/ SignalMain \/ SignalFails \/ AwaitMain
    \/ Rescan \/ RevalidateResidual \/ KillResidual \/ AwaitResiduals
    \/ FinalScan

World ==
    /\ pc # "done"
    /\ Environment
    /\ UNCHANGED <<pc, force, claim, pending, fresh, polls, sent, result>>

Finished == pc = "done" /\ UNCHANGED vars

Next == Stop \/ World \/ Finished

Spec == Init /\ [][Next]_vars

(* Stop is a single thread that always takes its next step; the rest of    *)
(* the machine owes it nothing.                                            *)
FairSpec == Spec /\ WF_vars(Stop)

-----------------------------------------------------------------------------
TypeOK ==
    /\ TableTypeOK
    /\ pc \in Scanning \cup Revalidating \cup Signalling \cup {"done"}
    /\ force \in BOOLEAN
    /\ (pc \notin {"identify", "done"}) => claim \in Claim
    /\ pending \subseteq Info
    /\ fresh \in Snapshot
    /\ polls \in 0..MaxPolls
    /\ sent \in Seq(Delivery)
    /\ result \in Results \cup {"none"}

(* Whatever the process table does, no signal reaches a process that was   *)
(* started for another profile or for none, nor one that names a           *)
(* directory other than the target's.                                      *)
NoForeignSignal ==
    \A i \in DOMAIN sent :
        /\ owner[sent[i].hit.start] = Target
        /\ sent[i].hit.dirs \subseteq {Target}

(* A signal reaches the process that was identified for it, although the   *)
(* id it is sent to may have been freed and handed out again since: the    *)
(* first scan's main process, or a residual as it was classified.          *)
SignalsHitMeant ==
    \A i \in DOMAIN sent : sent[i].hit.start = sent[i].meant.start

(* SIGTERM comes first, once, and to the main process only; everything     *)
(* after it is SIGKILL under --force; the main process is killed at most   *)
(* once and before any residual; no process id gets SIGKILL twice.         *)
KillDiscipline ==
    \A i \in DOMAIN sent :
        /\ (sent[i].signal = "TERM") <=> (i = 1)
        /\ i = 1 => sent[i].meant = claim.target
        /\ i > 1 => force
        /\ i > 2 => sent[i].meant.pid # claim.target.pid
        /\ \A j \in 2..(i - 1) : sent[j].meant.pid # sent[i].meant.pid

(* A main process of the profile that appears while it is being stopped is *)
(* spared: the only main process a signal reaches is the one identified.   *)
NewcomerSpared ==
    \A i \in DOMAIN sent :
        MatchesMainProcess(sent[i].hit, Target) =>
            sent[i].hit.start = claim.target.start

(* When Stop reports the profile stopped, or not running, no process was a *)
(* main process of it from before the deciding scan until its end.         *)
ReportedAbsent ==
    result \in {"ok", "not_running"} =>
        \A p \in Pid : \E i \in DOMAIN window : p \notin Mains(window[i], Target)

(* The part of it about success, which the documentation promises of every *)
(* success: a last fresh scan has confirmed that the main process is gone. *)
SuccessMeansGone ==
    result = "ok" =>
        \A p \in Pid : \E i \in DOMAIN window : p \notin Mains(window[i], Target)

(* When Stop reports success, no process the first scan attributed to the  *)
(* profile was there throughout the final scan, whoever adopted it since.  *)
SuccessLeavesNoOwned ==
    result = "ok" =>
        \A c \in claim.evidence : \E i \in DOMAIN window :
            c.pid \in Listed(window[i]) => ~SameIdentity(c, window[i][c.pid])

(* When Stop reports success, no process of the bundle that names the      *)
(* profile alone and was adopted by launchd was there throughout the final *)
(* scan, whenever it was started.  The exception is one that has taken the *)
(* id of the stopped main process: the residual rule passes over that id.  *)
SuccessLeavesNoNamed ==
    result = "ok" =>
        \A p \in Pid \ {claim.target.pid} : \E i \in DOMAIN window :
            ~ /\ p \in Listed(window[i])
              /\ window[i][p].exe \in Bundle
              /\ window[i][p].dirs = {Target}
              /\ window[i][p].ppid = Launchd

(* When Stop reports success, every other profile that ran when it began   *)
(* still had, as the deciding scan began, the very same main process.      *)
SuccessSparesOthers ==
    result = "ok" =>
        \A id \in Listed(claim.others) :
            LET before == claim.others[id] IN
            /\ before.pid \in Mains(window[1], id)
            /\ SameIdentity(before, window[1][before.pid])

(* The stop keeps its promise: what it does, seen as signals and an answer, *)
(* is what StopContract allows.  The claim of the first scan is the target *)
(* and the neighbours it settles on; every error is a failure.             *)
Contract == INSTANCE StopContract WITH
    target <- IF claim = NoClaim THEN Absent ELSE claim.target,
    neighbours <- IF claim = NoClaim THEN [id \in Profile |-> Absent]
                                     ELSE claim.others,
    hits <- [i \in DOMAIN sent |-> [signal |-> sent[i].signal, hit |-> sent[i].hit]],
    answer <- IF result \in {"none", "ok", "not_running"} THEN result ELSE "failed"

ImplementsContract == Contract!Spec

(* Every stop returns, whatever survives its signals.                      *)
StopReturns == <>(pc = "done")

=============================================================================
