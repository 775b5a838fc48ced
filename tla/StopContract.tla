---------------------------- MODULE StopContract ----------------------------
(***************************************************************************)
(* What `cpr stop <profile>` promises, without saying how: it settles on   *)
(* one main process and on the neighbours to spare, signals nothing but    *)
(* the profile's own processes, gently first, and answers truthfully about *)
(* the time since it last acted.                                           *)
(***************************************************************************)
EXTENDS ProcessTable

CONSTANT Target     \* the profile to stop

VARIABLES
    force,      \* may the stop kill?
    target,     \* the main process settled on, or Absent before
    neighbours, \* the main process of every other profile to spare
    hits,       \* the signals delivered: records [signal, hit]
    answer      \* "none" until the stop answers

contractVars == <<window, owner, force, target, neighbours, hits, answer>>

Moments == DOMAIN window

(* A process was a main process of the profile at some moment.             *)
WasMain(info, id) ==
    \E i \in Moments : \E p \in Mains(window[i], id) : window[i][p] = info

(* Nothing was a main process of the profile all the time.                 *)
NoLastingMain(id) ==
    \A p \in Pid : \E i \in Moments : p \notin Mains(window[i], id)

(* The main process of a neighbour was still there when the time began.    *)
Spared(id) ==
    \E p \in Mains(window[1], id) : SameIdentity(neighbours[id], window[1][p])

Init ==
    /\ TableInit
    /\ force \in BOOLEAN
    /\ target = Absent
    /\ neighbours = [id \in Profile |-> Absent]
    /\ hits = <<>>
    /\ answer = "none"

Acts ==
    /\ window' = <<Table>>
    /\ UNCHANGED <<owner, force>>

(* Whatever it decides internally, the stop may look again at any time.    *)
Look == Acts /\ UNCHANGED <<target, neighbours, hits, answer>>

Settle ==
    /\ target = Absent
    /\ \A id \in Profile, p, q \in Pid :
          p # q => \E i \in Moments : ~({p, q} \subseteq Mains(window[i], id))
    /\ target' # Absent /\ WasMain(target', Target)
    /\ neighbours' \in [Profile -> Info \cup {Absent}]
    /\ \A id \in Profile \ {Target} :
          IF neighbours'[id] = Absent THEN NoLastingMain(id)
                                     ELSE WasMain(neighbours'[id], id)
    /\ Acts
    /\ UNCHANGED <<hits, answer>>

(* The process that receives a signal is the profile's, it is the main     *)
(* process settled on or no main process at all, and it gets each signal   *)
(* at most once.                                                           *)
Signal ==
    /\ target # Absent
    /\ \E p \in Live, signal \in {"TERM", "KILL"} :
        LET hit == Table[p] IN
        /\ owner[hit.start] = Target /\ hit.dirs \subseteq {Target}
        /\ (signal = "TERM" \/ MatchesMainProcess(hit, Target)) =>
               hit.start = target.start
        /\ (signal = "TERM") <=> (hits = <<>>)
        /\ signal = "KILL" =>
               /\ force
               /\ \A i \in 2..Len(hits) : hits[i].hit.start # hit.start
        /\ hits' = Append(hits, [signal |-> signal, hit |-> hit])
    /\ Acts
    /\ UNCHANGED <<target, neighbours, answer>>

Answer(a) ==
    /\ answer' = a
    /\ UNCHANGED <<window, owner, force, target, neighbours, hits>>

Stopped ==
    /\ hits # <<>>
    /\ NoLastingMain(Target)
    /\ \A id \in Profile \ {Target} : neighbours[id] # Absent => Spared(id)
    /\ Answer("ok")

NotRunning == target = Absent /\ NoLastingMain(Target) /\ Answer("not_running")

Failed == Answer("failed")

Next ==
    /\ answer = "none"
    /\ \/ Look \/ Settle \/ Signal \/ Stopped \/ NotRunning \/ Failed
       \/ Environment /\ UNCHANGED <<force, target, neighbours, hits, answer>>

Spec == Init /\ [][Next]_contractVars

=============================================================================
