---------------------------- MODULE MCOwnership ----------------------------
(***************************************************************************)
(* The ownership rules over every snapshot of a few processes: torn ones,  *)
(* whose parents form a cycle, included.                                   *)
(***************************************************************************)
EXTENDS Ownership

VARIABLE shown      \* the snapshot

Read == [pid : Pid, ppid : Pid \cup {Launchd}, start : {1}, exe : Exe, dirs : SUBSET Dir]

RulesInit == shown = [p \in Pid |-> Absent]

(* One process appears, changes or goes: every snapshot is reached.        *)
RulesNext ==
    \E p \in Pid :
        \/ shown' = [shown EXCEPT ![p] = Absent]
        \/ \E info \in Read :
              info.pid = p /\ shown' = [shown EXCEPT ![p] = info]

RulesSpec == RulesInit /\ [][RulesNext]_shown

-----------------------------------------------------------------------------
(* The bounded walk of hasAncestryTo finds exactly the processes reachable *)
(* by following parents, in snapshots with a cycle of parents too.         *)
AncestryIsReachability ==
    \A p \in Listed(shown) :
        LET ancestors == Ancestors(shown[p], shown) IN
        \A q \in Listed(shown) :
            HasAncestryTo(shown[p], shown[q], shown) <=> q \in ancestors

(* No process is attributed by one snapshot to two profiles: a stop of one *)
(* and a stop of the other never reckon with the same process.  The rule   *)
(* does not rest on the refusal of a profile that runs twice: it holds for *)
(* the main process that was picked of several, too.                       *)
EvidenceExclusive ==
    \A id1, id2 \in Profile :
        (id1 # id2 /\ Mains(shown, id1) # {} /\ Mains(shown, id2) # {}) =>
            ClaimOn(shown, id1).evidence \cap ClaimOn(shown, id2).evidence = {}

(* On the snapshot it was captured from, the evidence is what the residual *)
(* rule finds: the two passes of the code agree.                           *)
EvidenceIsResidual ==
    Identifiable(shown) =>
        \A id \in Profile :
            Mains(shown, id) # {} =>
                LET claim == ClaimOn(shown, id) IN
                ClassifyResiduals(shown, claim) = claim.evidence

=============================================================================
