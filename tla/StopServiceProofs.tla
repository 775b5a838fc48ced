------------------------- MODULE StopServiceProofs -------------------------
(***************************************************************************)
(* What StopService guarantees for every set of process ids, executables   *)
(* and profiles, every initial table and every bound: whom a stop signals, *)
(* what its answer means, and that its steps are those StopContract        *)
(* allows.  Where a theorem needs a scan to show every process that lasts, *)
(* it assumes that no read fails silently; TLC shows that it must          *)
(* (StopBlankScan).                                                        *)
(***************************************************************************)
EXTENDS StopService, MCOwnership, TableProofs

-----------------------------------------------------------------------------
(* The operators of Ownership on well-formed snapshots. *)

(* What Stop remembers of its first snapshot is a claim. *)
LEMMA ClaimLemma ==
    ASSUME NEW snap \in Snapshot, Mains(snap, Target) # {}
    PROVE  ClaimOn(snap, Target) \in Claim
<1> DEFINE target == MainOf(snap, Target)
           others == [id \in Profile |->
                         IF id # Target /\ Mains(snap, id) # {}
                         THEN MainOf(snap, id) ELSE Absent]
           evidence == CaptureOwnershipEvidence(snap, target, Target, others)
<1>1. target \in Info
    BY MainOfLemma
<1>2. others \in [Profile -> Info \cup {Absent}]
    BY MainOfLemma
<1>3. evidence \subseteq Info
    <2>1. \A p \in Listed(snap) : snap[p] \in Info
        BY DEF Listed, Snapshot
    <2>2. evidence \subseteq {snap[p] : p \in Listed(snap)}
        BY DEF CaptureOwnershipEvidence
    <2>3. QED
        BY <2>1, <2>2
<1>4. ClaimOn(snap, Target) = [target |-> target, dir |-> Target,
                               others |-> others, evidence |-> evidence]
    BY DEF ClaimOn
<1> HIDE DEF target, others, evidence
<1>5. QED
    BY <1>1, <1>2, <1>3, <1>4, TargetAssumption DEF Claim

(* Residuals are processes of the snapshot other than the target's main,   *)
(* one for each process id.                                                *)
LEMMA ResidualLemma ==
    ASSUME NEW snap \in Snapshot, Keyed(snap), NEW c
    PROVE  LET residuals == ClassifyResiduals(snap, c) IN
           /\ residuals \subseteq Info
           /\ \A r \in residuals : r.pid # c.target.pid
           /\ \A r1, r2 \in residuals : r1.pid = r2.pid => r1 = r2
<1> DEFINE residuals == ClassifyResiduals(snap, c)
<1>1. \A r \in residuals : \E p \in Listed(snap) : r = snap[p]
    BY DEF ClassifyResiduals
<1>2. \A p \in Listed(snap) : p \in Pid /\ snap[p] \in Info /\ snap[p].pid = p
    BY DEF Listed, Snapshot, Keyed
<1>3. \A r \in residuals : r.pid # c.target.pid
    BY DEF ClassifyResiduals, IsTargetOwned
<1> HIDE DEF residuals
<1>4. /\ residuals \subseteq Info
      /\ \A r1, r2 \in residuals : r1.pid = r2.pid => r1 = r2
    BY <1>1, <1>2
<1>5. QED
    BY <1>3, <1>4 DEF residuals

-----------------------------------------------------------------------------
(* Type correctness. *)

TypeInv == TypeOK /\ TableInv

LEMMA ReturnLemma ==
    ASSUME TypeInv, NEW r \in Results, Return(r)
    PROVE  TypeInv'
BY DEF TypeInv, TypeOK, TableInv, TableTypeOK, Keyed, Born, OneHolder, Return,
       Table, Scanning, Revalidating, Signalling

(* Going on is well typed when the next call is one of Stop's and the rest *)
(* of its state is.                                                        *)
LEMMA ProceedLemma ==
    ASSUME TypeInv,
           NEW next \in Scanning \cup Revalidating \cup Signalling,
           Proceed(next),
           claim' \in Claim, pending' \subseteq Info, fresh' \in Snapshot,
           polls' \in 0..MaxPolls, sent' \in Seq(Delivery)
    PROVE  TypeInv'
<1>1. TableInv'
    BY SettleLemma DEF TypeInv, Proceed
<1>2. TypeOK'
    BY <1>1 DEF TypeInv, TypeOK, TableInv, Proceed
<1>3. QED
    BY <1>1, <1>2 DEF TypeInv

LEMMA DeliverLemma ==
    ASSUME TypeInv, NEW signal \in {"TERM", "KILL"}, NEW meant \in Info,
           Deliver(signal, meant)
    PROVE  /\ sent' \in Seq(Delivery)
           /\ Len(sent') = Len(sent) + 1
           /\ Len(sent) \in Nat
           /\ \A i \in 1..Len(sent) : sent'[i] = sent[i]
           /\ sent'[Len(sent) + 1] = [signal |-> signal, meant |-> meant,
                                      hit |-> Table[meant.pid]]
<1> DEFINE d == [signal |-> signal, meant |-> meant, hit |-> Table[meant.pid]]
<1>1. Table[meant.pid] \in Info
    BY LiveType DEF TypeInv, Deliver
<1>2. d \in Delivery
    BY <1>1 DEF Delivery
<1>3. sent \in Seq(Delivery) /\ sent' = Append(sent, d)
    BY DEF TypeInv, TypeOK, Deliver
<1> HIDE DEF d
<1>4. /\ sent' \in Seq(Delivery)
      /\ Len(sent') = Len(sent) + 1
      /\ Len(sent) \in Nat
      /\ \A i \in 1..Len(sent) : sent'[i] = sent[i]
      /\ sent'[Len(sent) + 1] = d
    BY <1>2, <1>3
<1>5. QED
    BY <1>4 DEF d

LEMMA TypeInit == Init => TypeInv
<1> SUFFICES ASSUME Init PROVE TypeInv
    OBVIOUS
<1>1. TableInv
    BY TableInitLemma DEF Init
<1>2. Empty \in Snapshot
    BY DEF Empty, Snapshot
<1>3. QED
    BY <1>1, <1>2, PollAssumption
    DEF Init, TypeInv, TypeOK, TableInv, Scanning, Results

LEMMA TypeNext == TypeInv /\ [Next]_vars => TypeInv'
<1> SUFFICES ASSUME TypeInv, [Next]_vars PROVE TypeInv'
    OBVIOUS
<1> USE DEF Results
<1>1. /\ TableInv
      /\ claim \in Claim \/ pc \in {"identify", "done"}
      /\ pending \subseteq Info /\ fresh \in Snapshot
      /\ polls \in 0..MaxPolls /\ sent \in Seq(Delivery)
      /\ Empty \in Snapshot
      /\ MaxPolls \in Nat
    BY PollAssumption DEF TypeInv, TypeOK, Empty, Snapshot
<1>2. \A snap \in SnapshotAll : snap \in Snapshot /\ Keyed(snap)
    BY <1>1, ScanLemma
<1>3. CASE RefuseRequest
    BY <1>3, ReturnLemma DEF RefuseRequest
<1>4. CASE ScanFails
    BY <1>4, ReturnLemma DEF ScanFails
<1>5. CASE Identify
    <2>1. PICK snap \in SnapshotAll :
              \/ Return("ambiguous") \/ Return("not_running")
              \/ /\ Mains(snap, Target) # {}
                 /\ claim' = ClaimOn(snap, Target)
                 /\ Proceed("revalidate_term")
                 /\ UNCHANGED <<pending, fresh, polls, sent>>
        BY <1>5 DEF Identify
    <2>2. CASE Return("ambiguous") \/ Return("not_running")
        BY <2>2, ReturnLemma
    <2>3. CASE /\ Mains(snap, Target) # {}
               /\ claim' = ClaimOn(snap, Target)
               /\ Proceed("revalidate_term")
               /\ UNCHANGED <<pending, fresh, polls, sent>>
        <3>1. claim' \in Claim
            BY <1>2, <2>3, ClaimLemma
        <3>2. QED
            BY <1>1, <2>3, <3>1, ProceedLemma DEF Revalidating
    <2>4. QED
        BY <2>1, <2>2, <2>3
<1>6. CASE RevalidateMain
    <2>1. CASE Return("identity")
        BY <2>1, ReturnLemma
    <2>2. CASE /\ Proceed(IF pc = "revalidate_term" THEN "term" ELSE "kill")
               /\ UNCHANGED <<claim, pending, fresh, polls, sent>>
        BY <1>1, <1>6, <2>2, ProceedLemma DEF RevalidateMain, Signalling
    <2>3. QED
        BY <1>6, <2>1, <2>2 DEF RevalidateMain
<1>7. CASE SignalMain
    <2>1. claim \in Claim /\ claim.target \in Info
        BY <1>1, <1>7 DEF SignalMain, Claim
    <2>2. sent' \in Seq(Delivery)
        BY <1>7, <2>1, DeliverLemma DEF SignalMain
    <2>3. QED
        BY <1>1, <1>7, <2>1, <2>2, ProceedLemma DEF SignalMain, Scanning
<1>8. CASE SignalFails
    BY <1>8, ReturnLemma DEF SignalFails
<1>9. CASE AwaitMain
    <2>1. PICK snap \in SnapshotAll :
              \/ Return("ambiguous") \/ MainGone(snap)
              \/ PollAgain \/ MainTimeout(snap)
        BY <1>9 DEF AwaitMain
    <2>2. claim \in Claim /\ pc \in Scanning
        BY <1>1, <1>9 DEF AwaitMain, Scanning
    <2>3. CASE Return("ambiguous")
        BY <2>3, ReturnLemma
    <2>4. CASE MainGone(snap)
        <3>1. ClassifyResiduals(snap, claim) \subseteq Info
            BY <1>2, ResidualLemma
        <3>2. CASE Return("residual")
            BY <3>2, ReturnLemma
        <3>3. CASE /\ \/ pending' = pending /\ Proceed("final")
                      \/ /\ pending' = ClassifyResiduals(snap, claim)
                         /\ Proceed("rescan")
                   /\ polls' = 0
                   /\ UNCHANGED <<claim, fresh, sent>>
            BY <1>1, <2>2, <3>1, <3>3, ProceedLemma DEF Scanning
        <3>4. QED
            BY <2>4, <3>2, <3>3 DEF MainGone
    <2>5. CASE PollAgain
        BY <1>1, <2>2, <2>5, ProceedLemma DEF PollAgain
    <2>6. CASE MainTimeout(snap)
        <3>1. CASE Return("timeout") \/ Return("identity")
            BY <3>1, ReturnLemma
        <3>2. CASE /\ Proceed("revalidate_kill")
                   /\ UNCHANGED <<claim, pending, fresh, polls, sent>>
            BY <1>1, <2>2, <3>2, ProceedLemma DEF Revalidating
        <3>3. QED
            BY <2>6, <3>1, <3>2 DEF MainTimeout
    <2>7. QED
        BY <2>1, <2>3, <2>4, <2>5, <2>6
<1>10. CASE Rescan
    <2>1. PICK snap \in SnapshotAll :
              \/ Return("identity")
              \/ /\ fresh' = snap
                 /\ Proceed("revalidate_residual")
                 /\ UNCHANGED <<claim, pending, polls, sent>>
        BY <1>10 DEF Rescan
    <2>2. CASE Return("identity")
        BY <2>2, ReturnLemma
    <2>3. CASE /\ fresh' = snap
               /\ Proceed("revalidate_residual")
               /\ UNCHANGED <<claim, pending, polls, sent>>
        BY <1>1, <1>2, <1>10, <2>3, ProceedLemma DEF Rescan, Revalidating
    <2>4. QED
        BY <2>1, <2>2, <2>3
<1>11. CASE RevalidateResidual
    <2>1. CASE Return("identity")
        BY <2>1, ReturnLemma
    <2>2. CASE /\ fresh' = Empty
               /\ Proceed("kill_residual")
               /\ UNCHANGED <<claim, pending, polls, sent>>
        BY <1>1, <1>11, <2>2, ProceedLemma DEF RevalidateResidual, Signalling
    <2>3. QED
        BY <1>11, <2>1, <2>2 DEF RevalidateResidual
<1>12. CASE KillResidual
    <2>1. PICK expected \in NextResidual :
              /\ Deliver("KILL", expected)
              /\ pending' = pending \ {expected}
              /\ Proceed(IF pending' = {} THEN "await_residuals" ELSE "rescan")
              /\ UNCHANGED <<claim, fresh, polls>>
        BY <1>12 DEF KillResidual
    <2>2. expected \in Info
        BY <1>1 DEF NextResidual
    <2>3. sent' \in Seq(Delivery)
        BY <2>1, <2>2, DeliverLemma
    <2>4. (IF pending' = {} THEN "await_residuals" ELSE "rescan") \in Scanning
        BY DEF Scanning
    <2>5. QED
        BY <1>1, <1>12, <2>1, <2>3, <2>4, ProceedLemma DEF KillResidual
<1>13. CASE AwaitResiduals
    <2>1. PICK snap \in SnapshotAll :
              \/ Return("identity") \/ PollAgain \/ Return("residual")
              \/ /\ polls' = 0
                 /\ Proceed("final")
                 /\ UNCHANGED <<claim, pending, fresh, sent>>
        BY <1>13 DEF AwaitResiduals
    <2>2. claim \in Claim /\ pc \in Scanning
        BY <1>1, <1>13 DEF AwaitResiduals, Scanning
    <2>3. CASE Return("identity") \/ Return("residual")
        BY <2>3, ReturnLemma
    <2>4. CASE PollAgain
        BY <1>1, <2>2, <2>4, ProceedLemma DEF PollAgain
    <2>5. CASE /\ polls' = 0
               /\ Proceed("final")
               /\ UNCHANGED <<claim, pending, fresh, sent>>
        BY <1>1, <2>2, <2>5, ProceedLemma DEF Scanning
    <2>6. QED
        BY <2>1, <2>3, <2>4, <2>5
<1>14. CASE FinalScan
    <2>1. \/ Return("ambiguous") \/ Return("identity") \/ Return("residual")
          \/ Return("affected") \/ Return("ok")
        BY <1>14 DEF FinalScan
    <2>2. QED
        BY <2>1, ReturnLemma
<1>15. CASE World
    <2>1. TableInv'
        BY <1>1, <1>15, EnvironmentLemma DEF World
    <2>2. QED
        BY <1>15, <2>1 DEF World, TypeInv, TypeOK, TableInv
<1>16. CASE UNCHANGED vars
    BY <1>16 DEF vars, TypeInv, TypeOK, TableInv, TableTypeOK, Keyed, Born,
                 OneHolder, Table
<1>17. QED
    BY <1>3, <1>4, <1>5, <1>6, <1>7, <1>8, <1>9, <1>10, <1>11, <1>12, <1>13,
       <1>14, <1>15, <1>16 DEF Next, Stop, Finished

(* The state of Stop and of the table keeps its type whatever the machine  *)
(* does between Stop's calls (internal/stop/service.go, Stop).             *)
THEOREM TypeCorrect == Spec => []TypeOK
<1>1. TypeInv => TypeOK
    BY DEF TypeInv
<1>2. QED
    BY <1>1, TypeInit, TypeNext, PTL DEF Spec

-----------------------------------------------------------------------------
(***************************************************************************)
(* Which process a signal reaches, and which signals are sent.             *)
(*                                                                         *)
(* HeldBy says that the process just validated still held its id when the  *)
(* window began.  No other process can take the id within the window, so   *)
(* the signal that ends it reaches that process or fails.                  *)
(***************************************************************************)
HeldBy(info) == /\ window[1][info.pid] # Absent
                /\ window[1][info.pid].start = info.start

ValidatedInv ==
    /\ pc \in {"term", "kill"} => HeldBy(claim.target)
    /\ pc = "kill_residual" => \A c \in NextResidual : HeldBy(c)

(* How many signals Stop has sent when it comes to each call, and that it  *)
(* came to the calls after the first wait's deadline by --force only.      *)
PhaseInv ==
    /\ pc \in {"identify", "revalidate_term", "term"} => sent = <<>>
    /\ pc \in {"await_term", "revalidate_kill", "kill"} => Len(sent) = 1
    /\ pc = "await_kill" => Len(sent) = 2 /\ sent[2].meant = claim.target
    /\ pc \in {"rescan", "revalidate_residual", "kill_residual"}
           => Len(sent) >= 1
    /\ pc \in {"revalidate_kill", "kill", "await_kill", "rescan",
               "revalidate_residual", "kill_residual"} => force

(* The residuals still to be signalled have different ids, none of them    *)
(* the main process's or one that got SIGKILL.                             *)
PendingInv ==
    /\ pc = "identify" => pending = {}
    /\ \A c, d \in pending : c.pid = d.pid => c = d
    /\ \A c \in pending : /\ c.pid # claim.target.pid
                          /\ \A j \in 2..Len(sent) : sent[j].meant.pid # c.pid

SignalInv ==
    /\ ValidatedInv
    /\ PhaseInv
    /\ PendingInv
    /\ SignalsHitMeant
    /\ KillDiscipline

LEMMA SignalInit == Init => SignalInv
<1> SUFFICES ASSUME Init PROVE SignalInv
    OBVIOUS
<1>1. sent = <<>> /\ pending = {} /\ pc = "identify"
    BY DEF Init
<1>2. Len(sent) = 0 /\ DOMAIN sent = {}
    BY <1>1
<1>3. QED
    BY <1>1, <1>2 DEF SignalInv, ValidatedInv, PhaseInv, PendingInv,
                      SignalsHitMeant, KillDiscipline

(* A step that sends nothing keeps what is said of the signals sent.       *)
LEMMA SilentLemma ==
    ASSUME SignalInv, UNCHANGED <<force, claim, sent>>
    PROVE  (SignalsHitMeant /\ KillDiscipline)'
BY DEF SignalInv, SignalsHitMeant, KillDiscipline

LEMMA SignalReturn ==
    ASSUME SignalInv, NEW r, Return(r)
    PROVE  SignalInv'
<1>1. (SignalsHitMeant /\ KillDiscipline)'
    BY SilentLemma DEF Return
<1>2. QED
    BY <1>1 DEF SignalInv, ValidatedInv, PhaseInv, PendingInv, Return

(* One more signal, to a process that held its id when it was validated.   *)
LEMMA SignalSent ==
    ASSUME TypeInv, SignalInv, NEW signal \in {"TERM", "KILL"},
           NEW meant \in Info, Deliver(signal, meant), HeldBy(meant),
           UNCHANGED <<force, claim>>,
           (signal = "TERM") <=> (Len(sent) = 0),
           Len(sent) = 0 => meant = claim.target,
           Len(sent) > 0 => force,
           Len(sent) > 1 => meant.pid # claim.target.pid,
           \A j \in 2..Len(sent) : sent[j].meant.pid # meant.pid
    PROVE  (SignalsHitMeant /\ KillDiscipline)'
<1> DEFINE n == Len(sent)
<1>0. /\ sent' \in Seq(Delivery) /\ Len(sent') = n + 1 /\ n \in Nat
      /\ \A i \in 1..n : sent'[i] = sent[i]
      /\ sent'[n + 1] = [signal |-> signal, meant |-> meant,
                        hit |-> Table[meant.pid]]
    BY DeliverLemma, Zenon
<1>1. /\ sent' \in Seq(Delivery) /\ Len(sent') = n + 1 /\ n \in Nat
      /\ \A i \in 1..n : sent'[i] = sent[i]
      /\ sent'[n + 1].signal = signal
      /\ sent'[n + 1].meant = meant
      /\ sent'[n + 1].hit = Table[meant.pid]
    BY <1>0
<1>2. DOMAIN sent = 1..n /\ DOMAIN sent' = 1..(n + 1)
    BY <1>1 DEF TypeInv, TypeOK
<1>3. Table[meant.pid].start = meant.start
    <2>1. 1 \in 1..Len(window) /\ Len(window) \in 1..Len(window)
        BY DEF TypeInv, TableInv, TableTypeOK
    <2>2. meant.pid \in Pid /\ Table[meant.pid] # Absent
        BY LiveType, AbsentAssumption DEF TypeInv, Deliver
    <2>3. QED
        BY <2>1, <2>2 DEF HeldBy, TypeInv, TableInv, OneHolder, Table
<1>4. SignalsHitMeant'
    BY <1>1, <1>2, <1>3 DEF SignalInv, SignalsHitMeant
<1>5. KillDiscipline'
    <2> SUFFICES ASSUME NEW i \in 1..(n + 1)
                 PROVE  /\ (sent'[i].signal = "TERM") <=> (i = 1)
                        /\ i = 1 => sent'[i].meant = claim.target
                        /\ i > 1 => force
                        /\ i > 2 => sent'[i].meant.pid # claim.target.pid
                        /\ \A j \in 2..(i - 1) :
                               sent'[j].meant.pid # sent'[i].meant.pid
        BY <1>2 DEF KillDiscipline
    <2>1. CASE i \in 1..n
        BY <1>1, <1>2, <2>1 DEF SignalInv, KillDiscipline
    <2>2. CASE i = n + 1
        BY <1>1, <2>2
    <2>3. QED
        BY <1>1, <2>1, <2>2
<1>6. QED
    BY <1>4, <1>5

(* A step that sends nothing and validates nothing.                        *)
LEMMA SignalSilent ==
    ASSUME SignalInv,
           NEW next \in {"revalidate_term", "await_term", "await_kill",
                         "revalidate_kill", "rescan", "revalidate_residual",
                         "await_residuals", "final"},
           Proceed(next), UNCHANGED <<claim, pending, sent>>, PhaseInv'
    PROVE  SignalInv'
<1>1. (SignalsHitMeant /\ KillDiscipline)'
    BY SilentLemma DEF Proceed
<1>2. ValidatedInv' /\ PendingInv'
    BY DEF SignalInv, ValidatedInv, PendingInv, Proceed
<1>3. QED
    BY <1>1, <1>2 DEF SignalInv

LEMMA SignalNext == TypeInv /\ SignalInv /\ [Next]_vars => SignalInv'
<1> SUFFICES ASSUME TypeInv, SignalInv, [Next]_vars PROVE SignalInv'
    OBVIOUS
<1>1. /\ TableInv
      /\ claim \in Claim \/ pc \in {"identify", "done"}
      /\ pending \subseteq Info /\ sent \in Seq(Delivery)
    BY DEF TypeInv, TypeOK
<1>2. \A snap \in SnapshotAll : snap \in Snapshot /\ Keyed(snap)
    BY <1>1, ScanLemma
<1>3. ASSUME NEW r, Return(r) PROVE SignalInv'
    BY <1>3, SignalReturn
<1>4. CASE RefuseRequest \/ ScanFails \/ SignalFails \/ FinalScan
    BY <1>3, <1>4 DEF RefuseRequest, ScanFails, SignalFails, FinalScan
<1>5. CASE Identify
    <2>1. PICK snap \in SnapshotAll :
              \/ \E r : Return(r)
              \/ Proceed("revalidate_term") /\ UNCHANGED <<pending, fresh, polls, sent>>
        BY <1>5 DEF Identify
    <2>2. CASE Proceed("revalidate_term") /\ UNCHANGED <<pending, fresh, polls, sent>>
        <3>1. pending' = {} /\ sent' = <<>> /\ pc' = "revalidate_term"
            BY <1>5, <2>2 DEF SignalInv, PhaseInv, PendingInv, Identify, Proceed
        <3>2. Len(sent') = 0 /\ DOMAIN sent' = {}
            BY <3>1
        <3>3. QED
            BY <3>1, <3>2 DEF SignalInv, ValidatedInv, PhaseInv, PendingInv,
                              SignalsHitMeant, KillDiscipline
    <2>3. QED
        BY <1>3, <2>1, <2>2
<1>6. CASE RevalidateMain
    <2>1. CASE \E r : Return(r)
        BY <1>3, <2>1
    <2>2. CASE /\ StillTargetMain
               /\ Proceed(IF pc = "revalidate_term" THEN "term" ELSE "kill")
               /\ UNCHANGED <<claim, pending, fresh, polls, sent>>
        <3>1. window'[1] = Table
            BY <1>1, <2>2, SettleLemma DEF Proceed
        <3>2. /\ claim.target.pid \in Live
              /\ claim.target.start = Table[claim.target.pid].start
            BY <2>2 DEF StillTargetMain, Revalidates, SameIdentity
        <3>3. ValidatedInv'
            BY <1>1, <2>2, <3>1, <3>2, LiveType, AbsentAssumption
            DEF ValidatedInv, HeldBy, Proceed
        <3>4. (SignalsHitMeant /\ KillDiscipline)'
            BY <2>2, SilentLemma DEF Proceed
        <3>5. (PhaseInv /\ PendingInv)'
            BY <1>6, <2>2
            DEF RevalidateMain, SignalInv, PhaseInv, PendingInv, Proceed
        <3>6. QED
            BY <3>3, <3>4, <3>5 DEF SignalInv
    <2>3. QED
        BY <1>6, <2>1, <2>2 DEF RevalidateMain
<1>7. CASE SignalMain
    <2>1. claim.target \in Info /\ HeldBy(claim.target)
        BY <1>1, <1>7 DEF SignalMain, Claim, SignalInv, ValidatedInv
    <2>2. PICK signal \in {"TERM", "KILL"} :
              /\ signal = IF pc = "term" THEN "TERM" ELSE "KILL"
              /\ Deliver(signal, claim.target)
        BY <1>7 DEF SignalMain
    <2>3. Len(sent) = IF pc = "term" THEN 0 ELSE 1
        BY <1>7 DEF SignalMain, SignalInv, PhaseInv
    <2>4. /\ (signal = "TERM") <=> (Len(sent) = 0)
          /\ Len(sent) > 0 => force
        BY <1>7, <2>2, <2>3 DEF SignalMain, SignalInv, PhaseInv
    <2>5. UNCHANGED <<force, claim, pending>>
        BY <1>7 DEF SignalMain, Proceed
    <2>6. (SignalsHitMeant /\ KillDiscipline)'
        BY <2>1, <2>2, <2>3, <2>4, <2>5, SignalSent
    <2>7. /\ Len(sent') = Len(sent) + 1
          /\ sent'[Len(sent) + 1] = [signal |-> signal, meant |-> claim.target,
                                     hit |-> Table[claim.target.pid]]
        BY <2>1, <2>2, DeliverLemma, Zenon
    <2>8. sent'[Len(sent) + 1].meant = claim.target
        BY <2>7
    <2>9. pc' = IF pc = "term" THEN "await_term" ELSE "await_kill"
        BY <1>7 DEF SignalMain, Proceed
    <2>10. ValidatedInv' /\ PhaseInv'
        BY <1>7, <2>3, <2>4, <2>5, <2>7, <2>8, <2>9
        DEF SignalMain, SignalInv, ValidatedInv, PhaseInv
    <2>11. PendingInv'
        <3>1. \A j \in 2..Len(sent') : sent'[j].meant = claim.target
            BY <2>3, <2>7, <2>8
        <3>2. QED
            BY <2>5, <2>9, <3>1 DEF SignalInv, PendingInv
    <2>12. QED
        BY <2>6, <2>10, <2>11 DEF SignalInv
<1>8. CASE AwaitMain
    <2>1. PICK snap \in SnapshotAll :
              \/ \E r : Return(r)
              \/ MainGone(snap) \/ PollAgain \/ MainTimeout(snap)
        BY <1>8 DEF AwaitMain
    <2>2. pc \in {"await_term", "await_kill"}
        BY <1>8 DEF AwaitMain
    <2>3. CASE MainGone(snap)
        <3>1. CASE Proceed("final") /\ UNCHANGED <<claim, pending, fresh, sent>>
            <4>1. PhaseInv'
                BY <3>1 DEF PhaseInv, Proceed
            <4>2. QED
                BY <3>1, <4>1, SignalSilent
        <3>2. CASE /\ pending' = ClassifyResiduals(snap, claim)
                   /\ force
                   /\ Proceed("rescan")
                   /\ UNCHANGED <<claim, fresh, sent>>
            <4>1. /\ \A r \in pending' : r.pid # claim.target.pid
                  /\ \A r1, r2 \in pending' : r1.pid = r2.pid => r1 = r2
                BY <1>2, <3>2, ResidualLemma
            <4>2. /\ Len(sent) >= 1
                  /\ \A j \in 2..Len(sent) : sent[j].meant = claim.target
                BY <2>2 DEF SignalInv, PhaseInv
            <4>3. (SignalsHitMeant /\ KillDiscipline)'
                BY <3>2, SilentLemma DEF Proceed
            <4>4. (ValidatedInv /\ PhaseInv /\ PendingInv)'
                BY <3>2, <4>1, <4>2 DEF ValidatedInv, PhaseInv, PendingInv, Proceed
            <4>5. QED
                BY <4>3, <4>4 DEF SignalInv
        <3>3. QED
            BY <1>3, <2>3, <3>1, <3>2 DEF MainGone
    <2>4. CASE PollAgain
        <3>1. PhaseInv'
            BY <2>2, <2>4 DEF SignalInv, PhaseInv, PollAgain, Proceed
        <3>2. QED
            BY <2>2, <2>4, <3>1, SignalSilent DEF PollAgain
    <2>5. CASE MainTimeout(snap)
        <3>1. CASE /\ pc = "await_term" /\ force
                   /\ Proceed("revalidate_kill")
                   /\ UNCHANGED <<claim, pending, fresh, polls, sent>>
            <4>1. PhaseInv'
                BY <3>1 DEF SignalInv, PhaseInv, Proceed
            <4>2. QED
                BY <3>1, <4>1, SignalSilent
        <3>2. QED
            BY <1>3, <2>5, <3>1 DEF MainTimeout
    <2>6. QED
        BY <1>3, <2>1, <2>3, <2>4, <2>5
<1>9. CASE Rescan
    <2>1. PICK snap \in SnapshotAll :
              \/ \E r : Return(r)
              \/ /\ Proceed("revalidate_residual")
                 /\ UNCHANGED <<claim, pending, polls, sent>>
        BY <1>9 DEF Rescan
    <2>2. CASE /\ Proceed("revalidate_residual")
               /\ UNCHANGED <<claim, pending, polls, sent>>
        <3>1. PhaseInv'
            BY <1>9, <2>2 DEF Rescan, SignalInv, PhaseInv, Proceed
        <3>2. QED
            BY <2>2, <3>1, SignalSilent
    <2>3. QED
        BY <1>3, <2>1, <2>2
<1>10. CASE RevalidateResidual
    <2>1. PICK c \in NextResidual :
              \/ \E r : Return(r)
              \/ /\ StillTargetOwned(c)
                 /\ Proceed("kill_residual")
                 /\ UNCHANGED <<claim, pending, polls, sent>>
        BY <1>10 DEF RevalidateResidual
    <2>2. CASE /\ StillTargetOwned(c)
               /\ Proceed("kill_residual")
               /\ UNCHANGED <<claim, pending, polls, sent>>
        <3>1. window'[1] = Table
            BY <1>1, <2>2, SettleLemma DEF Proceed
        <3>2. c.pid \in Live /\ c.start = Table[c.pid].start
            BY <2>2 DEF StillTargetOwned, Revalidates, SameIdentity
        <3>3. \A d \in NextResidual : d = c
            <4>1. \A d \in pending : d.pid \in Nat
                BY <1>1, PidAssumption DEF Info
            <4>2. \A d \in NextResidual : /\ c \in pending /\ d \in pending
                                          /\ d.pid <= c.pid /\ c.pid <= d.pid
                BY DEF NextResidual
            <4>3. \A d \in NextResidual : d.pid = c.pid
                BY <4>1, <4>2
            <4>4. QED
                BY <4>2, <4>3 DEF SignalInv, PendingInv
        <3>4. NextResidual' = NextResidual
            BY <2>2 DEF NextResidual
        <3>5. ValidatedInv'
            BY <1>1, <2>2, <3>1, <3>2, <3>3, <3>4, LiveType, AbsentAssumption
            DEF ValidatedInv, HeldBy, Proceed
        <3>6. (SignalsHitMeant /\ KillDiscipline)'
            BY <2>2, SilentLemma DEF Proceed
        <3>7. (PhaseInv /\ PendingInv)'
            BY <1>10, <2>2
            DEF RevalidateResidual, SignalInv, PhaseInv, PendingInv, Proceed
        <3>8. QED
            BY <3>5, <3>6, <3>7 DEF SignalInv
    <2>3. QED
        BY <1>3, <2>1, <2>2
<1>11. CASE KillResidual
    <2>1. PICK c \in NextResidual :
              /\ Deliver("KILL", c)
              /\ pending' = pending \ {c}
              /\ Proceed(IF pending' = {} THEN "await_residuals" ELSE "rescan")
              /\ UNCHANGED <<claim, fresh, polls>>
        BY <1>11 DEF KillResidual
    <2>2. c \in pending /\ c \in Info
        BY <1>1 DEF NextResidual
    <2>3. /\ HeldBy(c) /\ Len(sent) >= 1 /\ force
          /\ c.pid # claim.target.pid
          /\ \A j \in 2..Len(sent) : sent[j].meant.pid # c.pid
        BY <1>11, <2>2
        DEF KillResidual, SignalInv, ValidatedInv, PhaseInv, PendingInv
    <2>4. UNCHANGED <<force, claim>>
        BY <2>1 DEF Proceed
    <2>5. (SignalsHitMeant /\ KillDiscipline)'
        BY <2>1, <2>2, <2>3, <2>4, SignalSent
    <2>6. /\ Len(sent') = Len(sent) + 1 /\ Len(sent) \in Nat
          /\ \A i \in 1..Len(sent) : sent'[i] = sent[i]
          /\ sent'[Len(sent) + 1] = [signal |-> "KILL", meant |-> c,
                                     hit |-> Table[c.pid]]
        BY <2>1, <2>2, DeliverLemma, Zenon
    <2>7. sent'[Len(sent) + 1].meant = c
        BY <2>6
    <2>8. pc' \in {"await_residuals", "rescan"}
        BY <2>1 DEF Proceed
    <2>9. ValidatedInv' /\ PhaseInv'
        BY <2>3, <2>4, <2>6, <2>8 DEF ValidatedInv, PhaseInv
    <2>10. PendingInv'
        <3>1. \A d \in pending' : d \in pending /\ d.pid # c.pid
            BY <2>1, <2>2 DEF SignalInv, PendingInv
        <3>2. \A d \in pending', j \in 2..Len(sent') : sent'[j].meant.pid # d.pid
            <4> SUFFICES ASSUME NEW d \in pending', NEW j \in 2..Len(sent')
                         PROVE  sent'[j].meant.pid # d.pid
                OBVIOUS
            <4>1. CASE j \in 2..Len(sent)
                BY <2>6, <3>1, <4>1 DEF SignalInv, PendingInv
            <4>2. CASE j = Len(sent) + 1
                BY <2>7, <3>1, <4>2
            <4>3. QED
                BY <2>6, <4>1, <4>2
        <3>3. QED
            BY <2>4, <2>8, <3>1, <3>2 DEF SignalInv, PendingInv
    <2>11. QED
        BY <2>5, <2>9, <2>10 DEF SignalInv
<1>12. CASE AwaitResiduals
    <2>1. PICK snap \in SnapshotAll :
              \/ \E r : Return(r)
              \/ PollAgain
              \/ Proceed("final") /\ UNCHANGED <<claim, pending, fresh, sent>>
        BY <1>12 DEF AwaitResiduals
    <2>2. pc = "await_residuals"
        BY <1>12 DEF AwaitResiduals
    <2>3. CASE PollAgain
        <3>1. PhaseInv'
            BY <2>2, <2>3 DEF PhaseInv, PollAgain, Proceed
        <3>2. QED
            BY <2>2, <2>3, <3>1, SignalSilent DEF PollAgain
    <2>4. CASE Proceed("final") /\ UNCHANGED <<claim, pending, fresh, sent>>
        <3>1. PhaseInv'
            BY <2>4 DEF PhaseInv, Proceed
        <3>2. QED
            BY <2>4, <3>1, SignalSilent
    <2>5. QED
        BY <1>3, <2>1, <2>3, <2>4
<1>13. CASE World
    <2>1. window'[1] = window[1]
        BY <1>1, <1>13, EnvironmentLemma DEF World
    <2>2. UNCHANGED <<pc, force, claim, pending, sent>>
        BY <1>13 DEF World
    <2>3. (SignalsHitMeant /\ KillDiscipline)'
        BY <2>2, SilentLemma
    <2>4. (ValidatedInv /\ PhaseInv /\ PendingInv)'
        BY <2>1, <2>2
        DEF SignalInv, ValidatedInv, HeldBy, NextResidual, PhaseInv, PendingInv
    <2>5. QED
        BY <2>3, <2>4 DEF SignalInv
<1>14. CASE UNCHANGED vars
    <2>1. (SignalsHitMeant /\ KillDiscipline)'
        BY <1>14, SilentLemma DEF vars
    <2>2. (ValidatedInv /\ PhaseInv /\ PendingInv)'
        BY <1>14
        DEF vars, SignalInv, ValidatedInv, HeldBy, NextResidual, PhaseInv, PendingInv
    <2>3. QED
        BY <2>1, <2>2 DEF SignalInv
<1>15. QED
    BY <1>4, <1>5, <1>6, <1>7, <1>8, <1>9, <1>10, <1>11, <1>12, <1>13, <1>14
    DEF Next, Stop, Finished

LEMMA SignalInvariant == Spec => [](TypeInv /\ SignalInv)
<1>1. Init => TypeInv /\ SignalInv
    BY TypeInit, SignalInit
<1>2. TypeInv /\ SignalInv /\ [Next]_vars => (TypeInv /\ SignalInv)'
    BY TypeNext, SignalNext
<1>3. QED
    BY <1>1, <1>2, PTL DEF Spec

(* Every signal reaches the process it was meant for: the identity checks  *)
(* of revalidateMain, forceMain and forceResiduals see through any reuse   *)
(* of process ids before them.                                             *)
THEOREM SignalsReachMeant == Spec => []SignalsHitMeant
<1>1. TypeInv /\ SignalInv => SignalsHitMeant
    BY DEF SignalInv
<1>2. QED
    BY <1>1, SignalInvariant, PTL

(* SIGTERM first, once, to the main process; SIGKILL after it only under   *)
(* --force, to the main process before any residual, and to no id twice    *)
(* (Stop, forceMain and forceResiduals in internal/stop/service.go).       *)
THEOREM SignalsDisciplined == Spec => []KillDiscipline
<1>1. TypeInv /\ SignalInv => KillDiscipline
    BY DEF SignalInv
<1>2. QED
    BY <1>1, SignalInvariant, PTL

-----------------------------------------------------------------------------
(***************************************************************************)
(* Whose process a signal reaches.                                         *)
(*                                                                         *)
(* Everything Stop remembers in order to signal it, or has signalled, was  *)
(* started for the target, and what has become of it since is known: a     *)
(* later process with its start time names no other directory.             *)
(***************************************************************************)
Ours(x) ==
    /\ Known(x)
    /\ owner[x.start] = Target
    /\ x.dirs \subseteq {Target}

Claimed == pc \notin {"identify", "done"}

Remembered == {x \in Info : Claimed /\ (x = claim.target \/ x \in claim.evidence)}

Hits == {sent[i].hit : i \in DOMAIN sent}

OwnInv ==
    /\ HistoryInv
    /\ Claimed => claim.dir = Target /\ MatchesMainProcess(claim.target, Target)
    /\ \A x \in Remembered : Ours(x)
    /\ \A c \in pending : Ours(c) /\ ~MatchesMainProcess(c, Target)
    /\ \A x \in Hits : /\ Ours(x)
                       /\ MatchesMainProcess(x, Target) => x.start = claim.target.start

(* The table moves in three ways only.                                     *)
LEMMA TableMoves ==
    ASSUME [Next]_vars
    PROVE  \/ UNCHANGED <<window, owner>>
           \/ window' = <<Table>> /\ owner' = owner
           \/ Environment
BY DEF Next, Stop, Finished, World, vars, RefuseRequest, ScanFails, Identify,
       RevalidateMain, SignalMain, SignalFails, AwaitMain, MainGone, PollAgain,
       MainTimeout, Rescan, RevalidateResidual, KillResidual, AwaitResiduals,
       FinalScan, Proceed, Return

LEMMA OursKept ==
    ASSUME TypeInv, HistoryInv, [Next]_vars
    PROVE  /\ HistoryInv'
           /\ \A x : Known(x) => Known(x)'
           /\ \A x : Ours(x) => Ours(x)'
<1>1. /\ HistoryInv'
      /\ \A x : Known(x) => Known(x)'
      /\ \A k \in 1..Len(owner) : owner'[k] = owner[k]
  BY TableMoves, TableUnchanged, SettleHistory, EnvironmentHistory DEF TypeInv
<1>2. ASSUME NEW x, Ours(x)
      PROVE  Ours(x)'
  <2>1. Known(x)' /\ x.start \in 1..Len(owner)
    BY <1>1, <1>2 DEF Ours, Known
  <2> QED
    BY <1>1, <1>2, <2>1 DEF Ours
<1> QED
  BY <1>1, <1>2

(* What a scan shows is known from then on.                                *)
LEMMA ShownKnown ==
    ASSUME TypeInv, HistoryInv, NEW snap \in SnapshotAll, NEW p \in Listed(snap),
           window' = <<Table>>, owner' = owner
    PROVE  \A x : x = snap[p] => Known(x)'
<1>1. p \in Pid /\ snap[p] # Absent
  BY ScanLemma DEF TypeInv, Listed, Snapshot
<1>2. PICK i \in 1..Len(window) : window[i][p] = snap[p]
  BY <1>1, ScanSeen DEF TypeInv
<1> QED
  BY <1>1, <1>2, SettleHistory DEF TypeInv

(* A flag of the target alone is a sign of having been started for it.     *)
LEMMA NamedOwned ==
    ASSUME TypeInv, HistoryInv, NEW snap \in SnapshotAll, NEW p \in Listed(snap),
           NEW id \in Profile, snap[p].dirs = {id}
    PROVE  owner[snap[p].start] = id
<1>1. p \in Pid /\ snap[p] # Absent
  BY ScanLemma DEF TypeInv, Listed, Snapshot
<1>2. PICK i \in 1..Len(window) : window[i][p] = snap[p]
  BY <1>1, ScanSeen DEF TypeInv
<1> QED
  BY <1>1, <1>2, WindowType, ListedIff DEF TypeInv, HistoryInv, Families, Descent

(* Below a process that was not opened as an instance, one has its parent's *)
(* owner, in a scan that read the two at different moments too.            *)
LEMMA ParentOwned ==
    ASSUME TypeInv, HistoryInv, NEW snap \in SnapshotAll, NEW p \in Listed(snap),
           ~Opened(snap[p]), snap[p].ppid \in Listed(snap)
    PROVE  owner[snap[p].start] = owner[snap[snap[p].ppid].start]
<1> DEFINE q == snap[p].ppid
<1>1. /\ snap \in Snapshot /\ p \in Pid /\ snap[p] # Absent
      /\ q \in Pid /\ q # Launchd /\ snap[q] # Absent
  BY ScanLemma, ListedType DEF TypeInv
<1>2. PICK i \in 1..Len(window) : window[i][p] = snap[p]
  BY <1>1, ScanSeen DEF TypeInv
<1>3. PICK j \in 1..Len(window) : window[j][q] = snap[q]
  BY <1>1, ScanSeen DEF TypeInv
<1>4. window[i] \in Snapshot /\ Descent(window[i], owner) /\ p \in Listed(window[i])
  BY <1>1, <1>2, WindowType, ListedIff DEF TypeInv, HistoryInv, Families
<1>5. q \in Listed(window[i]) /\ owner[snap[p].start] = owner[window[i][q].start]
  BY <1>1, <1>2, <1>4 DEF Descent
<1>6. window[i][q].start = window[j][q].start
  BY <1>1, <1>3, <1>4, <1>5, ListedIff DEF TypeInv, TableInv, OneHolder
<1> QED
  BY <1>3, <1>5, <1>6

(* What the first scan attributes to the target was started for it: on the *)
(* way up to the target's main process there is no other profile's main    *)
(* process, or the process would be that profile's.                        *)
LEMMA EvidenceOwned ==
    ASSUME TypeInv, HistoryInv, NEW snap \in SnapshotAll,
           Identifiable(snap), Mains(snap, Target) # {},
           NEW c \in ClaimOn(snap, Target).evidence
    PROVE  /\ \E p \in Listed(snap) : c = snap[p]
           /\ owner[c.start] = Target /\ c.dirs \subseteq {Target}
<1> DEFINE k == ClaimOn(snap, Target)
<1>1. snap \in Snapshot /\ Keyed(snap)
  BY ScanLemma DEF TypeInv
<1>2. /\ c \in {snap[p] : p \in Listed(snap)}
      /\ ~HasConflictingUserDataDir(c, Target)
      /\ ~IsForeignOwned(c, snap, k.others)
      /\ HasExactUserDataDir(c, Target) \/ HasAncestryTo(c, k.target, snap)
  BY DEF ClaimOn, CaptureOwnershipEvidence
<1>3. /\ k.target = MainOf(snap, Target)
      /\ k.others = [id \in Profile |->
                        IF id # Target /\ Mains(snap, id) # {}
                        THEN MainOf(snap, id) ELSE Absent]
  BY DEF ClaimOn
<1> HIDE DEF k
<1>4. PICK p \in Listed(snap) : c = snap[p]
  BY <1>2
<1>5. c \in Info /\ c.pid = p /\ c # Absent /\ c.dirs \subseteq {Target} /\ p \in Pid
  BY <1>1, <1>2, <1>4, ListedType DEF Keyed, HasConflictingUserDataDir
<1>6. PICK m \in Mains(snap, Target) : TRUE
  OBVIOUS
<1>7. k.target = snap[m] /\ m \in Listed(snap)
  BY <1>1, <1>3, SoleMain, TargetAssumption DEF Mains
<1>8. snap[m].dirs = {Target} /\ snap[m].pid = m
  BY <1>1, <1>7, ListedType DEF Mains, MatchesMainProcess, HasExactUserDataDir, Info, Keyed
<1>9. owner[snap[m].start] = Target
  BY <1>7, <1>8, NamedOwned, TargetAssumption
<1>10. CASE HasExactUserDataDir(c, Target)
  <2>1. c.dirs = {Target}
    BY <1>5, <1>10 DEF HasExactUserDataDir
  <2> QED
    BY <1>4, <1>5, <2>1, NamedOwned, TargetAssumption
<1>11. CASE HasAncestryTo(c, k.target, snap) /\ ~HasExactUserDataDir(c, Target)
  <2>1. c.dirs = {}
    BY <1>5, <1>11 DEF HasExactUserDataDir
  <2>2. m \in Ancestors(c, snap)
    <3>1. PICK q \in Ancestors(c, snap) : SameIdentity(snap[q], k.target)
      BY <1>1, <1>11, AncestryOnlyIf
    <3>2. q \in Listed(snap) /\ snap[q].pid = q
      BY <1>1, <3>1, ListedType DEF Ancestors, Keyed
    <3> QED
      BY <1>7, <1>8, <3>1, <3>2 DEF SameIdentity
  <2> DEFINE S == {q \in Listed(snap) : owner[snap[q].start] = owner[c.start]}
  <2> SUFFICES ASSUME owner[c.start] # Target PROVE FALSE
    BY <1>4, <1>5
  <2>3. c.ppid \in Listed(snap) => c.ppid \in S
    <3>1. ~Opened(c)
      BY <2>1 DEF Opened
    <3> QED
      BY <1>4, <3>1, ParentOwned
  <2>4. ASSUME NEW q \in S \cap Ancestors(c, snap), snap[q].ppid \in Listed(snap)
        PROVE  snap[q].ppid \in S
    <3>1. ~Opened(snap[q])
      <4> SUFFICES ASSUME NEW id \in Profile, snap[q].exe = MainExe, snap[q].dirs = {id}
                   PROVE  FALSE
        BY DEF Opened
      <4>1. id # Target
        BY <2>4, NamedOwned
      <4>2. q \in Mains(snap, id)
        BY <2>4 DEF Mains, MatchesMainProcess, HasExactUserDataDir
      <4>3. k.others[id] = snap[q] /\ snap[q] # Absent
        BY <1>1, <1>3, <2>4, <4>1, <4>2, SoleMain, ListedType
      <4>4. id \in Listed(k.others)
        BY <1>3, <4>3 DEF Listed
      <4>5. HasAncestryTo(c, snap[q], snap)
        BY <1>1, <1>4, <1>5, <2>4, AncestryIf DEF SameIdentity
      <4> QED
        BY <1>2, <4>3, <4>4, <4>5 DEF IsForeignOwned
    <3> QED
      BY <2>4, <3>1, ParentOwned
  <2> HIDE DEF S
  <2>5. Ancestors(c, snap) \subseteq S
    <3>1. c.ppid \in Pid \cup {Launchd}
      BY <1>5 DEF Info
    <3> QED
      BY <1>1, <2>3, <2>4, <3>1, AncestorsWithin
  <2> QED
    BY <1>9, <2>2, <2>5 DEF S
<1> QED
  BY <1>2, <1>10, <1>11

(* A residual, once no main process of the target is left: its own flag,   *)
(* the evidence of the first scan, or an ancestor that can only be a main  *)
(* process.                                                                *)
LEMMA ResidualOwned ==
    ASSUME TypeInv, OwnInv, Claimed, NEW snap \in SnapshotAll, Mains(snap, Target) = {},
           NEW c \in ClassifyResiduals(snap, claim)
    PROVE  /\ \E p \in Listed(snap) : c = snap[p]
           /\ owner[c.start] = Target /\ c.dirs \subseteq {Target}
           /\ ~MatchesMainProcess(c, Target)
<1>1. snap \in Snapshot /\ Keyed(snap) /\ claim \in Claim /\ claim.dir = Target
  BY ScanLemma DEF TypeInv, TypeOK, OwnInv, Claimed
<1>2. /\ c \in {snap[p] : p \in Listed(snap)}
      /\ ~HasConflictingUserDataDir(c, Target)
      /\ \/ HasExactUserDataDir(c, Target)
         \/ \E initial \in claim.evidence : SameIdentity(initial, c)
         \/ HasAncestryTo(c, claim.target, snap)
  BY <1>1 DEF ClassifyResiduals, IsTargetOwned
<1>3. PICK p \in Listed(snap) : c = snap[p]
  BY <1>2
<1>4. c.dirs \subseteq {Target}
  BY <1>2 DEF HasConflictingUserDataDir
<1>5. ~MatchesMainProcess(c, Target)
  BY <1>3 DEF Mains
<1>6. CASE HasExactUserDataDir(c, Target)
  <2>1. c.dirs = {Target}
    BY <1>4, <1>6 DEF HasExactUserDataDir
  <2> QED
    BY <1>3, <1>4, <1>5, <2>1, NamedOwned, TargetAssumption DEF OwnInv
<1>7. CASE \E initial \in claim.evidence : SameIdentity(initial, c)
  <2>1. PICK initial \in claim.evidence : SameIdentity(initial, c)
    BY <1>7
  <2>2. Ours(initial)
    BY <1>1 DEF OwnInv, Remembered, Claim
  <2> QED
    BY <1>3, <1>4, <1>5, <2>1, <2>2 DEF Ours, SameIdentity
<1>8. CASE HasAncestryTo(c, claim.target, snap)
  <2>1. PICK q \in Ancestors(c, snap) : SameIdentity(snap[q], claim.target)
    BY <1>1, <1>8, AncestryOnlyIf
  <2>2. q \in Listed(snap) /\ q \in Pid /\ snap[q] # Absent
    BY <1>1, <2>1, ListedType DEF Ancestors
  <2>3. PICK i \in 1..Len(window) : window[i][q] = snap[q]
    BY <2>2, ScanSeen DEF TypeInv
  <2>4. Became(claim.target, snap[q])
    <3>1. Known(claim.target)
      BY <1>1 DEF OwnInv, Remembered, Ours, Claim
    <3> QED
      BY <2>1, <2>2, <2>3, <3>1 DEF Known, SameIdentity
  <2>5. q \in Mains(snap, Target)
    BY <2>1, <2>2, <2>4 DEF OwnInv, Became, SameIdentity, Mains, MatchesMainProcess, HasExactUserDataDir
  <2> QED
    BY <2>5
<1> QED
  BY <1>2, <1>6, <1>7, <1>8

LEMMA OwnInit == Init => OwnInv
<1> SUFFICES ASSUME Init PROVE OwnInv
  OBVIOUS
<1>1. HistoryInv
  BY HistoryInit DEF Init
<1>2. ~Claimed /\ pending = {} /\ Hits = {}
  BY DEF Init, Claimed, Hits
<1> QED
  BY <1>1, <1>2 DEF OwnInv, Remembered

(* A step that remembers, finds and signals nothing new.                   *)
LEMMA OwnQuiet ==
    ASSUME TypeInv, OwnInv, [Next]_vars, UNCHANGED <<claim, sent>>,
           pending' \subseteq pending, Claimed' => Claimed
    PROVE  OwnInv'
<1>1. HistoryInv' /\ \A x : Ours(x) => Ours(x)'
  BY OursKept DEF OwnInv
<1>2. \A x \in Remembered' : Ours(x)'
  <2>1. Remembered' \subseteq Remembered
    BY DEF Remembered
  <2> QED
    BY <1>1, <2>1 DEF OwnInv
<1>3. \A c \in pending' : Ours(c)' /\ ~MatchesMainProcess(c, Target)
  BY <1>1 DEF OwnInv
<1>4. \A x \in Hits' : /\ Ours(x)'
                       /\ MatchesMainProcess(x, Target) => x.start = claim'.target.start
  <2>1. Hits' = Hits
    BY DEF Hits
  <2> QED
    BY <1>1, <2>1 DEF OwnInv
<1> QED
  BY <1>1, <1>2, <1>3, <1>4 DEF OwnInv

(* A step that sends a signal: its hit, which holds the id since before    *)
(* the window began, is what has become of the process it was meant for.   *)
LEMMA OwnSignal ==
    ASSUME TypeInv, SignalInv, OwnInv, [Next]_vars, Claimed,
           NEW signal \in {"TERM", "KILL"}, NEW meant \in Info,
           Deliver(signal, meant), window' = <<Table>>, owner' = owner,
           claim' = claim, pending' \subseteq pending,
           HeldBy(meant), Ours(meant),
           MatchesMainProcess(meant, Target) => meant = claim.target
    PROVE  OwnInv'
<1> DEFINE hit == Table[meant.pid]
<1>1. HistoryInv' /\ \A x : Ours(x) => Ours(x)'
  BY OursKept DEF OwnInv
<1>2. /\ hit # Absent /\ hit \in Info /\ meant.pid \in Pid
      /\ Len(window) \in 1..Len(window) /\ hit = window[Len(window)][meant.pid]
  BY LiveType, AbsentAssumption DEF TypeInv, Deliver, Table
<1>3. hit.start = meant.start
  <2>1. 1 \in 1..Len(window) /\ window[1][meant.pid] # Absent
        /\ window[1][meant.pid].start = meant.start
    BY <1>2 DEF HeldBy
  <2> QED
    BY <1>2, <2>1 DEF TypeInv, TableInv, OneHolder
<1>4. Became(meant, hit)
  BY <1>2, <1>3 DEF Ours, Known
<1>5. PICK x \in Info : x = hit
  BY <1>2
<1>6. Known(x)'
  BY <1>2, <1>5, SettleHistory DEF TypeInv, OwnInv
<1>7. Ours(x)'
  <2>1. owner'[x.start] = Target /\ x.dirs \subseteq {Target}
    BY <1>3, <1>4, <1>5 DEF Ours, Became
  <2> QED
    BY <1>6, <2>1 DEF Ours
<1>8. MatchesMainProcess(x, Target) => x.start = claim.target.start
  BY <1>3, <1>4, <1>5 DEF Became, MatchesMainProcess, HasExactUserDataDir
<1>9. Hits' \subseteq Hits \cup {x}
  <2>1. /\ sent' \in Seq(Delivery) /\ Len(sent') = Len(sent) + 1 /\ Len(sent) \in Nat
        /\ \A i \in 1..Len(sent) : sent'[i] = sent[i]
        /\ sent'[Len(sent) + 1] = [signal |-> signal, meant |-> meant, hit |-> hit]
    BY DeliverLemma, Zenon
  <2>2. DOMAIN sent' = 1..(Len(sent) + 1) /\ DOMAIN sent = 1..Len(sent)
    BY <2>1 DEF TypeInv, TypeOK
  <2>3. sent'[Len(sent) + 1].hit = x
    BY <1>5, <2>1
  <2> QED
    BY <2>1, <2>2, <2>3 DEF Hits
<1>10. \A c \in pending' : Ours(c)' /\ ~MatchesMainProcess(c, Target)
  BY <1>1 DEF OwnInv
<1>11. \A y \in Remembered' : Ours(y)'
  <2>1. Remembered' \subseteq Remembered
    BY DEF Remembered
  <2> QED
    BY <1>1, <2>1 DEF OwnInv
<1>12. \A y \in Hits' : /\ Ours(y)'
                        /\ MatchesMainProcess(y, Target) => y.start = claim'.target.start
  BY <1>1, <1>7, <1>8, <1>9 DEF OwnInv
<1>13. claim'.dir = Target /\ MatchesMainProcess(claim'.target, Target)
  BY DEF OwnInv
<1> QED
  BY <1>1, <1>10, <1>11, <1>12, <1>13 DEF OwnInv

(* The first scan settles the claim.                                       *)
LEMMA OwnIdentify ==
    ASSUME TypeInv, SignalInv, OwnInv, [Next]_vars, pc = "identify",
           NEW snap \in SnapshotAll, Identifiable(snap), Mains(snap, Target) # {},
           claim' = ClaimOn(snap, Target), Proceed("revalidate_term"),
           UNCHANGED <<pending, sent>>
    PROVE  OwnInv'
<1>1. HistoryInv' /\ \A x : Ours(x) => Ours(x)'
  BY OursKept DEF OwnInv
<1>2. snap \in Snapshot /\ window' = <<Table>> /\ owner' = owner
  BY ScanLemma DEF TypeInv, Proceed
<1>3. PICK m \in Mains(snap, Target) : TRUE
  OBVIOUS
<1>4. /\ m \in Listed(snap) /\ MatchesMainProcess(snap[m], Target)
      /\ claim'.target = snap[m] /\ claim'.dir = Target
  BY <1>2, SoleMain, TargetAssumption DEF Mains, ClaimOn
<1>5. snap[m].dirs = {Target}
  BY <1>2, <1>4, ListedType DEF MatchesMainProcess, HasExactUserDataDir, Info
<1>6. \A x : x = claim'.target => Ours(x)'
  <2> SUFFICES ASSUME NEW x, x = snap[m] PROVE Ours(x)'
    BY <1>4
  <2>1. Known(x)'
    BY <1>2, <1>4, ShownKnown DEF OwnInv
  <2>2. owner'[x.start] = Target
    BY <1>2, <1>4, <1>5, NamedOwned, TargetAssumption DEF OwnInv
  <2> QED
    BY <1>5, <2>1, <2>2 DEF Ours
<1>7. \A x \in claim'.evidence : Ours(x)'
  <2> SUFFICES ASSUME NEW x \in ClaimOn(snap, Target).evidence PROVE Ours(x)'
    OBVIOUS
  <2>1. /\ \E p \in Listed(snap) : x = snap[p]
        /\ owner[x.start] = Target /\ x.dirs \subseteq {Target}
    BY EvidenceOwned DEF OwnInv
  <2>2. Known(x)'
    BY <1>2, <2>1, ShownKnown DEF OwnInv
  <2> QED
    BY <1>2, <2>1, <2>2 DEF Ours
<1>8. pending' = {} /\ Hits' = {}
  BY DEF SignalInv, PhaseInv, PendingInv, Hits
<1> QED
  BY <1>1, <1>4, <1>6, <1>7, <1>8 DEF OwnInv, Remembered

LEMMA OwnNext == TypeInv /\ SignalInv /\ OwnInv /\ [Next]_vars => OwnInv'
<1> SUFFICES ASSUME TypeInv, SignalInv, OwnInv, [Next]_vars PROVE OwnInv'
  OBVIOUS
<1>1. /\ claim \in Claim \/ pc \in {"identify", "done"}
      /\ pending \subseteq Info
  BY DEF TypeInv, TypeOK
<1>2. ASSUME NEW r, Return(r) PROVE OwnInv'
  BY <1>2, OwnQuiet DEF Return, Claimed
<1>3. ASSUME NEW next, Proceed(next), pc \notin {"identify", "done"},
             UNCHANGED <<claim, pending, sent>>
      PROVE  OwnInv'
  BY <1>3, OwnQuiet DEF Claimed
<1>4. CASE RefuseRequest \/ ScanFails \/ SignalFails \/ FinalScan
  BY <1>2, <1>4 DEF RefuseRequest, ScanFails, SignalFails, FinalScan
<1>5. CASE Identify
  BY <1>2, <1>5, OwnIdentify DEF Identify
<1>6. CASE RevalidateMain
  BY <1>2, <1>3, <1>6 DEF RevalidateMain
<1>7. CASE SignalMain
  <2>1. Claimed /\ claim.target \in Info /\ HeldBy(claim.target)
    BY <1>1, <1>7 DEF SignalMain, Claim, SignalInv, ValidatedInv, Claimed
  <2>2. PICK signal \in {"TERM", "KILL"}, meant \in Info :
            meant = claim.target /\ Deliver(signal, meant)
    BY <1>7, <2>1 DEF SignalMain, Deliver
  <2>3. HeldBy(meant) /\ Ours(meant)
    BY <2>1, <2>2 DEF HeldBy, OwnInv, Remembered
  <2>4. /\ window' = <<Table>> /\ owner' = owner
        /\ claim' = claim /\ pending' = pending
    BY <1>7 DEF SignalMain, Proceed
  <2> QED
    BY <2>1, <2>2, <2>3, <2>4, OwnSignal
<1>8. CASE AwaitMain
  <2>1. pc \notin {"identify", "done"} /\ Claimed
    BY <1>8 DEF AwaitMain, Claimed
  <2>2. PICK snap \in SnapshotAll :
            LET mains == Cardinality(Mains(snap, Target)) IN
            \/ \E r : Return(r)
            \/ mains = 0 /\ MainGone(snap)
            \/ PollAgain
            \/ MainTimeout(snap)
    BY <1>8 DEF AwaitMain
  <2>3. CASE PollAgain
    BY <1>3, <2>1, <2>3 DEF PollAgain
  <2>4. CASE MainTimeout(snap)
    BY <1>2, <1>3, <2>1, <2>4 DEF MainTimeout
  <2>5. CASE Cardinality(Mains(snap, Target)) = 0 /\ MainGone(snap)
    <3>1. CASE \E r : Return(r)
      BY <1>2, <3>1
    <3>2. CASE Proceed("final") /\ UNCHANGED <<claim, pending, sent>>
      BY <1>3, <2>1, <3>2
    <3>3. CASE /\ pending' = ClassifyResiduals(snap, claim)
               /\ Proceed("rescan")
               /\ UNCHANGED <<claim, sent>>
      <4>1. Mains(snap, Target) = {}
        BY <2>5, NoMains DEF TypeInv
      <4>2. HistoryInv' /\ \A x : Ours(x) => Ours(x)'
        BY OursKept DEF OwnInv
      <4>3. \A c \in pending' : Ours(c)' /\ ~MatchesMainProcess(c, Target)
        <5> SUFFICES ASSUME NEW c \in ClassifyResiduals(snap, claim)
                     PROVE  Ours(c)' /\ ~MatchesMainProcess(c, Target)
          BY <3>3
        <5>1. /\ \E p \in Listed(snap) : c = snap[p]
              /\ owner[c.start] = Target /\ c.dirs \subseteq {Target}
              /\ ~MatchesMainProcess(c, Target)
          BY <2>1, <4>1, ResidualOwned
        <5>2. Known(c)' /\ owner' = owner
          BY <3>3, <5>1, ShownKnown DEF OwnInv, Proceed
        <5> QED
          BY <5>1, <5>2 DEF Ours
      <4>4. Remembered' = Remembered /\ Hits' = Hits
        BY <2>1, <3>3 DEF Remembered, Hits, Claimed, Proceed
      <4> QED
        BY <2>1, <3>3, <4>2, <4>3, <4>4 DEF OwnInv
    <3> QED
      BY <2>5, <3>1, <3>2, <3>3 DEF MainGone
  <2> QED
    BY <1>2, <2>2, <2>3, <2>4, <2>5
<1>9. CASE Rescan
  BY <1>2, <1>3, <1>9 DEF Rescan
<1>10. CASE RevalidateResidual
  BY <1>2, <1>3, <1>10 DEF RevalidateResidual
<1>11. CASE KillResidual
  <2>1. PICK c \in NextResidual :
            /\ Deliver("KILL", c)
            /\ pending' = pending \ {c}
            /\ \E next : Proceed(next)
            /\ UNCHANGED <<claim, fresh, polls>>
    BY <1>11 DEF KillResidual
  <2>2. c \in pending /\ c \in Info /\ HeldBy(c) /\ Claimed
    BY <1>1, <1>11 DEF NextResidual, KillResidual, SignalInv, ValidatedInv, Claimed
  <2>3. Ours(c) /\ ~MatchesMainProcess(c, Target)
    BY <2>2 DEF OwnInv
  <2>4. window' = <<Table>> /\ owner' = owner
    BY <2>1 DEF Proceed
  <2> QED
    BY <2>1, <2>2, <2>3, <2>4, OwnSignal
<1>12. CASE AwaitResiduals
  BY <1>2, <1>3, <1>12 DEF AwaitResiduals, PollAgain
<1>13. CASE World \/ UNCHANGED vars
  BY <1>13, OwnQuiet DEF World, vars, Claimed
<1> QED
  BY <1>4, <1>5, <1>6, <1>7, <1>8, <1>9, <1>10, <1>11, <1>12, <1>13
  DEF Next, Stop, Finished

LEMMA OwnInvariant == Spec => [](TypeInv /\ SignalInv /\ OwnInv)
<1>1. Init => TypeInv /\ SignalInv /\ OwnInv
  BY TypeInit, SignalInit, OwnInit
<1>2. TypeInv /\ SignalInv /\ OwnInv /\ [Next]_vars => (TypeInv /\ SignalInv /\ OwnInv)'
  BY TypeNext, SignalNext, OwnNext
<1> QED
  BY <1>1, <1>2, PTL DEF Spec

(* No signal reaches a process started for another profile or for none, or *)
(* one that names another directory: the exclusions of isTargetOwned and   *)
(* captureOwnershipEvidence, the identity checks before every signal and   *)
(* the rule that no main process may be left before a residual is killed   *)
(* are together enough, whatever a scan misses or reads at another moment. *)
THEOREM SignalsStayHome == Spec => []NoForeignSignal
<1>1. OwnInv => NoForeignSignal
  BY DEF OwnInv, Ours, Hits, NoForeignSignal
<1> QED
  BY <1>1, OwnInvariant, PTL

(* A main process of the profile that appears while it is being stopped    *)
(* receives no signal (forceResiduals refuses to go on beside one).        *)
THEOREM NewcomersSpared == Spec => []NewcomerSpared
<1>1. OwnInv => NewcomerSpared
  BY DEF OwnInv, Hits, NewcomerSpared
<1> QED
  BY <1>1, OwnInvariant, PTL

-----------------------------------------------------------------------------
(***************************************************************************)
(* What the first scan leaves behind: the claim was made on it; every      *)
(* process it showed is known; and one that still runs, and that launchd   *)
(* has not adopted, still has the parent the scan showed.                  *)
(***************************************************************************)
Kin(s) ==
    \A i \in 1..Len(window), p \in Listed(s) :
        (/\ window[i][p] # Absent /\ window[i][p].start = s[p].start
         /\ window[i][p].ppid # Launchd) =>
            /\ s[p].ppid \in Listed(s)
            /\ window[i][s[p].ppid] # Absent
            /\ window[i][s[p].ppid].start = s[s[p].ppid].start

FirstScan(s) ==
    /\ s \in Snapshot /\ Keyed(s)
    /\ Identifiable(s) /\ Mains(s, Target) # {}
    /\ claim = ClaimOn(s, Target)
    /\ \A x \in {s[p] : p \in Listed(s)} : Known(x)
    /\ ScanFaults = {} => Kin(s)

MemoryInv ==
    /\ Claimed => \E s : FirstScan(s)
    /\ pc = "identify" => claim = NoClaim
    /\ pc \in {"await_residuals", "final"} => Len(sent) >= 1

(* A scan that misses nothing shows a process beside its parent.           *)
LEMMA KinFirst ==
    ASSUME TypeInv, HistoryInv, ScanFaults = {}, NEW s \in SnapshotAll,
           window' = <<Table>>
    PROVE  Kin(s)'
<1>1. s \in Snapshot
  BY ScanLemma DEF TypeInv
<1>2. Len(window') = 1 /\ window'[1] = Table
  OBVIOUS
<1>3. PICK l \in DOMAIN window : s \in Scans(l)
  BY DEF SnapshotAll
<1>4. PICK at \in [Listed(window[l]) -> l..Len(window)] : s = ReadAt(at, Readable(l, at))
  BY <1>3 DEF Scans, ReadsMayFail
<1> DEFINE n == Len(window)
<1>5. /\ n \in Nat \ {0} /\ l \in 1..n /\ Table = window[n]
      /\ \A i \in 1..n : window[i] \in Snapshot
  BY WindowType DEF TypeInv
<1>6. \A p \in Pid : p \in Listed(s) =>
          /\ p \in Listed(window[l]) /\ at[p] \in l..n
          /\ s[p] = window[at[p]][p] /\ window[at[p]][p] # Absent
  BY <1>1, <1>4, <1>5, ListedIff DEF ReadAt, Readable
<1>7. \A p \in Listed(window[l]) : window[at[p]][p] # Absent => p \in Listed(s) /\ s[p] = window[at[p]][p]
  <2> SUFFICES ASSUME NEW p \in Listed(window[l]), window[at[p]][p] # Absent
               PROVE  p \in Listed(s) /\ s[p] = window[at[p]][p]
    OBVIOUS
  <2>1. p \in Pid /\ at[p] \in 1..n
    BY <1>4, <1>5, ListedIff
  <2>2. p \in Readable(l, at)
    BY <1>5, <2>1, ListedIff DEF Readable
  <2> QED
    BY <1>1, <1>4, <2>1, <2>2, ListedIff DEF ReadAt
<1> SUFFICES ASSUME NEW p \in Listed(s),
                    Table[p] # Absent, Table[p].start = s[p].start, Table[p].ppid # Launchd
             PROVE  /\ s[p].ppid \in Listed(s)
                    /\ Table[s[p].ppid] # Absent
                    /\ Table[s[p].ppid].start = s[s[p].ppid].start
  BY <1>2 DEF Kin
<1> DEFINE q == Table[p].ppid
<1> HIDE DEF n
<1>8. /\ p \in Pid /\ at[p] \in 1..n /\ n \in 1..n
      /\ window[l][p] # Absent /\ window[at[p]][p] # Absent
  BY <1>1, <1>5, <1>6, ListedIff
<1>9. /\ Became(window[at[p]][p], Table[p])
      /\ Became(window[l][p], Table[p])
  <2>1. window[l][p].start = window[at[p]][p].start
    BY <1>5, <1>8 DEF TypeInv, TableInv, OneHolder, n
  <2> QED
    BY <1>5, <1>6, <1>8, <2>1 DEF HistoryInv, Aging, n
<1>10. s[p].ppid = q /\ window[l][p].ppid = q
  BY <1>1, <1>6, <1>8, <1>9 DEF Became
<1>11. q \in Listed(Table) /\ q \in Listed(window[l]) /\ q \in Pid
  <2>1. Descent(Table, owner) /\ Descent(window[l], owner)
    BY <1>5, <1>8 DEF HistoryInv, Families, n
  <2>2. p \in Listed(Table) /\ p \in Listed(window[l])
    BY <1>5, <1>8, ListedIff
  <2>3. q \in Listed(Table) /\ q \in Listed(window[l])
    BY <1>10, <2>1, <2>2 DEF Descent
  <2> QED
    BY <1>5, <1>8, <2>3, ListedIff
<1>12. at[q] \in 1..n /\ window[at[q]][q] # Absent /\ window[n][q] # Absent
  <2>1. at[q] \in l..n
    BY <1>4, <1>11 DEF n
  <2>2. window[n][q] # Absent /\ window[l][q] # Absent
    BY <1>5, <1>11, ListedIff
  <2>3. at[q] \in 1..n /\ l <= at[q] /\ at[q] <= n
    BY <1>5, <2>1
  <2>4. window[at[q]][q] # Absent
    BY <1>5, <1>8, <1>11, <2>2, <2>3 DEF HistoryInv, Unbroken, n
  <2> QED
    BY <2>2, <2>3, <2>4
<1>13. q \in Listed(s) /\ s[q] = window[at[q]][q] /\ window[n][q] # Absent
  BY <1>7, <1>11, <1>12
<1>14. Table[q].start = s[q].start
  <2>1. window[n][q].start = window[at[q]][q].start
    BY <1>8, <1>11, <1>12 DEF TypeInv, TableInv, OneHolder, n
  <2> QED
    BY <1>5, <1>13, <2>1
<1> QED
  BY <1>5, <1>10, <1>13, <1>14

(* And it stays so: a new process takes no id of a parent that runs, and a *)
(* parent that ends leaves its children to launchd.                        *)
LEMMA KinKept ==
    ASSUME TypeInv, HistoryInv, [Next]_vars, NEW s \in Snapshot, Kin(s),
           \A x \in {s[p] : p \in Listed(s)} : Known(x)
    PROVE  Kin(s)'
<1>1. CASE UNCHANGED window
  BY <1>1 DEF Kin
<1>2. CASE window' = <<Table>>
  <2>1. Len(window') = 1 /\ window'[1] = window[Len(window)] /\ Len(window) \in 1..Len(window)
    BY <1>2, LiveType, WindowType DEF TypeInv
  <2> QED
    BY <2>1 DEF Kin
<1>3. CASE Environment
  <2>1. PICK T \in Snapshot : window' = Append(window, T) /\ Succeeds(T)
    BY <1>3, EnvironmentSucceeds DEF TypeInv
  <2> DEFINE n == Len(window)
  <2>2. /\ n \in Nat \ {0} /\ Table = window[n] /\ n \in 1..n
        /\ Len(window') = n + 1 /\ window'[n + 1] = T
        /\ \A i \in 1..n : window'[i] = window[i]
    BY <2>1, WindowType DEF TypeInv, TableInv, TableTypeOK
  <2>3. \A i \in 1..(n + 1) : i = n + 1 \/ i \in 1..n
    BY <2>2
  <2> HIDE DEF n
  <2>4. ASSUME NEW p \in Listed(s), T[p] # Absent, T[p].start = s[p].start,
               T[p].ppid # Launchd
        PROVE  /\ s[p].ppid \in Listed(s)
               /\ T[s[p].ppid] # Absent
               /\ T[s[p].ppid].start = s[s[p].ppid].start
    <3> DEFINE q == s[p].ppid
    <3>1. p \in Pid /\ Known(s[p])
      BY <2>4, ListedType
    <3>2. Table[p] # Absent /\ T[p].start = Table[p].start /\ Became(Table[p], T[p])
      <4>1. T[p].start \in 1..Len(owner) /\ Len(owner) \in Nat
        BY <2>4, <3>1, WindowType DEF Known, TypeInv
      <4> QED
        BY <2>1, <2>4, <3>1, <4>1 DEF Succeeds
    <3>3. Table[p].ppid = T[p].ppid
      BY <2>4, <3>2 DEF Became
    <3>4. /\ q \in Listed(s) /\ Table[q] # Absent /\ Table[q].start = s[q].start
      <4>1. /\ n \in 1..Len(window) /\ window[n][p] # Absent
            /\ window[n][p].start = s[p].start /\ window[n][p].ppid # Launchd
        BY <2>2, <2>4, <3>2, <3>3 DEF n
      <4>2. /\ q \in Listed(s) /\ window[n][q] # Absent
            /\ window[n][q].start = s[q].start
        BY <4>1 DEF Kin
      <4> QED
        BY <2>2, <4>2
    <3>5. Became(s[p], Table[p])
      <4>1. n \in 1..Len(window) /\ window[n][p] # Absent /\ window[n][p].start = s[p].start
        BY <2>2, <2>4, <3>2 DEF n
      <4>2. Became(s[p], window[n][p])
        BY <3>1, <4>1 DEF Known
      <4> QED
        BY <2>2, <4>2
    <3>6. T[p].ppid = q
      BY <2>4, <3>3, <3>5 DEF Became
    <3>7. q \in Pid /\ T[q] # Absent
      <4>1. p \in Listed(T)
        BY <2>1, <2>4, <3>1, ListedIff
      <4>2. q \in Listed(T)
        BY <2>1, <2>4, <3>6, <4>1 DEF Succeeds, Descent
      <4> QED
        BY <2>1, <4>2, ListedIff
    <3>8. T[q].start = Table[q].start
      BY <2>1, <2>2, <3>4, <3>7 DEF Succeeds, n
    <3> QED
      BY <3>4, <3>7, <3>8
  <2> QED
    BY <2>2, <2>3, <2>4 DEF Kin, n
<1> QED
  BY <1>1, <1>2, <1>3, TableMoves

LEMMA FirstKept ==
    ASSUME TypeInv, HistoryInv, [Next]_vars, claim' = claim, NEW s, FirstScan(s)
    PROVE  FirstScan(s)'
<1>1. \A x : Known(x) => Known(x)'
  BY OursKept
<1>2. ScanFaults = {} => Kin(s)'
  BY KinKept DEF FirstScan
<1> QED
  BY <1>1, <1>2 DEF FirstScan

LEMMA MemoryInit == Init => MemoryInv
BY DEF Init, MemoryInv, Claimed

LEMMA MemoryNext == TypeInv /\ SignalInv /\ OwnInv /\ MemoryInv /\ [Next]_vars => MemoryInv'
<1> SUFFICES ASSUME TypeInv, SignalInv, OwnInv, MemoryInv, [Next]_vars PROVE MemoryInv'
  OBVIOUS
<1> DEFINE Step == /\ claim' = claim
                   /\ Claimed' => Claimed
                   /\ pc' = "identify" => pc = "identify"
                   /\ pc' \in {"await_residuals", "final"} => Len(sent') >= 1
<1>1. ASSUME Step PROVE MemoryInv'
  <2>1. Claimed' => \E s : FirstScan(s)'
    BY <1>1, FirstKept DEF MemoryInv, OwnInv
  <2> QED
    BY <1>1, <2>1 DEF MemoryInv
<1>2. ASSUME NEW r, Return(r) PROVE Step
  BY <1>2 DEF Return, Claimed
<1>3. ASSUME NEW next \in {"term", "kill", "await_term", "await_kill", "revalidate_kill",
                           "rescan", "revalidate_residual", "kill_residual"},
             Proceed(next), Claimed, claim' = claim
      PROVE  Step
  BY <1>3 DEF Proceed, Claimed
<1>4. ASSUME NEW next \in {"await_residuals", "final"},
             Proceed(next), Claimed, claim' = claim, Len(sent') >= 1
      PROVE  Step
  BY <1>4 DEF Proceed, Claimed
<1>5. ASSUME NEW signal \in {"TERM", "KILL"}, NEW meant \in Info, Deliver(signal, meant)
      PROVE  Len(sent') >= 1
  <2>1. Len(sent') = Len(sent) + 1 /\ Len(sent) \in Nat
    BY <1>5, DeliverLemma, Zenon
  <2> QED
    BY <2>1
<1>6. CASE RefuseRequest \/ ScanFails \/ SignalFails \/ FinalScan
  <2>1. \E r : Return(r)
    BY <1>6 DEF RefuseRequest, ScanFails, SignalFails, FinalScan
  <2> QED
    BY <1>1, <1>2, <2>1
<1>7. CASE Identify
  <2>1. PICK snap \in SnapshotAll :
            \/ \E r : Return(r)
            \/ /\ Identifiable(snap) /\ Mains(snap, Target) # {}
               /\ claim' = ClaimOn(snap, Target)
               /\ Proceed("revalidate_term")
    BY <1>7 DEF Identify
  <2>2. CASE /\ Identifiable(snap) /\ Mains(snap, Target) # {}
             /\ claim' = ClaimOn(snap, Target)
             /\ Proceed("revalidate_term")
    <3>1. snap \in Snapshot /\ Keyed(snap) /\ window' = <<Table>> /\ owner' = owner
      BY <2>2, ScanLemma DEF TypeInv, Proceed
    <3>2. \A x \in {snap[p] : p \in Listed(snap)} : Known(x)'
      BY <3>1, ShownKnown DEF OwnInv
    <3>3. ScanFaults = {} => Kin(snap)'
      BY <3>1, KinFirst DEF OwnInv
    <3>4. FirstScan(snap)'
      BY <2>2, <3>1, <3>2, <3>3 DEF FirstScan
    <3> QED
      BY <2>2, <3>4 DEF MemoryInv, Proceed
  <2> QED
    BY <1>1, <1>2, <2>1, <2>2
<1>8. CASE RevalidateMain
  <2>1. Claimed
    BY <1>8 DEF RevalidateMain, Claimed
  <2>2. Step
    BY <1>2, <1>3, <1>8, <2>1 DEF RevalidateMain
  <2> QED
    BY <1>1, <2>2
<1>9. CASE SignalMain
  <2>1. Step
    BY <1>3, <1>9 DEF SignalMain, Claimed
  <2> QED
    BY <1>1, <2>1
<1>10. CASE AwaitMain
  <2>1. Claimed /\ pc \in {"await_term", "await_kill"} /\ Len(sent) >= 1
    BY <1>10 DEF AwaitMain, Claimed, SignalInv, PhaseInv
  <2>2. PICK snap \in SnapshotAll :
            \/ \E r : Return(r)
            \/ MainGone(snap)
            \/ PollAgain
            \/ MainTimeout(snap)
    BY <1>10 DEF AwaitMain
  <2>3. ASSUME MainGone(snap) PROVE Step
    <3>1. CASE \E r : Return(r)
      BY <1>2, <3>1
    <3>2. CASE Proceed("final") /\ claim' = claim /\ sent' = sent
      BY <1>4, <2>1, <3>2
    <3>3. CASE Proceed("rescan") /\ claim' = claim
      BY <1>3, <2>1, <3>3
    <3> QED
      BY <2>3, <3>1, <3>2, <3>3 DEF MainGone
  <2>4. ASSUME PollAgain PROVE Step
    BY <2>1, <2>4 DEF PollAgain, Proceed
  <2>5. ASSUME MainTimeout(snap) PROVE Step
    <3>1. CASE \E r : Return(r)
      BY <1>2, <3>1
    <3>2. CASE Proceed("revalidate_kill") /\ claim' = claim
      BY <1>3, <2>1, <3>2
    <3> QED
      BY <2>5, <3>1, <3>2 DEF MainTimeout
  <2>6. Step
    <3> HIDE DEF Step
    <3> QED
      BY <1>2, <2>2, <2>3, <2>4, <2>5
  <2> QED
    BY <1>1, <2>6
<1>11. CASE Rescan
  <2>1. Step
    BY <1>2, <1>3, <1>11 DEF Rescan, Claimed
  <2> QED
    BY <1>1, <2>1
<1>12. CASE RevalidateResidual
  <2>1. Step
    BY <1>2, <1>3, <1>12 DEF RevalidateResidual, Claimed
  <2> QED
    BY <1>1, <2>1
<1>13. CASE KillResidual
  <2>1. PICK c \in NextResidual :
            /\ Deliver("KILL", c)
            /\ Proceed(IF pending' = {} THEN "await_residuals" ELSE "rescan")
            /\ claim' = claim
    BY <1>13 DEF KillResidual
  <2>2. c \in Info
    BY DEF NextResidual, TypeInv, TypeOK
  <2>3. Len(sent') >= 1
    BY <1>5, <2>1, <2>2
  <2>4. Step
    BY <1>3, <1>4, <1>13, <2>1, <2>3 DEF KillResidual, Claimed
  <2> QED
    BY <1>1, <2>4
<1>14. CASE AwaitResiduals
  <2>1. Claimed /\ Len(sent) >= 1
    BY <1>14 DEF AwaitResiduals, Claimed, MemoryInv
  <2>2. Step
    BY <1>2, <1>4, <1>14, <2>1 DEF AwaitResiduals, PollAgain
  <2> QED
    BY <1>1, <2>2
<1>15. CASE World \/ UNCHANGED vars
  <2>1. Step
    BY <1>15 DEF World, vars, Claimed, MemoryInv
  <2> QED
    BY <1>1, <2>1
<1> HIDE DEF Step
<1> QED
  BY <1>6, <1>7, <1>8, <1>9, <1>10, <1>11, <1>12, <1>13, <1>14, <1>15
  DEF Next, Stop, Finished

(* The others of the claim, as the first scan showed them.                 *)
LEMMA OthersFirst ==
    ASSUME NEW s, FirstScan(s)
    PROVE  /\ claim.others \in [Profile -> Info \cup {Absent}]
           /\ claim.others[Target] = Absent
           /\ claim.dir = Target
           /\ \E m \in Mains(s, Target) : claim.target = s[m]
           /\ \A id \in Profile \ {Target} :
                  \/ claim.others[id] = Absent /\ Mains(s, id) = {}
                  \/ \E m \in Mains(s, id) : claim.others[id] = s[m]
<1>1. s \in Snapshot /\ claim = ClaimOn(s, Target) /\ Mains(s, Target) # {}
  BY DEF FirstScan
<1>2. /\ claim.target = MainOf(s, Target) /\ claim.dir = Target
      /\ claim.others = [id \in Profile |->
                            IF id # Target /\ Mains(s, id) # {}
                            THEN MainOf(s, id) ELSE Absent]
  BY <1>1 DEF ClaimOn
<1>3. \A id \in Profile : Mains(s, id) # {} => MainOf(s, id) \in Info
                                             /\ \E m \in Mains(s, id) : MainOf(s, id) = s[m]
  BY <1>1, MainOfLemma DEF MainOf
<1> QED
  BY <1>1, <1>2, <1>3, TargetAssumption

-----------------------------------------------------------------------------
(* What a scan that misses nothing says of the time it took. *)

(* Where it classifies no residual, no process of the bundle that names    *)
(* the target alone and has no parent but launchd lasted.                  *)
NamedOrphan(info) ==
    info.exe \in Bundle /\ info.dirs = {Target} /\ info.ppid = Launchd

LEMMA NoneNamed ==
    ASSUME TypeInv, ScanFaults = {}, NEW s, FirstScan(s),
           NEW snap \in SnapshotAll, ClassifyResiduals(snap, claim) = {},
           NEW p \in Pid \ {claim.target.pid}
    PROVE  \E i \in DOMAIN window :
               ~(p \in Listed(window[i]) /\ NamedOrphan(window[i][p]))
<1> SUFFICES ASSUME \A i \in DOMAIN window :
                        p \in Listed(window[i]) /\ NamedOrphan(window[i][p])
             PROVE  FALSE
  OBVIOUS
<1> DEFINE c == snap[p]
<1>1. snap \in Snapshot /\ Keyed(snap)
  BY ScanLemma DEF TypeInv
<1>2. PICK i \in 1..Len(window) : c = window[i][p]
  BY ScanComplete DEF TypeInv
<1>3. /\ i \in DOMAIN window /\ window[i] \in Snapshot
  BY WindowType DEF TypeInv
<1>4. p \in Listed(snap) /\ c # Absent /\ NamedOrphan(c)
  BY <1>1, <1>2, <1>3, ListedIff
<1>5. c.pid = p /\ c \in Info
  BY <1>1, <1>4, ListedType DEF Keyed
<1>6. ~IsForeignOwned(c, snap, claim.others)
  <2> SUFFICES ASSUME NEW id \in Listed(claim.others),
                      \/ c.ppid = claim.others[id].pid
                      \/ HasExactUserDataDir(c, id)
                      \/ HasAncestryTo(c, claim.others[id], snap)
               PROVE  FALSE
    BY DEF IsForeignOwned
  <2>1. id \in Profile /\ id # Target /\ claim.others[id] \in Info
    BY OthersFirst DEF Listed
  <2>2. c.ppid # claim.others[id].pid
    BY <1>4, <2>1, PidAssumption DEF NamedOrphan, Info
  <2>3. ~HasExactUserDataDir(c, id)
    BY <1>4, <2>1 DEF NamedOrphan, HasExactUserDataDir
  <2>4. Ancestors(c, snap) \subseteq {}
    <3>1. c.ppid \notin Listed(snap)
      BY <1>1, <1>4, ListedType DEF NamedOrphan
    <3> QED
      BY <1>1, <1>4, <3>1, AncestorsWithin DEF NamedOrphan
  <2>5. ~HasAncestryTo(c, claim.others[id], snap)
    BY <1>1, <2>4, AncestryOnlyIf
  <2> QED
    BY <2>2, <2>3, <2>5
<1>7. IsTargetOwned(c, snap, claim)
  BY <1>4, <1>5, <1>6, OthersFirst
  DEF IsTargetOwned, NamedOrphan, HasConflictingUserDataDir, HasExactUserDataDir
<1> QED
  BY <1>4, <1>7 DEF ClassifyResiduals

(* Nor did a process that the first scan attributed to the target: whoever *)
(* has adopted it since, it has no ancestor it did not have then, so that  *)
(* it has not become a neighbour's.                                        *)
LEMMA StillKin ==
    ASSUME TypeInv, ScanFaults = {}, NEW s, FirstScan(s),
           NEW snap \in SnapshotAll, NEW p \in Listed(snap), p \in Listed(s),
           snap[p].start = s[p].start, snap[p].ppid \in Listed(snap)
    PROVE  LET q == snap[p].ppid IN
           q = s[p].ppid /\ q \in Listed(s) /\ snap[q].start = s[q].start
<1> DEFINE q == snap[p].ppid
<1>1. /\ snap \in Snapshot /\ s \in Snapshot /\ p \in Pid /\ q \in Pid
      /\ snap[p] # Absent /\ snap[q] # Absent /\ q # Launchd
  BY ScanLemma, ListedType DEF TypeInv, FirstScan
<1>2. PICK i \in 1..Len(window) : window[i][p] = snap[p]
  BY <1>1, ScanSeen DEF TypeInv
<1>3. PICK j \in 1..Len(window) : window[j][q] = snap[q]
  BY <1>1, ScanSeen DEF TypeInv
<1>4. Became(s[p], snap[p])
  BY <1>1, <1>2 DEF FirstScan, Known
<1>5. q = s[p].ppid
  BY <1>1, <1>4 DEF Became
<1>6. /\ q \in Listed(s) /\ window[i][q] # Absent /\ window[i][q].start = s[q].start
  BY <1>1, <1>2, <1>5 DEF FirstScan, Kin
<1>7. window[i][q].start = snap[q].start
  BY <1>1, <1>3, <1>6 DEF TypeInv, TableInv, OneHolder
<1> QED
  BY <1>5, <1>6, <1>7

LEMMA NoneOwned ==
    ASSUME TypeInv, ScanFaults = {}, NEW s, FirstScan(s),
           NEW snap \in SnapshotAll, ClassifyResiduals(snap, claim) = {},
           NEW e \in claim.evidence
    PROVE  \E i \in DOMAIN window :
               e.pid \in Listed(window[i]) => ~SameIdentity(e, window[i][e.pid])
<1> SUFFICES ASSUME \A i \in DOMAIN window : /\ e.pid \in Listed(window[i])
                                             /\ SameIdentity(e, window[i][e.pid])
             PROVE  FALSE
  OBVIOUS
<1> DEFINE p == e.pid
           c == snap[p]
<1>1. snap \in Snapshot /\ Keyed(snap) /\ s \in Snapshot /\ Keyed(s)
  BY ScanLemma DEF TypeInv, FirstScan
<1>2. /\ e \in {s[q] : q \in Listed(s)}
      /\ e.pid # claim.target.pid /\ e.exe \in Bundle
      /\ ~HasConflictingUserDataDir(e, Target)
      /\ ~IsForeignOwned(e, s, claim.others)
  BY DEF FirstScan, ClaimOn, CaptureOwnershipEvidence
<1>3. /\ p \in Listed(s) /\ p \in Pid /\ e = s[p] /\ Known(e)
  BY <1>1, <1>2, ListedType DEF FirstScan, Keyed
<1>4. PICK i \in 1..Len(window) : c = window[i][p]
  BY <1>3, ScanComplete DEF TypeInv
<1>5. i \in DOMAIN window /\ window[i] \in Snapshot
  BY WindowType DEF TypeInv
<1>6. p \in Listed(snap) /\ SameIdentity(e, c)
  BY <1>1, <1>3, <1>4, <1>5, ListedIff
<1> HIDE DEF p
<1>7. Became(e, c) /\ c.dirs = e.dirs /\ c.exe = e.exe /\ c.start = e.start
  <2>1. Became(e, c)
    BY <1>1, <1>3, <1>4, <1>6, ListedType DEF Known, SameIdentity
  <2> QED
    BY <1>2, <1>6, <2>1 DEF Became, SameIdentity
<1>8. Ancestors(c, snap) \subseteq
          {q \in Ancestors(e, s) : q \in Listed(snap) /\ snap[q].start = s[q].start}
  <2> DEFINE S == {q \in Ancestors(e, s) : q \in Listed(snap) /\ snap[q].start = s[q].start}
  <2>1. c.ppid \in Pid \cup {Launchd}
    BY <1>1, <1>6, ListedType DEF Info
  <2>2. c.ppid \in Listed(snap) => c.ppid \in S
    <3> SUFFICES ASSUME c.ppid \in Listed(snap) PROVE c.ppid \in S
      OBVIOUS
    <3>1. c.ppid = s[p].ppid /\ c.ppid \in Listed(s) /\ snap[c.ppid].start = s[c.ppid].start
      BY <1>3, <1>6, <1>7, StillKin
    <3>2. c.ppid \in Ancestors(e, s)
      BY <1>1, <1>3, <3>1, AncestorsClosed
    <3> QED
      BY <3>1, <3>2
  <2>3. ASSUME NEW q \in S \cap Ancestors(c, snap), snap[q].ppid \in Listed(snap)
        PROVE  snap[q].ppid \in S
    <3>1. q \in Listed(s) /\ q \in Listed(snap) /\ snap[q].start = s[q].start
      BY DEF Ancestors
    <3>2. /\ snap[q].ppid = s[q].ppid /\ snap[q].ppid \in Listed(s)
          /\ snap[snap[q].ppid].start = s[snap[q].ppid].start
      BY <2>3, <3>1, StillKin
    <3>3. snap[q].ppid \in Ancestors(e, s)
      BY <1>1, <2>3, <3>2, AncestorsClosed
    <3> QED
      BY <2>3, <3>2, <3>3
  <2> HIDE DEF S
  <2>4. Ancestors(c, snap) \subseteq S
    BY <1>1, <2>1, <2>2, <2>3, AncestorsWithin
  <2> QED
    BY <2>4 DEF S
<1>9. ~IsForeignOwned(c, snap, claim.others)
  <2> SUFFICES ASSUME NEW id \in Listed(claim.others),
                      \/ c.ppid = claim.others[id].pid
                      \/ HasExactUserDataDir(c, id)
                      \/ HasAncestryTo(c, claim.others[id], snap)
               PROVE  FALSE
    BY DEF IsForeignOwned
  <2> DEFINE o == claim.others[id]
  <2>1. /\ id \in Profile /\ id # Target /\ o \in Info
        /\ \E m \in Mains(s, id) : o = s[m]
    BY OthersFirst DEF Listed
  <2>2. /\ e.ppid # o.pid /\ ~HasExactUserDataDir(e, id) /\ ~HasAncestryTo(e, o, s)
    BY <1>2 DEF IsForeignOwned
  <2>3. c.ppid # o.pid
    BY <1>7, <2>1, <2>2, PidAssumption DEF Became, Info
  <2>4. ~HasExactUserDataDir(c, id)
    BY <1>7, <2>2 DEF HasExactUserDataDir
  <2>5. ~HasAncestryTo(c, o, snap)
    <3> SUFFICES ASSUME HasAncestryTo(c, o, snap) PROVE FALSE
      OBVIOUS
    <3>1. PICK q \in Ancestors(c, snap) : SameIdentity(snap[q], o)
      BY <1>1, AncestryOnlyIf
    <3>2. /\ q \in Ancestors(e, s) /\ q \in Listed(s) /\ q \in Listed(snap)
          /\ snap[q].start = s[q].start /\ q \in Pid
      BY <1>1, <1>8, ListedType DEF Ancestors
    <3>3. PICK j \in 1..Len(window) : window[j][q] = snap[q]
      BY <1>1, <3>2, ListedType, ScanSeen DEF TypeInv
    <3>4. Became(s[q], snap[q])
      BY <1>1, <3>2, <3>3, ListedType DEF FirstScan, Known
    <3>5. o.exe = MainExe
      <4>1. PICK m \in Mains(s, id) : o = s[m]
        BY <2>1
      <4>2. s[m].exe = MainExe
        BY DEF Mains, MatchesMainProcess
      <4> QED
        BY <4>1, <4>2
    <3>6. SameIdentity(s[q], o)
      BY <3>1, <3>2, <3>4, <3>5 DEF Became, SameIdentity
    <3> QED
      BY <1>1, <1>3, <2>2, <3>2, <3>6, AncestryIf DEF p
  <2> QED
    BY <2>3, <2>4, <2>5
<1>10. IsTargetOwned(c, snap, claim)
  <2>1. claim.dir = Target /\ c.pid # claim.target.pid /\ c.exe \in Bundle
    BY <1>2, <1>6, OthersFirst DEF SameIdentity
  <2>2. ~HasConflictingUserDataDir(c, Target)
    BY <1>2, <1>7 DEF HasConflictingUserDataDir
  <2> QED
    BY <1>6, <1>9, <2>1, <2>2 DEF IsTargetOwned
<1> QED
  BY <1>6, <1>10 DEF ClassifyResiduals

(* A neighbour that a scan finds intact was so when the window began,      *)
(* whatever the scan misses.                                               *)
LEMMA NeighboursLasted ==
    ASSUME TypeInv, NEW s, FirstScan(s), NEW snap \in SnapshotAll,
           OthersIntact(snap, claim.others), NEW id \in Listed(claim.others)
    PROVE  LET before == claim.others[id] IN
           /\ before.pid \in Mains(window[1], id)
           /\ SameIdentity(before, window[1][before.pid])
<1> DEFINE o == claim.others[id]
<1>1. snap \in Snapshot
  BY ScanLemma DEF TypeInv
<1>2. PICK p \in Listed(snap) : SameIdentity(o, snap[p])
  BY DEF OthersIntact
<1>3. /\ id \in Profile /\ id # Target /\ o # Absent
  BY OthersFirst DEF Listed
<1>4. PICK m \in Mains(s, id) : o = s[m]
  BY <1>3, OthersFirst
<1>5. Known(o) /\ MatchesMainProcess(o, id)
  BY <1>4 DEF FirstScan, Mains
<1>6. p \in Pid /\ snap[p] # Absent
  BY <1>1, ListedType
<1>7. PICK i \in 1..Len(window) : window[i][p] = snap[p]
  BY <1>6, ScanSeen DEF TypeInv
<1>8. window[1][p] # Absent /\ window[1][p].start = o.start
  BY <1>2, <1>5, <1>6, <1>7 DEF Known, SameIdentity
<1>9. 1 \in 1..Len(window) /\ window[1] \in Snapshot
  BY WindowType DEF TypeInv
<1>10. Became(o, window[1][p]) /\ window[1][p].pid = p
  BY <1>5, <1>6, <1>8, <1>9 DEF Known, TypeInv, TableInv, Keyed
<1>11. o.pid = p /\ SameIdentity(o, window[1][p]) /\ MatchesMainProcess(window[1][p], id)
  BY <1>5, <1>8, <1>10 DEF Became, SameIdentity, MatchesMainProcess, HasExactUserDataDir
<1> QED
  BY <1>6, <1>8, <1>9, <1>11, ListedIff DEF Mains

-----------------------------------------------------------------------------
(***************************************************************************)
(* The answers.  Nothing happens after one, so that what its scan said of  *)
(* its time stays said.                                                    *)
(***************************************************************************)
ContractInv == TypeInv /\ SignalInv /\ OwnInv /\ MemoryInv

LEMMA ContractInvariant == Spec => []ContractInv
<1>1. Init => ContractInv
  BY TypeInit, SignalInit, OwnInit, MemoryInit DEF ContractInv
<1>2. ContractInv /\ [Next]_vars => ContractInv'
  BY TypeNext, SignalNext, OwnNext, MemoryNext DEF ContractInv
<1> QED
  BY <1>1, <1>2, PTL DEF Spec

(* The kinds of steps a stop takes, as the contract sees them.             *)
Fails ==
    /\ pc # "done"
    /\ \E r \in Results \ {"ok", "not_running"} : Return(r)

FindsNothing ==
    /\ pc = "identify" /\ Return("not_running")
    /\ \E snap \in SnapshotAll : Mains(snap, Target) = {}

FinalOk ==
    /\ pc = "final" /\ Return("ok")
    /\ \E snap \in SnapshotAll :
           /\ Mains(snap, Target) = {}
           /\ ClassifyResiduals(snap, claim) = {}
           /\ OthersIntact(snap, claim.others)

Acts == window' = <<Table>> /\ UNCHANGED <<owner, force, result>>

GoesOn == Claimed /\ Acts /\ UNCHANGED <<claim, sent>>

Claims ==
    /\ pc = "identify" /\ Acts /\ UNCHANGED sent
    /\ \E snap \in SnapshotAll :
           /\ Identifiable(snap) /\ Mains(snap, Target) # {}
           /\ claim' = ClaimOn(snap, Target)

Signals ==
    /\ Claimed /\ Acts /\ UNCHANGED claim
    /\ \E signal \in {"TERM", "KILL"}, meant \in Info : Deliver(signal, meant)

LEMMA StepKinds ==
    ASSUME TypeInv, [Next]_vars
    PROVE  Fails \/ FindsNothing \/ FinalOk \/ GoesOn \/ Claims \/ Signals
           \/ World \/ UNCHANGED vars
<1>1. claim \in Claim \/ ~Claimed
  BY DEF TypeInv, TypeOK, Claimed
<1>2. ASSUME NEW r \in Results \ {"ok", "not_running"}, Return(r), pc # "done"
      PROVE  Fails
  BY <1>2 DEF Fails
<1>3. {"invalid", "scan", "ambiguous", "identity", "signal", "timeout", "residual", "affected"}
          \subseteq Results \ {"ok", "not_running"}
  BY DEF Results
<1>4. ASSUME NEW next, Proceed(next) PROVE Acts
  BY <1>4 DEF Proceed, Acts
<1>5. CASE RefuseRequest \/ ScanFails \/ SignalFails
  BY <1>2, <1>3, <1>5 DEF RefuseRequest, ScanFails, SignalFails, Scanning
<1>6. CASE Identify
  BY <1>2, <1>3, <1>4, <1>6 DEF Identify, FindsNothing, Claims
<1>7. CASE RevalidateMain
  BY <1>2, <1>3, <1>4, <1>7 DEF RevalidateMain, GoesOn, Claimed
<1>8. CASE SignalMain
  <2>1. Claimed /\ claim.target \in Info
    BY <1>1, <1>8 DEF SignalMain, Claimed, Claim
  <2>2. \E signal \in {"TERM", "KILL"}, meant \in Info : Deliver(signal, meant)
    BY <1>8, <2>1 DEF SignalMain, Deliver
  <2> QED
    BY <1>4, <1>8, <2>1, <2>2 DEF SignalMain, Signals
<1>9. CASE AwaitMain
  <2>1. Claimed /\ pc # "done"
    BY <1>9 DEF AwaitMain, Claimed
  <2> QED
    BY <1>2, <1>3, <1>9, <2>1
    DEF AwaitMain, MainGone, PollAgain, MainTimeout, GoesOn, Proceed, Acts
<1>10. CASE Rescan
  BY <1>2, <1>3, <1>4, <1>10 DEF Rescan, GoesOn, Claimed
<1>11. CASE RevalidateResidual
  BY <1>2, <1>3, <1>4, <1>11 DEF RevalidateResidual, GoesOn, Claimed
<1>12. CASE KillResidual
  <2>1. Claimed /\ NextResidual \subseteq Info
    BY <1>12 DEF KillResidual, Claimed, NextResidual, TypeInv, TypeOK
  <2> QED
    BY <1>4, <1>12, <2>1 DEF KillResidual, Signals
<1>13. CASE AwaitResiduals
  <2>1. Claimed /\ pc # "done"
    BY <1>13 DEF AwaitResiduals, Claimed
  <2> QED
    BY <1>2, <1>3, <1>13, <2>1 DEF AwaitResiduals, PollAgain, GoesOn, Proceed, Acts
<1>14. CASE FinalScan
  BY <1>2, <1>3, <1>14, NoMains DEF FinalScan, FinalOk, TypeInv
<1> QED
  BY <1>5, <1>6, <1>7, <1>8, <1>9, <1>10, <1>11, <1>12, <1>13, <1>14
  DEF Next, Stop, Finished

DoneInv == result = "none" \/ pc = "done"

LEMMA DoneNext ==
    ASSUME TypeInv, DoneInv, [Next]_vars
    PROVE  DoneInv'
<1>1. CASE Fails \/ FindsNothing \/ FinalOk
  BY <1>1 DEF Fails, FindsNothing, FinalOk, Return, DoneInv
<1>2. CASE GoesOn \/ Claims \/ Signals \/ World
  BY <1>2 DEF GoesOn, Claims, Signals, World, Claimed, Acts, DoneInv
<1>3. CASE UNCHANGED vars
  BY <1>3 DEF vars, DoneInv
<1> QED
  BY <1>1, <1>2, <1>3, StepKinds

LEMMA DoneInvariant == Spec => [](ContractInv /\ DoneInv)
<1>1. Init => DoneInv
  BY DEF Init, DoneInv
<1>2. ContractInv /\ DoneInv /\ [Next]_vars => DoneInv'
  BY DoneNext DEF ContractInv
<1> QED
  BY <1>1, <1>2, ContractInvariant, PTL DEF Spec

(* What is said of the answers "ok" and "not_running" stays true once it   *)
(* has become true with the answer.                                        *)
LEMMA AnswerStep ==
    ASSUME ContractInv, DoneInv, [Next]_vars, result' \in {"ok", "not_running"}
    PROVE  \/ UNCHANGED vars
           \/ FindsNothing /\ result' = "not_running"
           \/ FinalOk /\ result' = "ok" /\ \E s : FirstScan(s)
<1>1. CASE Fails \/ FindsNothing \/ UNCHANGED vars
  BY <1>1 DEF Fails, FindsNothing, Return
<1>2. CASE FinalOk
  BY <1>2 DEF FinalOk, Return, ContractInv, MemoryInv, Claimed
<1>3. CASE GoesOn \/ Claims \/ Signals \/ World
  BY <1>3 DEF GoesOn, Claims, Signals, World, Claimed, Acts, DoneInv
<1> QED
  BY <1>1, <1>2, <1>3, StepKinds DEF ContractInv

(* When no read fails silently and Stop reports the profile stopped, or    *)
(* not running, nothing was a main process of it all through the deciding  *)
(* scan (verifyFinalState, and the first scan of Stop).                    *)
THEOREM AbsenceTrue ==
    ASSUME ScanFaults = {}
    PROVE  Spec => []ReportedAbsent
<1>1. Init => ReportedAbsent
  BY DEF Init, ReportedAbsent
<1>2. ContractInv /\ DoneInv /\ ReportedAbsent /\ [Next]_vars => ReportedAbsent'
  <2> SUFFICES ASSUME ContractInv, DoneInv, ReportedAbsent, [Next]_vars,
                      result' \in {"ok", "not_running"}
               PROVE  ReportedAbsent'
    BY DEF ReportedAbsent
  <2>1. CASE UNCHANGED vars
    BY <2>1 DEF vars, ReportedAbsent
  <2>2. CASE FindsNothing \/ FinalOk
    <3>1. \A p \in Pid : \E i \in DOMAIN window : p \notin Mains(window[i], Target)
      BY <2>2, NoneLasting, TargetAssumption DEF FindsNothing, FinalOk, ContractInv, TypeInv
    <3> QED
      BY <2>2, <3>1 DEF FindsNothing, FinalOk, Return, ReportedAbsent
  <2> QED
    BY <2>1, <2>2, AnswerStep
<1> QED
  BY <1>1, <1>2, DoneInvariant, PTL DEF Spec

(* Nor was a process of the bundle that names the profile alone and that   *)
(* launchd had adopted, whenever it was started (classifyResiduals in the  *)
(* final scan).                                                            *)
THEOREM NamedGone ==
    ASSUME ScanFaults = {}
    PROVE  Spec => []SuccessLeavesNoNamed
<1>1. Init => SuccessLeavesNoNamed
  BY DEF Init, SuccessLeavesNoNamed
<1>2. ContractInv /\ DoneInv /\ SuccessLeavesNoNamed /\ [Next]_vars => SuccessLeavesNoNamed'
  <2> SUFFICES ASSUME ContractInv, DoneInv, SuccessLeavesNoNamed, [Next]_vars, result' = "ok"
               PROVE  SuccessLeavesNoNamed'
    BY DEF SuccessLeavesNoNamed
  <2>1. CASE UNCHANGED vars
    BY <2>1 DEF vars, SuccessLeavesNoNamed
  <2>2. CASE FinalOk /\ \E s : FirstScan(s)
    <3>1. \A p \in Pid \ {claim.target.pid} : \E i \in DOMAIN window :
              ~(p \in Listed(window[i]) /\ NamedOrphan(window[i][p]))
      BY <2>2, NoneNamed DEF FinalOk, ContractInv
    <3> QED
      BY <2>2, <3>1 DEF FinalOk, Return, SuccessLeavesNoNamed, NamedOrphan
  <2> QED
    BY <2>1, <2>2, AnswerStep
<1> QED
  BY <1>1, <1>2, DoneInvariant, PTL DEF Spec

(* Nor was a process that the first scan had attributed to the profile,    *)
(* whoever adopted it since (the evidence of captureOwnershipEvidence).    *)
THEOREM OwnedGone ==
    ASSUME ScanFaults = {}
    PROVE  Spec => []SuccessLeavesNoOwned
<1>1. Init => SuccessLeavesNoOwned
  BY DEF Init, SuccessLeavesNoOwned
<1>2. ContractInv /\ DoneInv /\ SuccessLeavesNoOwned /\ [Next]_vars => SuccessLeavesNoOwned'
  <2> SUFFICES ASSUME ContractInv, DoneInv, SuccessLeavesNoOwned, [Next]_vars, result' = "ok"
               PROVE  SuccessLeavesNoOwned'
    BY DEF SuccessLeavesNoOwned
  <2>1. CASE UNCHANGED vars
    BY <2>1 DEF vars, SuccessLeavesNoOwned
  <2>2. CASE FinalOk /\ \E s : FirstScan(s)
    <3>1. \A e \in claim.evidence : \E i \in DOMAIN window :
              e.pid \in Listed(window[i]) => ~SameIdentity(e, window[i][e.pid])
      BY <2>2, NoneOwned DEF FinalOk, ContractInv
    <3> QED
      BY <2>2, <3>1 DEF FinalOk, Return, SuccessLeavesNoOwned
  <2> QED
    BY <2>1, <2>2, AnswerStep
<1> QED
  BY <1>1, <1>2, DoneInvariant, PTL DEF Spec

(* When Stop reports success, every other profile that ran when it began   *)
(* still had the very same main process as the deciding scan began         *)
(* (verifyOtherProfiles), whatever the scans missed.                       *)
THEOREM OthersSpared == Spec => []SuccessSparesOthers
<1>1. Init => SuccessSparesOthers
  BY DEF Init, SuccessSparesOthers
<1>2. ContractInv /\ DoneInv /\ SuccessSparesOthers /\ [Next]_vars => SuccessSparesOthers'
  <2> SUFFICES ASSUME ContractInv, DoneInv, SuccessSparesOthers, [Next]_vars, result' = "ok"
               PROVE  SuccessSparesOthers'
    BY DEF SuccessSparesOthers
  <2>1. CASE UNCHANGED vars
    BY <2>1 DEF vars, SuccessSparesOthers
  <2>2. CASE FinalOk /\ \E s : FirstScan(s)
    <3>1. \A id \in Listed(claim.others) :
              LET before == claim.others[id] IN
              /\ before.pid \in Mains(window[1], id)
              /\ SameIdentity(before, window[1][before.pid])
      BY <2>2, NeighboursLasted DEF FinalOk, ContractInv
    <3> QED
      BY <2>2, <3>1 DEF FinalOk, Return, SuccessSparesOthers
  <2> QED
    BY <2>1, <2>2, AnswerStep
<1> QED
  BY <1>1, <1>2, DoneInvariant, PTL DEF Spec

-----------------------------------------------------------------------------
(***************************************************************************)
(* The contract.  Its table, its rules and its environment are the stop's. *)
(***************************************************************************)
LEMMA SameRules ==
    /\ Contract!Table = Table /\ Contract!Live = Live
    /\ \A snap, id : Contract!Mains(snap, id) = Mains(snap, id)
    /\ \A x, y : Contract!SameIdentity(x, y) = SameIdentity(x, y)
    /\ \A x, id : Contract!MatchesMainProcess(x, id) = MatchesMainProcess(x, id)
    /\ Contract!Info = Info
BY DEF Contract!Table, Table, Contract!Live, Live, Contract!Listed, Listed,
       Contract!Mains, Mains, Contract!SameIdentity, SameIdentity,
       Contract!MatchesMainProcess, MatchesMainProcess,
       Contract!HasExactUserDataDir, HasExactUserDataDir, Contract!Info, Info,
       Contract!Launchd, Launchd

LEMMA SameEnvironment == Contract!Environment <=> Environment
BY DEF Contract!Environment, Environment, Contract!Exit, Exit, Contract!Spawn, Spawn,
       Contract!OpenInstance, OpenInstance, Contract!Exec, Exec,
       Contract!Start, Start, Contract!Change, Change,
       Contract!Table, Table, Contract!Live, Live, Contract!Listed, Listed,
       Contract!Launchd, Launchd

CTarget == IF claim = NoClaim THEN Absent ELSE claim.target
CNeighbours == IF claim = NoClaim THEN [id \in Profile |-> Absent] ELSE claim.others
CHits == [i \in DOMAIN sent |-> [signal |-> sent[i].signal, hit |-> sent[i].hit]]
CAnswer == IF result \in {"none", "ok", "not_running"} THEN result ELSE "failed"

LEMMA SettledClaim ==
    ASSUME TypeInv, Claimed
    PROVE  claim \in Claim /\ CTarget = claim.target /\ CNeighbours = claim.others
BY NoClaimAssumption DEF TypeInv, TypeOK, Claimed, CTarget, CNeighbours

LEMMA NotDone ==
    ASSUME DoneInv, pc # "done"
    PROVE  CAnswer = "none"
BY DEF DoneInv, CAnswer

(* A signal is recorded with the process that holds the id.                *)
HitIds == \A i \in DOMAIN sent : sent[i].hit.pid = sent[i].meant.pid

LEMMA HitIdsNext ==
    ASSUME TypeInv, HitIds, [Next]_vars
    PROVE  HitIds'
<1>1. CASE UNCHANGED sent
  BY <1>1 DEF HitIds
<1>2. CASE Signals
  <2>1. PICK signal \in {"TERM", "KILL"}, meant \in Info : Deliver(signal, meant)
    BY <1>2 DEF Signals
  <2>2. Table[meant.pid].pid = meant.pid
    BY <2>1, LiveType DEF Deliver, TypeInv
  <2>3. /\ Len(sent') = Len(sent) + 1 /\ Len(sent) \in Nat
        /\ \A i \in 1..Len(sent) : sent'[i] = sent[i]
        /\ sent'[Len(sent) + 1] = [signal |-> signal, meant |-> meant, hit |-> Table[meant.pid]]
        /\ sent' \in Seq(Delivery)
    BY <2>1, DeliverLemma, Zenon
  <2>4. DOMAIN sent' = 1..(Len(sent) + 1) /\ DOMAIN sent = 1..Len(sent)
    BY <2>3 DEF TypeInv, TypeOK
  <2> QED
    BY <2>2, <2>3, <2>4 DEF HitIds
<1>3. CASE Fails \/ FindsNothing \/ FinalOk \/ GoesOn \/ Claims \/ World \/ UNCHANGED vars
  BY <1>1, <1>3 DEF Fails, FindsNothing, FinalOk, GoesOn, Claims, World, vars, Return
<1> QED
  BY <1>2, <1>3, StepKinds

LEMMA ContractInit == Init => Contract!Init
<1> SUFFICES ASSUME Init PROVE Contract!Init
  OBVIOUS
<1>1. CTarget = Absent /\ CNeighbours = [id \in Profile |-> Absent] /\ CAnswer = "none"
  BY DEF Init, CTarget, CNeighbours, CAnswer
<1>2. CHits = <<>>
  BY DEF Init, CHits
<1> QED
  BY <1>1, <1>2
  DEF Init, TableInit, Contract!Init, Contract!TableInit, CTarget, CNeighbours, CHits, CAnswer

LEMMA LookStep ==
    ASSUME TypeInv, DoneInv, GoesOn
    PROVE  Contract!Next
<1>1. CAnswer = "none"
  BY NotDone DEF GoesOn, Claimed
<1>2. Contract!Look
  BY SameRules DEF GoesOn, Acts, Contract!Look, Contract!Acts
<1> QED
  BY <1>1, <1>2 DEF Contract!Next, CAnswer

LEMMA FailStep ==
    ASSUME DoneInv, Fails
    PROVE  Contract!Next
<1>1. CAnswer = "none"
  BY NotDone DEF Fails
<1>2. CAnswer' = "failed" /\ UNCHANGED <<window, owner, force, claim, sent>>
  BY DEF Fails, Return, CAnswer, Results
<1>3. Contract!Failed
  BY <1>2 DEF Contract!Failed, Contract!Answer, CAnswer
<1> QED
  BY <1>1, <1>3 DEF Contract!Next, CAnswer

LEMMA AbsentStep ==
    ASSUME TypeInv, MemoryInv, DoneInv, ScanFaults = {}, FindsNothing
    PROVE  Contract!Next
<1>1. CAnswer = "none"
  BY NotDone DEF FindsNothing
<1>2. CTarget = Absent
  BY DEF FindsNothing, MemoryInv, CTarget
<1>3. \A p \in Pid : \E i \in DOMAIN window : p \notin Mains(window[i], Target)
  BY NoneLasting, TargetAssumption DEF FindsNothing, TypeInv
<1>4. CAnswer' = "not_running" /\ UNCHANGED <<window, owner, force, claim, sent>>
  BY DEF FindsNothing, Return, CAnswer
<1>5. Contract!NotRunning
  BY <1>2, <1>3, <1>4, SameRules
  DEF Contract!NotRunning, Contract!NoLastingMain, Contract!Moments, Contract!Answer,
      CTarget, CAnswer
<1> QED
  BY <1>1, <1>5 DEF Contract!Next, CAnswer

LEMMA StoppedStep ==
    ASSUME TypeInv, MemoryInv, DoneInv, ScanFaults = {}, FinalOk
    PROVE  Contract!Next
<1>1. CAnswer = "none" /\ Claimed
  BY NotDone DEF FinalOk, Claimed
<1>2. PICK s : FirstScan(s)
  BY <1>1 DEF MemoryInv
<1>3. PICK snap \in SnapshotAll :
          /\ Mains(snap, Target) = {}
          /\ OthersIntact(snap, claim.others)
  BY DEF FinalOk
<1>4. CHits # <<>>
  <2>1. 1 \in DOMAIN sent
    BY DEF MemoryInv, FinalOk, TypeInv, TypeOK
  <2>2. DOMAIN CHits = DOMAIN sent
    BY DEF CHits
  <2> QED
    BY <2>1, <2>2
<1>5. \A p \in Pid : \E i \in DOMAIN window : p \notin Mains(window[i], Target)
  BY <1>3, NoneLasting, TargetAssumption DEF TypeInv
<1>6. ASSUME NEW id \in Profile \ {Target}, CNeighbours[id] # Absent
      PROVE  \E p \in Mains(window[1], id) : SameIdentity(CNeighbours[id], window[1][p])
  <2>1. CNeighbours = claim.others /\ id \in Listed(claim.others)
    BY <1>1, <1>2, <1>6, SettledClaim, OthersFirst DEF Listed
  <2> QED
    BY <1>2, <1>3, <2>1, NeighboursLasted
<1>7. CAnswer' = "ok" /\ UNCHANGED <<window, owner, force, claim, sent>>
  BY DEF FinalOk, Return, CAnswer
<1>8. Contract!Stopped
  BY <1>4, <1>5, <1>6, <1>7, SameRules
  DEF Contract!Stopped, Contract!NoLastingMain, Contract!Moments, Contract!Spared,
      Contract!Answer, CHits, CNeighbours, CAnswer
<1> QED
  BY <1>1, <1>8 DEF Contract!Next, CAnswer

(* Two main processes of one profile did not last beside each other.       *)
LEMMA NoTwins ==
    ASSUME TypeInv, ScanFaults = {}, NEW snap \in SnapshotAll, Identifiable(snap),
           NEW id \in Profile, NEW p \in Pid, NEW q \in Pid, p # q
    PROVE  \E i \in DOMAIN window : ~({p, q} \subseteq Mains(window[i], id))
<1> SUFFICES ASSUME \A i \in DOMAIN window : {p, q} \subseteq Mains(window[i], id)
             PROVE  FALSE
  OBVIOUS
<1>1. snap \in Snapshot
  BY ScanLemma DEF TypeInv
<1>2. p \in Mains(snap, id) /\ q \in Mains(snap, id)
  BY LastShown DEF TypeInv
<1>3. Mains(snap, id) = {p}
  BY <1>1, <1>2, SoleMain
<1> QED
  BY <1>2, <1>3

LEMMA SettleStep ==
    ASSUME TypeInv, MemoryInv, DoneInv, ScanFaults = {}, Claims
    PROVE  Contract!Next
<1>1. CAnswer = "none" /\ CAnswer' = CAnswer
  BY NotDone DEF Claims, Acts, CAnswer
<1>2. CTarget = Absent
  BY DEF Claims, MemoryInv, CTarget
<1>3. PICK snap \in SnapshotAll :
          /\ Identifiable(snap) /\ Mains(snap, Target) # {}
          /\ claim' = ClaimOn(snap, Target)
  BY DEF Claims
<1>4. snap \in Snapshot
  BY ScanLemma DEF TypeInv
<1> DEFINE k == ClaimOn(snap, Target)
<1>5. k \in Claim /\ k # NoClaim
  BY <1>3, <1>4, ClaimLemma, NoClaimAssumption
<1>6. /\ k.target = MainOf(snap, Target)
      /\ k.others = [id \in Profile |-> IF id # Target /\ Mains(snap, id) # {}
                                        THEN MainOf(snap, id) ELSE Absent]
  BY DEF ClaimOn
<1>7. k.target \in Info /\ k.others \in [Profile -> Info \cup {Absent}]
  BY <1>5 DEF Claim
<1>8. CTarget' = k.target /\ CNeighbours' = k.others /\ CHits' = CHits
  BY <1>3, <1>5 DEF CTarget, CNeighbours, CHits, Claims
<1> HIDE DEF k
<1>9. ASSUME NEW id \in Profile, Mains(snap, id) # {}
      PROVE  \E i \in DOMAIN window : \E p \in Mains(window[i], id) :
                 window[i][p] = MainOf(snap, id)
  <2>1. PICK m : m \in Mains(snap, id)
    BY <1>9
  <2>2. MainOf(snap, id) = snap[m]
    BY <1>3, <1>4, <2>1, SoleMain
  <2> QED
    BY <2>1, <2>2, MainSeen DEF TypeInv
<1>10. \A id \in Profile, p, q \in Pid :
           p # q => \E i \in DOMAIN window : ~({p, q} \subseteq Mains(window[i], id))
  BY <1>3, NoTwins
<1>11. /\ CTarget' # Absent
       /\ \E i \in DOMAIN window : \E p \in Mains(window[i], Target) : window[i][p] = CTarget'
  BY <1>3, <1>6, <1>7, <1>8, <1>9, TargetAssumption, AbsentAssumption
<1>12. ASSUME NEW id \in Profile \ {Target}
       PROVE  IF CNeighbours'[id] = Absent
              THEN \A p \in Pid : \E i \in DOMAIN window : p \notin Mains(window[i], id)
              ELSE \E i \in DOMAIN window : \E p \in Mains(window[i], id) :
                       window[i][p] = CNeighbours'[id]
  <2>1. CASE Mains(snap, id) = {}
    BY <1>6, <1>8, <2>1, NoneLasting DEF TypeInv
  <2>2. CASE Mains(snap, id) # {}
    <3>1. CNeighbours'[id] = MainOf(snap, id) /\ MainOf(snap, id) \in Info
      BY <1>4, <1>6, <1>8, <2>2, MainOfLemma
    <3> QED
      BY <1>9, <2>2, <3>1, AbsentAssumption
  <2> QED
    BY <2>1, <2>2
<1>13. window' = <<Table>> /\ UNCHANGED <<owner, force>>
  BY DEF Claims, Acts
<1>14. Contract!Settle
  BY <1>1, <1>2, <1>7, <1>8, <1>10, <1>11, <1>12, <1>13, SameRules
  DEF Contract!Settle, Contract!WasMain, Contract!NoLastingMain, Contract!Moments,
      Contract!Acts, CTarget, CNeighbours, CHits, CAnswer
<1> QED
  BY <1>1, <1>14 DEF Contract!Next, CAnswer

LEMMA SignalStep ==
    ASSUME ContractInv, ContractInv', HitIds, HitIds', DoneInv, Signals
    PROVE  Contract!Next
<1>1. CAnswer = "none" /\ CAnswer' = CAnswer
  BY NotDone DEF Signals, Claimed, Acts, CAnswer
<1>2. /\ claim \in Claim /\ CTarget = claim.target
      /\ CTarget' = CTarget /\ CNeighbours' = CNeighbours
  BY SettledClaim DEF ContractInv, Signals, CTarget, CNeighbours
<1>3. PICK signal \in {"TERM", "KILL"}, meant \in Info : Deliver(signal, meant)
  BY DEF Signals
<1> DEFINE p == meant.pid
           hit == Table[p]
           n == Len(sent)
           one == [signal |-> signal, hit |-> hit]
<1>4. /\ n \in Nat /\ Len(sent') = n + 1
      /\ \A i \in 1..n : sent'[i] = sent[i]
      /\ sent'[n + 1] = [signal |-> signal, meant |-> meant, hit |-> hit]
      /\ DOMAIN sent = 1..n /\ DOMAIN sent' = 1..(n + 1)
      /\ p \in Live
  <2>1. /\ sent' \in Seq(Delivery) /\ Len(sent') = Len(sent) + 1 /\ Len(sent) \in Nat
        /\ \A i \in 1..Len(sent) : sent'[i] = sent[i]
        /\ sent'[Len(sent) + 1] = [signal |-> signal, meant |-> meant, hit |-> Table[meant.pid]]
    BY <1>3, DeliverLemma, Zenon DEF ContractInv
  <2>2. sent \in Seq(Delivery) /\ p \in Live
    BY <1>3 DEF ContractInv, TypeInv, TypeOK, Deliver
  <2> QED
    BY <2>1, <2>2
<1> HIDE DEF n
<1>5. owner' = owner /\ force' = force /\ claim' = claim /\ window' = <<Table>>
  BY DEF Signals, Acts
<1>6. /\ hit.pid = p /\ hit \in Info /\ p \in Pid
      /\ sent'[n + 1].signal = signal /\ sent'[n + 1].meant = meant
      /\ sent'[n + 1].hit = hit /\ n + 1 \in DOMAIN sent'
  BY <1>4, LiveType DEF ContractInv, TypeInv
<1> HIDE DEF p, hit
<1>7. /\ owner[hit.start] = Target /\ hit.dirs \subseteq {Target}
      /\ MatchesMainProcess(hit, Target) => hit.start = claim.target.start
  <2>1. hit \in Hits'
    BY <1>6 DEF Hits
  <2> QED
    BY <1>5, <2>1 DEF ContractInv, OwnInv, Ours
<1>8. /\ (signal = "TERM") <=> (n = 0)
      /\ n = 0 => hit.start = claim.target.start
      /\ n # 0 => force
  BY <1>4, <1>5, <1>6 DEF ContractInv, SignalInv, KillDiscipline, SignalsHitMeant
<1>9. ASSUME NEW i \in 2..n
      PROVE  sent[i].hit.start # hit.start
  <2>1. i \in DOMAIN sent /\ i \in 2..((n + 1) - 1) /\ sent'[i] = sent[i]
    BY <1>4
  <2>2. sent[i].meant.pid # p
    BY <1>6, <2>1 DEF ContractInv, SignalInv, KillDiscipline, p
  <2>3. Known(sent[i].hit) /\ sent[i].hit.pid = sent[i].meant.pid
    BY <2>1 DEF ContractInv, OwnInv, Ours, Hits, HitIds
  <2>4. hit = window[Len(window)][p] /\ Len(window) \in 1..Len(window) /\ hit # Absent
    BY <1>6, LiveType, AbsentAssumption DEF ContractInv, TypeInv, Table, hit
  <2>5. sent[i].hit.start = hit.start => hit.pid = sent[i].hit.pid
    BY <1>6, <2>3, <2>4 DEF Known, Became
  <2> QED
    BY <1>6, <2>2, <2>3, <2>5
<1>10. /\ \A i \in 1..n : CHits[i] = [signal |-> sent[i].signal, hit |-> sent[i].hit]
       /\ DOMAIN CHits = 1..n
       /\ CHits = <<>> <=> n = 0
  BY <1>4 DEF CHits
<1>11. CHits' = Append(CHits, one) /\ Len(CHits) = n
  <2>1. CHits \in Seq([signal : {"TERM", "KILL"}, hit : Info])
    <3> DEFINE H == [signal : {"TERM", "KILL"}, hit : Info]
    <3>1. \A i \in 1..n : sent[i] \in Delivery
      BY <1>4 DEF ContractInv, TypeInv, TypeOK
    <3>2. \A i \in 1..n : [signal |-> sent[i].signal, hit |-> sent[i].hit] \in H
      BY <3>1 DEF Delivery
    <3>3. CHits = [i \in 1..n |-> [signal |-> sent[i].signal, hit |-> sent[i].hit]]
      BY <1>4 DEF CHits
    <3> HIDE DEF H
    <3>4. CHits \in Seq(H)
      BY <1>4, <3>2, <3>3
    <3> QED
      BY <3>4 DEF H
  <2>2. Len(CHits) = n
    BY <1>4, <1>10, <2>1
  <2>3. CHits' = [i \in 1..(n + 1) |-> IF i = n + 1 THEN one ELSE CHits[i]]
    BY <1>4, <1>6, <1>10 DEF CHits
  <2>4. /\ Append(CHits, one) \in Seq([signal : {"TERM", "KILL"}, hit : Info])
        /\ Len(Append(CHits, one)) = n + 1
        /\ \A i \in 1..(n + 1) : Append(CHits, one)[i] = IF i = n + 1 THEN one ELSE CHits[i]
    BY <1>4, <1>6, <2>1, <2>2
  <2>5. Append(CHits, one) = [i \in 1..(n + 1) |-> Append(CHits, one)[i]]
    BY <2>4
  <2> QED
    BY <2>2, <2>3, <2>4, <2>5
<1>12. Contract!Signal
  <2>1. /\ CTarget # Absent
        /\ (signal = "TERM" \/ MatchesMainProcess(hit, Target)) => hit.start = CTarget.start
    BY <1>2, <1>7, <1>8, AbsentAssumption DEF Claim
  <2>2. (signal = "TERM") <=> (CHits = <<>>)
    BY <1>8, <1>10
  <2>3. signal = "KILL" => /\ force
                           /\ \A i \in 2..Len(CHits) : CHits[i].hit.start # hit.start
    BY <1>4, <1>8, <1>9, <1>10, <1>11
  <2>4. /\ p \in Contract!Live /\ hit = Contract!Table[p]
        /\ MatchesMainProcess(hit, Target) <=> Contract!MatchesMainProcess(hit, Target)
        /\ window' = <<Contract!Table>>
    BY <1>4, <1>5, SameRules DEF hit
  <2> HIDE DEF one
  <2>5. one = [signal |-> signal, hit |-> hit]
    BY DEF one
  <2>6. Contract!Acts /\ UNCHANGED <<CTarget, CNeighbours, CAnswer>>
    BY <1>1, <1>2, <1>5, <2>4 DEF Contract!Acts, CTarget, CNeighbours, CAnswer
  <2>7. /\ owner[hit.start] = Target /\ hit.dirs \subseteq {Target}
        /\ (signal = "TERM" \/ Contract!MatchesMainProcess(hit, Target)) =>
               hit.start = CTarget.start
        /\ CHits' = Append(CHits, [signal |-> signal, hit |-> hit])
    BY <1>7, <1>11, <2>1, <2>4, <2>5
  <2> DEFINE Reached(pid, sig) ==
                 LET h == Contract!Table[pid] IN
                 /\ owner[h.start] = Target /\ h.dirs \subseteq {Target}
                 /\ (sig = "TERM" \/ Contract!MatchesMainProcess(h, Target)) =>
                        h.start = CTarget.start
                 /\ (sig = "TERM") <=> (CHits = <<>>)
                 /\ sig = "KILL" => /\ force
                                    /\ \A i \in 2..Len(CHits) : CHits[i].hit.start # h.start
                 /\ CHits' = Append(CHits, [signal |-> sig, hit |-> h])
  <2>8. Reached(p, signal)
    BY <2>2, <2>3, <2>4, <2>7
  <2>9. \E pid \in Contract!Live, sig \in {"TERM", "KILL"} : Reached(pid, sig)
    <3> HIDE DEF Reached
    <3> QED
      BY <2>4, <2>8
  <2> QED
    BY <2>1, <2>6, <2>9 DEF Contract!Signal, CTarget, CNeighbours, CHits, CAnswer
<1> QED
  BY <1>1, <1>12 DEF Contract!Next, CAnswer

LEMMA WorldStep ==
    ASSUME DoneInv, World
    PROVE  Contract!Next
<1>1. CAnswer = "none"
  BY NotDone DEF World
<1>2. /\ CAnswer' = CAnswer /\ CTarget' = CTarget
      /\ CNeighbours' = CNeighbours /\ CHits' = CHits /\ force' = force
  BY DEF World, CAnswer, CTarget, CNeighbours, CHits
<1> QED
  BY <1>1, <1>2, SameEnvironment
  DEF World, Contract!Next, CAnswer, CTarget, CNeighbours, CHits

LEMMA ContractStep ==
    ASSUME ContractInv, ContractInv', DoneInv, HitIds, HitIds', ScanFaults = {}, [Next]_vars
    PROVE  [Contract!Next]_(Contract!contractVars)
<1>1. CASE UNCHANGED vars
  <2>1. /\ CAnswer' = CAnswer /\ CTarget' = CTarget
        /\ CNeighbours' = CNeighbours /\ CHits' = CHits
        /\ UNCHANGED <<window, owner, force>>
    BY <1>1 DEF vars, CAnswer, CTarget, CNeighbours, CHits
  <2> QED
    BY <2>1 DEF Contract!contractVars, CAnswer, CTarget, CNeighbours, CHits
<1>2. CASE Fails \/ FindsNothing \/ FinalOk \/ GoesOn \/ Claims \/ Signals \/ World
  BY <1>2, FailStep, AbsentStep, StoppedStep, LookStep, SettleStep, SignalStep, WorldStep
  DEF ContractInv
<1> QED
  BY <1>1, <1>2, StepKinds DEF ContractInv

(* When no read fails silently, a stop of internal/stop/service.go keeps   *)
(* the promise StopContract states: every step of it is one the contract   *)
(* allows, or changes nothing the contract speaks of.                      *)
THEOREM StopKeepsContract ==
    ASSUME ScanFaults = {}
    PROVE  Spec => ImplementsContract
<1>1. Init => HitIds
  BY DEF Init, HitIds
<1>2. ContractInv /\ HitIds /\ [Next]_vars => HitIds'
  BY HitIdsNext DEF ContractInv
<1>3. /\ ContractInv /\ ContractInv' /\ DoneInv /\ HitIds /\ HitIds' /\ [Next]_vars
         => [Contract!Next]_(Contract!contractVars)
  BY ContractStep
<1> QED
  BY <1>1, <1>2, <1>3, ContractInit, DoneInvariant, PTL
  DEF Spec, ImplementsContract, Contract!Spec

-----------------------------------------------------------------------------
(***************************************************************************)
(* The two passes in which a stop decides whose a process is (service.go,  *)
(* captureOwnershipEvidence and isTargetOwned), on every snapshot there    *)
(* can be, of any number of processes and profiles: the specification of   *)
(* MCOwnership, which shares no variable with that of StopService.         *)
(***************************************************************************)
(* A snapshot maps every id to a process of that id, or to nothing.        *)
SnapshotInv ==
    /\ shown \in Snapshot
    /\ \A p \in Pid : shown[p] # Absent => shown[p].pid = p

-----------------------------------------------------------------------------
(* The others of a claim: the main process of each profile that runs.      *)
LEMMA OthersLemma ==
    ASSUME NEW s \in Snapshot, NEW dir \in Profile, NEW id \in Profile \ {dir},
           Mains(s, id) # {}
    PROVE  /\ id \in Listed(ClaimOn(s, dir).others)
           /\ ClaimOn(s, dir).others[id] = MainOf(s, id)
<1>1. ClaimOn(s, dir).others =
          [d \in Profile |-> IF d # dir /\ Mains(s, d) # {} THEN MainOf(s, d) ELSE Absent]
  BY DEF ClaimOn
<1>2. ClaimOn(s, dir).others[id] = MainOf(s, id)
  BY <1>1
<1>3. MainOf(s, id) # Absent
  BY MainOfLemma, AbsentAssumption
<1> QED
  BY <1>1, <1>2, <1>3 DEF Listed

LEMMA ClaimFields ==
    ASSUME NEW s, NEW dir
    PROVE  LET mine == ClaimOn(s, dir) IN
           /\ mine.target = MainOf(s, dir)
           /\ mine.dir = dir
           /\ mine.evidence =
                  CaptureOwnershipEvidence(s, mine.target, dir, mine.others)
BY DEF ClaimOn

(* What is evidence for one running profile names no other and descends    *)
(* from no other's main process, while the evidence of another does one of *)
(* the two.                                                                *)
LEMMA EvidenceDisjoint ==
    ASSUME NEW s \in Snapshot, NEW id1 \in Profile, NEW id2 \in Profile \ {id1},
           Mains(s, id2) # {}
    PROVE  ClaimOn(s, id1).evidence \cap ClaimOn(s, id2).evidence = {}
<1> DEFINE claim1 == ClaimOn(s, id1)
           claim2 == ClaimOn(s, id2)
<1> SUFFICES ASSUME NEW c \in claim1.evidence, c \in claim2.evidence
             PROVE  FALSE
  OBVIOUS
<1>1. ~IsForeignOwned(c, s, claim1.others)
  BY ClaimFields DEF CaptureOwnershipEvidence
<1>2. HasExactUserDataDir(c, id2) \/ HasAncestryTo(c, MainOf(s, id2), s)
  BY ClaimFields DEF CaptureOwnershipEvidence
<1>3. id2 \in Listed(claim1.others) /\ claim1.others[id2] = MainOf(s, id2)
  BY OthersLemma
<1> QED
  BY <1>1, <1>2, <1>3 DEF IsForeignOwned

(* On the snapshot it comes from, evidence adds nothing to the residual    *)
(* rule: a process with the identity of one in evidence is that process.   *)
LEMMA EvidenceResidual ==
    ASSUME NEW s \in Snapshot, \A p \in Pid : s[p] # Absent => s[p].pid = p,
           NEW id \in Profile
    PROVE  ClassifyResiduals(s, ClaimOn(s, id)) = ClaimOn(s, id).evidence
<1> DEFINE mine == ClaimOn(s, id)
           processes == {s[p] : p \in Listed(s)}
<1>1. \A c1, c2 \in processes : SameIdentity(c1, c2) => c1 = c2
  BY DEF SameIdentity, Listed, Snapshot
<1>2. mine.evidence \subseteq processes
  BY ClaimFields DEF CaptureOwnershipEvidence
<1>3. ASSUME NEW c \in processes
      PROVE  IsTargetOwned(c, s, mine) <=> c \in mine.evidence
  <2>1. c \in mine.evidence <=>
          /\ c.pid # mine.target.pid
          /\ c.exe \in Bundle
          /\ ~HasConflictingUserDataDir(c, id)
          /\ ~IsForeignOwned(c, s, mine.others)
          /\ HasExactUserDataDir(c, id) \/ HasAncestryTo(c, mine.target, s)
    BY ClaimFields DEF CaptureOwnershipEvidence
  <2>2. (\E initial \in mine.evidence : SameIdentity(initial, c)) => c \in mine.evidence
    BY <1>1, <1>2
  <2>3. mine.dir = id
    BY ClaimFields
  <2> HIDE DEF mine, processes
  <2> QED
    BY <2>1, <2>2, <2>3 DEF IsTargetOwned
<1>4. ClassifyResiduals(s, mine) = {c \in processes : IsTargetOwned(c, s, mine)}
  BY DEF ClassifyResiduals
<1> HIDE DEF mine, processes
<1>5. ClassifyResiduals(s, mine) = mine.evidence
  BY <1>2, <1>3, <1>4
<1> QED
  BY <1>5 DEF mine

-----------------------------------------------------------------------------
LEMMA SnapshotInvariant == RulesSpec => []SnapshotInv
<1>1. RulesInit => SnapshotInv
  BY DEF RulesInit, SnapshotInv, Snapshot
<1>2. SnapshotInv /\ [RulesNext]_shown => SnapshotInv'
  <2> SUFFICES ASSUME SnapshotInv, [RulesNext]_shown PROVE SnapshotInv'
    OBVIOUS
  <2>1. CASE UNCHANGED shown
    BY <2>1 DEF SnapshotInv
  <2>2. ASSUME NEW p \in Pid, shown' = [shown EXCEPT ![p] = Absent]
        PROVE  SnapshotInv'
    BY <2>2 DEF SnapshotInv, Snapshot
  <2>3. ASSUME NEW p \in Pid, NEW info \in Read, info.pid = p,
               shown' = [shown EXCEPT ![p] = info]
        PROVE  SnapshotInv'
    <3>1. info \in Info
      BY <2>3 DEF Read, Info
    <3> QED
      BY <2>3, <3>1 DEF SnapshotInv, Snapshot
  <2> QED
    BY <2>1, <2>2, <2>3 DEF RulesNext
<1> QED
  BY <1>1, <1>2, PTL DEF RulesSpec

(* The bounded walk of hasAncestryTo finds exactly what following parents  *)
(* reaches, on any snapshot, one whose parents form a cycle included.      *)
THEOREM WalkFindsAncestors == RulesSpec => []AncestryIsReachability
<1>1. SnapshotInv => AncestryIsReachability
  <2> SUFFICES ASSUME SnapshotInv, NEW p \in Listed(shown), NEW q \in Listed(shown)
               PROVE  HasAncestryTo(shown[p], shown[q], shown) <=>
                          q \in Ancestors(shown[p], shown)
    BY DEF AncestryIsReachability
  <2>1. shown \in Snapshot /\ shown[p].pid = p /\ shown[q].pid = q
    BY ListedType DEF SnapshotInv
  <2>2. ASSUME HasAncestryTo(shown[p], shown[q], shown)
        PROVE  q \in Ancestors(shown[p], shown)
    <3>1. PICK a \in Ancestors(shown[p], shown) : SameIdentity(shown[a], shown[q])
      BY <2>1, <2>2, AncestryOnlyIf
    <3>2. a \in Listed(shown)
      BY DEF Ancestors
    <3>3. shown[a].pid = a
      BY <3>2, ListedType DEF SnapshotInv
    <3> QED
      BY <2>1, <3>1, <3>3 DEF SameIdentity
  <2>3. ASSUME q \in Ancestors(shown[p], shown)
        PROVE  HasAncestryTo(shown[p], shown[q], shown)
    BY <2>1, <2>3, AncestryIf DEF SameIdentity
  <2> QED
    BY <2>2, <2>3
<1> QED
  BY <1>1, SnapshotInvariant, PTL

(* No process is evidence for two running profiles, on any snapshot and    *)
(* for any profiles (captureOwnershipEvidence), whether or not a profile   *)
(* runs twice in it.                                                       *)
THEOREM EvidenceNeverShared == RulesSpec => []EvidenceExclusive
<1>1. SnapshotInv => EvidenceExclusive
  BY EvidenceDisjoint DEF SnapshotInv, EvidenceExclusive
<1> QED
  BY <1>1, SnapshotInvariant, PTL

(* The capture and the residual rule are one rule on one snapshot          *)
(* (captureOwnershipEvidence, isTargetOwned).                              *)
THEOREM PassesAgree == RulesSpec => []EvidenceIsResidual
<1>1. SnapshotInv => EvidenceIsResidual
  BY EvidenceResidual DEF SnapshotInv, EvidenceIsResidual
<1> QED
  BY <1>1, SnapshotInvariant, PTL

=============================================================================
