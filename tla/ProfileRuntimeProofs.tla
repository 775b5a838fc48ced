------------------------ MODULE ProfileRuntimeProofs ------------------------
(***************************************************************************)
(* A session of launch, list and stop over one process table: the three    *)
(* commands agree on who the profile's instance is, for every set of ids,  *)
(* executables and profiles and every bound, whatever else happens.        *)
(***************************************************************************)
EXTENDS ProfileRuntime, TableProofs

(***************************************************************************)
(* The commands read the session's table by the same rules.                *)
(***************************************************************************)
LEMMA SameRules ==
    /\ L!Table = Table /\ I!Table = Table /\ S!Table = Table
    /\ \A s, id : L!Mains(s, id) = Mains(s, id)
    /\ \A s, id : I!Mains(s, id) = Mains(s, id) /\ I!MainOf(s, id) = MainOf(s, id)
    /\ \A s, id : S!Mains(s, id) = Mains(s, id) /\ S!MainOf(s, id) = MainOf(s, id)
    /\ \A s : I!Identifiable(s) <=> Identifiable(s)
    /\ \A s : S!Identifiable(s) <=> Identifiable(s)
    /\ \A s : L!RunningMainExe(s) = RunningMainExe(s)
    /\ \A s : I!RunningMainExe(s) = RunningMainExe(s)
<1>1. L!Table = Table /\ I!Table = Table /\ S!Table = Table
  BY DEF L!Table, I!Table, S!Table, Table
<1>2. \A s, id : L!Mains(s, id) = Mains(s, id)
  BY DEF L!Mains, Mains, L!Listed, Listed, L!MatchesMainProcess, MatchesMainProcess,
         L!HasExactUserDataDir, HasExactUserDataDir
<1>3. \A s, id : I!Mains(s, id) = Mains(s, id)
  BY DEF I!Mains, Mains, I!Listed, Listed, I!MatchesMainProcess, MatchesMainProcess,
         I!HasExactUserDataDir, HasExactUserDataDir
<1>4. \A s, id : S!Mains(s, id) = Mains(s, id)
  BY DEF S!Mains, Mains, S!Listed, Listed, S!MatchesMainProcess, MatchesMainProcess,
         S!HasExactUserDataDir, HasExactUserDataDir
<1>5. \A s, id : I!MainOf(s, id) = MainOf(s, id)
  BY <1>3 DEF I!MainOf, MainOf
<1>6. \A s, id : S!MainOf(s, id) = MainOf(s, id)
  BY <1>4 DEF S!MainOf, MainOf
<1>7. \A s : I!Identifiable(s) <=> Identifiable(s)
  BY <1>3 DEF I!Identifiable, Identifiable, I!Cardinality, Cardinality
<1>8. \A s : S!Identifiable(s) <=> Identifiable(s)
  BY <1>4 DEF S!Identifiable, Identifiable, S!Cardinality, Cardinality
<1>9. \A s : L!RunningMainExe(s) = RunningMainExe(s)
  BY DEF L!RunningMainExe, RunningMainExe, L!Listed, Listed
<1>10. \A s : I!RunningMainExe(s) = RunningMainExe(s)
  BY DEF I!RunningMainExe, RunningMainExe, I!Listed, Listed
<1> QED
  BY <1>1, <1>2, <1>3, <1>4, <1>5, <1>6, <1>7, <1>8, <1>9, <1>10

LEMMA SameScans ==
    L!SnapshotAll = SnapshotAll /\ I!SnapshotAll = SnapshotAll /\ S!SnapshotAll = SnapshotAll
BY DEF L!SnapshotAll, I!SnapshotAll, S!SnapshotAll, SnapshotAll,
       L!Scans, I!Scans, S!Scans, Scans, L!Readable, I!Readable, S!Readable, Readable,
       L!ReadAt, I!ReadAt, S!ReadAt, ReadAt, L!Empty, I!Empty, S!Empty, Empty,
       L!ReadsMayFail, I!ReadsMayFail, S!ReadsMayFail, ReadsMayFail,
       L!Listed, I!Listed, S!Listed, Listed

-----------------------------------------------------------------------------
(***************************************************************************)
(* What the commands leave to each other.  The launch: the process that it *)
(* reported was a main process of the profile in its last scan, and is     *)
(* known from then on.  The list: its snapshot shows every main process    *)
(* that lasts through its scan.  The stop: after a success none does.      *)
(***************************************************************************)
LaunchInv ==
    /\ launchPc # "done" => launchResult = "none"
    /\ command # "launch" => launchResult = "ok"
    /\ launchResult = "ok" =>
           /\ found \in Info /\ MatchesMainProcess(found, Target)
           /\ command = "launch" => \E i \in DOMAIN window, p \in Pid : window[i][p] = found
           /\ command # "launch" => Known(found)

ListInv ==
    /\ command = "launch" => listPc = "scan"
    /\ listPc = "scan" => listResult = "none"
    /\ snapshot \in Snapshot
    /\ (command = "list" /\ (listPc = "identify" \/ listResult = "ok")) =>
           \A p \in Pid : LastingMain(p) =>
               /\ p \in Mains(snapshot, Target)
               /\ snapshot[p].pid = p /\ snapshot[p].start = Table[p].start
    /\ listResult = "ok" =>
           listPc = "done" /\ Identifiable(snapshot) /\ instances = I!Found

StopInv ==
    /\ command # "stop" => stopResult = "none"
    /\ stopResult = "ok" => stopPc = "done" /\ \A p \in Pid : ~LastingMain(p)

SessionInv == TableInv /\ HistoryInv /\ LaunchInv /\ ListInv /\ StopInv

-----------------------------------------------------------------------------
(* The kinds of steps of the commands. *)

LEMMA LaunchKinds ==
    ASSUME TableInv, L!Launch
    PROVE  /\ launchPc # "done"
           /\ UNCHANGED owner /\ (UNCHANGED window \/ window' = <<Table>>)
           /\ \/ launchResult' = launchResult /\ launchPc' # "open" /\ launchPc' # "done"
              \/ launchResult' \in {"failed", "already_running"} /\ launchPc' = "done"
              \/ /\ launchResult' = launchResult /\ launchPc' = "open"
                 /\ \E snap \in SnapshotAll : Mains(RunningMainExe(snap), Target) = {}
              \/ /\ launchResult' = "timeout" /\ launchPc' = "done"
                 /\ \E snap \in SnapshotAll : Mains(RunningMainExe(snap), Target) = {}
              \/ /\ launchResult' = "ok" /\ launchPc' = "done" /\ UNCHANGED window
                 /\ \E snap \in SnapshotAll :
                        \E p \in Mains(RunningMainExe(snap), Target) :
                            found' = RunningMainExe(snap)[p]
<1>1. ASSUME NEW snap \in L!SnapshotAll, found' \in L!FindMain(snap)
      PROVE  /\ snap \in SnapshotAll
             /\ found' = Absent => Mains(RunningMainExe(snap), Target) = {}
             /\ found' # Absent => \E p \in Mains(RunningMainExe(snap), Target) :
                                       found' = RunningMainExe(snap)[p]
  <2> DEFINE R == RunningMainExe(snap)
  <2>1. found' \in IF Mains(R, Target) = {} THEN {Absent}
                   ELSE {R[p] : p \in Mains(R, Target)}
    BY <1>1, SameRules DEF L!FindMain
  <2>2. \A p \in Mains(R, Target) : R[p] # Absent
    BY DEF Mains, Listed
  <2> HIDE DEF R
  <2>3. /\ found' = Absent => Mains(R, Target) = {}
        /\ found' # Absent => \E p \in Mains(R, Target) : found' = R[p]
    BY <2>1, <2>2
  <2> QED
    BY <2>3, SameScans DEF R
<1>2. L!Table = Table
  BY SameRules
<1>3. CASE L!Fails
  BY <1>3 DEF L!Fails, L!Return
<1>4. CASE L!Check
  <2>1. PICK snap \in L!SnapshotAll : found' \in L!FindMain(snap)
    BY <1>4 DEF L!Check
  <2> QED
    BY <1>1, <1>2, <1>4, <2>1 DEF L!Check, L!Return, L!Proceed
<1>5. CASE L!Open
  BY <1>2, <1>5 DEF L!Open, L!Proceed
<1>6. CASE L!Await
  <2>1. PICK snap \in L!SnapshotAll : found' \in L!FindMain(snap)
    BY <1>6 DEF L!Await
  <2> QED
    BY <1>1, <1>2, <1>6, <2>1 DEF L!Await, L!Return, L!Proceed
<1> QED
  BY <1>3, <1>4, <1>5, <1>6 DEF L!Launch

LEMMA ListKinds ==
    ASSUME I!List
    PROVE  /\ UNCHANGED <<window, owner>>
           /\ \/ /\ listPc = "scan" /\ listPc' = "done"
                 /\ listResult' \in {"invalid", "scan"} /\ UNCHANGED snapshot
              \/ /\ listPc = "scan" /\ listPc' = "identify" /\ UNCHANGED listResult
                 /\ \E snap \in SnapshotAll : snapshot' = RunningMainExe(snap)
              \/ /\ listPc = "identify" /\ listPc' = "done" /\ UNCHANGED snapshot
                 /\ \/ listResult' \in {"paths", "ambiguous"}
                    \/ /\ listResult' = "ok" /\ Identifiable(snapshot)
                       /\ instances' = I!Found
BY SameRules, SameScans DEF I!List, I!Refuse, I!Scan, I!Identify, I!Return

LEMMA StopKinds ==
    ASSUME TableInv, S!Stop
    PROVE  /\ stopPc # "done"
           /\ UNCHANGED owner /\ (UNCHANGED window \/ window' = <<Table>>)
           /\ \/ stopResult' = stopResult
              \/ stopResult' # "ok"
              \/ /\ stopResult' = "ok" /\ stopPc' = "done" /\ UNCHANGED window
                 /\ \E snap \in SnapshotAll : Mains(snap, Target) = {}
           /\ (stopPc = "identify" /\ stopPc' = "revalidate_term") =>
                  \E snap \in SnapshotAll :
                      /\ Identifiable(snap) /\ Mains(snap, Target) # {}
                      /\ claim'.target = MainOf(snap, Target)
<1> DEFINE Goes == /\ stopResult' = stopResult
                   /\ UNCHANGED owner /\ window' = <<Table>>
           Fails == /\ stopResult' # "ok" /\ stopPc' = "done"
                    /\ UNCHANGED <<window, owner>>
           Closes == /\ stopResult' = "ok" /\ stopPc' = "done"
                        /\ UNCHANGED <<window, owner>>
                        /\ \E snap \in SnapshotAll : Mains(snap, Target) = {}
           Claims == \E snap \in SnapshotAll :
                      /\ Identifiable(snap) /\ Mains(snap, Target) # {}
                      /\ claim'.target = MainOf(snap, Target)
<1>1. ASSUME NEW next, S!Proceed(next) PROVE Goes
  BY <1>1, SameRules DEF S!Proceed
<1>2. ASSUME NEW r, S!Return(r), r # "ok" PROVE Fails
  BY <1>2 DEF S!Return
<1>3. CASE S!RefuseRequest \/ S!ScanFails \/ S!SignalFails
  <2>1. stopPc # "done" /\ Fails
    BY <1>2, <1>3 DEF S!RefuseRequest, S!ScanFails, S!SignalFails, S!Scanning
  <2> QED
    BY <2>1
<1>4. CASE S!Identify
  <2>1. PICK snap \in SnapshotAll :
            \/ S!Return("ambiguous")
            \/ S!Return("not_running")
            \/ /\ Identifiable(snap) /\ Mains(snap, Target) # {}
               /\ claim' = S!ClaimOn(snap, Target)
               /\ S!Proceed("revalidate_term")
    BY <1>4, SameRules, SameScans DEF S!Identify
  <2>2. S!ClaimOn(snap, Target).target = MainOf(snap, Target)
    BY SameRules DEF S!ClaimOn
  <2>3. stopPc = "identify" /\ (Fails \/ (Goes /\ Claims))
    <3> HIDE DEF Fails, Goes
    <3> QED
      BY <1>1, <1>2, <1>4, <2>1, <2>2 DEF S!Identify
  <2> QED
    BY <2>3
<1>5. CASE S!RevalidateMain \/ S!SignalMain \/ S!Rescan \/ S!RevalidateResidual
           \/ S!KillResidual
  <2>1. stopPc \notin {"identify", "done"} /\ (Goes \/ Fails)
    <3> HIDE DEF Fails, Goes
    <3> QED
      BY <1>1, <1>2, <1>5
      DEF S!RevalidateMain, S!SignalMain, S!Rescan, S!RevalidateResidual, S!KillResidual
  <2> QED
    BY <2>1
<1>6. CASE S!AwaitMain \/ S!AwaitResiduals
  <2>1. stopPc \notin {"identify", "done"} /\ (Goes \/ Fails)
    <3> HIDE DEF Fails, Goes
    <3> QED
      BY <1>1, <1>2, <1>6
      DEF S!AwaitMain, S!AwaitResiduals, S!MainGone, S!PollAgain, S!MainTimeout
  <2> QED
    BY <2>1
<1>7. CASE S!FinalScan
  <2>1. PICK snap \in SnapshotAll :
            \/ S!Return("ambiguous") \/ S!Return("identity") \/ S!Return("residual")
            \/ S!Return("affected")
            \/ Cardinality(Mains(snap, Target)) = 0 /\ S!Return("ok")
    BY <1>7, SameRules, SameScans DEF S!FinalScan, S!Cardinality, Cardinality
  <2>2. stopPc = "final"
    BY <1>7 DEF S!FinalScan
  <2>3. CASE Cardinality(Mains(snap, Target)) = 0 /\ S!Return("ok")
    <3>1. Mains(snap, Target) = {}
      BY <2>3, NoMains
    <3>2. Closes
      BY <2>3, <3>1 DEF S!Return
    <3> QED
      BY <2>2, <3>2
  <2>4. CASE ~ (Cardinality(Mains(snap, Target)) = 0 /\ S!Return("ok"))
    <3>1. Fails
      BY <1>2, <2>1, <2>4
    <3> QED
      BY <2>2, <3>1
  <2> QED
    BY <2>3, <2>4
<1> QED
  BY <1>3, <1>4, <1>5, <1>6, <1>7 DEF S!Stop

LEMMA TableMoves ==
    ASSUME TableInv, [Next]_vars
    PROVE  \/ UNCHANGED <<window, owner>>
           \/ window' = <<Table>> /\ owner' = owner
           \/ Environment
BY LaunchKinds, ListKinds, StopKinds
DEF Next, LaunchStep, ListStep, StopStep, NextCommand, World, Finished, vars

(* The scan by path leaves out no main process.                            *)
LEMMA RunningMains ==
    ASSUME NEW snap \in Snapshot, NEW id
    PROVE  /\ RunningMainExe(snap) \in Snapshot
           /\ Mains(RunningMainExe(snap), id) = Mains(snap, id)
           /\ \A p \in Mains(snap, id) : RunningMainExe(snap)[p] = snap[p]
<1> DEFINE R == RunningMainExe(snap)
<1>1. /\ R \in Snapshot
      /\ \A p \in Pid : R[p] # Absent => R[p] = snap[p]
      /\ \A p \in Pid : snap[p] # Absent /\ snap[p].exe = MainExe => R[p] = snap[p]
  BY RunningLemma
<1> HIDE DEF R
<1>2. \A p : p \in Mains(R, id) <=> p \in Pid /\ R[p] # Absent /\ MatchesMainProcess(R[p], id)
  BY <1>1, ListedIff DEF Mains
<1>3. \A p : p \in Mains(snap, id)
                 <=> p \in Pid /\ snap[p] # Absent /\ MatchesMainProcess(snap[p], id)
  BY ListedIff DEF Mains
<1>4. \A p \in Pid : snap[p] # Absent /\ MatchesMainProcess(snap[p], id) => R[p] = snap[p]
  BY <1>1 DEF MatchesMainProcess
<1>5. \A p : p \in Mains(R, id) <=> p \in Mains(snap, id)
  BY <1>1, <1>2, <1>3, <1>4
<1> QED
  BY <1>1, <1>3, <1>4, <1>5 DEF R

LEMMA HistoryKept ==
    ASSUME TableInv, HistoryInv, [Next]_vars
    PROVE  TableInv' /\ HistoryInv' /\ \A x : Known(x) => Known(x)'
BY TableMoves, TableUnchanged, SettleLemma, SettleHistory, EnvironmentLemma, EnvironmentHistory

LEMMA SessionInit == Init => SessionInv
<1> SUFFICES ASSUME Init PROVE SessionInv
  OBVIOUS
<1>1. TableInit
  BY DEF Init, L!Init, L!TableInit, TableInit
<1>2. TableInv /\ HistoryInv
  BY <1>1, TableInitLemma, HistoryInit
<1>3. snapshot \in Snapshot
  BY DEF Init, I!Init, I!Empty, Snapshot
<1> QED
  BY <1>2, <1>3
  DEF Init, L!Init, I!Init, S!Init, SessionInv, LaunchInv, ListInv, StopInv

LEMMA LaunchNext ==
    ASSUME SessionInv, [Next]_vars
    PROVE  LaunchInv'
<1>1. \A x : Known(x) => Known(x)'
  BY HistoryKept DEF SessionInv
<1>2. CASE LaunchStep
  <2>1. launchPc # "done" /\ command = "launch" /\ command' = "launch"
    BY <1>2, LaunchKinds DEF LaunchStep, SessionInv
  <2>2. launchResult = "none"
    BY <2>1 DEF SessionInv, LaunchInv
  <2>3. CASE launchResult' # "ok"
    BY <1>2, <2>1, <2>2, <2>3, LaunchKinds DEF LaunchStep, LaunchInv, SessionInv
  <2>4. CASE launchResult' = "ok"
    <3>1. /\ launchPc' = "done" /\ UNCHANGED window
          /\ \E snap \in SnapshotAll : \E p \in Mains(RunningMainExe(snap), Target) :
                 found' = RunningMainExe(snap)[p]
      BY <1>2, <2>2, <2>4, LaunchKinds DEF LaunchStep, SessionInv
    <3>2. PICK snap \in SnapshotAll : \E p \in Mains(RunningMainExe(snap), Target) :
                 found' = RunningMainExe(snap)[p]
      BY <3>1
    <3>3. snap \in Snapshot
      BY ScanLemma DEF SessionInv
    <3>4. PICK p \in Mains(snap, Target) : found' = snap[p]
      BY <3>2, <3>3, RunningMains
    <3>5. p \in Pid /\ snap[p] # Absent /\ snap[p] \in Info
      BY <3>3, <3>4, ListedType DEF Mains
    <3>6. PICK i \in 1..Len(window) : window[i][p] = snap[p]
      BY <3>5, ScanSeen DEF SessionInv
    <3>7. i \in DOMAIN window'
      BY <3>1, <3>6, WindowType DEF SessionInv
    <3>8. found' \in Info /\ MatchesMainProcess(found, Target)'
      BY <3>4, <3>5 DEF Mains, MatchesMainProcess, HasExactUserDataDir
    <3> QED
      BY <2>1, <3>1, <3>4, <3>5, <3>6, <3>7, <3>8 DEF LaunchInv
  <2> QED
    BY <2>3, <2>4
<1>3. CASE NextCommand
  <2>1. /\ launchResult = "ok" /\ window' = <<Table>> /\ UNCHANGED owner
        /\ UNCHANGED <<launchPc, launchResult, found>> /\ command' # "launch"
    BY <1>3 DEF NextCommand, launchVars, SessionInv, LaunchInv
  <2>2. Known(found)'
    <3>1. CASE command = "launch"
      <4>1. PICK i \in DOMAIN window, p \in Pid : window[i][p] = found
        BY <2>1, <3>1 DEF SessionInv, LaunchInv
      <4>2. window[i][p] # Absent /\ i \in 1..Len(window)
        BY <2>1, <4>1, AbsentAssumption, WindowType DEF SessionInv, LaunchInv
      <4>3. PICK x : x = found
        OBVIOUS
      <4>4. Known(x)'
        BY <2>1, <4>1, <4>2, <4>3, SettleHistory DEF SessionInv
      <4> QED
        BY <2>1, <4>3, <4>4 DEF Known
    <3>2. CASE command # "launch"
      <4>1. PICK x : x = found
        OBVIOUS
      <4>2. Known(x)'
        BY <1>1, <2>1, <3>2, <4>1 DEF SessionInv, LaunchInv
      <4> QED
        BY <2>1, <4>1, <4>2 DEF Known
    <3> QED
      BY <3>1, <3>2
  <2> QED
    BY <2>1, <2>2
    DEF SessionInv, LaunchInv, MatchesMainProcess, HasExactUserDataDir
<1>4. CASE ListStep \/ StopStep \/ World \/ UNCHANGED vars
  <2>1. /\ UNCHANGED <<command, launchPc, launchResult, found>>
        /\ command # "launch" \/ UNCHANGED window \/ (launchPc # "done" /\ command = "launch")
    BY <1>4 DEF ListStep, StopStep, World, vars, launchVars, Answered
  <2>2. (command # "launch" /\ launchResult = "ok") => Known(found)'
    <3>1. PICK x : x = found
      OBVIOUS
    <3> QED
      BY <1>1, <2>1, <3>1 DEF SessionInv, LaunchInv, Known
  <2> QED
    BY <2>1, <2>2
    DEF SessionInv, LaunchInv, MatchesMainProcess, HasExactUserDataDir
<1> QED
  BY <1>2, <1>3, <1>4 DEF Next, Finished

LEMMA ListNext ==
    ASSUME ScanFaults = {}, SessionInv, [Next]_vars
    PROVE  ListInv'
<1> DEFINE Shown(s) ==
               \A p \in Pid : LastingMain(p) =>
                   /\ p \in Mains(s, Target)
                   /\ s[p].pid = p /\ s[p].start = Table[p].start
<1>1. ASSUME NEW s, Shown(s), UNCHANGED window PROVE Shown(s)'
  BY <1>1 DEF LastingMain, Table
<1>2. UNCHANGED snapshot => I!Found' = I!Found /\ Identifiable(snapshot)' = Identifiable(snapshot)
  BY DEF I!Found, I!InstanceOf
<1>3. CASE UNCHANGED <<command, listVars>>
  <2>1. ASSUME command = "list", listPc = "identify" \/ listResult = "ok"
        PROVE  UNCHANGED window
    <3>1. listPc \in {"identify", "done"}
      BY <2>1 DEF SessionInv, ListInv
    <3> QED
      BY <1>3, <2>1, <3>1, ListKinds
      DEF Next, LaunchStep, ListStep, StopStep, NextCommand, World, Finished, vars, Answered,
          listVars
  <2>2. (command = "list" /\ (listPc = "identify" \/ listResult = "ok"))
            => \A p \in Pid : LastingMain(p)' =>
                   /\ p \in Mains(snapshot, Target)
                   /\ snapshot[p].pid = p /\ snapshot[p].start = Table[p].start'
    BY <2>1 DEF SessionInv, ListInv, LastingMain, Table
  <2> QED
    BY <1>2, <1>3, <2>2 DEF SessionInv, ListInv, listVars
<1>4. CASE ListStep
  <2>1. command = "list" /\ command' = "list" /\ UNCHANGED <<window, owner>>
    BY <1>4, ListKinds DEF ListStep
  <2>2. CASE /\ listPc = "scan" /\ listPc' = "done"
             /\ listResult' \in {"invalid", "scan"} /\ UNCHANGED snapshot
    BY <2>1, <2>2 DEF SessionInv, ListInv
  <2>3. CASE /\ listPc = "scan" /\ listPc' = "identify" /\ UNCHANGED listResult
             /\ \E snap \in SnapshotAll : snapshot' = RunningMainExe(snap)
    <3>1. PICK snap \in SnapshotAll : snapshot' = RunningMainExe(snap)
      BY <2>3
    <3>2. snap \in Snapshot /\ Keyed(snap)
      BY ScanLemma DEF SessionInv
    <3>3. ASSUME NEW p \in Pid, LastingMain(p)
          PROVE  /\ p \in Mains(snapshot', Target)
                 /\ snapshot'[p].pid = p /\ snapshot'[p].start = Table[p].start
      <4>1. p \in Mains(snap, Target) /\ snap[p].start = Table[p].start
        BY <3>3, LastShown, TargetAssumption DEF SessionInv, LastingMain
      <4>2. snap[p].pid = p
        BY <3>2, <4>1, ListedIff DEF Keyed, Mains
      <4> QED
        BY <3>1, <3>2, <4>1, <4>2, RunningMains
    <3>4. snapshot' \in Snapshot
      BY <3>1, <3>2, RunningMains
    <3>5. \A p \in Pid : LastingMain(p)' = LastingMain(p) /\ Table' = Table
      BY <2>1 DEF LastingMain, Table
    <3> QED
      BY <2>1, <2>3, <3>3, <3>4, <3>5 DEF SessionInv, ListInv
  <2>4. CASE /\ listPc = "identify" /\ listPc' = "done" /\ UNCHANGED snapshot
             /\ \/ listResult' \in {"paths", "ambiguous"}
                \/ /\ listResult' = "ok" /\ Identifiable(snapshot)
                   /\ instances' = I!Found
    <3>1. \A p \in Pid : LastingMain(p)' => LastingMain(p) /\ Table' = Table
      BY <2>1 DEF LastingMain, Table
    <3> QED
      BY <1>2, <2>1, <2>4, <3>1 DEF SessionInv, ListInv
  <2> QED
    BY <1>4, <2>2, <2>3, <2>4, ListKinds DEF ListStep
<1>5. CASE NextCommand
  <2>1. /\ UNCHANGED listVars
        /\ \/ command = "launch" /\ command' = "list"
           \/ command = "list" /\ command' = "stop"
    BY <1>5 DEF NextCommand
  <2> QED
    BY <1>2, <2>1 DEF SessionInv, ListInv, listVars
<1> QED
  BY <1>3, <1>4, <1>5 DEF Next, LaunchStep, StopStep, World, Finished, vars

LEMMA StopNext ==
    ASSUME ScanFaults = {}, SessionInv, [Next]_vars
    PROVE  StopInv'
<1>1. CASE StopStep
  <2>1. stopPc # "done" /\ stopResult # "ok" /\ command = "stop" /\ command' = "stop"
    BY <1>1, StopKinds DEF StopStep, SessionInv, StopInv
  <2>2. CASE stopResult' # "ok"
    BY <2>1, <2>2 DEF StopInv
  <2>3. CASE stopResult' = "ok"
    <3>1. /\ stopPc' = "done" /\ UNCHANGED window
          /\ \E snap \in SnapshotAll : Mains(snap, Target) = {}
      BY <1>1, <2>1, <2>3, StopKinds DEF StopStep, SessionInv
    <3>2. \A p \in Pid : ~LastingMain(p)
      BY <3>1, NoneLasting, TargetAssumption DEF SessionInv, LastingMain
    <3> QED
      BY <2>1, <3>1, <3>2 DEF StopInv, LastingMain
  <2> QED
    BY <2>2, <2>3
<1>2. CASE LaunchStep \/ ListStep \/ NextCommand
  BY <1>2 DEF LaunchStep, ListStep, NextCommand, stopVars, SessionInv, StopInv
<1>3. CASE World
  BY <1>3 DEF World, Answered, stopVars, SessionInv, StopInv
<1>4. CASE UNCHANGED vars
  BY <1>4 DEF vars, stopVars, SessionInv, StopInv, LastingMain
<1> QED
  BY <1>1, <1>2, <1>3, <1>4 DEF Next, Finished

LEMMA SessionInvariant ==
    ASSUME ScanFaults = {}
    PROVE  Spec => []SessionInv
<1>1. SessionInv /\ [Next]_vars => SessionInv'
  BY HistoryKept, LaunchNext, ListNext, StopNext DEF SessionInv
<1> QED
  BY <1>1, SessionInit, PTL DEF Spec

-----------------------------------------------------------------------------
(* The process a launch reported is still a main process of the profile as *)
(* long as it is there: it cannot exec, nor lose its flag.                 *)
LEMMA FoundLasts ==
    ASSUME SessionInv, command # "launch", Lasting(found)
    PROVE  /\ found.pid \in Pid /\ LastingMain(found.pid)
           /\ Table[found.pid].start = found.start
<1> DEFINE p == found.pid
<1>1. found \in Info /\ MatchesMainProcess(found, Target) /\ Known(found)
  BY DEF SessionInv, LaunchInv
<1>2. p \in Pid
  BY <1>1 DEF Info
<1>3. ASSUME NEW i \in DOMAIN window
      PROVE  p \in Mains(window[i], Target) /\ window[i][p].start = found.start
  <2>1. i \in 1..Len(window) /\ window[i] \in Snapshot
    BY WindowType DEF SessionInv
  <2>2. p \in Listed(window[i]) /\ window[i][p] # Absent /\ window[i][p].start = found.start
    BY <2>1, ListedIff DEF Lasting
  <2>3. Became(found, window[i][p])
    BY <1>1, <1>2, <2>1, <2>2 DEF Known
  <2>4. MatchesMainProcess(window[i][p], Target)
    BY <1>1, <2>3 DEF Became, MatchesMainProcess, HasExactUserDataDir
  <2> QED
    BY <2>2, <2>4 DEF Mains
<1>4. Len(window) \in DOMAIN window /\ Table = window[Len(window)]
  BY WindowType DEF SessionInv
<1> QED
  BY <1>2, <1>3, <1>4 DEF LastingMain

(* When no read fails silently, a list without an error names the process  *)
(* that the launch before it reported, as long as it is there (list.go and *)
(* FindMain mean the same process).                                        *)
THEOREM ListNamesLaunched ==
    ASSUME ScanFaults = {}
    PROVE  Spec => []ListKnowsLaunched
<1>1. SessionInv => ListKnowsLaunched
  <2> SUFFICES ASSUME SessionInv, command = "list", listResult = "ok", Lasting(found)
               PROVE  [profile |-> Target, pid |-> found.pid, start |-> found.start]
                          \in instances
    BY DEF ListKnowsLaunched
  <2> DEFINE p == found.pid
  <2>1. p \in Pid /\ LastingMain(p) /\ Table[p].start = found.start
    BY FoundLasts
  <2>2. /\ p \in Mains(snapshot, Target) /\ snapshot \in Snapshot
        /\ snapshot[p].pid = p /\ snapshot[p].start = found.start
        /\ Identifiable(snapshot) /\ instances = I!Found
    BY <2>1 DEF SessionInv, ListInv
  <2>3. MainOf(snapshot, Target) = snapshot[p]
    BY <2>2, SoleMain, TargetAssumption
  <2>4. I!InstanceOf(Target) = [profile |-> Target, pid |-> p, start |-> found.start]
    BY <2>2, <2>3, SameRules DEF I!InstanceOf
  <2>5. I!InstanceOf(Target) \in I!Found
    BY <2>2, SameRules, TargetAssumption DEF I!Found
  <2> QED
    BY <2>2, <2>4, <2>5
<1> QED
  BY <1>1, SessionInvariant, PTL

(* When no read fails silently and the session has gone through, what it   *)
(* launched is gone (Launch, then Stop).                                   *)
THEOREM SessionsClose ==
    ASSUME ScanFaults = {}
    PROVE  Spec => []SessionCloses
<1>1. SessionInv => SessionCloses
  BY FoundLasts DEF SessionCloses, SessionInv, StopInv
<1> QED
  BY <1>1, SessionInvariant, PTL

(* When no read fails silently, the main process a stop settles on is the  *)
(* one that the launch reported, as long as it is there.                   *)
THEOREM StopMeansLaunched ==
    ASSUME ScanFaults = {}
    PROVE  Spec => StopKnowsLaunched
<1> DEFINE Same == (stopPc = "identify" /\ stopPc' = "revalidate_term" /\ Lasting(found)) =>
                       claim'.target.start = found.start
<1>1. SessionInv /\ [Next]_vars => [Same]_vars
  <2> SUFFICES ASSUME SessionInv, [Next]_vars, stopPc = "identify",
                      stopPc' = "revalidate_term", Lasting(found)
               PROVE  claim'.target.start = found.start
    OBVIOUS
  <2>1. StopStep
    BY DEF Next, LaunchStep, ListStep, NextCommand, World, Finished, vars, stopVars
  <2>2. PICK snap \in SnapshotAll :
            Identifiable(snap) /\ claim'.target = MainOf(snap, Target)
    BY <2>1, StopKinds DEF StopStep, SessionInv
  <2> DEFINE p == found.pid
  <2>3. p \in Pid /\ LastingMain(p) /\ Table[p].start = found.start
    BY <2>1, FoundLasts DEF StopStep
  <2>4. p \in Mains(snap, Target) /\ snap[p].start = found.start /\ snap \in Snapshot
    BY <2>3, LastShown, ScanLemma, TargetAssumption DEF SessionInv, LastingMain
  <2>5. MainOf(snap, Target) = snap[p]
    BY <2>2, <2>4, SoleMain, TargetAssumption
  <2> QED
    BY <2>2, <2>4, <2>5
<1> QED
  BY <1>1, SessionInvariant, PTL DEF Spec, StopKnowsLaunched

(* When no read fails silently, a launch opens an instance, or gives up    *)
(* waiting, only if no main process lasted through its scan; and what it   *)
(* reports was a main process at a moment of it (waitForMain).             *)
THEOREM LaunchesTruthful ==
    ASSUME ScanFaults = {}
    PROVE  Spec => LaunchTruthful
<1> DEFINE Truthful ==
               /\ launchPc' # launchPc /\ (launchPc' = "open" \/ launchResult' = "timeout")
                      => \A p \in Pid : ~LastingMain(p)
               /\ launchPc' # launchPc /\ launchResult' = "ok"
                      => \E i \in DOMAIN window : \E p \in Mains(window[i], Target) :
                             window[i][p] = found'
<1>1. SessionInv /\ [Next]_vars => [Truthful]_vars
  <2> SUFFICES ASSUME SessionInv, [Next]_vars, launchPc' # launchPc PROVE Truthful
    OBVIOUS
  <2>1. LaunchStep
    BY DEF Next, ListStep, StopStep, NextCommand, World, Finished, vars, launchVars
  <2>2. launchResult = "none"
    BY <2>1, LaunchKinds DEF LaunchStep, SessionInv, LaunchInv
  <2>3. ASSUME launchPc' = "open" \/ launchResult' = "timeout"
        PROVE  \A p \in Pid : ~LastingMain(p)
    <3>1. PICK snap \in SnapshotAll : Mains(RunningMainExe(snap), Target) = {}
      BY <2>1, <2>2, <2>3, LaunchKinds DEF LaunchStep, SessionInv
    <3>2. Mains(snap, Target) = {}
      BY <3>1, RunningMains, ScanLemma DEF SessionInv
    <3> QED
      BY <3>2, NoneLasting, TargetAssumption DEF SessionInv, LastingMain
  <2>4. ASSUME launchResult' = "ok"
        PROVE  \E i \in DOMAIN window : \E p \in Mains(window[i], Target) :
                   window[i][p] = found'
    <3>1. PICK snap \in SnapshotAll : \E p \in Mains(RunningMainExe(snap), Target) :
                                          found' = RunningMainExe(snap)[p]
      BY <2>1, <2>2, <2>4, LaunchKinds DEF LaunchStep, SessionInv
    <3>2. PICK m \in Mains(snap, Target) : found' = snap[m]
      BY <3>1, RunningMains, ScanLemma DEF SessionInv
    <3> QED
      BY <3>2, MainSeen, TargetAssumption DEF SessionInv
  <2> QED
    BY <2>3, <2>4
<1> QED
  BY <1>1, SessionInvariant, PTL DEF Spec, LaunchTruthful

=============================================================================
