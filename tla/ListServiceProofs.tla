-------------------------- MODULE ListServiceProofs --------------------------
(***************************************************************************)
(* What a list says of the machine, for every set of ids, executables and  *)
(* profiles and every bound, whatever the other programs do during its     *)
(* scan.                                                                   *)
(***************************************************************************)
EXTENDS ListService, TableProofs

(* What the scan showed of an id was true of it at some moment.            *)
Seen ==
    /\ snapshot \in Snapshot
    /\ \A p \in Pid : snapshot[p] # Absent =>
           /\ snapshot[p].pid = p
           /\ \E i \in 1..Len(window) : window[i][p] = snapshot[p]

(* The answer is read off the snapshot, or there is none.                  *)
Answered ==
    /\ pc \in {"scan", "identify"} => instances = {} /\ result = "none"
    /\ pc \in {"scan", "identify", "done"}
    /\ \/ instances = {} /\ result # "ok"
       \/ pc = "done" /\ instances = Found /\ Identifiable(snapshot)

ListInv == TableInv /\ HistoryInv /\ Seen /\ Answered

-----------------------------------------------------------------------------
LEMMA ListInit == Init => ListInv
<1> SUFFICES ASSUME Init PROVE ListInv
  OBVIOUS
<1>1. TableInv
  BY TableInitLemma DEF Init
<1>2. HistoryInv
  BY HistoryInit DEF Init
<1>3. Seen /\ Answered
  BY DEF Init, Seen, Answered, Empty, Snapshot
<1> QED
  BY <1>1, <1>2, <1>3 DEF ListInv

LEMMA ListReturn ==
    ASSUME ListInv, NEW r, NEW found, Return(r, found),
           \/ found = {} /\ r # "ok"
           \/ found = Found /\ Identifiable(snapshot)
    PROVE  ListInv'
<1>1. UNCHANGED <<window, owner, snapshot>>
  BY DEF Return
<1>2. TableInv' /\ HistoryInv' /\ Seen'
  BY <1>1, TableUnchanged DEF ListInv, Seen
<1>3. Found' = Found /\ Identifiable(snapshot)' = Identifiable(snapshot)
  BY <1>1 DEF Found, InstanceOf
<1>4. Answered'
  BY <1>3 DEF Return, Answered
<1> QED
  BY <1>2, <1>4 DEF ListInv

LEMMA ListStep == ListInv /\ [Next]_vars => ListInv'
<1> SUFFICES ASSUME ListInv, [Next]_vars PROVE ListInv'
  OBVIOUS
<1>1. CASE Refuse
  <2>1. PICK r \in {"invalid", "scan"} : Return(r, {})
    BY <1>1 DEF Refuse
  <2> QED
    BY <2>1, ListReturn
<1>2. CASE Scan
  <2>1. PICK s \in SnapshotAll : snapshot' = RunningMainExe(s)
    BY <1>2 DEF Scan
  <2>2. pc' = "identify" /\ pc = "scan" /\ UNCHANGED <<window, owner, instances, result>>
    BY <1>2 DEF Scan
  <2>3. s \in Snapshot /\ Keyed(s)
    BY <2>1, ScanLemma DEF ListInv
  <2>4. \A p \in Pid : s[p] # Absent => \E i \in 1..Len(window) : window[i][p] = s[p]
    BY <2>1, ScanSeen DEF ListInv
  <2>5. Seen'
    BY <2>1, <2>2, <2>3, <2>4, RunningLemma DEF Seen, Keyed
  <2>6. Answered'
    BY <2>2 DEF ListInv, Answered
  <2> QED
    BY <2>2, <2>5, <2>6, TableUnchanged DEF ListInv
<1>3. CASE Identify
  BY <1>3, ListReturn DEF Identify
<1>4. CASE World
  <2>1. Environment /\ pc = "scan" /\ UNCHANGED <<pc, snapshot, instances, result>>
    BY <1>4 DEF World
  <2>2. TableInv' /\ HistoryInv'
    BY <2>1, EnvironmentLemma, EnvironmentHistory DEF ListInv
  <2>3. Seen'
    <3>1. PICK T : window' = Append(window, T)
      BY <2>1 DEF Environment, Exit, Spawn, OpenInstance, Exec, Start, Change
    <3>2. \A i \in 1..Len(window) : i \in 1..Len(window') /\ window'[i] = window[i]
      BY <3>1, WindowType DEF ListInv, TableInv, TableTypeOK
    <3> QED
      BY <2>1, <3>2 DEF ListInv, Seen
  <2>4. Answered'
    BY <2>1 DEF ListInv, Answered
  <2> QED
    BY <2>2, <2>3, <2>4 DEF ListInv
<1>5. CASE UNCHANGED vars
  BY <1>5, TableUnchanged DEF vars, ListInv, Seen, Answered, Found, InstanceOf
<1> QED
  BY <1>1, <1>2, <1>3, <1>4, <1>5 DEF Next, List, Finished

LEMMA ListInvariant == Spec => []ListInv
BY ListInit, ListStep, PTL DEF Spec

LEMMA FoundLemma ==
    ASSUME ListInv, Identifiable(snapshot), NEW id \in Profile,
           NEW p \in Mains(snapshot, id)
    PROVE  /\ InstanceOf(id) = [profile |-> id, pid |-> p, start |-> snapshot[p].start]
           /\ InstanceOf(id) \in Found
<1>1. p \in Pid /\ snapshot \in Snapshot /\ snapshot[p] # Absent
  BY DEF ListInv, Seen, Mains, Listed, Snapshot
<1>2. MainOf(snapshot, id) = snapshot[p] /\ snapshot[p].pid = p
  BY <1>1, SoleMain DEF ListInv, Seen
<1> QED
  BY <1>2 DEF InstanceOf, Found

(* Every instance that is listed was a main process of its profile at some *)
(* moment of the scan, and was started for no other (list.go).        *)
THEOREM ListingTrue == Spec => []ListedRan
<1>1. ListInv => ListedRan
  <2> SUFFICES ASSUME ListInv, NEW n \in instances
               PROVE  /\ owner[n.start] = n.profile
                      /\ \E i \in DOMAIN window :
                             /\ n.pid \in Mains(window[i], n.profile)
                             /\ window[i][n.pid].start = n.start
    BY DEF ListedRan
  <2>1. instances = Found /\ Identifiable(snapshot)
    BY DEF ListInv, Answered
  <2>2. PICK id \in Profile : n = InstanceOf(id) /\ Mains(snapshot, id) # {}
    BY <2>1 DEF Found
  <2>3. PICK p \in Mains(snapshot, id) : TRUE
    BY <2>2
  <2>4. n = [profile |-> id, pid |-> p, start |-> snapshot[p].start]
    BY <2>1, <2>2, <2>3, FoundLemma
  <2>5. p \in Pid /\ snapshot[p] # Absent /\ MatchesMainProcess(snapshot[p], id)
    BY DEF ListInv, Seen, Mains, Listed, Snapshot
  <2>6. PICK i \in 1..Len(window) : window[i][p] = snapshot[p]
    BY <2>5 DEF ListInv, Seen
  <2>7. window[i] \in Snapshot /\ i \in DOMAIN window
    BY WindowType DEF ListInv
  <2>8. p \in Mains(window[i], id)
    BY <2>5, <2>6, <2>7 DEF Mains, Listed, Snapshot
  <2>9. owner[window[i][p].start] = id
    BY <2>5, <2>6, MatchedOwned DEF ListInv
  <2> QED
    BY <2>4, <2>6, <2>7, <2>8, <2>9
<1> QED
  BY <1>1, ListInvariant, PTL

-----------------------------------------------------------------------------
(* The scan has shown every main process that lasted.                      *)
Shown ==
    (pc = "identify" \/ result = "ok") =>
        \A id \in Profile, p \in Pid :
            LastingMain(id, p) => p \in Mains(snapshot, id)
                               /\ snapshot[p].start = Table[p].start

LEMMA ScanShows ==
    ASSUME TableInv, ScanFaults = {}, NEW s \in SnapshotAll,
           NEW id \in Profile, NEW p \in Pid, LastingMain(id, p)
    PROVE  /\ p \in Mains(RunningMainExe(s), id)
           /\ RunningMainExe(s)[p].start = Table[p].start
<1>1. s \in Snapshot /\ RunningMainExe(s) \in Snapshot
  BY ScanLemma, RunningLemma
<1>2. \A i \in DOMAIN window : p \in Listed(window[i]) /\ MatchesMainProcess(window[i][p], id)
  BY DEF LastingMain, Mains
<1>3. PICK i \in 1..Len(window) : s[p] = window[i][p]
  BY <1>2, ScanComplete
<1>4. \A j \in 1..Len(window) : window[j][p] # Absent
  BY <1>2, WindowType DEF Listed
<1>5. s[p] # Absent /\ MatchesMainProcess(s[p], id)
  BY <1>2, <1>3, <1>4, WindowType
<1>6. RunningMainExe(s)[p] = s[p]
  BY <1>1, <1>5, RunningLemma DEF MatchesMainProcess
<1>7. s[p].start = Table[p].start
  BY <1>3, <1>4, WindowType DEF TableInv, OneHolder
<1> QED
  BY <1>1, <1>5, <1>6, <1>7 DEF Mains, Listed, Snapshot

LEMMA ShownStep ==
    ASSUME ScanFaults = {}
    PROVE  ListInv /\ Shown /\ [Next]_vars => Shown'
<1> SUFFICES ASSUME ListInv, Shown, [Next]_vars PROVE Shown'
  OBVIOUS
<1>1. CASE Scan
  <2>1. PICK s \in SnapshotAll : snapshot' = RunningMainExe(s)
    BY <1>1 DEF Scan
  <2>2. UNCHANGED <<window, owner>>
    BY <1>1 DEF Scan
  <2>3. \A id \in Profile, p \in Pid : LastingMain(id, p) =>
            /\ p \in Mains(RunningMainExe(s), id)
            /\ RunningMainExe(s)[p].start = Table[p].start
    BY <2>1, ScanShows DEF ListInv
  <2> QED
    BY <2>1, <2>2, <2>3 DEF Shown, LastingMain, Table
<1>2. CASE Identify \/ UNCHANGED vars
  BY <1>2 DEF Identify, Return, Shown, LastingMain, Table, vars
<1>3. CASE Refuse
  BY <1>3 DEF Refuse, Return, Shown
<1>4. CASE World
  BY <1>4 DEF World, Shown, ListInv, Answered
<1> QED
  BY <1>1, <1>2, <1>3, <1>4 DEF Next, List, Finished

(* When no read fails silently, a list without an error names every main   *)
(* process that ran throughout its scan; and no profile had two            *)
(* (list.go).                                                         *)
THEOREM ListingComplete ==
    ASSUME ScanFaults = {}
    PROVE  Spec => []LastingListed
<1>1. Init => Shown
  BY DEF Init, Shown
<1>2. ListInv /\ Shown /\ [Next]_vars => Shown'
  BY ShownStep
<1>3. ListInv /\ Shown => LastingListed
  <2> SUFFICES ASSUME ListInv, Shown, result = "ok",
                      NEW id \in Profile, NEW p \in Pid, LastingMain(id, p)
               PROVE  /\ [profile |-> id, pid |-> p, start |-> Table[p].start] \in instances
                      /\ \A q \in Pid \ {p} : ~LastingMain(id, q)
    BY DEF LastingListed
  <2>1. instances = Found /\ Identifiable(snapshot) /\ snapshot \in Snapshot
    BY DEF ListInv, Answered, Seen
  <2>2. /\ p \in Mains(snapshot, id) /\ snapshot[p].start = Table[p].start
        /\ \A q \in Pid : LastingMain(id, q) => q \in Mains(snapshot, id)
    BY DEF Shown
  <2>3. Mains(snapshot, id) = {p}
    BY <2>1, <2>2, SoleMain
  <2>4. /\ InstanceOf(id) = [profile |-> id, pid |-> p, start |-> snapshot[p].start]
        /\ InstanceOf(id) \in Found
    BY <2>1, <2>2, FoundLemma
  <2> QED
    BY <2>1, <2>2, <2>3, <2>4
<1> QED
  BY <1>1, <1>2, <1>3, ListInvariant, PTL DEF Spec

=============================================================================
