------------------------- MODULE LaunchServiceProofs -------------------------
(***************************************************************************)
(* Launches that run at the same time, any number of them and of profiles, *)
(* from any layout of the disk.                                            *)
(***************************************************************************)
EXTENDS LaunchService, TLAPS

(* Where a launch is in its walk over the four directories, and that it    *)
(* opens one instance, behind them, and has no result before its end.      *)
Walking ==
    \A l \in Launcher :
        /\ pc[l] # "done" => result[l] = "none"
        /\ pc[l] = "root" => next[l] = 1
        /\ pc[l] \in {"inspect", "mkdir"} => next[l] \in 1..4
        /\ pc[l] \in {"check", "guard", "open", "await"} => next[l] = 5
        /\ app[l] # "none" => next[l] = 5 /\ pc[l] \in {"await", "done"}

(* What a launch remembers as running is running.                          *)
SinceRunning == \A l \in Launcher : since[l] \subseteq Running(profile[l])

TypeInv == TypeOK /\ Walking

(* The directories a launch has passed are private, and stay so: no launch *)
(* makes a private directory anything else.                                *)
Passed ==
    \A l \in Launcher :
        /\ pc[l] \notin {"root", "done"} \/ app[l] # "none" => fs[Root] = "private"
        /\ pc[l] # "done" \/ app[l] # "none" =>
               \A i \in 1..4 : i < next[l] => fs[Owned(profile[l])[i]] = "private"

-----------------------------------------------------------------------------
LEMMA PathLemma ==
    /\ Root \in Path
    /\ \A p \in Profile, i \in 1..4 : Owned(p)[i] \in Path
BY DEF Path

LEMMA TypeInit == Init => TypeInv
BY LayoutAssumption, PollAssumption DEF Init, TypeInv, TypeOK, Walking

(* A launch that returns, and one that goes on, touch only their own entry *)
(* of what every launcher has.                                             *)
LEMMA ReturnType ==
    ASSUME TypeInv, NEW l \in Launcher, NEW r \in Results, Return(l, r),
           fs' \in [Path -> Kind], deps' \in [Profile -> BOOLEAN], app' = app
    PROVE  TypeInv'
BY DEF Return, TypeInv, TypeOK, Walking

LEMMA EnsuredType ==
    ASSUME TypeInv, NEW l \in Launcher, next[l] \in 1..4, Ensured(l),
           pc[l] \in {"inspect", "mkdir"},
           fs' \in [Path -> Kind], UNCHANGED <<deps, app, polls, since>>
    PROVE  TypeInv'
BY DEF Ensured, Goto, TypeInv, TypeOK, Walking

LEMMA CurrentType ==
    ASSUME TypeInv, NEW l \in Launcher, pc[l] \in {"inspect", "mkdir"}
    PROVE  /\ next[l] \in 1..4 /\ Current(l) \in Path
           /\ [fs EXCEPT ![Current(l)] = "private"] \in [Path -> Kind]
BY PathLemma DEF TypeInv, TypeOK, Walking, Current, Kind

LEMMA TypeStep == TypeInv /\ [Next]_vars => TypeInv'
<1> SUFFICES ASSUME TypeInv, [Next]_vars PROVE TypeInv'
  OBVIOUS
<1> USE DEF Results
<1>0. fs \in [Path -> Kind] /\ deps \in [Profile -> BOOLEAN]
  BY DEF TypeInv, TypeOK
<1>1. ASSUME NEW l \in Launcher, Refuse(l) PROVE TypeInv'
  BY <1>0, <1>1, ReturnType DEF Refuse
<1>2. ASSUME NEW l \in Launcher, MakeRoot(l) PROVE TypeInv'
  <2>1. CASE fs[Root] = "file" /\ Return(l, "directory") /\ UNCHANGED <<fs, deps, app>>
    BY <1>0, <2>1, ReturnType
  <2>2. CASE /\ fs' = [fs EXCEPT ![Root] = "private"]
             /\ since' = [since EXCEPT ![l] = Running(profile[l])]
             /\ Goto(l, "inspect")
             /\ UNCHANGED <<deps, app, next, polls>>
    <3>1. fs' \in [Path -> Kind]
      BY <1>0, <2>2, PathLemma DEF Kind
    <3>2. Running(profile[l]) \subseteq Launcher
      BY DEF Running
    <3>3. next[l] \in 1..4
      BY <1>2 DEF MakeRoot, TypeInv, Walking
    <3> QED
      BY <1>2, <2>2, <3>1, <3>2, <3>3 DEF MakeRoot, Goto, TypeInv, TypeOK, Walking
  <2> QED
    BY <1>2, <2>1, <2>2 DEF MakeRoot
<1>3. ASSUME NEW l \in Launcher, Inspect(l) PROVE TypeInv'
  <2>1. pc[l] = "inspect" /\ UNCHANGED <<deps, app>>
    BY <1>3 DEF Inspect
  <2>2. CASE Goto(l, "mkdir") /\ UNCHANGED <<fs, next, polls, since>>
    BY <2>1, <2>2 DEF Goto, TypeInv, TypeOK, Walking
  <2>3. CASE /\ fs' = [fs EXCEPT ![Current(l)] = "private"]
             /\ Ensured(l) /\ UNCHANGED <<polls, since>>
    BY <2>1, <2>3, CurrentType, EnsuredType
  <2>4. CASE Return(l, "directory") /\ UNCHANGED fs
    BY <1>0, <2>1, <2>4, ReturnType
  <2> QED
    BY <1>3, <2>2, <2>3, <2>4 DEF Inspect
<1>4. ASSUME NEW l \in Launcher, Mkdir(l) PROVE TypeInv'
  <2>1. pc[l] = "mkdir" /\ UNCHANGED <<deps, app>>
    BY <1>4 DEF Mkdir
  <2>2. CASE /\ fs' = [fs EXCEPT ![Current(l)] = "private"]
             /\ Ensured(l) /\ UNCHANGED <<polls, since>>
    BY <2>1, <2>2, CurrentType, EnsuredType
  <2>3. CASE Return(l, "exists") /\ UNCHANGED fs
    BY <1>0, <2>1, <2>3, ReturnType
  <2> QED
    BY <1>4, <2>2, <2>3 DEF Mkdir
<1>5. ASSUME NEW l \in Launcher, CheckRunning(l) PROVE TypeInv'
  <2>1. pc[l] = "check" /\ UNCHANGED <<fs, deps, app>>
    BY <1>5 DEF CheckRunning
  <2>2. CASE Goto(l, "guard") /\ UNCHANGED <<next, polls, since>>
    BY <2>1, <2>2 DEF Goto, TypeInv, TypeOK, Walking
  <2> QED
    BY <1>0, <1>5, <2>1, <2>2, ReturnType DEF CheckRunning
<1>6. ASSUME NEW l \in Launcher, Guard(l) PROVE TypeInv'
  <2>1. pc[l] = "guard" /\ UNCHANGED <<fs, app>>
    BY <1>6 DEF Guard
  <2>2. deps' \in [Profile -> BOOLEAN]
    BY <1>0, <1>6 DEF Guard
  <2>3. CASE Goto(l, "open") /\ UNCHANGED <<next, polls, since>>
    BY <2>1, <2>2, <2>3 DEF Goto, TypeInv, TypeOK, Walking
  <2>4. CASE Return(l, "guard")
    BY <1>0, <2>1, <2>2, <2>4, ReturnType
  <2> QED
    BY <1>6, <2>3, <2>4 DEF Guard
<1>7. ASSUME NEW l \in Launcher, Open(l) PROVE TypeInv'
  <2>1. pc[l] = "open" /\ UNCHANGED <<fs, deps>>
    BY <1>7 DEF Open
  <2>2. CASE /\ app' = [app EXCEPT ![l] = "opening"]
             /\ Goto(l, "await") /\ UNCHANGED <<next, polls, since>>
    BY <2>1, <2>2 DEF Goto, TypeInv, TypeOK, Walking
  <2>3. CASE Return(l, "start") /\ UNCHANGED app
    BY <1>0, <2>1, <2>3, ReturnType
  <2> QED
    BY <1>7, <2>2, <2>3 DEF Open
<1>8. ASSUME NEW l \in Launcher, Await(l) PROVE TypeInv'
  <2>1. pc[l] = "await" /\ UNCHANGED <<fs, deps, app>>
    BY <1>8 DEF Await
  <2>2. CASE /\ polls[l] < MaxPolls
             /\ polls' = [polls EXCEPT ![l] = @ + 1]
             /\ Goto(l, "await") /\ UNCHANGED <<next, since>>
    BY <2>1, <2>2, PollAssumption DEF Goto, TypeInv, TypeOK, Walking
  <2> QED
    BY <1>0, <1>8, <2>1, <2>2, ReturnType DEF Await
<1>9. CASE World
  <2>1. ASSUME NEW k \in Launcher, Appear(k) PROVE TypeInv'
    BY <2>1 DEF Appear, TypeInv, TypeOK, Walking
  <2>2. ASSUME NEW k \in Launcher, Vanish(k) PROVE TypeInv'
    BY <2>2 DEF Vanish, TypeInv, TypeOK, Walking
  <2>3. ASSUME NEW p \in Profile, Reenable(p) PROVE TypeInv'
    BY <2>3 DEF Reenable, TypeInv, TypeOK, Walking
  <2> QED
    BY <1>9, <2>1, <2>2, <2>3 DEF World
<1>10. CASE UNCHANGED vars
  BY <1>10 DEF vars, TypeInv, TypeOK, Walking
<1> QED
  BY <1>1, <1>2, <1>3, <1>4, <1>5, <1>6, <1>7, <1>8, <1>9, <1>10
     DEF Next, Launch, Finished

LEMMA TypeInvariant == Spec => []TypeInv
BY TypeInit, TypeStep, PTL DEF Spec

(* Every variable keeps its type, however many launches interleave.        *)
THEOREM TypeCorrect == Spec => []TypeOK
<1>1. TypeInv => TypeOK
  BY DEF TypeInv
<1> QED
  BY <1>1, TypeInvariant, PTL

-----------------------------------------------------------------------------
(* Past its check a launch remembers nothing that runs, and it can only    *)
(* forget more.                                                            *)
SinceInv == SinceRunning /\ DuplicateRefused

LEMMA SinceInit == Init => SinceInv
BY DEF Init, SinceInv, SinceRunning, DuplicateRefused

LEMMA ReturnSince ==
    ASSUME TypeInv, SinceInv, NEW l \in Launcher, NEW r, Return(l, r), app' = app,
           r = "ok" => since[l] = {}
    PROVE  SinceInv'
BY DEF Return, SinceInv, SinceRunning, DuplicateRefused, Running, TypeInv, TypeOK

LEMMA GotoSince ==
    ASSUME TypeInv, SinceInv, NEW l \in Launcher, NEW where, Goto(l, where),
           UNCHANGED <<app, since>>,
           where \in {"guard", "open", "await"} => since[l] = {}
    PROVE  SinceInv'
BY DEF Goto, SinceInv, SinceRunning, DuplicateRefused, Running, TypeInv, TypeOK

LEMMA SinceStep == TypeInv /\ SinceInv /\ [Next]_vars => SinceInv'
<1> SUFFICES ASSUME TypeInv, SinceInv, [Next]_vars PROVE SinceInv'
  OBVIOUS
<1>1. ASSUME NEW l \in Launcher, Refuse(l) PROVE SinceInv'
  BY <1>1, ReturnSince DEF Refuse
<1>2. ASSUME NEW l \in Launcher, MakeRoot(l) PROVE SinceInv'
  <2>1. CASE Return(l, "directory") /\ app' = app
    BY <2>1, ReturnSince
  <2>2. CASE /\ since' = [since EXCEPT ![l] = Running(profile[l])]
             /\ Goto(l, "inspect") /\ app' = app
    <3>1. /\ since'[l] = Running(profile[l])
          /\ \A k \in Launcher \ {l} : since'[k] = since[k] /\ pc'[k] = pc[k]
          /\ pc'[l] = "inspect" /\ UNCHANGED <<profile, result>>
      BY <2>2 DEF Goto, TypeInv, TypeOK
    <3>2. \A p \in Profile : Running(p)' = Running(p)
      BY <2>2, <3>1 DEF Running
    <3>3. result[l] # "ok"
      BY <1>2 DEF MakeRoot, TypeInv, Walking
    <3> QED
      BY <3>1, <3>2, <3>3 DEF SinceInv, SinceRunning, DuplicateRefused, TypeInv, TypeOK
  <2> QED
    BY <1>2, <2>1, <2>2 DEF MakeRoot
<1>3. ASSUME NEW l \in Launcher, Inspect(l) PROVE SinceInv'
  BY <1>3, ReturnSince, GotoSince DEF Inspect, Ensured
<1>4. ASSUME NEW l \in Launcher, Mkdir(l) PROVE SinceInv'
  BY <1>4, ReturnSince, GotoSince DEF Mkdir, Ensured
<1>5. ASSUME NEW l \in Launcher, CheckRunning(l) PROVE SinceInv'
  <2>1. Running(profile[l]) = {} => since[l] = {}
    BY DEF SinceInv, SinceRunning
  <2> QED
    BY <1>5, <2>1, ReturnSince, GotoSince DEF CheckRunning
<1>6. ASSUME NEW l \in Launcher, Guard(l) PROVE SinceInv'
  <2>1. since[l] = {}
    BY <1>6 DEF Guard, SinceInv, DuplicateRefused
  <2> QED
    BY <1>6, <2>1, ReturnSince, GotoSince DEF Guard
<1>7. ASSUME NEW l \in Launcher, Open(l) PROVE SinceInv'
  <2>1. since[l] = {} /\ app[l] = "none"
    BY <1>7 DEF Open, SinceInv, DuplicateRefused, TypeInv, Walking
  <2>2. CASE Return(l, "start") /\ UNCHANGED app
    BY <2>2, ReturnSince
  <2>3. CASE /\ app' = [app EXCEPT ![l] = "opening"]
             /\ Goto(l, "await") /\ UNCHANGED since
    <3>1. \A p \in Profile : Running(p)' = Running(p)
      BY <2>1, <2>3 DEF Running, Goto, TypeInv, TypeOK
    <3> QED
      BY <2>1, <2>3, <3>1
         DEF Goto, SinceInv, SinceRunning, DuplicateRefused, TypeInv, TypeOK
  <2> QED
    BY <1>7, <2>2, <2>3 DEF Open
<1>8. ASSUME NEW l \in Launcher, Await(l) PROVE SinceInv'
  <2>1. since[l] = {}
    BY <1>8 DEF Await, SinceInv, DuplicateRefused
  <2> QED
    BY <1>8, <2>1, ReturnSince, GotoSince DEF Await
<1>9. CASE World
  <2>1. ASSUME NEW k \in Launcher, Appear(k) PROVE SinceInv'
    BY <2>1 DEF Appear, SinceInv, SinceRunning, DuplicateRefused, Running, TypeInv, TypeOK
  <2>2. ASSUME NEW k \in Launcher, Vanish(k) PROVE SinceInv'
    BY <2>2 DEF Vanish, SinceInv, SinceRunning, DuplicateRefused, Running, TypeInv, TypeOK
  <2>3. ASSUME NEW p \in Profile, Reenable(p) PROVE SinceInv'
    BY <2>3 DEF Reenable, SinceInv, SinceRunning, DuplicateRefused, Running
  <2> QED
    BY <1>9, <2>1, <2>2, <2>3 DEF World
<1>10. CASE UNCHANGED vars
  BY <1>10 DEF vars, SinceInv, SinceRunning, DuplicateRefused, Running
<1> QED
  BY <1>1, <1>2, <1>3, <1>4, <1>5, <1>6, <1>7, <1>8, <1>9, <1>10
     DEF Next, Launch, Finished

LEMMA SinceInvariant == Spec => [](TypeInv /\ SinceInv)
BY SinceInit, SinceStep, TypeInit, TypeStep, PTL DEF Spec

(* No launch goes past its check, or reports success, with an instance of  *)
(* its profile that was running before it began (launch.go): for any       *)
(* number of launches at once.                                             *)
THEOREM DuplicatesRefused == Spec => []DuplicateRefused
<1>1. SinceInv => DuplicateRefused
  BY DEF SinceInv
<1> QED
  BY <1>1, SinceInvariant, PTL

(* The settings of a profile are changed by a launch of it only, and by    *)
(* none under an instance that was running before the launch began         *)
(* (runtime_policy.go).                                                    *)
THEOREM SettingsKept == Spec => RunningSettingsKept
<1>1. TypeInv /\ SinceInv /\ [Next]_vars =>
          [\A p \in Profile :
              (deps[p] /\ ~deps'[p]) =>
                  \E l \in Launcher : /\ profile[l] = p /\ pc[l] = "guard"
                                      /\ since[l] = {}]_vars
  <2> SUFFICES ASSUME TypeInv, SinceInv, Next, NEW p \in Profile, deps[p], ~deps'[p]
               PROVE  \E l \in Launcher : /\ profile[l] = p /\ pc[l] = "guard"
                                          /\ since[l] = {}
    OBVIOUS
  <2>1. deps' # deps
    OBVIOUS
  <2>2. ASSUME NEW l \in Launcher, Guard(l)
        PROVE  profile[l] = p /\ pc[l] = "guard" /\ since[l] = {}
    <3>1. deps' = [deps EXCEPT ![profile[l]] = FALSE]
      BY <2>1, <2>2 DEF Guard
    <3>2. profile[l] = p
      BY <3>1 DEF TypeInv, TypeOK
    <3> QED
      BY <2>2, <3>2 DEF Guard, SinceInv, DuplicateRefused
  <2>3. \A l \in Launcher : Launch(l) => Guard(l)
    BY <2>1 DEF Launch, Refuse, MakeRoot, Inspect, Mkdir, CheckRunning, Open, Await
  <2>4. ~World
    BY DEF World, Appear, Vanish, Reenable, TypeInv, TypeOK
  <2> QED
    BY <2>1, <2>2, <2>3, <2>4 DEF Next, Finished, vars
<1> QED
  BY <1>1, SinceInvariant, PTL DEF Spec, RunningSettingsKept

-----------------------------------------------------------------------------
LEMMA PassedInit == Init => Passed
<1> SUFFICES ASSUME Init PROVE Passed
  OBVIOUS
<1>1. \A l \in Launcher : pc[l] = "root" /\ app[l] = "none" /\ next[l] = 1
  BY DEF Init
<1>2. \A i \in 1..4 : ~(i < 1)
  OBVIOUS
<1> QED
  BY <1>1, <1>2 DEF Passed

(* What is private stays private, and the rest follows from where a launch *)
(* is.                                                                     *)
LEMMA PassedLater ==
    ASSUME TypeInv, Passed, NEW l \in Launcher, profile' = profile,
           \A q \in Path : fs[q] = "private" => fs'[q] = "private",
           \A k \in Launcher \ {l} : pc'[k] = pc[k] /\ next'[k] = next[k]
                                   /\ (app'[k] # "none" <=> app[k] # "none"),
           pc'[l] \notin {"root", "done"} \/ app'[l] # "none" => fs'[Root] = "private",
           pc'[l] # "done" \/ app'[l] # "none" =>
               \A i \in 1..4 : i < next'[l] => fs'[Owned(profile[l])[i]] = "private"
    PROVE  Passed'
<1> SUFFICES ASSUME NEW k \in Launcher
             PROVE  /\ pc'[k] \notin {"root", "done"} \/ app'[k] # "none"
                           => fs'[Root] = "private"
                    /\ pc'[k] # "done" \/ app'[k] # "none" =>
                           \A i \in 1..4 : i < next'[k] =>
                               fs'[Owned(profile'[k])[i]] = "private"
  BY DEF Passed
<1>1. CASE k = l
  <2>1. profile'[k] = profile[l] /\ pc'[k] = pc'[l] /\ app'[k] = app'[l]
        /\ next'[k] = next'[l]
    BY <1>1
  <2> QED
    BY <2>1
<1>2. CASE k # l
  <2>1. profile[k] \in Profile
    BY DEF TypeInv, TypeOK
  <2> QED
    BY <1>2, <2>1, PathLemma DEF Passed
<1> QED
  BY <1>1, <1>2

LEMMA PassedReturn ==
    ASSUME TypeInv, Passed, NEW l \in Launcher, NEW r, Return(l, r),
           UNCHANGED <<fs, app>>
    PROVE  Passed'
<1>1. /\ pc'[l] = "done" /\ UNCHANGED <<profile, next>>
      /\ \A k \in Launcher \ {l} : pc'[k] = pc[k]
  BY DEF Return, TypeInv, TypeOK
<1>2. app[l] # "none" =>
          /\ fs[Root] = "private"
          /\ \A i \in 1..4 : i < next[l] => fs[Owned(profile[l])[i]] = "private"
  BY DEF Passed
<1> QED
  BY <1>1, <1>2, PassedLater

LEMMA PassedGoto ==
    ASSUME TypeInv, Passed, NEW l \in Launcher, NEW where, Goto(l, where),
           UNCHANGED <<fs, next>>, pc[l] \notin {"root", "done"},
           \A k \in Launcher \ {l} : app'[k] = app[k]
    PROVE  Passed'
<1>1. /\ profile' = profile
      /\ \A k \in Launcher \ {l} : pc'[k] = pc[k]
  BY DEF Goto, TypeInv, TypeOK
<1>2. /\ fs[Root] = "private"
      /\ \A i \in 1..4 : i < next[l] => fs[Owned(profile[l])[i]] = "private"
  BY DEF Passed
<1> QED
  BY <1>1, <1>2, PassedLater

LEMMA PassedEnsured ==
    ASSUME TypeInv, Passed, NEW l \in Launcher, Ensured(l), app' = app,
           pc[l] \in {"inspect", "mkdir"},
           fs' = [fs EXCEPT ![Current(l)] = "private"]
    PROVE  Passed'
<1>1. /\ profile' = profile /\ next'[l] = next[l] + 1 /\ next[l] \in 1..4
      /\ \A k \in Launcher \ {l} : pc'[k] = pc[k] /\ next'[k] = next[k]
  BY DEF Ensured, Goto, TypeInv, TypeOK, Walking
<1>2. /\ fs'[Current(l)] = "private"
      /\ \A q \in Path : fs[q] = "private" => fs'[q] = "private"
  BY CurrentType DEF TypeInv, TypeOK
<1>3. /\ fs[Root] = "private"
      /\ \A i \in 1..4 : i < next[l] => fs[Owned(profile[l])[i]] = "private"
  BY DEF Passed
<1>4. profile[l] \in Profile
  BY DEF TypeInv, TypeOK
<1>5. ASSUME NEW i \in 1..4, i < next'[l]
      PROVE  fs'[Owned(profile[l])[i]] = "private"
  <2>1. CASE i = next[l]
    BY <1>2, <2>1 DEF Current
  <2>2. CASE i < next[l]
    BY <1>2, <1>3, <1>4, <2>2, PathLemma
  <2> QED
    BY <1>1, <1>5, <2>1, <2>2
<1> QED
  BY <1>1, <1>2, <1>3, <1>5, PathLemma, PassedLater

LEMMA PassedStep == TypeInv /\ Passed /\ [Next]_vars => Passed'
<1> SUFFICES ASSUME TypeInv, Passed, [Next]_vars PROVE Passed'
  OBVIOUS
<1>1. ASSUME NEW l \in Launcher, MakeRoot(l) PROVE Passed'
  <2>1. CASE /\ fs' = [fs EXCEPT ![Root] = "private"]
             /\ Goto(l, "inspect") /\ UNCHANGED <<app, next>>
    <3>1. /\ fs'[Root] = "private"
          /\ \A q \in Path : fs[q] = "private" => fs'[q] = "private"
      BY <2>1, PathLemma DEF TypeInv, TypeOK
    <3>2. next[l] = 1
      BY <1>1 DEF MakeRoot, TypeInv, Walking
    <3>3. /\ profile' = profile /\ next' = next
          /\ \A k \in Launcher \ {l} : pc'[k] = pc[k]
      BY <2>1 DEF Goto, TypeInv, TypeOK
    <3> QED
      BY <2>1, <3>1, <3>2, <3>3, PassedLater
  <2> QED
    BY <1>1, <2>1, PassedReturn DEF MakeRoot
<1>2. ASSUME NEW l \in Launcher, Inspect(l) \/ Mkdir(l) PROVE Passed'
  BY <1>2, PassedReturn, PassedGoto, PassedEnsured DEF Inspect, Mkdir
<1>3. ASSUME NEW l \in Launcher,
             Refuse(l) \/ CheckRunning(l) \/ Guard(l) \/ Await(l)
      PROVE  Passed'
  BY <1>3, PassedReturn, PassedGoto DEF Refuse, CheckRunning, Guard, Await
<1>4. ASSUME NEW l \in Launcher, Open(l) PROVE Passed'
  <2>1. CASE /\ app' = [app EXCEPT ![l] = "opening"]
             /\ Goto(l, "await") /\ UNCHANGED <<fs, next>>
    <3>1. \A k \in Launcher \ {l} : app'[k] = app[k]
      BY <2>1 DEF TypeInv, TypeOK
    <3> QED
      BY <1>4, <2>1, <3>1, PassedGoto DEF Open
  <2> QED
    BY <1>4, <2>1, PassedReturn DEF Open
<1>5. CASE World
  <2>1. UNCHANGED <<profile, fs, pc, next>>
    BY <1>5 DEF World, Appear, Vanish, Reenable
  <2>2. \A k \in Launcher : app'[k] # "none" <=> app[k] # "none"
    BY <1>5 DEF World, Appear, Vanish, Reenable, TypeInv, TypeOK
  <2> QED
    BY <2>1, <2>2 DEF Passed
<1>6. CASE UNCHANGED vars
  BY <1>6 DEF vars, Passed
<1> QED
  BY <1>1, <1>2, <1>3, <1>4, <1>5, <1>6 DEF Next, Launch, Finished

(* An instance is opened on directories that are private, whoever made     *)
(* them and whatever other launches are doing (paths.go).                  *)
THEOREM OpenedPrivate == Spec => []DirectoriesPrivate
<1>1. TypeInv /\ Passed => DirectoriesPrivate
  BY DEF TypeInv, Walking, Passed, DirectoriesPrivate
<1> QED
  BY <1>1, PassedInit, PassedStep, TypeInvariant, PTL DEF Spec

=============================================================================
