--------------------------- MODULE LaunchService ---------------------------
(***************************************************************************)
(* Several `cpr launch <profile>` commands at once (internal/launch, and   *)
(* PrepareProfilePaths of internal/runtime/paths.go).  Each is a process   *)
(* of its own; they share the runtime directories, the profiles' Codex     *)
(* settings and the process table, and there is no lock between them.      *)
(***************************************************************************)
EXTENDS Integers, Sequences

CONSTANTS
    Launcher,   \* the launch commands, each of which may open one instance
    Profile,
    Layouts,    \* what may be on the disk when the first launch begins
    MaxPolls    \* bound: sleeps before the verification deadline

ASSUME PollAssumption == MaxPolls \in Nat

VARIABLES
    profile,    \* the profile each launcher was asked for
    fs,         \* what is at each runtime path
    deps,       \* is workspace_dependencies on in the profile's settings?
    app,        \* the instance each launcher opened
    pc, next, polls, result,    \* each launcher's progress
    since       \* the instances of its profile that have been running ever
                \* since a launcher began

vars == <<profile, fs, deps, app, pc, next, polls, result, since>>

(***************************************************************************)
(* The runtime paths.  A directory is private when its mode is 0700; an    *)
(* alias is a symbolic link.                                               *)
(***************************************************************************)
Root == <<"root">>
Owned(p) == << <<"profiles">>, <<"profile", p>>, <<"codex-home", p>>,
               <<"chatgpt-user-data", p>> >>
Path == {Root} \cup UNION {{Owned(p)[i] : i \in 1..4} : p \in Profile}

Kind == {"absent", "private", "shared", "alias", "file"}

Results == {"ok", "invalid", "directory", "exists", "already_running", "scan",
            "guard", "start", "timeout"}

ASSUME LayoutAssumption == Layouts \subseteq [Path -> Kind]

Init ==
    /\ profile \in [Launcher -> Profile]
    /\ fs \in Layouts
    /\ deps \in [Profile -> BOOLEAN]
    /\ app = [l \in Launcher |-> "none"]
    /\ pc = [l \in Launcher |-> "root"]
    /\ next = [l \in Launcher |-> 1]
    /\ polls = [l \in Launcher |-> 0]
    /\ result = [l \in Launcher |-> "none"]
    /\ since = [l \in Launcher |-> {}]

Running(p) == {k \in Launcher : profile[k] = p /\ app[k] = "running"}

Goto(l, where) ==
    /\ pc' = [pc EXCEPT ![l] = where]
    /\ UNCHANGED <<profile, result>>

Return(l, r) ==
    /\ pc' = [pc EXCEPT ![l] = "done"]
    /\ result' = [result EXCEPT ![l] = r]
    /\ UNCHANGED <<profile, polls, next, since>>

-----------------------------------------------------------------------------
(* PrepareProfilePaths. *)

(* Refused before anything is touched: no runner or scanner, an invalid    *)
(* app, a profile id that cannot be a path.                                *)
Refuse(l) ==
    /\ pc[l] = "root"
    /\ Return(l, "invalid")
    /\ UNCHANGED <<fs, deps, app>>

(* MkdirAll of the root tolerates one that exists, a link to a directory   *)
(* included; then the directory it stands for is made private.             *)
MakeRoot(l) ==
    /\ pc[l] = "root"
    /\ \/ /\ fs[Root] # "file"
          /\ fs' = [fs EXCEPT ![Root] = "private"]
          /\ since' = [since EXCEPT ![l] = Running(profile[l])]
          /\ Goto(l, "inspect")
          /\ UNCHANGED <<deps, app, next, polls>>
       \/ /\ fs[Root] = "file"
          /\ Return(l, "directory")
          /\ UNCHANGED <<fs, deps, app>>

Current(l) == Owned(profile[l])[next[l]]

(* Mutant: the instance check is skipped.                                  *)
EnsuredUnchecked(l) ==
    /\ next' = [next EXCEPT ![l] = @ + 1]
    /\ Goto(l, IF next[l] = 4 THEN "guard" ELSE "inspect")

(* On to the next of the four directories, then to the instance check.     *)
Ensured(l) ==
    /\ next' = [next EXCEPT ![l] = @ + 1]
    /\ Goto(l, IF next[l] = 4 THEN "check" ELSE "inspect")

(* Mutant: a directory that exists is taken as it is.                      *)
InspectOnly(l) ==
    /\ pc[l] = "inspect"
    /\ UNCHANGED <<fs, deps, app>>
    /\ \/ /\ fs[Current(l)] = "absent"
          /\ Goto(l, "mkdir")
          /\ UNCHANGED <<next, polls, since>>
       \/ /\ fs[Current(l)] \in {"private", "shared"}
          /\ Ensured(l)
          /\ UNCHANGED <<polls, since>>
       \/ /\ fs[Current(l)] \in {"alias", "file"}
          /\ Return(l, "directory")

(* ensureDirectoryWithin: Lstat, and what follows for a path that exists.  *)
(* The checks PrepareProfilePaths repeats afterwards can fail only when    *)
(* another program swaps a directory, and nothing here does.               *)
Inspect(l) ==
    /\ pc[l] = "inspect"
    /\ UNCHANGED <<deps, app>>
    /\ \/ /\ fs[Current(l)] = "absent"
          /\ Goto(l, "mkdir")
          /\ UNCHANGED <<fs, next, polls, since>>
       \/ /\ fs[Current(l)] \in {"private", "shared"}
          /\ fs' = [fs EXCEPT ![Current(l)] = "private"]
          /\ Ensured(l)
          /\ UNCHANGED <<polls, since>>
       \/ /\ fs[Current(l)] \in {"alias", "file"}
          /\ Return(l, "directory")
          /\ UNCHANGED fs

(* Mkdir fails on a path that has appeared since it was inspected.         *)
Mkdir(l) ==
    /\ pc[l] = "mkdir"
    /\ UNCHANGED <<deps, app>>
    /\ \/ /\ fs[Current(l)] = "absent"
          /\ fs' = [fs EXCEPT ![Current(l)] = "private"]
          /\ Ensured(l)
          /\ UNCHANGED <<polls, since>>
       \/ /\ fs[Current(l)] # "absent"
          /\ Return(l, "exists")
          /\ UNCHANGED fs

-----------------------------------------------------------------------------
(* FindMain before the launch.  It is taken in one step, and without the   *)
(* silent faults of the scanner: an instance that has been running ever    *)
(* since before a scan is found by it.  Its errors are modelled.           *)
CheckRunning(l) ==
    /\ pc[l] = "check"
    /\ UNCHANGED <<fs, deps, app>>
    /\ \/ Running(profile[l]) # {} /\ Return(l, "already_running")
       \/ Return(l, "scan")
       \/ /\ Running(profile[l]) = {}
          /\ Goto(l, "guard")
          /\ UNCHANGED <<next, polls, since>>

(* `codex features disable workspace_dependencies`, in the profile's own   *)
(* settings.  A command that fails or times out may have written already.  *)
Guard(l) ==
    /\ pc[l] = "guard"
    /\ UNCHANGED <<fs, app>>
    /\ \/ /\ deps' = [deps EXCEPT ![profile[l]] = FALSE]
          /\ Goto(l, "open")
          /\ UNCHANGED <<next, polls, since>>
       \/ /\ deps' \in {deps, [deps EXCEPT ![profile[l]] = FALSE]}
          /\ Return(l, "guard")

(* `open -n` returns before the instance appears.                          *)
Open(l) ==
    /\ pc[l] = "open"
    /\ UNCHANGED <<fs, deps>>
    /\ \/ /\ app' = [app EXCEPT ![l] = "opening"]
          /\ Goto(l, "await")
          /\ UNCHANGED <<next, polls, since>>
       \/ Return(l, "start") /\ UNCHANGED app

(* Mutant: the deadline is set anew at every turn.                         *)
AwaitForever(l) ==
    /\ pc[l] = "await"
    /\ UNCHANGED <<fs, deps, app>>
    /\ \/ Running(profile[l]) # {} /\ Return(l, "ok")
       \/ Return(l, "scan")
       \/ /\ Running(profile[l]) = {}
          /\ polls' = [polls EXCEPT ![l] = (@ + 1) % (MaxPolls + 1)]
          /\ Goto(l, "await")
          /\ UNCHANGED <<next, since>>

(* Mutant: one sleep too many.                                             *)
AwaitPastDeadline(l) ==
    /\ pc[l] = "await"
    /\ UNCHANGED <<fs, deps, app>>
    /\ \/ Running(profile[l]) # {} /\ Return(l, "ok")
       \/ Return(l, "scan")
       \/ Running(profile[l]) = {} /\ Return(l, "timeout")
       \/ /\ Running(profile[l]) = {}
          /\ polls[l] <= MaxPolls
          /\ polls' = [polls EXCEPT ![l] = @ + 1]
          /\ Goto(l, "await")
          /\ UNCHANGED <<next, since>>

(* waitForMain: any main process of the profile will do.                   *)
Await(l) ==
    /\ pc[l] = "await"
    /\ UNCHANGED <<fs, deps, app>>
    /\ \/ Running(profile[l]) # {} /\ Return(l, "ok")
       \/ Return(l, "scan")
       \/ Running(profile[l]) = {} /\ Return(l, "timeout")
       \/ /\ Running(profile[l]) = {}
          /\ polls[l] < MaxPolls
          /\ polls' = [polls EXCEPT ![l] = @ + 1]
          /\ Goto(l, "await")
          /\ UNCHANGED <<next, since>>

Launch(l) ==
    \/ Refuse(l) \/ MakeRoot(l) \/ Inspect(l) \/ Mkdir(l)
    \/ CheckRunning(l) \/ Guard(l) \/ Open(l) \/ Await(l)

-----------------------------------------------------------------------------
(* The rest of the machine: an instance shows up, or does not, and ends;   *)
(* the user turns the feature on again.                                    *)

Appear(k) ==
    /\ app[k] = "opening"
    /\ app' = [app EXCEPT ![k] = "running"]
    /\ UNCHANGED <<profile, fs, deps, pc, next, polls, result, since>>

Vanish(k) ==
    /\ app[k] \in {"opening", "running"}
    /\ app' = [app EXCEPT ![k] = "gone"]
    /\ since' = [l \in Launcher |-> since[l] \ {k}]
    /\ UNCHANGED <<profile, fs, deps, pc, next, polls, result>>

Reenable(p) ==
    /\ ~deps[p]
    /\ deps' = [deps EXCEPT ![p] = TRUE]
    /\ UNCHANGED <<profile, fs, app, pc, next, polls, result, since>>

World ==
    \/ \E k \in Launcher : Appear(k) \/ Vanish(k)
    \/ \E p \in Profile : Reenable(p)

Finished == (\A l \in Launcher : pc[l] = "done") /\ UNCHANGED vars

Next == (\E l \in Launcher : Launch(l)) \/ World \/ Finished

Spec == Init /\ [][Next]_vars

(* A launch command takes its next step; instances and users need not.     *)
FairSpec == Spec /\ \A l \in Launcher : WF_vars(Launch(l))

-----------------------------------------------------------------------------
TypeOK ==
    /\ profile \in [Launcher -> Profile]
    /\ fs \in [Path -> Kind]
    /\ deps \in [Profile -> BOOLEAN]
    /\ app \in [Launcher -> {"none", "opening", "running", "gone"}]
    /\ pc \in [Launcher -> {"root", "inspect", "mkdir", "check", "guard", "open",
                            "await", "done"}]
    /\ next \in [Launcher -> 1..5]
    /\ polls \in [Launcher -> 0..MaxPolls]
    /\ result \in [Launcher -> Results \cup {"none"}]
    /\ since \in [Launcher -> SUBSET Launcher]

(* A launch goes past its check, and reports success, only when no         *)
(* instance of the profile has been running ever since it began: launching *)
(* a running profile again is refused, whatever other launches do.         *)
DuplicateRefused ==
    \A l \in Launcher :
        (pc[l] \in {"guard", "open", "await"} \/ result[l] = "ok") => since[l] = {}

(* The settings of a profile are changed only by a launch of it during     *)
(* which no instance has been running since the launch began: a rejected   *)
(* duplicate leaves them to the running instance.                          *)
RunningSettingsKept ==
    [][\A p \in Profile :
          (deps[p] /\ ~deps'[p]) =>
              \E l \in Launcher : /\ profile[l] = p /\ pc[l] = "guard"
                                  /\ since[l] = {}]_vars

(* An instance is opened on directories that are there and private, be     *)
(* they made by this launch, by another one or long before.                *)
DirectoriesPrivate ==
    \A l \in Launcher :
        app[l] # "none" =>
            /\ fs[Root] = "private"
            /\ \A i \in 1..4 : fs[Owned(profile[l])[i]] = "private"

(* A launch of one profile never fails because of a launch of another: the *)
(* documentation says that both can be started at the same time.           *)
LaunchesIndependent ==
    \A l \in Launcher :
        result[l] = "exists" =>
            \E k \in Launcher \ {l} : profile[k] = profile[l]

(* Every launch returns, whether or not the instance shows up.             *)
LaunchReturns == \A l \in Launcher : <>(pc[l] = "done")

=============================================================================
