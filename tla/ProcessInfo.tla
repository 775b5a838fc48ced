---------------------------- MODULE ProcessInfo ----------------------------
(***************************************************************************)
(* Process identity: what cpr knows of one process, and the three rules by *)
(* which it recognises one (internal/process/process.go).                  *)
(*                                                                         *)
(* A path is a model value.  What the code asks of an executable path is   *)
(* whether it is the configured main executable and whether it lies inside *)
(* the ChatGPT.app bundle; what it asks of argv is the set of cleaned      *)
(* values of its --user-data-dir flags.  A profile id stands for the       *)
(* user-data directory derived from it, which is different for every id.   *)
(***************************************************************************)
EXTENDS Integers

CONSTANTS
    Pid,        \* the process ids the kernel hands out
    Exe,        \* executable paths
    MainExe,    \* the ChatGPT main executable named by the configuration
    Bundle,     \* the executables inside the ChatGPT.app that holds MainExe
    Dir,        \* cleaned --user-data-dir values
    Profile,    \* configured profiles, each standing for its user-data dir
    Absent      \* in place of what is known of a process that is not there

Launchd == 1

ASSUME PidAssumption == Pid \subseteq Nat \ {0, Launchd}
ASSUME BundleAssumption == Bundle \subseteq Exe /\ MainExe \in Bundle
ASSUME ProfileAssumption == Profile \subseteq Dir

Info == [pid : Pid, ppid : Pid \cup {Launchd}, start : Nat, exe : Exe,
         dirs : SUBSET Dir]

ASSUME AbsentAssumption == Absent \notin Info

HasExactUserDataDir(info, dir) == dir \in info.dirs

(* Mutant: one flag that fits is enough.                                   *)
MatchesOneFlag(info, dir) ==
    /\ info.exe = MainExe
    /\ HasExactUserDataDir(info, dir)

(***************************************************************************)
(* A main process runs the main executable and names one profile, and no   *)
(* other directory beside it.                                              *)
(***************************************************************************)
MatchesMainProcess(info, dir) ==
    /\ info.exe = MainExe
    /\ HasExactUserDataDir(info, dir)
    /\ \A d \in info.dirs : d = dir

(* Mutant: a process is its id.                                            *)
SamePid(left, right) == left.pid = right.pid

(***************************************************************************)
(* The darwin scanner always reports a start time, so the zero-time cases  *)
(* of the code do not arise.                                               *)
(***************************************************************************)
SameIdentity(left, right) ==
    /\ left.pid = right.pid
    /\ left.start = right.start
    /\ left.exe = right.exe

=============================================================================
