----------------------------- MODULE Invocation -----------------------------
(***************************************************************************)
(* The parts of a run of cpr that nothing interleaves with, one part in    *)
(* each behaviour, over its own inputs: the command line, the paths of the *)
(* configuration, the environment of a command, the argv of a process.     *)
(* The other parts stay as they are before their first step.               *)
(***************************************************************************)
EXTENDS Integers, Sequences

CONSTANTS
    Words, MaxWords, Files, Unreadable, NoCall,
    Parts, MaxParts, Homes, Cwds, Error,
    Keys, Values, Proxies, Home, Data, Bare, MaxEntries,
    Strings, Variables, MaxArgs, MaxPad, Flag, Rejected

(* An entry without a value is none with the profile's home as its value.  *)
ASSUME BareAssumption == Bare # Home

ASSUME HomesAssumption == Homes \subseteq [abs : BOOLEAN, parts : Seq(STRING)]

ASSUME PartsAssumption == Parts \subseteq STRING

ASSUME StringsAssumption == Strings \cup Variables \subseteq Seq(Nat \ {0})

(* The flag is no beginning of the name of a variable.                     *)
ASSUME VariablesAssumption == \A v \in Variables : v = <<>> \/ v[1] # Flag

VARIABLES
    part,
    command, args, files, homeless, pc, next, profile, force, json, config, call, exit,
    raw, home, cwd, resolved,
    inherited, proxy, started, environment, arguments,
    argv, env, argc, block, decoded

lineVars == <<command, args, files, homeless, pc, next, profile, force, json, config,
              call, exit>>
pathVars == <<raw, home, cwd, resolved>>
environmentVars == <<inherited, proxy, started, environment, arguments>>
argvVars == <<argv, env, argc, block, decoded>>
vars == <<part, lineVars, pathVars, environmentVars, argvVars>>

Line == INSTANCE CommandLine
Paths == INSTANCE ConfigPaths
Environment == INSTANCE CommandEnvironment WITH command <- started
Argv == INSTANCE ArgvDecoding

LineIdle ==
    /\ command = "none" /\ args = <<>> /\ files = CHOOSE f \in Files : TRUE
    /\ homeless = FALSE /\ pc = "choose" /\ next = 1 /\ profile = Line!Empty /\ force = FALSE
    /\ json = FALSE /\ config = Line!Empty /\ call = NoCall /\ exit = -1
PathsIdle ==
    raw = Paths!Rel(<<>>) /\ home = raw /\ cwd = Paths!Abs(<<>>) /\ resolved = raw
EnvironmentIdle ==
    /\ inherited = <<>> /\ proxy = Environment!NoProxy /\ started = "none"
    /\ environment = <<>> /\ arguments = <<>>
ArgvIdle == argv = <<>> /\ env = <<>> /\ argc = 0 /\ block = <<>> /\ decoded = <<>>

Init ==
    \/ part = "line" /\ Line!Init /\ PathsIdle /\ EnvironmentIdle /\ ArgvIdle
    \/ part = "paths" /\ LineIdle /\ Paths!Init /\ EnvironmentIdle /\ ArgvIdle
    \/ part = "environment" /\ LineIdle /\ PathsIdle /\ Environment!Init /\ ArgvIdle
    \/ part = "argv" /\ LineIdle /\ PathsIdle /\ EnvironmentIdle /\ Argv!Init

Next ==
    /\ UNCHANGED part
    /\ \/ /\ part = "line" /\ Line!Next
          /\ UNCHANGED <<pathVars, environmentVars, argvVars>>
       \/ /\ part = "paths" /\ Paths!Next
          /\ UNCHANGED <<lineVars, environmentVars, argvVars>>
       \/ /\ part = "environment" /\ Environment!Next
          /\ UNCHANGED <<lineVars, pathVars, argvVars>>
       \/ /\ part = "argv" /\ Argv!Next
          /\ UNCHANGED <<lineVars, pathVars, environmentVars>>

Spec == Init /\ [][Next]_vars

-----------------------------------------------------------------------------
(* The service that is called is the one the arguments mean (main.go).     *)
CallIsMeant == Line!CallIsMeant

(* A root that is accepted is absolute and in normal form (paths.go).      *)
RootIsNormal == Paths!RootIsNormal

(* The default configuration lies in the default root (config.go).         *)
DefaultsAgree == Paths!DefaultsAgree

(* The root does not depend on where a command runs (paths.go).            *)
RootIsStable == Paths!RootIsStable

(* A command sees the profile's proxy or none (launch.go).                 *)
ProxyOnlyFromProfile == Environment!ProxyOnlyFromProfile

(* A command sees the profile's home and the rest of the shell's           *)
(* environment (launch.go).                                                *)
HomeIsProfiles == Environment!HomeIsProfiles

(* The argv of a process, or at least its profile flags, are read right    *)
(* (scanner_darwin.go).                                                    *)
ArgvExact == Argv!ArgvExact

=============================================================================
