---------------------------- MODULE ConfigPaths ----------------------------
(***************************************************************************)
(* How the configured paths become the absolute ones that launch, list and *)
(* stop share (Resolve of internal/config/config.go; the lexical half of   *)
(* internal/runtime/paths.go).  The file system is not asked.              *)
(*                                                                         *)
(* A path is a record [abs, parts]: does it begin with a slash, and what   *)
(* stands between its slashes, empty parts included; a relative path does  *)
(* not begin with an empty part.  The empty string has no parts.           *)
(***************************************************************************)
EXTENDS Integers, SequencesExt

CONSTANTS
    Parts,      \* the parts of a raw path
    MaxParts,   \* bound: how many it may have
    Homes,      \* home directories, as HOME gives them; the empty one: none
    Cwds,       \* working directories a command may run in
    Error       \* in place of a path

VARIABLES raw, home, cwd, resolved

vars == <<raw, home, cwd, resolved>>

Rel(parts) == [abs |-> FALSE, parts |-> parts]
Abs(parts) == [abs |-> TRUE, parts |-> parts]
EmptyPath == Rel(<<>>)
Empty == ""     \* between two slashes

-----------------------------------------------------------------------------
(* path/filepath. *)

CleanPart(done, part, abs) ==
    CASE part \in {Empty, "."} -> done
      [] part = ".." /\ done # <<>> /\ Last(done) # ".." -> Front(done)
      [] part = ".." /\ abs /\ done = <<>> -> done
      [] OTHER -> Append(done, part)

(* Part after part, on top of what is there. *)
CleanParts(path) ==
    LET done[k \in 0..Len(path.parts)] ==
            IF k = 0 THEN <<>> ELSE CleanPart(done[k - 1], path.parts[k], path.abs)
    IN  done[Len(path.parts)]

Clean(path) ==
    [path EXCEPT !.parts = IF CleanParts(path) = <<>> /\ ~path.abs THEN <<".">>
                           ELSE CleanParts(path)]

Join(path, parts) == Clean([path EXCEPT !.parts = @ \o parts])

MakeAbsolute(path) == IF path.abs THEN Clean(path) ELSE Join(cwd, path.parts)

-----------------------------------------------------------------------------
(* paths.go. *)

IsTilde(path) == ~path.abs /\ path.parts # <<>> /\ path.parts[1] = "~"
IsOtherUser(path) == ~path.abs /\ path.parts # <<>> /\ path.parts[1] = "~user"

ExpandHome(path, homeDir) ==
    CASE IsOtherUser(path) -> Error
      [] IsTilde(path) /\ homeDir = EmptyPath -> Error
      [] IsTilde(path) /\ homeDir # EmptyPath ->
             Join(MakeAbsolute(homeDir), Tail(path.parts))
      [] OTHER -> path

(* Mutant: a path that needs no expansion is taken as it is.               *)
ExpandOnly(path, homeDir) ==
    IF path = EmptyPath THEN Error ELSE ExpandHome(path, homeDir)

ExpandAndClean(path, homeDir) ==
    LET expanded == ExpandHome(path, homeDir) IN
    IF path = EmptyPath \/ expanded = Error THEN Error ELSE Clean(expanded)

NormalizePath(path, homeDir) ==
    LET cleaned == ExpandAndClean(path, homeDir) IN
    IF cleaned = Error THEN Error ELSE IF cleaned.abs THEN cleaned ELSE Error

DefaultRuntimeRoot(homeDir) ==
    Join(homeDir, <<"Library", "Application Support", "CodexProfileRuntime">>)

(* Mutant: the file lies in the home directory.                            *)
DefaultConfigAtHome(homeDir) == Join(homeDir, <<"config.json">>)

DefaultConfigPath(homeDir) == Join(DefaultRuntimeRoot(homeDir), <<"config.json">>)

(* Only the configuration file itself may be named by a relative path.     *)
NormalizeConfigPath(path, homeDir) ==
    LET cleaned == ExpandAndClean(path, homeDir) IN
    IF cleaned = Error THEN Error ELSE MakeAbsolute(cleaned)

-----------------------------------------------------------------------------
(* config.go. *)

(* Mutant: the home directory is taken as HOME gives it.                   *)
HomeAsGiven(homeDir) == homeDir

(* The command line passes on HOME; without one it stops before.           *)
ResolveHomeDir(homeDir) == NormalizePath(homeDir, EmptyPath)

RuntimeRoot ==
    LET homeDir == ResolveHomeDir(home) IN
    IF homeDir = Error THEN Error
    ELSE IF raw = EmptyPath THEN NormalizePath(DefaultRuntimeRoot(homeDir), homeDir)
    ELSE NormalizePath(raw, homeDir)

Init ==
    /\ raw \in {p \in [abs : BOOLEAN, parts : BoundedSeq(Parts, MaxParts)] :
                   p.abs \/ p.parts = <<>> \/ p.parts[1] # Empty}
    /\ home \in Homes
    /\ cwd \in Cwds
    /\ resolved = EmptyPath

Resolve ==
    /\ resolved' = RuntimeRoot
    /\ UNCHANGED <<raw, home, cwd>>

(* The next command runs somewhere else. *)
ChangeDirectory == cwd' \in Cwds /\ UNCHANGED <<raw, home, resolved>>

Next == Resolve \/ ChangeDirectory

Spec == Init /\ [][Next]_vars

-----------------------------------------------------------------------------
(* Commands that run in different directories work on the same root.       *)
RootIsStable == [][resolved # EmptyPath => resolved' = resolved]_vars

(* A root that was accepted is an absolute path in normal form, and means  *)
(* the same wherever it is written down again.                             *)
RootIsNormal ==
    resolved \notin {EmptyPath, Error} =>
        /\ resolved.abs
        /\ \A i \in DOMAIN resolved.parts : resolved.parts[i] \notin {Empty, ".", ".."}
        /\ NormalizePath(resolved, home) = resolved

(* With no root configured, the configuration that is read by default lies *)
(* in the root that is then used.                                          *)
DefaultsAgree ==
    (raw = EmptyPath /\ resolved \notin {EmptyPath, Error}) =>
        NormalizeConfigPath(DefaultConfigPath(home), home)
            = Join(resolved, <<"config.json">>)

=============================================================================
