------------------------- MODULE CommandEnvironment -------------------------
(***************************************************************************)
(* The environment of the two commands a launch runs: what the shell       *)
(* passed on, without its proxy variables, and what the profile sets over  *)
(* it (mergeEnvironment and BuildOpenCommand of internal/launch/launch.go, *)
(* BuildWorkspaceDependencyGuard of internal/launch/runtime_policy.go).    *)
(*                                                                         *)
(* An entry is a record [key, value]; the value is Bare when it has no     *)
(* equals sign.  The environment is a sequence and may repeat a key.       *)
(***************************************************************************)
EXTENDS Integers, SequencesExt

CONSTANTS
    Keys,       \* the variables the shell may pass on
    Values,     \* their values
    Proxies,    \* the proxy of the profile, or NoProxy
    Home, Data, \* the profile's two directories
    Bare,
    MaxEntries  \* bound: entries passed on by the shell

VARIABLES inherited, proxy, command, environment, arguments

vars == <<inherited, proxy, command, environment, arguments>>

ProxyVariables == {"HTTP_PROXY", "HTTPS_PROXY", "ALL_PROXY"}

ScrubbedProxyEnvironmentKeys ==
    ProxyVariables \cup {"http_proxy", "https_proxy", "all_proxy", "NO_PROXY", "no_proxy"}

NoProxy == ""

Entry(key, value) == [key |-> key, value |-> value]

(* The entries of s, in their order, but for those of the given keys; of   *)
(* these the ones with a value in spared stay.                             *)
Without(s, keys, spared) ==
    LET kept[k \in 0..Len(s)] ==
            IF k = 0 THEN <<>>
            ELSE IF s[k].key \in keys /\ s[k].value \notin spared THEN kept[k - 1]
            ELSE Append(kept[k - 1], s[k])
    IN  kept[Len(s)]

(* Mutant: only a variable that has a value is dropped.                    *)
ScrubWithValue(base) == Without(base, ScrubbedProxyEnvironmentKeys, {""})

Scrub(base) == Without(base, ScrubbedProxyEnvironmentKeys, {})

(* Mutant: the shell's entry stays, and comes first.                       *)
OverrideLast(merged, override) == Append(merged, override)

(* Every entry of the key that has a value goes; the new one comes last.   *)
Override(merged, override) ==
    Append(Without(merged, {override.key}, {Bare}), override)

MergeEnvironment(base, overrides) ==
    LET merged[k \in 0..Len(overrides)] ==
            IF k = 0 THEN Scrub(base) ELSE Override(merged[k - 1], overrides[k])
    IN  merged[Len(overrides)]

GuardCommand ==
    [args |-> <<"features", "disable", "workspace_dependencies">>,
     env |-> <<Entry("CODEX_HOME", Home)>>]

OpenCommand(p) ==
    [args |-> <<"--user-data-dir", Data>>
              \o (IF p = NoProxy THEN <<>> ELSE <<"--proxy-server", p>>),
     env |-> <<Entry("CODEX_HOME", Home), Entry("CODEX_ELECTRON_USER_DATA_PATH", Data)>>
             \o (IF p = NoProxy THEN <<>>
                 ELSE <<Entry("HTTP_PROXY", p), Entry("HTTPS_PROXY", p),
                        Entry("ALL_PROXY", p)>>)]

Entries == {Entry(k, v) : k \in Keys, v \in Values \cup {Bare}}

Init ==
    /\ inherited \in BoundedSeq(Entries, MaxEntries)
    /\ proxy \in Proxies
    /\ command = "none"
    /\ environment = <<>>
    /\ arguments = <<>>

Run(name, spec) ==
    /\ command' = name
    /\ environment' = MergeEnvironment(inherited, spec.env)
    /\ arguments' = spec.args
    /\ UNCHANGED <<inherited, proxy>>

Guard == command = "none" /\ Run("guard", GuardCommand)

Open == command = "guard" /\ Run("open", OpenCommand(proxy))

Finished == command = "open" /\ UNCHANGED vars

Next == Guard \/ Open \/ Finished

Spec == Init /\ [][Next]_vars

-----------------------------------------------------------------------------
At(key) == {i \in DOMAIN environment : environment[i].key = key}

(* No command sees a proxy of the shell: the guard sees none, the instance *)
(* sees the profile's, in all three variables and on its command line, or  *)
(* none at all.                                                            *)
ProxyOnlyFromProfile ==
    command # "none" =>
        LET expected == IF command = "open" /\ proxy # NoProxy
                        THEN {Entry(k, proxy) : k \in ProxyVariables} ELSE {}
        IN  /\ {environment[i] : i \in UNION {At(k) : k \in ScrubbedProxyEnvironmentKeys}}
                   = expected
            /\ command = "open" =>
                  (proxy # NoProxy <=> IsSuffix(<<"--proxy-server", proxy>>, arguments))

(* The profile's home is what a command finds under CODEX_HOME, whatever   *)
(* and however often the shell set it: no other entry of it has a value.   *)
(* What the shell set besides is passed on, in its order.                  *)
HomeIsProfiles ==
    command # "none" =>
        LET Ours == ScrubbedProxyEnvironmentKeys
                        \cup {"CODEX_HOME", "CODEX_ELECTRON_USER_DATA_PATH"}
        IN  /\ {environment[i].value : i \in At("CODEX_HOME")} \ {Bare} = {Home}
            /\ Without(environment, Ours, {}) = Without(inherited, Ours, {})

=============================================================================
