---------------------------- MODULE CommandLine ----------------------------
(***************************************************************************)
(* One run of cpr (cmd/cpr/main.go): the command is chosen, its arguments  *)
(* are read one after the other, the configuration is loaded, the profile  *)
(* is looked up and one service is called; the exit code says how it went. *)
(***************************************************************************)
EXTENDS Integers, SequencesExt

CONSTANTS
    Words,      \* the arguments a user may give
    MaxWords,   \* bound: arguments behind the command
    Files       \* what the configuration files hold: for each path, the
                \* profiles of a valid one, or Unreadable
CONSTANTS Unreadable, NoCall

VARIABLES
    command, args,          \* what was typed
    files, homeless,        \* the configurations; is there no home directory?
    pc, next,               \* progress; the next argument to read
    profile, force, json, config,   \* what the arguments said so far
    call, exit              \* the service called, and the exit code

typed == <<command, args, files, homeless>>
parsed == <<profile, force, json, config>>
vars == <<typed, pc, next, parsed, call, exit>>

Commands == {"validate", "launch", "list", "stop"}

(* The words with a meaning of their own; every other word that begins     *)
(* with a dash is an unknown option.                                       *)
Dashed == {"--force", "--json", "--config", "--config=", "--config=c", "-x"}

DefaultPath == "default"
Empty == ""     \* no profile or path was read; a word may be empty as well

Init ==
    /\ command \in Commands \cup {"other", "none"}
    /\ args \in BoundedSeq(Words, MaxWords)
    /\ files \in Files
    /\ homeless \in BOOLEAN
    /\ pc = "choose" /\ next = 1
    /\ profile = Empty /\ force = FALSE /\ json = FALSE /\ config = Empty
    /\ call = NoCall /\ exit = -1

Exit(code) ==
    /\ pc' = "done"
    /\ exit' = code
    /\ UNCHANGED <<typed, next, parsed>>

Goto(where) == pc' = where /\ UNCHANGED <<typed, call, exit>>

Choose ==
    /\ pc = "choose"
    /\ \/ command \in Commands /\ Goto("parse") /\ UNCHANGED <<next, parsed>>
       \/ command \notin Commands /\ Exit(2) /\ UNCHANGED call

-----------------------------------------------------------------------------
(* parseLaunchArgs, parseStopArgs and parseListArgs: one turn of the loop. *)

Word == args[next]

Skip(n) == next' = next + n /\ Goto("parse")

TakesForce == command = "stop"
TakesJson == command = "list"
TakesProfile == command \in {"launch", "stop"}

ReadSwitch ==
    \/ TakesForce /\ Word = "--force" /\ force' = TRUE /\ UNCHANGED <<json, profile, config>>
    \/ TakesJson /\ Word = "--json" /\ json' = TRUE /\ UNCHANGED <<force, profile, config>>

HasPath == next < Len(args) /\ args[next + 1] # Empty

ReadPath ==
    /\ Word = "--config" /\ HasPath
    /\ config' = args[next + 1]
    /\ UNCHANGED <<force, json, profile>>

ReadInlinePath ==
    Word = "--config=c" /\ config' = "c" /\ UNCHANGED <<force, json, profile>>

Expected ==
    \/ TakesForce /\ Word = "--force"
    \/ TakesJson /\ Word = "--json"
    \/ Word = "--config" /\ HasPath
    \/ Word = "--config=c"
    \/ TakesProfile /\ Word \notin Dashed /\ profile = Empty

(* Mutant: a switch may be anywhere, behind --config as well.              *)
ReadWordsAnywhere ==
    /\ pc = "parse" /\ command # "validate" /\ next <= Len(args)
    /\ \/ ReadSwitch /\ Skip(1)
       \/ ReadPath /\ Skip(1)
       \/ ReadInlinePath /\ Skip(1)
       \/ /\ TakesProfile /\ Word \notin Dashed /\ profile = Empty
          /\ profile' = Word
          /\ UNCHANGED <<force, json, config>>
          /\ Skip(1)
       \/ ~Expected /\ Exit(2) /\ UNCHANGED call

(* An empty word is taken for the profile and yet leaves it to be given.   *)
ReadWord ==
    /\ pc = "parse" /\ command # "validate" /\ next <= Len(args)
    /\ \/ ReadSwitch /\ Skip(1)
       \/ ReadPath /\ Skip(2)
       \/ ReadInlinePath /\ Skip(1)
       \/ /\ TakesProfile /\ Word \notin Dashed /\ profile = Empty
          /\ profile' = Word
          /\ UNCHANGED <<force, json, config>>
          /\ Skip(1)
       \/ ~Expected /\ Exit(2) /\ UNCHANGED call

AllRead ==
    /\ pc = "parse" /\ command # "validate" /\ next > Len(args)
    /\ IF TakesProfile /\ profile = Empty
       THEN Exit(2) /\ UNCHANGED call
       ELSE Goto("load") /\ UNCHANGED <<next, parsed>>

(* validate leaves its arguments to the flag package: help, an error, left *)
(* over words, or a path that may be empty.                                *)
ParseFlags ==
    /\ pc = "parse" /\ command = "validate"
    /\ \/ \E code \in {0, 2} : Exit(code) /\ UNCHANGED call
       \/ /\ config' \in {Empty, "c"}
          /\ Goto("load")
          /\ UNCHANGED <<next, profile, force, json>>

-----------------------------------------------------------------------------
Path == IF config = Empty THEN DefaultPath ELSE config

Loaded == IF Path \in DOMAIN files THEN files[Path] ELSE Unreadable

Load ==
    /\ pc = "load"
    /\ IF homeless \/ Loaded = Unreadable THEN Exit(1) /\ UNCHANGED call
       ELSE IF command = "validate" THEN Exit(0) /\ UNCHANGED call
       ELSE IF TakesProfile /\ profile \notin Loaded THEN Exit(1) /\ UNCHANGED call
       ELSE Goto("serve") /\ UNCHANGED <<next, parsed>>

(* The list is also written; that may fail as well.                        *)
Serve ==
    /\ pc = "serve"
    /\ \E ok \in BOOLEAN :
        /\ call' = [service |-> command, profile |-> profile, force |-> force, ok |-> ok]
        /\ Exit(IF ok THEN 0 ELSE 1)

Finished == pc = "done" /\ UNCHANGED vars

Next == Choose \/ ReadWord \/ AllRead \/ ParseFlags \/ Load \/ Serve \/ Finished

Spec == Init /\ [][Next]_vars

-----------------------------------------------------------------------------
(* What the arguments mean, position by position and not in order: a word  *)
(* is a path when the word before it is --config and is not a path itself. *)
IsPath ==
    LET path[i \in 0..Len(args)] ==
            i > 1 /\ args[i - 1] = "--config" /\ ~path[i - 1]
    IN  path

Plain == {i \in DOMAIN args : ~IsPath[i]}

Given(word) == \E i \in Plain : args[i] = word

Named == {args[i] : i \in {j \in Plain : args[j] \notin Dashed}} \ {Empty}

(* The path given last. *)
Chosen ==
    LET given == {i \in DOMAIN args : IsPath[i] \/ (i \in Plain /\ args[i] = "--config=c")}
    IN  IF given = {} THEN DefaultPath
        ELSE LET last == CHOOSE i \in given : \A j \in given : j <= i IN
             IF IsPath[last] THEN args[last] ELSE "c"

(* A service is called for the profile that was named, which the file that *)
(* was chosen configures, and a stop kills only when --force was given as  *)
(* an option and not as the name of a file; the exit code says how it went *)
(* there.                                                                  *)
CallIsMeant ==
    call # NoCall =>
        /\ call.service = command
        /\ TakesProfile => /\ Named = {call.profile}
                           /\ Chosen \in DOMAIN files /\ call.profile \in files[Chosen]
        /\ call.force <=> (command = "stop" /\ Given("--force"))
        /\ exit = (IF call.ok THEN 0 ELSE 1)

=============================================================================
