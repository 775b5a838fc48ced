---------------------------- MODULE ArgvDecoding ----------------------------
(***************************************************************************)
(* processArgs (internal/process/scanner_darwin.go) on the block in which  *)
(* the kernel returns a process's arguments, and the --user-data-dir flags *)
(* that are read off the result (internal/process/process.go).             *)
(*                                                                         *)
(* A string is a sequence of symbols, none of which is NUL.  Flag stands   *)
(* for the text "--user-data-dir=".                                        *)
(***************************************************************************)
EXTENDS Integers, SequencesExt

CONSTANTS
    Strings,    \* the strings of arguments, at most MaxArgs of them
    Variables,  \* the strings of the environment, at most MaxArgs of them
    MaxArgs,
    MaxPad,     \* the longest padding between the path and the arguments
    Flag,
    Rejected    \* in place of an argv: an error

NUL == 0
MaxArgc == 4096
ExecPath == <<1>>

VARIABLES argv, env, argc, block, decoded

vars == <<argv, env, argc, block, decoded>>

-----------------------------------------------------------------------------
(* The block: the path, NULs, the arguments and the environment, each      *)
(* string with a NUL behind it.  The count of arguments comes first.       *)

Terminated(strings) ==
    LET laid[k \in 0..Len(strings)] ==
            IF k = 0 THEN <<>> ELSE laid[k - 1] \o Append(strings[k], NUL)
    IN  laid[Len(strings)]

Padding(n) == [i \in 1..n |-> NUL]

Block(args, vars_, pad) ==
    ExecPath \o Padding(pad) \o Terminated(args) \o Terminated(vars_)

-----------------------------------------------------------------------------
(* The position of the next symbol that is, or is not, NUL; one past the   *)
(* end when there is none.                                                 *)
First(data, from, nul) ==
    CHOOSE i \in from..(Len(data) + 1) :
        /\ i = Len(data) + 1 \/ (data[i] = NUL <=> nul)
        /\ \A j \in from..(i - 1) : data[j] = NUL <=> ~nul

Text(data, from) == First(data, from, FALSE)
Stop(data, from) == First(data, from, TRUE)

(* Mutant: the NULs before an argument are not skipped.                    *)
AfterOneNul(data, from) ==
    LET stop == Stop(data, from) IN IF stop > Len(data) THEN stop ELSE stop + 1

(* Over one string and every NUL behind it.                                *)
After(data, from) == Text(data, Stop(data, from))

(***************************************************************************)
(* Where each argument starts.  At the end of the data an argument is      *)
(* empty: the code's check for a truncated argv, offset > len(data), never *)
(* holds, since offset stops at len(data).                                 *)
(***************************************************************************)
Starts(n, data) ==
    LET start[k \in 1..n] == IF k = 1 THEN After(data, Text(data, 1))
                             ELSE After(data, start[k - 1])
    IN  start

ProcessArgs(n, data) ==
    IF n \notin 1..MaxArgc \/ Text(data, 1) > Len(data) THEN Rejected
    ELSE [k \in 1..n |-> LET from == Starts(n, data)[k] IN
                         SubSeq(data, from, Stop(data, from) - 1)]

(* The values are then cleaned like every other path.                      *)
UserDataDirs(args) ==
    {Tail(args[k]) : k \in {i \in DOMAIN args : IsPrefix(<<Flag>>, args[i])}}

-----------------------------------------------------------------------------
Init ==
    /\ argv \in BoundedSeq(Strings, MaxArgs)
    /\ env \in BoundedSeq(Variables, MaxArgs)
    /\ argc \in {Len(argv), -1, MaxArgc + 1}
    /\ \E pad \in 1..MaxPad : block = Block(argv, env, pad)
    /\ decoded = <<>>

Decode ==
    /\ decoded = <<>>
    /\ decoded' = ProcessArgs(argc, block)
    /\ UNCHANGED <<argv, env, argc, block>>

Finished == decoded # <<>> /\ UNCHANGED vars

Next == Decode \/ Finished

Spec == Init /\ [][Next]_vars

-----------------------------------------------------------------------------
Decoded == decoded \notin {<<>>, Rejected}

(* An argv without empty strings is read exactly.  Empty arguments are     *)
(* lost and strings of the environment read in their place, and yet the    *)
(* directories a process names are those in its argv, unless a string of   *)
(* the environment begins like the flag.                                   *)
ArgvExact ==
    Decoded =>
        /\ (\A k \in DOMAIN argv : argv[k] # <<>>) => decoded = argv
        /\ UserDataDirs(decoded) = UserDataDirs(argv)

=============================================================================
