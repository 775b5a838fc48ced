------------------------- MODULE MCProfileRuntime -------------------------
(***************************************************************************)
(* Sessions on an idle machine, on one where another profile runs, and on  *)
(* one where the profile already has two instances.                        *)
(***************************************************************************)
EXTENDS ProfileRuntime

CONSTANTS A, B, main, helper, nobody

Idle == [procs |-> Empty, owner |-> <<>>]

Instance(p, id) == [pid |-> p, ppid |-> 1, start |-> p - 1, exe |-> main, dirs |-> {id}]

OtherRuns ==
    [procs |-> [Empty EXCEPT ![2] = Instance(2, B)], owner |-> <<B>>]

TargetTwice ==
    [procs |-> [p \in Pid |-> Instance(p, A)], owner |-> <<A, A>>]

MCBoot == {Idle, OtherRuns, TargetTwice}

=============================================================================
