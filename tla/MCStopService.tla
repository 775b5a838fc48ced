--------------------------- MODULE MCStopService ---------------------------
(***************************************************************************)
(* Small instances of StopService: the machine states from which TLC lets  *)
(* `cpr stop A` start.                                                     *)
(***************************************************************************)
EXTENDS StopService, TLC

CONSTANTS A, B, main, helper, tool, nobody

Proc(p, parent, start, exe, dirs) ==
    [pid |-> p, ppid |-> parent, start |-> start, exe |-> exe, dirs |-> dirs]

Machine(procs, owners) ==
    [procs |-> [p \in Pid |->
                    IF \E q \in procs : q.pid = p
                    THEN CHOOSE q \in procs : q.pid = p ELSE Absent],
     owner |-> owners]

(* A's main process 2 with helper 3, which carries no flag. *)
Plain == Machine({Proc(2, 1, 1, main, {A}), Proc(3, 2, 2, helper, {})},
                 <<A, A>>)

(* A's main process 2 with helper 3; B's main process 4. *)
TwoProfiles == Machine({Proc(2, 1, 1, main, {A}), Proc(3, 2, 2, helper, {}),
                        Proc(4, 1, 3, main, {B})}, <<A, A, B>>)

(* B was opened from a terminal inside A: its main process 3 is a child of *)
(* A's and has helper 4.                                                   *)
Nested == Machine({Proc(2, 1, 1, main, {A}), Proc(3, 2, 2, main, {B}),
                   Proc(4, 3, 3, helper, {})}, <<A, B, B>>)

(* A's main process 2 with two helpers, one of which names A. *)
TwoHelpers == Machine({Proc(2, 1, 1, main, {A}), Proc(3, 2, 2, helper, {}),
                       Proc(4, 2, 3, helper, {A})}, <<A, A, A>>)

(* A helper of A that names B as well. *)
Conflicting == Machine({Proc(2, 1, 1, main, {A}),
                        Proc(3, 2, 2, helper, {A, B})}, <<A, A>>)

(* A has been opened twice: two processes look like its main process. *)
Doubled == Machine({Proc(2, 1, 1, main, {A}), Proc(3, 1, 2, main, {A})},
                   <<A, A, A>>)

(* B has been opened twice while A runs. *)
OtherDoubled == Machine({Proc(2, 1, 1, main, {A}), Proc(3, 1, 2, main, {B}),
                         Proc(4, 1, 3, main, {B})}, <<A, B, B>>)

MCSignalBoot == {Plain, Nested, Conflicting}
MCSuccessBoot == {TwoProfiles, TwoHelpers, Doubled}
MCContractBoot == {Plain, TwoProfiles, TwoHelpers, Nested, Doubled, OtherDoubled}

=============================================================================
