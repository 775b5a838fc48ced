--------------------------- MODULE MCListService ---------------------------
(***************************************************************************)
(* Small instances of ListService, on machines where nothing runs, where   *)
(* two profiles run, and where one of them runs twice.                     *)
(***************************************************************************)
EXTENDS ListService

CONSTANTS A, B, main, helper, nobody

Proc(p, parent, start, exe, dirs) ==
    [pid |-> p, ppid |-> parent, start |-> start, exe |-> exe, dirs |-> dirs]

Machine(procs, owners) ==
    [procs |-> [p \in Pid |->
                    IF \E q \in procs : q.pid = p
                    THEN CHOOSE q \in procs : q.pid = p ELSE Absent],
     owner |-> owners]

Idle == Machine({}, <<>>)

(* B was opened from inside A. *)
TwoProfiles == Machine({Proc(2, 1, 1, main, {A}), Proc(3, 2, 2, main, {B})},
                       <<A, B>>)

(* A runs twice. *)
Doubled == Machine({Proc(2, 1, 1, main, {A}), Proc(3, 1, 2, main, {A})},
                   <<A, A>>)

(* A process opened by hand that names both profiles. *)
Conflicting == Machine({Proc(2, 1, 1, main, {A, B}), Proc(3, 2, 2, main, {B})},
                       <<nobody, B>>)

MCBoot == {Idle, TwoProfiles, Doubled, Conflicting}

=============================================================================
