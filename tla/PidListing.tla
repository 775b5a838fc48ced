----------------------------- MODULE PidListing -----------------------------
(***************************************************************************)
(* listCurrentUserPIDs (internal/process/scanner_darwin.go): the kernel is *)
(* asked how many processes there are, then for their ids, with a larger   *)
(* buffer as long as it fills the one it is given; then the ids of other   *)
(* users are left out.  Processes start and end between any two calls, and *)
(* a call may fail: most failures look like an answer.                     *)
(***************************************************************************)
EXTENDS Integers, FiniteSets

CONSTANTS
    Pid,        \* the process ids
    Users, Me,  \* the users, and the one cpr runs as
    Estimates,  \* what the first call may report; 0 or less when it fails
    CallsFail,  \* may the later calls fail?
    PidSize,    \* bytes of a pid_t
    IntMax,     \* the largest Go int
    CIntMax     \* the largest C int

ASSUME UserAssumption == Me \in Users /\ CallsFail \in BOOLEAN
ASSUME WidthAssumption == {PidSize, IntMax, CIntMax} \subseteq Nat \ {0}
ASSUME EstimateAssumption == Estimates \subseteq Int

(* macOS has less than 100,000 ids, far from what 2^31 bytes hold.         *)
ASSUME KernelAssumption ==
    /\ IsFiniteSet(Pid)
    /\ \A n \in Estimates \cup {Cardinality(Pid)} : 2 * n * PidSize <= CIntMax

VARIABLES
    holder,     \* the processes there are: the user of each id in use
    pc, capacity, raw, answer, result,
    since,      \* Me's processes that have been there since the first call
    hidden      \* the processes that a failed call hid, without an error

vars == <<holder, pc, capacity, raw, answer, result, since, hidden>>

Live == DOMAIN holder

Mine == {p \in Live : holder[p] = Me}

Init ==
    /\ \E live \in SUBSET Pid : holder \in [live -> Users]
    /\ pc = "estimate"
    /\ capacity = 0
    /\ raw = {} /\ answer = {} /\ since = {} /\ hidden = {}
    /\ result = "none"

Return(r, ids) ==
    /\ pc' = "done"
    /\ result' = r
    /\ answer' = ids
    /\ UNCHANGED <<holder, capacity, raw>>

(* Mutant: the count is taken for a number of bytes.                       *)
NextBytes(current, reported) == IF reported * PidSize > current
                                THEN reported * PidSize ELSE current * 2

(* Mutant: just enough for what the kernel reported.                       *)
NextReported(current, reported) == reported

(* nextPIDCapacity; what it returns is beyond IntMax when it fails.        *)
NextPIDCapacity(current, reported) == IF reported > current * 2
                                      THEN reported ELSE current * 2

(* Mutant: the capacity is not checked.                                    *)
AllocateUnchecked(current, reported) ==
    /\ capacity' = NextPIDCapacity(current, reported)
    /\ pc' = "list"
    /\ UNCHANGED <<holder, raw, answer, result>>

Allocate(current, reported) ==
    \/ /\ current > IntMax \div 2
       /\ Return("overflow", {})
    \/ /\ current \in 1..(IntMax \div 2)
       /\ capacity' = NextPIDCapacity(current, reported)
       /\ pc' = "list"
       /\ UNCHANGED <<holder, raw, answer, result>>

Estimate ==
    /\ pc = "estimate"
    /\ since' = Mine
    /\ \E n \in Estimates :
        \/ n <= 0 /\ Return("ok", {}) /\ hidden' = Live
        \/ n > 0 /\ Allocate(n, n) /\ UNCHANGED hidden

(* The conversion of an int to a C int keeps the low bits.                 *)
AsCInt(n) == ((n + CIntMax + 1) % (2 * (CIntMax + 1))) - (CIntMax + 1)

BufferBytes == AsCInt(capacity * PidSize)

(* proc_listallpids fills the bytes it was given.                          *)
Filled(ids) ==
    LET room == BufferBytes \div PidSize IN
    IF Cardinality(Live) <= room THEN ids = Live
    ELSE ids \subseteq Live /\ Cardinality(ids) = (IF room > 0 THEN room ELSE 0)

(* Mutant: a buffer that was just filled is taken for complete.            *)
MoreThanFull(count) == count > capacity

(* A full buffer may have left ids out: ask again with a larger one.       *)
Retry(count) == count >= capacity

PidListResult(ids) ==
    \/ Retry(Cardinality(ids)) /\ Allocate(capacity, Cardinality(ids))
    \/ /\ ~Retry(Cardinality(ids))
       /\ raw' = ids
       /\ pc' = "filter"
       /\ UNCHANGED <<holder, capacity, answer, result>>

List ==
    /\ pc = "list"
    /\ \E ids \in SUBSET Live : Filled(ids) /\ PidListResult(ids)
    /\ UNCHANGED <<since, hidden>>

(* A call that fails returns 0, as for a machine without processes, or     *)
(* less: only that is an error.                                            *)
ListNothing ==
    /\ pc = "list" /\ CallsFail
    /\ PidListResult({})
    /\ hidden' = Live
    /\ UNCHANGED since

ListError ==
    /\ pc = "list" /\ CallsFail
    /\ Return("enumerate", {})
    /\ UNCHANGED <<since, hidden>>

(* The user of every id is asked for later; one that is gone has none, and *)
(* neither has one that cannot be asked.                                   *)
Filter ==
    /\ pc = "filter"
    /\ \E lost \in IF CallsFail THEN SUBSET (raw \cap Mine) ELSE {{}} :
         /\ Return("ok", (raw \cap Mine) \ lost)
         /\ hidden' = hidden \cup lost
    /\ UNCHANGED since

Answered == Estimate \/ List \/ Filter

Scan == Answered \/ ListNothing \/ ListError

-----------------------------------------------------------------------------
Start(p, u) ==
    /\ p \notin Live
    /\ holder' = [q \in Live \cup {p} |-> IF q = p THEN u ELSE holder[q]]
    /\ UNCHANGED since

Exit(p) ==
    /\ p \in Live
    /\ holder' = [q \in Live \ {p} |-> holder[q]]
    /\ since' = since \ {p}

World ==
    /\ pc # "done"
    /\ \E p \in Pid : Exit(p) \/ \E u \in Users : Start(p, u)
    /\ UNCHANGED <<pc, capacity, raw, answer, result, hidden>>

Finished == pc = "done" /\ UNCHANGED vars

Next == Scan \/ World \/ Finished

Spec == Init /\ [][Next]_vars

(* The kernel answers; that a listing returns may not rest on a failure.   *)
FairSpec == Spec /\ WF_vars(Answered)

-----------------------------------------------------------------------------
TypeOK ==
    /\ Live \subseteq Pid /\ holder \in [Live -> Users]
    /\ pc \in {"estimate", "list", "filter", "done"}
    /\ capacity \in 0..IntMax
    /\ raw \cup answer \cup since \cup hidden \subseteq Pid
    /\ result \in {"none", "ok", "overflow", "enumerate"}

(* A listing that succeeds has missed no process of the user that has been *)
(* there since it began, however many others came and went, except what a  *)
(* call that failed in silence hid: either of the two that ask for the ids *)
(* hides all, the one for the user of an id that id.                       *)
LastingListed == result = "ok" => since \ hidden \subseteq answer

(* The C call is told the true size of the buffer: its conversion to a C   *)
(* int, which no code guards, never wraps around.                          *)
BufferSizeExact == BufferBytes = capacity * PidSize

(* Every listing returns: the buffer outgrows any number of processes.     *)
ListingReturns == <>(pc = "done")

=============================================================================
