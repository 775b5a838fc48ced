-------------------------- MODULE PidListingProofs --------------------------
(***************************************************************************)
(* The listing of the process ids, for any number of processes, users and  *)
(* widths of integers.                                                     *)
(***************************************************************************)
EXTENDS PidListing, FiniteSetTheorems, TLAPS

(* The buffer holds what the kernel is told it holds, because it is never  *)
(* enlarged beyond twice the number of processes there can be.             *)
Fits == capacity * PidSize <= CIntMax

Asking == pc = "list" => capacity > 0

TypeInv == TypeOK /\ Fits /\ Asking

(* What has lasted is still there, and was not lost on the way.            *)
Kept ==
    /\ since \subseteq Mine
    /\ pc \in {"estimate", "list", "filter"} => result = "none"
    /\ pc = "filter" => since \ hidden \subseteq raw

-----------------------------------------------------------------------------
LEMMA Widths == PidSize \in Nat \ {0} /\ IntMax \in Nat \ {0} /\ CIntMax \in Nat \ {0}
BY WidthAssumption

(* A conversion to a C int changes no number that a C int can hold.        *)
LEMMA NoWrap ==
    ASSUME NEW n \in Nat, n <= CIntMax
    PROVE  AsCInt(n) = n
<1> DEFINE k == 2 * (CIntMax + 1)
           m == n + CIntMax + 1
<1>1. k \in Nat \ {0} /\ m \in 0..(k - 1)
  BY Widths
<1>2. \A a \in Nat, b \in Nat \ {0} : a < b => a % b = a
  OBVIOUS
<1>3. m % k = m
  BY <1>1, <1>2
<1> QED
  BY <1>3, Widths DEF AsCInt

LEMMA Quotient ==
    ASSUME NEW a \in Nat, NEW b \in Nat \ {0}
    PROVE  (a * b) \div b = a
OBVIOUS

LEMMA ExactBuffer ==
    ASSUME TypeInv
    PROVE  /\ BufferBytes = capacity * PidSize
           /\ BufferBytes \div PidSize = capacity
<1>1. capacity \in Nat
  BY Widths DEF TypeInv, TypeOK
<1>2. capacity * PidSize \in Nat
  BY <1>1, Widths
<1>3. BufferBytes = capacity * PidSize
  BY <1>2, NoWrap DEF BufferBytes, TypeInv, Fits
<1> QED
  BY <1>1, <1>3, Quotient, Widths

(* The kernel never returns more ids than it was given room for, and when  *)
(* it returns fewer it returns all.                                        *)
LEMMA FilledLemma ==
    ASSUME TypeInv, NEW ids \in SUBSET Live, Filled(ids), pc = "list"
    PROVE  /\ Cardinality(ids) \in 0..Cardinality(Pid)
           /\ Cardinality(ids) <= capacity
           /\ ~Retry(Cardinality(ids)) => ids = Live
<1>1. Live \subseteq Pid /\ capacity \in Nat
  BY Widths DEF TypeInv, TypeOK
<1>2. /\ IsFiniteSet(Live) /\ IsFiniteSet(ids)
      /\ Cardinality(Live) \in Nat /\ Cardinality(ids) \in Nat
      /\ Cardinality(Pid) \in Nat /\ Cardinality(ids) <= Cardinality(Pid)
  BY <1>1, KernelAssumption, FS_Subset, FS_CardinalityType
<1>3. CASE Cardinality(Live) <= capacity
  BY <1>1, <1>2, <1>3, ExactBuffer DEF Filled
<1>4. CASE ~(Cardinality(Live) <= capacity)
  <2>1. Cardinality(ids) = capacity
    BY <1>1, <1>4, ExactBuffer DEF Filled
  <2> QED
    BY <1>1, <1>2, <2>1 DEF Retry
<1> QED
  BY <1>3, <1>4

(* A call that fails is never taken for a full buffer: there is none of    *)
(* size 0.                                                                 *)
LEMMA NothingLemma ==
    ASSUME TypeInv, ListNothing
    PROVE  /\ pc = "list" /\ since' = since /\ hidden' = Live
           /\ raw' = {} /\ pc' = "filter"
           /\ UNCHANGED <<holder, capacity, answer, result>>
<1>1. pc = "list" /\ since' = since /\ hidden' = Live /\ PidListResult({})
  BY DEF ListNothing
<1>2. capacity \in Nat /\ capacity > 0
  BY <1>1, Widths DEF TypeInv, TypeOK, Asking
<1>3. ~Retry(Cardinality({}))
  BY <1>2, FS_EmptySet DEF Retry
<1> QED
  BY <1>1, <1>3 DEF PidListResult

LEMMA TypeInit == Init => TypeInv
<1> SUFFICES ASSUME Init PROVE TypeInv
  OBVIOUS
<1>1. Live \in SUBSET Pid /\ holder \in [Live -> Users]
  BY DEF Init, Live
<1>2. TypeOK
  BY <1>1, Widths DEF Init, TypeOK
<1>3. Fits /\ Asking
  BY Widths DEF Init, Fits, Asking
<1> QED
  BY <1>2, <1>3 DEF TypeInv

(* A buffer for twice what was asked for, within the width of an int.      *)
LEMMA AllocateLemma ==
    ASSUME TypeInv, NEW n \in Nat \ {0}, NEW r \in Nat, r <= 2 * n,
           2 * n * PidSize <= CIntMax, Allocate(n, r),
           since' \subseteq Pid, hidden' \subseteq Pid
    PROVE  TypeInv'
<1>1. CASE n > IntMax \div 2 /\ Return("overflow", {})
  BY <1>1, Widths DEF TypeInv, TypeOK, Fits, Asking, Return, Live
<1>2. CASE /\ n \in 1..(IntMax \div 2)
           /\ capacity' = NextPIDCapacity(n, r)
           /\ pc' = "list"
           /\ UNCHANGED <<holder, raw, answer, result>>
  <2>1. capacity' = 2 * n
    BY <1>2 DEF NextPIDCapacity
  <2>2. 2 * n <= IntMax
    BY <1>2, Widths
  <2> QED
    BY <1>2, <2>1, <2>2, Widths DEF TypeInv, TypeOK, Fits, Asking, Live
<1> QED
  BY <1>1, <1>2 DEF Allocate

LEMMA TypeStep == TypeInv /\ [Next]_vars => TypeInv'
<1> SUFFICES ASSUME TypeInv, [Next]_vars PROVE TypeInv'
  OBVIOUS
<1>1. CASE Estimate
  <2>1. Mine \subseteq Pid /\ Live \subseteq Pid /\ hidden \subseteq Pid
    BY DEF TypeInv, TypeOK, Mine
  <2>2. PICK n \in Estimates :
            \/ n <= 0 /\ Return("ok", {}) /\ hidden' = Live
            \/ n > 0 /\ Allocate(n, n) /\ UNCHANGED hidden
    BY <1>1 DEF Estimate
  <2>3. since' = Mine /\ hidden' \subseteq Pid
    BY <1>1, <2>1, <2>2 DEF Estimate
  <2>4. CASE n <= 0 /\ Return("ok", {})
    BY <2>1, <2>3, <2>4 DEF TypeInv, TypeOK, Fits, Asking, Return, Live
  <2>5. CASE n > 0 /\ Allocate(n, n)
    <3>1. n \in Nat \ {0} /\ n <= 2 * n
      BY <2>5, EstimateAssumption
    <3>2. 2 * n * PidSize <= CIntMax
      BY KernelAssumption
    <3> QED
      BY <2>1, <2>3, <2>5, <3>1, <3>2, AllocateLemma
  <2> QED
    BY <2>2, <2>4, <2>5
<1>2. CASE List
  <2>1. pc = "list" /\ since' = since /\ hidden' = hidden
    BY <1>2 DEF List
  <2>2. ASSUME NEW ids \in SUBSET Live, Filled(ids),
               Retry(Cardinality(ids)), Allocate(capacity, Cardinality(ids))
        PROVE  TypeInv'
    <3>1. capacity \in Nat \ {0}
      BY <2>1, Widths DEF TypeInv, TypeOK, Asking
    <3>2. Cardinality(ids) = capacity /\ Cardinality(Pid) \in Nat /\ capacity <= Cardinality(Pid)
      BY <2>1, <2>2, <3>1, FilledLemma, KernelAssumption, FS_CardinalityType DEF Retry
    <3>3. \A a, b, c \in Nat : a <= b => 2 * a * c <= 2 * b * c
      OBVIOUS
    <3>4. 2 * capacity * PidSize <= 2 * Cardinality(Pid) * PidSize
      BY <3>1, <3>2, <3>3, Widths
    <3>5. 2 * Cardinality(Pid) * PidSize <= CIntMax
      BY KernelAssumption
    <3>6. 2 * capacity * PidSize <= CIntMax
      BY <3>1, <3>2, <3>4, <3>5, Widths
    <3>7. since' \subseteq Pid /\ hidden' \subseteq Pid
      BY <2>1 DEF TypeInv, TypeOK
    <3> QED
      BY <2>2, <3>1, <3>2, <3>6, <3>7, AllocateLemma
  <2>3. ASSUME NEW ids \in SUBSET Live, raw' = ids, pc' = "filter",
               UNCHANGED <<holder, capacity, answer, result>>
        PROVE  TypeInv'
    BY <2>1, <2>3 DEF TypeInv, TypeOK, Fits, Asking, Live
  <2> QED
    BY <1>2, <2>2, <2>3 DEF List, PidListResult
<1>3. CASE Filter
  <2>1. PICK lost \in SUBSET raw :
            Return("ok", (raw \cap Mine) \ lost) /\ hidden' = hidden \cup lost
    BY <1>3 DEF Filter
  <2>2. since' = since
    BY <1>3 DEF Filter
  <2> QED
    BY <2>1, <2>2 DEF Return, TypeInv, TypeOK, Fits, Asking, Live
<1>4. CASE World
  <2>1. UNCHANGED <<pc, capacity, raw, answer, result, hidden>>
    BY <1>4 DEF World
  <2>2. ASSUME NEW p \in Pid, Exit(p)
        PROVE  Live' \subseteq Pid /\ holder' \in [Live' -> Users] /\ since' \subseteq Pid
    BY <2>2 DEF Exit, TypeInv, TypeOK, Live
  <2>3. ASSUME NEW p \in Pid, NEW u \in Users, Start(p, u)
        PROVE  Live' \subseteq Pid /\ holder' \in [Live' -> Users] /\ since' \subseteq Pid
    BY <2>3 DEF Start, TypeInv, TypeOK, Live
  <2>4. Live' \subseteq Pid /\ holder' \in [Live' -> Users] /\ since' \subseteq Pid
    BY <1>4, <2>2, <2>3 DEF World
  <2> QED
    BY <2>1, <2>4 DEF TypeInv, TypeOK, Fits, Asking
<1>5. CASE UNCHANGED vars
  BY <1>5 DEF vars, TypeInv, TypeOK, Fits, Asking, Live
<1>6. CASE ListError
  BY <1>6 DEF ListError, Return, TypeInv, TypeOK, Fits, Asking, Live
<1>7. CASE ListNothing
  BY <1>7, NothingLemma DEF TypeInv, TypeOK, Fits, Asking, Live
<1> QED
  BY <1>1, <1>2, <1>3, <1>4, <1>5, <1>6, <1>7 DEF Next, Scan, Answered, Finished

LEMMA TypeInvariant == Spec => []TypeInv
BY TypeInit, TypeStep, PTL DEF Spec

-----------------------------------------------------------------------------
(* Every variable of a listing keeps its type; in particular the capacity  *)
(* of the buffer never overflows an int.                                   *)
THEOREM TypeCorrect == Spec => []TypeOK
<1>1. TypeInv => TypeOK
  BY DEF TypeInv
<1> QED
  BY <1>1, TypeInvariant, PTL

(* The size passed to C is the size of the buffer, on any machine that has *)
(* few enough processes for twice their ids to fit.                        *)
THEOREM BufferSizesExact == Spec => []BufferSizeExact
<1>1. TypeInv => BufferSizeExact
  BY ExactBuffer DEF BufferSizeExact
<1> QED
  BY <1>1, TypeInvariant, PTL

-----------------------------------------------------------------------------
ListedInv == Kept /\ LastingListed

LEMMA ListedInit == Init => ListedInv
BY DEF Init, ListedInv, Kept, LastingListed

LEMMA ListedStep == TypeInv /\ ListedInv /\ [Next]_vars => ListedInv'
<1> SUFFICES ASSUME TypeInv, ListedInv, [Next]_vars PROVE ListedInv'
  OBVIOUS
<1>1. CASE Estimate
  <2>1. PICK n \in Estimates :
            \/ n <= 0 /\ Return("ok", {}) /\ hidden' = Live
            \/ n > 0 /\ Allocate(n, n) /\ UNCHANGED hidden
    BY <1>1 DEF Estimate
  <2>2. since' = Mine /\ pc = "estimate" /\ result = "none"
    BY <1>1 DEF Estimate, ListedInv, Kept
  <2>3. CASE n <= 0 /\ Return("ok", {}) /\ hidden' = Live
    BY <2>2, <2>3 DEF Return, ListedInv, Kept, LastingListed, Mine, Live
  <2>4. CASE n > 0 /\ Allocate(n, n)
    BY <2>2, <2>4 DEF Allocate, Return, ListedInv, Kept, LastingListed, Mine, Live
  <2> QED
    BY <2>1, <2>3, <2>4
<1>2. CASE List
  <2>1. pc = "list" /\ since' = since /\ hidden' = hidden /\ result = "none"
    BY <1>2 DEF List, ListedInv, Kept
  <2>3. CASE \E n, r \in Nat : Allocate(n, r)
    BY <2>1, <2>3 DEF Allocate, Return, ListedInv, Kept, LastingListed, Mine, Live
  <2>4. ASSUME NEW ids \in SUBSET Live, Filled(ids), ~Retry(Cardinality(ids)),
               raw' = ids, pc' = "filter",
               UNCHANGED <<holder, capacity, answer, result>>
        PROVE  ListedInv'
    <3>1. ids = Live
      BY <2>1, <2>4, FilledLemma
    <3> QED
      BY <2>1, <2>4, <3>1 DEF ListedInv, Kept, LastingListed, Mine, Live
  <2>5. \A ids \in SUBSET Live : Filled(ids) =>
            capacity \in Nat /\ Cardinality(ids) \in Nat
    BY <2>1, FilledLemma, KernelAssumption, FS_CardinalityType, Widths DEF TypeInv, TypeOK
  <2> QED
    BY <1>2, <2>3, <2>4, <2>5 DEF List, PidListResult
<1>3. CASE Filter
  <2>1. PICK lost : /\ Return("ok", (raw \cap Mine) \ lost)
                    /\ hidden' = hidden \cup lost
    BY <1>3 DEF Filter
  <2>2. pc = "filter" /\ since' = since
    BY <1>3 DEF Filter
  <2> QED
    BY <2>1, <2>2 DEF Return, ListedInv, Kept, LastingListed, Mine, Live
<1>4. CASE World
  <2>1. UNCHANGED <<pc, capacity, raw, answer, result, hidden>> /\ pc # "done"
    BY <1>4 DEF World
  <2>2. since' \subseteq Mine' /\ since' \subseteq since
    BY <1>4 DEF World, Exit, Start, ListedInv, Kept, Mine, Live
  <2> QED
    BY <2>1, <2>2 DEF ListedInv, Kept, LastingListed, TypeInv, TypeOK
<1>5. CASE UNCHANGED vars
  BY <1>5 DEF vars, ListedInv, Kept, LastingListed, Mine, Live
<1>6. CASE ListError
  BY <1>6 DEF ListError, Return, ListedInv, Kept, LastingListed, Mine, Live
<1>7. CASE ListNothing
  BY <1>7, NothingLemma DEF ListedInv, Kept, LastingListed, Mine, Live
<1> QED
  BY <1>1, <1>2, <1>3, <1>4, <1>5, <1>6, <1>7 DEF Next, Scan, Answered, Finished

(* A listing without an error misses no process of the user that has been  *)
(* there since it began, unless a call that failed in silence hid it: the  *)
(* growing buffer itself never cuts one off (pidListResult,                *)
(* nextPIDCapacity).                                                       *)
THEOREM ListingComplete == Spec => []LastingListed
<1>1. TypeInv /\ ListedInv /\ [Next]_vars => ListedInv'
  BY ListedStep
<1>2. ListedInv => LastingListed
  BY DEF ListedInv
<1> QED
  BY <1>1, <1>2, ListedInit, TypeInvariant, PTL DEF Spec

=============================================================================
