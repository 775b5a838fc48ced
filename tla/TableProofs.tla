----------------------------- MODULE TableProofs -----------------------------
(***************************************************************************)
(* What holds of any snapshot, of the process table and of a scan of it,   *)
(* whatever the other programs of the machine do, for every set of ids,    *)
(* executables and profiles: the lemmas the commands' proofs share.        *)
(***************************************************************************)
EXTENDS ProcessTable, WellFoundedInduction, FiniteSetTheorems, TLAPS

(***************************************************************************)
(* What the walk over ancestors finds (service.go, hasAncestryTo), on any  *)
(* snapshot of any number of processes: exactly what can be reached by     *)
(* following parents.  The walk is a recursive function; the inductions    *)
(* are by least counterexample, from the theorems on well-founded sets.    *)
(***************************************************************************)
LEMMA LeastNumber ==
    ASSUME NEW S, S \subseteq Nat, S # {}
    PROVE  \E n \in S : \A m \in S : n <= m
<1>1. \A m, n \in Nat : m < n => <<m, n>> \in OpToRel(<, Nat)
  BY DEF OpToRel
<1>2. \E R : /\ IsWellFoundedOn(R, Nat)
             /\ \A m, n \in Nat : m < n => <<m, n>> \in R
  BY <1>1, NatLessThanWellFounded, Zenon
<1>3. PICK R : /\ IsWellFoundedOn(R, Nat)
               /\ \A m, n \in Nat : m < n => <<m, n>> \in R
  BY <1>2
<1>4. IsWellFoundedOn(R, Nat)
  BY <1>3
<1>5. \E n \in S : \A m \in S : ~ (<<m, n>> \in R)
  BY <1>4, WFMin
<1>6. PICK n \in S : \A m \in S : ~ (<<m, n>> \in R)
  BY <1>5
<1>7. \A m \in S : m \in Nat /\ n \in Nat /\ ~(m < n)
  BY <1>3, <1>6
<1>8. \A m \in S : n <= m
  BY <1>7
<1> QED
  BY <1>8

-----------------------------------------------------------------------------
(* The recursion has a solution, on every initial segment.                 *)
IsWalk(up, n, first, second, L, s) ==
    up = [k \in 0..n |->
             CASE k = 0 -> first
               [] k = 1 -> second
               [] OTHER -> IF up[k - 1] \in L THEN s[up[k - 1]].ppid ELSE 0]

LEMMA WalkExists ==
    ASSUME NEW N \in Nat, NEW first, NEW second, NEW L, NEW s
    PROVE  \E up : IsWalk(up, N, first, second, L, s)
<1> DEFINE Walk(up, n) == IsWalk(up, n, first, second, L, s)
           Failing == {n \in 0..N : ~ \E up : Walk(up, n)}
<1> SUFFICES ASSUME Failing # {} PROVE FALSE
  OBVIOUS
<1>1. PICK n \in Failing : \A m \in Failing : n <= m
  <2>1. Failing \subseteq Nat
    OBVIOUS
  <2> HIDE DEF Failing
  <2> QED
    BY <2>1, LeastNumber
<1>2. n \in 0..N /\ ~ \E up : Walk(up, n)
  BY <1>1
<1>3. CASE n = 0
  <2>1. Walk([k \in 0..0 |-> first], 0)
    BY DEF IsWalk
  <2> QED
    BY <1>2, <1>3, <2>1
<1>4. CASE n # 0
  <2>1. n - 1 \in 0..N /\ n - 1 \notin Failing
    BY <1>1, <1>2, <1>4
  <2>2. PICK up : Walk(up, n - 1)
    BY <2>1
  <2> DEFINE last == CASE n = 0 -> first
                       [] n = 1 -> second
                       [] OTHER -> IF up[n - 1] \in L
                                   THEN s[up[n - 1]].ppid ELSE 0
             longer == [k \in 0..n |-> IF k = n THEN last ELSE up[k]]
  <2>3. \A k \in 0..n : k = n \/ k \in 0..(n - 1)
    BY <1>2
  <2>4. \A k \in 0..(n - 1) :
            up[k] = CASE k = 0 -> first
                      [] k = 1 -> second
                      [] OTHER -> IF up[k - 1] \in L
                                  THEN s[up[k - 1]].ppid ELSE 0
    BY <2>2, Zenon DEF IsWalk
  <2>5. \A k \in 0..n : k - 1 \in 0..n => longer[k - 1] = up[k - 1]
    BY <1>2
  <2>6. \A k \in 0..n : ~(k = 0) /\ ~(k = 1) => k - 1 \in 0..n
    BY <1>2
  <2>7. \A k \in 0..n :
            longer[k] = CASE k = 0 -> first
                          [] k = 1 -> second
                          [] OTHER -> IF longer[k - 1] \in L
                                      THEN s[longer[k - 1]].ppid ELSE 0
    <3> SUFFICES ASSUME NEW k \in 0..n
                 PROVE  longer[k] = CASE k = 0 -> first
                          [] k = 1 -> second
                          [] OTHER -> IF longer[k - 1] \in L
                                      THEN s[longer[k - 1]].ppid ELSE 0
      OBVIOUS
    <3>1. CASE k = n
      <4>1. longer[k] = last
        BY <3>1
      <4> QED
        BY <3>1, <4>1, <2>5, <2>6
    <3>2. CASE k # n
      <4>1. longer[k] = up[k] /\ k \in 0..(n - 1)
        BY <3>2, <2>3
      <4> HIDE DEF longer
      <4> QED
        BY <4>1, <2>4, <2>5, <2>6
    <3> QED
      BY <3>1, <3>2
  <2>8. Walk(longer, n)
    <3>1. longer = [k \in 0..n |-> longer[k]]
      OBVIOUS
    <3> HIDE DEF longer
    <3> QED
      BY <3>1, <2>7 DEF IsWalk
  <2> QED
    BY <1>2, <2>8
<1> QED
  BY <1>3, <1>4

(* A lineage is what its definition says, as long as the snapshot is       *)
(* finite.                                                                 *)
LEMMA ListedType ==
    ASSUME NEW s \in Snapshot
    PROVE  /\ Listed(s) \subseteq Pid /\ IsFiniteSet(Listed(s))
           /\ Cardinality(Listed(s)) \in Nat
           /\ 0 \notin Listed(s) /\ Launchd \notin Listed(s)
           /\ \A p \in Listed(s) : s[p] \in Info /\ s[p] # Absent
<1>1. Listed(s) \subseteq Pid
  BY DEF Listed, Snapshot
<1>2. IsFiniteSet(Listed(s)) /\ Cardinality(Listed(s)) \in Nat
  BY <1>1, FinitelyManyPids, FS_Subset, FS_CardinalityType
<1> QED
  BY <1>1, <1>2, PidAssumption DEF Listed, Snapshot

LEMMA LineageLemma ==
    ASSUME NEW s \in Snapshot, NEW c
    PROVE  LET up == Lineage(c, s)
               N == Cardinality(Listed(s)) + 1
           IN  /\ N \in Nat \ {0}
               /\ DOMAIN up = 0..N
               /\ up[0] = c.pid /\ up[1] = c.ppid
               /\ \A k \in 2..N : up[k] = IF up[k - 1] \in Listed(s)
                                          THEN s[up[k - 1]].ppid ELSE 0
<1> DEFINE N == Cardinality(Listed(s)) + 1
           L == Listed(s)
           up == Lineage(c, s)
<1>1. N \in Nat \ {0}
  BY ListedType
<1> HIDE DEF N
<1>2. IsWalk(up, N, c.pid, c.ppid, L, s)
  <2>1. \E f : IsWalk(f, N, c.pid, c.ppid, L, s)
    <3>1. N \in Nat
      BY <1>1
    <3> HIDE DEF L
    <3> QED
      BY <3>1, WalkExists
  <2>2. up = CHOOSE f : IsWalk(f, N, c.pid, c.ppid, L, s)
    BY DEF Lineage, IsWalk, N
  <2> HIDE DEF up
  <2> QED
    BY <2>1, <2>2
<1> HIDE DEF L, up
<1>3. \A k \in 0..N : up[k] = CASE k = 0 -> c.pid
                                [] k = 1 -> c.ppid
                                [] OTHER -> IF up[k - 1] \in L
                                            THEN s[up[k - 1]].ppid ELSE 0
  BY <1>2, Zenon DEF IsWalk
<1>4. DOMAIN up = 0..N
  BY <1>2 DEF IsWalk
<1>5. 0 \in 0..N /\ 1 \in 0..N /\ \A k \in 2..N : k \in 0..N /\ k # 0 /\ k # 1
  BY <1>1
<1> QED
  BY <1>1, <1>3, <1>4, <1>5 DEF N, L, up

(* Whoever is met on the way up has been reached over processes that the   *)
(* snapshot shows.                                                         *)
LEMMA LineageListed ==
    ASSUME NEW s \in Snapshot, NEW c, NEW k \in DOMAIN Lineage(c, s),
           Lineage(c, s)[k] \in Listed(s)
    PROVE  \A j \in 1..k : Lineage(c, s)[j] \in Listed(s)
<1> DEFINE up == Lineage(c, s)
           After == {j \in 1..k : up[j] \in Listed(s) /\ \E i \in 1..(j - 1) : up[i] \notin Listed(s)}
<1> SUFFICES ASSUME NEW g \in 1..k, up[g] \notin Listed(s)
             PROVE  FALSE
  OBVIOUS
<1>1. k \in Nat /\ k \in After
  BY LineageLemma
<1>2. PICK j \in After : \A m \in After : j <= m
  <2>1. After \subseteq Nat /\ After # {}
    BY <1>1
  <2> HIDE DEF After
  <2> QED
    BY <2>1, LeastNumber
<1>3. j \in 2..k /\ j - 1 \notin After
  BY <1>2
<1>4. up[j - 1] \notin Listed(s)
  <2>1. PICK i \in 1..(j - 1) : up[i] \notin Listed(s)
    BY <1>2
  <2>2. CASE i = j - 1
    BY <2>1, <2>2
  <2>3. CASE i # j - 1
    <3>1. i \in 1..((j - 1) - 1) /\ j - 1 \in 1..k
      BY <1>1, <1>3, <2>1, <2>3
    <3> QED
      BY <1>3, <2>1, <3>1
  <2> QED
    BY <2>2, <2>3
<1>5. up[j] = 0
  BY <1>1, <1>3, <1>4, LineageLemma
<1> QED
  BY <1>2, <1>5, ListedType

(* The walk finds an ancestor exactly where there is one.                  *)
LEMMA FoundIsAncestor ==
    ASSUME NEW s \in Snapshot, NEW c, NEW k \in DOMAIN Lineage(c, s) \ {0},
           Lineage(c, s)[k] \in Listed(s)
    PROVE  Lineage(c, s)[k] \in Ancestors(c, s)
<1> DEFINE up == Lineage(c, s)
<1> SUFFICES ASSUME NEW S \in SUBSET (Pid \cup {Launchd}),
                    c.ppid \in S, UpwardClosed(S, s), up[k] \notin S
             PROVE  FALSE
  BY DEF Ancestors
<1> DEFINE Outside == {j \in 1..k : up[j] \notin S}
<1>1. k \in Nat \ {0} /\ k \in Outside /\ up[1] = c.ppid
  BY LineageLemma
<1>2. PICK j \in Outside : \A m \in Outside : j <= m
  <2>1. Outside \subseteq Nat /\ Outside # {}
    BY <1>1
  <2> HIDE DEF Outside
  <2> QED
    BY <2>1, LeastNumber
<1>3. j \in 2..k /\ j - 1 \in 1..k /\ j - 1 \notin Outside
  BY <1>1, <1>2
<1>4. up[j - 1] \in S \cap Listed(s)
  BY <1>3, LineageListed
<1>5. up[j] = s[up[j - 1]].ppid
  BY <1>3, <1>4, LineageLemma
<1> QED
  BY <1>2, <1>4, <1>5 DEF UpwardClosed

LEMMA AncestorIsFound ==
    ASSUME NEW s \in Snapshot, NEW c, c.pid \in Listed(s), s[c.pid] = c,
           NEW q \in Ancestors(c, s)
    PROVE  \E k \in DOMAIN Lineage(c, s) \ {0} :
               /\ Lineage(c, s)[k] = q
               /\ \A i, j \in 0..(k - 1) : i # j => Lineage(c, s)[i] # Lineage(c, s)[j]
<1> DEFINE up == Lineage(c, s)
           N == Cardinality(Listed(s)) + 1
           Straight(k) == \A i, j \in 0..(k - 1) : i # j => up[i] # up[j]
           S == {p \in Pid \cup {Launchd} : \E k \in 1..N : Straight(k) /\ up[k] = p}
<1>1. /\ N \in Nat \ {0}
      /\ DOMAIN up = 0..N
      /\ up[0] = c.pid /\ up[1] = c.ppid
      /\ \A k \in 2..N : up[k] = IF up[k - 1] \in Listed(s) THEN s[up[k - 1]].ppid ELSE 0
  BY LineageLemma
<1> HIDE DEF up, N
<1>2. c.ppid \in S
  <2>1. c.ppid \in Pid \cup {Launchd}
    BY ListedType DEF Info
  <2>2. 1 \in 1..N /\ Straight(1)
    BY <1>1
  <2> QED
    BY <1>1, <2>1, <2>2
<1>3. ASSUME NEW p \in S, p \in Listed(s)
      PROVE  s[p].ppid \in S
  <2>1. PICK k \in 1..N : Straight(k) /\ up[k] = p
    BY <1>3
  <2>2. s[p].ppid \in Pid \cup {Launchd}
    BY <1>3, ListedType DEF Info
  <2>3. CASE \E i \in 0..(k - 1) : up[i] = up[k]
    <3>1. PICK i \in 0..(k - 1) : up[i] = up[k]
      BY <2>3
    <3>2. i + 1 \in 1..N /\ i + 1 <= k
      BY <1>1, <3>1
    <3>3. Straight(i + 1)
      BY <2>1, <3>2
    <3>4. up[i + 1] = s[p].ppid
      <4>1. CASE i = 0
        BY <1>1, <2>1, <3>1, <4>1
      <4>2. CASE i # 0
        <5>1. i + 1 \in 2..N /\ (i + 1) - 1 = i
          BY <1>1, <3>2, <4>2
        <5> QED
          BY <1>1, <1>3, <2>1, <3>1, <5>1
      <4> QED
        BY <4>1, <4>2
    <3> QED
      BY <2>2, <3>2, <3>3, <3>4
  <2>4. CASE ~ \E i \in 0..(k - 1) : up[i] = up[k]
    <3>1. \A i, j \in 0..k : i # j => up[i] # up[j]
      <4>1. \A i \in 0..k : i = k \/ i \in 0..(k - 1)
        BY <1>1
      <4> QED
        BY <2>1, <2>4, <4>1
    <3>2. \A i \in 0..k : up[i] \in Listed(s)
      <4>1. \A i \in 1..k : up[i] \in Listed(s)
        <5>1. k \in DOMAIN Lineage(c, s) /\ Lineage(c, s)[k] \in Listed(s)
          BY <1>1, <1>3, <2>1 DEF up
        <5>2. \A i \in 1..k : Lineage(c, s)[i] \in Listed(s)
          BY <5>1, LineageListed
        <5> QED
          BY <5>2 DEF up
      <4> QED
        BY <1>1, <4>1
    <3>3. k + 1 <= Cardinality(Listed(s))
      <4> DEFINE f == [i \in 0..k |-> up[i]]
      <4>1. f \in Injection(0..k, Listed(s))
        BY <3>1, <3>2 DEF Injection, IsInjective
      <4>2. Cardinality(0..k) <= Cardinality(Listed(s))
        BY <4>1, ListedType, FS_Injection
      <4>3. Cardinality(0..k) = k + 1
        <5>1. k \in Int /\ 0 \in Int /\ 0 <= k
          BY <1>1
        <5> QED
          BY <5>1, FS_Interval
      <4> QED
        BY <4>2, <4>3
    <3>4. k + 1 \in 2..N
      BY <1>1, <3>3, ListedType DEF N
    <3>5. Straight(k + 1)
      BY <1>1, <3>1
    <3>6. up[k + 1] = s[p].ppid
      BY <1>1, <1>3, <2>1, <3>4
    <3> QED
      BY <2>2, <3>4, <3>5, <3>6
  <2> QED
    BY <2>3, <2>4
<1>4. UpwardClosed(S, s) /\ S \in SUBSET (Pid \cup {Launchd})
  BY <1>3 DEF UpwardClosed
<1> HIDE DEF S
<1>5. q \in S
  BY <1>2, <1>4 DEF Ancestors
<1>6. PICK k \in 1..N : Straight(k) /\ up[k] = q
  BY <1>5 DEF S
<1>7. k \in DOMAIN up \ {0}
  BY <1>1
<1> QED
  BY <1>6, <1>7 DEF up

(* hasAncestryTo, without its walk: the candidate has an ancestor of the   *)
(* given identity; where the candidate is one of the snapshot, as in both  *)
(* passes of a stop, it finds every one.                                   *)
LEMMA AncestryOnlyIf ==
    ASSUME NEW s \in Snapshot, NEW c, NEW a, HasAncestryTo(c, a, s)
    PROVE  \E q \in Ancestors(c, s) : SameIdentity(s[q], a)
<1>1. PICK k \in DOMAIN Lineage(c, s) \ {0} :
          /\ Lineage(c, s)[k] \in Listed(s)
          /\ SameIdentity(s[Lineage(c, s)[k]], a)
  BY DEF HasAncestryTo
<1> QED
  BY <1>1, FoundIsAncestor

LEMMA AncestryIf ==
    ASSUME NEW s \in Snapshot, NEW c, c.pid \in Listed(s), s[c.pid] = c,
           NEW a, NEW q \in Ancestors(c, s), SameIdentity(s[q], a)
    PROVE  HasAncestryTo(c, a, s)
<1>1. PICK k \in DOMAIN Lineage(c, s) \ {0} :
          /\ Lineage(c, s)[k] = q
          /\ \A i, j \in 0..(k - 1) : i # j => Lineage(c, s)[i] # Lineage(c, s)[j]
  BY AncestorIsFound
<1>2. q \in Listed(s)
  BY DEF Ancestors
<1> QED
  BY <1>1, <1>2 DEF HasAncestryTo

(* The parent is an ancestor, and an ancestor's parent is one.             *)
LEMMA AncestorsClosed ==
    ASSUME NEW s \in Snapshot, NEW c
    PROVE  /\ c.ppid \in Listed(s) => c.ppid \in Ancestors(c, s)
           /\ \A q \in Ancestors(c, s) :
                  s[q].ppid \in Listed(s) => s[q].ppid \in Ancestors(c, s)
<1>1. c.ppid \in Listed(s) => c.ppid \in Ancestors(c, s)
  BY DEF Ancestors
<1>2. ASSUME NEW q \in Ancestors(c, s), s[q].ppid \in Listed(s)
      PROVE  s[q].ppid \in Ancestors(c, s)
  BY <1>2 DEF Ancestors, UpwardClosed
<1> QED
  BY <1>1, <1>2

(* What holds of the parent and, with a process, of its parent, holds of   *)
(* every ancestor: S is the set of which it holds, among those shown.      *)
LEMMA AncestorsWithin ==
    ASSUME NEW s \in Snapshot, NEW c, c.ppid \in Pid \cup {Launchd},
           NEW S, c.ppid \in Listed(s) => c.ppid \in S,
           \A q \in S \cap Ancestors(c, s) : s[q].ppid \in Listed(s) => s[q].ppid \in S
    PROVE  Ancestors(c, s) \subseteq S
<1> DEFINE R == {q \in Pid \cup {Launchd} : q \in Listed(s) => q \in S \cap Ancestors(c, s)}
<1>1. c.ppid \in R
  BY AncestorsClosed
<1>2. ASSUME NEW q \in R \cap Listed(s)
      PROVE  s[q].ppid \in R
  <2>1. q \in S \cap Ancestors(c, s)
    BY <1>2
  <2>2. s[q].ppid \in Pid \cup {Launchd}
    BY <1>2, ListedType DEF Info
  <2>3. s[q].ppid \in Listed(s) => s[q].ppid \in S \cap Ancestors(c, s)
    BY <2>1, AncestorsClosed
  <2> QED
    BY <2>2, <2>3
<1>3. R \in SUBSET (Pid \cup {Launchd}) /\ UpwardClosed(R, s)
  BY <1>2 DEF UpwardClosed
<1> HIDE DEF R
<1>4. Ancestors(c, s) \subseteq R /\ Ancestors(c, s) \subseteq Listed(s)
  BY <1>1, <1>3 DEF Ancestors
<1> QED
  BY <1>4 DEF R

-----------------------------------------------------------------------------
(***************************************************************************)
(* The table's own invariant.  A table is indexed by process id; start     *)
(* times have been handed out; and within one window a process id belongs  *)
(* to one process only, since the kernel does not hand it out again.       *)
(***************************************************************************)
Keyed(snap) == \A p \in Pid : snap[p] # Absent => snap[p].pid = p

Born == \A i \in 1..Len(window), p \in Pid :
            window[i][p] # Absent => window[i][p].start \in 1..Len(owner)

OneHolder == \A i, j \in 1..Len(window), p \in Pid :
                (window[i][p] # Absent /\ window[j][p] # Absent) =>
                    window[i][p].start = window[j][p].start

TableInv ==
    /\ TableTypeOK
    /\ \A i \in 1..Len(window) : Keyed(window[i])
    /\ Born
    /\ OneHolder

(* The boot tables satisfy it. *)
LEMMA TableInitLemma == TableInit => TableInv
<1> SUFFICES ASSUME NEW b \in Boot, window = <<b.procs>>, owner = b.owner
             PROVE  TableInv
    BY DEF TableInit
<1>1. /\ b.owner \in Seq(Owner)
      /\ b.procs \in Snapshot
      /\ \A p \in Listed(b.procs) : b.procs[p].pid = p
      /\ \A p \in Listed(b.procs) : b.procs[p].start \in 1..Len(b.owner)
    BY BootAssumption
<1>2. Len(window) = 1 /\ window[1] = b.procs
    OBVIOUS
<1>3. TableTypeOK
    BY <1>1, <1>2, BoundAssumption DEF TableTypeOK
<1>4. \A p \in Pid : b.procs[p] # Absent => p \in Listed(b.procs)
    BY <1>1 DEF Listed, Snapshot
<1>5. QED
    BY <1>1, <1>2, <1>3, <1>4 DEF TableInv, Keyed, Born, OneHolder

(* A process of the current table is a record. *)
LEMMA LiveType ==
    ASSUME TableInv
    PROVE  /\ Table \in Snapshot
           /\ Len(window) \in 1..Len(window)
           /\ Live \subseteq Pid
           /\ \A p \in Live : /\ Table[p] \in Info
                              /\ Table[p].pid = p
                              /\ Table[p].start \in 1..Len(owner)
<1>1. Len(window) \in 1..Len(window) /\ window \in Seq(Snapshot)
    BY DEF TableInv, TableTypeOK
<1>2. Table \in Snapshot
    BY <1>1 DEF Table
<1>3. Live \subseteq Pid /\ \A p \in Live : Table[p] # Absent
    BY <1>2 DEF Live, Listed, Snapshot
<1>4. \A p \in Live : Table[p] \in Info
    BY <1>2, <1>3 DEF Snapshot
<1>5. QED
    BY <1>1, <1>2, <1>3, <1>4 DEF TableInv, Keyed, Born, Table


(* A step of Stop starts a new window and keeps the invariant. *)
LEMMA SettleLemma ==
    ASSUME TableInv, window' = <<Table>>, owner' = owner
    PROVE  TableInv' /\ window'[1] = Table /\ Len(window') = 1
<1>1. Len(window') = 1 /\ window'[1] = Table
    OBVIOUS
<1>2. Table \in Snapshot
    BY LiveType
<1>3. TableTypeOK'
    BY <1>1, <1>2, BoundAssumption DEF TableInv, TableTypeOK
<1>4. \E n \in 1..Len(window) : Table = window[n]
    BY LiveType DEF Table
<1>5. QED
    BY <1>1, <1>3, <1>4 DEF TableInv, Keyed, Born, OneHolder

(* A change of the table keeps it when the new table is well formed and    *)
(* agrees with the window on who holds each id.                            *)
LEMMA ChangeLemma ==
    ASSUME TableInv, NEW T \in Snapshot, Change(T),
           owner' \in Seq(Owner), Len(owner) <= Len(owner'),
           Keyed(T),
           \A p \in Pid : T[p] # Absent => T[p].start \in 1..Len(owner'),
           \A i \in 1..Len(window), p \in Pid :
               (window[i][p] # Absent /\ T[p] # Absent) =>
                   window[i][p].start = T[p].start
    PROVE  TableInv' /\ window'[1] = window[1] /\ Len(window') \in Nat \ {0}
<1>1. /\ window \in Seq(Snapshot) /\ Len(window) \in 1..MaxWindow
      /\ owner \in Seq(Owner)
    BY DEF TableInv, TableTypeOK
<1>2. /\ window' = Append(window, T)
      /\ Len(window) < MaxWindow
    BY DEF Change
<1>3. /\ Len(window') = Len(window) + 1
      /\ \A i \in 1..Len(window) : window'[i] = window[i]
      /\ window'[Len(window) + 1] = T
      /\ window' \in Seq(Snapshot)
    BY <1>1, <1>2
<1>4. TableTypeOK'
    BY <1>1, <1>2, <1>3, BoundAssumption DEF TableTypeOK
<1>5. \A i \in 1..Len(window') : Keyed(window'[i])
    BY <1>1, <1>3 DEF TableInv
<1>6. Born'
    <2> SUFFICES ASSUME NEW i \in 1..Len(window'), NEW p \in Pid,
                        window'[i][p] # Absent
                 PROVE  window'[i][p].start \in 1..Len(owner')
        BY DEF Born
    <2>1. CASE i \in 1..Len(window)
        <3>1. window[i][p].start \in 1..Len(owner)
            BY <1>3, <2>1 DEF TableInv, Born
        <3>2. Len(owner) \in Nat /\ Len(owner') \in Nat
            BY <1>1
        <3>3. QED
            BY <1>3, <2>1, <3>1, <3>2
    <2>2. CASE i = Len(window) + 1
        BY <1>3, <2>2
    <2>3. QED
        BY <1>1, <1>3, <2>1, <2>2
<1>7. OneHolder'
    <2> SUFFICES ASSUME NEW i \in 1..Len(window'), NEW j \in 1..Len(window'),
                        NEW p \in Pid,
                        window'[i][p] # Absent, window'[j][p] # Absent
                 PROVE  window'[i][p].start = window'[j][p].start
        BY DEF OneHolder
    <2>1. CASE i \in 1..Len(window) /\ j \in 1..Len(window)
        BY <1>3, <2>1 DEF TableInv, OneHolder
    <2>2. CASE i = Len(window) + 1 \/ j = Len(window) + 1
        <3>1. \A k \in 1..Len(window') :
                  k \in 1..Len(window) \/ k = Len(window) + 1
            BY <1>1, <1>3
        <3>2. QED
            BY <1>3, <2>2, <3>1
    <2>3. QED
        BY <1>1, <1>3, <2>1, <2>2
<1>8. QED
    BY <1>1, <1>3, <1>4, <1>5, <1>6, <1>7 DEF TableInv

(* A started process takes an id no process of the window has held. *)
LEMMA StartLemma ==
    ASSUME TableInv,
           NEW p \in Pid, NEW parent \in Pid \cup {Launchd}, NEW exe \in Exe,
           NEW dirs \in SUBSET Dir, NEW o \in Owner,
           Start(p, parent, exe, dirs, o)
    PROVE  TableInv' /\ window'[1] = window[1] /\ Len(window') \in Nat \ {0}
<1> DEFINE proc == [pid |-> p, ppid |-> parent, start |-> Len(owner) + 1,
                    exe |-> exe, dirs |-> dirs]
           T == [Table EXCEPT ![p] = proc]
<1>1. /\ window \in Seq(Snapshot) /\ owner \in Seq(Owner) /\ Table \in Snapshot
    BY LiveType DEF TableInv, TableTypeOK
<1>2. Change(T) /\ owner' = Append(owner, o)
    BY DEF Start
<1>3. proc \in Info /\ proc # Absent
    BY <1>1, AbsentAssumption DEF Info
<1>4. T \in Snapshot /\ T[p] = proc /\ \A q \in Pid \ {p} : T[q] = Table[q]
    BY <1>1, <1>3 DEF Snapshot
<1>5. owner' \in Seq(Owner) /\ Len(owner') = Len(owner) + 1 /\ Len(owner) \in Nat
    BY <1>1, <1>2
<1>6. \A q \in Pid : Table[q] # Absent => q \in Live
    BY <1>1 DEF Live, Listed, Snapshot
<1>7. Keyed(T)
    BY <1>4, <1>6, LiveType DEF Keyed
<1>8. \A q \in Pid : T[q] # Absent => T[q].start \in 1..Len(owner')
    BY <1>4, <1>5, <1>6, LiveType
<1>9. \A i \in 1..Len(window) : window[i][p] = Absent
    <2>1. \A i \in 1..Len(window) : p \notin Listed(window[i])
        BY <1>1 DEF Start
    <2>2. \A i \in 1..Len(window) : window[i] \in Snapshot
        BY <1>1
    <2>3. QED
        BY <2>1, <2>2 DEF Listed, Snapshot
<1>10. \A i \in 1..Len(window), q \in Pid :
           (window[i][q] # Absent /\ T[q] # Absent) =>
               window[i][q].start = T[q].start
    BY <1>4, <1>9, LiveType DEF TableInv, OneHolder, Table
<1>11. Len(owner) <= Len(owner')
    BY <1>5
<1> HIDE DEF T, proc
<1>12. QED
    BY <1>2, <1>4, <1>5, <1>7, <1>8, <1>10, <1>11, ChangeLemma

(* Everything the rest of the machine does keeps the table's invariant and *)
(* leaves the start of the window alone.                                   *)
LEMMA EnvironmentLemma ==
    ASSUME TableInv, Environment
    PROVE  TableInv' /\ window'[1] = window[1] /\ Len(window') \in Nat \ {0}
<1>1. /\ window \in Seq(Snapshot) /\ owner \in Seq(Owner) /\ Table \in Snapshot
    BY LiveType DEF TableInv, TableTypeOK
<1>2. \A q \in Pid : Table[q] # Absent => q \in Live
    BY <1>1 DEF Live, Listed, Snapshot
<1>3. \A i \in 1..Len(window), q \in Pid :
          (window[i][q] # Absent /\ Table[q] # Absent) =>
              window[i][q].start = Table[q].start
    BY LiveType DEF TableInv, OneHolder, Table
<1>4. CASE \E p \in Pid : Exit(p)
    <2>1. PICK p \in Pid : Exit(p)
        BY <1>4
    <2> DEFINE T == [q \in Pid |->
                        CASE q = p -> Absent
                          [] q \in Live \ {p} /\ Table[q].ppid = p ->
                                 [Table[q] EXCEPT !.ppid = Launchd]
                          [] OTHER -> Table[q]]
    <2>2. Change(T) /\ owner' = owner
        BY <2>1 DEF Exit
    <2>3. T[p] = Absent
        OBVIOUS
    <2>4. \A q \in Pid \ {p} :
              \/ T[q] = Table[q]
              \/ q \in Live /\ T[q] = [Table[q] EXCEPT !.ppid = Launchd]
        OBVIOUS
    <2>5. \A q \in Live : LET i == [Table[q] EXCEPT !.ppid = Launchd] IN
              i \in Info /\ i.pid = q /\ i.start = Table[q].start
        BY LiveType DEF Info
    <2>6. \A q \in Pid : \/ T[q] = Absent
                         \/ /\ q \in Live /\ T[q] \in Info
                            /\ T[q].pid = q /\ T[q].start = Table[q].start
        BY <1>2, <2>3, <2>4, <2>5, LiveType
    <2>7. T \in Snapshot
        BY <2>6 DEF Snapshot
    <2>8. Keyed(T)
        BY <2>6 DEF Keyed
    <2>9. \A q \in Pid : T[q] # Absent => T[q].start \in 1..Len(owner')
        BY <2>2, <2>6, LiveType
    <2>10. \A i \in 1..Len(window), q \in Pid :
               (window[i][q] # Absent /\ T[q] # Absent) =>
                   window[i][q].start = T[q].start
        <3>1. \A q \in Live : Table[q] # Absent
            BY LiveType, AbsentAssumption
        <3>2. QED
            BY <1>3, <2>6, <3>1
    <2>11. owner' \in Seq(Owner) /\ Len(owner) <= Len(owner')
        BY <1>1, <2>2
    <2> HIDE DEF T
    <2>12. QED
        BY <2>2, <2>7, <2>8, <2>9, <2>10, <2>11, ChangeLemma
<1>5. CASE Spawn
    <2>1. PICK parent \in Live, p \in Pid, exe \in Exe \ {MainExe} :
               \E dirs \in {{}, Table[parent].dirs} :
                   Start(p, parent, exe, dirs, owner[Table[parent].start])
        BY <1>5 DEF Spawn
    <2>2. parent \in Pid /\ {{}, Table[parent].dirs} \subseteq SUBSET Dir
        BY LiveType DEF Info
    <2>3. owner[Table[parent].start] \in Owner
        BY <1>1, LiveType
    <2>4. QED
        BY <2>1, <2>2, <2>3, StartLemma
<1>6. CASE OpenInstance
    <2>1. PICK p \in Pid :
               \/ \E id \in Profile, parent \in Live \cup {Launchd} :
                      Start(p, parent, MainExe, {id}, id)
               \/ Start(p, Launchd, MainExe, {}, Nobody)
        BY <1>6 DEF OpenInstance
    <2>2. MainExe \in Exe /\ Live \subseteq Pid
        BY BundleAssumption, LiveType
    <2>3. CASE \E id \in Profile, parent \in Live \cup {Launchd} :
                   Start(p, parent, MainExe, {id}, id)
        BY <2>2, <2>3, StartLemma, ProfileAssumption DEF Owner
    <2>4. CASE Start(p, Launchd, MainExe, {}, Nobody)
        BY <2>2, <2>4, StartLemma DEF Owner
    <2>5. QED
        BY <2>1, <2>3, <2>4
<1>7. CASE Exec
    <2>0. PICK p \in Live, exe \in Exe \ Bundle :
              \E dirs \in {{}, Table[p].dirs} :
                  /\ Change([Table EXCEPT ![p] = [@ EXCEPT !.exe = exe, !.dirs = dirs]])
                  /\ owner' = owner
        BY <1>7 DEF Exec
    <2>1. PICK dirs \in {{}, Table[p].dirs} :
              /\ Change([Table EXCEPT ![p] = [@ EXCEPT !.exe = exe, !.dirs = dirs]])
              /\ owner' = owner
        BY <2>0
    <2> DEFINE proc == [Table[p] EXCEPT !.exe = exe, !.dirs = dirs]
               T == [Table EXCEPT ![p] = [@ EXCEPT !.exe = exe, !.dirs = dirs]]
    <2>2. p \in Pid /\ Table[p] \in Info /\ dirs \in SUBSET Dir
        BY LiveType DEF Info
    <2>3. /\ proc \in Info
          /\ proc.pid = p
          /\ proc.start = Table[p].start
        BY <2>2, LiveType DEF Info
    <2>4. T[p] = proc /\ \A q \in Pid \ {p} : T[q] = Table[q]
        BY <1>1, <2>2 DEF Snapshot, Info
    <2>5. T \in Snapshot
        BY <1>1, <2>2, <2>3, <2>4 DEF Snapshot
    <2>6. Keyed(T)
        BY <1>2, <2>3, <2>4, LiveType DEF Keyed
    <2>7. \A q \in Pid : T[q] # Absent => T[q].start \in 1..Len(owner')
        BY <1>2, <2>1, <2>3, <2>4, LiveType
    <2>8. \A i \in 1..Len(window), q \in Pid :
              (window[i][q] # Absent /\ T[q] # Absent) =>
                  window[i][q].start = T[q].start
        <3>1. Table[p] # Absent
            BY LiveType, AbsentAssumption
        <3>2. QED
            BY <1>3, <2>2, <2>3, <2>4, <3>1
    <2>9. owner' \in Seq(Owner) /\ Len(owner) <= Len(owner')
        BY <1>1, <2>1
    <2> HIDE DEF T, proc
    <2>10. Change(T)
        BY <2>1 DEF T
    <2>11. QED
        BY <2>5, <2>6, <2>7, <2>8, <2>9, <2>10, ChangeLemma
<1>8. QED
    BY <1>4, <1>5, <1>6, <1>7 DEF Environment

(* Whatever a scan returns is well formed. *)
LEMMA ScanLemma ==
    ASSUME TableInv, NEW snap \in SnapshotAll
    PROVE  snap \in Snapshot /\ Keyed(snap)
<1>1. window \in Seq(Snapshot)
    BY DEF TableInv, TableTypeOK
<1>2. CASE snap = Empty
    BY <1>2 DEF Empty, Snapshot, Keyed
<1>3. CASE \E l \in DOMAIN window : snap \in Scans(l)
    <2>0. PICK l \in DOMAIN window : snap \in Scans(l)
        BY <1>3
    <2>1. PICK at \in [Listed(window[l]) -> l..Len(window)] :
              \E seen \in SUBSET Readable(l, at) : snap = ReadAt(at, seen)
        BY <2>0 DEF Scans
    <2>2. PICK seen \in SUBSET Readable(l, at) : snap = ReadAt(at, seen)
        BY <2>1
    <2>3. \A p \in seen : /\ p \in Listed(window[l])
                          /\ at[p] \in 1..Len(window)
                          /\ p \in Listed(window[at[p]])
        BY <1>1, <2>2 DEF Readable
    <2>4. \A p \in seen : /\ p \in Pid
                          /\ window[at[p]][p] \in Info
                          /\ window[at[p]][p].pid = p
        BY <1>1, <2>3 DEF Listed, Snapshot, TableInv, Keyed
    <2>5. QED
        BY <2>2, <2>4 DEF ReadAt, Snapshot, Keyed
<1>4. QED
    BY <1>2, <1>3 DEF SnapshotAll

-----------------------------------------------------------------------------
(* The main process that is picked is one of the snapshot. *)
LEMMA MainOfLemma ==
    ASSUME NEW snap \in Snapshot, NEW id, Mains(snap, id) # {}
    PROVE  MainOf(snap, id) \in Info
<1>1. (CHOOSE p \in Mains(snap, id) : TRUE) \in Mains(snap, id)
    OBVIOUS
<1>2. \A p \in Mains(snap, id) : snap[p] \in Info
    BY DEF Mains, Listed, Snapshot
<1>3. QED
    BY <1>1, <1>2 DEF MainOf

-----------------------------------------------------------------------------
(***************************************************************************)
(* What becomes of a process: it keeps its id, its parent until launchd    *)
(* adopts it, and its executable and flags unless it is a helper that      *)
(* execs a program outside the bundle.                                     *)
(***************************************************************************)
Became(x, y) ==
    /\ y.pid = x.pid
    /\ y.ppid \in {x.ppid, Launchd}
    /\ \/ y.exe = x.exe /\ y.dirs = x.dirs
       \/ /\ MainExe \notin {x.exe, y.exe}
          /\ y.exe \notin Bundle
          /\ y.dirs \subseteq x.dirs

(* The same start time in two tables of a window is one process, earlier   *)
(* and later.                                                              *)
Aging ==
    \A i, j \in 1..Len(window), p, q \in Pid :
        (/\ i <= j
         /\ window[i][p] # Absent /\ window[j][q] # Absent
         /\ window[i][p].start = window[j][q].start) =>
            Became(window[i][p], window[j][q])

(* A process that is there at two moments is there between them.           *)
Unbroken ==
    \A i, j, k \in 1..Len(window), p \in Pid :
        (/\ i <= j /\ j <= k
         /\ window[i][p] # Absent /\ window[k][p] # Absent) =>
            window[j][p] # Absent

Families == \A i \in 1..Len(window) : Descent(window[i], owner)

HistoryInv == Aging /\ Unbroken /\ Families

(* A process of an earlier window: what now has its start time is what has *)
(* become of it, and was there when the window began.                      *)
Known(x) ==
    /\ x.start \in 1..Len(owner)
    /\ \A i \in 1..Len(window), p \in Pid :
           (window[i][p] # Absent /\ window[i][p].start = x.start) =>
               /\ Became(x, window[i][p])
               /\ window[1][p] # Absent /\ window[1][p].start = x.start

LEMMA WindowType ==
    ASSUME TableInv
    PROVE  /\ Len(window) \in Nat \ {0} /\ DOMAIN window = 1..Len(window)
           /\ \A i \in 1..Len(window) : window[i] \in Snapshot
           /\ Table = window[Len(window)]
           /\ owner \in Seq(Owner) /\ Len(owner) \in Nat
BY DEF TableInv, TableTypeOK, Table

LEMMA BecameTransitive ==
    ASSUME NEW x, NEW y, NEW z, Became(x, y), Became(y, z)
    PROVE  Became(x, z)
BY DEF Became

(* Listed, in the words of the invariants. *)
LEMMA ListedIff ==
    ASSUME NEW s \in Snapshot
    PROVE  Listed(s) = {p \in Pid : s[p] # Absent}
BY DEF Listed, Snapshot

(* Every change: the processes of the new table are what the present ones  *)
(* became, or have just been started.                                      *)
Succeeds(T) ==
    /\ \A q \in Pid : T[q] # Absent =>
           \/ /\ Table[q] # Absent
              /\ T[q].start = Table[q].start
              /\ Became(Table[q], T[q])
           \/ /\ T[q].start = Len(owner) + 1
              /\ \A i \in 1..Len(window) : window[i][q] = Absent
    /\ \A p, q \in Pid :
           (T[p] # Absent /\ T[q] # Absent /\ T[p].start = T[q].start) => p = q
    /\ Descent(T, owner')

(* No two processes of a table have the same start time.                   *)
LEMMA OneStart ==
    ASSUME TableInv, Aging, NEW i \in 1..Len(window), NEW p \in Pid, NEW q \in Pid,
           window[i][p] # Absent, window[i][q] # Absent,
           window[i][p].start = window[i][q].start
    PROVE  p = q
<1>1. Became(window[i][p], window[i][q])
  BY WindowType DEF Aging
<1>2. window[i][p].pid = p /\ window[i][q].pid = q
  BY DEF TableInv, Keyed
<1> QED
  BY <1>1, <1>2 DEF Became

(* Whose a newly started process is, o: what its flag says, and its        *)
(* parent's unless it is opened as an instance.                            *)
RightOwner(parent, exe, dirs, o) ==
    /\ \A id \in Profile : dirs = {id} => o = id
    /\ \/ parent = Launchd
       \/ /\ parent \in Live
          /\ \/ exe = MainExe /\ \E id \in Profile : dirs = {id}
             \/ o = owner[Table[parent].start]

LEMMA StartSucceeds ==
    ASSUME TableInv, HistoryInv,
           NEW p \in Pid, NEW parent \in Pid \cup {Launchd}, NEW exe \in Exe,
           NEW dirs \in SUBSET Dir, NEW o \in Owner,
           Start(p, parent, exe, dirs, o), RightOwner(parent, exe, dirs, o)
    PROVE  \E T \in Snapshot : window' = Append(window, T) /\ Succeeds(T)
<1> DEFINE proc == [pid |-> p, ppid |-> parent, start |-> Len(owner) + 1,
                    exe |-> exe, dirs |-> dirs]
           T == [Table EXCEPT ![p] = proc]
<1>1. Table \in Snapshot /\ Len(owner) \in Nat /\ owner \in Seq(Owner)
  BY WindowType, LiveType
<1>2. window' = Append(window, T) /\ owner' = Append(owner, o)
  BY DEF Start, Change
<1>3. proc \in Info /\ proc # Absent
  BY <1>1, AbsentAssumption DEF Info
<1>4. T \in Snapshot /\ T[p] = proc /\ \A q \in Pid \ {p} : T[q] = Table[q]
  BY <1>1, <1>3 DEF Snapshot
<1>5. \A i \in 1..Len(window) : window[i][p] = Absent
  BY WindowType, ListedIff DEF Start
<1>6. /\ owner'[Len(owner) + 1] = o
      /\ \A n \in 1..Len(owner) : owner'[n] = owner[n]
  BY <1>1, <1>2
<1>7. /\ proc.start = Len(owner) + 1 /\ proc.ppid = parent
      /\ proc.exe = exe /\ proc.dirs = dirs
  OBVIOUS
<1> HIDE DEF proc, T
<1>8. \A q \in Pid : T[q] # Absent =>
          \/ /\ Table[q] # Absent
             /\ T[q].start = Table[q].start
             /\ Became(Table[q], T[q])
          \/ /\ T[q].start = Len(owner) + 1
             /\ \A i \in 1..Len(window) : window[i][q] = Absent
  BY <1>4, <1>5, <1>7 DEF Became
<1>9. Descent(T, owner')
  <2> SUFFICES ASSUME NEW q \in Listed(T)
               PROVE  /\ \A id \in Profile : T[q].dirs = {id} => owner'[T[q].start] = id
                      /\ \/ T[q].ppid = Launchd
                         \/ /\ T[q].ppid \in Listed(T)
                            /\ \/ Opened(T[q])
                               \/ owner'[T[q].start] = owner'[T[T[q].ppid].start]
    BY DEF Descent
  <2>1. Table[p] = Absent
    BY <1>5, WindowType
  <2>2. \A r \in Live : r # p /\ r \in Listed(T) /\ T[r] = Table[r]
                        /\ owner'[T[r].start] = owner[Table[r].start]
    BY <1>1, <1>4, <1>6, <2>1, LiveType, ListedIff DEF Live
  <2>3. CASE q = p
    BY <1>4, <1>6, <1>7, <2>2, <2>3 DEF RightOwner, Opened
  <2>4. CASE q # p
    <3>1. q \in Live
      BY <1>1, <1>4, <2>4, ListedIff DEF Live
    <3>2. Descent(Table, owner)
      BY WindowType DEF HistoryInv, Families
    <3>3. /\ \A id \in Profile : Table[q].dirs = {id} => owner[Table[q].start] = id
          /\ \/ Table[q].ppid = Launchd
             \/ /\ Table[q].ppid \in Live
                /\ \/ Opened(Table[q])
                   \/ owner[Table[q].start] = owner[Table[Table[q].ppid].start]
      BY <3>1, <3>2 DEF Descent, Live
    <3> QED
      BY <2>2, <3>1, <3>3
  <2> QED
    BY <2>3, <2>4
<1>10. \A q, r \in Pid :
           (T[q] # Absent /\ T[r] # Absent /\ T[q].start = T[r].start) => q = r
  <2>1. \A q \in Pid : Table[q] # Absent => Table[q].start \in 1..Len(owner)
    BY WindowType DEF TableInv, Born
  <2>2. \A q, r \in Pid :
            (Table[q] # Absent /\ Table[r] # Absent /\ Table[q].start = Table[r].start) => q = r
    BY WindowType, OneStart DEF HistoryInv
  <2> QED
    BY <1>1, <1>4, <1>7, <2>1, <2>2
<1> QED
  BY <1>2, <1>4, <1>8, <1>9, <1>10 DEF Succeeds

(* A change that starts nothing: the parents of the new table are running, *)
(* and who is whose is left alone.                                         *)
LEMMA AgedSucceeds ==
    ASSUME TableInv, HistoryInv, NEW T \in Snapshot, owner' = owner,
           \A q \in Pid : T[q] # Absent =>
               /\ Table[q] # Absent
               /\ T[q].start = Table[q].start
               /\ Became(Table[q], T[q])
               /\ \/ T[q].ppid = Launchd
                  \/ T[q].ppid = Table[q].ppid /\ T[T[q].ppid] # Absent,
           \A q \in Pid : T[q] # Absent => Table[q].dirs = T[q].dirs \/ T[q].dirs = {}
    PROVE  Succeeds(T)
<1>1. Table \in Snapshot /\ Descent(Table, owner)
  BY WindowType, LiveType DEF HistoryInv, Families
<1>2. Descent(T, owner')
  <2> SUFFICES ASSUME NEW q \in Listed(T)
               PROVE  /\ \A id \in Profile : T[q].dirs = {id} => owner[T[q].start] = id
                      /\ \/ T[q].ppid = Launchd
                         \/ /\ T[q].ppid \in Listed(T)
                            /\ \/ Opened(T[q])
                               \/ owner[T[q].start] = owner[T[T[q].ppid].start]
    BY DEF Descent
  <2>1. q \in Pid /\ T[q] # Absent /\ q \in Listed(Table)
    BY <1>1, ListedIff
  <2>2. /\ \A id \in Profile : Table[q].dirs = {id} => owner[Table[q].start] = id
        /\ \/ Table[q].ppid = Launchd
           \/ /\ Table[q].ppid \in Listed(Table)
              /\ \/ Opened(Table[q])
                 \/ owner[Table[q].start] = owner[Table[Table[q].ppid].start]
    BY <1>1, <2>1 DEF Descent
  <2>3. \A id \in Profile : T[q].dirs = {id} => owner[T[q].start] = id
    BY <2>1, <2>2
  <2>4. CASE T[q].ppid # Launchd
    <3> DEFINE r == T[q].ppid
    <3>1. r = Table[q].ppid /\ r \in Listed(Table) /\ r \in Pid
      BY <1>1, <2>1, <2>2, <2>4, ListedIff
    <3>2. r \in Listed(T) /\ T[r].start = Table[r].start
      BY <2>1, <2>4, <3>1, ListedIff
    <3>3. Opened(Table[q]) => Opened(T[q])
      BY <2>1 DEF Opened, Became
    <3> QED
      BY <2>1, <2>2, <2>3, <2>4, <3>1, <3>2, <3>3
  <2> QED
    BY <2>3, <2>4
<1>3. \A q, r \in Pid :
          (T[q] # Absent /\ T[r] # Absent /\ T[q].start = T[r].start) => q = r
  BY WindowType, OneStart DEF HistoryInv
<1> QED
  BY <1>2, <1>3 DEF Succeeds

LEMMA EnvironmentSucceeds ==
    ASSUME TableInv, HistoryInv, Environment
    PROVE  \E T \in Snapshot : window' = Append(window, T) /\ Succeeds(T)
<1>1. /\ Table \in Snapshot /\ Live \subseteq Pid /\ Launchd \notin Live
      /\ owner \in Seq(Owner)
  BY WindowType, LiveType, PidAssumption
<1>2. \A q \in Live : Table[q] # Absent /\ Table[q] \in Info /\ Table[q].pid = q
  BY LiveType, AbsentAssumption
<1>3. \A q \in Pid : Table[q] # Absent => q \in Live
  BY <1>1, ListedIff DEF Live
<1>4. Descent(Table, owner)
  BY WindowType DEF HistoryInv, Families
<1>5. ASSUME NEW p \in Pid, Exit(p)
      PROVE  \E T \in Snapshot : window' = Append(window, T) /\ Succeeds(T)
  <2> DEFINE T == [q \in Pid |->
                      CASE q = p -> Absent
                        [] q \in Live \ {p} /\ Table[q].ppid = p ->
                               [Table[q] EXCEPT !.ppid = Launchd]
                        [] OTHER -> Table[q]]
  <2>1. window' = Append(window, T) /\ owner' = owner
    BY <1>5 DEF Exit, Change
  <2>2. T[p] = Absent
    OBVIOUS
  <2>3. \A q \in Pid \ {p} :
            \/ T[q] = Table[q] /\ (q \in Live => Table[q].ppid # p)
            \/ q \in Live /\ T[q] = [Table[q] EXCEPT !.ppid = Launchd]
    OBVIOUS
  <2>4. \A q \in Live : LET i == [Table[q] EXCEPT !.ppid = Launchd] IN
            /\ i \in Info
            /\ i.ppid = Launchd /\ i.start = Table[q].start
            /\ i.pid = Table[q].pid /\ i.exe = Table[q].exe /\ i.dirs = Table[q].dirs
    <3>1. ASSUME NEW i \in Info
          PROVE  LET r == [i EXCEPT !.ppid = Launchd] IN
                 /\ r \in Info /\ r.ppid = Launchd /\ r.start = i.start
                 /\ r.pid = i.pid /\ r.exe = i.exe /\ r.dirs = i.dirs
      BY DEF Info
    <3> QED
      BY <1>2, <3>1
  <2>5. T \in Snapshot
    BY <1>1, <2>2, <2>3, <2>4 DEF Snapshot
  <2> HIDE DEF T
  <2>6. ASSUME NEW q \in Live \ {p} PROVE T[q] # Absent
    <3>1. T[q] = Table[q] \/ T[q] = [Table[q] EXCEPT !.ppid = Launchd]
      BY <1>1, <2>3
    <3>2. Table[q] \in Info /\ [Table[q] EXCEPT !.ppid = Launchd] \in Info
      BY <1>2, <2>4
    <3> QED
      BY <3>1, <3>2, AbsentAssumption
  <2>7. \A q \in Pid : T[q] # Absent =>
            /\ q \in Live \ {p} /\ T[q].start = Table[q].start
            /\ T[q].dirs = Table[q].dirs
            /\ Became(Table[q], T[q])
            /\ T[q].ppid = Launchd \/ (T[q].ppid = Table[q].ppid /\ Table[q].ppid # p)
    <3> SUFFICES ASSUME NEW q \in Pid, T[q] # Absent
                 PROVE  /\ q \in Live \ {p} /\ T[q].start = Table[q].start
                        /\ T[q].dirs = Table[q].dirs
                        /\ Became(Table[q], T[q])
                        /\ T[q].ppid = Launchd \/ (T[q].ppid = Table[q].ppid /\ Table[q].ppid # p)
      OBVIOUS
    <3>1. q # p
      BY <2>2
    <3>2. CASE T[q] = Table[q] /\ (q \in Live => Table[q].ppid # p)
      BY <1>3, <3>1, <3>2 DEF Became
    <3>3. CASE q \in Live /\ T[q] = [Table[q] EXCEPT !.ppid = Launchd]
      <4>1. /\ T[q].ppid = Launchd /\ T[q].start = Table[q].start
            /\ T[q].pid = Table[q].pid /\ T[q].exe = Table[q].exe /\ T[q].dirs = Table[q].dirs
        BY <2>4, <3>3
      <4> QED
        BY <3>1, <3>3, <4>1 DEF Became
    <3> QED
      BY <2>3, <3>1, <3>2, <3>3
  <2>8. \A q \in Pid : T[q] # Absent =>
            \/ T[q].ppid = Launchd
            \/ T[q].ppid = Table[q].ppid /\ T[T[q].ppid] # Absent
    <3>1. \A q \in Live : Table[q].ppid = Launchd \/ Table[q].ppid \in Live
      BY <1>4 DEF Descent, Live
    <3> QED
      BY <2>6, <2>7, <3>1
  <2>9. Succeeds(T)
    BY <1>2, <2>1, <2>5, <2>7, <2>8, AgedSucceeds
  <2> QED
    BY <2>1, <2>5, <2>9
<1>6. CASE Spawn
  <2>1. PICK parent \in Live, p \in Pid, exe \in Exe \ {MainExe} :
             \E dirs \in {{}, Table[parent].dirs} :
                 Start(p, parent, exe, dirs, owner[Table[parent].start])
    BY <1>6 DEF Spawn
  <2>2. PICK dirs \in {{}, Table[parent].dirs} :
            Start(p, parent, exe, dirs, owner[Table[parent].start])
    BY <2>1
  <2>3. /\ parent \in Pid /\ dirs \in SUBSET Dir
        /\ owner[Table[parent].start] \in Owner
    BY <1>1, <1>2, LiveType DEF Info
  <2>4. \A id \in Profile : dirs = {id} => owner[Table[parent].start] = id
    BY <1>4 DEF Descent, Live
  <2>5. exe \in Exe /\ parent \in Pid \cup {Launchd}
    BY <2>3
  <2>6. PICK o \in Owner : o = owner[Table[parent].start] /\ Start(p, parent, exe, dirs, o)
    BY <2>2, <2>3 DEF Start
  <2>7. RightOwner(parent, exe, dirs, o)
    BY <2>4, <2>6 DEF RightOwner
  <2>8. Start(p, parent, exe, dirs, o) /\ dirs \in SUBSET Dir
    BY <2>3, <2>6
  <2> QED
    BY <2>5, <2>7, <2>8, StartSucceeds
<1>7. CASE OpenInstance
  <2>1. PICK p \in Pid :
             \/ \E id \in Profile, parent \in Live \cup {Launchd} :
                    Start(p, parent, MainExe, {id}, id)
             \/ Start(p, Launchd, MainExe, {}, Nobody)
    BY <1>7 DEF OpenInstance
  <2>2. MainExe \in Exe
    BY BundleAssumption
  <2>3. ASSUME NEW id \in Profile, NEW parent \in Live \cup {Launchd},
               Start(p, parent, MainExe, {id}, id)
        PROVE  \E T \in Snapshot : window' = Append(window, T) /\ Succeeds(T)
    <3>1. /\ {id} \in SUBSET Dir /\ id \in Owner /\ parent \in Pid \cup {Launchd}
          /\ RightOwner(parent, MainExe, {id}, id)
      BY <1>1, ProfileAssumption DEF Owner, RightOwner
    <3> QED
      BY <2>2, <2>3, <3>1, StartSucceeds
  <2>4. CASE Start(p, Launchd, MainExe, {}, Nobody)
    <3>1. Nobody \in Owner /\ RightOwner(Launchd, MainExe, {}, Nobody)
      BY DEF Owner, RightOwner
    <3> QED
      BY <2>2, <2>4, <3>1, StartSucceeds
  <2> QED
    BY <2>1, <2>3, <2>4
<1>8. CASE Exec
  <2>1. PICK p \in Live, exe \in Exe \ Bundle : \E dirs \in {{}, Table[p].dirs} :
            /\ Table[p].exe \in Bundle \ {MainExe}
            /\ Change([Table EXCEPT ![p] = [@ EXCEPT !.exe = exe, !.dirs = dirs]])
            /\ owner' = owner
    BY <1>8 DEF Exec
  <2>2. PICK dirs \in {{}, Table[p].dirs} :
            /\ Table[p].exe \in Bundle \ {MainExe}
            /\ Change([Table EXCEPT ![p] = [@ EXCEPT !.exe = exe, !.dirs = dirs]])
            /\ owner' = owner
    BY <2>1
  <2> DEFINE proc == [Table[p] EXCEPT !.exe = exe, !.dirs = dirs]
             T == [Table EXCEPT ![p] = [@ EXCEPT !.exe = exe, !.dirs = dirs]]
  <2>3. p \in Pid /\ dirs \in SUBSET Dir /\ dirs \subseteq Table[p].dirs
    BY <1>1, <1>2 DEF Info
  <2>4. /\ proc \in Info /\ proc.pid = Table[p].pid /\ proc.ppid = Table[p].ppid
        /\ proc.start = Table[p].start /\ proc.exe = exe /\ proc.dirs = dirs
    <3>1. ASSUME NEW i \in Info
          PROVE  LET r == [i EXCEPT !.exe = exe, !.dirs = dirs] IN
                 /\ r \in Info /\ r.pid = i.pid /\ r.ppid = i.ppid
                 /\ r.start = i.start /\ r.exe = exe /\ r.dirs = dirs
      BY <2>3 DEF Info
    <3> QED
      BY <1>2, <3>1
  <2>5. T[p] = proc /\ \A q \in Pid \ {p} : T[q] = Table[q]
    BY <1>1, <1>2, <2>3 DEF Snapshot, Info
  <2>6. T \in Snapshot
    <3>1. ASSUME NEW i \in Info PROVE [Table EXCEPT ![p] = i] \in Snapshot
      BY <1>1, <2>3 DEF Snapshot
    <3> QED
      BY <2>4, <3>1
  <2>7. window' = Append(window, T)
    BY <2>2 DEF Change
  <2>8. exe # MainExe /\ exe \notin Bundle
    BY BundleAssumption
  <2> HIDE DEF T, proc
  <2>9. \A q \in Pid : T[q] # Absent =>
            /\ Table[q] # Absent
            /\ T[q].start = Table[q].start /\ T[q].ppid = Table[q].ppid
            /\ Table[q].dirs = T[q].dirs \/ T[q].dirs = {}
            /\ Became(Table[q], T[q])
    BY <1>2, <2>2, <2>3, <2>4, <2>5, <2>8 DEF Became
  <2>10. \A q \in Live : T[q] # Absent
    BY <1>1, <1>2, <2>4, <2>5, AbsentAssumption
  <2>11. \A q \in Pid : T[q] # Absent => T[q].ppid = Launchd \/ T[T[q].ppid] # Absent
    <3>1. \A q \in Live : Table[q].ppid = Launchd \/ Table[q].ppid \in Live
      BY <1>4 DEF Descent, Live
    <3> QED
      BY <1>3, <2>9, <2>10, <3>1
  <2>12. Succeeds(T)
    BY <2>2, <2>6, <2>9, <2>11, AgedSucceeds
  <2> QED
    BY <2>6, <2>7, <2>12
<1> QED
  BY <1>5, <1>6, <1>7, <1>8 DEF Environment

(* The invariant of the history, from the boot tables on. *)
LEMMA HistoryInit == TableInit => HistoryInv
<1> SUFFICES ASSUME NEW b \in Boot, window = <<b.procs>>, owner = b.owner
             PROVE  HistoryInv
  BY DEF TableInit
<1>1. Len(window) = 1 /\ window[1] = b.procs /\ b.procs \in Snapshot
  BY BootAssumption
<1>2. \A p, q \in Pid : (/\ b.procs[p] # Absent /\ b.procs[q] # Absent
                         /\ b.procs[p].start = b.procs[q].start) => p = q
  BY <1>1, BootAssumption, ListedIff
<1>3. \A x : Became(x, x)
  BY DEF Became
<1>4. Aging
  BY <1>1, <1>2, <1>3 DEF Aging
<1>5. Unbroken
  BY <1>1 DEF Unbroken
<1>6. Families
  BY <1>1, BootOwnerAssumption DEF Families
<1> QED
  BY <1>4, <1>5, <1>6 DEF HistoryInv

(* A change keeps it: what the present processes became descends from what *)
(* the window holds, and what is new has a start time nothing had.         *)
LEMMA EnvironmentHistory ==
    ASSUME TableInv, HistoryInv, Environment
    PROVE  /\ HistoryInv'
           /\ window'[1] = window[1]
           /\ \A x : Known(x) => Known(x)'
           /\ \A k \in 1..Len(owner) : owner'[k] = owner[k]
<1>1. PICK T \in Snapshot : window' = Append(window, T) /\ Succeeds(T)
  BY EnvironmentSucceeds
<1> DEFINE n == Len(window)
<1>2. /\ n \in Nat \ {0} /\ Table = window[n]
      /\ \A i \in 1..n : window[i] \in Snapshot
      /\ owner \in Seq(Owner) /\ Len(owner) \in Nat
  BY WindowType
<1>3. /\ Len(window') = n + 1 /\ window'[n + 1] = T
      /\ \A i \in 1..n : window'[i] = window[i]
  BY <1>1 DEF TableInv, TableTypeOK
<1>4. \/ owner' = owner
      \/ \E o \in Owner : owner' = Append(owner, o)
  <2>1. \A parent \in Live : owner[Table[parent].start] \in Owner
    BY <1>2, LiveType
  <2>2. CASE Spawn
    BY <2>1, <2>2 DEF Spawn, Start
  <2>3. CASE OpenInstance
    <3>1. Nobody \in Owner /\ Profile \subseteq Owner
      BY DEF Owner
    <3> QED
      BY <2>3, <3>1 DEF OpenInstance, Start
  <2>4. CASE (\E p \in Pid : Exit(p)) \/ Exec
    BY <2>4 DEF Exit, Exec
  <2> QED
    BY <2>2, <2>3, <2>4 DEF Environment
<1>5. /\ Len(owner) <= Len(owner') /\ Len(owner') \in Nat
      /\ \A k \in 1..Len(owner) : owner'[k] = owner[k]
  BY <1>2, <1>4
<1>6. \A i \in 1..(n + 1) : i = n + 1 \/ i \in 1..n
  BY <1>2
<1>7. \A q \in Pid : T[q] # Absent =>
          \/ /\ Table[q] # Absent
             /\ T[q].start = Table[q].start
             /\ Became(Table[q], T[q])
          \/ /\ T[q].start = Len(owner) + 1
             /\ \A i \in 1..n : window[i][q] = Absent
  BY <1>1 DEF Succeeds
<1>8. \A i \in 1..n, p \in Pid : window[i][p] # Absent =>
          window[i][p].start \in 1..Len(owner)
  BY DEF TableInv, Born
<1> HIDE DEF n
<1>9. Aging'
  <2> SUFFICES ASSUME NEW i \in 1..(n + 1), NEW j \in 1..(n + 1),
                      NEW p \in Pid, NEW q \in Pid,
                      i <= j, window'[i][p] # Absent, window'[j][q] # Absent,
                      window'[i][p].start = window'[j][q].start
               PROVE  Became(window'[i][p], window'[j][q])
    BY <1>3 DEF Aging
  <2>1. CASE j \in 1..n
    <3>1. i \in 1..n
      BY <1>2, <2>1
    <3> QED
      BY <1>3, <2>1, <3>1 DEF HistoryInv, Aging, n
  <2>2. CASE i \in 1..n /\ j = n + 1
    <3>1. Table[q] # Absent /\ T[q].start = Table[q].start /\ Became(Table[q], T[q])
      BY <1>2, <1>3, <1>7, <1>8, <2>2
    <3>2. Became(window[i][p], Table[q])
      BY <1>2, <1>3, <2>2, <3>1 DEF HistoryInv, Aging, n
    <3> QED
      BY <1>3, <2>2, <3>1, <3>2, BecameTransitive
  <2>3. CASE i = n + 1
    <3>1. j = n + 1 /\ window'[i] = T /\ window'[j] = T
      BY <1>2, <1>3, <2>3
    <3> QED
      BY <1>1, <3>1 DEF Succeeds, Became
  <2> QED
    BY <1>6, <2>1, <2>2, <2>3
<1>10. Unbroken'
  <2> SUFFICES ASSUME NEW i \in 1..(n + 1), NEW j \in 1..(n + 1), NEW k \in 1..(n + 1),
                      NEW p \in Pid, i <= j, j <= k,
                      window'[i][p] # Absent, window'[k][p] # Absent
               PROVE  window'[j][p] # Absent
    BY <1>3 DEF Unbroken
  <2>1. CASE k \in 1..n
    <3>1. i \in 1..n /\ j \in 1..n
      BY <1>2, <2>1
    <3> QED
      BY <1>3, <2>1, <3>1 DEF HistoryInv, Unbroken, n
  <2>2. CASE k = n + 1 /\ j \in 1..n
    <3>1. i \in 1..n
      BY <1>2, <2>2
    <3>2. Table[p] # Absent
      BY <1>3, <1>7, <2>2, <3>1
    <3>3. n \in 1..n /\ j <= n
      BY <1>2, <2>2
    <3> QED
      BY <1>2, <1>3, <2>2, <3>1, <3>2, <3>3 DEF HistoryInv, Unbroken, n
  <2>3. CASE k = n + 1 /\ j = n + 1
    BY <2>3
  <2> QED
    BY <1>6, <2>1, <2>2, <2>3
<1>11. Families'
  <2> SUFFICES ASSUME NEW i \in 1..n PROVE Descent(window[i], owner')
    BY <1>1, <1>3, <1>6 DEF Families, Succeeds
  <2>1. Descent(window[i], owner) /\ window[i] \in Snapshot
    BY <1>2 DEF HistoryInv, Families, n
  <2>2. \A p \in Listed(window[i]) : owner'[window[i][p].start] = owner[window[i][p].start]
    BY <1>5, <1>8, <2>1, ListedIff
  <2> QED
    BY <2>1, <2>2 DEF Descent
<1>12. ASSUME NEW x, Known(x)
       PROVE  Known(x)'
  <2>1. x.start \in 1..Len(owner')
    BY <1>2, <1>5, <1>12 DEF Known
  <2>2. ASSUME NEW i \in 1..(n + 1), NEW p \in Pid,
               window'[i][p] # Absent, window'[i][p].start = x.start
        PROVE  /\ Became(x, window'[i][p])
               /\ window[1][p] # Absent /\ window[1][p].start = x.start
    <3>1. CASE i \in 1..n
      BY <1>3, <1>12, <2>2, <3>1 DEF Known, n
    <3>2. CASE i = n + 1
      <4>1. /\ Table[p] # Absent /\ T[p].start = Table[p].start
            /\ Became(Table[p], T[p])
        BY <1>2, <1>3, <1>7, <1>12, <2>2, <3>2 DEF Known
      <4>2. n \in 1..n
        BY <1>2
      <4> QED
        BY <1>2, <1>3, <1>12, <2>2, <3>2, <4>1, <4>2, BecameTransitive DEF Known, n
    <3> QED
      BY <1>6, <3>1, <3>2
  <2>3. window'[1] = window[1]
    BY <1>2, <1>3
  <2> QED
    BY <1>3, <2>1, <2>2, <2>3 DEF Known
<1>13. window'[1] = window[1]
  BY <1>2, <1>3
<1> QED
  BY <1>5, <1>9, <1>10, <1>11, <1>12, <1>13 DEF HistoryInv

LEMMA TableUnchanged ==
    ASSUME TableInv, HistoryInv, UNCHANGED <<window, owner>>
    PROVE  /\ TableInv' /\ HistoryInv'
           /\ \A x : Known(x) => Known(x)'
BY DEF TableInv, TableTypeOK, Keyed, Born, OneHolder,
       HistoryInv, Aging, Unbroken, Families, Known

(* A main process of a profile was started for it.                         *)
LEMMA MatchedOwned ==
    ASSUME TableInv, HistoryInv, NEW i \in 1..Len(window), NEW p \in Pid,
           window[i][p] # Absent, NEW id \in Profile, MatchesMainProcess(window[i][p], id)
    PROVE  owner[window[i][p].start] = id
<1>1. window[i][p].dirs = {id}
  BY WindowType DEF Snapshot, Info, MatchesMainProcess, HasExactUserDataDir
<1> QED
  BY <1>1, WindowType, ListedIff DEF HistoryInv, Families, Descent

(* A step of cpr starts a new window: what it showed is remembered.        *)
LEMMA SettleHistory ==
    ASSUME TableInv, HistoryInv, window' = <<Table>>, owner' = owner
    PROVE  /\ HistoryInv'
           /\ \A x : Known(x) => Known(x)'
           /\ \A i \in 1..Len(window), p \in Pid :
                  \A x : (window[i][p] # Absent /\ x = window[i][p]) => Known(x)'
<1>1. Len(window') = 1 /\ window'[1] = Table /\ Len(window) \in 1..Len(window)
  BY LiveType
<1>2. Table = window[Len(window)] /\ Len(window) \in Nat \ {0}
  BY WindowType
<1>3. HistoryInv'
  <2>1. Aging'
    BY <1>1, <1>2 DEF HistoryInv, Aging
  <2>2. Unbroken'
    BY <1>1 DEF Unbroken
  <2>3. Families'
    BY <1>1, <1>2 DEF HistoryInv, Families
  <2> QED
    BY <2>1, <2>2, <2>3 DEF HistoryInv
<1>4. ASSUME NEW x, Known(x)
      PROVE  Known(x)'
  BY <1>1, <1>2, <1>4 DEF Known
<1>5. ASSUME NEW i \in 1..Len(window), NEW p \in Pid, NEW x,
             window[i][p] # Absent, x = window[i][p]
      PROVE  Known(x)'
  <2>1. x.start \in 1..Len(owner)
    BY <1>5 DEF TableInv, Born
  <2>2. \A q \in Pid : Table[q] # Absent /\ Table[q].start = x.start => Became(x, Table[q])
    BY <1>1, <1>2, <1>5 DEF HistoryInv, Aging
  <2> QED
    BY <1>1, <2>1, <2>2 DEF Known
<1> QED
  BY <1>3, <1>4, <1>5

-----------------------------------------------------------------------------
(* What a scan shows was there at some moment of it.                       *)
LEMMA ScanSeen ==
    ASSUME TableInv, NEW s \in SnapshotAll, NEW p \in Pid, s[p] # Absent
    PROVE  \E i \in 1..Len(window) : window[i][p] = s[p]
<1>1. PICK l \in DOMAIN window : s \in Scans(l)
  BY DEF SnapshotAll, Empty
<1>2. PICK at \in [Listed(window[l]) -> l..Len(window)] :
          \E seen \in SUBSET Readable(l, at) : s = ReadAt(at, seen)
  BY <1>1 DEF Scans
<1>3. PICK seen \in SUBSET Readable(l, at) : s = ReadAt(at, seen)
  BY <1>2
<1>4. p \in seen /\ s[p] = window[at[p]][p]
  BY <1>3 DEF ReadAt
<1>5. at[p] \in 1..Len(window)
  BY <1>3, <1>4, WindowType DEF Readable
<1> QED
  BY <1>4, <1>5

(* Without silent faults a scan shows every process that lasts.            *)
LEMMA ScanComplete ==
    ASSUME TableInv, ScanFaults = {}, NEW s \in SnapshotAll, NEW p \in Pid,
           \A i \in DOMAIN window : p \in Listed(window[i])
    PROVE  \E i \in 1..Len(window) : s[p] = window[i][p]
<1>1. PICK l \in DOMAIN window : s \in Scans(l)
  BY DEF SnapshotAll
<1>2. PICK at \in [Listed(window[l]) -> l..Len(window)] : s = ReadAt(at, Readable(l, at))
  BY <1>1 DEF Scans, ReadsMayFail
<1>3. p \in Listed(window[l]) /\ at[p] \in 1..Len(window)
  BY <1>2, WindowType
<1>4. p \in Readable(l, at)
  BY <1>3, WindowType DEF Readable
<1> QED
  BY <1>2, <1>3, <1>4 DEF ReadAt

(* With one main process at most, the one that is picked is the one there  *)
(* is.                                                                     *)
LEMMA SoleMain ==
    ASSUME NEW s \in Snapshot, Identifiable(s), NEW id \in Profile,
           NEW p \in Mains(s, id)
    PROVE  Mains(s, id) = {p} /\ MainOf(s, id) = s[p]
<1> DEFINE M == Mains(s, id)
<1>1. M \in SUBSET Pid
  BY DEF Mains, Listed, Snapshot
<1>2. IsFiniteSet(M) /\ Cardinality(M) \in Nat
  BY <1>1, FinitelyManyPids, FS_Subset, FS_CardinalityType
<1>3. Cardinality(M) <= 1
  BY DEF Identifiable
<1>4. p \in M
  OBVIOUS
<1> HIDE DEF M
<1>5. IsFiniteSet(M \ {p}) /\ Cardinality(M \ {p}) = Cardinality(M) - 1
  BY <1>2, <1>4, FS_RemoveElement
<1>6. Cardinality(M \ {p}) \in Nat
  BY <1>5, FS_CardinalityType
<1>7. Cardinality(M \ {p}) = 0
  BY <1>2, <1>3, <1>5, <1>6
<1>8. M \ {p} = {}
  BY <1>5, <1>7, FS_EmptySet
<1>9. M = {p}
  BY <1>4, <1>8
<1> QED
  BY <1>9 DEF M, MainOf

(* Where a scan that misses nothing shows no main process of a profile,    *)
(* none lasted through it.                                                 *)
LEMMA NoneLasting ==
    ASSUME TableInv, ScanFaults = {}, NEW snap \in SnapshotAll, NEW id \in Profile,
           Mains(snap, id) = {}
    PROVE  \A p \in Pid : \E i \in DOMAIN window : p \notin Mains(window[i], id)
<1> SUFFICES ASSUME NEW p \in Pid, \A i \in DOMAIN window : p \in Mains(window[i], id)
             PROVE  FALSE
  OBVIOUS
<1>1. snap \in Snapshot
  BY ScanLemma
<1>2. PICK i \in 1..Len(window) : snap[p] = window[i][p]
  BY ScanComplete DEF TableInv, Mains
<1>3. i \in DOMAIN window /\ window[i] \in Snapshot
  BY WindowType
<1>4. snap[p] # Absent /\ MatchesMainProcess(snap[p], id)
  BY <1>2, <1>3, ListedIff DEF Mains
<1> QED
  BY <1>1, <1>4, ListedIff DEF Mains

(* A process a scan shows as a main process was one at a moment.         *)
LEMMA MainSeen ==
    ASSUME TableInv, NEW snap \in SnapshotAll, NEW id \in Profile,
           NEW m \in Mains(snap, id)
    PROVE  \E i \in DOMAIN window : \E p \in Mains(window[i], id) : window[i][p] = snap[m]
<1>1. snap \in Snapshot /\ m \in Pid /\ snap[m] # Absent
  BY ScanLemma, ListedIff DEF TableInv, Mains
<1>2. PICK i \in 1..Len(window) : window[i][m] = snap[m]
  BY <1>1, ScanSeen
<1>3. i \in DOMAIN window /\ window[i] \in Snapshot
  BY WindowType
<1>4. m \in Mains(window[i], id)
  BY <1>1, <1>2, <1>3, ListedIff DEF Mains
<1> QED
  BY <1>2, <1>3, <1>4

LEMMA NoMains ==
    ASSUME TableInv, NEW snap \in SnapshotAll, NEW id,
           Cardinality(Mains(snap, id)) = 0
    PROVE  Mains(snap, id) = {}
<1>1. snap \in Snapshot
  BY ScanLemma
<1>2. Mains(snap, id) \subseteq Listed(snap) /\ IsFiniteSet(Listed(snap))
  BY <1>1, ListedType DEF Mains
<1>3. IsFiniteSet(Mains(snap, id))
  BY <1>2, FS_Subset
<1> QED
  BY <1>3, FS_EmptySet

(* The snapshot that is kept: the processes that run the main executable. *)
LEMMA RunningLemma ==
    ASSUME NEW s \in Snapshot
    PROVE  /\ RunningMainExe(s) \in Snapshot
           /\ \A p \in Pid : RunningMainExe(s)[p] # Absent => RunningMainExe(s)[p] = s[p]
           /\ \A p \in Pid : s[p] # Absent /\ s[p].exe = MainExe =>
                                 RunningMainExe(s)[p] = s[p]
BY DEF RunningMainExe, Snapshot, Listed

(* A main process that lasts through a scan that misses nothing is shown.  *)
LEMMA LastShown ==
    ASSUME TableInv, ScanFaults = {}, NEW snap \in SnapshotAll, NEW id \in Profile,
           NEW p \in Pid, \A i \in DOMAIN window : p \in Mains(window[i], id)
    PROVE  p \in Mains(snap, id) /\ snap[p].start = Table[p].start
<1>1. snap \in Snapshot
  BY ScanLemma
<1>2. PICK i \in 1..Len(window) : snap[p] = window[i][p]
  BY ScanComplete DEF Mains
<1>3. /\ i \in DOMAIN window /\ window[i] \in Snapshot
      /\ Len(window) \in 1..Len(window) /\ Table = window[Len(window)]
      /\ Table \in Snapshot /\ Len(window) \in DOMAIN window
  BY WindowType
<1>4. snap[p] # Absent /\ Table[p] # Absent /\ p \in Mains(snap, id)
  BY <1>1, <1>2, <1>3, ListedIff DEF Mains
<1> QED
  BY <1>2, <1>3, <1>4 DEF TableInv, OneHolder

=============================================================================
