------------------------- MODULE RuntimePathsProofs -------------------------
(***************************************************************************)
(* What holds of a profile's paths on every disk, whatever its links and   *)
(* whatever the user does between the commands (paths.go).  Three parts:   *)
(* how a path is resolved, what a launch makes of the disk, and what       *)
(* follows for the instances that were launched.                           *)
(***************************************************************************)
EXTENDS RuntimePaths, WellFoundedInduction, TLAPS

Disks == {fs \in UNION {[D -> Node] : D \in SUBSET Path} : Kind(fs, <<>>) = "dir"}

LEMMA DiskLemma ==
    ASSUME NEW fs \in Disks
    PROVE  /\ DOMAIN fs \subseteq Path /\ fs \in [DOMAIN fs -> Node]
           /\ <<>> \in DOMAIN fs /\ fs[<<>>].kind = "dir"
BY DEF Disks, Kind

LEMMA KindLemma ==
    ASSUME NEW fs \in Disks, NEW p
    PROVE  /\ Kind(fs, p) \in {"dir", "file", "link", "none"}
           /\ Kind(fs, p) # "none" <=> p \in DOMAIN fs
           /\ p \in DOMAIN fs => /\ p \in Path /\ fs[p] \in Node
                                 /\ Kind(fs, p) = fs[p].kind
BY DiskLemma DEF Kind, Node

-----------------------------------------------------------------------------
(* Induction, with a set for the operator of the library's theorem.        *)
LEMMA SetInduction ==
    ASSUME NEW S, 0 \in S, \A n \in Nat : n \in S => n + 1 \in S
    PROVE  Nat \subseteq S
<1> DEFINE Bad == Nat \ S
<1> SUFFICES ASSUME Bad # {} PROVE FALSE
  OBVIOUS
<1>1. \A m, n \in Nat : m < n => <<m, n>> \in OpToRel(<, Nat)
  BY DEF OpToRel
<1>2. \E R : /\ IsWellFoundedOn(R, Nat)
             /\ \A m, n \in Nat : m < n => <<m, n>> \in R
  BY <1>1, NatLessThanWellFounded, Zenon
<1>3. PICK R : /\ IsWellFoundedOn(R, Nat)
               /\ \A m, n \in Nat : m < n => <<m, n>> \in R
  BY <1>2
<1>4. Bad \subseteq Nat /\ IsWellFoundedOn(R, Nat)
  BY <1>3
<1>5. PICK n \in Bad : \A m \in Bad : ~ (<<m, n>> \in R)
  <2> HIDE DEF Bad
  <2> QED
    BY <1>4, WFMin
<1>6. n \in Nat /\ n # 0 /\ n - 1 \in Nat /\ n - 1 < n /\ (n - 1) + 1 = n
  BY <1>5
<1>7. n - 1 \notin S
  BY <1>5, <1>6
<1> QED
  BY <1>3, <1>5, <1>6, <1>7

(* There is a function with given first value and given next values.       *)
Solves(f, N, A, a, G) ==
    /\ f \in [0..N -> A] /\ f[0] = a
    /\ \A k \in 1..N : f[k] = G[<<k, f[k - 1]>>]

LEMMA Recursion ==
    ASSUME NEW N \in Nat, NEW A, NEW a \in A, NEW G \in [(1..N) \X A -> A]
    PROVE  \E f : Solves(f, N, A, a, G)
<1> DEFINE S == {n \in Nat : n <= N => \E f : Solves(f, n, A, a, G)}
<1>1. 0 \in S
  <2>1. Solves([k \in 0..0 |-> a], 0, A, a, G)
    BY DEF Solves
  <2> QED
    BY <2>1
<1>2. ASSUME NEW n \in Nat, n + 1 <= N, NEW f, Solves(f, n, A, a, G)
      PROVE  \E g : Solves(g, n + 1, A, a, G)
  <2> DEFINE value == G[<<n + 1, f[n]>>]
             g == [k \in 0..(n + 1) |-> IF k = n + 1 THEN value ELSE f[k]]
  <2>1. value \in A
    <3>1. n + 1 \in 1..N /\ f[n] \in A
      BY <1>2 DEF Solves
    <3> QED
      BY <3>1
  <2>2. g \in [0..(n + 1) -> A] /\ g[0] = a
    BY <1>2, <2>1 DEF Solves
  <2>3. ASSUME NEW k \in 1..(n + 1) PROVE g[k] = G[<<k, g[k - 1]>>]
    <3>1. k - 1 \in 0..n /\ g[k - 1] = f[k - 1]
      OBVIOUS
    <3>2. CASE k = n + 1
      <4>1. k - 1 = n /\ g[k] = value
        BY <3>2
      <4> HIDE DEF g
      <4> QED
        BY <3>1, <3>2, <4>1
    <3>3. CASE k # n + 1
      <4>1. k \in 1..n /\ g[k] = f[k]
        BY <3>3
      <4> QED
        BY <1>2, <3>1, <4>1 DEF Solves
    <3> QED
      BY <3>2, <3>3
  <2>4. Solves(g, n + 1, A, a, G)
    BY <2>2, <2>3 DEF Solves
  <2> QED
    BY <2>4
<1>3. N \in S
  <2>1. \A n \in Nat : n \in S => n + 1 \in S
    BY <1>2
  <2> HIDE DEF S
  <2> QED
    BY <1>1, <2>1, SetInduction
<1> QED
  BY <1>3

-----------------------------------------------------------------------------
(* Paths and their beginnings. *)

LEMMA PrefixLemma ==
    ASSUME NEW path \in Path, NEW k \in 0..Len(path)
    PROVE  /\ Len(path) \in Nat
           /\ SubSeq(path, 1, k) \in Path /\ Len(SubSeq(path, 1, k)) = k
           /\ \A i \in 0..k : SubSeq(SubSeq(path, 1, k), 1, i) = SubSeq(path, 1, i)
           /\ SubSeq(path, 1, Len(path)) = path
           /\ SubSeq(path, 1, 0) = <<>>
           /\ SubSeq(path, k + 1, Len(path)) \in Path
BY DEF Path

LEMMA SamePath ==
    ASSUME NEW v \in Path, NEW w \in Path, Len(v) = Len(w), \A i \in 1..Len(v) : v[i] = w[i]
    PROVE  v = w
BY DEF Path

LEMMA AppendLemma ==
    ASSUME NEW path \in Path, NEW name \in Name
    PROVE  /\ Append(path, name) \in Path /\ Append(path, name) # <<>>
           /\ Len(Append(path, name)) = Len(path) + 1
           /\ \A i \in 0..Len(path) : SubSeq(Append(path, name), 1, i) = SubSeq(path, 1, i)
           /\ SubSeq(Append(path, name), 1, Len(path) + 1) = Append(path, name)
           /\ Front(Append(path, name)) = path /\ Last(Append(path, name)) = name
<1>1. /\ Append(path, name) \in Path /\ Append(path, name) # <<>>
      /\ Len(Append(path, name)) = Len(path) + 1 /\ Len(path) \in Nat
      /\ Last(Append(path, name)) = name
  BY DEF Path, Last
<1>2. \A i \in 0..Len(path) : SubSeq(Append(path, name), 1, i) = SubSeq(path, 1, i)
  BY DEF Path
<1>3. SubSeq(Append(path, name), 1, Len(path) + 1) = Append(path, name)
  BY <1>1, PrefixLemma
<1>4. Front(Append(path, name)) = path
  BY <1>1, <1>2, PrefixLemma DEF Front
<1> QED
  BY <1>1, <1>2, <1>3, <1>4

LEMMA FrontLemma ==
    ASSUME NEW path \in Path, path # <<>>
    PROVE  /\ Front(path) \in Path /\ Last(path) \in Name
           /\ path = Append(Front(path), Last(path))
           /\ Len(path) \in Nat \ {0} /\ Front(path) = SubSeq(path, 1, Len(path) - 1)
BY DEF Path, Front, Last

-----------------------------------------------------------------------------
(* Where a path leaves the directories. *)

LEMMA StopsOnce ==
    ASSUME NEW fs, NEW path \in Path, NEW a \in {"file", "link", "none"},
           NEW b \in {"file", "link", "none"},
           NEW j \in Stops(fs, path, a), NEW k \in Stops(fs, path, b)
    PROVE  j = k /\ a = b
<1>1. j \in 1..Len(path) /\ k \in 1..Len(path) /\ Len(path) \in Nat
  BY PrefixLemma DEF Stops
<1>2. ~(j < k) /\ ~(k < j)
  BY <1>1 DEF Stops, StopsAt
<1>3. j = k
  BY <1>1, <1>2
<1> QED
  BY <1>3 DEF Stops, StopsAt

(* A path that nothing stops leads over directories only.                  *)
LEMMA NothingStops ==
    ASSUME NEW fs \in Disks, NEW path \in Path, NEW m \in 0..Len(path),
           \A k \in 1..m, kind \in {"file", "link", "none"} : k \notin Stops(fs, path, kind)
    PROVE  \A i \in 0..m : Kind(fs, SubSeq(path, 1, i)) = "dir"
<1> DEFINE S == {n \in Nat : n <= m => \A i \in 0..n : Kind(fs, SubSeq(path, 1, i)) = "dir"}
<1>0. m \in Nat /\ m <= Len(path) /\ Len(path) \in Nat
  BY PrefixLemma
<1>1. 0 \in S
  <2>1. SubSeq(path, 1, 0) = <<>> /\ Kind(fs, <<>>) = "dir"
    BY PrefixLemma DEF Disks
  <2>2. \A i \in 0..0 : i = 0
    OBVIOUS
  <2> QED
    BY <2>1, <2>2
<1>2. ASSUME NEW n \in Nat, n \in S, n + 1 <= m
      PROVE  Kind(fs, SubSeq(path, 1, n + 1)) = "dir"
  <2>1. \A i \in 0..((n + 1) - 1) : Kind(fs, SubSeq(path, 1, i)) = "dir"
    BY <1>2
  <2>2. n + 1 \in 1..m /\ n + 1 \in 1..Len(path)
    BY <1>0, <1>2
  <2>3. Kind(fs, SubSeq(path, 1, n + 1)) \notin {"file", "link", "none"}
    BY <2>1, <2>2 DEF Stops, StopsAt
  <2> QED
    BY <2>3, KindLemma
<1>3. ASSUME NEW n \in Nat, n \in S PROVE n + 1 \in S
  <2> SUFFICES ASSUME n + 1 <= m, NEW i \in 0..(n + 1)
               PROVE  Kind(fs, SubSeq(path, 1, i)) = "dir"
    OBVIOUS
  <2>1. i \in 0..n \/ i = n + 1
    OBVIOUS
  <2> QED
    BY <1>2, <1>3, <2>1
<1>4. m \in S
  <2> HIDE DEF S
  <2> QED
    BY <1>0, <1>1, <1>3, SetInduction
<1> QED
  BY <1>4

(* A path that stands for itself: no link on it, and something there.      *)
Real(fs, path) ==
    /\ path \in Path /\ Kind(fs, path) \in {"dir", "file"}
    /\ \A i \in 0..(Len(path) - 1) : Kind(fs, SubSeq(path, 1, i)) = "dir"

RealDir(fs, path) == Real(fs, path) /\ Kind(fs, path) = "dir"

LEMMA RealDirLemma ==
    ASSUME NEW fs \in Disks, NEW path \in Path
    PROVE  RealDir(fs, path) <=>
               \A i \in 0..Len(path) : Kind(fs, SubSeq(path, 1, i)) = "dir"
<1>1. Len(path) \in Nat /\ SubSeq(path, 1, Len(path)) = path
  <2>1. Len(path) \in Nat
    BY DEF Path
  <2> QED
    BY <2>1, PrefixLemma
<1>2. \A n \in Nat : 0..n = 0..(n - 1) \cup {n}
  OBVIOUS
<1>3. 0..Len(path) = 0..(Len(path) - 1) \cup {Len(path)}
  BY <1>1, <1>2
<1> QED
  BY <1>1, <1>3 DEF RealDir, Real

LEMMA RealStops ==
    ASSUME NEW fs, NEW path, Real(fs, path)
    PROVE  /\ Stops(fs, path, "none") = {} /\ Stops(fs, path, "link") = {}
           /\ Stops(fs, path, "file") \subseteq {Len(path)}
<1>1. path \in Path /\ Len(path) \in Nat
  BY DEF Real, Path
<1>2. SubSeq(path, 1, Len(path)) = path
  <2>1. Len(path) \in 0..Len(path)
    BY <1>1
  <2> QED
    BY <1>1, <2>1, PrefixLemma
<1>3. ASSUME NEW kind \in {"none", "link", "file"}, NEW k \in Stops(fs, path, kind)
      PROVE  k = Len(path) /\ kind = "file"
  <2>1. k \in 1..Len(path) /\ Kind(fs, SubSeq(path, 1, k)) = kind
    BY <1>3 DEF Stops, StopsAt
  <2>2. k \in 0..(Len(path) - 1) \/ k = Len(path)
    BY <1>1, <2>1
  <2> QED
    BY <1>2, <2>1, <2>2 DEF Real
<1> QED
  BY <1>3

LEMMA StopsReal ==
    ASSUME NEW fs \in Disks, NEW path \in Path,
           Stops(fs, path, "none") = {}, Stops(fs, path, "link") = {},
           Stops(fs, path, "file") \subseteq {Len(path)}
    PROVE  Real(fs, path)
<1>1. Len(path) \in Nat
  BY DEF Path
<1>2. SubSeq(path, 1, Len(path)) = path
  BY <1>1, PrefixLemma
<1>3. CASE Stops(fs, path, "file") = {}
  <2>1. \A k \in 1..Len(path), kind \in {"file", "link", "none"} : k \notin Stops(fs, path, kind)
    BY <1>3
  <2>2. \A i \in 0..Len(path) : Kind(fs, SubSeq(path, 1, i)) = "dir"
    BY <1>1, <2>1, NothingStops
  <2> QED
    BY <2>2, RealDirLemma DEF RealDir
<1>4. CASE Len(path) \in Stops(fs, path, "file")
  BY <1>2, <1>4 DEF Stops, StopsAt, Real
<1> QED
  BY <1>3, <1>4

-----------------------------------------------------------------------------
(* The links on a path are followed one after the other. *)

LEMMA FollowLink ==
    ASSUME NEW fs, NEW path \in Path, NEW k \in Stops(fs, path, "link")
    PROVE  Follow(fs, path) =
               fs[SubSeq(path, 1, k)].to \o SubSeq(path, k + 1, Len(path))
<1>1. \A j \in Stops(fs, path, "link") : j = k
  BY StopsOnce
<1>2. (CHOOSE j \in Stops(fs, path, "link") : TRUE) = k
  BY <1>1
<1> QED
  BY <1>2 DEF Follow

LEMMA FollowTyped ==
    ASSUME NEW fs \in Disks, NEW path \in Path
    PROVE  Follow(fs, path) \in Path
<1>1. CASE Stops(fs, path, "link") = {}
  BY <1>1 DEF Follow
<1>2. ASSUME NEW k \in Stops(fs, path, "link")
      PROVE  Follow(fs, path) \in Path
  <2>1. k \in 1..Len(path) /\ Len(path) \in Nat /\ Kind(fs, SubSeq(path, 1, k)) = "link"
    BY DEF Stops, StopsAt, Path
  <2>2. fs[SubSeq(path, 1, k)].to \in Path
    BY <2>1, KindLemma DEF Node
  <2>3. k \in 0..Len(path)
    BY <2>1
  <2>4. SubSeq(path, k + 1, Len(path)) \in Path
    BY <2>3, PrefixLemma
  <2>5. \A s, t \in Path : s \o t \in Path
    BY DEF Path
  <2>6. fs[SubSeq(path, 1, k)].to \o SubSeq(path, k + 1, Len(path)) \in Path
    BY <2>2, <2>4, <2>5
  <2> QED
    BY <1>2, <2>6, FollowLink
<1> QED
  BY <1>1, <1>2

(* The paths that a resolution comes to, link by link.                     *)
Trail(fs, path, t) ==
    /\ t \in [0..MaxLinks -> Path] /\ t[0] = path
    /\ \A n \in 1..MaxLinks : t[n] = Follow(fs, t[n - 1])

LEMMA TargetLemma ==
    ASSUME NEW fs \in Disks, NEW path \in Path
    PROVE  \E t : Trail(fs, path, t) /\ Target(fs, path) = t[MaxLinks]
<1> DEFINE Step(t, n) == IF n = 0 THEN path ELSE Follow(fs, t[n - 1])
           IsAfter(t) == t = [n \in 0..MaxLinks |-> Step(t, n)]
           G == [q \in (1..MaxLinks) \X Path |-> Follow(fs, q[2])]
<1>0. /\ MaxLinks \in Nat /\ 0 \in 0..MaxLinks
      /\ \A n \in 1..MaxLinks : n \in 0..MaxLinks /\ n - 1 \in 0..MaxLinks /\ n # 0
  BY LinksAssumption
<1>1. G \in [(1..MaxLinks) \X Path -> Path]
  BY FollowTyped
<1>2. \A n \in 0..MaxLinks : n = 0 \/ n \in 1..MaxLinks
  BY <1>0
<1>3. \A n \in 1..MaxLinks, q \in Path : G[<<n, q>>] = Follow(fs, q)
  OBVIOUS
<1> HIDE DEF G
<1>4. \E t : IsAfter(t)
  <2>1. PICK t : Solves(t, MaxLinks, Path, path, G)
    BY <1>0, <1>1, Recursion
  <2>2. t \in [0..MaxLinks -> Path] /\ t[0] = path
    BY <2>1 DEF Solves
  <2>3. \A n \in 1..MaxLinks : t[n] = Follow(fs, t[n - 1])
    BY <1>0, <1>3, <2>1, <2>2 DEF Solves
  <2>4. \A n \in 0..MaxLinks : t[n] = Step(t, n)
    BY <1>0, <1>2, <2>2, <2>3
  <2> HIDE DEF Step
  <2> QED
    BY <2>2, <2>4
<1>5. ASSUME NEW t, IsAfter(t) PROVE Trail(fs, path, t)
  <2>1. t = [n \in 0..MaxLinks |-> t[n]] /\ \A n \in 0..MaxLinks : t[n] = Step(t, n)
    <3> HIDE DEF Step
    <3> QED
      BY <1>5
  <2>2. t[0] = path /\ \A n \in 1..MaxLinks : t[n] = Follow(fs, t[n - 1])
    BY <1>0, <2>1
  <2> DEFINE S == {n \in Nat : n <= MaxLinks => t[n] \in Path}
  <2>3. 0 \in S
    BY <2>2
  <2>4. ASSUME NEW n \in Nat, n \in S PROVE n + 1 \in S
    <3> SUFFICES ASSUME n + 1 <= MaxLinks PROVE t[n + 1] \in Path
      OBVIOUS
    <3>1. n + 1 \in 1..MaxLinks /\ (n + 1) - 1 = n /\ t[n] \in Path
      BY <1>0, <2>4
    <3> QED
      BY <2>2, <3>1, FollowTyped
  <2>5. Nat \subseteq S
    <3> HIDE DEF S
    <3> QED
      BY <2>3, <2>4, SetInduction
  <2>6. \A n \in 0..MaxLinks : t[n] \in Path
    BY <1>0, <2>5
  <2>7. t \in [0..MaxLinks -> Path]
    BY <2>1, <2>6
  <2> QED
    BY <2>2, <2>7 DEF Trail
<1>6. Target(fs, path) = (CHOOSE t : IsAfter(t))[MaxLinks]
  BY DEF Target
<1> HIDE DEF IsAfter
<1>7. PICK t : t = (CHOOSE u : IsAfter(u)) /\ IsAfter(t)
  BY <1>4
<1> QED
  BY <1>5, <1>6, <1>7

LEMMA TargetTyped ==
    ASSUME NEW fs \in Disks, NEW path \in Path
    PROVE  Target(fs, path) \in Path
<1>1. MaxLinks \in 0..MaxLinks
  BY LinksAssumption
<1> QED
  BY <1>1, TargetLemma DEF Trail

(* A resolution that comes to a path without links has come to its end.    *)
LEMMA TrailStays ==
    ASSUME NEW fs, NEW path, NEW t, Trail(fs, path, t),
           NEW n \in 0..MaxLinks, Stops(fs, t[n], "link") = {}
    PROVE  t[MaxLinks] = t[n]
<1> DEFINE S == {m \in Nat : n + m <= MaxLinks => t[n + m] = t[n]}
<1>0. MaxLinks \in Nat /\ n \in Nat /\ n <= MaxLinks
  BY LinksAssumption
<1>1. 0 \in S
  BY <1>0
<1>2. ASSUME NEW m \in Nat, m \in S PROVE m + 1 \in S
  <2> SUFFICES ASSUME n + (m + 1) <= MaxLinks PROVE t[n + (m + 1)] = t[n]
    OBVIOUS
  <2>1. n + (m + 1) \in 1..MaxLinks /\ (n + (m + 1)) - 1 = n + m /\ n + m <= MaxLinks
    BY <1>0
  <2>2. t[n + (m + 1)] = Follow(fs, t[n + m]) /\ t[n + m] = t[n]
    BY <1>2, <2>1 DEF Trail
  <2> QED
    BY <2>2 DEF Follow
<1>3. Nat \subseteq S
  <2> HIDE DEF S
  <2> QED
    BY <1>1, <1>2, SetInduction
<1>4. MaxLinks - n \in Nat /\ n + (MaxLinks - n) = MaxLinks
  BY <1>0
<1>5. MaxLinks - n \in S
  BY <1>3, <1>4
<1> QED
  BY <1>0, <1>4, <1>5

LEMMA EvalReal ==
    ASSUME NEW fs \in Disks, NEW path \in Path, ~Failed(EvalSymlinks(fs, path))
    PROVE  /\ EvalSymlinks(fs, path) = Target(fs, path)
           /\ Real(fs, EvalSymlinks(fs, path))
<1> DEFINE target == Target(fs, path)
<1>1. /\ Stops(fs, target, "none") = {} /\ Stops(fs, target, "link") = {}
      /\ Stops(fs, target, "file") \subseteq {Len(target)}
      /\ EvalSymlinks(fs, path) = target
  BY DEF EvalSymlinks, Resolved, Failed
<1> QED
  BY <1>1, StopsReal, TargetTyped

LEMMA RealEval ==
    ASSUME NEW fs \in Disks, NEW path \in Path, Real(fs, Target(fs, path))
    PROVE  EvalSymlinks(fs, path) = Target(fs, path)
<1> DEFINE target == Target(fs, path)
<1>1. /\ Stops(fs, target, "none") = {} /\ Stops(fs, target, "link") = {}
      /\ Stops(fs, target, "file") \subseteq {Len(target)}
  BY RealStops
<1> QED
  BY <1>1 DEF EvalSymlinks, Resolved

(* A path that stands for itself is resolved to itself.                    *)
LEMMA RealStays ==
    ASSUME NEW fs \in Disks, NEW path \in Path, Real(fs, path)
    PROVE  EvalSymlinks(fs, path) = path /\ ~Failed(path)
<1>1. PICK t : Trail(fs, path, t) /\ Target(fs, path) = t[MaxLinks]
  BY TargetLemma
<1>2. 0 \in 0..MaxLinks /\ t[0] = path
  BY <1>1, LinksAssumption DEF Trail
<1>3. Target(fs, path) = path
  BY <1>1, <1>2, RealStops, TrailStays
<1> QED
  BY <1>3, RealEval, FailuresAssumption DEF Failed

-----------------------------------------------------------------------------
(* On a disk with more on it, what could be resolved still is.             *)
Extends(fs, gs) ==
    \A p \in DOMAIN fs :
        /\ Kind(gs, p) = Kind(fs, p)
        /\ Kind(fs, p) = "link" => gs[p].to = fs[p].to

LEMMA RealExtends ==
    ASSUME NEW fs \in Disks, NEW gs \in Disks, Extends(fs, gs),
           NEW path, Real(fs, path)
    PROVE  Real(gs, path) /\ Kind(gs, path) = Kind(fs, path)
<1>1. \A p : Kind(fs, p) \in {"dir", "file"} => Kind(gs, p) = Kind(fs, p)
  BY KindLemma DEF Extends
<1> QED
  BY <1>1 DEF Real

LEMMA EvalExtends ==
    ASSUME NEW fs \in Disks, NEW gs \in Disks, Extends(fs, gs),
           NEW path \in Path, ~Failed(EvalSymlinks(fs, path))
    PROVE  EvalSymlinks(gs, path) = EvalSymlinks(fs, path)
<1> DEFINE end == EvalSymlinks(fs, path)
<1>1. PICK t : Trail(fs, path, t) /\ Target(fs, path) = t[MaxLinks]
  BY TargetLemma
<1>2. PICK u : Trail(gs, path, u) /\ Target(gs, path) = u[MaxLinks]
  BY TargetLemma
<1>3. end = t[MaxLinks] /\ Real(fs, end)
  BY <1>1, EvalReal
<1>4. Real(gs, end)
  BY <1>3, RealExtends
<1>5. MaxLinks \in Nat
  BY LinksAssumption
<1> HIDE DEF end
<1> DEFINE S == {n \in Nat : n <= MaxLinks => u[n] = t[n]}
<1>6. 0 \in S
  BY <1>1, <1>2 DEF Trail
<1>7. ASSUME NEW n \in Nat, n \in S PROVE n + 1 \in S
  <2> SUFFICES ASSUME n + 1 <= MaxLinks PROVE u[n + 1] = t[n + 1]
    OBVIOUS
  <2>1. /\ n + 1 \in 1..MaxLinks /\ (n + 1) - 1 = n /\ n \in 0..MaxLinks
        /\ u[n] = t[n]
    BY <1>5, <1>7
  <2>2. t[n + 1] = Follow(fs, t[n]) /\ u[n + 1] = Follow(gs, t[n]) /\ t[n] \in Path
    BY <1>1, <1>2, <2>1 DEF Trail
  <2>3. CASE Stops(fs, t[n], "link") = {}
    <3>1. t[n] = end
      BY <1>1, <1>3, <2>1, <2>3, TrailStays
    <3>2. Stops(gs, t[n], "link") = {}
      BY <1>4, <3>1, RealStops
    <3> QED
      BY <2>2, <2>3, <3>2 DEF Follow
  <2>4. ASSUME NEW k \in Stops(fs, t[n], "link") PROVE u[n + 1] = t[n + 1]
    <3> DEFINE link == SubSeq(t[n], 1, k)
    <3>1. /\ \A p : Kind(fs, p) \in {"dir", "link"} => Kind(gs, p) = Kind(fs, p)
          /\ Kind(fs, link) = "link" => gs[link].to = fs[link].to
      BY KindLemma DEF Extends
    <3>2. k \in Stops(gs, t[n], "link") /\ Kind(fs, link) = "link"
      BY <3>1 DEF Stops, StopsAt
    <3>3. gs[link].to = fs[link].to
      BY <3>1, <3>2
    <3> HIDE DEF link
    <3>4. Follow(fs, t[n]) = fs[link].to \o SubSeq(t[n], k + 1, Len(t[n]))
      BY <2>2, <2>4, FollowLink DEF link
    <3>5. Follow(gs, t[n]) = gs[link].to \o SubSeq(t[n], k + 1, Len(t[n]))
      BY <2>2, <3>2, FollowLink DEF link
    <3> QED
      BY <2>2, <3>3, <3>4, <3>5
  <2> QED
    BY <2>3, <2>4
<1>8. MaxLinks \in S
  <2> HIDE DEF S
  <2> QED
    BY <1>5, <1>6, <1>7, SetInduction
<1>9. Target(gs, path) = end
  BY <1>1, <1>2, <1>3, <1>5, <1>8
<1> QED
  BY <1>4, <1>9, RealEval DEF end

-----------------------------------------------------------------------------
(* A name below a path. *)

LEMMA StopsAppend ==
    ASSUME NEW fs, NEW path \in Path, NEW name \in Name, NEW kind
    PROVE  /\ \A k \in Stops(fs, path, kind) : k \in Stops(fs, Append(path, name), kind)
           /\ RealDir(fs, path) /\ Kind(fs, Append(path, name)) = kind =>
                  Len(path) + 1 \in Stops(fs, Append(path, name), kind)
<1> DEFINE more == Append(path, name)
<1>1. /\ Len(path) \in Nat /\ Len(more) = Len(path) + 1
      /\ \A i \in 0..Len(path) : SubSeq(more, 1, i) = SubSeq(path, 1, i)
      /\ SubSeq(more, 1, Len(path) + 1) = more
  BY AppendLemma DEF Path
<1> HIDE DEF more
<1>2. ASSUME NEW k \in Stops(fs, path, kind) PROVE k \in Stops(fs, more, kind)
  <2>1. k \in 1..Len(path)
    BY DEF Stops
  <2>2. k \in 0..Len(path) /\ k \in 1..Len(more)
        /\ \A i \in 0..(k - 1) : i \in 0..Len(path)
    BY <1>1, <2>1
  <2> QED
    BY <1>1, <1>2, <2>2 DEF Stops, StopsAt
<1>3. ASSUME RealDir(fs, path), Kind(fs, more) = kind
      PROVE  Len(path) + 1 \in Stops(fs, more, kind)
  <2>1. Len(path) + 1 \in 1..Len(more) /\ (Len(path) + 1) - 1 = Len(path)
    BY <1>1
  <2>2. \A n \in Nat : 0..n = 0..(n - 1) \cup {n}
    OBVIOUS
  <2>3. 0..Len(path) = 0..(Len(path) - 1) \cup {Len(path)}
    BY <1>1, <2>2
  <2>4. SubSeq(path, 1, Len(path)) = path
    BY PrefixLemma, <1>1
  <2>5. \A i \in 0..Len(path) : Kind(fs, SubSeq(more, 1, i)) = "dir"
    BY <1>1, <1>3, <2>3, <2>4 DEF RealDir, Real
  <2> QED
    BY <1>1, <1>3, <2>1, <2>5 DEF Stops, StopsAt
<1> QED
  BY <1>2, <1>3 DEF more

LEMMA FollowAppend ==
    ASSUME NEW fs \in Disks, NEW path \in Path, NEW name \in Name,
           NEW k \in Stops(fs, path, "link")
    PROVE  Follow(fs, Append(path, name)) = Append(Follow(fs, path), name)
<1> DEFINE more == Append(path, name)
           to == fs[SubSeq(path, 1, k)].to
<1>1. k \in 1..Len(path) /\ k \in 0..Len(path) /\ Len(path) \in Nat
  BY DEF Stops, Path
<1>2. to \in Path
  <2>1. Kind(fs, SubSeq(path, 1, k)) = "link"
    BY DEF Stops, StopsAt
  <2> QED
    BY <2>1, KindLemma DEF Node
<1>3. Follow(fs, path) = to \o SubSeq(path, k + 1, Len(path))
  BY FollowLink
<1>4. Follow(fs, more) = to \o SubSeq(more, k + 1, Len(more))
  <2>1. k \in Stops(fs, more, "link") /\ more \in Path
    BY StopsAppend, AppendLemma
  <2>2. SubSeq(more, 1, k) = SubSeq(path, 1, k)
    BY <1>1, AppendLemma
  <2> HIDE DEF more
  <2>3. Follow(fs, more) = fs[SubSeq(more, 1, k)].to \o SubSeq(more, k + 1, Len(more))
    BY <2>1, FollowLink
  <2> QED
    BY <2>2, <2>3
<1>5. SubSeq(more, k + 1, Len(more)) = Append(SubSeq(path, k + 1, Len(path)), name)
  <2> DEFINE left == SubSeq(more, k + 1, Len(more))
             right == Append(SubSeq(path, k + 1, Len(path)), name)
             N == (Len(path) - k) + 1
  <2>1. /\ more \in Path /\ Len(more) = Len(path) + 1 /\ more[Len(path) + 1] = name
        /\ \A i \in 1..Len(path) : more[i] = path[i]
    BY <1>1 DEF Path
  <2>2. /\ left \in Path /\ Len(left) = N
        /\ \A i \in 1..N : left[i] = more[k + i]
    <3> HIDE DEF more
    <3> QED
      BY <1>1, <2>1 DEF Path
  <2>3. /\ right \in Path /\ Len(right) = N
        /\ \A i \in 1..N : right[i] = (IF i = N THEN name ELSE path[k + i])
    BY <1>1 DEF Path
  <2>4. \A i \in 1..N : left[i] = right[i]
    <3> SUFFICES ASSUME NEW i \in 1..N PROVE left[i] = right[i]
      OBVIOUS
    <3>1. i = N \/ (i # N /\ k + i \in 1..Len(path))
      BY <1>1
    <3>2. k + N = Len(path) + 1
      BY <1>1
    <3> HIDE DEF left, right, more, N
    <3> QED
      BY <2>1, <2>2, <2>3, <3>1, <3>2
  <2>5. \A v, w \in Path : Len(v) = Len(w) /\ (\A i \in 1..Len(v) : v[i] = w[i]) => v = w
    BY DEF Path
  <2> HIDE DEF left, right, N
  <2>6. left = right
    BY <2>2, <2>3, <2>4, <2>5
  <2> QED
    BY <2>6 DEF left, right
<1>6. SubSeq(path, k + 1, Len(path)) \in Path
  BY <1>1, PrefixLemma
<1>7. \A s, t \in Path : s \o Append(t, name) = Append(s \o t, name)
  BY DEF Path
<1> HIDE DEF to, more
<1> QED
  BY <1>2, <1>3, <1>4, <1>5, <1>6, <1>7 DEF more

LEMMA TargetAppend ==
    ASSUME NEW fs \in Disks, NEW path \in Path, NEW name \in Name,
           Stops(fs, Append(Target(fs, path), name), "link") = {}
    PROVE  Target(fs, Append(path, name)) = Append(Target(fs, path), name)
<1>1. PICK t : Trail(fs, path, t) /\ Target(fs, path) = t[MaxLinks]
  BY TargetLemma
<1>2. PICK u : /\ Trail(fs, Append(path, name), u)
               /\ Target(fs, Append(path, name)) = u[MaxLinks]
  BY TargetLemma, AppendLemma
<1>3. MaxLinks \in Nat
  BY LinksAssumption
<1> DEFINE S == {n \in Nat : n <= MaxLinks => u[n] = Append(t[n], name)}
<1>4. 0 \in S
  BY <1>1, <1>2 DEF Trail
<1>5. ASSUME NEW n \in Nat, n \in S PROVE n + 1 \in S
  <2> SUFFICES ASSUME n + 1 <= MaxLinks PROVE u[n + 1] = Append(t[n + 1], name)
    OBVIOUS
  <2>1. /\ n + 1 \in 1..MaxLinks /\ (n + 1) - 1 = n /\ n \in 0..MaxLinks
        /\ u[n] = Append(t[n], name)
    BY <1>3, <1>5
  <2>2. /\ t[n + 1] = Follow(fs, t[n]) /\ t[n] \in Path
        /\ u[n + 1] = Follow(fs, Append(t[n], name))
    BY <1>1, <1>2, <2>1 DEF Trail
  <2>3. CASE Stops(fs, t[n], "link") = {}
    <3>1. t[n] = t[MaxLinks]
      BY <1>1, <2>1, <2>3, TrailStays
    <3>2. Stops(fs, Append(t[n], name), "link") = {}
      BY <1>1, <3>1
    <3> QED
      BY <2>2, <2>3, <3>2 DEF Follow
  <2>4. ASSUME NEW k \in Stops(fs, t[n], "link") PROVE u[n + 1] = Append(t[n + 1], name)
    BY <2>2, FollowAppend
  <2> QED
    BY <2>3, <2>4
<1>6. MaxLinks \in S
  <2> HIDE DEF S
  <2> QED
    BY <1>3, <1>4, <1>5, SetInduction
<1> QED
  BY <1>1, <1>2, <1>3, <1>6

LEMMA RealBelow ==
    ASSUME NEW fs, NEW path \in Path, NEW name \in Name, RealDir(fs, path),
           Kind(fs, Append(path, name)) \in {"dir", "file"}
    PROVE  Real(fs, Append(path, name))
<1> DEFINE more == Append(path, name)
<1>1. /\ Len(path) \in Nat /\ Len(more) - 1 = Len(path) /\ more \in Path
      /\ \A i \in 0..Len(path) : SubSeq(more, 1, i) = SubSeq(path, 1, i)
  BY AppendLemma DEF Path
<1>2. \A n \in Nat : 0..n = 0..(n - 1) \cup {n}
  OBVIOUS
<1>3. 0..Len(path) = 0..(Len(path) - 1) \cup {Len(path)}
  BY <1>1, <1>2
<1>4. SubSeq(path, 1, Len(path)) = path
  BY PrefixLemma, <1>1
<1> HIDE DEF more
<1>5. \A i \in 0..(Len(more) - 1) : Kind(fs, SubSeq(more, 1, i)) = "dir"
  BY <1>1, <1>3, <1>4 DEF RealDir, Real
<1> QED
  BY <1>1, <1>5 DEF Real, more

(* What is in a directory is found below every path to the directory.      *)
LEMMA EvalBelow ==
    ASSUME NEW fs \in Disks, NEW path \in Path, NEW name \in Name, NEW parent,
           parent = EvalSymlinks(fs, path), ~Failed(parent), Kind(fs, parent) = "dir",
           Kind(fs, Append(parent, name)) # "link"
    PROVE  EvalSymlinks(fs, Append(path, name)) =
               IF Append(parent, name) \in DOMAIN fs THEN Append(parent, name) ELSE Missing
<1> DEFINE more == Append(parent, name)
<1>1. parent = Target(fs, path) /\ RealDir(fs, parent) /\ parent \in Path
  BY EvalReal DEF RealDir, Real
<1>2. more \in Path
  BY <1>1, AppendLemma
<1>3. CASE more \in DOMAIN fs
  <2>1. Real(fs, more)
    BY <1>1, <1>3, KindLemma, RealBelow
  <2>2. Target(fs, Append(path, name)) = more
    BY <1>1, <2>1, RealStops, TargetAppend
  <2>3. Append(path, name) \in Path
    BY AppendLemma
  <2> HIDE DEF more
  <2> QED
    BY <1>3, <2>1, <2>2, <2>3, RealEval DEF more
<1>4. CASE more \notin DOMAIN fs
  <2>1. Kind(fs, more) = "none"
    BY <1>4 DEF Kind
  <2>2. Len(parent) + 1 \in Stops(fs, more, "none")
    BY <1>1, <2>1, StopsAppend
  <2>3. Stops(fs, more, "link") = {}
    BY <1>2, <2>2, StopsOnce
  <2>4. Target(fs, Append(path, name)) = more
    BY <1>1, <2>3, TargetAppend
  <2> QED
    BY <1>4, <2>2, <2>4 DEF EvalSymlinks, Resolved
<1> QED
  BY <1>3, <1>4

LEMMA MissingBelow ==
    ASSUME NEW fs \in Disks, NEW path \in Path, NEW name \in Name,
           EvalSymlinks(fs, path) = Missing
    PROVE  EvalSymlinks(fs, Append(path, name)) = Missing
<1> DEFINE target == Target(fs, path)
<1>1. target \in Path
  BY TargetTyped
<1>2. PICK k \in Stops(fs, target, "none") : TRUE
  BY <1>1, FailuresAssumption DEF EvalSymlinks, Resolved
<1>3. k \in Stops(fs, Append(target, name), "none") /\ Append(target, name) \in Path
  BY <1>1, StopsAppend, AppendLemma
<1>4. Stops(fs, Append(target, name), "link") = {}
  BY <1>3, StopsOnce
<1>5. Target(fs, Append(path, name)) = Append(target, name)
  BY <1>4, TargetAppend
<1> QED
  BY <1>3, <1>5 DEF EvalSymlinks, Resolved

(* Nothing is where Lstat finds nothing: either its directory is not there *)
(* or the directory has no such name.                                      *)
LEMMA LstatMissing ==
    ASSUME NEW fs \in Disks, NEW path \in Path, Lstat(fs, path) = Missing
    PROVE  /\ path # <<>> /\ EvalSymlinks(fs, path) = Missing
           /\ \/ EvalSymlinks(fs, Front(path)) = Missing
              \/ /\ ~Failed(EvalSymlinks(fs, Front(path)))
                 /\ Kind(fs, EvalSymlinks(fs, Front(path))) = "dir"
                 /\ Append(EvalSymlinks(fs, Front(path)), Last(path)) \notin DOMAIN fs
<1> DEFINE parent == EvalSymlinks(fs, Front(path))
           here == Append(parent, Last(path))
<1>1. path # <<>>
  BY FailuresAssumption DEF Lstat, Entry
<1>2. /\ Front(path) \in Path /\ Last(path) \in Name
      /\ path = Append(Front(path), Last(path))
  BY <1>1, FrontLemma
<1>3. CASE Failed(parent)
  <2>1. parent = Missing
    BY <1>1, <1>3 DEF Lstat, Entry
  <2>2. EvalSymlinks(fs, Append(Front(path), Last(path))) = Missing
    BY <1>2, <2>1, MissingBelow
  <2> QED
    BY <1>1, <1>2, <2>1, <2>2
<1>4. CASE ~Failed(parent)
  <2>1. Real(fs, parent) /\ parent \in Path
    BY <1>2, <1>4, EvalReal DEF Real
  <2>2. here \in Path
    BY <1>2, <2>1, AppendLemma
  <2>3. fs[parent].kind = "dir" /\ here \notin DOMAIN fs
    BY <1>1, <1>4, <2>2, FailuresAssumption DEF Lstat, Entry
  <2>4. Kind(fs, parent) = "dir" /\ Kind(fs, here) = "none"
    BY <2>1, <2>3, KindLemma DEF Real
  <2>5. EvalSymlinks(fs, Append(Front(path), Last(path))) = Missing
    BY <1>2, <1>4, <2>3, <2>4, EvalBelow
  <2> QED
    BY <1>1, <1>2, <1>4, <2>3, <2>4, <2>5
<1> QED
  BY <1>3, <1>4

-----------------------------------------------------------------------------
(* What a launch makes of the disk. *)

LEMMA DirNode == Dir(TRUE) \in Node /\ Dir(TRUE).kind = "dir"
<1>1. <<>> \in Path
  BY DEF Path
<1> QED
  BY <1>1 DEF Dir, Node

LEMMA PutLemma ==
    ASSUME NEW fs \in Disks, NEW q \in Path, Kind(fs, q) \in {"dir", "none"},
           NEW gs, gs = Put(fs, q, Dir(TRUE))
    PROVE  /\ gs \in Disks /\ DOMAIN gs = DOMAIN fs \cup {q}
           /\ gs[q] = Dir(TRUE) /\ Kind(gs, q) = "dir"
           /\ \A p \in DOMAIN fs : p # q => gs[p] = fs[p]
           /\ Extends(fs, gs)
<1>1. /\ DOMAIN gs = DOMAIN fs \cup {q} /\ gs[q] = Dir(TRUE)
      /\ \A p \in DOMAIN fs : p # q => gs[p] = fs[p]
      /\ gs = [p \in DOMAIN gs |-> gs[p]]
  BY DEF Put
<1>2. DOMAIN gs \subseteq Path /\ \A p \in DOMAIN gs : gs[p] \in Node
  BY <1>1, DirNode, DiskLemma
<1>3. Kind(gs, q) = "dir" /\ \A p \in DOMAIN fs : Kind(gs, p) = Kind(fs, p)
  BY <1>1, DirNode, KindLemma DEF Kind
<1>4. Kind(gs, <<>>) = "dir"
  BY <1>3, DiskLemma DEF Kind
<1>5. gs \in [DOMAIN gs -> Node]
  BY <1>1, <1>2
<1>6. gs \in Disks
  BY <1>2, <1>4, <1>5 DEF Disks
<1>7. \A p \in DOMAIN fs : Kind(fs, p) = "link" => gs[p].to = fs[p].to
  BY <1>1
<1> QED
  BY <1>1, <1>3, <1>6, <1>7 DEF Extends

States == [fs : Disks, ok : BOOLEAN]

LEMMA StateLemma ==
    ASSUME NEW s \in States
    PROVE  s.fs \in Disks /\ s.ok \in BOOLEAN
BY DEF States

LEMMA RefuseLemma ==
    ASSUME NEW s \in States, NEW u, u = Refuse(s)
    PROVE  u \in States /\ ~u.ok /\ u.fs = s.fs
BY DEF Refuse, States

LEMMA MakePrivateLemma ==
    ASSUME NEW s \in States, NEW q \in Path, Kind(s.fs, q) \in {"dir", "none"},
           NEW u, u = MakePrivate(s, q)
    PROVE  u \in States /\ u.ok = s.ok /\ u.fs = Put(s.fs, q, Dir(TRUE))
<1>1. PICK gs : gs = Put(s.fs, q, Dir(TRUE))
  OBVIOUS
<1>2. gs \in Disks
  BY <1>1, StateLemma, PutLemma
<1>3. u = [s EXCEPT !.fs = gs]
  BY <1>1 DEF MakePrivate
<1>4. u \in States /\ u.ok = s.ok /\ u.fs = gs
  BY <1>2, <1>3 DEF States
<1> QED
  BY <1>1, <1>4

(* Making the directory q either fails and leaves everything, or makes it. *)
Outcome(s, u, q) ==
    /\ u \in States
    /\ IF u.ok THEN /\ s.ok /\ Kind(s.fs, q) \in {"dir", "none"}
                    /\ u.fs = Put(s.fs, q, Dir(TRUE))
       ELSE u.fs = s.fs

LEMMA EnsureLemma ==
    ASSUME NEW s \in States, NEW parent \in Path, NEW name \in Name,
           s.ok => RealDir(s.fs, parent)
    PROVE  Outcome(s, EnsureDirectoryWithin(s, Append(parent, name)), Append(parent, name))
<1> DEFINE q == Append(parent, name)
           u == EnsureDirectoryWithin(s, q)
<1>1. /\ q \in Path /\ q # <<>> /\ Front(q) = parent /\ Last(q) = name
      /\ q # Missing /\ q # Broken
  BY AppendLemma, FailuresAssumption
<1>2. s.fs \in Disks /\ s.ok \in BOOLEAN
  BY StateLemma
<1> HIDE DEF q
<1>3. PICK here : here = Lstat(s.fs, q)
  OBVIOUS
<1>4. u = Ensure(s, q, here)
  BY <1>3 DEF EnsureDirectoryWithin
<1> SUFFICES Outcome(s, u, q)
  BY DEF q
<1> HIDE DEF u
<1>5. CASE ~s.ok
  <2>1. u = s
    BY <1>4, <1>5 DEF Ensure
  <2> QED
    BY <1>5, <2>1 DEF Outcome
<1>6. CASE s.ok
  <2>1. EvalSymlinks(s.fs, parent) = parent /\ ~Failed(parent)
    BY <1>2, <1>6, RealStays DEF RealDir
  <2>2. s.fs[parent].kind = "dir"
    BY <1>2, <1>6, KindLemma DEF RealDir
  <2>3. here = IF q \in DOMAIN s.fs THEN q ELSE Missing
    <3>1. Append(EvalSymlinks(s.fs, Front(q)), Last(q)) = q
      BY <1>1, <2>1 DEF q
    <3>2. /\ ~Failed(EvalSymlinks(s.fs, Front(q)))
          /\ s.fs[EvalSymlinks(s.fs, Front(q))].kind = "dir"
      BY <1>1, <2>1, <2>2
    <3> QED
      BY <1>1, <1>3, <3>1, <3>2 DEF Lstat, Entry
  <2>4. CASE q \notin DOMAIN s.fs
    <3>1. u = Mkdir(s, q)
      BY <1>4, <1>6, <2>3, <2>4 DEF Ensure
    <3>2. u = MakePrivate(s, q)
      BY <1>1, <2>1, <3>1, AppendLemma DEF Mkdir, q
    <3>3. Kind(s.fs, q) = "none"
      BY <2>4 DEF Kind
    <3>4. u \in States /\ u.ok = s.ok /\ u.fs = Put(s.fs, q, Dir(TRUE))
      BY <1>1, <3>2, <3>3, MakePrivateLemma
    <3> QED
      BY <1>6, <3>3, <3>4 DEF Outcome
  <2>5. CASE q \in DOMAIN s.fs /\ s.fs[q].kind # "dir"
    <3>1. u = Refuse(s)
      BY <1>1, <1>4, <1>6, <2>3, <2>5 DEF Ensure
    <3>2. u \in States /\ ~u.ok /\ u.fs = s.fs
      BY <3>1, RefuseLemma
    <3> QED
      BY <3>2 DEF Outcome
  <2>6. CASE q \in DOMAIN s.fs /\ s.fs[q].kind = "dir"
    <3>1. u = Chmod(s, q)
      BY <1>1, <1>4, <1>6, <2>3, <2>6 DEF Ensure
    <3>2. Kind(s.fs, q) = "dir"
      BY <2>6 DEF Kind
    <3>3. Real(s.fs, q)
      BY <1>6, <3>2, RealBelow DEF q
    <3>4. EvalSymlinks(s.fs, q) = q
      BY <1>1, <1>2, <3>3, RealStays
    <3>5. u = MakePrivate(s, q)
      BY <3>1, <3>4 DEF Chmod
    <3>6. u \in States /\ u.ok = s.ok /\ u.fs = Put(s.fs, q, Dir(TRUE))
      BY <1>1, <3>2, <3>5, MakePrivateLemma
    <3> QED
      BY <1>6, <3>2, <3>6 DEF Outcome
  <2> QED
    BY <2>4, <2>5, <2>6
<1> QED
  BY <1>2, <1>5, <1>6

-----------------------------------------------------------------------------
(* The way to the root. *)

(* A step of MkdirAll fails, or finds a directory, or makes one that was   *)
(* not there.                                                              *)
IsDirectory(fs, path) ==
    /\ ~Failed(EvalSymlinks(fs, path))
    /\ Kind(fs, EvalSymlinks(fs, path)) = "dir"

Made(s, u, path) ==
    /\ u \in States
    /\ u.ok => s.ok /\ IsDirectory(u.fs, path)
    /\ \/ u.fs = s.fs
       \/ LET q == EvalSymlinks(u.fs, path) IN
          q \in Path /\ q \notin DOMAIN s.fs /\ u.fs = Put(s.fs, q, Dir(TRUE))

LEMMA MkdirStepLemma ==
    ASSUME NEW s \in States, NEW path \in Path
    PROVE  Made(s, MkdirStep(s, path), path)
<1> DEFINE u == MkdirStep(s, path)
           parent == EvalSymlinks(s.fs, Front(path))
           here == Append(parent, Last(path))
           there == EvalSymlinks(s.fs, path)
<1>1. s.fs \in Disks /\ s.ok \in BOOLEAN
  BY StateLemma
<1>2. CASE ~s.ok
  BY <1>2 DEF MkdirStep, Made
<1>3. CASE s.ok /\ Lstat(s.fs, path) = Missing
  <2>1. u = Mkdir(s, path)
    BY <1>3 DEF MkdirStep
  <2>2. CASE Failed(parent)
    <3>1. u = Refuse(s)
      BY <2>1, <2>2 DEF Mkdir
    <3>2. u \in States /\ ~u.ok /\ u.fs = s.fs
      <4> HIDE DEF u
      <4> QED
        BY <3>1, RefuseLemma
    <3> QED
      BY <3>2 DEF Made
  <2>3. CASE ~Failed(parent)
    <3> DEFINE gs == Put(s.fs, here, Dir(TRUE))
    <3>1. path # <<>> /\ Kind(s.fs, parent) = "dir" /\ here \notin DOMAIN s.fs
      BY <1>1, <1>3, <2>3, LstatMissing DEF Failed
    <3>2. /\ Front(path) \in Path /\ Last(path) \in Name
          /\ path = Append(Front(path), Last(path))
      BY <3>1, FrontLemma
    <3>3. Real(s.fs, parent) /\ parent \in Path
      BY <1>1, <2>3, <3>2, EvalReal DEF Real
    <3>4. here \in Path
      BY <3>2, <3>3, AppendLemma
    <3>5. Kind(s.fs, here) = "none"
      BY <3>1 DEF Kind
    <3>6. /\ gs \in Disks /\ Extends(s.fs, gs) /\ Kind(gs, here) = "dir"
          /\ here \in DOMAIN gs
      <4>1. gs = Put(s.fs, here, Dir(TRUE))
        OBVIOUS
      <4> HIDE DEF here, gs
      <4>2. gs \in Disks /\ DOMAIN gs = DOMAIN s.fs \cup {here}
        BY <1>1, <3>4, <3>5, <4>1, PutLemma
      <4>3. Extends(s.fs, gs) /\ Kind(gs, here) = "dir"
        BY <1>1, <3>4, <3>5, <4>1, PutLemma
      <4> QED
        BY <4>2, <4>3
    <3>7. u \in States /\ u.fs = gs /\ u.ok = s.ok
      <4>1. u = MakePrivate(s, here)
        BY <2>1, <2>3 DEF Mkdir
      <4> HIDE DEF u, here
      <4> QED
        BY <3>4, <3>5, <4>1, MakePrivateLemma
    <3> HIDE DEF gs
    <3>8. EvalSymlinks(gs, Front(path)) = parent
      BY <1>1, <2>3, <3>2, <3>6, EvalExtends
    <3>9. Kind(gs, parent) = "dir"
      BY <1>1, <3>1, <3>3, <3>6, RealExtends
    <3>10. EvalSymlinks(gs, path) = here
      <4> HIDE DEF parent
      <4>1. EvalSymlinks(gs, Append(Front(path), Last(path))) =
                IF here \in DOMAIN gs THEN here ELSE Missing
        BY <2>3, <3>2, <3>6, <3>8, <3>9, EvalBelow
      <4> QED
        BY <3>2, <3>6, <4>1
    <3>11. ~Failed(here)
      BY <3>4, FailuresAssumption DEF Failed
    <3> HIDE DEF u, here, parent
    <3> QED
      BY <1>3, <3>1, <3>4, <3>6, <3>7, <3>10, <3>11 DEF Made, IsDirectory, gs, u
  <2> QED
    BY <2>2, <2>3
<1>4. CASE s.ok /\ Lstat(s.fs, path) # Missing
  <2>1. CASE Failed(there) \/ s.fs[there].kind # "dir"
    <3>1. u = Refuse(s)
      BY <1>4, <2>1 DEF MkdirStep
    <3>2. u \in States /\ ~u.ok /\ u.fs = s.fs
      <4> HIDE DEF u
      <4> QED
        BY <3>1, RefuseLemma
    <3> QED
      BY <3>2 DEF Made
  <2>2. CASE ~(Failed(there) \/ s.fs[there].kind # "dir")
    <3>1. u = s
      BY <1>4, <2>2 DEF MkdirStep
    <3>2. Real(s.fs, there)
      BY <1>1, <2>2, EvalReal
    <3>3. IsDirectory(s.fs, path)
      BY <1>1, <2>2, <3>2, KindLemma DEF IsDirectory, Real
    <3> HIDE DEF u
    <3> QED
      BY <1>4, <3>1, <3>3 DEF Made, u
  <2> QED
    BY <2>1, <2>2
<1> QED
  BY <1>1, <1>2, <1>3, <1>4

(* The disk gs is what fs became, unless at the places of S: there is more *)
(* on it, and only on the way to the root.                                 *)
Grown(fs, gs, S) ==
    /\ gs \in Disks /\ Extends(fs, gs)
    /\ \A p \in DOMAIN fs \cup DOMAIN gs :
          \/ p \in DOMAIN fs \cap DOMAIN gs /\ fs[p] = gs[p]
          \/ p \in S
          \/ p \notin DOMAIN fs /\ \E i \in 1..Len(Root) :
                 p = EvalSymlinks(gs, SubSeq(Root, 1, i))

LEMMA ExtendsLemma ==
    ASSUME NEW fs \in Disks, NEW gs \in Disks, Extends(fs, gs)
    PROVE  /\ DOMAIN fs \subseteq DOMAIN gs
           /\ \A hs \in Disks : Extends(gs, hs) => Extends(fs, hs)
<1>1. DOMAIN fs \subseteq DOMAIN gs
  BY KindLemma DEF Extends
<1> QED
  BY <1>1 DEF Extends

LEMMA RootLemma ==
    /\ Root \in Path /\ Len(Root) \in Nat /\ SubSeq(Root, 1, Len(Root)) = Root
    /\ SubSeq(Root, 1, 0) = <<>> /\ \A i \in 0..Len(Root) : SubSeq(Root, 1, i) \in Path
<1>1. Root \in Path /\ Len(Root) \in Nat
  BY PlacesAssumption DEF Path
<1> QED
  BY <1>1, PrefixLemma

LEMMA GrownSame ==
    ASSUME NEW fs \in Disks, NEW S
    PROVE  Grown(fs, fs, S)
BY DEF Grown, Extends

LEMMA GrownPut ==
    ASSUME NEW fs \in Disks, NEW gs \in Disks, NEW S, Grown(fs, gs, S),
           NEW q \in Path, Kind(gs, q) \in {"dir", "none"},
           NEW hs, hs = Put(gs, q, Dir(TRUE)),
           \/ q \in S
           \/ q \notin DOMAIN gs /\ \E i \in 1..Len(Root) :
                  q = EvalSymlinks(hs, SubSeq(Root, 1, i))
    PROVE  Grown(fs, hs, S)
<1>1. /\ hs \in Disks /\ DOMAIN hs = DOMAIN gs \cup {q}
      /\ \A p \in DOMAIN gs : p # q => hs[p] = gs[p]
      /\ Extends(gs, hs)
  <2>1. hs \in Disks /\ DOMAIN hs = DOMAIN gs \cup {q} /\ Extends(gs, hs)
    BY PutLemma
  <2>2. \A p \in DOMAIN gs : p # q => hs[p] = gs[p]
    BY DEF Put
  <2> QED
    BY <2>1, <2>2
<1>2. Extends(fs, gs) /\ Extends(fs, hs) /\ DOMAIN fs \subseteq DOMAIN gs
  BY <1>1, ExtendsLemma DEF Grown
<1>3. ASSUME NEW p \in DOMAIN fs \cup DOMAIN hs
      PROVE  \/ p \in DOMAIN fs \cap DOMAIN hs /\ fs[p] = hs[p]
             \/ p \in S
             \/ p \notin DOMAIN fs /\ \E i \in 1..Len(Root) :
                    p = EvalSymlinks(hs, SubSeq(Root, 1, i))
  <2>1. CASE p = q /\ q \in S
    BY <2>1
  <2>2. CASE p = q /\ q \notin S
    BY <1>2, <2>2
  <2>3. CASE p # q
    <3>1. p \in DOMAIN gs /\ p \in DOMAIN hs /\ hs[p] = gs[p] /\ p \in Path
      BY <1>1, <1>2, <2>3, DiskLemma
    <3>2. CASE (p \in DOMAIN fs /\ fs[p] = gs[p]) \/ p \in S
      BY <3>1, <3>2
    <3>3. ASSUME p \notin DOMAIN fs, NEW i \in 1..Len(Root),
                 p = EvalSymlinks(gs, SubSeq(Root, 1, i))
          PROVE  p = EvalSymlinks(hs, SubSeq(Root, 1, i))
      <4>1. PICK way : way = SubSeq(Root, 1, i)
        OBVIOUS
      <4>2. way \in Path
        BY <4>1, RootLemma
      <4>3. ~Failed(EvalSymlinks(gs, way))
        BY <3>1, <3>3, <4>1, FailuresAssumption DEF Failed
      <4>4. EvalSymlinks(hs, way) = EvalSymlinks(gs, way)
        BY <1>1, <4>2, <4>3, EvalExtends
      <4> QED
        BY <3>3, <4>1, <4>4
    <3> QED
      BY <3>1, <3>2, <3>3 DEF Grown
  <2> QED
    BY <2>1, <2>2, <2>3
<1> QED
  BY <1>1, <1>2, <1>3 DEF Grown

LEMMA GrownWay ==
    ASSUME NEW fs \in Disks, NEW s \in States, NEW S, Grown(fs, s.fs, S),
           NEW i \in 1..Len(Root), NEW u, Made(s, u, SubSeq(Root, 1, i))
    PROVE  Grown(fs, u.fs, S)
<1> DEFINE q == EvalSymlinks(u.fs, SubSeq(Root, 1, i))
<1>1. CASE u.fs = s.fs
  BY <1>1
<1>2. CASE u.fs # s.fs
  <2>1. q \in Path /\ q \notin DOMAIN s.fs /\ u.fs = Put(s.fs, q, Dir(TRUE))
    BY <1>2 DEF Made
  <2>2. PICK gs, hs : gs = s.fs /\ hs = u.fs
    OBVIOUS
  <2>3. gs \in Disks /\ Kind(gs, q) = "none"
    BY <2>1, <2>2, StateLemma DEF Kind
  <2>4. q = EvalSymlinks(hs, SubSeq(Root, 1, i))
    BY <2>2
  <2>5. Grown(fs, gs, S) /\ q \notin DOMAIN gs /\ hs = Put(gs, q, Dir(TRUE)) /\ q \in Path
    BY <2>1, <2>2
  <2> HIDE DEF q
  <2> QED
    BY <2>2, <2>3, <2>4, <2>5, GrownPut
<1> QED
  BY <1>1, <1>2

LEMMA MkdirAllLemma ==
    ASSUME NEW fs \in Disks, NEW S, NEW made, made = MkdirAll(fs, Root)
    PROVE  /\ made \in States /\ Grown(fs, made.fs, S)
           /\ made.ok => IsDirectory(made.fs, Root)
<1> DEFINE N == Len(Root)
           first == [fs |-> fs, ok |-> TRUE]
           Step(m, i) == IF i = 0 THEN first ELSE MkdirStep(m[i - 1], SubSeq(Root, 1, i))
           IsMade(m) == m = [i \in 0..N |-> Step(m, i)]
           G == [q \in (1..N) \X States |-> MkdirStep(q[2], SubSeq(Root, 1, q[1]))]
           Good(m, i) == /\ m[i] \in States /\ Grown(fs, m[i].fs, S)
                         /\ m[i].ok => IsDirectory(m[i].fs, SubSeq(Root, 1, i))
<1>0. /\ N \in Nat /\ 0 \in 0..N
      /\ \A n \in 1..N : n \in 0..N /\ n - 1 \in 0..N /\ n # 0
  BY RootLemma
<1>1. \A n \in 0..N : n = 0 \/ n \in 1..N
  BY <1>0
<1>2. \A s \in States, i \in 1..N : Made(s, MkdirStep(s, SubSeq(Root, 1, i)), SubSeq(Root, 1, i))
  BY RootLemma, MkdirStepLemma
<1>3. G \in [(1..N) \X States -> States]
  <2>1. \A q \in (1..N) \X States : MkdirStep(q[2], SubSeq(Root, 1, q[1])) \in States
    BY <1>2 DEF Made
  <2> QED
    BY <2>1
<1>4. \A n \in 1..N, s \in States : G[<<n, s>>] = MkdirStep(s, SubSeq(Root, 1, n))
  OBVIOUS
<1>5. first \in States
  BY DEF States
<1> HIDE DEF G, first, N
<1>6. \E m : IsMade(m)
  <2>1. PICK m : Solves(m, N, States, first, G)
    BY <1>0, <1>3, <1>5, Recursion
  <2>2. m \in [0..N -> States] /\ m[0] = first
    BY <2>1 DEF Solves
  <2>3. \A n \in 1..N : m[n] = MkdirStep(m[n - 1], SubSeq(Root, 1, n))
    BY <1>0, <1>4, <2>1, <2>2 DEF Solves
  <2>4. \A n \in 0..N : m[n] = Step(m, n)
    BY <1>0, <1>1, <2>2, <2>3
  <2> HIDE DEF Step
  <2> QED
    BY <2>2, <2>4
<1>7. ASSUME NEW m, IsMade(m) PROVE Good(m, N)
  <2>1. \A n \in 0..N : m[n] = Step(m, n)
    <3> HIDE DEF Step
    <3> QED
      BY <1>7
  <2>2. m[0] = first /\ \A n \in 1..N : m[n] = MkdirStep(m[n - 1], SubSeq(Root, 1, n))
    BY <1>0, <2>1
  <2> DEFINE T == {n \in Nat : n <= N => Good(m, n)}
  <2>3. Good(m, 0)
    <3>1. m[0] \in States /\ m[0].fs = fs
      BY <1>5, <2>2 DEF first
    <3>2. Real(fs, <<>>) /\ <<>> \in Path
      <4>1. <<>> \in Path /\ Len(<<>>) = 0
        BY DEF Path
      <4>2. Kind(fs, <<>>) = "dir"
        BY DEF Disks
      <4> QED
        BY <4>1, <4>2 DEF Real
    <3>3. EvalSymlinks(fs, <<>>) = <<>> /\ ~Failed(<<>>)
      BY <3>2, RealStays
    <3>4. IsDirectory(fs, <<>>)
      BY <3>3 DEF IsDirectory, Disks
    <3> QED
      BY <3>1, <3>4, GrownSame, RootLemma
  <2>4. ASSUME NEW n \in Nat, n + 1 <= N, Good(m, n) PROVE Good(m, n + 1)
    <3>1. n + 1 \in 1..N /\ (n + 1) - 1 = n
      BY <1>0, <2>4
    <3>2. PICK s, u : s = m[n] /\ u = m[n + 1]
      OBVIOUS
    <3>3. s \in States /\ Grown(fs, s.fs, S) /\ u = MkdirStep(s, SubSeq(Root, 1, n + 1))
      BY <2>2, <2>4, <3>1, <3>2
    <3>4. Made(s, u, SubSeq(Root, 1, n + 1))
      BY <1>2, <3>1, <3>3
    <3>5. Grown(fs, u.fs, S)
      BY <3>1, <3>3, <3>4, GrownWay DEF N
    <3>6. u \in States /\ (u.ok => IsDirectory(u.fs, SubSeq(Root, 1, n + 1)))
      BY <3>4 DEF Made
    <3> QED
      BY <3>2, <3>5, <3>6
  <2> HIDE DEF Good
  <2>5. Nat \subseteq T
    <3>1. 0 \in T
      BY <2>3
    <3>2. \A n \in Nat : n \in T => n + 1 \in T
      BY <1>0, <2>4
    <3> HIDE DEF T
    <3> QED
      BY <3>1, <3>2, SetInduction
  <2> QED
    BY <1>0, <2>5
<1>8. MkdirAll(fs, Root) = (CHOOSE m : IsMade(m))[N]
  BY DEF MkdirAll, N, first
<1> HIDE DEF IsMade
<1>9. PICK m : m = (CHOOSE v : IsMade(v)) /\ IsMade(m)
  BY <1>6
<1>10. made = m[N] /\ Good(m, N)
  BY <1>7, <1>8, <1>9
<1> QED
  BY <1>10, RootLemma DEF N

-----------------------------------------------------------------------------
(* The directories below the root. *)

(* A directory that is private, on a path without links.                   *)
Private(fs, path) == RealDir(fs, path) /\ fs[path] = Dir(TRUE)

LEMMA PrivatePut ==
    ASSUME NEW gs \in Disks, NEW q \in Path, Kind(gs, q) \in {"dir", "none"},
           NEW hs, hs = Put(gs, q, Dir(TRUE))
    PROVE  /\ \A p : Private(gs, p) => Private(hs, p)
           /\ RealDir(gs, q) => Private(hs, q)
           /\ \A parent \in Path, name \in Name :
                 q = Append(parent, name) /\ RealDir(gs, parent) => Private(hs, q)
<1>1. hs \in Disks /\ Extends(gs, hs) /\ Kind(hs, q) = "dir"
  BY PutLemma
<1>2. hs[q] = Dir(TRUE) /\ \A p \in DOMAIN gs : p # q => hs[p] = gs[p]
  BY DEF Put
<1>3. \A p : RealDir(gs, p) => RealDir(hs, p) /\ p \in DOMAIN gs
  <2> SUFFICES ASSUME NEW p, RealDir(gs, p) PROVE RealDir(hs, p) /\ p \in DOMAIN gs
    OBVIOUS
  <2>1. Real(hs, p) /\ Kind(hs, p) = "dir"
    BY <1>1, RealExtends DEF RealDir
  <2> QED
    BY <2>1, KindLemma DEF RealDir
<1>4. \A p : Private(gs, p) => Private(hs, p)
  BY <1>2, <1>3 DEF Private
<1>5. RealDir(gs, q) => Private(hs, q)
  BY <1>2, <1>3 DEF Private
<1>6. ASSUME NEW parent \in Path, NEW name \in Name, q = Append(parent, name),
             RealDir(gs, parent)
      PROVE  Private(hs, q)
  <2>1. RealDir(hs, parent)
    BY <1>3, <1>6
  <2>2. Real(hs, Append(parent, name))
    BY <1>1, <1>6, <2>1, RealBelow
  <2> QED
    BY <1>1, <1>2, <1>6, <2>2 DEF Private, RealDir
<1> QED
  BY <1>4, <1>5, <1>6

(* A state that is fine as far as the directory q.                         *)
Reached(s, u, S, q) ==
    /\ u \in States /\ \A fs \in Disks : Grown(fs, s.fs, S) => Grown(fs, u.fs, S)
    /\ u.ok => s.ok /\ Private(u.fs, q) /\ \A p : Private(s.fs, p) => Private(u.fs, p)

LEMMA ReachedPut ==
    ASSUME NEW s \in States, NEW S, NEW q \in Path, q \in S,
           Kind(s.fs, q) \in {"dir", "none"}, NEW u \in States, u.ok = s.ok,
           u.fs = Put(s.fs, q, Dir(TRUE)),
           RealDir(s.fs, q) \/ \E parent \in Path, name \in Name :
               q = Append(parent, name) /\ RealDir(s.fs, parent)
    PROVE  Reached(s, u, S, q)
<1>1. PICK gs, hs : gs = s.fs /\ hs = u.fs
  OBVIOUS
<1>2. gs \in Disks /\ Kind(gs, q) \in {"dir", "none"} /\ hs = Put(gs, q, Dir(TRUE))
  BY <1>1, StateLemma
<1>3. \A p : Private(gs, p) => Private(hs, p)
  BY <1>2, PrivatePut
<1>4. Private(hs, q)
  <2>1. ASSUME RealDir(gs, q) PROVE Private(hs, q)
    BY <1>2, <2>1, PrivatePut
  <2>2. ASSUME NEW parent \in Path, NEW name \in Name, q = Append(parent, name),
               RealDir(gs, parent)
        PROVE  Private(hs, q)
    BY <1>2, <2>2, PrivatePut
  <2> QED
    BY <1>1, <2>1, <2>2
<1>5. ASSUME NEW fs \in Disks, Grown(fs, gs, S) PROVE Grown(fs, hs, S)
  BY <1>2, <1>5, GrownPut
<1> QED
  BY <1>1, <1>3, <1>4, <1>5 DEF Reached

LEMMA EnsureReached ==
    ASSUME NEW s \in States, NEW parent \in Path, NEW name \in Name, NEW q,
           q = Append(parent, name), s.ok => Private(s.fs, parent),
           NEW S, q \in S, NEW u, u = EnsureDirectoryWithin(s, q)
    PROVE  Reached(s, u, S, q)
<1>1. Outcome(s, u, q) /\ q \in Path
  <2>1. s.ok => RealDir(s.fs, parent)
    BY DEF Private
  <2>2. q \in Path
    BY AppendLemma
  <2> QED
    BY <2>1, <2>2, EnsureLemma
<1>2. CASE u.ok
  <2>1. /\ s.ok /\ u \in States /\ Kind(s.fs, q) \in {"dir", "none"}
        /\ u.fs = Put(s.fs, q, Dir(TRUE))
    BY <1>1, <1>2 DEF Outcome
  <2>2. u.ok = s.ok
    BY <1>2, <2>1, StateLemma
  <2>3. \E a \in Path, b \in Name : q = Append(a, b) /\ RealDir(s.fs, a)
    BY <2>1 DEF Private
  <2> QED
    BY <1>1, <2>1, <2>2, <2>3, ReachedPut
<1>3. CASE ~u.ok
  BY <1>1, <1>3 DEF Outcome, Reached
<1> QED
  BY <1>2, <1>3

LEMMA ManagedLemma ==
    ASSUME NEW root \in Path, NEW p \in Profile
    PROVE  LET a == Append(root, "profiles")
               b == Append(a, p)
               c == Append(b, "codex-home")
               d == Append(b, "chatgpt-user-data")
           IN  /\ a \in Path /\ b \in Path /\ c \in Path /\ d \in Path
               /\ p \in Name /\ root \o <<"profiles", p>> = b
               /\ DeriveProfilePaths(root, p) = [home |-> c, data |-> d]
               /\ Managed(root, p) = <<a, b, c, d>>
<1> DEFINE a == Append(root, "profiles")
           b == Append(a, p)
<1>1. p \in Name /\ a \in Path /\ b \in Path
  BY PlacesAssumption DEF Name, Path
<1>2. root \o <<"profiles", p>> = b
  BY <1>1 DEF Path, Name
<1>3. DeriveProfilePaths(root, p) =
          [home |-> Append(b, "codex-home"), data |-> Append(b, "chatgpt-user-data")]
  BY <1>2 DEF DeriveProfilePaths
<1>4. Append(b, "codex-home") \in Path /\ Append(b, "chatgpt-user-data") \in Path
  BY <1>1 DEF Path, Name
<1>5. Managed(root, p) = <<a, b, Append(b, "codex-home"), Append(b, "chatgpt-user-data")>>
  BY <1>2, <1>3 DEF Managed
<1> QED
  BY <1>1, <1>2, <1>3, <1>4, <1>5

LEMMA PrepareCases ==
    ASSUME NEW fs, NEW p, NEW made, made = MkdirAll(fs, Root),
           NEW root, root = EvalSymlinks(made.fs, Root),
           NEW secured, secured = Chmod(made, root),
           NEW profiles, profiles = EnsureDirectoryWithin(secured, Managed(root, p)[1]),
           NEW profile, profile = EnsureDirectoryWithin(profiles, Managed(root, p)[2]),
           NEW home, home = EnsureDirectoryWithin(profile, Managed(root, p)[3]),
           NEW ensured, ensured = EnsureDirectoryWithin(home, Managed(root, p)[4])
    PROVE  PrepareProfilePaths(fs, p) =
               IF ~made.ok THEN [fs |-> made.fs, root |-> Missing, ids |-> Missing]
               ELSE IF ensured.ok /\ Contained(ensured.fs, root, p)
               THEN [fs |-> ensured.fs, root |-> root, ids |-> Identity(ensured.fs, root, p)]
               ELSE [fs |-> ensured.fs, root |-> root, ids |-> Missing]
BY Zenon DEF PrepareProfilePaths

Places(root, p) == {root} \cup {Managed(root, p)[i] : i \in 1..4}

(* A launch leaves the rest of the disk alone, and when it is not refused  *)
(* every managed directory is private and its path without links, so that  *)
(* the identity is the one the root's directory gives.                     *)
Prepared(fs, done, root, p) ==
    /\ Grown(fs, done.fs, Places(root, p))
    /\ done.ids # Missing =>
           /\ done.root = root /\ root \in Path /\ Private(done.fs, root)
           /\ \A i \in 1..4 : Private(done.fs, Managed(root, p)[i])
           /\ done.ids = DeriveProfilePaths(root, p)

LEMMA PrepareLemma ==
    ASSUME NEW fs \in Disks, NEW p \in Profile,
           NEW done, done = PrepareProfilePaths(fs, p)
    PROVE  Prepared(fs, done, EvalSymlinks(done.fs, Root), p)
<1>1. PICK made : made = MkdirAll(fs, Root)
  OBVIOUS
<1>2. PICK root : root = EvalSymlinks(made.fs, Root)
  OBVIOUS
<1>3. PICK secured : secured = Chmod(made, root)
  OBVIOUS
<1>4. PICK profiles : profiles = EnsureDirectoryWithin(secured, Managed(root, p)[1])
  OBVIOUS
<1>5. PICK profile : profile = EnsureDirectoryWithin(profiles, Managed(root, p)[2])
  OBVIOUS
<1>6. PICK home : home = EnsureDirectoryWithin(profile, Managed(root, p)[3])
  OBVIOUS
<1>7. PICK ensured : ensured = EnsureDirectoryWithin(home, Managed(root, p)[4])
  OBVIOUS
<1>8. done = IF ~made.ok THEN [fs |-> made.fs, root |-> Missing, ids |-> Missing]
             ELSE IF ensured.ok /\ Contained(ensured.fs, root, p)
             THEN [fs |-> ensured.fs, root |-> root, ids |-> Identity(ensured.fs, root, p)]
             ELSE [fs |-> ensured.fs, root |-> root, ids |-> Missing]
  BY <1>1, <1>2, <1>3, <1>4, <1>5, <1>6, <1>7, PrepareCases
<1>9. /\ made \in States /\ \A S : Grown(fs, made.fs, S)
      /\ made.ok => IsDirectory(made.fs, Root)
  BY <1>1, MkdirAllLemma
<1>10. CASE ~made.ok
  <2>1. done.fs = made.fs /\ done.ids = Missing
    BY <1>8, <1>10
  <2> QED
    BY <1>9, <2>1 DEF Prepared
<1>11. CASE made.ok
  <2> DEFINE S == Places(root, p)
             a == Append(root, "profiles")
             b == Append(a, p)
             c == Append(b, "codex-home")
             d == Append(b, "chatgpt-user-data")
  <2>1. made.fs \in Disks
    BY <1>9, StateLemma
  <2>2. RealDir(made.fs, root) /\ root \in Path
    <3>1. ~Failed(root) /\ Kind(made.fs, root) = "dir"
      BY <1>2, <1>9, <1>11 DEF IsDirectory
    <3> QED
      BY <1>2, <2>1, <3>1, EvalReal, RootLemma DEF RealDir, Real
  <2>3. /\ a \in Path /\ b \in Path /\ c \in Path /\ d \in Path /\ p \in Name
        /\ DeriveProfilePaths(root, p) = [home |-> c, data |-> d]
        /\ Managed(root, p) = <<a, b, c, d>>
    BY <2>2, ManagedLemma
  <2>4. /\ Managed(root, p)[1] = a /\ Managed(root, p)[2] = b
        /\ Managed(root, p)[3] = c /\ Managed(root, p)[4] = d
    BY <2>3
  <2>5. root \in S /\ a \in S /\ b \in S /\ c \in S /\ d \in S
    <3>1. root \in S /\ \A i \in 1..4 : Managed(root, p)[i] \in S
      BY DEF Places
    <3> HIDE DEF S
    <3>2. /\ Managed(root, p)[1] \in S /\ Managed(root, p)[2] \in S
          /\ Managed(root, p)[3] \in S /\ Managed(root, p)[4] \in S
      BY <3>1
    <3> QED
      BY <2>4, <3>1, <3>2
  <2>6. \A n \in {"profiles", "codex-home", "chatgpt-user-data"} : n \in Name
    BY DEF Name
  <2> HIDE DEF S, a, b, c, d
  <2>7. Reached(made, secured, S, root)
    <3>1. EvalSymlinks(made.fs, root) = root
      BY <2>1, <2>2, RealStays DEF RealDir
    <3>2. root \in DOMAIN made.fs /\ Kind(made.fs, root) \in {"dir", "none"}
      BY <2>1, <2>2, KindLemma DEF RealDir
    <3>3. secured = MakePrivate(made, root)
      BY <1>3, <3>1 DEF Chmod
    <3>4. /\ secured \in States /\ secured.ok = made.ok
          /\ secured.fs = Put(made.fs, root, Dir(TRUE))
      BY <1>9, <2>2, <3>2, <3>3, MakePrivateLemma
    <3> QED
      BY <1>9, <2>2, <2>5, <3>2, <3>4, ReachedPut
  <2>8. Reached(secured, profiles, S, a)
    <3>1. secured \in States /\ (secured.ok => Private(secured.fs, root))
      BY <2>7 DEF Reached
    <3>2. a = Append(root, "profiles") /\ "profiles" \in Name
      BY <2>6 DEF a
    <3> QED
      BY <1>4, <2>2, <2>4, <2>5, <3>1, <3>2, EnsureReached
  <2>9. Reached(profiles, profile, S, b)
    <3>1. profiles \in States /\ (profiles.ok => Private(profiles.fs, a))
      BY <2>8 DEF Reached
    <3>2. b = Append(a, p)
      BY DEF b
    <3> QED
      BY <1>5, <2>3, <2>4, <2>5, <3>1, <3>2, EnsureReached
  <2>10. Reached(profile, home, S, c)
    <3>1. profile \in States /\ (profile.ok => Private(profile.fs, b))
      BY <2>9 DEF Reached
    <3>2. c = Append(b, "codex-home") /\ "codex-home" \in Name
      BY <2>6 DEF c
    <3> QED
      BY <1>6, <2>3, <2>4, <2>5, <3>1, <3>2, EnsureReached
  <2>11. Reached(home, ensured, S, d)
    <3>1. /\ home \in States
          /\ home.ok => profile.ok /\ Private(home.fs, b)
      BY <2>9, <2>10 DEF Reached
    <3>2. d = Append(b, "chatgpt-user-data") /\ "chatgpt-user-data" \in Name
      BY <2>6 DEF d
    <3> QED
      BY <1>7, <2>3, <2>4, <2>5, <3>1, <3>2, EnsureReached
  <2>12. \A gs \in Disks : Grown(gs, made.fs, S) => Grown(gs, ensured.fs, S)
    BY <2>7, <2>8, <2>9, <2>10, <2>11 DEF Reached
  <2>13. Grown(fs, ensured.fs, S) /\ Grown(made.fs, ensured.fs, S)
    BY <1>9, <2>1, <2>12, GrownSame
  <2>14. EvalSymlinks(ensured.fs, Root) = root
    <3>1. ~Failed(EvalSymlinks(made.fs, Root))
      BY <1>9, <1>11 DEF IsDirectory
    <3>2. ensured.fs \in Disks /\ Extends(made.fs, ensured.fs)
      BY <2>13 DEF Grown
    <3> QED
      BY <1>2, <2>1, <3>1, <3>2, EvalExtends, RootLemma
  <2>15. done.fs = ensured.fs
    BY <1>8, <1>11
  <2>16. ASSUME done.ids # Missing
         PROVE  /\ done.root = root /\ Private(done.fs, root)
                /\ \A i \in 1..4 : Private(done.fs, Managed(root, p)[i])
                /\ done.ids = DeriveProfilePaths(root, p)
    <3>1. /\ ensured.ok /\ done.root = root
          /\ done.ids = Identity(ensured.fs, root, p)
      BY <1>8, <1>11, <2>16
    <3>2. /\ Private(ensured.fs, root) /\ Private(ensured.fs, a) /\ Private(ensured.fs, b)
          /\ Private(ensured.fs, c) /\ Private(ensured.fs, d)
      BY <2>7, <2>8, <2>9, <2>10, <2>11, <3>1 DEF Reached
    <3>3. EvalSymlinks(ensured.fs, c) = c /\ EvalSymlinks(ensured.fs, d) = d
      <4>1. ensured.fs \in Disks
        BY <2>13 DEF Grown
      <4> QED
        BY <2>3, <3>2, <4>1, RealStays DEF Private, RealDir
    <3>4. Identity(ensured.fs, root, p) = [home |-> c, data |-> d]
      BY <2>3, <3>3 DEF Identity
    <3>5. \A i \in 1..4 : Private(ensured.fs, Managed(root, p)[i])
      BY <2>4, <3>2
    <3> QED
      BY <2>3, <2>15, <3>1, <3>2, <3>4, <3>5
  <2> QED
    BY <2>2, <2>13, <2>14, <2>15, <2>16 DEF Prepared, S
<1> QED
  BY <1>9, <1>10, <1>11, StateLemma

-----------------------------------------------------------------------------
(* What the user does leaves a disk a disk. *)

LEMMA CutLemma ==
    ASSUME NEW from \in Path, NEW path \in Path
    PROVE  /\ IsPrefix(from, path) =>
                  /\ SubSeq(path, Len(from) + 1, Len(path)) \in Path
                  /\ from \o SubSeq(path, Len(from) + 1, Len(path)) = path
           /\ from \o path \in Path
           /\ SubSeq(from \o path, Len(from) + 1, Len(from \o path)) = path
           /\ IsPrefix(<<>>, path) /\ (IsPrefix(from, <<>>) => from = <<>>)
<1>1. Len(from) \in Nat /\ Len(path) \in Nat
  BY DEF Path
<1>2. \A v, w \in Path : Len(v) = Len(w) /\ (\A i \in 1..Len(v) : v[i] = w[i]) => v = w
  BY DEF Path
<1>3. ASSUME IsPrefix(from, path)
      PROVE  /\ SubSeq(path, Len(from) + 1, Len(path)) \in Path
             /\ from \o SubSeq(path, Len(from) + 1, Len(path)) = path
  <2> DEFINE rest == SubSeq(path, Len(from) + 1, Len(path))
             both == from \o rest
  <2>1. Len(from) <= Len(path) /\ SubSeq(from, 1, Len(from)) = SubSeq(path, 1, Len(from))
    BY <1>3 DEF IsPrefix
  <2>2. \A i \in 1..Len(from) : from[i] = path[i]
    <3>1. SubSeq(from, 1, Len(from)) = from
      BY PrefixLemma, <1>1
    <3>2. \A i \in 1..Len(from) : SubSeq(path, 1, Len(from))[i] = path[i]
      BY <1>1, <2>1 DEF Path
    <3> QED
      BY <2>1, <3>1, <3>2
  <2>3. /\ rest \in Path /\ Len(rest) = Len(path) - Len(from)
        /\ \A i \in 1..Len(rest) : rest[i] = path[Len(from) + i]
    BY <1>1, <2>1 DEF Path
  <2> HIDE DEF rest
  <2>4. /\ both \in Path /\ Len(both) = Len(path)
        /\ \A i \in 1..Len(path) :
              both[i] = IF i <= Len(from) THEN from[i] ELSE rest[i - Len(from)]
    BY <1>1, <2>1, <2>3 DEF Path
  <2>5. ASSUME NEW i \in 1..Len(path) PROVE both[i] = path[i]
    <3>1. CASE i <= Len(from)
      BY <1>1, <2>2, <2>4, <3>1
    <3>2. CASE ~(i <= Len(from))
      <4>1. i - Len(from) \in 1..Len(rest) /\ Len(from) + (i - Len(from)) = i
        BY <1>1, <2>1, <2>3, <3>2
      <4> HIDE DEF both
      <4> QED
        BY <2>3, <2>4, <3>2, <4>1
    <3> QED
      BY <3>1, <3>2
  <2> HIDE DEF both
  <2>6. both = path
    BY <1>2, <2>4, <2>5
  <2> QED
    BY <2>3, <2>6 DEF both, rest
<1>4. from \o path \in Path
  BY DEF Path
<1>5. SubSeq(from \o path, Len(from) + 1, Len(from \o path)) = path
  <2> DEFINE both == from \o path
             rest == SubSeq(both, Len(from) + 1, Len(both))
  <2>1. /\ both \in Path /\ Len(both) = Len(from) + Len(path)
        /\ \A i \in 1..Len(path) : both[Len(from) + i] = path[i]
    BY <1>1 DEF Path
  <2> HIDE DEF both
  <2>2. /\ rest \in Path /\ Len(rest) = Len(path)
        /\ \A i \in 1..Len(path) : rest[i] = both[Len(from) + i]
    BY <1>1, <2>1 DEF Path
  <2> HIDE DEF rest
  <2>3. rest = path
    BY <1>2, <2>1, <2>2
  <2> QED
    BY <2>3 DEF rest, both
<1>6. IsPrefix(<<>>, path) /\ (IsPrefix(from, <<>>) => from = <<>>)
  BY <1>1 DEF IsPrefix, Path
<1> QED
  BY <1>3, <1>4, <1>5, <1>6

LEMMA DiskIntro ==
    ASSUME NEW fs, NEW D, D \subseteq Path, <<>> \in D, fs = [p \in D |-> fs[p]],
           \A p \in D : fs[p] \in Node, fs[<<>>].kind = "dir"
    PROVE  fs \in Disks
<1>1. fs \in [D -> Node] /\ DOMAIN fs = D
  OBVIOUS
<1> QED
  BY <1>1 DEF Disks, Kind

LEMMA PlaceLemma ==
    ASSUME NEW fs \in Disks, NEW path \in Path, path \notin DOMAIN fs, NEW node \in Node,
           NEW gs, gs = Put(fs, path, node)
    PROVE  gs \in Disks
<1> DEFINE D == DOMAIN fs \cup {path}
<1>1. D \subseteq Path /\ <<>> \in D /\ path # <<>>
  BY DiskLemma
<1>2. gs = [p \in D |-> gs[p]] /\ \A p \in D : gs[p] = IF p = path THEN node ELSE fs[p]
  BY DEF Put
<1>3. (\A p \in D : gs[p] \in Node) /\ gs[<<>>].kind = "dir"
  BY <1>1, <1>2, DiskLemma
<1> HIDE DEF D
<1> QED
  BY <1>1, <1>2, <1>3, DiskIntro

LEMMA MoveLemma ==
    ASSUME NEW from \in Path, NEW to \in Path, Move(from, to), disk \in Disks
    PROVE  disk' \in Disks
<1> DEFINE moved == {to \o SubSeq(p, Len(from) + 1, Len(p)) : p \in Below(from)}
           D == (DOMAIN disk \ Below(from)) \cup moved
           back(p) == from \o SubSeq(p, Len(to) + 1, Len(p))
<1>1. /\ from \in DOMAIN disk /\ to \notin DOMAIN disk /\ ~IsPrefix(from, to)
      /\ disk' = [p \in D |-> IF p \in moved THEN disk[back(p)] ELSE disk[p]]
  BY DEF Move, Vacant, Edit
<1>2. from # <<>> /\ to # <<>>
  BY <1>1, CutLemma, DiskLemma
<1>3. ASSUME NEW q \in moved PROVE q \in Path /\ q # <<>> /\ disk[back(q)] \in Node
  <2>1. PICK p \in Below(from) : q = to \o SubSeq(p, Len(from) + 1, Len(p))
    OBVIOUS
  <2>2. p \in DOMAIN disk /\ p \in Path /\ IsPrefix(from, p)
    BY DiskLemma DEF Below
  <2>3. PICK rest \in Path : rest = SubSeq(p, Len(from) + 1, Len(p)) /\ from \o rest = p
    <3>1. /\ SubSeq(p, Len(from) + 1, Len(p)) \in Path
          /\ from \o SubSeq(p, Len(from) + 1, Len(p)) = p
      BY <2>2, CutLemma
    <3> QED
      BY <3>1
  <2>4. q = to \o rest
    BY <2>1, <2>3
  <2>5. q \in Path /\ SubSeq(q, Len(to) + 1, Len(q)) = rest
    BY <2>4, CutLemma
  <2>6. q # <<>>
    BY <1>2, <2>4 DEF Path
  <2>7. back(q) = p
    BY <2>3, <2>5
  <2> QED
    BY <2>2, <2>5, <2>6, <2>7, DiskLemma
<1>4. D \subseteq Path /\ <<>> \in D
  <2>1. <<>> \notin Below(from)
    <3>1. <<>> \in Path
      BY DEF Path
    <3> QED
      BY <1>2, <3>1, CutLemma DEF Below
  <2> HIDE DEF moved
  <2> QED
    BY <1>3, <2>1, DiskLemma
<1>5. ASSUME NEW p \in D PROVE disk'[p] \in Node
  <2> HIDE DEF moved, back
  <2> QED
    BY <1>1, <1>3, DiskLemma
<1>6. disk'[<<>>].kind = "dir"
  <2> HIDE DEF moved, back
  <2> QED
    BY <1>1, <1>3, <1>4, DiskLemma
<1>7. disk' = [p \in D |-> disk'[p]]
  <2> HIDE DEF moved, back
  <2> QED
    BY <1>1
<1> HIDE DEF D
<1> QED
  BY <1>4, <1>5, <1>6, <1>7, DiskIntro

LEMMA DeleteLemma ==
    ASSUME NEW path \in Path, path # <<>>, Delete(path), disk \in Disks
    PROVE  disk' \in Disks
<1> DEFINE D == DOMAIN disk \ Below(path)
<1>1. disk' = [p \in D |-> disk[p]]
  BY DEF Delete, Edit
<1>2. <<>> \in D
  <2>1. <<>> \in Path
    BY DEF Path
  <2> QED
    BY <2>1, CutLemma, DiskLemma DEF Below
<1>3. D \subseteq Path /\ \A p \in D : disk'[p] \in Node /\ disk'[p] = disk[p]
  BY <1>1, DiskLemma
<1>4. disk' = [p \in D |-> disk'[p]] /\ disk'[<<>>].kind = "dir"
  BY <1>1, <1>2, <1>3, DiskLemma
<1> HIDE DEF D
<1> QED
  BY <1>2, <1>3, <1>4, DiskIntro

LEMMA LoosenLemma ==
    ASSUME Loosen, disk \in Disks
    PROVE  disk' \in Disks
<1>1. disk' = [p \in DOMAIN disk |-> IF disk[p].kind = "dir" THEN Dir(FALSE) ELSE disk[p]]
  BY DEF Loosen, Edit
<1>2. Dir(FALSE) \in Node /\ Dir(FALSE).kind = "dir"
  <2>1. <<>> \in Path
    BY DEF Path
  <2> QED
    BY <2>1 DEF Dir, Node
<1>3. \A p \in DOMAIN disk : disk'[p] \in Node
  BY <1>1, <1>2, DiskLemma
<1>4. DOMAIN disk \subseteq Path /\ <<>> \in DOMAIN disk /\ disk'[<<>>].kind = "dir"
  BY <1>1, <1>2, DiskLemma
<1>5. disk' = [p \in DOMAIN disk |-> disk'[p]]
  BY <1>1
<1> QED
  BY <1>3, <1>4, <1>5, DiskIntro

LEMMA EditLemma ==
    ASSUME NEW fs, Edit(fs), edits \in Nat
    PROVE  edits' \in Nat /\ edits' # edits /\ launched' = launched
BY DEF Edit

LEMMA UserLemma ==
    ASSUME User, disk \in Disks, edits \in Nat
    PROVE  disk' \in Disks /\ edits' \in Nat /\ edits' # edits /\ launched' = launched
<1>1. edits' \in Nat /\ edits' # edits /\ launched' = launched
  <2>1. ASSUME NEW path, Delete(path) PROVE \E fs : Edit(fs)
    BY <2>1 DEF Delete
  <2>2. ASSUME NEW path, NEW node, Place(path, node) PROVE \E fs : Edit(fs)
    BY <2>2 DEF Place
  <2>3. ASSUME NEW from, NEW to, Move(from, to) PROVE \E fs : Edit(fs)
    BY <2>3, Zenon DEF Move
  <2>4. ASSUME Loosen PROVE \E fs : Edit(fs)
    BY <2>4 DEF Loosen
  <2> QED
    BY <2>1, <2>2, <2>3, <2>4, EditLemma DEF User
<1>2. ASSUME NEW path \in Removable, Delete(path) PROVE disk' \in Disks
  BY <1>2, PlacesAssumption, DeleteLemma
<1>3. ASSUME NEW path \in Path, NEW node \in Node, Place(path, node) PROVE disk' \in Disks
  <2>1. path \notin DOMAIN disk /\ disk' = Put(disk, path, node)
    BY <1>3 DEF Place, Vacant, Edit
  <2> QED
    BY <2>1, PlaceLemma
<1>4. ASSUME NEW path \in Removable, Place(path, File) PROVE disk' \in Disks
  <2>1. path \in Path /\ File \in Node
    BY PlacesAssumption DEF File, Node, Path
  <2> QED
    BY <1>3, <1>4, <2>1
<1>5. ASSUME NEW link \in Linkable, Place(link[1], Link(link[2])) PROVE disk' \in Disks
  <2>1. link[1] \in Path /\ Link(link[2]) \in Node
    BY PlacesAssumption DEF Link, Node
  <2> QED
    BY <1>3, <1>5, <2>1
<1>6. ASSUME NEW move \in Movable, Move(move[1], move[2]) PROVE disk' \in Disks
  <2>1. move[1] \in Path /\ move[2] \in Path
    BY PlacesAssumption
  <2> QED
    BY <1>6, <2>1, MoveLemma
<1> QED
  BY <1>1, <1>2, <1>4, <1>5, <1>6, LoosenLemma DEF User

-----------------------------------------------------------------------------
(* The instances that were launched. *)

DiskInv == disk \in Disks /\ edits \in Nat

(* An instance has the identity that its root's directory gives.           *)
LaunchedInv ==
    \A n \in launched :
        /\ n.root \in Path /\ n.profile \in Profile
        /\ n.ids = DeriveProfilePaths(n.root, n.profile)

LEMMA LaunchLemma ==
    ASSUME NEW p \in Profile, Launch(p), DiskInv
    PROVE  LET root == EvalSymlinks(disk', Root) IN
           /\ Grown(disk, disk', Places(root, p)) /\ edits' = edits
           /\ \A n \in launched' \ launched :
                 /\ n.root = root /\ root \in Path /\ n.profile = p
                 /\ n.ids = DeriveProfilePaths(root, p)
                 /\ Private(disk', root)
                 /\ \A i \in 1..4 : Private(disk', Managed(root, p)[i])
<1>1. PICK done \in {PrepareProfilePaths(disk, p)} :
          /\ disk' = done.fs /\ edits' = edits
          /\ launched' = launched \cup
                 (IF done.ids = Missing THEN {}
                  ELSE {[profile |-> p, root |-> done.root, ids |-> done.ids]})
  BY DEF Launch
<1>2. /\ done = PrepareProfilePaths(disk, p)
      /\ disk' = done.fs /\ edits' = edits
      /\ launched' = launched \cup
             (IF done.ids = Missing THEN {}
              ELSE {[profile |-> p, root |-> done.root, ids |-> done.ids]})
  BY <1>1
<1>3. PICK root : root = EvalSymlinks(disk', Root)
  OBVIOUS
<1>4. Prepared(disk, done, root, p)
  BY <1>2, <1>3, PrepareLemma DEF DiskInv
<1>5. Grown(disk, disk', Places(root, p))
  BY <1>2, <1>4 DEF Prepared
<1>6. ASSUME NEW n \in launched' \ launched
      PROVE  /\ n.root = root /\ root \in Path /\ n.profile = p
             /\ n.ids = DeriveProfilePaths(root, p)
             /\ Private(disk', root)
             /\ \A i \in 1..4 : Private(disk', Managed(root, p)[i])
  <2>1. done.ids # Missing /\ n = [profile |-> p, root |-> done.root, ids |-> done.ids]
    BY <1>2
  <2>2. /\ done.root = root /\ root \in Path /\ Private(disk', root)
        /\ \A i \in 1..4 : Private(disk', Managed(root, p)[i])
        /\ done.ids = DeriveProfilePaths(root, p)
    BY <1>2, <1>4, <2>1 DEF Prepared
  <2> QED
    BY <2>1, <2>2
<1> QED
  BY <1>2, <1>3, <1>5, <1>6

LEMMA InitInv == Init => DiskInv /\ LaunchedInv
<1> SUFFICES ASSUME Init PROVE DiskInv /\ LaunchedInv
  OBVIOUS
<1>1. Disk \in Disks
  BY DiskAssumption DEF Disks, Kind
<1> QED
  BY <1>1 DEF Init, DiskInv, LaunchedInv

LEMMA NextInv == DiskInv /\ LaunchedInv /\ [Next]_vars => DiskInv' /\ LaunchedInv'
<1> SUFFICES ASSUME DiskInv, LaunchedInv, [Next]_vars PROVE DiskInv' /\ LaunchedInv'
  OBVIOUS
<1>1. ASSUME NEW p \in Profile, Launch(p) PROVE DiskInv' /\ LaunchedInv'
  <2>1. PICK root : root = EvalSymlinks(disk', Root)
    OBVIOUS
  <2>2. /\ Grown(disk, disk', Places(root, p)) /\ edits' = edits
        /\ \A n \in launched' \ launched :
              /\ n.root = root /\ root \in Path /\ n.profile = p
              /\ n.ids = DeriveProfilePaths(root, p)
    BY <1>1, <2>1, LaunchLemma
  <2>3. DiskInv'
    BY <2>2 DEF DiskInv, Grown
  <2>4. LaunchedInv'
    BY <2>2 DEF LaunchedInv
  <2> QED
    BY <2>3, <2>4
<1>2. CASE User
  BY <1>2, UserLemma DEF DiskInv, LaunchedInv
<1>3. CASE UNCHANGED vars
  BY <1>3 DEF vars, DiskInv, LaunchedInv
<1> QED
  BY <1>1, <1>2, <1>3 DEF Next

LEMMA PathsInv == Spec => [](DiskInv /\ LaunchedInv)
  BY InitInv, NextInv, PTL DEF Spec

(* Stop and list look for an instance where it was launched, or refuse, as *)
(* long as the root stands for the directory it stood for then; also once  *)
(* the root is gone, when no link led to it: on every disk, with every     *)
(* edit of the user between the commands (ResolveProfilePaths).            *)
THEOREM IdentityIsKept == Spec => []IdentityKept
<1>1. ASSUME DiskInv, LaunchedInv PROVE IdentityKept
  <2> SUFFICES ASSUME NEW n \in launched,
                      \/ EvalSymlinks(disk, Root) = n.root
                      \/ Lstat(disk, Root) = Missing /\ n.root = Root
               PROVE  ResolveProfilePaths(disk, n.profile) \in {Broken, n.ids}
    BY DEF IdentityKept
  <2>1. n.root \in Path /\ n.ids = DeriveProfilePaths(n.root, n.profile)
    BY <1>1 DEF LaunchedInv
  <2>2. CASE Lstat(disk, Root) = Missing
    <3>1. EvalSymlinks(disk, Root) = Missing
      BY <1>1, <2>2, LstatMissing, PlacesAssumption DEF DiskInv
    <3>2. n.root = Root
      BY <2>1, <3>1, FailuresAssumption
    <3>3. ResolveProfilePaths(disk, n.profile) = DeriveProfilePaths(Root, n.profile)
      BY <2>2 DEF ResolveProfilePaths
    <3> QED
      BY <2>1, <3>2, <3>3
  <2>3. CASE Lstat(disk, Root) # Missing
    <3>1. EvalSymlinks(disk, Root) = n.root
      BY <2>3
    <3>2. ResolveProfilePaths(disk, n.profile) \in
              {DeriveProfilePaths(EvalSymlinks(disk, Root), n.profile), Broken}
      BY <2>3 DEF ResolveProfilePaths
    <3> QED
      BY <2>1, <3>1, <3>2
  <2> QED
    BY <2>2, <2>3
<1> QED
  BY <1>1, PathsInv, PTL

-----------------------------------------------------------------------------
(* Two instances' roots are the same directory, or neither is in the other.*)
RootsApart ==
    \A m, n \in launched : m.root = n.root \/ ~IsPrefix(m.root, n.root)

LEMMA DirectoryLemma ==
    ASSUME LaunchedInv, NEW n \in launched, NEW f \in {n.ids.home, n.ids.data}
    PROVE  \E x \in Name : f = Append(Append(Append(n.root, "profiles"), n.profile), x)
<1>1. n.root \in Path /\ n.profile \in Profile /\ n.ids = DeriveProfilePaths(n.root, n.profile)
  BY DEF LaunchedInv
<1>2. n.ids = [home |-> Append(Append(Append(n.root, "profiles"), n.profile), "codex-home"),
               data |-> Append(Append(Append(n.root, "profiles"), n.profile), "chatgpt-user-data")]
  BY <1>1, ManagedLemma
<1> QED
  BY <1>2 DEF Name

LEMMA ApartLemma ==
    ASSUME NEW r \in Path, NEW s \in Path, r = s \/ ~IsPrefix(r, s),
           NEW p \in Name, NEW q \in Name, p # q, NEW x \in Name, NEW y \in Name,
           NEW d, d = Append(Append(Append(r, "profiles"), p), x),
           NEW e, e = Append(Append(Append(s, "profiles"), q), y)
    PROVE  ~IsPrefix(d, e)
<1> SUFFICES ASSUME IsPrefix(d, e) PROVE FALSE
  OBVIOUS
<1>1. /\ Len(r) \in Nat /\ d \in Path /\ Len(d) = Len(r) + 3 /\ d[Len(r) + 2] = p
      /\ \A i \in 1..Len(r) : d[i] = r[i]
  BY DEF Path, Name
<1>2. /\ Len(s) \in Nat /\ e \in Path /\ Len(e) = Len(s) + 3 /\ e[Len(s) + 2] = q
      /\ \A i \in 1..Len(s) : e[i] = s[i]
  BY DEF Path, Name
<1>3. Len(d) <= Len(e) /\ SubSeq(d, 1, Len(d)) = SubSeq(e, 1, Len(d))
  BY DEF IsPrefix
<1>4. SubSeq(d, 1, Len(d)) = d
  <2>1. Len(d) \in 0..Len(d)
    BY <1>1
  <2> QED
    BY <1>1, <2>1, PrefixLemma
<1>5. \A i \in 1..Len(d) : SubSeq(e, 1, Len(d))[i] = e[i]
  BY <1>1, <1>2, <1>3 DEF Path
<1>6. \A i \in 1..Len(d) : d[i] = e[i]
  BY <1>3, <1>4, <1>5
<1>7. Len(r) <= Len(s) /\ \A i \in 1..Len(r) : r[i] = s[i]
  BY <1>1, <1>2, <1>3, <1>6
<1>8. SubSeq(r, 1, Len(r)) = SubSeq(s, 1, Len(r))
  <2>1. /\ SubSeq(r, 1, Len(r)) \in Path /\ Len(SubSeq(r, 1, Len(r))) = Len(r)
        /\ \A i \in 1..Len(r) : SubSeq(r, 1, Len(r))[i] = r[i]
    BY <1>1 DEF Path
  <2>2. /\ SubSeq(s, 1, Len(r)) \in Path /\ Len(SubSeq(s, 1, Len(r))) = Len(r)
        /\ \A i \in 1..Len(r) : SubSeq(s, 1, Len(r))[i] = s[i]
    BY <1>1, <1>2, <1>7 DEF Path
  <2> QED
    BY <1>7, <2>1, <2>2, SamePath
<1>9. r = s
  BY <1>7, <1>8 DEF IsPrefix
<1>10. Len(r) + 2 \in 1..Len(d)
  BY <1>1
<1> QED
  BY <1>1, <1>2, <1>6, <1>9, <1>10

(* Two profiles share no directory and neither's is inside the other's,    *)
(* while no root that instances were launched under lies in another: then  *)
(* no link of the user brings two profiles' directories together           *)
(* (PrepareProfilePaths).                                                  *)
THEOREM ProfilesStayApart == Spec => [](RootsApart => IdentitiesDisjoint)
<1>1. ASSUME LaunchedInv, RootsApart PROVE IdentitiesDisjoint
  <2> SUFFICES ASSUME NEW m \in launched, NEW n \in launched, m.profile # n.profile,
                      NEW d \in {m.ids.home, m.ids.data}, NEW e \in {n.ids.home, n.ids.data}
               PROVE  ~IsPrefix(d, e)
    BY DEF IdentitiesDisjoint
  <2>1. /\ m.root \in Path /\ m.profile \in Profile
        /\ m.ids = DeriveProfilePaths(m.root, m.profile)
        /\ n.root \in Path /\ n.profile \in Profile
        /\ n.ids = DeriveProfilePaths(n.root, n.profile)
        /\ m.root = n.root \/ ~IsPrefix(m.root, n.root)
    BY <1>1 DEF LaunchedInv, RootsApart
  <2>2. PICK x \in Name : d = Append(Append(Append(m.root, "profiles"), m.profile), x)
    BY <1>1, DirectoryLemma
  <2>3. PICK y \in Name : e = Append(Append(Append(n.root, "profiles"), n.profile), y)
    BY <1>1, DirectoryLemma
  <2>4. m.profile \in Name /\ n.profile \in Name
    BY <2>1, PlacesAssumption
  <2> QED
    BY <2>1, <2>2, <2>3, <2>4, ApartLemma
<1> QED
  BY <1>1, PathsInv, PTL

-----------------------------------------------------------------------------
(* An instance is launched only when the directories from the root down    *)
(* are there, private, and reached without a link (EnsureDirectoryWithin). *)
THEOREM DirectoriesArePrivate == Spec => LaunchedPrivate
<1>1. ASSUME DiskInv, [Next]_vars, NEW n \in launched' \ launched
      PROVE  /\ disk'[n.root] = Dir(TRUE)
             /\ \A i \in 1..4 : disk'[Managed(n.root, n.profile)[i]] = Dir(TRUE)
  <2>1. PICK p \in Profile : Launch(p)
    <3>1. ~User /\ ~UNCHANGED vars
      BY <1>1, UserLemma DEF DiskInv, vars
    <3> QED
      BY <1>1, <3>1 DEF Next
  <2>2. /\ n.profile = p /\ Private(disk', n.root)
        /\ \A i \in 1..4 : Private(disk', Managed(n.root, p)[i])
    BY <1>1, <2>1, LaunchLemma
  <2> QED
    BY <2>2 DEF Private
<1>2. DiskInv /\ [Next]_vars =>
          [\A n \in launched' \ launched :
              /\ disk'[n.root] = Dir(TRUE)
              /\ \A i \in 1..4 : disk'[Managed(n.root, n.profile)[i]] = Dir(TRUE)]_vars
  BY <1>1
<1> QED
  BY <1>2, PathsInv, PTL DEF Spec, LaunchedPrivate

(* A launch of a profile, also one that fails half way, touches nothing on *)
(* the disk but the missing part of the way to the root, the root and the  *)
(* four directories of that very profile (MkdirAll, EnsureDirectoryWithin).*)
THEOREM LaunchTouchesItsOwn == Spec => OnlyOwnTouched
<1> DEFINE Own(p) ==
        LET root == EvalSymlinks(disk', Root) IN
        \A q \in Changed :
            \/ q \notin DOMAIN disk /\ \E i \in 1..Len(Root) :
                   q = EvalSymlinks(disk', SubSeq(Root, 1, i))
            \/ q = root \/ \E i \in 1..4 : q = Managed(root, p)[i]
<1>1. ASSUME NEW p \in Profile, Launch(p), DiskInv PROVE Own(p)
  <2>1. PICK root : root = EvalSymlinks(disk', Root)
    OBVIOUS
  <2>2. Grown(disk, disk', Places(root, p))
    BY <1>1, <2>1, LaunchLemma
  <2> QED
    BY <2>1, <2>2 DEF Grown, Places, Changed
<1>2. DiskInv /\ [Next]_vars => [\A p \in Profile : Launch(p) => Own(p)]_vars
  <2> HIDE DEF Own
  <2> QED
    BY <1>1
<1> QED
  BY <1>2, PathsInv, PTL DEF Spec, OnlyOwnTouched

=============================================================================
