-------------------------- MODULE InvocationProofs --------------------------
(***************************************************************************)
(* What holds of the parts of a run of cpr that nothing interleaves with,  *)
(* for inputs of any length: the command line, the configured paths, the   *)
(* environment of a command, the argv of a process.  Each part reads a     *)
(* sequence by a recursive function.                                       *)
(***************************************************************************)
EXTENDS Invocation, WellFoundedInduction, SequenceTheorems, TLAPS

-----------------------------------------------------------------------------
(* Induction and recursion, with sets and functions for the operators of   *)
(* the library's theorems.                                                 *)

LEMMA SetInduction ==
    ASSUME NEW S, 0 \in S, \A n \in Nat : n \in S => n + 1 \in S
    PROVE  Nat \subseteq S
<1> DEFINE Bad == Nat \ S
<1> SUFFICES ASSUME Bad # {} PROVE FALSE
  OBVIOUS
<1>1. \A m, n \in Nat : m < n => <<m, n>> \in OpToRel(<, Nat)
  BY DEF OpToRel
<1>2. \E R : /\ IsWellFoundedOn(R, Nat)
             /\ \A m, n \in Nat : m < n => <<m, n>> \in R
  BY <1>1, NatLessThanWellFounded, Zenon
<1>3. PICK R : /\ IsWellFoundedOn(R, Nat)
               /\ \A m, n \in Nat : m < n => <<m, n>> \in R
  BY <1>2
<1>4. Bad \subseteq Nat /\ IsWellFoundedOn(R, Nat)
  BY <1>3
<1>5. PICK n \in Bad : \A m \in Bad : ~ (<<m, n>> \in R)
  <2> HIDE DEF Bad
  <2> QED
    BY <1>4, WFMin
<1>6. n \in Nat /\ n # 0
  BY <1>5
<1>7. n - 1 \in Nat /\ n - 1 < n /\ (n - 1) + 1 = n
  BY <1>6
<1>8. n - 1 \notin S
  BY <1>5, <1>6, <1>7
<1> QED
  BY <1>3, <1>5, <1>7, <1>8

(* A function on an initial segment may be defined by its next value.      *)
Solves(f, n, A, a, G) ==
    /\ f \in [0..n -> A] /\ f[0] = a
    /\ \A k \in 1..n : f[k] = G[<<k, f[k - 1]>>]

LEMMA Recursion ==
    ASSUME NEW N \in Nat, NEW A, NEW a \in A, NEW G \in [(1..N) \X A -> A]
    PROVE  \E f : Solves(f, N, A, a, G)
<1> DEFINE S == {n \in Nat : n <= N => \E f : Solves(f, n, A, a, G)}
<1>1. 0 \in S
  <2>1. Solves([k \in 0..0 |-> a], 0, A, a, G)
    BY DEF Solves
  <2> QED
    BY <2>1
<1>2. \A n \in Nat : n \in S => n + 1 \in S
  <2> SUFFICES ASSUME NEW n \in Nat, n + 1 <= N, NEW f, Solves(f, n, A, a, G)
               PROVE  \E g : Solves(g, n + 1, A, a, G)
    OBVIOUS
  <2> DEFINE value == G[<<n + 1, f[n]>>]
             g == [k \in 0..(n + 1) |-> IF k = n + 1 THEN value ELSE f[k]]
  <2>1. value \in A
    <3>1. n + 1 \in 1..N /\ f[n] \in A
      BY DEF Solves
    <3> QED
      BY <3>1
  <2>2. g \in [0..(n + 1) -> A] /\ g[0] = a
    BY <2>1 DEF Solves
  <2>3. ASSUME NEW k \in 1..(n + 1) PROVE g[k] = G[<<k, g[k - 1]>>]
    <3>1. k - 1 \in 0..n /\ g[k - 1] = f[k - 1]
      OBVIOUS
    <3>2. CASE k = n + 1
      <4>1. k - 1 = n /\ g[k] = value
        BY <3>2
      <4> HIDE DEF g
      <4> QED
        BY <3>1, <3>2, <4>1
    <3>3. CASE k # n + 1
      <4>1. k \in 1..n /\ g[k] = f[k]
        BY <3>3
      <4> QED
        BY <3>1, <4>1 DEF Solves
    <3> QED
      BY <3>2, <3>3
  <2>4. Solves(g, n + 1, A, a, G)
    BY <2>2, <2>3 DEF Solves
  <2> QED
    BY <2>4
<1>3. N \in S
  <2> HIDE DEF S
  <2> QED
    BY <1>1, <1>2, SetInduction
<1>4. PICK f : Solves(f, N, A, a, G)
  BY <1>3
<1> QED
  BY <1>4

(* A sequence is read from left to right: f is what there is after each    *)
(* element, and H the step.                                                *)
Folds(f, s, A, a, H) ==
    /\ f \in [0..Len(s) -> A] /\ f[0] = a
    /\ \A k \in 1..Len(s) : f[k] = H[<<f[k - 1], s[k]>>]

LEMMA FoldExists ==
    ASSUME NEW S, NEW s \in Seq(S), NEW A, NEW a \in A, NEW H \in [A \X S -> A]
    PROVE  \E f : Folds(f, s, A, a, H)
<1> DEFINE N == Len(s)
           G == [q \in (1..N) \X A |-> H[<<q[2], s[q[1]]>>]]
<1>1. N \in Nat /\ \A k \in 1..N : s[k] \in S
  OBVIOUS
<1>2. G \in [(1..N) \X A -> A]
  <2> SUFFICES ASSUME NEW q \in (1..N) \X A PROVE H[<<q[2], s[q[1]]>>] \in A
    OBVIOUS
  <2>1. <<q[2], s[q[1]]>> \in A \X S
    BY <1>1
  <2> QED
    BY <2>1
<1>3. PICK f : Solves(f, N, A, a, G)
  <2> HIDE DEF N, G
  <2> QED
    BY <1>1, <1>2, Recursion
<1>4. ASSUME NEW k \in 1..N PROVE f[k] = H[<<f[k - 1], s[k]>>]
  <2>1. k - 1 \in 0..N
    BY <1>1
  <2>2. f[k - 1] \in A
    BY <1>3, <2>1 DEF Solves
  <2>3. <<k, f[k - 1]>> \in (1..N) \X A
    BY <2>2
  <2>4. G[<<k, f[k - 1]>>] = H[<<f[k - 1], s[k]>>]
    BY <2>3
  <2> QED
    BY <1>3, <2>4 DEF Solves
<1> QED
  BY <1>3, <1>4 DEF Solves, Folds

LEMMA FoldAppend ==
    ASSUME NEW S, NEW s \in Seq(S), NEW e \in S, NEW A, NEW a, NEW H,
           NEW f, Folds(f, s, A, a, H), NEW g, Folds(g, Append(s, e), A, a, H)
    PROVE  g[Len(Append(s, e))] = H[<<f[Len(s)], e>>]
<1> DEFINE N == Len(s)
           Same == {k \in Nat : k <= N => f[k] = g[k]}
<1>1. /\ N \in Nat /\ Len(Append(s, e)) = N + 1 /\ Append(s, e)[N + 1] = e
      /\ \A k \in 1..N : Append(s, e)[k] = s[k]
  OBVIOUS
<1>2. 0 \in Same
  BY DEF Folds
<1>3. \A k \in Nat : k \in Same => k + 1 \in Same
  <2> SUFFICES ASSUME NEW k \in Nat, k \in Same, k + 1 <= N PROVE f[k + 1] = g[k + 1]
    OBVIOUS
  <2>1. /\ k + 1 \in 1..N /\ k + 1 \in 1..(N + 1) /\ (k + 1) - 1 = k /\ f[k] = g[k]
    BY <1>1
  <2>2. f[k + 1] = H[<<f[k], s[k + 1]>>] /\ g[k + 1] = H[<<g[k], s[k + 1]>>]
    BY <1>1, <2>1 DEF Folds
  <2> QED
    BY <2>1, <2>2
<1>4. N \in Same
  <2> HIDE DEF Same
  <2> QED
    BY <1>1, <1>2, <1>3, SetInduction
<1>5. f[N] = g[N] /\ N + 1 \in 1..(N + 1) /\ (N + 1) - 1 = N
  BY <1>1, <1>4
<1> QED
  BY <1>1, <1>5 DEF Folds

(* A recursive definition by such steps folds, once its values are typed.  *)
LEMMA FoldTyped ==
    ASSUME NEW S, NEW s \in Seq(S), NEW A, NEW a \in A, NEW H \in [A \X S -> A],
           NEW U, NEW f \in [0..Len(s) -> U], f[0] = a,
           \A k \in 1..Len(s) : f[k - 1] \in A => f[k] = H[<<f[k - 1], s[k]>>]
    PROVE  Folds(f, s, A, a, H)
<1> DEFINE N == Len(s)
           Typed == {k \in Nat : k <= N => f[k] \in A}
<1>1. N \in Nat /\ \A k \in 1..N : s[k] \in S
  OBVIOUS
<1>2. 0 \in Typed
  OBVIOUS
<1>3. ASSUME NEW k \in Nat, k \in Typed PROVE k + 1 \in Typed
  <2> SUFFICES ASSUME k + 1 <= N PROVE f[k + 1] \in A
    OBVIOUS
  <2>1. k + 1 \in 1..N /\ (k + 1) - 1 = k /\ f[k] \in A
    BY <1>1, <1>3
  <2>2. <<f[k], s[k + 1]>> \in A \X S
    BY <1>1, <2>1
  <2> QED
    BY <2>1, <2>2
<1>4. Nat \subseteq Typed
  <2> HIDE DEF Typed
  <2> QED
    BY <1>2, <1>3, SetInduction
<1>5. \A k \in 0..N : f[k] \in A
  BY <1>1, <1>4
<1>6. \A k \in 1..N : k - 1 \in 0..N
  BY <1>1
<1>7. f \in [0..N -> A]
  BY <1>5
<1> QED
  BY <1>5, <1>6, <1>7 DEF Folds

LEMMA SequenceInduction ==
    ASSUME NEW S, NEW Q, <<>> \in Q,
           \A s \in Seq(S), e \in S : s \in Q => Append(s, e) \in Q
    PROVE  Seq(S) \subseteq Q
<1> DEFINE Short == {n \in Nat : \A s \in Seq(S) : Len(s) = n => s \in Q}
<1>1. 0 \in Short
  BY EmptySeq
<1>2. \A n \in Nat : n \in Short => n + 1 \in Short
  <2> SUFFICES ASSUME NEW n \in Nat, n \in Short,
                      NEW s \in Seq(S), Len(s) = n + 1
               PROVE  s \in Q
    OBVIOUS
  <2>1. s # <<>>
    OBVIOUS
  <2>2. PICK t \in Seq(S), e \in S : s = Append(t, e)
    BY <2>1, SequenceEmptyOrAppend
  <2>3. Len(t) = n
    BY <2>2
  <2> QED
    BY <2>2, <2>3
<1>3. Nat \subseteq Short
  <2> HIDE DEF Short
  <2> QED
    BY <1>1, <1>2, SetInduction
<1> QED
  BY <1>3

-----------------------------------------------------------------------------
(* The command line. *)

(* A word is a path when --config stands before it and is none itself.     *)
PathsOf(a, path) ==
    \A i \in 1..Len(a) : path[i] <=> (i > 1 /\ a[i - 1] = "--config" /\ ~path[i - 1])

LEMMA IsPathLemma ==
    ASSUME Len(args) \in Nat
    PROVE  PathsOf(args, Line!IsPath)
<1> DEFINE N == Len(args)
           B == BOOLEAN
           none == FALSE
           Behind(i, b) == i > 1 /\ args[i - 1] = "--config" /\ ~b
           G == [q \in (1..N) \X B |-> Behind(q[1], q[2])]
           Step(f, i) == i > 1 /\ args[i - 1] = "--config" /\ ~f[i - 1]
<1>1. \A i, b : Behind(i, b) \in B
  OBVIOUS
<1>2. G \in [(1..N) \X B -> B]
  BY <1>1
<1>3. PICK f : Solves(f, N, B, none, G)
  <2>1. N \in Nat /\ none \in B
    OBVIOUS
  <2> HIDE DEF N, B, G, none
  <2> QED
    BY <1>2, <2>1, Recursion
<1>4. \A i \in 1..N : f[i] = Step(f, i)
  <2> SUFFICES ASSUME NEW i \in 1..N PROVE f[i] = Step(f, i)
    OBVIOUS
  <2>1. i - 1 \in 0..N
    OBVIOUS
  <2>2. f[i - 1] \in B
    BY <2>1, <1>3 DEF Solves
  <2>3. G[<<i, f[i - 1]>>] = Behind(i, f[i - 1])
    BY <2>2
  <2> QED
    BY <1>3, <2>3 DEF Solves
<1>5. f = [i \in 0..N |-> Step(f, i)]
  <2>1. f[0] = Step(f, 0)
    BY <1>3 DEF Solves
  <2>2. \A i \in 0..N : i = 0 \/ i \in 1..N
    OBVIOUS
  <2>3. \A i \in 0..N : f[i] = Step(f, i)
    BY <2>1, <2>2, <1>4
  <2> HIDE DEF Step
  <2> QED
    BY <2>3, <1>3 DEF Solves
<1>6. Line!IsPath = CHOOSE g : g = [i \in 0..N |-> Step(g, i)]
  BY DEF Line!IsPath
<1>7. Line!IsPath = [i \in 0..N |-> Step(Line!IsPath, i)]
  <2> HIDE DEF Step
  <2> QED
    BY <1>5, <1>6
<1> QED
  <2>1. \A i \in 1..N : Line!IsPath[i] = Step(Line!IsPath, i)
    <3> HIDE DEF Step
    <3> QED
      BY <1>7
  <2> QED
    BY <2>1 DEF PathsOf

(* What the words before n say, given which words are paths: the profile,  *)
(* whether --force was given, and the path given last.                     *)
PlainWords(a, path, n) == {a[i] : i \in {j \in 1..(n - 1) : ~path[j]}}

PathsGiven(a, path, n) == {i \in 1..(n - 1) : path[i] \/ a[i] = "--config=c"}

PathAt(a, path, i) == IF path[i] THEN a[i] ELSE "c"

ProfileRead(a, path, n, p) ==
    (PlainWords(a, path, n) \ Line!Dashed) \ {Line!Empty} = {p} \ {Line!Empty}

ConfigRead(a, path, n, c) ==
    IF PathsGiven(a, path, n) = {} THEN c = Line!Empty
    ELSE \E i \in PathsGiven(a, path, n) :
            /\ \A j \in PathsGiven(a, path, n) : j <= i
            /\ c = PathAt(a, path, i) /\ c # Line!Empty

(* So far the arguments were read as they are meant.                       *)
ReadRight(a, path, cmd, n, p, f, c) ==
    /\ n \in 1..(Len(a) + 1)
    /\ n <= Len(a) => ~path[n]
    /\ ProfileRead(a, path, n, p)
    /\ f <=> (cmd = "stop" /\ "--force" \in PlainWords(a, path, n))
    /\ ConfigRead(a, path, n, c)

(* The inductive invariant of the command line.                            *)
LineInv ==
    /\ args \in Seq(Words)
    /\ pc \in {"choose", "parse", "load", "serve", "done"}
    /\ pc = "choose" => next = 1 /\ profile = Line!Empty /\ ~force /\ config = Line!Empty
    /\ pc # "choose" /\ pc # "done" => command \in Line!Commands
    /\ pc \in {"parse", "load", "serve"} /\ command # "validate" =>
           ReadRight(args, Line!IsPath, command, next, profile, force, config)
    /\ pc \in {"load", "serve"} /\ command # "validate" =>
           next = Len(args) + 1 /\ (Line!TakesProfile => profile # Line!Empty)
    /\ pc = "serve" => /\ command # "validate" /\ Line!Loaded # Unreadable
                       /\ Line!TakesProfile => profile \in Line!Loaded
    /\ pc # "done" => call = NoCall
    /\ Line!CallIsMeant

(* One more word that is not a path.                                       *)
LEMMA WordLemma ==
    ASSUME NEW S, NEW a \in Seq(S), NEW path, PathsOf(a, path),
           NEW n \in 1..Len(a), ~path[n]
    PROVE  /\ n + 1 \in 1..(Len(a) + 1)
           /\ PlainWords(a, path, n + 1) = PlainWords(a, path, n) \cup {a[n]}
           /\ PathsGiven(a, path, n + 1) =
                  PathsGiven(a, path, n) \cup (IF a[n] = "--config=c" THEN {n} ELSE {})
           /\ n + 1 <= Len(a) => (path[n + 1] <=> a[n] = "--config")
<1>1. n \in Nat /\ Len(a) \in Nat
  OBVIOUS
<1>2. 1..((n + 1) - 1) = 1..(n - 1) \cup {n}
  BY <1>1
<1>3. n + 1 <= Len(a) => (path[n + 1] <=> a[n] = "--config")
  <2> SUFFICES ASSUME n + 1 <= Len(a) PROVE path[n + 1] <=> a[n] = "--config"
    OBVIOUS
  <2>1. n + 1 \in 1..Len(a) /\ n + 1 > 1 /\ (n + 1) - 1 = n
    BY <1>1
  <2> QED
    BY <2>1 DEF PathsOf
<1>4. PlainWords(a, path, n + 1) = PlainWords(a, path, n) \cup {a[n]}
  BY <1>2 DEF PlainWords
<1>5. PathsGiven(a, path, n + 1) =
          PathsGiven(a, path, n) \cup (IF a[n] = "--config=c" THEN {n} ELSE {})
  BY <1>2 DEF PathsGiven
<1> QED
  BY <1>1, <1>3, <1>4, <1>5

(* --config and the path behind it.                                        *)
LEMMA PathLemma ==
    ASSUME NEW S, NEW a \in Seq(S), NEW path, PathsOf(a, path),
           NEW n \in 1..Len(a), ~path[n], a[n] = "--config", n < Len(a)
    PROVE  /\ n + 2 \in 1..(Len(a) + 1)
           /\ path[n + 1]
           /\ PlainWords(a, path, n + 2) = PlainWords(a, path, n) \cup {"--config"}
           /\ PathsGiven(a, path, n + 2) = PathsGiven(a, path, n) \cup {n + 1}
           /\ n + 2 <= Len(a) => ~path[n + 2]
<1>1. n \in Nat /\ Len(a) \in Nat /\ n + 1 \in 1..Len(a)
  OBVIOUS
<1>2. path[n + 1]
  BY <1>1, WordLemma
<1>3. 1..((n + 2) - 1) = 1..(n - 1) \cup {n, n + 1}
  BY <1>1
<1>4. n + 2 <= Len(a) => ~path[n + 2]
  <2> SUFFICES ASSUME n + 2 <= Len(a) PROVE ~path[n + 2]
    OBVIOUS
  <2>1. n + 2 \in 1..Len(a) /\ (n + 2) - 1 = n + 1
    BY <1>1
  <2> QED
    BY <1>2, <2>1 DEF PathsOf
<1>5. PlainWords(a, path, n + 2) = PlainWords(a, path, n) \cup {"--config"}
  BY <1>2, <1>3 DEF PlainWords
<1>6. PathsGiven(a, path, n + 2) = PathsGiven(a, path, n) \cup {n + 1}
  BY <1>2, <1>3 DEF PathsGiven
<1> QED
  BY <1>1, <1>2, <1>4, <1>5, <1>6

(* The path that comes last counts.                                        *)
LEMMA LastPathLemma ==
    ASSUME NEW a, NEW path, NEW n \in Nat, NEW m \in Nat, NEW i \in Nat, n <= i,
           PathsGiven(a, path, m) = PathsGiven(a, path, n) \cup {i},
           NEW c, c = PathAt(a, path, i), c # Line!Empty
    PROVE  ConfigRead(a, path, m, c)
<1>1. PathsGiven(a, path, n) \subseteq 1..(n - 1)
  BY Zenon DEF PathsGiven
<1>2. \A j \in 1..(n - 1) : j <= i
  OBVIOUS
<1>3. i \in PathsGiven(a, path, m) /\ \A j \in PathsGiven(a, path, m) : j <= i
  BY <1>1, <1>2
<1> QED
  BY <1>3 DEF ConfigRead

LEMMA WordsApart ==
    /\ {"--force", "--json", "--config", "--config=c"} \subseteq Line!Dashed
    /\ Line!Empty \notin Line!Dashed
    /\ "c" # Line!Empty
<1>1. Line!Empty # "--force" /\ Line!Empty # "--json" /\ Line!Empty # "--config"
  BY Zenon DEF Line!Empty
<1>2. /\ Line!Empty # "--config=" /\ Line!Empty # "--config=c"
      /\ Line!Empty # "-x" /\ Line!Empty # "c"
  BY Zenon DEF Line!Empty
<1> QED
  BY <1>1, <1>2 DEF Line!Dashed

(* A word that is neither a path nor gives one.                            *)
LEMMA ReadPlainLemma ==
    ASSUME NEW S, NEW a \in Seq(S), NEW path, NEW cmd, PathsOf(a, path),
           NEW p, NEW f, NEW c, NEW n, ReadRight(a, path, cmd, n, p, f, c), n <= Len(a),
           a[n] \notin {"--config", "--config=c"},
           NEW q, NEW g,
           ProfileRead(a, path, n + 1, q),
           g <=> (f \/ (cmd = "stop" /\ a[n] = "--force"))
    PROVE  ReadRight(a, path, cmd, n + 1, q, g, c)
<1>1. n \in 1..Len(a) /\ ~path[n]
  BY DEF ReadRight
<1>2. /\ n + 1 \in 1..(Len(a) + 1)
      /\ PlainWords(a, path, n + 1) = PlainWords(a, path, n) \cup {a[n]}
      /\ PathsGiven(a, path, n + 1) = PathsGiven(a, path, n)
      /\ n + 1 <= Len(a) => ~path[n + 1]
  <2>1. /\ n + 1 \in 1..(Len(a) + 1)
        /\ PlainWords(a, path, n + 1) = PlainWords(a, path, n) \cup {a[n]}
        /\ PathsGiven(a, path, n + 1) =
              PathsGiven(a, path, n) \cup (IF a[n] = "--config=c" THEN {n} ELSE {})
        /\ n + 1 <= Len(a) => (path[n + 1] <=> a[n] = "--config")
    BY <1>1, WordLemma
  <2> QED
    BY <2>1
<1>3. ConfigRead(a, path, n + 1, c)
  BY <1>2 DEF ReadRight, ConfigRead
<1>4. g <=> (cmd = "stop" /\ "--force" \in PlainWords(a, path, n + 1))
  BY <1>2 DEF ReadRight
<1> QED
  BY <1>2, <1>3, <1>4 DEF ReadRight

(* A word that gives a path, in itself or behind it.                       *)
LEMMA ReadPathLemma ==
    ASSUME NEW S, NEW a \in Seq(S), NEW path, NEW cmd, PathsOf(a, path),
           NEW p, NEW f, NEW c, NEW n, ReadRight(a, path, cmd, n, p, f, c), n <= Len(a)
    PROVE  /\ a[n] = "--config=c" => ReadRight(a, path, cmd, n + 1, p, f, "c")
           /\ a[n] = "--config" /\ n < Len(a) /\ a[n + 1] # Line!Empty =>
                  ReadRight(a, path, cmd, n + 2, p, f, a[n + 1])
<1>1. n \in 1..Len(a) /\ ~path[n] /\ n \in Nat /\ Len(a) \in Nat
  BY DEF ReadRight
<1>2. ASSUME NEW m, NEW word \in {"--config", "--config=c"},
             PlainWords(a, path, m) = PlainWords(a, path, n) \cup {word}
      PROVE  /\ ProfileRead(a, path, m, p)
             /\ "--force" \in PlainWords(a, path, m) <=> "--force" \in PlainWords(a, path, n)
  <2>1. word \in Line!Dashed /\ word # "--force"
    BY <1>2, WordsApart
  <2>2. PlainWords(a, path, m) \ Line!Dashed = PlainWords(a, path, n) \ Line!Dashed
    BY <1>2, <2>1
  <2> QED
    BY <1>2, <2>1, <2>2 DEF ReadRight, ProfileRead
<1>3. ASSUME a[n] = "--config=c" PROVE ReadRight(a, path, cmd, n + 1, p, f, "c")
  <2>1. /\ n + 1 \in 1..(Len(a) + 1)
        /\ PlainWords(a, path, n + 1) = PlainWords(a, path, n) \cup {a[n]}
        /\ PathsGiven(a, path, n + 1) = PathsGiven(a, path, n) \cup {n}
        /\ n + 1 <= Len(a) => ~path[n + 1]
    BY <1>1, <1>3, WordLemma
  <2>2. PathAt(a, path, n) = "c"
    BY <1>1 DEF PathAt
  <2>3. ConfigRead(a, path, n + 1, "c")
    <3>1. n + 1 \in Nat /\ n <= n /\ "c" # Line!Empty
      BY <1>1, WordsApart
    <3> QED
      BY <1>1, <2>1, <2>2, <3>1, LastPathLemma
  <2> QED
    BY <1>2, <1>3, <2>1, <2>3 DEF ReadRight
<1>4. ASSUME a[n] = "--config", n < Len(a), a[n + 1] # Line!Empty
      PROVE  ReadRight(a, path, cmd, n + 2, p, f, a[n + 1])
  <2>1. /\ n + 2 \in 1..(Len(a) + 1) /\ path[n + 1]
        /\ PlainWords(a, path, n + 2) = PlainWords(a, path, n) \cup {"--config"}
        /\ PathsGiven(a, path, n + 2) = PathsGiven(a, path, n) \cup {n + 1}
        /\ n + 2 <= Len(a) => ~path[n + 2]
    BY <1>1, <1>4, PathLemma
  <2>2. PathAt(a, path, n + 1) = a[n + 1]
    BY <2>1 DEF PathAt
  <2>3. ConfigRead(a, path, n + 2, a[n + 1])
    <3>1. n + 2 \in Nat /\ n + 1 \in Nat /\ n <= n + 1
      BY <1>1
    <3> QED
      BY <1>1, <1>4, <2>1, <2>2, <3>1, LastPathLemma
  <2> QED
    BY <1>2, <2>1, <2>3 DEF ReadRight
<1> QED
  BY <1>3, <1>4

(* All words read, what was read is what CallIsMeant asks for.             *)
LEMMA AllReadLemma ==
    ASSUME Len(args) \in Nat,
           NEW p, NEW f, NEW c,
           ReadRight(args, Line!IsPath, command, Len(args) + 1, p, f, c)
    PROVE  /\ Line!Named = {p} \ {Line!Empty}
           /\ f <=> (command = "stop" /\ Line!Given("--force"))
           /\ Line!Chosen = (IF c = Line!Empty THEN Line!DefaultPath ELSE c)
<1> DEFINE N == Len(args)
           path == Line!IsPath
<1>1. 1..((N + 1) - 1) = 1..N /\ DOMAIN args = 1..N
  OBVIOUS
<1>2. PlainWords(args, path, N + 1) = {args[i] : i \in Line!Plain}
  BY <1>1 DEF PlainWords, Line!Plain
<1>3. Line!Named = {p} \ {Line!Empty}
  <2>1. Line!Named = (PlainWords(args, path, N + 1) \ Line!Dashed) \ {Line!Empty}
    BY <1>2 DEF Line!Named
  <2> QED
    BY <2>1 DEF ReadRight, ProfileRead
<1>4. f <=> (command = "stop" /\ Line!Given("--force"))
  <2>1. Line!Given("--force") <=> "--force" \in PlainWords(args, path, N + 1)
    BY <1>2 DEF Line!Given
  <2> QED
    BY <2>1 DEF ReadRight
<1> DEFINE given == {i \in DOMAIN args :
                        path[i] \/ (i \in Line!Plain /\ args[i] = "--config=c")}
<1>5. PathsGiven(args, path, N + 1) = given
  BY <1>1 DEF PathsGiven, Line!Plain
<1>6. Line!Chosen =
          IF given = {} THEN Line!DefaultPath
          ELSE PathAt(args, path, CHOOSE i \in given : \A j \in given : j <= i)
  BY DEF Line!Chosen, PathAt
<1>7. CASE given = {}
  <2>1. c = Line!Empty
    BY <1>5, <1>7 DEF ReadRight, ConfigRead
  <2> QED
    BY <1>3, <1>4, <1>6, <1>7, <2>1
<1>8. CASE given # {}
  <2> HIDE DEF given
  <2>1. PICK i \in given : /\ \A j \in given : j <= i
                           /\ c = PathAt(args, path, i) /\ c # Line!Empty
    BY <1>5, <1>8 DEF ReadRight, ConfigRead
  <2>2. given \subseteq 1..N
    BY <1>1 DEF given
  <2>3. \A j \in given : (\A k \in given : k <= j) => j = i
    <3>1. \A j, k \in 1..N : j <= k /\ k <= j => j = k
      OBVIOUS
    <3> QED
      BY <2>1, <2>2, <3>1
  <2>4. (CHOOSE j \in given : \A k \in given : k <= j) = i
    BY <2>1, <2>3
  <2>5. Line!Chosen = c
    BY <1>6, <1>8, <2>1, <2>4
  <2> QED
    BY <1>3, <1>4, <2>1, <2>5
<1> QED
  BY <1>7, <1>8

LEMMA LineInit ==
    ASSUME Line!Init \/ LineIdle
    PROVE  LineInv
<1>1. args \in Seq(Words)
  <2>1. CASE Line!Init
    BY <2>1 DEF Line!Init, Line!BoundedSeq, Line!SeqOf
  <2>2. CASE LineIdle
    BY <2>2 DEF LineIdle
  <2> QED
    BY <2>1, <2>2
<1>2. /\ pc = "choose" /\ next = 1 /\ profile = Line!Empty /\ force = FALSE
      /\ config = Line!Empty /\ call = NoCall
  BY Zenon DEF Line!Init, LineIdle
<1> QED
  BY <1>1, <1>2 DEF LineInv, Line!CallIsMeant

(* The steps of the loop.                                                  *)
LEMMA ReadWordStep ==
    ASSUME LineInv, Line!ReadWord
    PROVE  LineInv'
<1> DEFINE path == Line!IsPath
<1>1. /\ args \in Seq(Words) /\ pc = "parse" /\ command \in Line!Commands
      /\ command # "validate" /\ call = NoCall
      /\ ReadRight(args, path, command, next, profile, force, config) /\ next <= Len(args)
  BY DEF LineInv, Line!ReadWord
<1>2. PathsOf(args, path) /\ Len(args) \in Nat /\ next \in Nat
  BY <1>1, IsPathLemma DEF ReadRight
<1>3. UNCHANGED <<command, args, files, homeless>>
  BY DEF Line!ReadWord, Line!Skip, Line!Goto, Line!Exit, Line!typed
<1>4. path' = path
  BY <1>3 DEF Line!IsPath
<1>5. ASSUME pc' = "parse", call' = call,
             ReadRight(args, path, command, next', profile', force', config')
      PROVE  LineInv'
  BY <1>1, <1>3, <1>4, <1>5 DEF LineInv, Line!CallIsMeant
<1>6. CASE Line!ReadSwitch /\ Line!Skip(1)
  <2>1. /\ args[next] \in {"--force", "--json"} /\ profile' = profile /\ config' = config
        /\ args[next] = "--force" => command = "stop" /\ force' = TRUE
        /\ args[next] = "--json" => force' = force
    BY <1>6 DEF Line!ReadSwitch, Line!Word, Line!TakesForce, Line!TakesJson
  <2>2. next' = next + 1 /\ pc' = "parse" /\ call' = call
    BY <1>6 DEF Line!Skip, Line!Goto
  <2>3. ProfileRead(args, path, next + 1, profile)
    <3>1. PlainWords(args, path, next + 1) = PlainWords(args, path, next) \cup {args[next]}
      BY <1>1, <1>2, WordLemma DEF ReadRight
    <3>2. PlainWords(args, path, next + 1) \ Line!Dashed
              = PlainWords(args, path, next) \ Line!Dashed
      BY <2>1, <3>1, WordsApart
    <3> QED
      BY <1>1, <3>2 DEF ReadRight, ProfileRead
  <2>4. force' <=> (force \/ (command = "stop" /\ args[next] = "--force"))
    BY <2>1
  <2>5. ReadRight(args, path, command, next + 1, profile, force', config)
    BY <1>1, <1>2, <2>1, <2>3, <2>4, ReadPlainLemma
  <2> QED
    BY <1>5, <2>1, <2>2, <2>5
<1>7. CASE Line!ReadPath /\ Line!Skip(2)
  <2>1. /\ args[next] = "--config" /\ next < Len(args) /\ args[next + 1] # Line!Empty
        /\ config' = args[next + 1] /\ profile' = profile /\ force' = force
    BY <1>7 DEF Line!ReadPath, Line!HasPath, Line!Word
  <2>2. next' = next + 2 /\ pc' = "parse" /\ call' = call
    BY <1>7 DEF Line!Skip, Line!Goto
  <2>3. ReadRight(args, path, command, next + 2, profile, force, args[next + 1])
    BY <1>1, <1>2, <2>1, ReadPathLemma
  <2> QED
    BY <1>5, <2>1, <2>2, <2>3
<1>8. CASE Line!ReadInlinePath /\ Line!Skip(1)
  <2>1. /\ args[next] = "--config=c" /\ config' = "c"
        /\ profile' = profile /\ force' = force
    BY <1>8 DEF Line!ReadInlinePath, Line!Word
  <2>2. next' = next + 1 /\ pc' = "parse" /\ call' = call
    BY <1>8 DEF Line!Skip, Line!Goto
  <2>3. ReadRight(args, path, command, next + 1, profile, force, "c")
    BY <1>1, <1>2, <2>1, ReadPathLemma
  <2> QED
    BY <1>5, <2>1, <2>2, <2>3
<1>9. CASE /\ Line!TakesProfile /\ Line!Word \notin Line!Dashed /\ profile = Line!Empty
           /\ profile' = Line!Word
           /\ UNCHANGED <<force, json, config>>
           /\ Line!Skip(1)
  <2>1. /\ args[next] \notin Line!Dashed /\ profile' = args[next]
        /\ force' = force /\ config' = config
    BY <1>9 DEF Line!Word
  <2>2. next' = next + 1 /\ pc' = "parse" /\ call' = call
    BY <1>9 DEF Line!Skip, Line!Goto
  <2>3. ProfileRead(args, path, next + 1, args[next])
    <3>1. PlainWords(args, path, next + 1) = PlainWords(args, path, next) \cup {args[next]}
      BY <1>1, <1>2, WordLemma DEF ReadRight
    <3>2. (PlainWords(args, path, next) \ Line!Dashed) \ {Line!Empty} = {}
      BY <1>1, <1>9 DEF ReadRight, ProfileRead
    <3> QED
      BY <2>1, <3>1, <3>2 DEF ProfileRead
  <2>4. args[next] \notin {"--config", "--config=c", "--force"}
    BY <2>1, WordsApart
  <2>5. force <=> (force \/ (command = "stop" /\ args[next] = "--force"))
    BY <2>4
  <2>6. ReadRight(args, path, command, next + 1, args[next], force, config)
    BY <1>1, <1>2, <2>3, <2>4, <2>5, ReadPlainLemma
  <2> QED
    BY <1>5, <2>1, <2>2, <2>6
<1>10. CASE ~Line!Expected /\ Line!Exit(2) /\ UNCHANGED call
  BY <1>1, <1>3, <1>10 DEF LineInv, Line!Exit, Line!CallIsMeant
<1> QED
  BY <1>6, <1>7, <1>8, <1>9, <1>10 DEF Line!ReadWord

(* The other steps of a run.                                               *)
LEMMA LineStep ==
    ASSUME LineInv, Line!Next \/ UNCHANGED lineVars
    PROVE  LineInv'
<1> DEFINE path == Line!IsPath
<1>1. CASE UNCHANGED lineVars
  <2>1. UNCHANGED <<command, args, files, pc, next, profile, force, config, call, exit>>
    BY <1>1 DEF lineVars
  <2>2. /\ path' = path /\ Line!Loaded' = Line!Loaded
        /\ Line!TakesProfile' <=> Line!TakesProfile
    BY <2>1 DEF Line!IsPath, Line!Loaded, Line!Path, Line!TakesProfile
  <2>3. Line!CallIsMeant' <=> Line!CallIsMeant
    <3>1. /\ Line!Named' = Line!Named /\ Line!Chosen' = Line!Chosen
          /\ Line!Given("--force")' <=> Line!Given("--force")
      BY <2>1 DEF Line!Named, Line!Chosen, Line!Given, Line!Plain, Line!IsPath
    <3> QED
      BY <2>1, <2>2, <3>1 DEF Line!CallIsMeant
  <2> QED
    BY <2>1, <2>2, <2>3 DEF LineInv
<1>2. ASSUME UNCHANGED <<command, args>> PROVE path' = path
  BY <1>2 DEF Line!IsPath
<1>3. CASE Line!Choose
  <2>1. /\ UNCHANGED <<command, args, next, profile, force, config, call>>
        /\ pc = "choose" /\ call = NoCall
        /\ (pc' = "parse" /\ command \in Line!Commands) \/ pc' = "done"
    BY <1>3 DEF LineInv, Line!Choose, Line!Goto, Line!Exit, Line!typed, Line!parsed
  <2>2. Len(args) \in Nat /\ PathsOf(args, path)
    BY IsPathLemma DEF LineInv
  <2>3. next = 1 /\ profile = Line!Empty /\ ~force /\ config = Line!Empty
    BY <2>1 DEF LineInv
  <2>4. PlainWords(args, path, 1) = {} /\ PathsGiven(args, path, 1) = {}
    <3>1. 1..(1 - 1) = {}
      OBVIOUS
    <3> QED
      BY <3>1 DEF PlainWords, PathsGiven
  <2>5. 1 <= Len(args) => ~path[1]
    BY <2>2 DEF PathsOf
  <2>6. ReadRight(args, path, command, 1, profile, force, config)
    BY <2>2, <2>3, <2>4, <2>5 DEF ReadRight, ProfileRead, ConfigRead
  <2> QED
    BY <1>2, <2>1, <2>3, <2>6 DEF LineInv, Line!CallIsMeant
<1>4. CASE Line!ReadWord
  BY <1>4, ReadWordStep
<1>5. CASE Line!AllRead
  <2>1. /\ UNCHANGED <<command, args, next, profile, force, config, call>>
        /\ pc = "parse" /\ command # "validate" /\ call = NoCall
        /\ next > Len(args)
        /\ \/ pc' = "done"
           \/ pc' = "load" /\ (Line!TakesProfile => profile # Line!Empty)
    BY <1>5 DEF LineInv, Line!AllRead, Line!Goto, Line!Exit, Line!typed, Line!parsed
  <2>2. /\ Len(args) \in Nat /\ command \in Line!Commands
        /\ ReadRight(args, path, command, next, profile, force, config)
    BY <2>1 DEF LineInv
  <2>3. next = Len(args) + 1
    BY <2>1, <2>2 DEF ReadRight
  <2>4. Line!TakesProfile' = Line!TakesProfile
    BY <2>1 DEF Line!TakesProfile
  <2> QED
    BY <1>2, <2>1, <2>2, <2>3, <2>4 DEF LineInv, Line!CallIsMeant
<1>6. CASE Line!ParseFlags
  <2>1. /\ UNCHANGED <<command, args, call>> /\ pc = "parse" /\ command = "validate"
        /\ pc' \in {"load", "done"} /\ call = NoCall
    BY <1>6 DEF LineInv, Line!ParseFlags, Line!Goto, Line!Exit, Line!typed, Line!parsed
  <2> QED
    BY <2>1 DEF LineInv, Line!CallIsMeant, Line!Commands
<1>7. CASE Line!Load
  <2>1. /\ UNCHANGED <<command, args, files, next, profile, force, config, call>>
        /\ pc = "load" /\ call = NoCall
        /\ \/ pc' = "done"
           \/ /\ pc' = "serve" /\ command # "validate" /\ Line!Loaded # Unreadable
              /\ Line!TakesProfile => profile \in Line!Loaded
    BY <1>7 DEF LineInv, Line!Load, Line!Goto, Line!Exit, Line!typed, Line!parsed
  <2>2. Line!Loaded' = Line!Loaded /\ Line!TakesProfile' = Line!TakesProfile
    BY <2>1 DEF Line!Loaded, Line!Path, Line!TakesProfile
  <2> QED
    BY <1>2, <2>1, <2>2 DEF LineInv, Line!CallIsMeant
<1>8. CASE Line!Serve
  <2>1. PICK ok \in BOOLEAN :
            /\ call' = [service |-> command, profile |-> profile,
                        force |-> force, ok |-> ok]
            /\ Line!Exit(IF ok THEN 0 ELSE 1)
    BY <1>8 DEF Line!Serve
  <2>2. /\ UNCHANGED <<command, args, files, next, profile, force, config>>
        /\ pc' = "done" /\ exit' = (IF ok THEN 0 ELSE 1)
    BY <2>1 DEF Line!Exit, Line!typed, Line!parsed
  <2>3. /\ args \in Seq(Words) /\ command # "validate" /\ command \in Line!Commands
        /\ ReadRight(args, path, command, next, profile, force, config)
        /\ next = Len(args) + 1 /\ Line!Loaded # Unreadable
        /\ Line!TakesProfile => profile # Line!Empty /\ profile \in Line!Loaded
    BY <1>8 DEF LineInv, Line!Serve
  <2>4. /\ Line!Named = {profile} \ {Line!Empty}
        /\ force <=> (command = "stop" /\ Line!Given("--force"))
        /\ Line!Chosen = (IF config = Line!Empty THEN Line!DefaultPath ELSE config)
    BY <2>3, AllReadLemma
  <2>5. Line!Chosen \in DOMAIN files /\ Line!Loaded = files[Line!Chosen]
    BY <2>3, <2>4 DEF Line!Loaded, Line!Path
  <2>6. /\ Line!Named' = Line!Named /\ Line!Chosen' = Line!Chosen
        /\ Line!Given("--force")' <=> Line!Given("--force")
        /\ Line!TakesProfile' <=> Line!TakesProfile
    BY <2>2 DEF Line!Named, Line!Chosen, Line!Given, Line!Plain, Line!IsPath,
        Line!TakesProfile
  <2>7. /\ call'.service = command /\ call'.profile = profile
        /\ call'.force = force /\ call'.ok = ok
    BY <2>1
  <2>8. Line!CallIsMeant'
    BY <2>2, <2>3, <2>4, <2>5, <2>6, <2>7 DEF Line!CallIsMeant
  <2> QED
    BY <2>2, <2>3, <2>8 DEF LineInv
<1>9. CASE Line!Finished
  BY <1>1, <1>9 DEF Line!Finished, Line!vars, Line!typed, Line!parsed, lineVars
<1> QED
  BY <1>1, <1>3, <1>4, <1>5, <1>6, <1>7, <1>8, <1>9 DEF Line!Next

-----------------------------------------------------------------------------
(* A service is called for the profile and with the options that the words *)
(* of the command line mean by their position, however many words there    *)
(* are (main.go).                                                          *)
THEOREM CallsMeant == Spec => []CallIsMeant
<1>1. Init => LineInv
  BY LineInit DEF Init
<1>2. LineInv /\ [Next]_vars => LineInv'
  BY LineStep DEF Next, vars, lineVars
<1>3. LineInv => CallIsMeant
  BY DEF LineInv, CallIsMeant
<1> QED
  BY <1>1, <1>2, <1>3, PTL DEF Spec

-----------------------------------------------------------------------------
(* The environment of a command. *)

Elements(s) == {s[i] : i \in 1..Len(s)}

Dropped(e, keys, spared) == e.key \in keys /\ e.value \notin spared

LEMMA ElementsAppend ==
    ASSUME NEW S, NEW s \in Seq(S), NEW e \in S
    PROVE  Elements(Append(s, e)) = Elements(s) \cup {e}
<1>1. /\ Len(s) \in Nat /\ Len(Append(s, e)) = Len(s) + 1
      /\ Append(s, e)[Len(s) + 1] = e /\ \A k \in 1..Len(s) : Append(s, e)[k] = s[k]
  OBVIOUS
<1>2. 1..(Len(s) + 1) = 1..Len(s) \cup {Len(s) + 1}
  BY <1>1
<1> QED
  BY <1>1, <1>2 DEF Elements

WithoutStep(S, keys, spared) ==
    [q \in Seq(S) \X S |->
        IF Dropped(q[2], keys, spared) THEN q[1] ELSE Append(q[1], q[2])]

LEMMA WithoutFold ==
    ASSUME NEW S, NEW s \in Seq(S), NEW keys, NEW spared
    PROVE  \E f : /\ Folds(f, s, Seq(S), <<>>, WithoutStep(S, keys, spared))
                  /\ Environment!Without(s, keys, spared) = f[Len(s)]
<1> DEFINE A == Seq(S)
           nothing == <<>>
           H == [q \in A \X S |->
                    IF Dropped(q[2], keys, spared) THEN q[1] ELSE Append(q[1], q[2])]
           Step(f, k) == IF k = 0 THEN <<>>
                         ELSE IF s[k].key \in keys /\ s[k].value \notin spared
                         THEN f[k - 1] ELSE Append(f[k - 1], s[k])
           IsKept(f) == f = [k \in 0..Len(s) |-> Step(f, k)]
<1>1. Len(s) \in Nat /\ \A k \in 1..Len(s) : s[k] \in S /\ k - 1 \in 0..Len(s) /\ k # 0
  OBVIOUS
<1>2. H \in [A \X S -> A]
  OBVIOUS
<1>3. ASSUME NEW f, NEW k \in 1..Len(s), f[k - 1] \in A
      PROVE  Step(f, k) = H[<<f[k - 1], s[k]>>]
  <2>1. <<f[k - 1], s[k]>> \in A \X S
    BY <1>1, <1>3
  <2> QED
    BY <1>1, <2>1 DEF Dropped
<1>4. \A k \in 0..Len(s) : k = 0 \/ k \in 1..Len(s)
  BY <1>1
<1>5. nothing \in A
  OBVIOUS
<1> HIDE DEF A, H, nothing
<1>6. \E f : IsKept(f)
  <2>1. PICK f : Folds(f, s, A, nothing, H)
    BY <1>2, <1>5, FoldExists
  <2>2. f \in [0..Len(s) -> A] /\ f[0] = nothing
    BY <2>1 DEF Folds
  <2>3. \A k \in 1..Len(s) : f[k] = Step(f, k)
    BY <1>1, <1>3, <2>1, <2>2 DEF Folds
  <2>4. f[0] = Step(f, 0)
    BY <2>2 DEF nothing
  <2>5. \A k \in 0..Len(s) : f[k] = Step(f, k)
    BY <1>4, <2>3, <2>4
  <2> HIDE DEF Step
  <2> QED
    BY <2>2, <2>5
<1>7. ASSUME NEW f, IsKept(f) PROVE Folds(f, s, A, nothing, H)
  <2>1. 0 \in 0..Len(s) /\ 1..Len(s) \subseteq 0..Len(s)
    BY <1>1
  <2>2. f = [k \in 0..Len(s) |-> f[k]] /\ \A k \in 0..Len(s) : f[k] = Step(f, k)
    <3> HIDE DEF Step
    <3> QED
      BY <1>7
  <2>3. f[0] = nothing
    BY <2>1, <2>2 DEF nothing
  <2>4. \A k \in 1..Len(s) : f[k - 1] \in A => f[k] = H[<<f[k - 1], s[k]>>]
    <3> HIDE DEF Step
    <3> QED
      BY <1>3, <2>1, <2>2
  <2> QED
    <3>1. f \in [0..Len(s) -> {f[k] : k \in 0..Len(s)}]
      BY <2>2
    <3> QED
      BY <1>2, <1>5, <2>3, <2>4, <3>1, FoldTyped
<1>8. Environment!Without(s, keys, spared) = (CHOOSE f : IsKept(f))[Len(s)]
  BY DEF Environment!Without
<1> HIDE DEF IsKept
<1>9. PICK f : f = (CHOOSE g : IsKept(g)) /\ IsKept(f)
  BY <1>6
<1>10. Folds(f, s, A, nothing, H) /\ Environment!Without(s, keys, spared) = f[Len(s)]
  BY <1>7, <1>8, <1>9
<1> QED
  BY <1>10 DEF A, H, nothing, WithoutStep

(* What Without does with a sequence that grows.                           *)
Filters(S, keys, spared) ==
    /\ Environment!Without(<<>>, keys, spared) = <<>>
    /\ \A s \in Seq(S) : Environment!Without(s, keys, spared) \in Seq(S)
    /\ \A s \in Seq(S), e \in S :
           Environment!Without(Append(s, e), keys, spared) =
               IF Dropped(e, keys, spared)
               THEN Environment!Without(s, keys, spared)
               ELSE Append(Environment!Without(s, keys, spared), e)

LEMMA WithoutLemma ==
    ASSUME NEW S, NEW keys, NEW spared
    PROVE  Filters(S, keys, spared)
<1> DEFINE A == Seq(S)
           H == WithoutStep(S, keys, spared)
           W(s) == Environment!Without(s, keys, spared)
<1>1. ASSUME NEW s \in Seq(S)
      PROVE  \E f : Folds(f, s, A, <<>>, H) /\ W(s) = f[Len(s)]
  BY WithoutFold
<1> HIDE DEF H, W
<1>2. W(<<>>) = <<>>
  <2>1. <<>> \in Seq(S) /\ Len(<<>>) = 0
    OBVIOUS
  <2> QED
    BY <1>1, <2>1 DEF Folds
<1>3. \A s \in Seq(S) : W(s) \in A
  <2> SUFFICES ASSUME NEW s \in Seq(S) PROVE W(s) \in A
    OBVIOUS
  <2>1. PICK f : Folds(f, s, A, <<>>, H) /\ W(s) = f[Len(s)]
    BY <1>1
  <2>2. Len(s) \in 0..Len(s)
    OBVIOUS
  <2> QED
    BY <2>1, <2>2 DEF Folds
<1>4. ASSUME NEW s \in Seq(S), NEW e \in S
      PROVE  W(Append(s, e)) = IF Dropped(e, keys, spared) THEN W(s) ELSE Append(W(s), e)
  <2>1. Append(s, e) \in Seq(S)
    OBVIOUS
  <2>2. PICK f : Folds(f, s, A, <<>>, H) /\ W(s) = f[Len(s)]
    BY <1>1
  <2>3. PICK g : /\ Folds(g, Append(s, e), A, <<>>, H)
                 /\ W(Append(s, e)) = g[Len(Append(s, e))]
    BY <1>1, <2>1
  <2>4. W(Append(s, e)) = H[<<W(s), e>>]
    BY <2>2, <2>3, FoldAppend
  <2>5. <<W(s), e>> \in A \X S
    BY <1>3
  <2> QED
    BY <2>4, <2>5 DEF H, WithoutStep
<1> QED
  BY <1>2, <1>3, <1>4 DEF W, Filters

LEMMA WithoutElements ==
    ASSUME NEW S, NEW s \in Seq(S), NEW keys, NEW spared
    PROVE  Elements(Environment!Without(s, keys, spared))
               = {e \in Elements(s) : ~Dropped(e, keys, spared)}
<1> DEFINE W(t) == Environment!Without(t, keys, spared)
           Right(t) == Elements(W(t)) = {e \in Elements(t) : ~Dropped(e, keys, spared)}
           Q == {t \in Seq(S) : Right(t)}
<1>0. Filters(S, keys, spared)
  BY WithoutLemma
<1> USE DEF Filters
<1>1. <<>> \in Q
  <2>1. Elements(<<>>) = {} /\ <<>> \in Seq(S)
    BY DEF Elements
  <2> QED
    BY <1>0, <2>1
<1>2. ASSUME NEW t \in Seq(S), NEW e \in S, t \in Q PROVE Append(t, e) \in Q
  <2>1. /\ Append(t, e) \in Seq(S) /\ W(t) \in Seq(S)
        /\ W(Append(t, e)) = IF Dropped(e, keys, spared) THEN W(t) ELSE Append(W(t), e)
    BY <1>0
  <2>2. /\ Elements(Append(t, e)) = Elements(t) \cup {e}
        /\ Elements(Append(W(t), e)) = Elements(W(t)) \cup {e}
    BY <2>1, ElementsAppend
  <2>3. Elements(W(t)) = {x \in Elements(t) : ~Dropped(x, keys, spared)}
    BY <1>2
  <2> HIDE DEF W
  <2> QED
    BY <2>1, <2>2, <2>3
<1>3. s \in Q
  <2> HIDE DEF Q
  <2> QED
    BY <1>1, <1>2, SequenceInduction
<1> QED
  BY <1>3

(* Dropping some keys and then more is dropping the more.                  *)
LEMMA WithoutTwice ==
    ASSUME NEW S, NEW s \in Seq(S), NEW keys, NEW spared, NEW more, keys \subseteq more
    PROVE  Environment!Without(Environment!Without(s, keys, spared), more, {})
               = Environment!Without(s, more, {})
<1> DEFINE W(t) == Environment!Without(t, keys, spared)
           M(t) == Environment!Without(t, more, {})
           Q == {t \in Seq(S) : M(W(t)) = M(t)}
<1>0. Filters(S, keys, spared) /\ Filters(S, more, {})
  BY WithoutLemma
<1>1. /\ W(<<>>) = <<>>
      /\ \A t \in Seq(S) : W(t) \in Seq(S)
      /\ \A t \in Seq(S), e \in S :
             W(Append(t, e)) = IF Dropped(e, keys, spared) THEN W(t) ELSE Append(W(t), e)
  BY <1>0 DEF Filters
<1>2. \A t \in Seq(S), e \in S :
          M(Append(t, e)) = IF Dropped(e, more, {}) THEN M(t) ELSE Append(M(t), e)
  BY <1>0 DEF Filters
<1> HIDE DEF W, M
<1>3. <<>> \in Q
  BY <1>1
<1>4. ASSUME NEW t \in Seq(S), NEW e \in S, t \in Q PROVE Append(t, e) \in Q
  <2>1. M(W(t)) = M(t) /\ W(t) \in Seq(S) /\ Append(t, e) \in Seq(S)
    BY <1>1, <1>4
  <2>2. Dropped(e, keys, spared) => Dropped(e, more, {})
    BY DEF Dropped
  <2>3. M(Append(W(t), e)) = IF Dropped(e, more, {}) THEN M(W(t)) ELSE Append(M(W(t)), e)
    BY <1>2, <2>1
  <2>4. M(W(Append(t, e))) = M(Append(t, e))
    BY <1>1, <1>2, <2>1, <2>2, <2>3
  <2> QED
    BY <2>1, <2>4
<1>5. s \in Q
  <2> HIDE DEF Q
  <2> QED
    BY <1>3, <1>4, SequenceInduction
<1> QED
  BY <1>5 DEF W, M

LEMMA OverrideLemma ==
    ASSUME NEW S, NEW s \in Seq(S), NEW o \in S
    PROVE  /\ Environment!Override(s, o) \in Seq(S)
           /\ Elements(Environment!Override(s, o)) =
                  {e \in Elements(s) : e.key # o.key \/ e.value = Bare} \cup {o}
           /\ \A more : o.key \in more =>
                  Environment!Without(Environment!Override(s, o), more, {})
                      = Environment!Without(s, more, {})
<1> DEFINE w == Environment!Without(s, {o.key}, {Bare})
<1>1. Environment!Override(s, o) = Append(w, o)
  BY DEF Environment!Override
<1>2. w \in Seq(S)
  <2>1. Filters(S, {o.key}, {Bare})
    BY WithoutLemma
  <2> QED
    BY <2>1 DEF Filters
<1>3. Elements(Append(w, o)) = Elements(w) \cup {o}
  BY <1>2, ElementsAppend
<1>4. Elements(w) = {e \in Elements(s) : ~Dropped(e, {o.key}, {Bare})}
  BY WithoutElements
<1>5. Elements(w) = {e \in Elements(s) : e.key # o.key \/ e.value = Bare}
  BY <1>4 DEF Dropped
<1>6. ASSUME NEW more, o.key \in more
      PROVE  Environment!Without(Append(w, o), more, {}) = Environment!Without(s, more, {})
  <2>1. Filters(S, more, {})
    BY WithoutLemma
  <2>2. Environment!Without(Append(w, o), more, {}) = Environment!Without(w, more, {})
    BY <1>2, <1>6, <2>1 DEF Filters, Dropped
  <2>3. {o.key} \subseteq more
    BY <1>6
  <2> QED
    BY <2>2, <2>3, WithoutTwice
<1>7. \A more : o.key \in more =>
          Environment!Without(Environment!Override(s, o), more, {})
              = Environment!Without(s, more, {})
  BY <1>1, <1>6
<1> HIDE DEF w
<1>8. Environment!Override(s, o) \in Seq(S)
  BY <1>1, <1>2
<1> QED
  BY <1>1, <1>3, <1>5, <1>7, <1>8

(* The merged environment, override by override.                           *)
MergeStep(S) == [q \in Seq(S) \X S |-> Environment!Override(q[1], q[2])]

LEMMA MergeFold ==
    ASSUME NEW S, NEW base \in Seq(S), NEW s \in Seq(S)
    PROVE  \E f : /\ Folds(f, s, Seq(S), Environment!Scrub(base), MergeStep(S))
                  /\ Environment!MergeEnvironment(base, s) = f[Len(s)]
<1> DEFINE A == Seq(S)
           scrubbed == Environment!Scrub(base)
           H == [q \in A \X S |-> Environment!Override(q[1], q[2])]
           Step(f, k) == IF k = 0 THEN scrubbed ELSE Environment!Override(f[k - 1], s[k])
           IsMerged(f) == f = [k \in 0..Len(s) |-> Step(f, k)]
<1>1. Len(s) \in Nat /\ \A k \in 1..Len(s) : s[k] \in S /\ k - 1 \in 0..Len(s) /\ k # 0
  OBVIOUS
<1>2. H \in [A \X S -> A]
  BY OverrideLemma
<1>3. ASSUME NEW f, NEW k \in 1..Len(s), f[k - 1] \in A
      PROVE  Step(f, k) = H[<<f[k - 1], s[k]>>]
  <2>1. <<f[k - 1], s[k]>> \in A \X S
    BY <1>1, <1>3
  <2> QED
    BY <1>1, <2>1
<1>4. \A k \in 0..Len(s) : k = 0 \/ k \in 1..Len(s)
  BY <1>1
<1>5. scrubbed \in A
  <2>1. Filters(S, Environment!ScrubbedProxyEnvironmentKeys, {})
    BY WithoutLemma
  <2> QED
    BY <2>1 DEF Filters, Environment!Scrub
<1> HIDE DEF A, H, scrubbed
<1>6. \E f : IsMerged(f)
  <2>1. PICK f : Folds(f, s, A, scrubbed, H)
    BY <1>2, <1>5, FoldExists
  <2>2. f \in [0..Len(s) -> A] /\ f[0] = scrubbed
    BY <2>1 DEF Folds
  <2>3. \A k \in 1..Len(s) : f[k] = Step(f, k)
    BY <1>1, <1>3, <2>1, <2>2 DEF Folds
  <2>4. f[0] = Step(f, 0)
    BY <2>2
  <2>5. \A k \in 0..Len(s) : f[k] = Step(f, k)
    BY <1>4, <2>3, <2>4
  <2> HIDE DEF Step
  <2> QED
    BY <2>2, <2>5
<1>7. ASSUME NEW f, IsMerged(f) PROVE Folds(f, s, A, scrubbed, H)
  <2>1. 0 \in 0..Len(s) /\ 1..Len(s) \subseteq 0..Len(s)
    BY <1>1
  <2>2. f = [k \in 0..Len(s) |-> f[k]] /\ \A k \in 0..Len(s) : f[k] = Step(f, k)
    <3> HIDE DEF Step
    <3> QED
      BY <1>7
  <2>3. f[0] = scrubbed
    BY <2>1, <2>2
  <2>4. \A k \in 1..Len(s) : f[k - 1] \in A => f[k] = H[<<f[k - 1], s[k]>>]
    <3> HIDE DEF Step
    <3> QED
      BY <1>3, <2>1, <2>2
  <2> QED
    <3>1. f \in [0..Len(s) -> {f[k] : k \in 0..Len(s)}]
      BY <2>2
    <3> QED
      BY <1>2, <1>5, <2>3, <2>4, <3>1, FoldTyped
<1>8. Environment!MergeEnvironment(base, s) = (CHOOSE f : IsMerged(f))[Len(s)]
  BY DEF Environment!MergeEnvironment, scrubbed
<1> HIDE DEF IsMerged
<1>9. PICK f : f = (CHOOSE g : IsMerged(g)) /\ IsMerged(f)
  BY <1>6
<1>10. Folds(f, s, A, scrubbed, H) /\ Environment!MergeEnvironment(base, s) = f[Len(s)]
  BY <1>7, <1>8, <1>9
<1> QED
  BY <1>10 DEF A, H, scrubbed, MergeStep

(* The overrides are all there, and of the shell's entries those that are  *)
(* neither scrubbed nor overridden.                                        *)
LEMMA MergeLemma ==
    ASSUME NEW S, NEW base \in Seq(S), NEW s \in Seq(S),
           \A i, j \in 1..Len(s) : s[i].key = s[j].key => i = j
    PROVE  /\ Elements(Environment!MergeEnvironment(base, s)) = Elements(s) \cup
                  {e \in Elements(base) :
                      /\ e.key \notin Environment!ScrubbedProxyEnvironmentKeys
                      /\ e.value = Bare \/ \A i \in 1..Len(s) : e.key # s[i].key}
           /\ \A more :
                  (/\ Environment!ScrubbedProxyEnvironmentKeys \subseteq more
                   /\ \A i \in 1..Len(s) : s[i].key \in more) =>
                  Environment!Without(Environment!MergeEnvironment(base, s), more, {})
                      = Environment!Without(base, more, {})
<1> DEFINE N == Len(s)
           K == Environment!ScrubbedProxyEnvironmentKeys
           Set(k) == {s[i] : i \in 1..k}
           Rest(k) == {e \in Elements(base) :
                          /\ e.key \notin K
                          /\ e.value = Bare \/ \A i \in 1..k : e.key # s[i].key}
<1>1. N \in Nat /\ \A k \in 1..N : s[k] \in S
  OBVIOUS
<1>2. PICK f : /\ Folds(f, s, Seq(S), Environment!Scrub(base), MergeStep(S))
               /\ Environment!MergeEnvironment(base, s) = f[N]
  BY MergeFold
<1>3. \A k \in 0..N : f[k] \in Seq(S)
  BY <1>2 DEF Folds
<1>4. f[0] = Environment!Without(base, K, {})
  BY <1>2 DEF Folds, Environment!Scrub
<1>5. ASSUME NEW k \in Nat, k + 1 <= N
      PROVE  /\ Elements(f[k + 1]) =
                    {e \in Elements(f[k]) : e.key # s[k + 1].key \/ e.value = Bare}
                        \cup {s[k + 1]}
             /\ \A more : s[k + 1].key \in more =>
                    Environment!Without(f[k + 1], more, {}) = Environment!Without(f[k], more, {})
  <2> DEFINE t == f[k]
             o == s[k + 1]
  <2>1. k \in 0..N /\ k + 1 \in 1..N /\ (k + 1) - 1 = k
    BY <1>1, <1>5
  <2>2. t \in Seq(S) /\ o \in S /\ <<t, o>> \in Seq(S) \X S
    BY <1>1, <1>3, <2>1
  <2>3. f[k + 1] = MergeStep(S)[<<t, o>>]
    BY <1>2, <2>1 DEF Folds
  <2>4. f[k + 1] = Environment!Override(t, o)
    BY <2>2, <2>3 DEF MergeStep
  <2> HIDE DEF t, o
  <2>5. /\ Elements(f[k + 1]) = {e \in Elements(t) : e.key # o.key \/ e.value = Bare} \cup {o}
        /\ \A more : o.key \in more =>
               Environment!Without(f[k + 1], more, {}) = Environment!Without(t, more, {})
    BY <2>2, <2>4, OverrideLemma
  <2> QED
    BY <2>5 DEF t, o
<1> HIDE DEF K
<1>6. Elements(f[N]) = Set(N) \cup Rest(N)
  <2> DEFINE Good == {k \in Nat : k <= N => Elements(f[k]) = Set(k) \cup Rest(k)}
  <2>1. 0 \in Good
    <3>1. Elements(f[0]) = {e \in Elements(base) : ~Dropped(e, K, {})}
      BY <1>4, WithoutElements
    <3> QED
      BY <3>1 DEF Dropped
  <2>2. ASSUME NEW k \in Nat, k \in Good PROVE k + 1 \in Good
    <3> SUFFICES ASSUME k + 1 <= N
                 PROVE  Elements(f[k + 1]) = Set(k + 1) \cup Rest(k + 1)
      OBVIOUS
    <3> DEFINE o == s[k + 1]
    <3>1. Elements(f[k]) = Set(k) \cup Rest(k)
      BY <1>1, <2>2
    <3>2. Elements(f[k + 1]) = {e \in Elements(f[k]) : e.key # o.key \/ e.value = Bare} \cup {o}
      BY <1>5
    <3>3. 1..(k + 1) = 1..k \cup {k + 1}
      OBVIOUS
    <3>4. Set(k + 1) = Set(k) \cup {o}
      BY <3>3
    <3>5. \A i \in 1..k : s[i].key # o.key
      <4>1. \A i \in 1..k : i \in 1..N /\ k + 1 \in 1..N /\ i # k + 1
        BY <1>1
      <4> QED
        BY <4>1
    <3>6. \A e \in Set(k) : e.key # o.key
      BY <3>5
    <3>7. Rest(k + 1) = {e \in Rest(k) : e.key # o.key \/ e.value = Bare}
      BY <3>3
    <3> HIDE DEF Set, Rest, o
    <3> QED
      BY <3>1, <3>2, <3>4, <3>6, <3>7
  <2> HIDE DEF Good
  <2>3. N \in Good
    BY <1>1, <2>1, <2>2, SetInduction
  <2> QED
    BY <1>1, <2>3 DEF Good
<1>7. ASSUME NEW more, K \subseteq more, \A i \in 1..N : s[i].key \in more
      PROVE  Environment!Without(f[N], more, {}) = Environment!Without(base, more, {})
  <2> DEFINE W(t) == Environment!Without(t, more, {})
             Good == {k \in Nat : k <= N => W(f[k]) = W(base)}
  <2>1. 0 \in Good
    BY <1>4, <1>7, WithoutTwice
  <2>2. ASSUME NEW k \in Nat, k \in Good PROVE k + 1 \in Good
    <3> SUFFICES ASSUME k + 1 <= N PROVE W(f[k + 1]) = W(base)
      OBVIOUS
    <3>1. W(f[k]) = W(base) /\ k + 1 \in 1..N
      BY <1>1, <2>2
    <3>2. s[k + 1].key \in more
      BY <1>7, <3>1
    <3> QED
      BY <1>5, <3>1, <3>2
  <2> HIDE DEF Good
  <2>3. N \in Good
    BY <1>1, <2>1, <2>2, SetInduction
  <2> QED
    BY <1>1, <2>3 DEF Good
<1>8. Set(N) = Elements(s)
  BY <1>1 DEF Elements
<1>9. Elements(Environment!MergeEnvironment(base, s)) = Elements(s) \cup Rest(N)
  BY <1>2, <1>6, <1>8
<1>10. ASSUME NEW more, K \subseteq more, \A i \in 1..N : s[i].key \in more
       PROVE  Environment!Without(Environment!MergeEnvironment(base, s), more, {})
                  = Environment!Without(base, more, {})
  BY <1>2, <1>7, <1>10
<1> QED
  BY <1>9, <1>10 DEF K

(* The keys of an override. *)
SetByProfile == {"CODEX_HOME", "CODEX_ELECTRON_USER_DATA_PATH"} \cup Environment!ProxyVariables

(* The environment e has the proxy variables of the overrides o alone,     *)
(* their home, and the rest of the base.                                   *)
ProxiesOf(e) == {e[i] : i \in UNION {{j \in DOMAIN e : e[j].key = k} :
                                      k \in Environment!ScrubbedProxyEnvironmentKeys}}

HomesOf(e) == {e[i].value : i \in {j \in DOMAIN e : e[j].key = "CODEX_HOME"}}

Foreign(e) ==
    LET Ours == Environment!ScrubbedProxyEnvironmentKeys
                    \cup {"CODEX_HOME", "CODEX_ELECTRON_USER_DATA_PATH"}
    IN  Environment!Without(e, Ours, {})

StartsRight(base, o, e) ==
    /\ ProxiesOf(e) = {x \in Elements(o) : x.key \in Environment!ProxyVariables}
    /\ HomesOf(e) \ {Bare} = {Home}
    /\ Foreign(e) = Foreign(base)

LEMMA StartLemma ==
    ASSUME NEW S, NEW base \in Seq(S), NEW o \in Seq(S),
           \A i, j \in 1..Len(o) : o[i].key = o[j].key => i = j,
           \A i \in 1..Len(o) : o[i].key \in SetByProfile,
           Environment!Entry("CODEX_HOME", Home) \in Elements(o),
           NEW e, e = Environment!MergeEnvironment(base, o)
    PROVE  StartsRight(base, o, e)
<1> DEFINE K == Environment!ScrubbedProxyEnvironmentKeys
           h == Environment!Entry("CODEX_HOME", Home)
           Ours == K \cup {"CODEX_HOME", "CODEX_ELECTRON_USER_DATA_PATH"}
           rest == {x \in Elements(base) :
                       /\ x.key \notin K
                       /\ x.value = Bare \/ \A i \in 1..Len(o) : x.key # o[i].key}
<1>1. e \in Seq(S)
  <2>1. PICK f : /\ Folds(f, o, Seq(S), Environment!Scrub(base), MergeStep(S))
                 /\ Environment!MergeEnvironment(base, o) = f[Len(o)]
    BY MergeFold
  <2>2. Len(o) \in 0..Len(o)
    OBVIOUS
  <2> QED
    BY <2>1, <2>2 DEF Folds
<1>2. K = {"HTTP_PROXY", "HTTPS_PROXY", "ALL_PROXY", "http_proxy", "https_proxy",
           "all_proxy", "NO_PROXY", "no_proxy"}
  BY DEF Environment!ScrubbedProxyEnvironmentKeys, Environment!ProxyVariables
<1>3. /\ Environment!ProxyVariables \subseteq K /\ "CODEX_HOME" \notin K
      /\ SetByProfile \cap K = Environment!ProxyVariables /\ SetByProfile \subseteq Ours
  BY <1>2 DEF SetByProfile, Environment!ProxyVariables
<1>4. /\ Elements(e) = Elements(o) \cup rest
      /\ \A more : (K \subseteq more /\ \A i \in 1..Len(o) : o[i].key \in more) =>
             Environment!Without(e, more, {}) = Environment!Without(base, more, {})
  BY MergeLemma
<1>5. \A x \in Elements(o) : x.key \in SetByProfile
  BY DEF Elements
<1>6. h \in Elements(o) /\ h.key = "CODEX_HOME" /\ h.value = Home
  BY DEF Environment!Entry
<1>7. \A x \in Elements(o) : x.key = "CODEX_HOME" => x = h
  <2>1. PICK i \in 1..Len(o) : o[i] = h
    BY <1>6 DEF Elements
  <2> QED
    BY <1>6, <2>1 DEF Elements
<1>8. \A x \in rest : x.key \notin K /\ (x.key = "CODEX_HOME" => x.value = Bare)
  <2>1. PICK i \in 1..Len(o) : o[i] = h
    BY <1>6 DEF Elements
  <2> QED
    BY <1>6, <2>1
<1>9. Environment!Without(e, Ours, {}) = Environment!Without(base, Ours, {})
  <2>1. K \subseteq Ours /\ \A i \in 1..Len(o) : o[i].key \in Ours
    BY <1>3
  <2> QED
    BY <1>4, <2>1
<1> HIDE DEF K, h, rest
<1>10. {x \in Elements(e) : x.key \in K}
           = {x \in Elements(o) : x.key \in Environment!ProxyVariables}
  BY <1>3, <1>4, <1>5, <1>8
<1>11. {x.value : x \in {y \in Elements(e) : y.key = "CODEX_HOME"}} \ {Bare} = {Home}
  BY <1>4, <1>6, <1>7, <1>8, BareAssumption
<1>12. /\ {e[i] : i \in UNION {{j \in DOMAIN e : e[j].key = k} : k \in K}}
               = {x \in Elements(e) : x.key \in K}
       /\ {e[i].value : i \in {j \in DOMAIN e : e[j].key = "CODEX_HOME"}}
               = {x.value : x \in {y \in Elements(e) : y.key = "CODEX_HOME"}}
  <2>1. DOMAIN e = 1..Len(e)
    BY <1>1
  <2>2. \A k : {j \in DOMAIN e : e[j].key = k} = {j \in 1..Len(e) : e[j].key = k}
    BY <2>1
  <2>3. UNION {{j \in DOMAIN e : e[j].key = k} : k \in K} = {j \in 1..Len(e) : e[j].key \in K}
    BY <2>2
  <2>4. {e[i] : i \in {j \in 1..Len(e) : e[j].key \in K}} = {x \in Elements(e) : x.key \in K}
    BY DEF Elements
  <2>5. {e[i].value : i \in {j \in 1..Len(e) : e[j].key = "CODEX_HOME"}}
            = {x.value : x \in {y \in Elements(e) : y.key = "CODEX_HOME"}}
    BY DEF Elements
  <2> QED
    BY <2>2, <2>3, <2>4, <2>5
<1> QED
  BY <1>1, <1>9, <1>10, <1>11, <1>12 DEF K, StartsRight, ProxiesOf, HomesOf, Foreign

(* The inductive invariant of the environment. *)
EnvironmentInv ==
    /\ inherited \in Seq(Environment!Entries)
    /\ started \in {"none", "guard", "open"}
    /\ ProxyOnlyFromProfile
    /\ HomeIsProfiles

LEMMA EnvironmentInit ==
    ASSUME Environment!Init \/ EnvironmentIdle
    PROVE  EnvironmentInv
<1>1. inherited \in Seq(Environment!Entries)
  <2>1. CASE Environment!Init
    BY <2>1 DEF Environment!Init, Environment!BoundedSeq, Environment!SeqOf
  <2>2. CASE EnvironmentIdle
    BY <2>2 DEF EnvironmentIdle
  <2> QED
    BY <2>1, <2>2
<1>2. started = "none"
  BY DEF Environment!Init, EnvironmentIdle
<1> QED
  BY <1>1, <1>2 DEF EnvironmentInv, ProxyOnlyFromProfile, HomeIsProfiles,
                    Environment!ProxyOnlyFromProfile, Environment!HomeIsProfiles

(* The overrides of the two commands. *)
LEMMA GuardOverrides ==
    LET o == Environment!GuardCommand.env
    IN  /\ o \in Seq(Elements(o))
        /\ \A i, j \in 1..Len(o) : o[i].key = o[j].key => i = j
        /\ \A i \in 1..Len(o) : o[i].key \in SetByProfile
        /\ Elements(o) = {Environment!Entry("CODEX_HOME", Home)}
<1> DEFINE h == Environment!Entry("CODEX_HOME", Home)
           o == Environment!GuardCommand.env
<1>1. o = <<h>> /\ h.key = "CODEX_HOME" /\ Len(<<h>>) = 1
  BY DEF Environment!GuardCommand, Environment!Entry
<1>2. Elements(o) = {h}
  BY <1>1 DEF Elements
<1> HIDE DEF o, h
<1> QED
  BY <1>1, <1>2 DEF o, h, SetByProfile

LEMMA OpenOverrides ==
    ASSUME NEW p
    PROVE  LET o == Environment!OpenCommand(p).env
               h == Environment!Entry("CODEX_HOME", Home)
               d == Environment!Entry("CODEX_ELECTRON_USER_DATA_PATH", Data)
           IN  /\ o \in Seq(Elements(o))
               /\ \A i, j \in 1..Len(o) : o[i].key = o[j].key => i = j
               /\ \A i \in 1..Len(o) : o[i].key \in SetByProfile
               /\ Elements(o) = {h, d} \cup
                      (IF p = Environment!NoProxy THEN {}
                       ELSE {Environment!Entry(k, p) : k \in Environment!ProxyVariables})
<1> DEFINE E(k, v) == Environment!Entry(k, v)
           o == Environment!OpenCommand(p).env
           h == E("CODEX_HOME", Home)
           d == E("CODEX_ELECTRON_USER_DATA_PATH", Data)
           x == E("HTTP_PROXY", p)
           y == E("HTTPS_PROXY", p)
           z == E("ALL_PROXY", p)
<1>1. /\ h.key = "CODEX_HOME" /\ d.key = "CODEX_ELECTRON_USER_DATA_PATH"
      /\ x.key = "HTTP_PROXY" /\ y.key = "HTTPS_PROXY" /\ z.key = "ALL_PROXY"
  BY DEF Environment!Entry
<1>2. {E(k, p) : k \in Environment!ProxyVariables} = {x, y, z}
  BY DEF Environment!ProxyVariables
<1>3. o = <<h, d>> \o (IF p = Environment!NoProxy THEN <<>> ELSE <<x, y, z>>)
  BY DEF Environment!OpenCommand
<1> HIDE DEF E, h, d, x, y, z, o
<1>4. CASE p = Environment!NoProxy
  <2>1. o = <<h, d>>
    BY <1>3, <1>4
  <2>2. Elements(o) = {h, d} /\ Len(o) = 2 /\ o[1] = h /\ o[2] = d /\ o \in Seq({h, d})
    BY <2>1 DEF Elements
  <2>3. /\ \A i, j \in 1..2 : o[i].key = o[j].key => i = j
        /\ \A i \in 1..2 : o[i].key \in SetByProfile
    BY <1>1, <2>2 DEF SetByProfile
  <2> QED
    BY <1>4, <2>2, <2>3 DEF o, h, d, E
<1>5. CASE p # Environment!NoProxy
  <2> DEFINE U == {h, d, x, y, z}
             first == <<h, d>>
             second == <<x, y, z>>
  <2>1. /\ first \in Seq(U) /\ second \in Seq(U) /\ Len(first) = 2 /\ Len(second) = 3
        /\ first[1] = h /\ first[2] = d /\ second[1] = x /\ second[2] = y /\ second[3] = z
    OBVIOUS
  <2>2. /\ Len(o) = 5 /\ o \in Seq({h, d, x, y, z})
        /\ o[1] = h /\ o[2] = d /\ o[3] = x /\ o[4] = y /\ o[5] = z
    <3>1. o = first \o second
      BY <1>3, <1>5
    <3> HIDE DEF first, second, U
    <3>2. /\ o \in Seq(U) /\ Len(o) = 2 + 3
          /\ \A i \in 1..(2 + 3) : o[i] = IF i <= 2 THEN first[i] ELSE second[i - 2]
      <4>1. first \in Seq(U) /\ second \in Seq(U)
        BY <2>1
      <4>2. /\ first \o second \in Seq(U) /\ Len(first \o second) = Len(first) + Len(second)
            /\ \A i \in 1..(Len(first) + Len(second)) : (first \o second)[i] =
                   IF i <= Len(first) THEN first[i] ELSE second[i - Len(first)]
        BY <4>1, ConcatProperties
      <4> QED
        BY <2>1, <3>1, <4>2
    <3>3. Len(o) = 5 /\ o[1] = h /\ o[2] = d /\ o[3] = x /\ o[4] = y /\ o[5] = z
      BY <2>1, <3>2
    <3> QED
      BY <3>2, <3>3 DEF U
  <2>3. 1..5 = {1, 2, 3, 4, 5}
    OBVIOUS
  <2>4. Elements(o) = {h, d} \cup {x, y, z}
    BY <2>2, <2>3 DEF Elements
  <2>5. /\ \A i, j \in 1..5 : o[i].key = o[j].key => i = j
        /\ \A i \in 1..5 : o[i].key \in SetByProfile
    BY <1>1, <2>2, <2>3 DEF SetByProfile, Environment!ProxyVariables
  <2>6. {h, d} \cup {x, y, z} = {h, d, x, y, z}
    OBVIOUS
  <2>7. o \in Seq(Elements(o))
    BY <2>2, <2>4, <2>6
  <2>8. Elements(o) = {h, d} \cup {E(k, p) : k \in Environment!ProxyVariables}
    BY <1>2, <2>4
  <2> QED
    BY <1>5, <2>2, <2>5, <2>7, <2>8 DEF o, h, d, E
<1> QED
  BY <1>4, <1>5

(* The arguments end with the proxy if there is one. *)
LEMMA ProxyArgument ==
    ASSUME NEW p
    PROVE  p # Environment!NoProxy <=>
               Environment!IsSuffix(<<"--proxy-server", p>>, Environment!OpenCommand(p).args)
<1> DEFINE a == Environment!OpenCommand(p).args
           s == <<"--proxy-server", p>>
           R(t) == [i \in 1..Len(t) |-> t[(Len(t) - i) + 1]]
<1>1. a = <<"--user-data-dir", Data>> \o
              (IF p = Environment!NoProxy THEN <<>> ELSE <<"--proxy-server", p>>)
  BY DEF Environment!OpenCommand
<1>2. Environment!IsSuffix(s, a) <=>
          Len(R(s)) <= Len(R(a)) /\ SubSeq(R(s), 1, Len(R(s))) = SubSeq(R(a), 1, Len(R(s)))
  BY DEF Environment!IsSuffix, Environment!IsPrefix, Environment!Reverse
<1>3. /\ Len(s) = 2 /\ s[1] = "--proxy-server" /\ s[2] = p
      /\ R(s) = [i \in 1..2 |-> IF i = 1 THEN p ELSE "--proxy-server"]
      /\ Len(R(s)) = 2 /\ R(s)[1] = p /\ R(s)[2] = "--proxy-server"
  OBVIOUS
<1> HIDE DEF a, s
<1>4. CASE p = Environment!NoProxy
  <2>1. a = <<"--user-data-dir", Data>>
    BY <1>1, <1>4
  <2>2. Len(a) = 2 /\ a[1] = "--user-data-dir"
    BY <2>1
  <2>3. Len(R(a)) = 2 /\ R(a)[2] = "--user-data-dir"
    BY <2>2
  <2> HIDE DEF R
  <2>4. SubSeq(R(s), 1, 2)[2] = R(s)[2] /\ SubSeq(R(a), 1, 2)[2] = R(a)[2]
    OBVIOUS
  <2>5. SubSeq(R(s), 1, 2) # SubSeq(R(a), 1, 2)
    BY <1>3, <2>3, <2>4
  <2> QED
    BY <1>2, <1>3, <1>4, <2>5 DEF a, s
<1>5. CASE p # Environment!NoProxy
  <2>1. a = <<"--user-data-dir", Data>> \o <<"--proxy-server", p>>
    BY <1>1, <1>5
  <2>2. Len(a) = 4 /\ a[3] = "--proxy-server" /\ a[4] = p
    BY <2>1
  <2>3. Len(R(a)) = 4 /\ R(a)[1] = p /\ R(a)[2] = "--proxy-server"
    BY <2>2
  <2> HIDE DEF R
  <2>4. SubSeq(R(s), 1, 2) = SubSeq(R(a), 1, 2)
    <3>1. \A t : SubSeq(t, 1, 2) = [i \in 1..2 |-> t[i]]
      OBVIOUS
    <3>2. \A i \in 1..2 : R(s)[i] = R(a)[i]
      BY <1>3, <2>3
    <3> QED
      BY <3>1, <3>2
  <2>5. Environment!IsSuffix(s, a)
    BY <1>2, <1>3, <2>3, <2>4
  <2> QED
    BY <1>5, <2>5 DEF a, s
<1> QED
  BY <1>4, <1>5 DEF a, s

LEMMA EnvironmentStep ==
    ASSUME EnvironmentInv, Environment!Next \/ UNCHANGED environmentVars
    PROVE  EnvironmentInv'
<1> DEFINE h == Environment!Entry("CODEX_HOME", Home)
<1>1. CASE UNCHANGED environmentVars \/ Environment!Finished
  <2>1. UNCHANGED <<inherited, proxy, started, environment, arguments>>
    BY <1>1 DEF environmentVars, Environment!Finished, Environment!vars
  <2>2. ProxyOnlyFromProfile'
    <3>1. \A k : Environment!At(k)' = Environment!At(k)
      BY <2>1 DEF Environment!At
    <3> QED
      BY <2>1, <3>1 DEF EnvironmentInv, ProxyOnlyFromProfile,
                        Environment!ProxyOnlyFromProfile
  <2>3. HomeIsProfiles'
    BY <2>1 DEF EnvironmentInv, HomeIsProfiles, Environment!HomeIsProfiles, Environment!At
  <2> QED
    BY <2>1, <2>2, <2>3 DEF EnvironmentInv
<1>2. ASSUME NEW o, o \in Seq(Elements(o)),
             \A i, j \in 1..Len(o) : o[i].key = o[j].key => i = j,
             \A i \in 1..Len(o) : o[i].key \in SetByProfile,
             h \in Elements(o),
             environment' = Environment!MergeEnvironment(inherited, o)
      PROVE  StartsRight(inherited, o, environment')
  <2> DEFINE S == Environment!Entries \cup Elements(o)
  <2>1. inherited \in Seq(S) /\ o \in Seq(S)
    BY <1>2 DEF EnvironmentInv
  <2> HIDE DEF S
  <2> QED
    BY <1>2, <2>1, StartLemma
<1>3. ASSUME started' # "none", inherited' = inherited,
             NEW o, StartsRight(inherited, o, environment')
      PROVE  HomeIsProfiles'
  BY <1>3 DEF HomeIsProfiles, Environment!HomeIsProfiles, Environment!At,
              StartsRight, HomesOf, Foreign
<1>4. CASE Environment!Guard
  <2> DEFINE o == Environment!GuardCommand.env
  <2>1. /\ inherited' = inherited /\ started' = "guard"
        /\ environment' = Environment!MergeEnvironment(inherited, o)
    BY <1>4 DEF Environment!Guard, Environment!Run
  <2>2. /\ o \in Seq(Elements(o))
        /\ \A i, j \in 1..Len(o) : o[i].key = o[j].key => i = j
        /\ \A i \in 1..Len(o) : o[i].key \in SetByProfile
        /\ Elements(o) = {h}
    BY GuardOverrides
  <2> HIDE DEF o, h
  <2>3. StartsRight(inherited, o, environment')
    BY <1>2, <2>1, <2>2
  <2>4. ProxiesOf(environment') = {}
    <3>1. h.key \notin Environment!ProxyVariables
      BY DEF h, Environment!Entry, Environment!ProxyVariables
    <3> QED
      BY <2>2, <2>3, <3>1 DEF StartsRight
  <2>5. ProxyOnlyFromProfile'
    BY <2>1, <2>4 DEF ProxyOnlyFromProfile, Environment!ProxyOnlyFromProfile,
                      Environment!At, ProxiesOf
  <2>6. HomeIsProfiles'
    BY <1>3, <2>1, <2>3
  <2> QED
    BY <2>1, <2>5, <2>6 DEF EnvironmentInv
<1>5. CASE Environment!Open
  <2> DEFINE o == Environment!OpenCommand(proxy).env
             d == Environment!Entry("CODEX_ELECTRON_USER_DATA_PATH", Data)
             ours == IF proxy = Environment!NoProxy THEN {}
                     ELSE {Environment!Entry(k, proxy) : k \in Environment!ProxyVariables}
  <2>1. /\ inherited' = inherited /\ started' = "open" /\ proxy' = proxy
        /\ environment' = Environment!MergeEnvironment(inherited, o)
        /\ arguments' = Environment!OpenCommand(proxy).args
    BY <1>5 DEF Environment!Open, Environment!Run
  <2>2. /\ o \in Seq(Elements(o))
        /\ \A i, j \in 1..Len(o) : o[i].key = o[j].key => i = j
        /\ \A i \in 1..Len(o) : o[i].key \in SetByProfile
        /\ Elements(o) = {h, d} \cup ours
    BY OpenOverrides
  <2>3. /\ h.key \notin Environment!ProxyVariables /\ d.key \notin Environment!ProxyVariables
        /\ \A x \in ours : x.key \in Environment!ProxyVariables
    BY DEF Environment!Entry, Environment!ProxyVariables
  <2> HIDE DEF o, h, d, ours
  <2>4. StartsRight(inherited, o, environment')
    BY <1>2, <2>1, <2>2
  <2>5. ProxiesOf(environment') = ours
    BY <2>2, <2>3, <2>4 DEF StartsRight
  <2>6. proxy # Environment!NoProxy <=>
            Environment!IsSuffix(<<"--proxy-server", proxy>>, arguments')
    BY <2>1, ProxyArgument
  <2>7. ProxyOnlyFromProfile'
    BY <2>1, <2>5, <2>6 DEF ProxyOnlyFromProfile, Environment!ProxyOnlyFromProfile,
                            Environment!At, ProxiesOf, ours
  <2>8. HomeIsProfiles'
    BY <1>3, <2>1, <2>4
  <2> QED
    BY <2>1, <2>7, <2>8 DEF EnvironmentInv
<1> QED
  BY <1>1, <1>4, <1>5 DEF Environment!Next

LEMMA EnvironmentCorrect == Spec => []EnvironmentInv
<1>1. Init => EnvironmentInv
  BY EnvironmentInit DEF Init
<1>2. EnvironmentInv /\ [Next]_vars => EnvironmentInv'
  BY EnvironmentStep DEF Next, vars, environmentVars
<1> QED
  BY <1>1, <1>2, PTL DEF Spec

(* However many variables the shell passes on, a command sees no proxy but *)
(* the profile's, in all three variables and among its arguments, or none  *)
(* at all (mergeEnvironment and BuildOpenCommand of launch.go).            *)
THEOREM ProxyIsProfiles == Spec => []ProxyOnlyFromProfile
<1>1. EnvironmentInv => ProxyOnlyFromProfile
  BY DEF EnvironmentInv
<1> QED
  BY <1>1, EnvironmentCorrect, PTL

(* However often the shell sets CODEX_HOME, a command finds the profile's  *)
(* home there, and what the shell set besides in its order                 *)
(* (mergeEnvironment of launch.go).                                        *)
THEOREM HomeIsTheProfiles == Spec => []HomeIsProfiles
<1>1. EnvironmentInv => HomeIsProfiles
  BY DEF EnvironmentInv
<1> QED
  BY <1>1, EnvironmentCorrect, PTL

-----------------------------------------------------------------------------
(* The configured paths. *)

(* Where a command runs matters for a relative home only, and that one is  *)
(* refused before it is used.                                              *)
LEMMA RootFromAnywhere ==
    ASSUME raw' = raw, home' = home
    PROVE  Paths!RuntimeRoot' = Paths!RuntimeRoot
<1> DEFINE h == Paths!ResolveHomeDir(home)
<1>1. Paths!ResolveHomeDir(home)' = h /\ (h # Error => h.abs /\ h # Paths!EmptyPath)
  BY DEF Paths!ResolveHomeDir, Paths!NormalizePath, Paths!ExpandAndClean, Paths!ExpandHome,
         Paths!EmptyPath, Paths!Rel
<1>2. ASSUME h # Error, NEW path
      PROVE  Paths!NormalizePath(path, h)' = Paths!NormalizePath(path, h)
  BY <1>1, <1>2 DEF Paths!NormalizePath, Paths!ExpandAndClean, Paths!ExpandHome,
                    Paths!MakeAbsolute
<1> QED
  BY <1>1, <1>2 DEF Paths!RuntimeRoot

PathsFixed == resolved # Paths!EmptyPath => resolved = Paths!RuntimeRoot

LEMMA PathsFixedCorrect == Spec => []PathsFixed
<1>1. Init => PathsFixed
  BY DEF Init, PathsFixed, Paths!Init, PathsIdle, Paths!EmptyPath
<1>2. ASSUME PathsFixed, [Next]_vars PROVE PathsFixed'
  <2>1. CASE Paths!Resolve
    <3>1. raw' = raw /\ home' = home /\ resolved' = Paths!RuntimeRoot
      BY <2>1 DEF Paths!Resolve
    <3> QED
      BY <3>1, RootFromAnywhere DEF PathsFixed
  <2>2. ASSUME UNCHANGED <<raw, home, resolved>> PROVE PathsFixed'
    BY <1>2, <2>2, RootFromAnywhere DEF PathsFixed, Paths!EmptyPath
  <2> QED
    BY <1>2, <2>1, <2>2 DEF Next, vars, pathVars, Paths!Next, Paths!ChangeDirectory
<1> QED
  BY <1>1, <1>2, PTL DEF Spec

(* Commands that run in different directories use the same root (Resolve   *)
(* of config.go, NormalizePath of paths.go).                               *)
THEOREM RootStays == Spec => RootIsStable
<1>1. PathsFixed /\ [Next]_vars =>
          [resolved # Paths!EmptyPath => resolved' = resolved]_<<raw, home, cwd, resolved>>
  BY DEF PathsFixed, Next, vars, pathVars, Paths!Next, Paths!Resolve, Paths!ChangeDirectory
<1>2. Spec => [][resolved # Paths!EmptyPath => resolved' = resolved]_<<raw, home, cwd, resolved>>
  BY <1>1, PathsFixedCorrect, PTL DEF Spec
<1> QED
  BY <1>2 DEF RootIsStable, Paths!RootIsStable, Paths!vars

(* The parts of an absolute path, cleaned one by one. *)
CleanStep(S) == [q \in Seq(S) \X S |-> Paths!CleanPart(q[1], q[2], TRUE)]

LEMMA CleanPartTyped ==
    ASSUME NEW S, NEW done \in Seq(S), NEW e \in S
    PROVE  Paths!CleanPart(done, e, TRUE) \in Seq(S)
<1>1. done # <<>> => Paths!Front(done) \in Seq(S)
  BY DEF Paths!Front
<1> QED
  BY <1>1 DEF Paths!CleanPart

LEMMA CleanFold ==
    ASSUME NEW S, NEW s \in Seq(S)
    PROVE  \E f : /\ Folds(f, s, Seq(S), <<>>, CleanStep(S))
                  /\ Paths!CleanParts(Paths!Abs(s)) = f[Len(s)]
<1> DEFINE A == Seq(S)
           nothing == <<>>
           H == [q \in A \X S |-> Paths!CleanPart(q[1], q[2], TRUE)]
           Step(f, k) == IF k = 0 THEN <<>> ELSE Paths!CleanPart(f[k - 1], s[k], TRUE)
           IsDone(f) == f = [k \in 0..Len(s) |-> Step(f, k)]
<1>1. Len(s) \in Nat /\ \A k \in 1..Len(s) : s[k] \in S /\ k - 1 \in 0..Len(s) /\ k # 0
  OBVIOUS
<1>2. H \in [A \X S -> A]
  BY CleanPartTyped
<1>3. ASSUME NEW f, NEW k \in 1..Len(s), f[k - 1] \in A
      PROVE  Step(f, k) = H[<<f[k - 1], s[k]>>]
  <2>1. <<f[k - 1], s[k]>> \in A \X S
    BY <1>1, <1>3
  <2> QED
    BY <1>1, <2>1
<1>4. \A k \in 0..Len(s) : k = 0 \/ k \in 1..Len(s)
  BY <1>1
<1>5. nothing \in A
  OBVIOUS
<1> HIDE DEF A, H, nothing
<1>6. \E f : IsDone(f)
  <2>1. PICK f : Folds(f, s, A, nothing, H)
    BY <1>2, <1>5, FoldExists
  <2>2. f \in [0..Len(s) -> A] /\ f[0] = nothing
    BY <2>1 DEF Folds
  <2>3. \A k \in 1..Len(s) : f[k] = Step(f, k)
    BY <1>1, <1>3, <2>1, <2>2 DEF Folds
  <2>4. f[0] = Step(f, 0)
    BY <2>2 DEF nothing
  <2>5. \A k \in 0..Len(s) : f[k] = Step(f, k)
    BY <1>4, <2>3, <2>4
  <2> HIDE DEF Step
  <2> QED
    BY <2>2, <2>5
<1>7. ASSUME NEW f, IsDone(f) PROVE Folds(f, s, A, nothing, H)
  <2>1. 0 \in 0..Len(s) /\ 1..Len(s) \subseteq 0..Len(s)
    BY <1>1
  <2>2. f = [k \in 0..Len(s) |-> f[k]] /\ \A k \in 0..Len(s) : f[k] = Step(f, k)
    <3> HIDE DEF Step
    <3> QED
      BY <1>7
  <2>3. f[0] = nothing
    BY <2>1, <2>2 DEF nothing
  <2>4. \A k \in 1..Len(s) : f[k - 1] \in A => f[k] = H[<<f[k - 1], s[k]>>]
    <3> HIDE DEF Step
    <3> QED
      BY <1>3, <2>1, <2>2
  <2> QED
    <3>1. f \in [0..Len(s) -> {f[k] : k \in 0..Len(s)}]
      BY <2>2
    <3> QED
      BY <1>2, <1>5, <2>3, <2>4, <3>1, FoldTyped
<1>8. Paths!CleanParts(Paths!Abs(s)) = (CHOOSE f : IsDone(f))[Len(s)]
  <2>1. Paths!Abs(s).parts = s /\ Paths!Abs(s).abs = TRUE
    BY DEF Paths!Abs
  <2> QED
    BY <2>1, ZenonT(30) DEF Paths!CleanParts
<1> HIDE DEF IsDone
<1>9. PICK f : f = (CHOOSE g : IsDone(g)) /\ IsDone(f)
  BY <1>6
<1>10. Folds(f, s, A, nothing, H) /\ Paths!CleanParts(Paths!Abs(s)) = f[Len(s)]
  BY <1>7, <1>8, <1>9
<1> QED
  BY <1>10 DEF A, H, nothing, CleanStep

(* What cleaning does with an absolute path that grows.                    *)
Cleans(S) ==
    /\ Paths!CleanParts(Paths!Abs(<<>>)) = <<>>
    /\ \A s \in Seq(S) : Paths!CleanParts(Paths!Abs(s)) \in Seq(S)
    /\ \A s \in Seq(S), e \in S :
           Paths!CleanParts(Paths!Abs(Append(s, e)))
               = Paths!CleanPart(Paths!CleanParts(Paths!Abs(s)), e, TRUE)

LEMMA CleanLemma ==
    ASSUME NEW S
    PROVE  Cleans(S)
<1> DEFINE A == Seq(S)
           H == CleanStep(S)
           C(s) == Paths!CleanParts(Paths!Abs(s))
<1>1. ASSUME NEW s \in Seq(S)
      PROVE  \E f : Folds(f, s, A, <<>>, H) /\ C(s) = f[Len(s)]
  BY CleanFold
<1> HIDE DEF H, C
<1>2. C(<<>>) = <<>>
  <2>1. <<>> \in Seq(S) /\ Len(<<>>) = 0
    OBVIOUS
  <2> QED
    BY <1>1, <2>1 DEF Folds
<1>3. \A s \in Seq(S) : C(s) \in A
  <2> SUFFICES ASSUME NEW s \in Seq(S) PROVE C(s) \in A
    OBVIOUS
  <2>1. PICK f : Folds(f, s, A, <<>>, H) /\ C(s) = f[Len(s)]
    BY <1>1
  <2>2. Len(s) \in 0..Len(s)
    OBVIOUS
  <2> QED
    BY <2>1, <2>2 DEF Folds
<1>4. ASSUME NEW s \in Seq(S), NEW e \in S
      PROVE  C(Append(s, e)) = Paths!CleanPart(C(s), e, TRUE)
  <2>1. Append(s, e) \in Seq(S)
    OBVIOUS
  <2>2. PICK f : Folds(f, s, A, <<>>, H) /\ C(s) = f[Len(s)]
    BY <1>1
  <2>3. PICK g : /\ Folds(g, Append(s, e), A, <<>>, H)
                 /\ C(Append(s, e)) = g[Len(Append(s, e))]
    BY <1>1, <2>1
  <2>4. C(Append(s, e)) = H[<<C(s), e>>]
    BY <2>2, <2>3, FoldAppend
  <2>5. <<C(s), e>> \in A \X S
    BY <1>3
  <2> QED
    BY <2>4, <2>5 DEF H, CleanStep
<1> QED
  BY <1>2, <1>3, <1>4 DEF C, Cleans

(* Parts of an absolute path in normal form.                               *)
Special == {Paths!Empty, ".", ".."}

Normal(s) == \A i \in 1..Len(s) : s[i] \notin Special

LEMMA EmptyPart ==
    Paths!Empty \notin {".", "..", "Library", "Application Support",
                        "CodexProfileRuntime", "config.json"}
  BY Zenon DEF Paths!Empty

(* Cleaning yields a normal form, and leaves one as it is.                 *)
LEMMA CleanNormal ==
    ASSUME NEW S, NEW s \in Seq(S)
    PROVE  /\ Paths!CleanParts(Paths!Abs(s)) \in Seq(S)
           /\ Normal(Paths!CleanParts(Paths!Abs(s)))
           /\ Normal(s) => Paths!CleanParts(Paths!Abs(s)) = s
<1> DEFINE C(t) == Paths!CleanParts(Paths!Abs(t))
           Q == {t \in Seq(S) : Normal(C(t)) /\ (Normal(t) => C(t) = t)}
<1>1. /\ C(<<>>) = <<>> /\ \A t \in Seq(S) : C(t) \in Seq(S)
      /\ \A t \in Seq(S), e \in S : C(Append(t, e)) = Paths!CleanPart(C(t), e, TRUE)
  BY CleanLemma DEF Cleans
<1> HIDE DEF C
<1>2. <<>> \in Q
  BY <1>1 DEF Normal
<1>3. ASSUME NEW d \in Seq(S), NEW e \in S, Normal(d)
      PROVE  /\ Normal(Paths!CleanPart(d, e, TRUE))
             /\ e \notin Special => Paths!CleanPart(d, e, TRUE) = Append(d, e)
  <2>1. CASE e \in {Paths!Empty, "."}
    <3>1. Paths!CleanPart(d, e, TRUE) = d
      BY <2>1, EmptyPart DEF Paths!CleanPart
    <3> QED
      BY <1>3, <2>1, <3>1 DEF Special
  <2>2. CASE e \notin {Paths!Empty, "."} /\ e = ".." /\ d # <<>>
    <3>1. Len(d) \in 1..Len(d) /\ Paths!Last(d) # ".."
      BY <1>3, <2>2 DEF Paths!Last, Normal, Special
    <3>2. Paths!CleanPart(d, e, TRUE) = SubSeq(d, 1, Len(d) - 1)
      BY <2>2, <3>1 DEF Paths!CleanPart, Paths!Front
    <3>3. Normal(SubSeq(d, 1, Len(d) - 1))
      BY <1>3, <3>1 DEF Normal
    <3> QED
      BY <2>2, <3>2, <3>3 DEF Special
  <2>3. CASE e \notin {Paths!Empty, "."} /\ e = ".." /\ d = <<>>
    <3>1. Paths!CleanPart(d, e, TRUE) = d
      BY <2>3 DEF Paths!CleanPart
    <3> QED
      BY <1>3, <2>3, <3>1 DEF Special
  <2>4. CASE e \notin Special
    <3>1. Paths!CleanPart(d, e, TRUE) = Append(d, e)
      BY <2>4 DEF Paths!CleanPart, Special
    <3>2. Normal(Append(d, e))
      BY <1>3, <2>4 DEF Normal
    <3> QED
      BY <3>1, <3>2
  <2> QED
    BY <2>1, <2>2, <2>3, <2>4 DEF Special
<1>4. ASSUME NEW t \in Seq(S), NEW e \in S, t \in Q PROVE Append(t, e) \in Q
  <2>1. /\ C(t) \in Seq(S) /\ Normal(C(t)) /\ (Normal(t) => C(t) = t)
        /\ C(Append(t, e)) = Paths!CleanPart(C(t), e, TRUE) /\ Append(t, e) \in Seq(S)
    <3>1. Normal(C(t)) /\ (Normal(t) => C(t) = t)
      BY <1>4
    <3>2. C(t) \in Seq(S)
      BY <1>1
    <3>3. C(Append(t, e)) = Paths!CleanPart(C(t), e, TRUE)
      BY <1>1
    <3>4. Append(t, e) \in Seq(S)
      OBVIOUS
    <3> QED
      BY <3>1, <3>2, <3>3, <3>4
  <2>2. Normal(C(Append(t, e)))
    BY <1>3, <2>1
  <2>3. ASSUME Normal(Append(t, e)) PROVE Normal(t) /\ e \notin Special
    <3>1. /\ Len(Append(t, e)) = Len(t) + 1 /\ Append(t, e)[Len(t) + 1] = e
          /\ \A i \in 1..Len(t) : Append(t, e)[i] = t[i] /\ i \in 1..(Len(t) + 1)
          /\ Len(t) + 1 \in 1..(Len(t) + 1)
      OBVIOUS
    <3> QED
      BY <2>3, <3>1 DEF Normal
  <2>4. Normal(Append(t, e)) => C(Append(t, e)) = Append(t, e)
    BY <1>3, <2>1, <2>3
  <2> QED
    BY <2>1, <2>2, <2>4
<1>5. s \in Q
  <2> HIDE DEF Q
  <2> QED
    BY <1>2, <1>4, SequenceInduction
<1> QED
  BY <1>1, <1>5 DEF C

(* Paths, and the absolute ones in normal form.                            *)
Name == STRING \cup {"Library", "Application Support", "CodexProfileRuntime", "config.json"}

AnyPath == [abs : BOOLEAN, parts : Seq(Name)]

NormalPath == {Paths!Abs(s) : s \in {t \in Seq(Name) : Normal(t)}}

LEMMA NormalPathTyped ==
    ASSUME NEW path \in NormalPath
    PROVE  /\ path \in AnyPath /\ path.abs /\ path # Paths!EmptyPath
           /\ path.parts \in Seq(Name) /\ Normal(path.parts) /\ path = Paths!Abs(path.parts)
<1>1. PICK s \in Seq(Name) : Normal(s) /\ path = Paths!Abs(s)
  BY DEF NormalPath
<1> QED
  BY <1>1 DEF AnyPath, Paths!Abs, Paths!EmptyPath, Paths!Rel

LEMMA AbsoluteParts ==
    ASSUME NEW path \in AnyPath, path.abs
    PROVE  /\ path = Paths!Abs(path.parts)
           /\ \A q : [path EXCEPT !.parts = q] = Paths!Abs(q)
<1>1. path.abs = TRUE
  BY DEF AnyPath
<1>2. path = [abs |-> path.abs, parts |-> path.parts]
  BY DEF AnyPath
<1>3. ASSUME NEW q PROVE [path EXCEPT !.parts = q] = [abs |-> path.abs, parts |-> q]
  <2> DEFINE x == [path EXCEPT !.parts = q]
  <2>1. x \in [abs : BOOLEAN, parts : {q}]
    BY DEF AnyPath
  <2>2. x.abs = path.abs /\ x.parts = q
    BY DEF AnyPath
  <2> HIDE DEF x
  <2>3. x = [abs |-> x.abs, parts |-> x.parts]
    BY <2>1
  <2>4. x = [abs |-> path.abs, parts |-> q]
    BY <2>2, <2>3
  <2> QED
    BY <2>4 DEF x
<1> QED
  BY <1>1, <1>2, <1>3 DEF Paths!Abs

LEMMA CleanAbsolute ==
    ASSUME NEW path \in AnyPath
    PROVE  /\ Paths!Clean(path).abs = path.abs
           /\ path.abs => /\ path = Paths!Abs(path.parts)
                          /\ Paths!Clean(path) = Paths!Abs(Paths!CleanParts(path))
                          /\ Paths!Clean(path) \in NormalPath
           /\ path \in NormalPath => Paths!Clean(path) = path
<1>1. path.parts \in Seq(Name) /\ path.abs \in BOOLEAN
  BY DEF AnyPath
<1>2. Paths!Clean(path).abs = path.abs
  BY DEF AnyPath, Paths!Clean
<1>3. ASSUME path.abs
      PROVE  /\ path = Paths!Abs(path.parts)
             /\ Paths!Clean(path) = Paths!Abs(Paths!CleanParts(path))
  <2>1. path = Paths!Abs(path.parts) /\ \A q : [path EXCEPT !.parts = q] = Paths!Abs(q)
    BY <1>3, AbsoluteParts
  <2>2. Paths!Clean(path) = [path EXCEPT !.parts = Paths!CleanParts(path)]
    BY <1>3 DEF Paths!Clean
  <2> QED
    BY <2>1, <2>2
<1>4. ASSUME path.abs PROVE Paths!Clean(path) \in NormalPath
  <2>1. Paths!CleanParts(path) \in Seq(Name) /\ Normal(Paths!CleanParts(path))
    BY <1>1, <1>3, <1>4, CleanNormal
  <2> QED
    BY <1>3, <1>4, <2>1 DEF NormalPath
<1>5. ASSUME path \in NormalPath PROVE Paths!Clean(path) = path
  <2>1. path.abs /\ Normal(path.parts)
    BY <1>5, NormalPathTyped
  <2>2. Paths!CleanParts(path) = path.parts
    BY <1>1, <1>3, <2>1, CleanNormal
  <2> QED
    BY <1>3, <2>1, <2>2
<1> QED
  BY <1>2, <1>3, <1>4, <1>5

(* A path that hangs below another one.                                    *)
LEMMA JoinBelow ==
    ASSUME NEW path \in AnyPath, path.abs, NEW s \in Seq(Name)
    PROVE  /\ Paths!Join(path, s) = Paths!Clean(Paths!Abs(path.parts \o s))
           /\ Paths!Join(path, s) \in NormalPath
<1>1. path.parts \in Seq(Name) /\ path = Paths!Abs(path.parts)
  BY CleanAbsolute DEF AnyPath
<1>2. path.parts \o s \in Seq(Name)
  BY <1>1
<1>3. [path EXCEPT !.parts = @ \o s] = Paths!Abs(path.parts \o s)
  BY AbsoluteParts
<1>4. Paths!Abs(path.parts \o s) \in AnyPath /\ Paths!Abs(path.parts \o s).abs
  BY <1>2 DEF Paths!Abs, AnyPath
<1> QED
  BY <1>3, <1>4, CleanAbsolute DEF Paths!Join

(* What NormalizePath accepts is absolute and in normal form, and such a   *)
(* path stays as it is.                                                    *)
LEMMA Normalized ==
    ASSUME NEW path \in AnyPath, NEW h \in NormalPath \cup {Paths!EmptyPath}
    PROVE  Paths!NormalizePath(path, h) \in NormalPath \cup {Error}
<1> DEFINE expanded == Paths!ExpandHome(path, h)
<1>1. CASE expanded = Error
  BY <1>1 DEF Paths!NormalizePath, Paths!ExpandAndClean
<1>2. CASE expanded = path
  BY <1>2, CleanAbsolute DEF Paths!NormalizePath, Paths!ExpandAndClean
<1>3. CASE expanded \in NormalPath
  <2>1. expanded \in AnyPath
    BY <1>3, NormalPathTyped
  <2>2. Paths!Clean(expanded) = expanded
    BY <1>3, <2>1, CleanAbsolute
  <2> QED
    BY <1>3, <2>2 DEF Paths!NormalizePath, Paths!ExpandAndClean
<1>4. expanded = Error \/ expanded = path \/ expanded \in NormalPath
  <2>1. CASE Paths!IsTilde(path) /\ h # Paths!EmptyPath /\ ~Paths!IsOtherUser(path)
    <3>1. h \in AnyPath /\ h.abs /\ h \in NormalPath
      BY <2>1, NormalPathTyped
    <3>2. Paths!MakeAbsolute(h) = h
      BY <3>1, CleanAbsolute DEF Paths!MakeAbsolute
    <3>3. path.parts \in Seq(Name) /\ path.parts # <<>>
      BY <2>1 DEF AnyPath, Paths!IsTilde
    <3>4. Tail(path.parts) \in Seq(Name)
      BY <3>3, HeadTailProperties
    <3>5. expanded = Paths!Join(h, Tail(path.parts))
      BY <2>1, <3>2 DEF Paths!ExpandHome
    <3> QED
      BY <3>1, <3>4, <3>5, JoinBelow
  <2>2. CASE ~(Paths!IsTilde(path) /\ h # Paths!EmptyPath /\ ~Paths!IsOtherUser(path))
    <3>1. ~(Paths!IsTilde(path) /\ Paths!IsOtherUser(path))
      BY DEF Paths!IsTilde, Paths!IsOtherUser
    <3>2. CASE Paths!IsOtherUser(path)
      <4>1. expanded = Error
        BY <3>1, <3>2 DEF Paths!ExpandHome
      <4> QED
        BY <4>1
    <3>3. CASE Paths!IsTilde(path) /\ ~Paths!IsOtherUser(path)
      <4>1. expanded = Error
        BY <2>2, <3>3 DEF Paths!ExpandHome
      <4> QED
        BY <4>1
    <3>4. CASE ~Paths!IsTilde(path) /\ ~Paths!IsOtherUser(path)
      <4>1. expanded = path
        BY <3>4 DEF Paths!ExpandHome
      <4> QED
        BY <4>1
    <3> QED
      BY <3>2, <3>3, <3>4
  <2> QED
    BY <2>1, <2>2
<1> QED
  BY <1>1, <1>2, <1>3, <1>4

LEMMA NormalizedStays ==
    ASSUME NEW path \in NormalPath, path # Error, NEW h
    PROVE  /\ Paths!ExpandAndClean(path, h) = path
           /\ Paths!NormalizePath(path, h) = path
<1>1. path \in AnyPath /\ path.abs /\ path # Paths!EmptyPath
  BY NormalPathTyped
<1>2. Paths!ExpandHome(path, h) = path
  BY <1>1 DEF Paths!ExpandHome, Paths!IsTilde, Paths!IsOtherUser
<1>3. Paths!Clean(path) = path
  BY <1>1, CleanAbsolute
<1>4. Paths!ExpandAndClean(path, h) = path
  BY <1>1, <1>2, <1>3 DEF Paths!ExpandAndClean
<1> QED
  BY <1>1, <1>4 DEF Paths!NormalizePath

(* The raw path and the home are paths.                                    *)
PathsTyped == raw \in AnyPath /\ home \in AnyPath

LEMMA WiderSeq ==
    ASSUME NEW S, NEW T, S \subseteq T
    PROVE  Seq(S) \subseteq Seq(T)
  OBVIOUS

LEMMA PathsTypedCorrect == Spec => []PathsTyped
<1>1. Paths!Rel(<<>>) \in AnyPath
  BY DEF AnyPath, Paths!Rel
<1>2. Init => PathsTyped
  <2>1. CASE PathsIdle
    BY <1>1, <2>1 DEF PathsIdle, PathsTyped
  <2>2. CASE Paths!Init
    <3>1. home \in AnyPath
      <4>1. Seq(STRING) \subseteq Seq(Name)
        BY WiderSeq DEF Name
      <4>2. home \in [abs : BOOLEAN, parts : Seq(STRING)]
        BY <2>2, HomesAssumption DEF Paths!Init
      <4> QED
        BY <4>1, <4>2 DEF AnyPath
    <3>2. raw \in AnyPath
      <4>1. raw \in [abs : BOOLEAN, parts : Paths!BoundedSeq(Parts, MaxParts)]
        BY <2>2 DEF Paths!Init
      <4>2. Paths!BoundedSeq(Parts, MaxParts) \subseteq Seq(Name)
        <5>1. Paths!BoundedSeq(Parts, MaxParts) \subseteq Seq(Parts)
          BY DEF Paths!BoundedSeq, Paths!SeqOf
        <5>2. Seq(Parts) \subseteq Seq(Name)
          BY PartsAssumption, WiderSeq DEF Name
        <5> QED
          BY <5>1, <5>2
      <4> QED
        BY <4>1, <4>2 DEF AnyPath
    <3> QED
      BY <3>1, <3>2 DEF PathsTyped
  <2> QED
    BY <2>1, <2>2 DEF Init
<1>3. PathsTyped /\ [Next]_vars => PathsTyped'
  BY DEF PathsTyped, Next, vars, pathVars, Paths!Next, Paths!Resolve, Paths!ChangeDirectory
<1> QED
  BY <1>2, <1>3, PTL DEF Spec

LEMMA HomeDirNormal ==
    ASSUME PathsTyped
    PROVE  Paths!ResolveHomeDir(home) \in NormalPath \cup {Error}
  BY Normalized DEF PathsTyped, Paths!ResolveHomeDir

LibraryParts == <<"Library", "Application Support", "CodexProfileRuntime">>

LEMMA LibraryTyped ==
    LibraryParts \in Seq(Name) /\ <<"config.json">> \in Seq(Name) /\ Normal(LibraryParts)
<1>1. /\ Len(LibraryParts) = 3 /\ LibraryParts[1] = "Library"
      /\ LibraryParts[2] = "Application Support" /\ LibraryParts[3] = "CodexProfileRuntime"
  BY DEF LibraryParts
<1>2. LibraryParts \in Seq(Name) /\ <<"config.json">> \in Seq(Name)
  BY DEF LibraryParts, Name
<1>3. 1..3 = {1, 2, 3}
  OBVIOUS
<1>4. \A i \in {1, 2, 3} : LibraryParts[i] \notin Special
  BY <1>1, EmptyPart DEF Special
<1> QED
  BY <1>1, <1>2, <1>3, <1>4 DEF Normal

LEMMA RootNormal ==
    ASSUME PathsTyped
    PROVE  Paths!RuntimeRoot \in NormalPath \cup {Error}
<1> DEFINE h == Paths!ResolveHomeDir(home)
<1>1. CASE h = Error
  BY <1>1 DEF Paths!RuntimeRoot
<1>2. CASE h # Error
  <2>1. h \in NormalPath
    BY <1>2, HomeDirNormal
  <2>2. h \in AnyPath /\ h.abs
    BY <2>1, NormalPathTyped
  <2>3. Paths!DefaultRuntimeRoot(h) \in AnyPath
    <3>1. LibraryParts \in Seq(Name)
      BY LibraryTyped
    <3>2. Paths!Join(h, LibraryParts) \in NormalPath
      BY <2>2, <3>1, JoinBelow
    <3> QED
      BY <3>2, NormalPathTyped DEF Paths!DefaultRuntimeRoot, LibraryParts
  <2>4. \A path \in AnyPath : Paths!NormalizePath(path, h) \in NormalPath \cup {Error}
    BY <2>1, Normalized
  <2> QED
    BY <1>2, <2>3, <2>4 DEF Paths!RuntimeRoot, PathsTyped
<1> QED
  BY <1>1, <1>2

(* A root that was accepted is absolute and in normal form, however long   *)
(* the path that was configured (NormalizePath of paths.go).               *)
THEOREM RootsNormal == Spec => []RootIsNormal
<1>1. PathsTyped /\ PathsFixed => RootIsNormal
  <2> SUFFICES ASSUME PathsTyped, PathsFixed, resolved \notin {Paths!EmptyPath, Error}
               PROVE  /\ resolved.abs
                      /\ \A i \in DOMAIN resolved.parts :
                             resolved.parts[i] \notin {Paths!Empty, ".", ".."}
                      /\ Paths!NormalizePath(resolved, home) = resolved
    BY DEF RootIsNormal, Paths!RootIsNormal
  <2>1. resolved \in NormalPath
    BY RootNormal DEF PathsFixed
  <2>2. /\ resolved.abs /\ resolved.parts \in Seq(Name) /\ Normal(resolved.parts)
        /\ Paths!NormalizePath(resolved, home) = resolved
    BY <2>1, NormalPathTyped, NormalizedStays
  <2>3. DOMAIN resolved.parts = 1..Len(resolved.parts)
    BY <2>2
  <2> QED
    BY <2>2, <2>3 DEF Normal, Special
<1> QED
  BY <1>1, PathsTypedCorrect, PathsFixedCorrect, PTL

(* A normal path hangs below another one as it is. *)
LEMMA CleanBelow ==
    ASSUME NEW S, NEW s \in Seq(S), NEW t \in Seq(S), Normal(t)
    PROVE  Paths!CleanParts(Paths!Abs(s \o t)) = Paths!CleanParts(Paths!Abs(s)) \o t
<1> DEFINE C(u) == Paths!CleanParts(Paths!Abs(u))
           Q == {u \in Seq(S) : Normal(u) => C(s \o u) = C(s) \o u}
<1>1. /\ \A u \in Seq(S) : C(u) \in Seq(S)
      /\ \A u \in Seq(S), e \in S : C(Append(u, e)) = Paths!CleanPart(C(u), e, TRUE)
  BY CleanLemma DEF Cleans
<1> HIDE DEF C
<1>2. ASSUME NEW u \in Seq(S), NEW v \in Seq(S), NEW e \in S
      PROVE  u \o v \in Seq(S) /\ u \o Append(v, e) = Append(u \o v, e)
  <2>1. <<e>> \in Seq(S) /\ u \o v \in Seq(S)
    OBVIOUS
  <2>2. Append(v, e) = v \o <<e>> /\ Append(u \o v, e) = (u \o v) \o <<e>>
    BY <2>1, AppendIsConcat
  <2>3. (u \o v) \o <<e>> = u \o (v \o <<e>>)
    BY <2>1, ConcatAssociative
  <2> QED
    BY <2>1, <2>2, <2>3
<1>3. <<>> \in Q
  <2>1. s \o <<>> = s /\ C(s) \o <<>> = C(s) /\ <<>> \in Seq(S)
    BY <1>1, ConcatEmptySeq
  <2> QED
    BY <2>1
<1>4. ASSUME NEW u \in Seq(S), NEW e \in S, u \in Q PROVE Append(u, e) \in Q
  <2>1. Append(u, e) \in Seq(S) /\ C(s) \in Seq(S)
    BY <1>1
  <2>2. ASSUME Normal(Append(u, e)) PROVE C(s \o Append(u, e)) = C(s) \o Append(u, e)
    <3>1. /\ Len(Append(u, e)) = Len(u) + 1 /\ Append(u, e)[Len(u) + 1] = e
          /\ \A i \in 1..Len(u) : Append(u, e)[i] = u[i] /\ i \in 1..(Len(u) + 1)
          /\ Len(u) + 1 \in 1..(Len(u) + 1)
      OBVIOUS
    <3>2. Normal(u) /\ e \notin Special
      BY <2>2, <3>1 DEF Normal
    <3>3. C(s \o u) = C(s) \o u
      BY <1>4, <3>2
    <3>4. /\ s \o u \in Seq(S) /\ s \o Append(u, e) = Append(s \o u, e)
          /\ C(s) \o Append(u, e) = Append(C(s) \o u, e)
      BY <1>2, <2>1
    <3>5. C(Append(s \o u, e)) = Paths!CleanPart(C(s \o u), e, TRUE)
      BY <1>1, <3>4
    <3>6. Paths!CleanPart(C(s \o u), e, TRUE) = Append(C(s \o u), e)
      BY <3>2 DEF Paths!CleanPart, Special
    <3> QED
      BY <3>3, <3>4, <3>5, <3>6
  <2> QED
    BY <2>1, <2>2
<1>5. t \in Q
  <2> HIDE DEF Q
  <2> QED
    BY <1>3, <1>4, SequenceInduction
<1> QED
  BY <1>5 DEF C

(* Without a configured root, the default configuration lies in the root   *)
(* that is used, whatever form the home has (DefaultConfigPath and         *)
(* Resolve).                                                               *)
THEOREM DefaultsAgreed == Spec => []DefaultsAgree
<1>1. PathsTyped /\ PathsFixed => DefaultsAgree
  <2> DEFINE h == Paths!ResolveHomeDir(home)
             c == <<"config.json">>
             L == LibraryParts
             C(t) == Paths!CleanParts(Paths!Abs(t))
  <2> SUFFICES ASSUME PathsTyped, PathsFixed, raw = Paths!EmptyPath,
                      resolved \notin {Paths!EmptyPath, Error}
               PROVE  Paths!NormalizeConfigPath(Paths!DefaultConfigPath(home), home)
                          = Paths!Join(resolved, c)
    BY DEF DefaultsAgree, Paths!DefaultsAgree
  <2>1. L \in Seq(Name) /\ c \in Seq(Name)
    BY LibraryTyped
  <2>2. resolved = Paths!RuntimeRoot /\ h # Error
    BY DEF PathsFixed, Paths!RuntimeRoot
  <2>3. h \in NormalPath /\ h \in AnyPath /\ h.abs
    BY <2>2, HomeDirNormal, NormalPathTyped
  <2>4. home \in AnyPath /\ home.abs /\ h = Paths!Clean(home)
    <3>1. home \in AnyPath
      BY DEF PathsTyped
    <3>2. h = Paths!Clean(Paths!ExpandHome(home, Paths!EmptyPath))
          /\ Paths!ExpandHome(home, Paths!EmptyPath) # Error
      BY <2>2 DEF Paths!ResolveHomeDir, Paths!NormalizePath, Paths!ExpandAndClean
    <3>3. Paths!ExpandHome(home, Paths!EmptyPath) = home
      BY <3>2 DEF Paths!ExpandHome
    <3> QED
      BY <2>3, <3>1, <3>2, <3>3, CleanAbsolute
  <2>5. resolved = Paths!NormalizePath(Paths!Join(h, L), h)
    BY <2>2 DEF Paths!RuntimeRoot, Paths!DefaultRuntimeRoot, LibraryParts
  <2>6. Paths!Join(h, L) = Paths!Join(home, L) /\ Paths!Join(home, L) \in NormalPath
    <3>1. /\ h.parts \in Seq(Name) /\ home.parts \in Seq(Name)
          /\ h = Paths!Abs(h.parts) /\ home = Paths!Abs(home.parts)
      BY <2>3, <2>4, AbsoluteParts DEF AnyPath
    <3>2. Paths!Clean(home) = Paths!Abs(C(home.parts)) /\ Paths!Clean(h) = Paths!Abs(C(h.parts))
      BY <2>3, <2>4, <3>1, CleanAbsolute
    <3>3. h.parts = C(home.parts)
      BY <2>4, <3>2 DEF Paths!Abs
    <3>4. C(h.parts) = h.parts
      <4>1. Normal(h.parts)
        BY <2>3, NormalPathTyped
      <4> QED
        BY <3>1, <4>1, CleanNormal
    <3>5. C(h.parts \o L) = C(home.parts \o L)
      <4>1. C(h.parts \o L) = C(h.parts) \o L
        BY <3>1, CleanBelow, LibraryTyped
      <4>2. C(home.parts \o L) = C(home.parts) \o L
        BY <3>1, CleanBelow, LibraryTyped
      <4> HIDE DEF C, h, L
      <4> QED
        BY <3>3, <3>4, <4>1, <4>2
    <3>6. ASSUME NEW s \in Seq(Name)
          PROVE  Paths!Clean(Paths!Abs(s \o L)) = Paths!Abs(C(s \o L))
      <4>1. s \o L \in Seq(Name)
        BY <2>1
      <4>2. Paths!Abs(s \o L) \in AnyPath /\ Paths!Abs(s \o L).abs
        BY <4>1 DEF Paths!Abs, AnyPath
      <4> QED
        BY <4>2, CleanAbsolute
    <3> HIDE DEF C
    <3> QED
      BY <2>1, <2>3, <2>4, <3>1, <3>5, <3>6, JoinBelow
  <2>7. resolved = Paths!Join(home, L)
    <3> DEFINE j == Paths!Join(h, L)
    <3>1. j # Error
      <4>1. j = Error => Paths!ExpandHome(j, h) = Error \/ Paths!ExpandHome(j, h) = j
        <5>1. j \in NormalPath
          BY <2>6
        <5>2. ~Paths!IsTilde(j) /\ ~Paths!IsOtherUser(j)
          BY <5>1, NormalPathTyped DEF Paths!IsTilde, Paths!IsOtherUser
        <5> QED
          BY <5>2 DEF Paths!ExpandHome
      <4> HIDE DEF j
      <4> QED
        BY <2>5, <4>1 DEF Paths!NormalizePath, Paths!ExpandAndClean, j
    <3> QED
      BY <2>5, <2>6, <3>1, NormalizedStays
  <2>8. Paths!DefaultConfigPath(home) = Paths!Join(resolved, c)
    BY <2>7 DEF Paths!DefaultConfigPath, Paths!DefaultRuntimeRoot, LibraryParts
  <2>9. Paths!Join(resolved, c) \in NormalPath
    BY <2>1, <2>6, <2>7, NormalPathTyped, JoinBelow
  <2> DEFINE q == Paths!Join(resolved, c)
  <2>10. q = Error \/ Paths!ExpandAndClean(q, home) = q
    BY <2>9, NormalizedStays
  <2>11. Paths!MakeAbsolute(q) = q
    BY <2>9, NormalPathTyped, CleanAbsolute DEF Paths!MakeAbsolute
  <2>12. q = Error => Paths!ExpandAndClean(q, home) = Error
    <3>1. ~Paths!IsTilde(q) /\ ~Paths!IsOtherUser(q)
      BY <2>9, NormalPathTyped DEF Paths!IsTilde, Paths!IsOtherUser
    <3>2. Paths!ExpandHome(q, home) = q
      BY <3>1 DEF Paths!ExpandHome
    <3> HIDE DEF q
    <3> QED
      BY <3>2 DEF Paths!ExpandAndClean
  <2> HIDE DEF q
  <2>13. Paths!NormalizeConfigPath(q, home) = q
    BY <2>10, <2>11, <2>12 DEF Paths!NormalizeConfigPath
  <2> QED
    BY <2>8, <2>13 DEF q
<1> QED
  BY <1>1, PathsTypedCorrect, PathsFixedCorrect, PTL

-----------------------------------------------------------------------------
(* The argv of a process. *)

Symbols == Nat \ {0}

(* The strings s fill the data from off[1] to its end, one behind the      *)
(* other; each begins at its offset and has a NUL behind it.               *)
LaidOut(data, s, off) ==
    /\ data \in Seq(Nat) /\ off \in [1..(Len(s) + 1) -> 1..(Len(data) + 1)]
    /\ off[Len(s) + 1] = Len(data) + 1
    /\ \A k \in 1..Len(s) :
           /\ off[k + 1] = off[k] + Len(s[k]) + 1
           /\ \A i \in 1..Len(s[k]) : data[off[k] + i - 1] = s[k][i]
           /\ data[off[k] + Len(s[k])] = 0

(* One string more. *)
LEMMA LaidOutAppend ==
    ASSUME NEW s \in Seq(Seq(Symbols)), NEW e \in Seq(Symbols), NEW data, NEW off,
           LaidOut(data, s, off)
    PROVE  \E more : /\ LaidOut(data \o Append(e, 0), Append(s, e), more)
                     /\ more[1] = off[1]
<1> DEFINE t == Append(s, e)
           d == data \o Append(e, 0)
           N == Len(s)
           D == Len(data)
           more == [k \in 1..(N + 2) |-> IF k = N + 2 THEN D + Len(e) + 2 ELSE off[k]]
<1>1. /\ N \in Nat /\ D \in Nat /\ Len(e) \in Nat /\ Len(t) = N + 1 /\ t[N + 1] = e
      /\ \A k \in 1..N : t[k] = s[k] /\ s[k] \in Seq(Symbols)
  BY DEF LaidOut
<1>2. /\ data \in Seq(Nat) /\ off \in [1..(N + 1) -> 1..(D + 1)] /\ off[N + 1] = D + 1
      /\ \A k \in 1..N : /\ off[k + 1] = off[k] + Len(s[k]) + 1
                         /\ \A i \in 1..Len(s[k]) : data[off[k] + i - 1] = s[k][i]
                         /\ data[off[k] + Len(s[k])] = 0
  BY DEF LaidOut
<1>3. /\ d \in Seq(Nat) /\ Len(d) = D + Len(e) + 1
      /\ \A i \in 1..D : d[i] = data[i]
      /\ \A i \in 1..Len(e) : d[D + i] = e[i]
      /\ d[D + Len(e) + 1] = 0
  <2> DEFINE z == Append(e, 0)
  <2>1. /\ z \in Seq(Nat) /\ Len(z) = Len(e) + 1 /\ z[Len(e) + 1] = 0
        /\ \A i \in 1..Len(e) : z[i] = e[i]
    BY DEF Symbols
  <2> HIDE DEF z
  <2>2. /\ data \o z \in Seq(Nat) /\ Len(data \o z) = D + Len(z)
        /\ \A i \in 1..(D + Len(z)) : (data \o z)[i] = IF i <= D THEN data[i] ELSE z[i - D]
    BY <1>2, <2>1, ConcatProperties
  <2>3. d = data \o z
    BY DEF z
  <2> HIDE DEF d
  <2> QED
    BY <1>1, <2>1, <2>2, <2>3
<1>4. more \in [1..(Len(t) + 1) -> 1..(Len(d) + 1)]
  BY <1>1, <1>2, <1>3
<1>5. more[Len(t) + 1] = Len(d) + 1
  BY <1>1, <1>3
<1>6. ASSUME NEW k \in 1..Len(t)
      PROVE  /\ more[k + 1] = more[k] + Len(t[k]) + 1
             /\ \A i \in 1..Len(t[k]) : d[more[k] + i - 1] = t[k][i]
             /\ d[more[k] + Len(t[k])] = 0
  <2>1. CASE k = N + 1
    <3>1. more[k] = D + 1 /\ more[k + 1] = D + Len(e) + 2 /\ t[k] = e
      BY <1>1, <1>2, <2>1
    <3>2. /\ \A i \in 1..Len(e) : (D + 1) + i - 1 = D + i
          /\ (D + 1) + Len(e) = D + Len(e) + 1
      BY <1>1
    <3> HIDE DEF more, d, t, D
    <3>3. /\ more[k + 1] = more[k] + Len(e) + 1 /\ d[more[k] + Len(e)] = 0
      BY <1>1, <1>3, <3>1, <3>2
    <3>4. ASSUME NEW i \in 1..Len(e) PROVE d[more[k] + i - 1] = e[i]
      <4>1. more[k] + i - 1 = D + i
        BY <3>1, <3>2
      <4> QED
        BY <1>3, <4>1
    <3> QED
      BY <3>1, <3>3, <3>4
  <2>2. CASE k # N + 1
    <3>1. k \in 1..N /\ k \in 1..(N + 1) /\ k + 1 \in 1..(N + 1) /\ t[k] = s[k]
      BY <1>1, <2>2
    <3>2. more[k] = off[k] /\ more[k + 1] = off[k + 1]
      BY <1>1, <3>1
    <3>3. /\ off[k] \in 1..(D + 1) /\ off[k + 1] \in 1..(D + 1) /\ Len(s[k]) \in Nat
          /\ off[k + 1] = off[k] + Len(s[k]) + 1
      <4> HIDE DEF D, N
      <4>1. off[k] \in 1..(D + 1) /\ off[k + 1] \in 1..(D + 1)
        BY <1>2, <3>1
      <4>2. off[k + 1] = off[k] + Len(s[k]) + 1
        BY <1>2, <3>1
      <4>3. Len(s[k]) \in Nat
        BY <1>1, <3>1
      <4> QED
        BY <4>1, <4>2, <4>3
    <3>4. /\ off[k] + Len(s[k]) \in 1..D
          /\ \A i \in 1..Len(s[k]) : off[k] + i - 1 \in 1..D
      <4> DEFINE o == off[k]
                 l == Len(s[k])
      <4>1. o \in Nat /\ o >= 1 /\ l \in Nat /\ o + l + 1 <= D + 1
        BY <1>1, <3>3
      <4> HIDE DEF o, l, D
      <4>2. o + l \in 1..D /\ \A i \in 1..l : o + i - 1 \in 1..D
        BY <1>1, <4>1
      <4> QED
        BY <4>2 DEF o, l
    <3> HIDE DEF more, d, t, D
    <3>5. more[k + 1] = more[k] + Len(t[k]) + 1
      BY <3>1, <3>2, <3>3
    <3>6. ASSUME NEW i \in 1..Len(t[k]) PROVE d[more[k] + i - 1] = t[k][i]
      <4>1. i \in 1..Len(s[k]) /\ off[k] + i - 1 \in 1..D
        BY <3>1, <3>4
      <4>2. data[off[k] + i - 1] = s[k][i]
        BY <1>2, <3>1, <4>1
      <4> QED
        BY <1>3, <3>1, <3>2, <4>1, <4>2
    <3>7. d[more[k] + Len(t[k])] = 0
      BY <1>2, <1>3, <3>1, <3>2, <3>4
    <3> QED
      BY <3>5, <3>6, <3>7
  <2> QED
    BY <2>1, <2>2
<1>7. more[1] = off[1]
  BY <1>1
<1> HIDE DEF more, d, t
<1>8. LaidOut(d, t, more)
  BY <1>3, <1>4, <1>5, <1>6 DEF LaidOut
<1> QED
  BY <1>7, <1>8 DEF d, t

(* The strings laid out one after the other. *)
LayStep == [q \in Seq(Nat) \X Seq(Symbols) |-> q[1] \o Append(q[2], Argv!NUL)]

LEMMA LayTyped ==
    ASSUME NEW d \in Seq(Nat), NEW e \in Seq(Symbols)
    PROVE  Append(e, Argv!NUL) \in Seq(Nat) /\ d \o Append(e, Argv!NUL) \in Seq(Nat)
<1> DEFINE z == Append(e, Argv!NUL)
<1>1. z \in Seq(Nat)
  BY DEF Symbols, Argv!NUL
<1> HIDE DEF z
<1>2. d \o z \in Seq(Nat)
  BY <1>1
<1> QED
  BY <1>1, <1>2 DEF z

LEMMA TerminatedFold ==
    ASSUME NEW s \in Seq(Seq(Symbols))
    PROVE  \E f : /\ Folds(f, s, Seq(Nat), <<>>, LayStep)
                  /\ Argv!Terminated(s) = f[Len(s)]
<1> DEFINE S == Seq(Symbols)
           A == Seq(Nat)
           nothing == <<>>
           H == [q \in A \X S |-> q[1] \o Append(q[2], Argv!NUL)]
           Step(f, k) == IF k = 0 THEN <<>> ELSE f[k - 1] \o Append(s[k], Argv!NUL)
           IsLaid(f) == f = [k \in 0..Len(s) |-> Step(f, k)]
<1>1. Len(s) \in Nat /\ \A k \in 1..Len(s) : s[k] \in S /\ k - 1 \in 0..Len(s) /\ k # 0
  OBVIOUS
<1>2. H \in [A \X S -> A]
  <2> SUFFICES ASSUME NEW q \in A \X S PROVE q[1] \o Append(q[2], Argv!NUL) \in A
    OBVIOUS
  <2> QED
    BY LayTyped
<1>3. ASSUME NEW f, NEW k \in 1..Len(s), f[k - 1] \in A
      PROVE  Step(f, k) = H[<<f[k - 1], s[k]>>]
  <2>1. <<f[k - 1], s[k]>> \in A \X S
    BY <1>1, <1>3
  <2> QED
    BY <1>1, <2>1
<1>4. \A k \in 0..Len(s) : k = 0 \/ k \in 1..Len(s)
  BY <1>1
<1>5. nothing \in A
  OBVIOUS
<1> HIDE DEF A, S, H, nothing
<1>6. \E f : IsLaid(f)
  <2>1. PICK f : Folds(f, s, A, nothing, H)
    BY <1>2, <1>5, FoldExists DEF S
  <2>2. f \in [0..Len(s) -> A] /\ f[0] = nothing
    BY <2>1 DEF Folds
  <2>3. \A k \in 1..Len(s) : f[k] = Step(f, k)
    BY <1>1, <1>3, <2>1, <2>2 DEF Folds
  <2>4. f[0] = Step(f, 0)
    BY <2>2 DEF nothing
  <2>5. \A k \in 0..Len(s) : f[k] = Step(f, k)
    BY <1>4, <2>3, <2>4
  <2> HIDE DEF Step
  <2> QED
    BY <2>2, <2>5
<1>7. ASSUME NEW f, IsLaid(f) PROVE Folds(f, s, A, nothing, H)
  <2>1. 0 \in 0..Len(s) /\ 1..Len(s) \subseteq 0..Len(s)
    BY <1>1
  <2>2. f = [k \in 0..Len(s) |-> f[k]] /\ \A k \in 0..Len(s) : f[k] = Step(f, k)
    <3> HIDE DEF Step
    <3> QED
      BY <1>7
  <2>3. f[0] = nothing
    BY <2>1, <2>2 DEF nothing
  <2>4. \A k \in 1..Len(s) : f[k - 1] \in A => f[k] = H[<<f[k - 1], s[k]>>]
    <3> HIDE DEF Step
    <3> QED
      BY <1>3, <2>1, <2>2
  <2> QED
    <3>1. f \in [0..Len(s) -> {f[k] : k \in 0..Len(s)}]
      BY <2>2
    <3> QED
      BY <1>2, <1>5, <2>3, <2>4, <3>1, FoldTyped DEF S
<1>8. Argv!Terminated(s) = (CHOOSE f : IsLaid(f))[Len(s)]
  BY DEF Argv!Terminated
<1> HIDE DEF IsLaid
<1>9. PICK f : f = (CHOOSE g : IsLaid(g)) /\ IsLaid(f)
  BY <1>6
<1>10. Folds(f, s, A, nothing, H) /\ Argv!Terminated(s) = f[Len(s)]
  BY <1>7, <1>8, <1>9
<1> QED
  BY <1>10 DEF A, H, S, nothing, LayStep

Lays ==
    /\ Argv!Terminated(<<>>) = <<>>
    /\ \A s \in Seq(Seq(Symbols)) : Argv!Terminated(s) \in Seq(Nat)
    /\ \A s \in Seq(Seq(Symbols)), e \in Seq(Symbols) :
           Argv!Terminated(Append(s, e)) = Argv!Terminated(s) \o Append(e, Argv!NUL)

LEMMA TerminatedLemma == Lays
<1> DEFINE S == Seq(Symbols)
           A == Seq(Nat)
           H == LayStep
           T(s) == Argv!Terminated(s)
<1>1. ASSUME NEW s \in Seq(S)
      PROVE  \E f : Folds(f, s, A, <<>>, H) /\ T(s) = f[Len(s)]
  BY TerminatedFold
<1> HIDE DEF H, T
<1>2. T(<<>>) = <<>>
  <2>1. <<>> \in Seq(S) /\ Len(<<>>) = 0
    OBVIOUS
  <2> QED
    BY <1>1, <2>1 DEF Folds
<1>3. \A s \in Seq(S) : T(s) \in A
  <2> SUFFICES ASSUME NEW s \in Seq(S) PROVE T(s) \in A
    OBVIOUS
  <2>1. PICK f : Folds(f, s, A, <<>>, H) /\ T(s) = f[Len(s)]
    BY <1>1
  <2>2. Len(s) \in 0..Len(s)
    OBVIOUS
  <2> QED
    BY <2>1, <2>2 DEF Folds
<1>4. ASSUME NEW s \in Seq(S), NEW e \in S
      PROVE  T(Append(s, e)) = T(s) \o Append(e, Argv!NUL)
  <2>1. Append(s, e) \in Seq(S)
    OBVIOUS
  <2>2. PICK f : Folds(f, s, A, <<>>, H) /\ T(s) = f[Len(s)]
    BY <1>1
  <2>3. PICK g : /\ Folds(g, Append(s, e), A, <<>>, H)
                 /\ T(Append(s, e)) = g[Len(Append(s, e))]
    BY <1>1, <2>1
  <2>4. T(Append(s, e)) = H[<<T(s), e>>]
    <3> HIDE DEF S
    <3> QED
      BY <2>2, <2>3, FoldAppend
  <2>5. <<T(s), e>> \in A \X S
    BY <1>3
  <2> QED
    BY <2>4, <2>5 DEF H, LayStep
<1> QED
  BY <1>2, <1>3, <1>4 DEF T, Lays

LEMMA BytesAssociative ==
    ASSUME NEW x \in Seq(Nat), NEW y \in Seq(Nat), NEW z \in Seq(Nat)
    PROVE  x \o (y \o z) = (x \o y) \o z
  BY SMTT(30)

(* Strings laid out behind strings. *)
LEMMA LaidOutBehind ==
    ASSUME NEW a \in Seq(Seq(Symbols)), NEW data, NEW off, LaidOut(data, a, off),
           NEW s \in Seq(Seq(Symbols))
    PROVE  \E more : /\ LaidOut(data \o Argv!Terminated(s), a \o s, more)
                     /\ more[1] = off[1]
<1> DEFINE S == Seq(Symbols)
           T(t) == Argv!Terminated(t)
           Lies(t, more) == LaidOut(data \o T(t), a \o t, more) /\ more[1] = off[1]
           Q == {t \in Seq(S) : \E more : Lies(t, more)}
<1>1. /\ T(<<>>) = <<>> /\ \A t \in Seq(S) : T(t) \in Seq(Nat)
      /\ \A t \in Seq(S), e \in S : T(Append(t, e)) = T(t) \o Append(e, Argv!NUL)
  BY TerminatedLemma DEF Lays
<1>2. data \in Seq(Nat)
  BY DEF LaidOut
<1> HIDE DEF T, S
<1>3. <<>> \in Q
  <2>1. data \o <<>> = data /\ a \o <<>> = a /\ <<>> \in Seq(S)
    BY <1>2, ConcatEmptySeq DEF S
  <2>2. Lies(<<>>, off)
    BY <1>1, <2>1
  <2> QED
    BY <2>1, <2>2
<1>4. ASSUME NEW t \in Seq(S), NEW e \in S, t \in Q PROVE Append(t, e) \in Q
  <2>1. PICK more : Lies(t, more)
    BY <1>4
  <2> DEFINE z == Append(e, Argv!NUL)
  <2>2. T(t) \in Seq(Nat) /\ z \in Seq(Nat)
    BY <1>1, <1>2, LayTyped DEF S
  <2>3. T(Append(t, e)) = T(t) \o z
    BY <1>1
  <2> HIDE DEF z
  <2>4. data \o T(Append(t, e)) = (data \o T(t)) \o z
    <3> DEFINE x == T(t)
    <3> HIDE DEF x
    <3>1. data \o (x \o z) = (data \o x) \o z
      <4>1. x \in Seq(Nat)
        BY <2>2 DEF x
      <4> QED
        BY <1>2, <2>2, <4>1, BytesAssociative
    <3> QED
      BY <2>3, <3>1 DEF x
  <2>5. a \o Append(t, e) = Append(a \o t, e) /\ a \o t \in Seq(S) /\ Append(t, e) \in Seq(S)
    <3>1. a \in Seq(S) /\ <<e>> \in Seq(S)
      BY DEF S
    <3>2. Append(t, e) = t \o <<e>> /\ a \o t \in Seq(S) /\ Append(t, e) \in Seq(S)
      BY <3>1, AppendIsConcat
    <3>3. Append(a \o t, e) = (a \o t) \o <<e>>
      BY <3>2, AppendIsConcat
    <3> QED
      BY <3>1, <3>2, <3>3, ConcatAssociative
  <2>6. PICK after : /\ LaidOut((data \o T(t)) \o Append(e, 0), Append(a \o t, e), after)
                     /\ after[1] = more[1]
    <3> DEFINE b == data \o T(t)
               c == a \o t
    <3>1. LaidOut(b, c, more) /\ c \in Seq(Seq(Symbols)) /\ e \in Seq(Symbols)
      BY <2>1, <2>5 DEF S
    <3>2. Append(a \o t, e) = Append(c, e) /\ (data \o T(t)) \o Append(e, 0) = b \o Append(e, 0)
      OBVIOUS
    <3> HIDE DEF b, c
    <3>3. \E after : /\ LaidOut(b \o Append(e, 0), Append(c, e), after)
                     /\ after[1] = more[1]
      BY <3>1, LaidOutAppend
    <3> QED
      BY <3>2, <3>3
  <2>7. Lies(Append(t, e), after)
    BY <2>1, <2>4, <2>5, <2>6 DEF z, Argv!NUL
  <2> HIDE DEF Lies
  <2> QED
    BY <2>5, <2>7
<1>5. s \in Q
  <2> HIDE DEF Q
  <2>1. s \in Seq(S)
    BY DEF S
  <2> QED
    BY <1>3, <1>4, <2>1, SequenceInduction
<1> QED
  BY <1>5 DEF T

(* The kernel's block: a path of one symbol, NULs, and the strings.        *)
LEMMA BlockLaidOut ==
    ASSUME NEW a \in Seq(Seq(Symbols)), NEW v \in Seq(Seq(Symbols)), NEW pad \in Nat, pad > 0,
           NEW data, data = Argv!Block(a, v, pad)
    PROVE  /\ data[1] = 1 /\ \A i \in 2..(pad + 1) : data[i] = 0
           /\ \E off : LaidOut(data, a \o v, off) /\ off[1] = pad + 2
<1> DEFINE head == Argv!ExecPath \o Argv!Padding(pad)
           x == Argv!Terminated(a)
           y == Argv!Terminated(v)
           mid == head \o x
<1>1. data = mid \o y
  BY DEF Argv!Block
<1>2. /\ head \in Seq(Nat) /\ Len(head) = pad + 1 /\ head[1] = 1
      /\ \A i \in 2..(pad + 1) : head[i] = 0
  <2> DEFINE e == Argv!ExecPath
             z == Argv!Padding(pad)
  <2>1. e \in Seq(Nat) /\ Len(e) = 1 /\ e[1] = 1
    BY DEF Argv!ExecPath
  <2>2. z \in Seq(Nat) /\ Len(z) = pad /\ \A i \in 1..pad : z[i] = 0
    BY DEF Argv!Padding, Argv!NUL
  <2>3. head = e \o z
    OBVIOUS
  <2> HIDE DEF e, z, head
  <2>4. /\ e \o z \in Seq(Nat) /\ Len(e \o z) = Len(e) + Len(z)
        /\ \A i \in 1..(Len(e) + Len(z)) : (e \o z)[i] = IF i <= Len(e) THEN e[i] ELSE z[i - Len(e)]
    BY <2>1, <2>2, ConcatProperties
  <2> QED
    BY <2>1, <2>2, <2>3, <2>4
<1>3. x \in Seq(Nat) /\ y \in Seq(Nat)
  BY TerminatedLemma DEF Lays
<1> HIDE DEF head, x, y
<1>4. /\ mid \in Seq(Nat) /\ Len(mid) >= pad + 1 /\ mid[1] = 1
      /\ \A i \in 2..(pad + 1) : mid[i] = 0
  <2>1. /\ head \o x \in Seq(Nat) /\ Len(head \o x) = Len(head) + Len(x)
        /\ \A i \in 1..(Len(head) + Len(x)) :
               (head \o x)[i] = IF i <= Len(head) THEN head[i] ELSE x[i - Len(head)]
    BY <1>2, <1>3, ConcatProperties
  <2>2. Len(x) \in Nat
    BY <1>3
  <2> QED
    BY <1>2, <2>1, <2>2
<1>5. data[1] = 1 /\ \A i \in 2..(pad + 1) : data[i] = 0
  <2> HIDE DEF mid
  <2>1. /\ mid \o y \in Seq(Nat) /\ Len(mid \o y) = Len(mid) + Len(y)
        /\ \A i \in 1..(Len(mid) + Len(y)) :
               (mid \o y)[i] = IF i <= Len(mid) THEN mid[i] ELSE y[i - Len(mid)]
    BY <1>3, <1>4, ConcatProperties
  <2>2. Len(y) \in Nat /\ Len(mid) \in Nat
    BY <1>3, <1>4
  <2> QED
    BY <1>1, <1>4, <2>1, <2>2
<1>6. PICK one : LaidOut(head, <<>>, one) /\ one[1] = pad + 2
  <2> DEFINE one == [k \in 1..1 |-> pad + 2]
  <2>1. Len(<<>>) = 0 /\ 1..0 = {}
    OBVIOUS
  <2>2. LaidOut(head, <<>>, one) /\ one[1] = pad + 2
    BY <1>2, <2>1 DEF LaidOut
  <2> HIDE DEF one
  <2> QED
    BY <2>2
<1>7. PICK off : LaidOut(mid, a, off) /\ off[1] = pad + 2
  <2> DEFINE none == <<>>
  <2>1. none \in Seq(Seq(Symbols)) /\ none \o a = a /\ LaidOut(head, none, one)
    BY <1>6, ConcatEmptySeq
  <2> HIDE DEF none
  <2>2. \E more : LaidOut(head \o Argv!Terminated(a), none \o a, more) /\ more[1] = one[1]
    <3>1. ASSUME NEW b \in Seq(Seq(Symbols)), LaidOut(head, b, one)
          PROVE  \E more : LaidOut(head \o Argv!Terminated(a), b \o a, more) /\ more[1] = one[1]
      BY <3>1, LaidOutBehind
    <3> QED
      BY <2>1, <3>1
  <2> QED
    BY <1>6, <2>1, <2>2 DEF x
<1> HIDE DEF mid
<1>8. \E more : LaidOut(mid \o Argv!Terminated(v), a \o v, more) /\ more[1] = off[1]
  BY <1>7, LaidOutBehind
<1>9. \E more : LaidOut(data, a \o v, more) /\ more[1] = pad + 2
  BY <1>1, <1>7, <1>8 DEF y
<1> QED
  BY <1>5, <1>9

-----------------------------------------------------------------------------
(* The two loops of processArgs.                                           *)
IsText(data, from, i) ==
    /\ i \in from..(Len(data) + 1) /\ (i = Len(data) + 1 \/ data[i] # 0)
    /\ \A j \in from..(i - 1) : data[j] = 0

IsStop(data, from, i) ==
    /\ i \in from..(Len(data) + 1) /\ (i = Len(data) + 1 \/ data[i] = 0)
    /\ \A j \in from..(i - 1) : data[j] # 0

LEMMA FirstLemma ==
    ASSUME NEW data, Len(data) \in Nat, NEW from \in Nat, NEW i
    PROVE  /\ IsText(data, from, i) => Argv!Text(data, from) = i
           /\ IsStop(data, from, i) => Argv!Stop(data, from) = i
<1> DEFINE L == Len(data)
           Text(j) == (j = L + 1 \/ data[j] # 0) /\ \A k \in from..(j - 1) : data[k] = 0
           Stop(j) == (j = L + 1 \/ data[j] = 0) /\ \A k \in from..(j - 1) : data[k] # 0
<1>1. /\ Argv!Text(data, from) = CHOOSE j \in from..(L + 1) : Text(j)
      /\ Argv!Stop(data, from) = CHOOSE j \in from..(L + 1) : Stop(j)
  BY Zenon DEF Argv!Text, Argv!Stop, Argv!First, Argv!NUL
<1>2. ASSUME NEW j \in from..(L + 1), NEW k \in from..(L + 1), j < k
      PROVE  j # L + 1 /\ j \in from..(k - 1)
  BY <1>2
<1>3. \A j, k \in from..(L + 1) : j < k \/ k < j \/ j = k
  OBVIOUS
<1>4. ASSUME IsText(data, from, i) PROVE Argv!Text(data, from) = i
  <2>1. i \in from..(L + 1) /\ Text(i)
    BY <1>4 DEF IsText
  <2>2. ASSUME NEW j \in from..(L + 1), Text(j) PROVE j = i
    BY <1>2, <1>3, <2>1, <2>2
  <2> HIDE DEF Text
  <2> QED
    BY <1>1, <2>1, <2>2
<1>5. ASSUME IsStop(data, from, i) PROVE Argv!Stop(data, from) = i
  <2>1. i \in from..(L + 1) /\ Stop(i)
    BY <1>5 DEF IsStop
  <2>2. ASSUME NEW j \in from..(L + 1), Stop(j) PROVE j = i
    BY <1>2, <1>3, <2>1, <2>2
  <2> HIDE DEF Stop
  <2> QED
    BY <1>1, <2>1, <2>2
<1> QED
  BY <1>4, <1>5

(* The next string that is not empty: its index, or one past the last.     *)
IsNext(s, k, j) ==
    /\ j \in k..(Len(s) + 1) /\ (j = Len(s) + 1 \/ s[j] # <<>>)
    /\ \A i \in k..(j - 1) : s[i] = <<>>

(* From the offset of a string, the first loop finds the next string that  *)
(* is not empty; the second finds its end.                                 *)
LEMMA NextText ==
    ASSUME NEW s \in Seq(Seq(Symbols)), NEW data, NEW off, LaidOut(data, s, off),
           NEW k \in 1..(Len(s) + 1)
    PROVE  \E j \in k..(Len(s) + 1) : IsNext(s, k, j) /\ IsText(data, off[k], off[j])
<1> DEFINE M == Len(s)
           D == Len(data)
           Finds(i) == \E j \in i..(M + 1) : IsNext(s, i, j) /\ IsText(data, off[i], off[j])
           Good == {n \in Nat : n <= M => Finds(M + 1 - n)}
<1>1. M \in Nat /\ \A i \in 1..M : s[i] \in Seq(Symbols) /\ Len(s[i]) \in Nat
  OBVIOUS
<1>2. /\ D \in Nat /\ off \in [1..(M + 1) -> 1..(D + 1)] /\ off[M + 1] = D + 1
      /\ \A i \in 1..M : /\ off[i + 1] = off[i] + Len(s[i]) + 1
                         /\ \A h \in 1..Len(s[i]) : data[off[i] + h - 1] = s[i][h]
                         /\ data[off[i] + Len(s[i])] = 0
  <2>1. D \in Nat
    BY DEF LaidOut
  <2>2. off \in [1..(M + 1) -> 1..(D + 1)] /\ off[M + 1] = D + 1
    BY DEF LaidOut
  <2>3. \A i \in 1..M : /\ off[i + 1] = off[i] + Len(s[i]) + 1
                        /\ \A h \in 1..Len(s[i]) : data[off[i] + h - 1] = s[i][h]
                        /\ data[off[i] + Len(s[i])] = 0
    BY DEF LaidOut
  <2> QED
    BY <2>1, <2>2, <2>3
<1> HIDE DEF M, D
<1>3. 0 \in Good
  <2>1. IsNext(s, M + 1, M + 1) /\ IsText(data, off[M + 1], off[M + 1])
    BY <1>1, <1>2 DEF IsNext, IsText, M, D
  <2> QED
    BY <1>1, <2>1
<1>4. ASSUME NEW n \in Nat, n \in Good PROVE n + 1 \in Good
  <2> SUFFICES ASSUME n + 1 <= M PROVE Finds(M + 1 - (n + 1))
    OBVIOUS
  <2> DEFINE i == M + 1 - (n + 1)
  <2>1. i \in 1..M /\ i + 1 = M + 1 - n /\ i + 1 \in 1..(M + 1) /\ i \in 1..(M + 1)
    BY <1>1
  <2> HIDE DEF i
  <2>2. PICK j \in (i + 1)..(M + 1) : IsNext(s, i + 1, j) /\ IsText(data, off[i + 1], off[j])
    BY <1>1, <1>4, <2>1
  <2>3. off[i] \in 1..D /\ off[i + 1] \in 1..(D + 1)
    <3>1. off[i] \in 1..(D + 1) /\ off[i + 1] \in 1..(D + 1) /\ Len(s[i]) \in Nat
          /\ off[i + 1] = off[i] + Len(s[i]) + 1
      BY <1>1, <1>2, <2>1
    <3>2. ASSUME NEW o \in 1..(D + 1), NEW p \in 1..(D + 1), NEW l \in Nat, p = o + l + 1
          PROVE  o \in 1..D
      BY <1>2, <3>2
    <3> QED
      BY <3>1, <3>2
  <2>4. CASE s[i] = <<>>
    <3>1. off[i + 1] = off[i] + 1 /\ data[off[i]] = 0
      <4>1. Len(s[i]) = 0
        BY <2>4
      <4>2. off[i + 1] = off[i] + Len(s[i]) + 1 /\ data[off[i] + Len(s[i])] = 0
        BY <1>2, <2>1
      <4>3. off[i] + Len(s[i]) = off[i]
        BY <1>2, <2>3, <4>1
      <4> QED
        BY <4>2, <4>3
    <3>2. IsNext(s, i, j)
      <4>1. \A h \in i..(j - 1) : h = i \/ h \in (i + 1)..(j - 1)
        BY <1>1, <2>1
      <4>2. \A h \in i..(j - 1) : s[h] = <<>>
        BY <2>2, <2>4, <4>1 DEF IsNext
      <4>3. j \in i..(M + 1) /\ (j = M + 1 \/ s[j] # <<>>)
        BY <1>1, <2>1, <2>2 DEF IsNext, M
      <4> QED
        BY <4>2, <4>3 DEF IsNext, M
    <3>3. IsText(data, off[i], off[j])
      <4> DEFINE a == off[i]
                 c == off[j]
      <4>1. /\ c \in (a + 1)..(D + 1) /\ (c = D + 1 \/ data[c] # 0)
            /\ \A h \in (a + 1)..(c - 1) : data[h] = 0
        BY <2>2, <3>1 DEF IsText, D
      <4>2. a \in 1..D /\ data[a] = 0
        BY <2>3, <3>1
      <4> HIDE DEF a, c
      <4>3. /\ c \in a..(D + 1)
            /\ \A h \in a..(c - 1) : h = a \/ h \in (a + 1)..(c - 1)
        BY <1>2, <4>1, <4>2
      <4>4. \A h \in a..(c - 1) : data[h] = 0
        BY <4>1, <4>2, <4>3
      <4>5. IsText(data, a, c)
        BY <4>1, <4>3, <4>4 DEF IsText, D
      <4> QED
        BY <4>5 DEF a, c
    <3>4. j \in i..(M + 1)
      BY <1>1, <2>1
    <3> QED
      BY <3>2, <3>3, <3>4 DEF i
  <2>5. CASE s[i] # <<>>
    <3>1. Len(s[i]) \in Nat /\ 1 \in 1..Len(s[i]) /\ s[i][1] \in Symbols
      BY <1>1, <2>1, <2>5
    <3>2. data[off[i]] # 0
      <4>1. data[off[i] + 1 - 1] = s[i][1]
        BY <1>2, <2>1, <3>1
      <4> QED
        BY <2>3, <3>1, <4>1 DEF Symbols
    <3>3. IsNext(s, i, i)
      BY <1>1, <2>1, <2>5 DEF IsNext, M
    <3>4. IsText(data, off[i], off[i])
      BY <1>2, <2>3, <3>2 DEF IsText, D
    <3>5. i \in i..(M + 1)
      BY <1>1, <2>1
    <3> QED
      BY <3>3, <3>4, <3>5 DEF i
  <2> QED
    BY <2>4, <2>5
<1>5. Nat \subseteq Good
  <2> HIDE DEF Good
  <2> QED
    BY <1>3, <1>4, SetInduction
<1>6. M + 1 - k \in Nat /\ M + 1 - k <= M /\ M + 1 - (M + 1 - k) = k
  BY <1>1 DEF M
<1>7. Finds(k)
  BY <1>5, <1>6
<1> QED
  BY <1>7 DEF M

(* A string ends before its NUL. *)
LEMMA StringEnds ==
    ASSUME NEW s \in Seq(Seq(Symbols)), NEW data, NEW off, LaidOut(data, s, off),
           NEW k \in 1..Len(s)
    PROVE  /\ off[k] + Len(s[k]) \in 1..Len(data) /\ off[k + 1] = off[k] + Len(s[k]) + 1
           /\ data[off[k] + Len(s[k])] = 0
           /\ Argv!Stop(data, off[k]) = off[k] + Len(s[k])
           /\ SubSeq(data, off[k], Argv!Stop(data, off[k]) - 1) = s[k]
<1> DEFINE D == Len(data)
           o == off[k]
           t == s[k]
           l == Len(t)
<1>1. Len(s) \in Nat /\ t \in Seq(Symbols) /\ l \in Nat /\ \A i \in 1..l : t[i] \in Symbols
  OBVIOUS
<1>2. /\ data \in Seq(Nat) /\ D \in Nat /\ o \in 1..(D + 1) /\ off[k + 1] \in 1..(D + 1)
      /\ off[k + 1] = o + l + 1 /\ \A i \in 1..l : data[o + i - 1] = t[i]
      /\ data[o + l] = 0
  <2>1. k \in 1..(Len(s) + 1) /\ k + 1 \in 1..(Len(s) + 1)
    BY <1>1
  <2>2. data \in Seq(Nat) /\ off[k] \in 1..(Len(data) + 1) /\ off[k + 1] \in 1..(Len(data) + 1)
    BY <2>1 DEF LaidOut
  <2>3. /\ off[k + 1] = off[k] + Len(s[k]) + 1
        /\ \A i \in 1..Len(s[k]) : data[off[k] + i - 1] = s[k][i]
        /\ data[off[k] + Len(s[k])] = 0
    BY DEF LaidOut
  <2>4. Len(data) \in Nat
    BY <2>2
  <2> QED
    BY <2>2, <2>3, <2>4
<1> HIDE DEF D, o, l, t
<1>3. o + l \in 1..D /\ o \in 1..D
  <2>1. o + l + 1 <= D + 1
    BY <1>2
  <2> QED
    BY <1>1, <1>2, <2>1
<1>4. IsStop(data, o, o + l)
  <2>1. ASSUME NEW j \in o..((o + l) - 1) PROVE data[j] # 0
    <3>1. j - o + 1 \in 1..l /\ o + (j - o + 1) - 1 = j
      BY <1>1, <1>3
    <3>2. data[j] = t[j - o + 1]
      BY <1>2, <3>1
    <3> QED
      BY <1>1, <3>1, <3>2 DEF Symbols
  <2>2. o + l \in o..(D + 1)
    BY <1>1, <1>2, <1>3
  <2>3. \A j \in o..((o + l) - 1) : data[j] # 0
    BY <2>1
  <2>4. data[o + l] = 0
    BY <1>2
  <2> DEFINE e == o + l
  <2>5. e \in o..(D + 1) /\ data[e] = 0 /\ \A j \in o..(e - 1) : data[j] # 0
    BY <2>2, <2>3, <2>4
  <2> HIDE DEF e
  <2>6. IsStop(data, o, e)
    BY <2>5 DEF IsStop, D
  <2> QED
    BY <2>6 DEF e
<1>5. Argv!Stop(data, o) = o + l
  <2> DEFINE e == o + l
  <2>1. Len(data) \in Nat /\ o \in Nat /\ IsStop(data, o, e)
    BY <1>2, <1>4 DEF D
  <2> HIDE DEF e
  <2>2. Argv!Stop(data, o) = e
    BY <2>1, FirstLemma
  <2> QED
    BY <2>2 DEF e
<1>6. SubSeq(data, o, (o + l) - 1) = t
  <2> DEFINE u == SubSeq(data, o, (o + l) - 1)
  <2>1. \A i \in o..((o + l) - 1) : data[i] \in Nat
    <3>1. \A i \in 1..D : data[i] \in Nat
      <4>1. data \in Seq(Nat)
        BY <1>2
      <4> QED
        BY <4>1 DEF D
    <3> QED
      BY <1>1, <1>2, <1>3, <3>1
  <2>2. o \in Int /\ (o + l) - 1 \in Int
    BY <1>1, <1>2
  <2>3. /\ u \in Seq(Nat) /\ Len(u) = (IF o <= (o + l) - 1 THEN ((o + l) - 1) - o + 1 ELSE 0)
        /\ \A i \in 1..(((o + l) - 1) - o + 1) : u[i] = data[o + i - 1]
    BY <2>1, <2>2, SubSeqProperties
  <2>4. Len(u) = l /\ \A i \in 1..l : u[i] = t[i]
    BY <1>1, <1>2, <2>3
  <2>5. t \in Seq(Nat)
    BY <1>1 DEF Symbols
  <2> HIDE DEF u
  <2>6. u = t
    BY <2>3, <2>4, <2>5, SeqEqual DEF l
  <2> QED
    BY <2>6 DEF u
<1> QED
  BY <1>2, <1>3, <1>5, <1>6 DEF D, o, t, l

(* Behind the last string there is nothing. *)
LEMMA DataEnds ==
    ASSUME NEW data \in Seq(Nat)
    PROVE  LET end == Len(data) + 1
           IN  /\ Argv!Stop(data, end) = end /\ Argv!Text(data, end) = end
               /\ SubSeq(data, end, Argv!Stop(data, end) - 1) = <<>>
<1> DEFINE D == Len(data)
<1>1. D \in Nat /\ D + 1 \in Nat /\ (D + 1) - 1 = D /\ D < D + 1
  OBVIOUS
<1>2. IsStop(data, D + 1, D + 1) /\ IsText(data, D + 1, D + 1)
  BY <1>1 DEF IsStop, IsText
<1>3. Argv!Stop(data, D + 1) = D + 1 /\ Argv!Text(data, D + 1) = D + 1
  BY <1>1, <1>2, FirstLemma
<1>4. SubSeq(data, D + 1, D) = <<>>
  BY <1>1, SubSeqEmpty
<1> QED
  BY <1>1, <1>3, <1>4

(* The index of the string that is read for each of n arguments.           *)
Reads(s, n, p) ==
    /\ p \in [1..n -> 1..(Len(s) + 1)]
    /\ IsNext(s, 1, p[1])
    /\ \A k \in 2..n : IF p[k - 1] = Len(s) + 1 THEN p[k] = Len(s) + 1
                       ELSE IsNext(s, p[k - 1] + 1, p[k])

(* Over one string, its NUL and the empty strings behind it. *)
Skips(s, data, off, skip) ==
    /\ skip \in [1..(Len(s) + 1) -> 1..(Len(s) + 1)]
    /\ \A k \in 1..(Len(s) + 1) : IsNext(s, k, skip[k]) /\ IsText(data, off[k], off[skip[k]])

LEMMA SkipExists ==
    ASSUME NEW s \in Seq(Seq(Symbols)), NEW data, NEW off, LaidOut(data, s, off)
    PROVE  \E skip : Skips(s, data, off, skip)
<1> DEFINE M == Len(s)
           Fits(k, j) == IsNext(s, k, j) /\ IsText(data, off[k], off[j])
           skip == [k \in 1..(M + 1) |-> CHOOSE j \in 1..(M + 1) : Fits(k, j)]
<1>1. ASSUME NEW k \in 1..(M + 1)
      PROVE  skip[k] \in 1..(M + 1) /\ Fits(k, skip[k])
  <2>1. PICK j \in k..(M + 1) : Fits(k, j)
    BY NextText
  <2>2. j \in 1..(M + 1)
    <3>1. M \in Nat
      OBVIOUS
    <3> QED
      BY <3>1
  <2> HIDE DEF Fits, M
  <2> QED
    BY <2>1, <2>2
<1>2. skip \in [1..(M + 1) -> 1..(M + 1)]
  <2> HIDE DEF Fits
  <2> QED
    BY <1>1
<1> HIDE DEF skip
<1>3. Skips(s, data, off, skip)
  BY <1>1, <1>2 DEF Skips
<1> QED
  BY <1>3

LEMMA AfterString ==
    ASSUME NEW s \in Seq(Seq(Symbols)), NEW data, NEW off, LaidOut(data, s, off),
           NEW skip, Skips(s, data, off, skip), NEW j \in 1..(Len(s) + 1)
    PROVE  Argv!After(data, off[j]) =
               IF j = Len(s) + 1 THEN off[Len(s) + 1] ELSE off[skip[j + 1]]
<1> DEFINE M == Len(s)
           D == Len(data)
<1>1. /\ M \in Nat /\ data \in Seq(Nat) /\ D \in Nat /\ off[M + 1] = D + 1
      /\ off \in [1..(M + 1) -> 1..(D + 1)]
  BY DEF LaidOut
<1>2. CASE j = M + 1
  <2>1. Argv!Stop(data, D + 1) = D + 1 /\ Argv!Text(data, D + 1) = D + 1
    BY <1>1, DataEnds
  <2> QED
    BY <1>1, <1>2, <2>1 DEF Argv!After
<1>3. CASE j # M + 1
  <2> DEFINE e == off[j] + Len(s[j])
             i == skip[j + 1]
  <2>1. j \in 1..M /\ j + 1 \in 1..(M + 1)
    BY <1>1, <1>3
  <2>2. e \in 1..D /\ off[j + 1] = e + 1 /\ data[e] = 0 /\ Argv!Stop(data, off[j]) = e
    BY <2>1, StringEnds
  <2>3. IsText(data, off[j + 1], off[i])
    BY <2>1 DEF Skips
  <2> HIDE DEF e, i, M
  <2>4. IsText(data, e, off[i])
    <3>1. off[i] \in e..(D + 1)
      BY <1>1, <2>2, <2>3 DEF IsText
    <3>2. \A h \in e..(off[i] - 1) : h = e \/ h \in (e + 1)..(off[i] - 1)
      BY <1>1, <2>2
    <3>3. \A h \in e..(off[i] - 1) : data[h] = 0
      BY <2>2, <2>3, <3>2 DEF IsText
    <3> QED
      BY <2>3, <3>1, <3>3 DEF IsText
  <2>5. e \in Nat
    BY <1>1, <2>2
  <2>6. Argv!Text(data, e) = off[i]
    BY <1>1, <2>4, <2>5, FirstLemma
  <2> QED
    BY <1>3, <2>2, <2>6 DEF Argv!After, i, M
<1> QED
  BY <1>2, <1>3

(* The strings that are read one after the other, each the next that is    *)
(* not empty.                                                              *)
ReadsBy(s, n, skip, p) ==
    /\ Reads(s, n, p) /\ p[1] = skip[1]
    /\ \A k \in 2..n : p[k] = IF p[k - 1] = Len(s) + 1 THEN Len(s) + 1
                              ELSE skip[p[k - 1] + 1]

LEMMA ReadsExists ==
    ASSUME NEW s \in Seq(Seq(Symbols)), NEW data, NEW off, NEW skip,
           Skips(s, data, off, skip), NEW n \in Nat, n > 0
    PROVE  \E p : ReadsBy(s, n, skip, p)
<1> DEFINE M == Len(s)
           A == 1..(M + 1)
           next1(j) == IF j = M + 1 THEN M + 1 ELSE skip[j + 1]
           G == [q \in (1..(n - 1)) \X A |-> next1(q[2])]
<1>1. /\ M \in Nat /\ M + 1 \in A /\ 1 \in A /\ n - 1 \in Nat
      /\ \A j \in A : j = M + 1 \/ j + 1 \in A
  OBVIOUS
<1>2. /\ skip \in [A -> A] /\ \A k \in A : IsNext(s, k, skip[k])
  BY DEF Skips
<1> HIDE DEF M
<1>3. \A j \in A : next1(j) \in A
  <2> HIDE DEF A
  <2> QED
    BY <1>1, <1>2
<1>4. G \in [(1..(n - 1)) \X A -> A] /\ skip[1] \in A
  <2> HIDE DEF A, next1
  <2> QED
    BY <1>1, <1>2, <1>3
<1>5. PICK f : Solves(f, n - 1, A, skip[1], G)
  <2> HIDE DEF A, G
  <2> QED
    BY <1>1, <1>4, Recursion
<1> DEFINE p == [k \in 1..n |-> f[k - 1]]
<1>6. f \in [0..(n - 1) -> A] /\ f[0] = skip[1]
  BY <1>5 DEF Solves
<1>7. ASSUME NEW k \in 1..(n - 1) PROVE f[k] = next1(f[k - 1])
  <2>1. f[k - 1] \in A
    BY <1>6
  <2>2. <<k, f[k - 1]>> \in (1..(n - 1)) \X A
    BY <2>1
  <2>3. f[k] = G[<<k, f[k - 1]>>]
    BY <1>5 DEF Solves
  <2> HIDE DEF A, next1
  <2> QED
    BY <2>2, <2>3
<1> HIDE DEF A, G
<1>8. p \in [1..n -> A] /\ p[1] = skip[1]
  BY <1>6
<1>9. ASSUME NEW k \in 2..n PROVE p[k - 1] \in A /\ p[k] = next1(p[k - 1])
  <2>1. /\ k - 1 \in 1..(n - 1) /\ k - 1 \in 1..n /\ k \in 1..n
        /\ p[k] = f[k - 1] /\ p[k - 1] = f[(k - 1) - 1]
    OBVIOUS
  <2> HIDE DEF p, next1
  <2> QED
    BY <1>7, <1>8, <2>1
<1> HIDE DEF p
<1>10. Reads(s, n, p)
  <2>1. IsNext(s, 1, p[1])
    BY <1>1, <1>2, <1>8
  <2>2. \A k \in 2..n : IF p[k - 1] = M + 1 THEN p[k] = M + 1
                        ELSE IsNext(s, p[k - 1] + 1, p[k])
    BY <1>1, <1>2, <1>9
  <2> QED
    BY <1>8, <2>1, <2>2 DEF Reads, A, M
<1>11. ReadsBy(s, n, skip, p)
  BY <1>8, <1>9, <1>10 DEF M, ReadsBy
<1> QED
  BY <1>11

(* The offsets at which processArgs starts to read the arguments.          *)
StartsAre(data, n, off, p) == \A k \in 1..n : Argv!Starts(n, data)[k] = off[p[k]]

LEMMA StartsLemma ==
    ASSUME NEW s \in Seq(Seq(Symbols)), NEW data, NEW off, LaidOut(data, s, off),
           NEW n \in Nat, n > 0,
           data[1] = 1, off[1] > 2, \A i \in 2..(off[1] - 1) : data[i] = 0
    PROVE  /\ Argv!Text(data, 1) = 1
           /\ \E p : Reads(s, n, p) /\ StartsAre(data, n, off, p)
<1> DEFINE M == Len(s)
           D == Len(data)
           Step(start, k) == IF k = 1 THEN Argv!After(data, Argv!Text(data, 1))
                             ELSE Argv!After(data, start[k - 1])
           IsStart(start) == start = [k \in 1..n |-> Step(start, k)]
<1>1. /\ M \in Nat /\ data \in Seq(Nat) /\ D \in Nat
      /\ off \in [1..(M + 1) -> 1..(D + 1)] /\ off[1] \in 1..(D + 1) /\ 1 \in 1..(M + 1)
  BY DEF LaidOut
<1>2. PICK skip : Skips(s, data, off, skip)
  BY SkipExists
<1>3. PICK p : ReadsBy(s, n, skip, p)
  BY <1>2, ReadsExists
<1>4. /\ p \in [1..n -> 1..(M + 1)] /\ Reads(s, n, p) /\ p[1] = skip[1]
      /\ \A k \in 2..n : p[k] = (IF p[k - 1] = M + 1 THEN M + 1 ELSE skip[p[k - 1] + 1])
  BY <1>3 DEF Reads, ReadsBy
<1> HIDE DEF M, D
<1>5. Argv!Text(data, 1) = 1 /\ Argv!Stop(data, 1) = 2
  <2>1. IsText(data, 1, 1) /\ IsStop(data, 1, 2)
    BY <1>1 DEF IsText, IsStop, D
  <2> QED
    BY <1>1, <2>1, FirstLemma DEF D
<1>6. Argv!After(data, 1) = off[skip[1]]
  <2>1. IsText(data, off[1], off[skip[1]])
    BY <1>1, <1>2 DEF Skips, M
  <2> DEFINE o == off[1]
             e == off[skip[1]]
  <2>2. e \in o..(D + 1) /\ (e = D + 1 \/ data[e] # 0) /\ \A h \in o..(e - 1) : data[h] = 0
    BY <2>1 DEF IsText, D
  <2>3. o \in 3..(D + 1) /\ \A h \in 2..(o - 1) : data[h] = 0
    BY <1>1
  <2> HIDE DEF o, e
  <2>4. \A h \in 2..(e - 1) : h \in 2..(o - 1) \/ h \in o..(e - 1)
    BY <1>1, <2>2, <2>3
  <2>5. e \in 2..(D + 1) /\ \A h \in 2..(e - 1) : data[h] = 0
    BY <1>1, <2>2, <2>3, <2>4
  <2>6. IsText(data, 2, e)
    BY <2>2, <2>5 DEF IsText, D
  <2>7. Argv!Text(data, 2) = e
    BY <1>1, <2>6, FirstLemma DEF D
  <2> QED
    BY <1>5, <2>7 DEF Argv!After, e
<1>7. ASSUME NEW k \in 2..n PROVE Argv!After(data, off[p[k - 1]]) = off[p[k]]
  <2>1. k - 1 \in 1..n
    OBVIOUS
  <2>2. p[k - 1] \in 1..(M + 1)
    BY <1>4, <2>1
  <2>3. Argv!After(data, off[p[k - 1]]) =
            IF p[k - 1] = M + 1 THEN off[M + 1] ELSE off[skip[p[k - 1] + 1]]
    BY <1>2, <2>2, AfterString DEF M
  <2> QED
    BY <1>4, <2>3
<1> DEFINE st == [k \in 1..n |-> off[p[k]]]
<1>8. IsStart(st)
  <2>1. ASSUME NEW k \in 1..n PROVE st[k] = Step(st, k)
    <3>1. CASE k = 1
      <4>1. st[1] = off[p[1]]
        OBVIOUS
      <4> HIDE DEF st
      <4> QED
        BY <1>4, <1>5, <1>6, <3>1, <4>1
    <3>2. CASE k # 1
      <4>1. k \in 2..n /\ k - 1 \in 1..n
        BY <3>2
      <4>2. st[k] = off[p[k]] /\ st[k - 1] = off[p[k - 1]]
        BY <4>1
      <4> HIDE DEF st
      <4> QED
        BY <1>7, <3>2, <4>1, <4>2
    <3> QED
      BY <3>1, <3>2
  <2>2. st = [k \in 1..n |-> st[k]]
    OBVIOUS
  <2> HIDE DEF st, Step
  <2> QED
    BY <2>1, <2>2
<1>9. ASSUME NEW g, IsStart(g), NEW k \in 1..n PROVE g[k] = off[p[k]]
  <2>1. \A i \in 1..n : g[i] = Step(g, i)
    <3> HIDE DEF Step
    <3> QED
      BY <1>9
  <2> DEFINE Same == {i \in Nat : i + 1 <= n => g[i + 1] = off[p[i + 1]]}
  <2>2. 0 \in Same
    <3>1. 1 \in 1..n
      OBVIOUS
    <3>2. g[1] = Argv!After(data, Argv!Text(data, 1))
      BY <2>1, <3>1
    <3>3. g[1] = off[p[1]]
      BY <1>4, <1>5, <1>6, <3>2
    <3> QED
      BY <3>3
  <2>3. ASSUME NEW i \in Nat, i \in Same PROVE i + 1 \in Same
    <3> SUFFICES ASSUME (i + 1) + 1 <= n PROVE g[(i + 1) + 1] = off[p[(i + 1) + 1]]
      OBVIOUS
    <3> DEFINE h == (i + 1) + 1
    <3>1. h \in 2..n /\ h \in 1..n /\ h - 1 = i + 1 /\ h # 1 /\ g[i + 1] = off[p[i + 1]]
      BY <2>3
    <3> HIDE DEF h
    <3>2. g[h] = off[p[h]]
      BY <1>7, <2>1, <3>1
    <3> QED
      BY <3>2 DEF h
  <2>4. Nat \subseteq Same
    <3> HIDE DEF Same
    <3> QED
      BY <2>2, <2>3, SetInduction
  <2>5. k - 1 \in Nat /\ (k - 1) + 1 = k /\ k <= n
    OBVIOUS
  <2> QED
    BY <2>4, <2>5
<1>10. Argv!Starts(n, data) = CHOOSE g : IsStart(g)
  BY DEF Argv!Starts
<1> HIDE DEF IsStart, st
<1>11. IsStart(Argv!Starts(n, data))
  BY <1>8, <1>10
<1>12. StartsAre(data, n, off, p)
  BY <1>9, <1>11 DEF StartsAre
<1> QED
  BY <1>4, <1>5, <1>12

(* Of the first n strings none that is not empty is passed over, and when  *)
(* none is empty each is read in its place.                                *)
AllRead(s, n, p) ==
    /\ \A j \in 1..n : s[j] # <<>> => \E k \in 1..n : p[k] = j
    /\ \A k \in 1..n : p[k] = Len(s) + 1 \/ (p[k] \in 1..Len(s) /\ s[p[k]] # <<>>)
    /\ (\A j \in 1..n : s[j] # <<>>) => \A k \in 1..n : p[k] = k

LEMMA ReadsAll ==
    ASSUME NEW s \in Seq(Seq(Symbols)), NEW n \in Nat, n > 0, n <= Len(s),
           NEW p, Reads(s, n, p)
    PROVE  AllRead(s, n, p)
<1> DEFINE M == Len(s)
<1>1. M \in Nat /\ p \in [1..n -> 1..(M + 1)] /\ 1 \in 1..n
  BY DEF Reads
<1>2. /\ IsNext(s, 1, p[1])
      /\ \A k \in 2..n : IF p[k - 1] = M + 1 THEN p[k] = M + 1
                         ELSE IsNext(s, p[k - 1] + 1, p[k])
  BY DEF Reads
<1>3. ASSUME NEW k, NEW j, IsNext(s, k, j)
      PROVE  /\ j \in k..(M + 1) /\ (j = M + 1 \/ s[j] # <<>>)
             /\ \A i \in k..(j - 1) : s[i] = <<>>
  BY <1>3 DEF IsNext
<1> HIDE DEF M
<1>4. ASSUME NEW k \in 1..n PROVE p[k] = M + 1 \/ (p[k] \in 1..M /\ s[p[k]] # <<>>)
  <2>1. p[k] \in 1..(M + 1) /\ (p[k] = M + 1 \/ s[p[k]] # <<>>)
    <3>1. CASE k = 1
      BY <1>1, <1>2, <1>3, <3>1
    <3>2. CASE k # 1
      <4>1. k \in 2..n
        BY <3>2
      <4>2. p[k] = M + 1 \/ IsNext(s, p[k - 1] + 1, p[k])
        BY <1>2, <4>1
      <4>3. p[k] = M + 1 \/ s[p[k]] # <<>>
        BY <1>3, <4>2
      <4> QED
        BY <1>1, <4>3
    <3> QED
      BY <3>1, <3>2
  <2> QED
    BY <1>1, <2>1
<1> DEFINE Met(k) == /\ p[k] >= k
                     /\ \A j \in 1..M : j <= p[k] /\ s[j] # <<>> => \E h \in 1..k : p[h] = j
           Good == {k \in Nat : k + 1 <= n => Met(k + 1)}
<1>5. 0 \in Good
  <2>1. p[1] \in 1..(M + 1) /\ \A i \in 1..(p[1] - 1) : s[i] = <<>>
    BY <1>1, <1>2, <1>3
  <2>2. \A j \in 1..M : j <= p[1] => j \in 1..(p[1] - 1) \/ j = p[1]
    BY <1>1, <2>1
  <2>3. \A j \in 1..M : j <= p[1] /\ s[j] # <<>> => \E h \in 1..1 : p[h] = j
    <3>1. 1 \in 1..1
      OBVIOUS
    <3> QED
      BY <2>1, <2>2, <3>1
  <2>4. Met(1)
    BY <2>1, <2>3
  <2> HIDE DEF Met
  <2> QED
    BY <2>4
<1>6. ASSUME NEW i \in Nat, i + 1 <= n => Met(i + 1), (i + 1) + 1 <= n
      PROVE  Met((i + 1) + 1)
  <2> DEFINE b == i + 1
             k == (i + 1) + 1
  <2>1. k \in 2..n /\ k - 1 = b /\ b \in 1..n /\ k = b + 1 /\ k \in 1..n /\ k <= M
    <3>1. n <= M
      BY DEF M
    <3> QED
      BY <1>1, <1>6, <3>1
  <2>2. /\ p[b] >= b
        /\ \A j \in 1..M : j <= p[b] /\ s[j] # <<>> => \E h \in 1..b : p[h] = j
    <3>1. i + 1 <= n
      BY <1>6
    <3> QED
      BY <1>6, <3>1
  <2>3. p[b] \in 1..(M + 1) /\ p[k] \in 1..(M + 1)
    BY <1>1, <2>1
  <2> HIDE DEF b, k
  <2>4. CASE p[b] = M + 1
    <3>1. p[k] = M + 1
      BY <1>2, <2>1, <2>4
    <3>2. \A h \in 1..b : h \in 1..k
      BY <2>1
    <3>3. p[k] >= k
      BY <1>1, <2>1, <3>1
    <3>4. \A j \in 1..M : j <= p[k] /\ s[j] # <<>> => \E h \in 1..k : p[h] = j
      BY <2>2, <2>4, <3>1, <3>2
    <3> QED
      BY <3>3, <3>4 DEF k
  <2>5. CASE p[b] # M + 1
    <3>1. IsNext(s, p[b] + 1, p[k])
      BY <1>2, <2>1, <2>5
    <3>2. p[k] \in (p[b] + 1)..(M + 1) /\ \A h \in (p[b] + 1)..(p[k] - 1) : s[h] = <<>>
      BY <1>3, <3>1
    <3>3. p[k] >= k
      BY <2>1, <2>2, <2>3, <3>2
    <3>4. ASSUME NEW j \in 1..M, j <= p[k], s[j] # <<>> PROVE \E h \in 1..k : p[h] = j
      <4>1. j <= p[b] \/ j \in (p[b] + 1)..(p[k] - 1) \/ j = p[k]
        BY <2>3, <3>4
      <4>2. CASE j <= p[b]
        <5>1. PICK h \in 1..b : p[h] = j
          BY <2>2, <3>4, <4>2
        <5>2. h \in 1..k
          BY <2>1
        <5> QED
          BY <5>1, <5>2
      <4>3. CASE j = p[k]
        <5>1. k \in 1..k
          BY <2>1
        <5> QED
          BY <4>3, <5>1
      <4> QED
        BY <3>2, <3>4, <4>1, <4>2, <4>3
    <3> QED
      BY <3>3, <3>4 DEF k
  <2> QED
    BY <2>4, <2>5
<1>7. Nat \subseteq Good
  <2>1. \A i \in Nat : i \in Good => i + 1 \in Good
    <3> HIDE DEF Met
    <3> QED
      BY <1>6
  <2> HIDE DEF Good
  <2> QED
    BY <1>5, <2>1, SetInduction
<1>8. Met(n)
  <2>1. n - 1 \in Nat /\ (n - 1) + 1 = n
    OBVIOUS
  <2>2. (n - 1) + 1 <= n => Met((n - 1) + 1)
    BY <1>7, <2>1
  <2> HIDE DEF Met
  <2> QED
    BY <2>1, <2>2
<1>9. \A j \in 1..n : s[j] # <<>> => \E k \in 1..n : p[k] = j
  <2>1. n <= M
    BY DEF M
  <2>2. \A j \in 1..n : j \in 1..M /\ j <= p[n]
    BY <1>1, <1>8, <2>1
  <2> QED
    BY <1>8, <2>2
<1>10. ASSUME \A j \in 1..n : s[j] # <<>> PROVE \A k \in 1..n : p[k] = k
  <2> DEFINE Same == {k \in Nat : k + 1 <= n => p[k + 1] = k + 1}
  <2>0. n <= M
    BY DEF M
  <2>1. ASSUME NEW k \in 1..n, IsNext(s, k, p[k]) PROVE p[k] = k
    <3>1. p[k] \in k..(M + 1) /\ \A i \in k..(p[k] - 1) : s[i] = <<>>
      BY <1>3, <2>1
    <3>2. p[k] # k => k \in k..(p[k] - 1)
      BY <1>1, <3>1
    <3> QED
      BY <1>10, <3>1, <3>2
  <2>2. 0 \in Same
    BY <1>1, <1>2, <2>1
  <2>3. ASSUME NEW i \in Nat, i \in Same PROVE i + 1 \in Same
    <3> SUFFICES ASSUME (i + 1) + 1 <= n PROVE p[(i + 1) + 1] = (i + 1) + 1
      OBVIOUS
    <3> DEFINE k == (i + 1) + 1
    <3>1. k \in 2..n /\ k \in 1..n /\ k - 1 = i + 1 /\ p[i + 1] = i + 1 /\ i + 1 # M + 1
      BY <1>1, <2>0, <2>3
    <3> HIDE DEF k
    <3>2. IsNext(s, p[k - 1] + 1, p[k]) /\ p[k - 1] + 1 = k
      BY <1>2, <3>1 DEF k
    <3>3. p[k] = k
      BY <2>1, <3>1, <3>2
    <3> QED
      BY <3>3 DEF k
  <2>4. Nat \subseteq Same
    <3> HIDE DEF Same
    <3> QED
      BY <2>2, <2>3, SetInduction
  <2>5. \A k \in 1..n : k - 1 \in Nat /\ (k - 1) + 1 = k /\ k <= n
    OBVIOUS
  <2> QED
    BY <2>4, <2>5
<1> QED
  BY <1>4, <1>9, <1>10 DEF M, AllRead

(* The string read for each argument. *)
LEMMA ArgumentRead ==
    ASSUME NEW s \in Seq(Seq(Symbols)), NEW data, NEW off, LaidOut(data, s, off),
           NEW j \in 1..(Len(s) + 1)
    PROVE  SubSeq(data, off[j], Argv!Stop(data, off[j]) - 1)
               = IF j = Len(s) + 1 THEN <<>> ELSE s[j]
<1>1. Len(s) \in Nat /\ data \in Seq(Nat) /\ off[Len(s) + 1] = Len(data) + 1
  BY DEF LaidOut
<1>2. CASE j = Len(s) + 1
  BY <1>1, <1>2, DataEnds
<1>3. CASE j # Len(s) + 1
  <2>1. j \in 1..Len(s)
    BY <1>1, <1>3
  <2> QED
    BY <1>3, <2>1, StringEnds
<1> QED
  BY <1>2, <1>3

LEMMA FlagPrefix ==
    ASSUME NEW t \in Seq(Nat)
    PROVE  Argv!IsPrefix(<<Flag>>, t) <=> (t # <<>> /\ t[1] = Flag)
<1>1. Argv!IsPrefix(<<Flag>>, t) <=>
          1 <= Len(t) /\ SubSeq(<<Flag>>, 1, 1) = SubSeq(t, 1, 1)
  BY DEF Argv!IsPrefix
<1>2. SubSeq(<<Flag>>, 1, 1) = [i \in 1..1 |-> <<Flag>>[i]]
      /\ SubSeq(t, 1, 1) = [i \in 1..1 |-> t[i]]
  OBVIOUS
<1>3. SubSeq(<<Flag>>, 1, 1) = SubSeq(t, 1, 1) <=> t[1] = Flag
  <2>1. <<Flag>>[1] = Flag /\ 1..1 = {1}
    OBVIOUS
  <2> QED
    BY <1>2, <2>1
<1>4. 1 <= Len(t) <=> t # <<>>
  OBVIOUS
<1> QED
  BY <1>1, <1>3, <1>4

(* The argv that is read off a block. *)
ReadExactly(a, d) ==
    /\ (\A k \in DOMAIN a : a[k] # <<>>) => d = a
    /\ Argv!UserDataDirs(d) = Argv!UserDataDirs(a)

NoneFlagged(v) == \A i \in 1..Len(v) : v[i] = <<>> \/ v[i][1] # Flag

LEMMA DecodedExactly ==
    ASSUME NEW a \in Seq(Seq(Symbols)), NEW v \in Seq(Seq(Symbols)), NEW pad \in Nat, pad > 0,
           NoneFlagged(v),
           NEW d, d = Argv!ProcessArgs(Len(a), Argv!Block(a, v, pad)), d # Rejected
    PROVE  ReadExactly(a, d)
<1> DEFINE n == Len(a)
           data == Argv!Block(a, v, pad)
           s == a \o v
           M == Len(s)
           read(k) == LET from == Argv!Starts(n, data)[k] IN
                      SubSeq(data, from, Argv!Stop(data, from) - 1)
<1>1. n \in Nat /\ n > 0 /\ d = [k \in 1..n |-> read(k)]
  <2>1. n \in 1..Argv!MaxArgc
    BY DEF Argv!ProcessArgs
  <2>2. d = [k \in 1..n |-> read(k)]
    BY DEF Argv!ProcessArgs
  <2>3. n \in Nat /\ n > 0
    <3> HIDE DEF n
    <3> QED
      BY <2>1 DEF Argv!MaxArgc
  <2> HIDE DEF read, n
  <2> QED
    BY <2>2, <2>3
<1>2. /\ s \in Seq(Seq(Symbols)) /\ M = n + Len(v) /\ Len(v) \in Nat
      /\ \A i \in 1..n : s[i] = a[i]
      /\ \A i \in (n + 1)..M : s[i] = v[i - n] /\ i - n \in 1..Len(v)
  <2>1. /\ a \o v \in Seq(Seq(Symbols)) /\ Len(a \o v) = Len(a) + Len(v)
        /\ \A i \in 1..(Len(a) + Len(v)) :
               (a \o v)[i] = IF i <= Len(a) THEN a[i] ELSE v[i - Len(a)]
    BY ConcatProperties
  <2>2. Len(v) \in Nat /\ Len(a) \in Nat
    OBVIOUS
  <2> HIDE DEF s
  <2> QED
    BY <2>1, <2>2 DEF s
<1>3. PICK off : LaidOut(data, s, off) /\ off[1] = pad + 2
  BY BlockLaidOut
<1>4. data[1] = 1 /\ \A i \in 2..(off[1] - 1) : data[i] = 0
  <2>1. data[1] = 1 /\ \A i \in 2..(pad + 1) : data[i] = 0
    BY BlockLaidOut
  <2>2. off[1] - 1 = pad + 1
    BY <1>3
  <2> HIDE DEF data
  <2> QED
    BY <2>1, <2>2
<1> HIDE DEF data, s
<1>5. PICK p : Reads(s, n, p) /\ StartsAre(data, n, off, p)
  <2>1. off[1] > 2
    BY <1>3
  <2> HIDE DEF n, M, read
  <2>2. s \in Seq(Seq(Symbols)) /\ LaidOut(data, s, off) /\ n \in Nat /\ n > 0
    BY <1>1, <1>2, <1>3
  <2> QED
    BY <1>4, <2>1, <2>2, StartsLemma
<1>6. ASSUME NEW k \in 1..n
      PROVE  /\ p[k] \in 1..(M + 1)
             /\ d[k] = IF p[k] = M + 1 THEN <<>> ELSE s[p[k]]
  <2>1. p[k] \in 1..(M + 1)
    BY <1>5 DEF Reads
  <2>2. Argv!Starts(n, data)[k] = off[p[k]]
    BY <1>5 DEF StartsAre
  <2>3. SubSeq(data, off[p[k]], Argv!Stop(data, off[p[k]]) - 1)
            = IF p[k] = M + 1 THEN <<>> ELSE s[p[k]]
    <3> DEFINE j == p[k]
    <3>1. j \in 1..(Len(s) + 1)
      BY <2>1
    <3> HIDE DEF j
    <3>2. s \in Seq(Seq(Symbols)) /\ LaidOut(data, s, off)
      BY <1>2, <1>3
    <3>3. SubSeq(data, off[j], Argv!Stop(data, off[j]) - 1)
              = IF j = Len(s) + 1 THEN <<>> ELSE s[j]
      BY <3>1, <3>2, ArgumentRead
    <3> QED
      BY <3>3 DEF j
  <2>4. read(k) = SubSeq(data, off[p[k]], Argv!Stop(data, off[p[k]]) - 1)
    BY <2>2
  <2> HIDE DEF read, M, n
  <2> QED
    BY <1>1, <2>1, <2>3, <2>4
<1> HIDE DEF M, n, read
<1>7. /\ \A j \in 1..n : s[j] # <<>> => \E k \in 1..n : p[k] = j
      /\ \A k \in 1..n : p[k] = M + 1 \/ (p[k] \in 1..M /\ s[p[k]] # <<>>)
      /\ (\A j \in 1..n : s[j] # <<>>) => \A k \in 1..n : p[k] = k
  <2>1. n <= Len(s)
    BY <1>1, <1>2 DEF M
  <2>2. AllRead(s, n, p)
    BY <1>1, <1>2, <1>5, <2>1, ReadsAll
  <2> QED
    BY <2>2 DEF AllRead, M
<1>8. /\ a \in Seq(Seq(Symbols)) /\ DOMAIN a = 1..n /\ DOMAIN d = 1..n
      /\ a = [k \in 1..n |-> a[k]]
  BY <1>1 DEF n
<1>9. ASSUME \A k \in DOMAIN a : a[k] # <<>> PROVE d = a
  <2>1. \A k \in 1..n : p[k] = k
    BY <1>2, <1>7, <1>8, <1>9
  <2>2. \A k \in 1..n : k # M + 1
    BY <1>1, <1>2
  <2>3. \A k \in 1..n : d[k] = a[k]
    BY <1>2, <1>6, <2>1, <2>2
  <2>4. d = [k \in 1..n |-> d[k]]
    BY <1>1
  <2> QED
    BY <1>8, <2>3, <2>4
<1>10. Argv!UserDataDirs(d) = Argv!UserDataDirs(a)
  <2> DEFINE Flagged(x) == Argv!IsPrefix(<<Flag>>, x)
  <2>1. ASSUME NEW k \in 1..n, Flagged(d[k])
        PROVE  \E j \in 1..n : a[j] = d[k]
    <3>1. d[k] \in Seq(Nat)
      <4>1. <<>> \in Seq(Nat) /\ Seq(Symbols) \subseteq Seq(Nat)
        BY WiderSeq DEF Symbols
      <4>2. p[k] \in 1..M => s[p[k]] \in Seq(Symbols)
        BY <1>2 DEF M
      <4> QED
        BY <1>6, <1>7, <4>1, <4>2
    <3>2. d[k] # <<>> /\ d[k][1] = Flag
      BY <2>1, <3>1, FlagPrefix
    <3>3. p[k] # M + 1 /\ p[k] \in 1..M /\ d[k] = s[p[k]]
      BY <1>6, <1>7, <3>2
    <3>4. p[k] \notin (n + 1)..M
      <4>1. SUFFICES ASSUME p[k] \in (n + 1)..M PROVE FALSE
        OBVIOUS
      <4>2. d[k] = v[p[k] - n] /\ p[k] - n \in 1..Len(v)
        BY <1>2, <3>3, <4>1
      <4> QED
        BY <3>2, <4>2 DEF NoneFlagged
    <3>5. p[k] \in 1..n
      BY <1>1, <1>2, <3>3, <3>4
    <3> QED
      BY <1>2, <3>3, <3>5
  <2>2. ASSUME NEW j \in 1..n, Flagged(a[j])
        PROVE  \E k \in 1..n : d[k] = a[j]
    <3>1. a[j] \in Seq(Nat)
      <4>1. Seq(Symbols) \subseteq Seq(Nat)
        BY WiderSeq DEF Symbols
      <4> QED
        BY <1>8, <4>1 DEF n
    <3>2. s[j] # <<>> /\ s[j] = a[j]
      BY <1>2, <2>2, <3>1, FlagPrefix
    <3>3. PICK k \in 1..n : p[k] = j
      BY <1>7, <3>2
    <3>4. j # M + 1
      BY <1>1, <1>2
    <3> QED
      BY <1>6, <3>2, <3>3, <3>4
  <2>3. /\ Argv!UserDataDirs(d) = {Tail(d[k]) : k \in {i \in 1..n : Flagged(d[i])}}
        /\ Argv!UserDataDirs(a) = {Tail(a[k]) : k \in {i \in 1..n : Flagged(a[i])}}
    BY <1>8 DEF Argv!UserDataDirs
  <2> HIDE DEF Flagged
  <2>4. ASSUME NEW k \in 1..n, Flagged(d[k])
        PROVE  Tail(d[k]) \in Argv!UserDataDirs(a)
    <3>1. PICK j \in 1..n : a[j] = d[k]
      BY <2>1, <2>4
    <3>2. Flagged(a[j]) /\ Tail(d[k]) = Tail(a[j])
      BY <2>4, <3>1
    <3> QED
      BY <2>3, <3>2
  <2>5. ASSUME NEW j \in 1..n, Flagged(a[j])
        PROVE  Tail(a[j]) \in Argv!UserDataDirs(d)
    <3>1. PICK k \in 1..n : d[k] = a[j]
      BY <2>2, <2>5
    <3>2. Flagged(d[k]) /\ Tail(a[j]) = Tail(d[k])
      BY <2>5, <3>1
    <3> QED
      BY <2>3, <3>2
  <2>6. ASSUME NEW x \in Argv!UserDataDirs(d) PROVE x \in Argv!UserDataDirs(a)
    <3>1. PICK k \in 1..n : Flagged(d[k]) /\ x = Tail(d[k])
      BY <2>3
    <3> QED
      BY <2>4, <3>1
  <2>7. ASSUME NEW x \in Argv!UserDataDirs(a) PROVE x \in Argv!UserDataDirs(d)
    <3>1. PICK k \in 1..n : Flagged(a[k]) /\ x = Tail(a[k])
      BY <2>3
    <3> QED
      BY <2>5, <3>1
  <2> QED
    BY <2>6, <2>7
<1> QED
  BY <1>9, <1>10 DEF ReadExactly

(* What was decoded is what the block held, and the block is laid out from *)
(* the argv and the environment.                                           *)
ArgvInv ==
    /\ argv \in Seq(Strings) /\ env \in Seq(Variables)
    /\ argc \in {Len(argv), -1, Argv!MaxArgc + 1}
    /\ part = "argv" => \E pad \in 1..MaxPad : block = Argv!Block(argv, env, pad)
    /\ decoded # <<>> => part = "argv" /\ decoded = Argv!ProcessArgs(argc, block)

LEMMA ArgvInvCorrect == Spec => []ArgvInv
<1>1. Init => ArgvInv
  <2>1. ASSUME part = "argv", Argv!Init PROVE ArgvInv
    <3>1. argv \in Seq(Strings) /\ env \in Seq(Variables)
      BY <2>1 DEF Argv!Init, Argv!BoundedSeq, Argv!SeqOf
    <3> QED
      BY <2>1, <3>1 DEF Argv!Init, ArgvInv
  <2>2. ASSUME part # "argv", ArgvIdle PROVE ArgvInv
    BY <2>2 DEF ArgvIdle, ArgvInv
  <2>3. Init => \/ part = "argv" /\ Argv!Init
                \/ part # "argv" /\ ArgvIdle
    BY DEF Init
  <2> QED
    BY <2>1, <2>2, <2>3
<1>2. ArgvInv /\ [Next]_vars => ArgvInv'
  <2> SUFFICES ASSUME ArgvInv, [Next]_vars PROVE ArgvInv'
    OBVIOUS
  <2>1. ASSUME part = "argv", Argv!Decode, UNCHANGED part PROVE ArgvInv'
    BY <2>1 DEF ArgvInv, Argv!Decode
  <2>2. ASSUME UNCHANGED <<part, argvVars>> PROVE ArgvInv'
    BY <2>2 DEF ArgvInv, argvVars
  <2>3. \/ part = "argv" /\ Argv!Decode /\ UNCHANGED part
        \/ UNCHANGED <<part, argvVars>>
    BY DEF Next, vars, argvVars, Argv!Next, Argv!Finished, Argv!vars
  <2> QED
    BY <2>1, <2>2, <2>3
<1> QED
  BY <1>1, <1>2, PTL DEF Spec

(* An argv without empty strings is read exactly from its block, and the   *)
(* profile directories of a process are always those its argv names        *)
(* (processArgs).                                                          *)
THEOREM ArgvRead == Spec => []ArgvExact
<1>1. ArgvInv => ArgvExact
  <2> SUFFICES ASSUME ArgvInv, Argv!Decoded
               PROVE  ReadExactly(argv, decoded)
    BY DEF ArgvExact, Argv!ArgvExact, ReadExactly
  <2>1. /\ decoded # Rejected /\ decoded = Argv!ProcessArgs(argc, block)
        /\ part = "argv" /\ argc \in 1..Argv!MaxArgc
    BY DEF ArgvInv, Argv!Decoded, Argv!ProcessArgs
  <2>2. argc = Len(argv)
    BY <2>1 DEF ArgvInv, Argv!MaxArgc
  <2>3. PICK pad \in 1..MaxPad : block = Argv!Block(argv, env, pad)
    BY <2>1 DEF ArgvInv
  <2>4. pad \in Nat /\ pad > 0
    OBVIOUS
  <2>5. argv \in Seq(Seq(Symbols)) /\ env \in Seq(Seq(Symbols))
    <3>1. Strings \subseteq Seq(Symbols) /\ Variables \subseteq Seq(Symbols)
      BY StringsAssumption DEF Symbols
    <3> QED
      BY <3>1, WiderSeq DEF ArgvInv
  <2>6. NoneFlagged(env)
    <3>1. \A i \in 1..Len(env) : env[i] \in Variables
      BY DEF ArgvInv
    <3> QED
      BY <3>1, VariablesAssumption DEF NoneFlagged
  <2>7. decoded = Argv!ProcessArgs(Len(argv), Argv!Block(argv, env, pad))
    BY <2>1, <2>2, <2>3
  <2> QED
    BY <2>1, <2>4, <2>5, <2>6, <2>7, DecodedExactly
<1> QED
  BY <1>1, ArgvInvCorrect, PTL

=============================================================================
