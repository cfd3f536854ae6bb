--------------------------- MODULE RoutingProofs ---------------------------
(***************************************************************************)
(* The invariants of Routing for every configuration, every table of       *)
(* mounts and every set of subscriptions.  Files and tables of any length  *)
(* are read by folds.  A fold is the last value of a sequence of steps     *)
(* (FoldSolved, FoldSteps: the recursion of the community modules has a    *)
(* solution, and any solution goes step by step), so that what one line    *)
(* keeps (RuleRead, FssetRead, LineSorted) the whole file keeps, by        *)
(* counting up (CountUp).  The three lookups that decide who frees a       *)
(* subscription need none of this: they ask the same question (Life).      *)
(***************************************************************************)
EXTENDS Routing, SequenceTheorems, WellFoundedInduction, TLAPS

Holders == {"nobody", "tree", "inotify"}

SubTypes ==
  /\ backend \in Backends
  /\ stage \in [Subs -> {"new", "refused", "held", "removed", "done"}]
  /\ holder \in [Subs -> Holders] /\ route \in [Subs -> Holders]
  /\ freed \in [Subs -> Nat] /\ moved \in [Subs -> BOOLEAN]

(* The inductive invariant: what each stage of its life says of a          *)
(* subscription.  One that is held is with the backend it was given to;    *)
(* one that was removed and whose path did not move is with none, and      *)
(* freed exactly if it was in the tree. *)
Routed(s) ==
  /\ route[s] # "nobody"
  /\ route[s] = "inotify" => backend \in {"inotify", "failed"}

Life(s) ==
  /\ stage[s] \in {"new", "refused", "held"} => freed[s] = 0
  /\ stage[s] = "removed" => freed[s] <= 1
  /\ stage[s] = "done" => freed[s] <= 2
  /\ stage[s] = "held" => Routed(s) /\ holder[s] = route[s]
  /\ stage[s] = "removed" /\ ~moved[s] =>
       /\ Routed(s) /\ holder[s] = "nobody"
       /\ freed[s] = IF route[s] = "tree" THEN 1 ELSE 0
  /\ stage[s] = "done" /\ ~moved[s] =>
       /\ holder[s] = "nobody"
       /\ freed[s] = IF backend = "failed" /\ route[s] = "inotify" THEN 0 ELSE 1

Inv == SubTypes /\ \A s \in Subs : Life(s)

-----------------------------------------------------------------------------
(* Numbers and folds. *)

LEMMA LeastIsIn ==
  ASSUME NEW I \in SUBSET Nat, I # {}
  PROVE  Min(I) \in I /\ \A y \in I : Min(I) <= y
<1>1. PICK x \in I : \A y \in I : ~(<<y, x>> \in OpToRel(<, Nat))
  BY NatLessThanWellFounded, WFMin
<1>2. \A y \in I : ~(y < x)
  BY <1>1, Zenon DEF OpToRel
<1>3. \A y \in I : x <= y
  BY <1>2
<1> QED
  BY <1>3 DEF Min

LEMMA GreatestIsIn ==
  ASSUME NEW n \in Nat, NEW I \in SUBSET (1 .. n), I # {}
  PROVE  Max(I) \in I /\ \A y \in I : y <= Max(I)
<1> DEFINE J == {k \in Nat : \E x \in I : k = n - x}
<1>0. PICK z \in I : TRUE
  OBVIOUS
<1>1. J \in SUBSET Nat /\ n - z \in J
  OBVIOUS
<1>2. Min(J) \in J /\ \A y \in J : Min(J) <= y
  BY <1>1, LeastIsIn
<1>3. PICK x \in I : Min(J) = n - x
  BY <1>2
<1>4. \A y \in I : n - y \in J
  OBVIOUS
<1>5. \A y \in I : y <= x
  BY <1>2, <1>3, <1>4
<1> QED
  BY <1>5 DEF Max

(* Induction up to n, for a set of numbers. *)
LEMMA CountUp ==
  ASSUME NEW n \in Nat, NEW P, 0 \in P, \A k \in 1 .. n : k - 1 \in P => k \in P
  PROVE  \A k \in 0 .. n : k \in P
<1> DEFINE J == {k \in 0 .. n : k \notin P}
<1> SUFFICES ASSUME J # {} PROVE FALSE
  OBVIOUS
<1>1. J \in SUBSET Nat
  OBVIOUS
<1>2. PICK m \in J : \A y \in J : m <= y
  BY <1>1, LeastIsIn
<1>3. m \in 1 .. n /\ m - 1 \in 0 .. n
  BY <1>2
<1>4. m - 1 \notin J
  BY <1>2, <1>3
<1> QED
  BY <1>2, <1>3, <1>4

(* The recursion of MapThenFoldSet, with the operator as a function G of   *)
(* the set and the result so far, has a solution.                          *)
Solvable(n, V, b, G) ==
  \E f \in [SUBSET (1 .. n) -> V] : \A s \in SUBSET (1 .. n) :
    f[s] = IF s = {} THEN b ELSE G[<<s, f[s \ {Max(s)}]>>]

LEMMA FoldExists ==
  ASSUME NEW n \in Nat, NEW V, NEW b \in V, NEW G \in [(SUBSET (1 .. n)) \X V -> V]
  PROVE  Solvable(n, V, b, G)
<1> DEFINE D == SUBSET (1 .. n)
           Upto(f, m) == \A s \in D : (\A x \in s : x <= m) =>
                           f[s] = IF s = {} THEN b ELSE G[<<s, f[s \ {Max(s)}]>>]
           P == {m \in 0 .. n : \E f \in [D -> V] : Upto(f, m)}
<1>1. 0 \in P
  <2> DEFINE g == [s \in D |-> b]
  <2>1. \A s \in D : (\A x \in s : x <= 0) => s = {}
    OBVIOUS
  <2>2. g \in [D -> V] /\ Upto(g, 0)
    BY <2>1
  <2> HIDE DEF g, Upto
  <2> QED
    BY <2>2
<1>2. ASSUME NEW m \in 1 .. n, m - 1 \in P
      PROVE  m \in P
  <2>1. PICK f \in [D -> V] : Upto(f, m - 1)
    BY <1>2
  <2> DEFINE next(s) == s \ {Max(s)}
             g == [s \in D |-> IF \A x \in s : x <= m - 1 THEN f[s]
                               ELSE G[<<s, f[next(s)]>>]]
  <2>2. ASSUME NEW s \in D
        PROVE  next(s) \in D /\ <<s, f[next(s)]>> \in D \X V
    BY <2>1
  <2>3. g \in [D -> V]
    BY <2>1, <2>2
  <2>4. ASSUME NEW s \in D, \A x \in s : x <= m
        PROVE  g[s] = IF s = {} THEN b ELSE G[<<s, g[next(s)]>>]
    <3>1. CASE s = {}
      BY <2>1, <3>1
    <3>2. CASE s # {}
      <4>1. \A x \in next(s) : x <= m - 1
        <5>1. Max(s) \in s /\ \A y \in s : y <= Max(s)
          BY <3>2, GreatestIsIn
        <5>2. ASSUME NEW x \in next(s)
              PROVE  x <= m - 1
          <6>1. x \in 1 .. n /\ Max(s) \in 1 .. n /\ x <= Max(s) /\ x # Max(s)
            BY <5>1, <5>2
          <6>2. Max(s) <= m
            BY <2>4, <5>1
          <6> QED
            BY <6>1, <6>2
        <5> QED
          BY <5>2
      <4>2. next(s) \in D
        OBVIOUS
      <4>3. g[next(s)] = f[next(s)]
        BY <4>1, <4>2
      <4>4. g[s] = G[<<s, f[next(s)]>>]
        <5>1. CASE \A x \in s : x <= m - 1
          BY <2>1, <3>2, <5>1
        <5>2. CASE ~ \A x \in s : x <= m - 1
          BY <5>2
        <5> QED
          BY <5>1, <5>2
      <4> QED
        BY <3>2, <4>3, <4>4
    <3> QED
      BY <3>1, <3>2
  <2>5. Upto(g, m)
    BY <2>4
  <2> HIDE DEF g, Upto
  <2>6. m \in 0 .. n
    OBVIOUS
  <2> QED
    BY <2>3, <2>5, <2>6
<1> HIDE DEF P
<1>3. n \in P
  BY <1>1, <1>2, CountUp
<1> USE DEF P
<1>4. PICK f \in [D -> V] : Upto(f, n)
  BY <1>3
<1>5. \A s \in D : \A x \in s : x <= n
  OBVIOUS
<1> QED
  BY <1>4, <1>5 DEF Solvable

(* A fold over q with the operator as a function H: it has a solution, and *)
(* every solution is reached by steps that read q from the left.           *)
IsFold(f, b, q, H, V) ==
  \A s \in SUBSET (1 .. Len(q)) :
    /\ s = {} => f[s] = b
    /\ s # {} /\ f[s \ {Max(s)}] \in V => f[s] = H[<<f[s \ {Max(s)}], q[Max(s)]>>]

Reached(f, b, q, H, V) ==
  \E h \in [0 .. Len(q) -> V] :
    /\ h[0] = b /\ \A k \in 1 .. Len(q) : h[k] = H[<<h[k - 1], q[k]>>]
    /\ f = h[Len(q)]

LEMMA FoldSolved ==
  ASSUME NEW V, NEW S, NEW b \in V, NEW q \in Seq(S), NEW H \in [V \X S -> V]
  PROVE  \E f \in [SUBSET (1 .. Len(q)) -> V] : IsFold(f, b, q, H, V)
<1> DEFINE n == Len(q)
           D == SUBSET (1 .. n)
           G == [z \in D \X V |-> IF z[1] = {} THEN b ELSE H[<<z[2], q[Max(z[1])]>>]]
<1>1. n \in Nat /\ \A i \in 1 .. n : q[i] \in S
  OBVIOUS
<1> HIDE DEF n
<1>2. \A s \in D : s # {} => q[Max(s)] \in S
  BY <1>1, GreatestIsIn
<1>3. G \in [D \X V -> V]
  <2>1. ASSUME NEW z \in D \X V
        PROVE  (IF z[1] = {} THEN b ELSE H[<<z[2], q[Max(z[1])]>>]) \in V
    BY <1>2, <2>1
  <2> QED
    BY <2>1, Zenon
<1>4. PICK f \in [D -> V] : \A s \in D :
        f[s] = IF s = {} THEN b ELSE G[<<s, f[s \ {Max(s)}]>>]
  <2> HIDE DEF G
  <2>1. Solvable(n, V, b, G)
    BY <1>1, <1>3, FoldExists
  <2> QED
    BY <2>1, Zenon DEF Solvable
<1>5. ASSUME NEW s \in D, s # {}
      PROVE  f[s] = H[<<f[s \ {Max(s)}], q[Max(s)]>>]
  <2>1. <<s, f[s \ {Max(s)}]>> \in D \X V
    BY <1>4
  <2>2. G[<<s, f[s \ {Max(s)}]>>] = H[<<f[s \ {Max(s)}], q[Max(s)]>>]
    BY <1>5, <2>1
  <2> QED
    BY <1>4, <1>5, <2>2, Zenon
<1>6. f[{}] = b
  <2>1. {} \in D
    OBVIOUS
  <2> QED
    BY <1>4, <2>1, Zenon
<1> QED
  BY <1>4, <1>5, <1>6 DEF IsFold, n

LEMMA FoldSteps ==
  ASSUME NEW V, NEW S, NEW b \in V, NEW q \in Seq(S), NEW H \in [V \X S -> V],
         NEW F, IsFold(F, b, q, H, V)
  PROVE  Reached(F[1 .. Len(q)], b, q, H, V)
<1> DEFINE n == Len(q)
           h == [k \in 0 .. n |-> F[1 .. k]]
           P == {k \in 0 .. n : h[k] \in V}
<1>1. n \in Nat /\ \A i \in 1 .. n : q[i] \in S
  OBVIOUS
<1>2. h[0] = b
  <2>1. 1 .. 0 = {} /\ 0 \in 0 .. n /\ {} \in SUBSET (1 .. n)
    BY <1>1
  <2> QED
    BY <2>1 DEF IsFold
<1>3. ASSUME NEW k \in 1 .. n, k - 1 \in P
      PROVE  h[k] = H[<<h[k - 1], q[k]>>] /\ k \in P
  <2>1. k \in 1 .. k /\ k \in 0 .. n /\ k - 1 \in 0 .. n
    BY <1>1
  <2>2. \A y \in 1 .. k : y \in 1 .. n /\ y <= k
    BY <1>1
  <2>3. Max(1 .. k) \in 1 .. k /\ \A y \in 1 .. k : y <= Max(1 .. k)
    <3>1. 1 .. k \in SUBSET (1 .. n) /\ 1 .. k # {}
      BY <2>1, <2>2
    <3> QED
      BY <1>1, <3>1, GreatestIsIn
  <2>4. Max(1 .. k) = k
    BY <2>1, <2>2, <2>3
  <2>5. (1 .. k) \ {k} = 1 .. k - 1
    BY <2>1
  <2>6. h[k] = F[1 .. k] /\ h[k - 1] = F[1 .. k - 1] /\ h[k - 1] \in V
    BY <1>3, <2>1
  <2>7. 1 .. k \in SUBSET (1 .. n) /\ 1 .. k # {}
    BY <2>1, <2>2
  <2>8. F[1 .. k] = H[<<F[(1 .. k) \ {k}], q[k]>>]
    BY <2>4, <2>5, <2>6, <2>7, Zenon DEF IsFold, n
  <2>9. h[k] = H[<<h[k - 1], q[k]>>]
    BY <2>5, <2>6, <2>8, Zenon
  <2>10. H[<<h[k - 1], q[k]>>] \in V
    <3> HIDE DEF h
    <3> QED
      BY <1>1, <2>6
  <2> HIDE DEF h
  <2> QED
    BY <2>1, <2>9, <2>10
<1>4. 0 \in P
  <2> HIDE DEF h
  <2> QED
    BY <1>1, <1>2
<1> HIDE DEF P
<1>5. \A k \in 0 .. n : k \in P
  BY <1>1, <1>3, <1>4, CountUp
<1>6. h \in [0 .. n -> V]
  <2>1. \A k \in 0 .. n : h[k] \in V
    BY <1>5 DEF P
  <2> QED
    BY <2>1
<1>7. F[1 .. n] = h[n]
  BY <1>1
<1>8. \A k \in 1 .. n : h[k] = H[<<h[k - 1], q[k]>>]
  <2>1. \A k \in 1 .. n : k - 1 \in 0 .. n
    BY <1>1
  <2> HIDE DEF h
  <2> QED
    BY <1>3, <1>5, <2>1
<1> HIDE DEF h
<1> QED
  BY <1>2, <1>6, <1>7, <1>8 DEF Reached

-----------------------------------------------------------------------------
(* The folds of the model: lines of a file, static rules, mtab. *)

Lines  == Rules \cup Fssets
Tables == [Types -> Props]
Mtabs  == [at : Mounts, type : Types]

LEMMA RuleType ==
  ASSUME NEW v \in Seq(Rules)
  PROVE  /\ \A l \in Rules : gam_exclude_add(v, l) \in Seq(Rules)
         /\ \A l \in Lines : ReadRule(v, l) \in Seq(Rules)
  BY DEF gam_exclude_add, ReadRule

LEMMA SetType ==
  ASSUME NEW v \in Tables
  PROVE  /\ \A l \in Fssets : gam_fs_set(v, l) \in Tables
         /\ \A l \in Lines : ReadFsset(v, l) \in Tables
<1>1. ASSUME NEW l \in Fssets
      PROVE  gam_fs_set(v, l) \in Tables
  <2>1. l.type \in Types /\ l.mon \in Methods /\ l.timeout \in Int
    BY DEF Fssets
  <2>2. v[l.type].timeout \in Int
    BY <2>1 DEF Tables, Props
  <2>3. [mon |-> l.mon,
         timeout |-> IF l.timeout >= 0 THEN l.timeout
                     ELSE IF v[l.type] = NoProps THEN 0 ELSE v[l.type].timeout] \in Props
    BY <2>1, <2>2 DEF Props
  <2> QED
    BY <2>3 DEF gam_fs_set, Tables
<1> QED
  BY <1>1 DEF ReadFsset

(* What inserting one element makes of a sequence. *)
LEMMA Inserted ==
  ASSUME NEW S, NEW t \in Seq(S), NEW i \in 1 .. Len(t) + 1, NEW e \in S
  PROVE  /\ InsertAt(t, i, e) \in Seq(S)
         /\ Len(InsertAt(t, i, e)) = Len(t) + 1
         /\ \A j \in 1 .. Len(t) + 1 :
              InsertAt(t, i, e)[j] = IF j < i THEN t[j] ELSE IF j = i THEN e ELSE t[j - 1]
<1> DEFINE a == SubSeq(t, 1, i - 1)
           b == SubSeq(t, i, Len(t))
           m == a \o <<e>>
<1>1. /\ a \in Seq(S) /\ Len(a) = i - 1
      /\ \A j \in 1 .. i - 1 : a[j] = t[j]
  OBVIOUS
<1>2. /\ b \in Seq(S) /\ Len(b) = Len(t) - i + 1
      /\ \A j \in i .. Len(t) : b[j - i + 1] = t[j]
  OBVIOUS
<1>3. InsertAt(t, i, e) = m \o b
  BY DEF InsertAt
<1> HIDE DEF a, b
<1>4. /\ m \in Seq(S) /\ Len(m) = i /\ m[i] = e
      /\ \A j \in 1 .. i - 1 : m[j] = t[j]
  BY <1>1
<1> HIDE DEF m
<1>5. i \in Nat /\ Len(t) \in Nat
  OBVIOUS
<1>6. /\ m \o b \in Seq(S) /\ Len(m \o b) = Len(m) + Len(b)
      /\ \A j \in 1 .. Len(m) + Len(b) :
           (m \o b)[j] = IF j <= Len(m) THEN m[j] ELSE b[j - Len(m)]
  BY <1>2, <1>4, ConcatProperties
<1>7. PICK u : u = m \o b
  OBVIOUS
<1>8. /\ u \in Seq(S) /\ Len(u) = Len(t) + 1
      /\ \A j \in 1 .. Len(t) + 1 : u[j] = IF j <= i THEN m[j] ELSE b[j - i]
  BY <1>2, <1>4, <1>5, <1>6, <1>7
<1>9. ASSUME NEW j \in 1 .. Len(t) + 1
      PROVE  u[j] = IF j < i THEN t[j] ELSE IF j = i THEN e ELSE t[j - 1]
  <2>1. CASE j <= i
    BY <1>4, <1>5, <1>8, <2>1
  <2>2. CASE j > i
    <3>1. j - 1 \in i .. Len(t) /\ (j - 1) - i + 1 = j - i /\ ~(j <= i)
      BY <1>5, <2>2
    <3>2. b[(j - 1) - i + 1] = t[j - 1]
      BY <1>2, <3>1
    <3> QED
      BY <1>8, <2>2, <3>1, <3>2
  <2> QED
    BY <1>5, <2>1, <2>2
<1> QED
  BY <1>3, <1>7, <1>8, <1>9

(* Where Sorted puts a file system: after the longer mount points. *)
LEMMA SortedPlace ==
  ASSUME NEW list \in Seq(Mtabs), NEW fs \in Mtabs
  PROVE  \E i \in 1 .. Len(list) + 1 :
           /\ Sorted(list, fs) = InsertAt(list, i, fs)
           /\ \A j \in 1 .. Len(list) : j < i => Length[list[j].at] > Length[fs.at]
           /\ i <= Len(list) => Length[list[i].at] <= Length[fs.at]
<1> DEFINE I == {j \in 1 .. Len(list) : gam_fs_filesystem_sort_cb(fs, list[j]) <= 0}
<1>1. Length[fs.at] \in Nat /\ \A j \in 1 .. Len(list) : Length[list[j].at] \in Nat
  <2>1. \A j \in 1 .. Len(list) : list[j] \in Mtabs
    OBVIOUS
  <2> QED
    BY <2>1, RoutingSets DEF Mtabs
<1>2. \A j \in 1 .. Len(list) : j \in I <=> Length[list[j].at] <= Length[fs.at]
  BY <1>1 DEF gam_fs_filesystem_sort_cb
<1>3. CASE I = {}
  <2>1. Sorted(list, fs) = InsertAt(list, Len(list) + 1, fs)
    BY <1>3 DEF Sorted, SelectInSeq
  <2> HIDE DEF I
  <2> QED
    BY <1>1, <1>2, <1>3, <2>1
<1>4. CASE I # {}
  <2>1. I \in SUBSET Nat /\ I \subseteq 1 .. Len(list)
    OBVIOUS
  <2>2. PICK i : i = Min(I)
    OBVIOUS
  <2>3. i \in I /\ \A j \in I : i <= j
    <3> HIDE DEF I
    <3> QED
      BY <1>4, <2>1, <2>2, LeastIsIn
  <2>4. Sorted(list, fs) = InsertAt(list, i, fs)
    <3>1. Min(I) # 0
      BY <2>1, <2>2, <2>3
    <3> QED
      BY <1>4, <2>2, <3>1 DEF Sorted, SelectInSeq
  <2> HIDE DEF I
  <2>5. i \in 1 .. Len(list) + 1 /\ i \in 1 .. Len(list)
    BY <2>1, <2>3
  <2>6. ASSUME NEW j \in 1 .. Len(list), j < i
        PROVE  Length[list[j].at] > Length[fs.at]
    <3>1. j \notin I
      BY <2>3, <2>5, <2>6
    <3> QED
      BY <1>1, <1>2, <3>1
  <2> QED
    BY <1>2, <2>3, <2>4, <2>5, <2>6
<1> QED
  BY <1>3, <1>4

LEMMA SortedType ==
  ASSUME NEW v \in Seq(Mtabs)
  PROVE  \A x \in Mtabs : Sorted(v, x) \in Seq(Mtabs)
<1> TAKE x \in Mtabs
<1>1. PICK i \in 1 .. Len(v) + 1 : Sorted(v, x) = InsertAt(v, i, x)
  BY SortedPlace
<1> QED
  BY <1>1, Inserted

LEMMA FoldRules ==
  ASSUME NEW b \in Seq(Rules), NEW q \in Seq(Lines)
  PROVE  \E h \in [0 .. Len(q) -> Seq(Rules)] :
           /\ h[0] = b /\ \A k \in 1 .. Len(q) : h[k] = ReadRule(h[k - 1], q[k])
           /\ FoldLeft(ReadRule, b, q) = h[Len(q)]
<1> DEFINE B(f) == f = [s \in SUBSET (DOMAIN q) |->
                          IF s = {} THEN b ELSE ReadRule(f[s \ {Max(s)}], q[Max(s)])]
           H == [z \in Seq(Rules) \X Lines |-> ReadRule(z[1], z[2])]
<1>1. DOMAIN q = 1 .. Len(q) /\ Len(q) \in Nat /\ \A i \in 1 .. Len(q) : q[i] \in Lines
  OBVIOUS
<1>2. H \in [Seq(Rules) \X Lines -> Seq(Rules)] /\ \A v \in Seq(Rules), x \in Lines : H[<<v, x>>] = ReadRule(v, x)
  BY RuleType
<1> HIDE DEF H
<1>3. \A s \in SUBSET (1 .. Len(q)) : s # {} => q[Max(s)] \in Lines
  BY <1>1, GreatestIsIn
<1>4. PICK f \in [SUBSET (1 .. Len(q)) -> Seq(Rules)] : IsFold(f, b, q, H, Seq(Rules))
  BY <1>2, FoldSolved
<1>5. B(f)
  <2>1. ASSUME NEW s \in SUBSET (1 .. Len(q))
        PROVE  f[s] = IF s = {} THEN b ELSE ReadRule(f[s \ {Max(s)}], q[Max(s)])
    <3>1. f[s \ {Max(s)}] \in Seq(Rules)
      BY <1>4
    <3> QED
      BY <1>2, <1>3, <1>4, <3>1, Zenon DEF IsFold
  <2>2. f = [s \in SUBSET (1 .. Len(q)) |-> f[s]]
    BY <1>4
  <2> QED
    BY <1>1, <2>1, <2>2, Zenon
<1>6. PICK F : F = CHOOSE g : B(g)
  OBVIOUS
<1>7. FoldLeft(ReadRule, b, q) = F[1 .. Len(q)]
  BY <1>1, <1>6, Zenon DEF FoldLeft, MapThenFoldSet
<1>8. \A s \in SUBSET (1 .. Len(q)) :
        F[s] = IF s = {} THEN b ELSE ReadRule(F[s \ {Max(s)}], q[Max(s)])
  <2>1. B(F)
    <3> HIDE DEF B
    <3> QED
      BY <1>5, <1>6, Zenon
  <2> QED
    BY <1>1, <2>1
<1>9. IsFold(F, b, q, H, Seq(Rules))
  BY <1>2, <1>3, <1>8, Zenon DEF IsFold
<1>10. Reached(F[1 .. Len(q)], b, q, H, Seq(Rules))
  BY <1>2, <1>9, FoldSteps
<1>11. PICK h \in [0 .. Len(q) -> Seq(Rules)] :
         /\ h[0] = b /\ \A k \in 1 .. Len(q) : h[k] = H[<<h[k - 1], q[k]>>]
         /\ F[1 .. Len(q)] = h[Len(q)]
  BY <1>10 DEF Reached
<1>12. ASSUME NEW k \in 1 .. Len(q)
       PROVE  h[k] = ReadRule(h[k - 1], q[k])
  <2>1. k - 1 \in 0 .. Len(q) /\ q[k] \in Lines
    BY <1>1
  <2>2. h[k - 1] \in Seq(Rules)
    BY <1>11, <2>1, Zenon
  <2> QED
    BY <1>2, <1>11, <2>1, <2>2
<1> QED
  BY <1>7, <1>11, <1>12

LEMMA FoldStatic ==
  ASSUME NEW b \in Seq(Rules), NEW q \in Seq(Rules)
  PROVE  \E h \in [0 .. Len(q) -> Seq(Rules)] :
           /\ h[0] = b /\ \A k \in 1 .. Len(q) : h[k] = gam_exclude_add(h[k - 1], q[k])
           /\ FoldLeft(gam_exclude_add, b, q) = h[Len(q)]
<1> DEFINE B(f) == f = [s \in SUBSET (DOMAIN q) |->
                          IF s = {} THEN b ELSE gam_exclude_add(f[s \ {Max(s)}], q[Max(s)])]
           H == [z \in Seq(Rules) \X Rules |-> gam_exclude_add(z[1], z[2])]
<1>1. DOMAIN q = 1 .. Len(q) /\ Len(q) \in Nat /\ \A i \in 1 .. Len(q) : q[i] \in Rules
  OBVIOUS
<1>2. H \in [Seq(Rules) \X Rules -> Seq(Rules)] /\ \A v \in Seq(Rules), x \in Rules : H[<<v, x>>] = gam_exclude_add(v, x)
  BY RuleType
<1> HIDE DEF H
<1>3. \A s \in SUBSET (1 .. Len(q)) : s # {} => q[Max(s)] \in Rules
  BY <1>1, GreatestIsIn
<1>4. PICK f \in [SUBSET (1 .. Len(q)) -> Seq(Rules)] : IsFold(f, b, q, H, Seq(Rules))
  BY <1>2, FoldSolved
<1>5. B(f)
  <2>1. ASSUME NEW s \in SUBSET (1 .. Len(q))
        PROVE  f[s] = IF s = {} THEN b ELSE gam_exclude_add(f[s \ {Max(s)}], q[Max(s)])
    <3>1. f[s \ {Max(s)}] \in Seq(Rules)
      BY <1>4
    <3> QED
      BY <1>2, <1>3, <1>4, <3>1, Zenon DEF IsFold
  <2>2. f = [s \in SUBSET (1 .. Len(q)) |-> f[s]]
    BY <1>4
  <2> QED
    BY <1>1, <2>1, <2>2, Zenon
<1>6. PICK F : F = CHOOSE g : B(g)
  OBVIOUS
<1>7. FoldLeft(gam_exclude_add, b, q) = F[1 .. Len(q)]
  BY <1>1, <1>6, Zenon DEF FoldLeft, MapThenFoldSet
<1>8. \A s \in SUBSET (1 .. Len(q)) :
        F[s] = IF s = {} THEN b ELSE gam_exclude_add(F[s \ {Max(s)}], q[Max(s)])
  <2>1. B(F)
    <3> HIDE DEF B
    <3> QED
      BY <1>5, <1>6, Zenon
  <2> QED
    BY <1>1, <2>1
<1>9. IsFold(F, b, q, H, Seq(Rules))
  BY <1>2, <1>3, <1>8, Zenon DEF IsFold
<1>10. Reached(F[1 .. Len(q)], b, q, H, Seq(Rules))
  BY <1>2, <1>9, FoldSteps
<1>11. PICK h \in [0 .. Len(q) -> Seq(Rules)] :
         /\ h[0] = b /\ \A k \in 1 .. Len(q) : h[k] = H[<<h[k - 1], q[k]>>]
         /\ F[1 .. Len(q)] = h[Len(q)]
  BY <1>10 DEF Reached
<1>12. ASSUME NEW k \in 1 .. Len(q)
       PROVE  h[k] = gam_exclude_add(h[k - 1], q[k])
  <2>1. k - 1 \in 0 .. Len(q) /\ q[k] \in Rules
    BY <1>1
  <2>2. h[k - 1] \in Seq(Rules)
    BY <1>11, <2>1, Zenon
  <2> QED
    BY <1>2, <1>11, <2>1, <2>2
<1> QED
  BY <1>7, <1>11, <1>12

LEMMA FoldFssets ==
  ASSUME NEW b \in Tables, NEW q \in Seq(Lines)
  PROVE  \E h \in [0 .. Len(q) -> Tables] :
           /\ h[0] = b /\ \A k \in 1 .. Len(q) : h[k] = ReadFsset(h[k - 1], q[k])
           /\ FoldLeft(ReadFsset, b, q) = h[Len(q)]
<1> DEFINE B(f) == f = [s \in SUBSET (DOMAIN q) |->
                          IF s = {} THEN b ELSE ReadFsset(f[s \ {Max(s)}], q[Max(s)])]
           H == [z \in Tables \X Lines |-> ReadFsset(z[1], z[2])]
<1>1. DOMAIN q = 1 .. Len(q) /\ Len(q) \in Nat /\ \A i \in 1 .. Len(q) : q[i] \in Lines
  OBVIOUS
<1>2. H \in [Tables \X Lines -> Tables] /\ \A v \in Tables, x \in Lines : H[<<v, x>>] = ReadFsset(v, x)
  BY SetType
<1> HIDE DEF H
<1>3. \A s \in SUBSET (1 .. Len(q)) : s # {} => q[Max(s)] \in Lines
  BY <1>1, GreatestIsIn
<1>4. PICK f \in [SUBSET (1 .. Len(q)) -> Tables] : IsFold(f, b, q, H, Tables)
  BY <1>2, FoldSolved
<1>5. B(f)
  <2>1. ASSUME NEW s \in SUBSET (1 .. Len(q))
        PROVE  f[s] = IF s = {} THEN b ELSE ReadFsset(f[s \ {Max(s)}], q[Max(s)])
    <3>1. f[s \ {Max(s)}] \in Tables
      BY <1>4
    <3> QED
      BY <1>2, <1>3, <1>4, <3>1, Zenon DEF IsFold
  <2>2. f = [s \in SUBSET (1 .. Len(q)) |-> f[s]]
    BY <1>4
  <2> QED
    BY <1>1, <2>1, <2>2, Zenon
<1>6. PICK F : F = CHOOSE g : B(g)
  OBVIOUS
<1>7. FoldLeft(ReadFsset, b, q) = F[1 .. Len(q)]
  BY <1>1, <1>6, Zenon DEF FoldLeft, MapThenFoldSet
<1>8. \A s \in SUBSET (1 .. Len(q)) :
        F[s] = IF s = {} THEN b ELSE ReadFsset(F[s \ {Max(s)}], q[Max(s)])
  <2>1. B(F)
    <3> HIDE DEF B
    <3> QED
      BY <1>5, <1>6, Zenon
  <2> QED
    BY <1>1, <2>1
<1>9. IsFold(F, b, q, H, Tables)
  BY <1>2, <1>3, <1>8, Zenon DEF IsFold
<1>10. Reached(F[1 .. Len(q)], b, q, H, Tables)
  BY <1>2, <1>9, FoldSteps
<1>11. PICK h \in [0 .. Len(q) -> Tables] :
         /\ h[0] = b /\ \A k \in 1 .. Len(q) : h[k] = H[<<h[k - 1], q[k]>>]
         /\ F[1 .. Len(q)] = h[Len(q)]
  BY <1>10 DEF Reached
<1>12. ASSUME NEW k \in 1 .. Len(q)
       PROVE  h[k] = ReadFsset(h[k - 1], q[k])
  <2>1. k - 1 \in 0 .. Len(q) /\ q[k] \in Lines
    BY <1>1
  <2>2. h[k - 1] \in Tables
    BY <1>11, <2>1, Zenon
  <2> QED
    BY <1>2, <1>11, <2>1, <2>2
<1> QED
  BY <1>7, <1>11, <1>12

LEMMA FoldBuiltin ==
  ASSUME NEW b \in Tables, NEW q \in Seq(Fssets)
  PROVE  \E h \in [0 .. Len(q) -> Tables] :
           /\ h[0] = b /\ \A k \in 1 .. Len(q) : h[k] = gam_fs_set(h[k - 1], q[k])
           /\ FoldLeft(gam_fs_set, b, q) = h[Len(q)]
<1> DEFINE B(f) == f = [s \in SUBSET (DOMAIN q) |->
                          IF s = {} THEN b ELSE gam_fs_set(f[s \ {Max(s)}], q[Max(s)])]
           H == [z \in Tables \X Fssets |-> gam_fs_set(z[1], z[2])]
<1>1. DOMAIN q = 1 .. Len(q) /\ Len(q) \in Nat /\ \A i \in 1 .. Len(q) : q[i] \in Fssets
  OBVIOUS
<1>2. H \in [Tables \X Fssets -> Tables] /\ \A v \in Tables, x \in Fssets : H[<<v, x>>] = gam_fs_set(v, x)
  BY SetType
<1> HIDE DEF H
<1>3. \A s \in SUBSET (1 .. Len(q)) : s # {} => q[Max(s)] \in Fssets
  BY <1>1, GreatestIsIn
<1>4. PICK f \in [SUBSET (1 .. Len(q)) -> Tables] : IsFold(f, b, q, H, Tables)
  BY <1>2, FoldSolved
<1>5. B(f)
  <2>1. ASSUME NEW s \in SUBSET (1 .. Len(q))
        PROVE  f[s] = IF s = {} THEN b ELSE gam_fs_set(f[s \ {Max(s)}], q[Max(s)])
    <3>1. f[s \ {Max(s)}] \in Tables
      BY <1>4
    <3> QED
      BY <1>2, <1>3, <1>4, <3>1, Zenon DEF IsFold
  <2>2. f = [s \in SUBSET (1 .. Len(q)) |-> f[s]]
    BY <1>4
  <2> QED
    BY <1>1, <2>1, <2>2, Zenon
<1>6. PICK F : F = CHOOSE g : B(g)
  OBVIOUS
<1>7. FoldLeft(gam_fs_set, b, q) = F[1 .. Len(q)]
  BY <1>1, <1>6, Zenon DEF FoldLeft, MapThenFoldSet
<1>8. \A s \in SUBSET (1 .. Len(q)) :
        F[s] = IF s = {} THEN b ELSE gam_fs_set(F[s \ {Max(s)}], q[Max(s)])
  <2>1. B(F)
    <3> HIDE DEF B
    <3> QED
      BY <1>5, <1>6, Zenon
  <2> QED
    BY <1>1, <2>1
<1>9. IsFold(F, b, q, H, Tables)
  BY <1>2, <1>3, <1>8, Zenon DEF IsFold
<1>10. Reached(F[1 .. Len(q)], b, q, H, Tables)
  BY <1>2, <1>9, FoldSteps
<1>11. PICK h \in [0 .. Len(q) -> Tables] :
         /\ h[0] = b /\ \A k \in 1 .. Len(q) : h[k] = H[<<h[k - 1], q[k]>>]
         /\ F[1 .. Len(q)] = h[Len(q)]
  BY <1>10 DEF Reached
<1>12. ASSUME NEW k \in 1 .. Len(q)
       PROVE  h[k] = gam_fs_set(h[k - 1], q[k])
  <2>1. k - 1 \in 0 .. Len(q) /\ q[k] \in Fssets
    BY <1>1
  <2>2. h[k - 1] \in Tables
    BY <1>11, <2>1, Zenon
  <2> QED
    BY <1>2, <1>11, <2>1, <2>2
<1> QED
  BY <1>7, <1>11, <1>12

LEMMA FoldMtab ==
  ASSUME NEW b \in Seq(Mtabs), NEW q \in Seq(Mtabs)
  PROVE  \E h \in [0 .. Len(q) -> Seq(Mtabs)] :
           /\ h[0] = b /\ \A k \in 1 .. Len(q) : h[k] = Sorted(h[k - 1], q[k])
           /\ FoldLeft(Sorted, b, q) = h[Len(q)]
<1> DEFINE B(f) == f = [s \in SUBSET (DOMAIN q) |->
                          IF s = {} THEN b ELSE Sorted(f[s \ {Max(s)}], q[Max(s)])]
           H == [z \in Seq(Mtabs) \X Mtabs |-> Sorted(z[1], z[2])]
<1>1. DOMAIN q = 1 .. Len(q) /\ Len(q) \in Nat /\ \A i \in 1 .. Len(q) : q[i] \in Mtabs
  OBVIOUS
<1>2. H \in [Seq(Mtabs) \X Mtabs -> Seq(Mtabs)] /\ \A v \in Seq(Mtabs), x \in Mtabs : H[<<v, x>>] = Sorted(v, x)
  BY SortedType
<1> HIDE DEF H
<1>3. \A s \in SUBSET (1 .. Len(q)) : s # {} => q[Max(s)] \in Mtabs
  BY <1>1, GreatestIsIn
<1>4. PICK f \in [SUBSET (1 .. Len(q)) -> Seq(Mtabs)] : IsFold(f, b, q, H, Seq(Mtabs))
  BY <1>2, FoldSolved
<1>5. B(f)
  <2>1. ASSUME NEW s \in SUBSET (1 .. Len(q))
        PROVE  f[s] = IF s = {} THEN b ELSE Sorted(f[s \ {Max(s)}], q[Max(s)])
    <3>1. f[s \ {Max(s)}] \in Seq(Mtabs)
      BY <1>4
    <3> QED
      BY <1>2, <1>3, <1>4, <3>1, Zenon DEF IsFold
  <2>2. f = [s \in SUBSET (1 .. Len(q)) |-> f[s]]
    BY <1>4
  <2> QED
    BY <1>1, <2>1, <2>2, Zenon
<1>6. PICK F : F = CHOOSE g : B(g)
  OBVIOUS
<1>7. FoldLeft(Sorted, b, q) = F[1 .. Len(q)]
  BY <1>1, <1>6, Zenon DEF FoldLeft, MapThenFoldSet
<1>8. \A s \in SUBSET (1 .. Len(q)) :
        F[s] = IF s = {} THEN b ELSE Sorted(F[s \ {Max(s)}], q[Max(s)])
  <2>1. B(F)
    <3> HIDE DEF B
    <3> QED
      BY <1>5, <1>6, Zenon
  <2> QED
    BY <1>1, <2>1
<1>9. IsFold(F, b, q, H, Seq(Mtabs))
  BY <1>2, <1>3, <1>8, Zenon DEF IsFold
<1>10. Reached(F[1 .. Len(q)], b, q, H, Seq(Mtabs))
  BY <1>2, <1>9, FoldSteps
<1>11. PICK h \in [0 .. Len(q) -> Seq(Mtabs)] :
         /\ h[0] = b /\ \A k \in 1 .. Len(q) : h[k] = H[<<h[k - 1], q[k]>>]
         /\ F[1 .. Len(q)] = h[Len(q)]
  BY <1>10 DEF Reached
<1>12. ASSUME NEW k \in 1 .. Len(q)
       PROVE  h[k] = Sorted(h[k - 1], q[k])
  <2>1. k - 1 \in 0 .. Len(q) /\ q[k] \in Mtabs
    BY <1>1
  <2>2. h[k - 1] \in Seq(Mtabs)
    BY <1>11, <2>1, Zenon
  <2> QED
    BY <1>2, <1>11, <2>1, <2>2
<1> QED
  BY <1>7, <1>11, <1>12

-----------------------------------------------------------------------------
(* The exclude rules.  w is everything that is read, in order, and the     *)
(* first L of it have been read.                                           *)

FirstIn(rules, p, i) ==
  /\ i \in 1 .. Len(rules) /\ p \in rules[i].on
  /\ \A j \in 1 .. Len(rules) : j < i => p \notin rules[j].on

FirstHit(w, p, m) ==
  /\ w[m] \in Rules /\ p \in w[m].on
  /\ \A j \in 1 .. m - 1 : ~(w[j] \in Rules /\ p \in w[j].on)

(* The rules give the answer of the first line read that matches p.        *)
Agree(rules, w, p, L) ==
  \/ /\ \A i \in 1 .. Len(rules) : p \notin rules[i].on
     /\ \A j \in 1 .. L : ~(w[j] \in Rules /\ p \in w[j].on)
  \/ \E i \in 1 .. Len(rules), m \in 1 .. L :
       FirstIn(rules, p, i) /\ FirstHit(w, p, m) /\ rules[i].poll = w[m].poll

LEMMA RuleRead ==
  ASSUME NEW v \in Seq(Rules), NEW w, NEW p, NEW L \in Nat, Agree(v, w, p, L)
  PROVE  /\ w[L + 1] \in Rules => Agree(gam_exclude_add(v, w[L + 1]), w, p, L + 1)
         /\ w[L + 1] \notin Rules => Agree(v, w, p, L + 1)
<1>1. CASE \E i \in 1 .. Len(v), m \in 1 .. L :
             FirstIn(v, p, i) /\ FirstHit(w, p, m) /\ v[i].poll = w[m].poll
  <2>1. PICK i \in 1 .. Len(v), m \in 1 .. L :
          FirstIn(v, p, i) /\ FirstHit(w, p, m) /\ v[i].poll = w[m].poll
    BY <1>1
  <2>2. m \in 1 .. L + 1
    OBVIOUS
  <2>3. w[L + 1] \notin Rules => Agree(v, w, p, L + 1)
    BY <2>1, <2>2 DEF Agree
  <2>4. ASSUME w[L + 1] \in Rules
        PROVE  Agree(gam_exclude_add(v, w[L + 1]), w, p, L + 1)
    <3>1. PICK u : u = Append(v, w[L + 1])
      OBVIOUS
    <3>2. Len(u) = Len(v) + 1 /\ \A j \in 1 .. Len(v) : u[j] = v[j]
      BY <2>4, <3>1
    <3>3. i \in 1 .. Len(u) /\ u[i].poll = w[m].poll
      BY <2>1, <3>2
    <3>4. FirstIn(u, p, i)
      BY <2>1, <3>2 DEF FirstIn
    <3>5. Agree(u, w, p, L + 1)
      BY <2>1, <2>2, <3>3, <3>4 DEF Agree
    <3> QED
      BY <3>1, <3>5 DEF gam_exclude_add
  <2> QED
    BY <2>3, <2>4
<1>2. CASE /\ \A i \in 1 .. Len(v) : p \notin v[i].on
           /\ \A j \in 1 .. L : ~(w[j] \in Rules /\ p \in w[j].on)
  <2>1. ASSUME ~(w[L + 1] \in Rules /\ p \in w[L + 1].on)
        PROVE  \A j \in 1 .. L + 1 : ~(w[j] \in Rules /\ p \in w[j].on)
    <3>1. \A j \in 1 .. L + 1 : j \in 1 .. L \/ j = L + 1
      OBVIOUS
    <3> QED
      BY <1>2, <2>1, <3>1
  <2>2. w[L + 1] \notin Rules => Agree(v, w, p, L + 1)
    BY <1>2, <2>1 DEF Agree
  <2>3. ASSUME w[L + 1] \in Rules
        PROVE  Agree(gam_exclude_add(v, w[L + 1]), w, p, L + 1)
    <3>1. PICK u : u = Append(v, w[L + 1])
      OBVIOUS
    <3>2. /\ Len(u) = Len(v) + 1 /\ u[Len(v) + 1] = w[L + 1] /\ Len(v) \in Nat
          /\ \A j \in 1 .. Len(v) : u[j] = v[j]
      BY <2>3, <3>1
    <3>3. \A j \in 1 .. Len(u) : j \in 1 .. Len(v) \/ j = Len(v) + 1
      BY <3>2
    <3>4. CASE p \in w[L + 1].on
      <4>1. FirstIn(u, p, Len(v) + 1)
        BY <1>2, <3>2, <3>3, <3>4 DEF FirstIn
      <4>2. FirstHit(w, p, L + 1)
        BY <1>2, <2>3, <3>4 DEF FirstHit
      <4>3. Len(v) + 1 \in 1 .. Len(u) /\ L + 1 \in 1 .. L + 1
        BY <3>2
      <4>4. u[Len(v) + 1].poll = w[L + 1].poll
        BY <3>2
      <4>5. Agree(u, w, p, L + 1)
        BY <4>1, <4>2, <4>3, <4>4, Zenon DEF Agree
      <4> QED
        BY <3>1, <4>5 DEF gam_exclude_add
    <3>5. CASE p \notin w[L + 1].on
      <4>1. \A j \in 1 .. Len(u) : p \notin u[j].on
        BY <1>2, <3>2, <3>3, <3>5
      <4>2. Agree(u, w, p, L + 1)
        BY <2>1, <3>5, <4>1 DEF Agree
      <4> QED
        BY <3>1, <4>2 DEF gam_exclude_add
    <3> QED
      BY <3>4, <3>5
  <2> QED
    BY <2>2, <2>3
<1> QED
  BY <1>1, <1>2 DEF Agree

LEMMA RulesRead ==
  ASSUME NEW b \in Seq(Rules), NEW q \in Seq(Lines), NEW w, NEW L \in Nat,
         \A i \in 1 .. Len(q) : w[L + i] = q[i], NEW p, Agree(b, w, p, L)
  PROVE  /\ Agree(FoldLeft(ReadRule, b, q), w, p, L + Len(q))
         /\ q \in Seq(Rules) => Agree(FoldLeft(gam_exclude_add, b, q), w, p, L + Len(q))
<1>0. Len(q) \in Nat
  OBVIOUS
<1>1. ASSUME NEW h \in [0 .. Len(q) -> Seq(Rules)], h[0] = b,
             \A k \in 1 .. Len(q) :
               h[k] = IF q[k] \in Rules THEN gam_exclude_add(h[k - 1], q[k]) ELSE h[k - 1]
      PROVE  Agree(h[Len(q)], w, p, L + Len(q))
  <2> DEFINE P == {k \in 0 .. Len(q) : Agree(h[k], w, p, L + k)}
  <2>1. 0 \in P
    BY <1>0, <1>1
  <2>2. ASSUME NEW k \in 1 .. Len(q), k - 1 \in P
        PROVE  k \in P
    <3>1. /\ k - 1 \in 0 .. Len(q) /\ k \in 0 .. Len(q) /\ L + (k - 1) \in Nat
          /\ (L + (k - 1)) + 1 = L + k
      BY <1>0
    <3>2. h[k - 1] \in Seq(Rules) /\ Agree(h[k - 1], w, p, L + (k - 1)) /\ w[L + k] = q[k]
      BY <2>2, <3>1
    <3>3. /\ w[L + k] \in Rules => Agree(gam_exclude_add(h[k - 1], w[L + k]), w, p, L + k)
          /\ w[L + k] \notin Rules => Agree(h[k - 1], w, p, L + k)
      <4>1. PICK M \in Nat : M = L + (k - 1)
        BY <3>1
      <4>2. Agree(h[k - 1], w, p, M) /\ M + 1 = L + k
        BY <3>1, <3>2, <4>1
      <4> QED
        BY <3>2, <4>2, RuleRead
    <3>4. Agree(h[k], w, p, L + k)
      BY <1>1, <3>2, <3>3
    <3> QED
      BY <3>1, <3>4
  <2> HIDE DEF P
  <2>3. \A k \in 0 .. Len(q) : k \in P
    BY <1>0, <2>1, <2>2, CountUp
  <2>4. Len(q) \in P
    BY <1>0, <2>3
  <2> QED
    BY <2>4 DEF P
<1>2. Agree(FoldLeft(ReadRule, b, q), w, p, L + Len(q))
  <2>1. PICK h \in [0 .. Len(q) -> Seq(Rules)] :
          /\ h[0] = b /\ \A k \in 1 .. Len(q) : h[k] = ReadRule(h[k - 1], q[k])
          /\ FoldLeft(ReadRule, b, q) = h[Len(q)]
    BY FoldRules
  <2>2. Agree(h[Len(q)], w, p, L + Len(q))
    BY <1>1, <2>1 DEF ReadRule
  <2> QED
    BY <2>1, <2>2, Zenon
<1>3. ASSUME q \in Seq(Rules)
      PROVE  Agree(FoldLeft(gam_exclude_add, b, q), w, p, L + Len(q))
  <2>1. PICK h \in [0 .. Len(q) -> Seq(Rules)] :
          /\ h[0] = b /\ \A k \in 1 .. Len(q) : h[k] = gam_exclude_add(h[k - 1], q[k])
          /\ FoldLeft(gam_exclude_add, b, q) = h[Len(q)]
    BY <1>3, FoldStatic
  <2>2. \A k \in 1 .. Len(q) : q[k] \in Rules
    BY <1>3
  <2>3. Agree(h[Len(q)], w, p, L + Len(q))
    BY <1>1, <2>1, <2>2
  <2> QED
    BY <2>1, <2>3, Zenon
<1> QED
  BY <1>2, <1>3

-----------------------------------------------------------------------------
(* The properties of file system types, with w and L as above. *)

Mine(w, t, L)  == {i \in 1 .. L : w[i] \in Fssets /\ w[i].type = t}
Timed(w, t, L) == {i \in Mine(w, t, L) : w[i].timeout >= 0}

(* The table gives type t what the lines read so far say of it.            *)
Given(table, w, t, L) ==
  table[t] = IF Mine(w, t, L) = {} THEN NoProps
             ELSE [mon     |-> w[Max(Mine(w, t, L))].mon,
                   timeout |-> IF Timed(w, t, L) = {} THEN 0
                               ELSE w[Max(Timed(w, t, L))].timeout]

LEMMA GreatestIs ==
  ASSUME NEW n \in Nat, NEW I \in SUBSET (1 .. n), n \in I
  PROVE  Max(I) = n
<1>0. \A J \in SUBSET (1 .. n) : J # {} => Max(J) \in J /\ \A y \in J : y <= Max(J)
  BY GreatestIsIn
<1>1. Max(I) \in I /\ \A y \in I : y <= Max(I)
  BY <1>0
<1>2. PICK m \in 1 .. n : m = Max(I)
  BY <1>1
<1>3. n <= m
  BY <1>1, <1>2
<1> QED
  BY <1>2, <1>3

LEMMA FssetRead ==
  ASSUME NEW v \in Tables, NEW w, NEW t \in Types, NEW L \in Nat, Given(v, w, t, L)
  PROVE  /\ w[L + 1] \in Fssets => Given(gam_fs_set(v, w[L + 1]), w, t, L + 1)
         /\ w[L + 1] \notin Fssets => Given(v, w, t, L + 1)
<1>0. \A i : i \in 1 .. L + 1 <=> i \in 1 .. L \/ i = L + 1
  OBVIOUS
<1>1. CASE ~(w[L + 1] \in Fssets /\ w[L + 1].type = t)
  <2>1. Mine(w, t, L + 1) = Mine(w, t, L) /\ Timed(w, t, L + 1) = Timed(w, t, L)
    BY <1>0, <1>1 DEF Mine, Timed
  <2>2. w[L + 1] \in Fssets => gam_fs_set(v, w[L + 1])[t] = v[t]
    BY <1>1 DEF gam_fs_set, Tables
  <2> QED
    BY <2>1, <2>2, Zenon DEF Given
<1>2. CASE w[L + 1] \in Fssets /\ w[L + 1].type = t
  <2>1. PICK l \in Fssets : l = w[L + 1] /\ l.type = t
    BY <1>2
  <2>2. l.timeout \in Int /\ l.mon \in Methods
    BY DEF Fssets
  <2> DEFINE M == Mine(w, t, L)
             T == Timed(w, t, L)
             M1 == Mine(w, t, L + 1)
             T1 == Timed(w, t, L + 1)
  <2>3. M1 \in SUBSET (1 .. L + 1) /\ L + 1 \in M1
    BY <1>2 DEF Mine
  <2>4. M1 # {} /\ Max(M1) = L + 1
    BY <2>3, GreatestIs
  <2>5. gam_fs_set(v, l)[t] =
          [mon |-> l.mon,
           timeout |-> IF l.timeout >= 0 THEN l.timeout
                       ELSE IF v[t] = NoProps THEN 0 ELSE v[t].timeout]
    BY <2>1 DEF gam_fs_set, Tables
  <2>6. (IF l.timeout >= 0 THEN l.timeout ELSE IF v[t] = NoProps THEN 0 ELSE v[t].timeout)
          = IF T1 = {} THEN 0 ELSE w[Max(T1)].timeout
    <3>1. CASE l.timeout >= 0
      <4>1. T1 \in SUBSET (1 .. L + 1) /\ L + 1 \in T1
        BY <2>1, <2>3, <3>1 DEF Timed
      <4>2. T1 # {} /\ Max(T1) = L + 1
        BY <4>1, GreatestIs
      <4> QED
        BY <2>1, <3>1, <4>2
    <3>2. CASE ~(l.timeout >= 0)
      <4>1. T1 = T
        BY <1>0, <2>1, <3>2 DEF Timed, Mine
      <4>2. CASE M = {}
        <5>1. T = {} /\ v[t] = NoProps
          BY <4>2 DEF Given, Timed
        <5> QED
          BY <3>2, <4>1, <5>1
      <4>3. CASE M # {}
        <5>1. PICK x : x = IF T = {} THEN 0 ELSE w[Max(T)].timeout
          OBVIOUS
        <5>2. v[t] = [mon |-> w[Max(M)].mon, timeout |-> x]
          BY <4>3, <5>1 DEF Given
        <5>3. x >= 0 /\ x \in Int
          <6>1. CASE T = {}
            BY <5>1, <6>1
          <6>2. CASE T # {}
            <7>1. T \in SUBSET (1 .. L)
              BY DEF Timed, Mine
            <7>2. Max(T) \in T
              BY <6>2, <7>1, GreatestIsIn
            <7>3. w[Max(T)] \in Fssets /\ w[Max(T)].timeout >= 0
              BY <7>2 DEF Timed, Mine
            <7> QED
              BY <5>1, <6>2, <7>3 DEF Fssets
          <6> QED
            BY <6>1, <6>2
        <5>4. v[t] # NoProps /\ v[t].timeout = x
          <6>1. v[t].timeout = x /\ NoProps.timeout = -1
            BY <5>2 DEF NoProps
          <6> QED
            BY <5>3, <6>1
        <5> QED
          BY <3>2, <4>1, <5>1, <5>4
      <4> QED
        BY <4>2, <4>3
    <3> QED
      BY <3>1, <3>2
  <2>7. Given(gam_fs_set(v, l), w, t, L + 1)
    BY <2>1, <2>4, <2>5, <2>6, Zenon DEF Given
  <2> QED
    BY <1>2, <2>1, <2>7
<1> QED
  BY <1>1, <1>2

LEMMA FssetsRead ==
  ASSUME NEW b \in Tables, NEW q \in Seq(Lines), NEW w, NEW L \in Nat,
         \A i \in 1 .. Len(q) : w[L + i] = q[i], NEW t \in Types, Given(b, w, t, L)
  PROVE  /\ Given(FoldLeft(ReadFsset, b, q), w, t, L + Len(q))
         /\ q \in Seq(Fssets) => Given(FoldLeft(gam_fs_set, b, q), w, t, L + Len(q))
<1>0. Len(q) \in Nat
  OBVIOUS
<1>1. ASSUME NEW h \in [0 .. Len(q) -> Tables], h[0] = b,
             \A k \in 1 .. Len(q) :
               h[k] = IF q[k] \in Fssets THEN gam_fs_set(h[k - 1], q[k]) ELSE h[k - 1]
      PROVE  Given(h[Len(q)], w, t, L + Len(q))
  <2> DEFINE P == {k \in 0 .. Len(q) : Given(h[k], w, t, L + k)}
  <2>1. 0 \in P
    BY <1>0, <1>1
  <2>2. ASSUME NEW k \in 1 .. Len(q), k - 1 \in P
        PROVE  k \in P
    <3>1. /\ k - 1 \in 0 .. Len(q) /\ k \in 0 .. Len(q) /\ L + (k - 1) \in Nat
          /\ (L + (k - 1)) + 1 = L + k
      BY <1>0
    <3>2. h[k - 1] \in Tables /\ Given(h[k - 1], w, t, L + (k - 1)) /\ w[L + k] = q[k]
      BY <2>2, <3>1
    <3>3. /\ w[L + k] \in Fssets => Given(gam_fs_set(h[k - 1], w[L + k]), w, t, L + k)
          /\ w[L + k] \notin Fssets => Given(h[k - 1], w, t, L + k)
      <4>1. PICK K \in Nat : K = L + (k - 1)
        BY <3>1
      <4>2. Given(h[k - 1], w, t, K) /\ K + 1 = L + k
        BY <3>1, <3>2, <4>1
      <4> QED
        BY <3>2, <4>2, FssetRead
    <3>4. Given(h[k], w, t, L + k)
      BY <1>1, <3>2, <3>3, Zenon
    <3> QED
      BY <3>1, <3>4
  <2> HIDE DEF P
  <2>3. \A k \in 0 .. Len(q) : k \in P
    BY <1>0, <2>1, <2>2, CountUp
  <2>4. Len(q) \in P
    BY <1>0, <2>3
  <2> QED
    BY <2>4 DEF P
<1>2. Given(FoldLeft(ReadFsset, b, q), w, t, L + Len(q))
  <2>1. PICK h \in [0 .. Len(q) -> Tables] :
          /\ h[0] = b /\ \A k \in 1 .. Len(q) : h[k] = ReadFsset(h[k - 1], q[k])
          /\ FoldLeft(ReadFsset, b, q) = h[Len(q)]
    BY FoldFssets
  <2>2. Given(h[Len(q)], w, t, L + Len(q))
    BY <1>1, <2>1 DEF ReadFsset
  <2> QED
    BY <2>1, <2>2, Zenon
<1>3. ASSUME q \in Seq(Fssets)
      PROVE  Given(FoldLeft(gam_fs_set, b, q), w, t, L + Len(q))
  <2>1. PICK h \in [0 .. Len(q) -> Tables] :
          /\ h[0] = b /\ \A k \in 1 .. Len(q) : h[k] = gam_fs_set(h[k - 1], q[k])
          /\ FoldLeft(gam_fs_set, b, q) = h[Len(q)]
    BY <1>3, FoldBuiltin
  <2>2. \A k \in 1 .. Len(q) : q[k] \in Fssets
    BY <1>3
  <2>3. Given(h[Len(q)], w, t, L + Len(q))
    BY <1>1, <2>1, <2>2
  <2> QED
    BY <2>1, <2>3, Zenon
<1> QED
  BY <1>2, <1>3

-----------------------------------------------------------------------------
(* The list of mounted file systems: the lines of /etc/mtab, a longer      *)
(* mount point before a shorter one, a later line before an earlier one.   *)

Before(w, a, b) ==
  \/ Length[w[a].at] > Length[w[b].at]
  \/ Length[w[a].at] = Length[w[b].at] /\ a > b

(* idx says which line of w is where in the list. *)
Order(idx, list, w, L) ==
  /\ idx \in [1 .. L -> 1 .. L]
  /\ \A i \in 1 .. L : list[i] = w[idx[i]]
  /\ \A k \in 1 .. L : \E i \in 1 .. L : idx[i] = k
  /\ \A i, j \in 1 .. L : i < j => Before(w, idx[i], idx[j])

Arranged(list, w, L) == Len(list) = L /\ \E idx : Order(idx, list, w, L)

LEMMA LineSorted ==
  ASSUME NEW list \in Seq(Mtabs), NEW w, NEW L \in Nat, Arranged(list, w, L),
         w[L + 1] \in Mtabs
  PROVE  Arranged(Sorted(list, w[L + 1]), w, L + 1)
<1>1. PICK idx : Order(idx, list, w, L)
  BY DEF Arranged
<1>2. PICK fs \in Mtabs : fs = w[L + 1]
  OBVIOUS
<1>3. Len(list) = L
  BY DEF Arranged
<1>4. PICK p \in 1 .. L + 1 :
        /\ Sorted(list, fs) = InsertAt(list, p, fs)
        /\ \A j \in 1 .. L : j < p => Length[list[j].at] > Length[fs.at]
        /\ p <= L => Length[list[p].at] <= Length[fs.at]
  BY <1>3, SortedPlace
<1>5. PICK u : u = Sorted(list, fs)
  OBVIOUS
<1>6. /\ Len(u) = L + 1
      /\ \A j \in 1 .. L + 1 : u[j] = IF j < p THEN list[j] ELSE IF j = p THEN fs ELSE list[j - 1]
  <2>1. /\ Len(InsertAt(list, p, fs)) = Len(list) + 1
        /\ \A j \in 1 .. Len(list) + 1 :
             InsertAt(list, p, fs)[j] =
               IF j < p THEN list[j] ELSE IF j = p THEN fs ELSE list[j - 1]
    <3>1. p \in 1 .. Len(list) + 1
      BY <1>3
    <3> QED
      BY <3>1, Inserted
  <2> QED
    BY <1>3, <1>4, <1>5, <2>1, Zenon
<1>7. \A j \in 1 .. L : Length[list[j].at] \in Nat
  <2>1. \A j \in 1 .. L : list[j] \in Mtabs
    BY <1>3
  <2> QED
    BY <2>1, RoutingSets DEF Mtabs
<1>8. Length[fs.at] \in Nat
  BY RoutingSets DEF Mtabs
<1> DEFINE new == [j \in 1 .. L + 1 |-> IF j < p THEN idx[j] ELSE IF j = p THEN L + 1
                                        ELSE idx[j - 1]]
<1>9. /\ idx \in [1 .. L -> 1 .. L]
      /\ \A i \in 1 .. L : list[i] = w[idx[i]]
      /\ \A k \in 1 .. L : \E i \in 1 .. L : idx[i] = k
      /\ \A i, j \in 1 .. L : i < j => Before(w, idx[i], idx[j])
  BY <1>1 DEF Order
<1>10. ASSUME NEW j \in 1 .. L + 1
       PROVE  new[j] \in 1 .. L + 1 /\ u[j] = w[new[j]]
  <2>1. CASE j < p
    <3>1. j \in 1 .. L /\ new[j] = idx[j]
      BY <2>1
    <3>2. idx[j] \in 1 .. L /\ list[j] = w[idx[j]] /\ u[j] = list[j]
      BY <1>6, <1>9, <2>1, <3>1
    <3> HIDE DEF new
    <3> QED
      BY <3>1, <3>2
  <2>2. CASE j = p
    BY <1>2, <1>6, <2>2
  <2>3. CASE j > p
    <3>1. j - 1 \in 1 .. L /\ ~(j < p) /\ j # p
      BY <2>3
    <3>2. new[j] = idx[j - 1]
      BY <3>1
    <3>3. u[j] = list[j - 1]
      BY <1>6, <3>1
    <3>4. idx[j - 1] \in 1 .. L /\ list[j - 1] = w[idx[j - 1]]
      BY <1>9, <3>1
    <3> HIDE DEF new
    <3> QED
      BY <3>2, <3>3, <3>4
  <2> QED
    BY <2>1, <2>2, <2>3
<1>11. ASSUME NEW k \in 1 .. L + 1
       PROVE  \E i \in 1 .. L + 1 : new[i] = k
  <2>1. CASE k = L + 1
    <3>1. new[p] = k
      BY <2>1
    <3> QED
      BY <3>1
  <2>2. CASE k # L + 1
    <3>1. k \in 1 .. L
      BY <2>2
    <3>2. PICK i \in 1 .. L : idx[i] = k
      BY <1>9, <3>1
    <3>3. CASE i < p
      <4>1. i \in 1 .. L + 1 /\ new[i] = k
        BY <3>2, <3>3
      <4> QED
        BY <4>1
    <3>4. CASE i >= p
      <4>1. i + 1 \in 1 .. L + 1 /\ (i + 1) - 1 = i /\ ~(i + 1 < p) /\ i + 1 # p
        BY <3>4
      <4>2. new[i + 1] = k
        BY <3>2, <4>1
      <4> QED
        BY <4>1, <4>2
    <3> QED
      BY <3>3, <3>4
  <2> QED
    BY <2>1, <2>2
<1>12. ASSUME NEW i \in 1 .. L + 1, NEW j \in 1 .. L + 1, i < j
       PROVE  Before(w, new[i], new[j])
  <2>1. CASE j < p
    <3>1. i \in 1 .. L /\ j \in 1 .. L /\ i < p
      BY <1>12, <2>1
    <3>2. new[i] = idx[i] /\ new[j] = idx[j]
      BY <2>1, <3>1
    <3> QED
      BY <1>9, <1>12, <3>1, <3>2
  <2>2. CASE j = p
    <3>1. i \in 1 .. L /\ i < p
      BY <1>12, <2>2
    <3>2. new[i] = idx[i] /\ new[j] = L + 1
      BY <2>2, <3>1
    <3>3. Length[w[idx[i]].at] > Length[w[L + 1].at]
      BY <1>2, <1>4, <1>9, <3>1
    <3> QED
      BY <3>2, <3>3 DEF Before
  <2>3. CASE j > p /\ i < p
    <3>1. i \in 1 .. L /\ j - 1 \in 1 .. L /\ i < j - 1 /\ ~(j < p) /\ j # p
      BY <2>3
    <3>2. new[i] = idx[i] /\ new[j] = idx[j - 1]
      BY <2>3, <3>1
    <3> QED
      BY <1>9, <3>1, <3>2
  <2>4. CASE j > p /\ i = p
    <3>1. j - 1 \in 1 .. L /\ p \in 1 .. L /\ p <= j - 1 /\ ~(j < p) /\ j # p /\ ~(i < p)
      BY <2>4
    <3>2. new[i] = L + 1 /\ new[j] = idx[j - 1]
      BY <2>4, <3>1
    <3>3. Length[list[j - 1].at] <= Length[list[p].at]
      <4>1. CASE j - 1 = p
        BY <1>7, <3>1, <4>1
      <4>2. CASE p < j - 1
        <5>1. Before(w, idx[p], idx[j - 1])
          BY <1>9, <3>1, <4>2
        <5>2. w[idx[p]] = list[p] /\ w[idx[j - 1]] = list[j - 1]
          BY <1>9, <3>1
        <5> QED
          BY <1>7, <3>1, <5>1, <5>2 DEF Before
      <4> QED
        BY <3>1, <4>1, <4>2
    <3>4. Length[list[j - 1].at] <= Length[fs.at]
      <4>1. /\ Length[list[p].at] <= Length[fs.at] /\ Length[list[p].at] \in Nat
            /\ Length[list[j - 1].at] \in Nat
        BY <1>4, <1>7, <3>1
      <4> QED
        BY <1>8, <3>3, <4>1
    <3>5. idx[j - 1] \in 1 .. L /\ w[idx[j - 1]] = list[j - 1]
      BY <1>9, <3>1
    <3>6. Length[list[j - 1].at] \in Nat /\ L + 1 > idx[j - 1]
      BY <1>7, <3>1, <3>5
    <3>7. Before(w, L + 1, idx[j - 1])
      BY <1>2, <1>8, <3>4, <3>5, <3>6 DEF Before
    <3> QED
      BY <3>2, <3>7
  <2>5. CASE j > p /\ i > p
    <3>1. /\ i - 1 \in 1 .. L /\ j - 1 \in 1 .. L /\ i - 1 < j - 1 /\ ~(j < p) /\ j # p
          /\ ~(i < p) /\ i # p
      BY <1>12, <2>5
    <3>2. new[i] = idx[i - 1] /\ new[j] = idx[j - 1]
      BY <3>1
    <3> QED
      BY <1>9, <3>1, <3>2
  <2> QED
    BY <1>12, <2>1, <2>2, <2>3, <2>4, <2>5
<1>13. new \in [1 .. L + 1 -> 1 .. L + 1]
  BY <1>10
<1> HIDE DEF new
<1>14. Order(new, u, w, L + 1)
  BY <1>10, <1>11, <1>12, <1>13 DEF Order
<1> QED
  BY <1>2, <1>5, <1>6, <1>14 DEF Arranged

LEMMA MtabSorted ==
  ASSUME NEW w \in Seq(Mtabs)
  PROVE  /\ gam_fs_scan_mtab(w) \in Seq(Mtabs)
         /\ Arranged(gam_fs_scan_mtab(w), w, Len(w))
<1>0. Len(w) \in Nat /\ \A k \in 1 .. Len(w) : w[k] \in Mtabs
  OBVIOUS
<1>1. PICK h \in [0 .. Len(w) -> Seq(Mtabs)] :
        /\ h[0] = <<>> /\ \A k \in 1 .. Len(w) : h[k] = Sorted(h[k - 1], w[k])
        /\ FoldLeft(Sorted, <<>>, w) = h[Len(w)]
  <2>1. <<>> \in Seq(Mtabs)
    OBVIOUS
  <2> QED
    BY <2>1, FoldMtab
<1> DEFINE P == {k \in 0 .. Len(w) : Arranged(h[k], w, k)}
<1>2. 0 \in P
  <2>1. Order(<<>>, <<>>, w, 0)
    BY DEF Order
  <2>2. Arranged(<<>>, w, 0)
    BY <2>1 DEF Arranged
  <2> QED
    BY <1>0, <1>1, <2>2
<1>3. ASSUME NEW k \in 1 .. Len(w), k - 1 \in P
      PROVE  k \in P
  <2>1. PICK K \in Nat : K = k - 1 /\ K + 1 = k /\ K \in 0 .. Len(w)
    BY <1>0
  <2>2. h[K] \in Seq(Mtabs) /\ Arranged(h[K], w, K) /\ w[K + 1] \in Mtabs
    BY <1>0, <1>3, <2>1
  <2>3. Arranged(Sorted(h[K], w[K + 1]), w, K + 1)
    BY <2>2, LineSorted
  <2> QED
    BY <1>0, <1>1, <2>1, <2>3
<1> HIDE DEF P
<1>4. \A k \in 0 .. Len(w) : k \in P
  BY <1>0, <1>2, <1>3, CountUp
<1>5. Arranged(h[Len(w)], w, Len(w)) /\ h[Len(w)] \in Seq(Mtabs)
  BY <1>0, <1>1, <1>4 DEF P
<1> QED
  BY <1>1, <1>5, Zenon DEF gam_fs_scan_mtab

-----------------------------------------------------------------------------
(* The configuration: the lines of the three files one after another, and  *)
(* how many of them the first b files have.                                *)

Cat(c) == c[1] \o c[2] \o c[3]

Offset(c, b) ==
  IF b = 0 THEN 0 ELSE IF b = 1 THEN Len(c[1]) ELSE IF b = 2 THEN Len(c[1]) + Len(c[2])
  ELSE Len(c[1]) + Len(c[2]) + Len(c[3])

Confs == [1 .. 3 -> Files]

LEMMA ConfLines ==
  ASSUME NEW c \in Confs
  PROVE  /\ \A k \in 1 .. 3 : c[k] \in Seq(Lines) /\ Len(c[k]) \in Nat
         /\ Cat(c) \in Seq(Lines) /\ Len(Cat(c)) = Offset(c, 3)
         /\ \A k \in 0 .. 4 : Offset(c, k) \in Nat /\ Offset(c, k) <= Offset(c, 3)
         /\ Offset(c, 0) = 0 /\ Offset(c, 4) = Offset(c, 3)
         /\ \A k \in 0 .. 2 : Offset(c, k + 1) = Offset(c, k) + Len(c[k + 1])
         /\ \A k \in 0 .. 2 : \A i \in 1 .. Len(c[k + 1]) :
              Cat(c)[Offset(c, k) + i] = c[k + 1][i]
<1>1. \A k \in 1 .. 3 : c[k] \in Seq(Lines)
  BY RoutingLines DEF Confs, Lines
<1>2. PICK x \in Seq(Lines) : x = c[1]
  BY <1>1
<1>3. PICK y \in Seq(Lines) : y = c[2]
  BY <1>1
<1>4. PICK z \in Seq(Lines) : z = c[3]
  BY <1>1
<1>5. PICK u : u = x \o y
  OBVIOUS
<1>6. PICK v : v = u \o z
  OBVIOUS
<1>7. Len(x) \in Nat /\ Len(y) \in Nat /\ Len(z) \in Nat
  OBVIOUS
<1>8. /\ u \in Seq(Lines) /\ Len(u) = Len(x) + Len(y)
      /\ \A i \in 1 .. Len(x) : u[i] = x[i]
      /\ \A i \in 1 .. Len(y) : u[Len(x) + i] = y[i]
  BY <1>5
<1>9. /\ v \in Seq(Lines) /\ Len(v) = Len(u) + Len(z)
      /\ \A i \in 1 .. Len(u) : v[i] = u[i]
      /\ \A i \in 1 .. Len(z) : v[Len(u) + i] = z[i]
  <2>1. u \in Seq(Lines)
    BY <1>8
  <2> QED
    BY <1>6, <2>1
<1>10. Cat(c) = v
  BY <1>2, <1>3, <1>4, <1>5, <1>6 DEF Cat
<1>11. /\ Offset(c, 0) = 0 /\ Offset(c, 1) = Len(x) /\ Offset(c, 2) = Len(u)
       /\ Offset(c, 3) = Len(v) /\ Offset(c, 4) = Len(v)
  BY <1>2, <1>3, <1>4, <1>7, <1>8, <1>9 DEF Offset
<1>12. \A k \in 0 .. 4 : Offset(c, k) \in Nat /\ Offset(c, k) <= Offset(c, 3)
  BY <1>7, <1>8, <1>9, <1>11
<1>13. \A k \in 0 .. 2 : Offset(c, k + 1) = Offset(c, k) + Len(c[k + 1])
  <2>0. Len(c[1]) = Len(x) /\ Len(c[2]) = Len(y) /\ Len(c[3]) = Len(z)
    BY <1>2, <1>3, <1>4, Zenon
  <2>1. /\ Offset(c, 1) = Offset(c, 0) + Len(c[1])
        /\ Offset(c, 2) = Offset(c, 1) + Len(c[2])
        /\ Offset(c, 3) = Offset(c, 2) + Len(c[3])
    BY <1>7, <1>8, <1>9, <1>11, <2>0
  <2>2. \A k \in 0 .. 2 : \/ k = 0 /\ k + 1 = 1
                          \/ k = 1 /\ k + 1 = 2
                          \/ k = 2 /\ k + 1 = 3
    BY SMT
  <2> QED
    BY <2>1, <2>2, Zenon
<1>14. ASSUME NEW k \in 0 .. 2, NEW i \in 1 .. Len(c[k + 1])
       PROVE  v[Offset(c, k) + i] = c[k + 1][i]
  <2>1. CASE k = 0
    <3>1. i \in 1 .. Len(x) /\ i \in 1 .. Len(u) /\ 0 + i = i /\ c[k + 1] = x
      BY <1>2, <1>7, <1>8, <2>1
    <3>2. v[0 + i] = x[i]
      BY <1>8, <1>9, <3>1
    <3> QED
      BY <1>11, <2>1, <3>1, <3>2, Zenon
  <2>2. CASE k = 1
    <3>1. i \in 1 .. Len(y) /\ Len(x) + i \in 1 .. Len(u) /\ c[k + 1] = y
      BY <1>3, <1>7, <1>8, <2>2
    <3>2. v[Len(x) + i] = y[i]
      BY <1>8, <1>9, <3>1
    <3> QED
      BY <1>11, <2>2, <3>1, <3>2, Zenon
  <2>3. CASE k = 2
    <3>1. i \in 1 .. Len(z) /\ c[k + 1] = z
      BY <1>4, <2>3
    <3>2. v[Len(u) + i] = z[i]
      BY <1>9, <3>1
    <3> QED
      BY <1>11, <2>3, <3>1, <3>2, Zenon
  <2> QED
    BY <2>1, <2>2, <2>3
<1>15. \A k \in 1 .. 3 : Len(c[k]) \in Nat
  BY <1>1
<1>16. Len(v) = Offset(c, 3) /\ v \in Seq(Lines)
  BY <1>9, <1>11
<1> QED
  BY <1>1, <1>10, <1>11, <1>12, <1>13, <1>14, <1>15, <1>16, Zenon

(* What is appended to a sequence, and what is before it.                  *)
LEMMA Joined ==
  ASSUME NEW S, NEW T, NEW a \in Seq(S), NEW b \in Seq(T)
  PROVE  /\ Len(a) \in Nat /\ Len(b) \in Nat /\ Len(a \o b) = Len(a) + Len(b)
         /\ DOMAIN (a \o b) = 1 .. Len(a) + Len(b)
         /\ \A i \in 1 .. Len(a) : (a \o b)[i] = a[i]
         /\ \A i \in 1 .. Len(b) : (a \o b)[Len(a) + i] = b[i]
<1>1. a \in Seq(S \cup T) /\ b \in Seq(S \cup T)
  OBVIOUS
<1> QED
  BY <1>1

-----------------------------------------------------------------------------
(* What the tables answer. *)

(* gam_exclude_check gives the answer of the first line, static rules last. *)
LEMMA RuleAnswer ==
  ASSUME NEW rules \in Seq(Rules), NEW all \in Seq(Lines), NEW p \in Paths,
         Agree(rules, all \o StaticRules, p, Len(all) + Len(StaticRules))
  PROVE  LET hits == {i \in DOMAIN all : all[i] \in Rules /\ p \in all[i].on}
         IN  gam_exclude_check(rules, p) <=>
               IF hits = {} THEN \E r \in ToSet(StaticRules) : p \in r.on
               ELSE all[Min(hits)].poll
<1> DEFINE hits == {i \in DOMAIN all : all[i] \in Rules /\ p \in all[i].on}
           I == {i \in 1 .. Len(rules) : p \in rules[i].on}
           n == Len(all)
           m0 == Len(StaticRules)
           static == \E r \in ToSet(StaticRules) : p \in r.on
<1>1. PICK w : w = all \o StaticRules
  OBVIOUS
<1>2. StaticRules \in Seq([on : SUBSET Paths, poll : {TRUE}])
  BY RoutingLines
<1>3. /\ n \in Nat /\ m0 \in Nat /\ DOMAIN all = 1 .. n /\ DOMAIN StaticRules = 1 .. m0
      /\ \A i \in 1 .. n : w[i] = all[i]
      /\ \A i \in 1 .. m0 : w[n + i] = StaticRules[i]
  BY <1>1, <1>2, Joined
<1>4. \A i \in 1 .. m0 : StaticRules[i] \in Rules /\ StaticRules[i].poll = TRUE
  <2>1. \A i \in 1 .. m0 : StaticRules[i] \in [on : SUBSET Paths, poll : {TRUE}]
    <3>1. PICK T : T = [on : SUBSET Paths, poll : {TRUE}]
      OBVIOUS
    <3>2. StaticRules \in Seq(T)
      BY <1>2, <3>1
    <3>3. \A i \in 1 .. m0 : StaticRules[i] \in T
      BY <3>2
    <3> QED
      BY <3>1, <3>3
  <2> QED
    BY <2>1 DEF Rules
<1>5. static <=> \E i \in 1 .. m0 : p \in StaticRules[i].on
  BY <1>3 DEF ToSet
<1>6. /\ gam_exclude_check(rules, p) <=> I # {} /\ Min(I) # 0 /\ rules[Min(I)].poll
      /\ I \in SUBSET Nat
  BY DEF gam_exclude_check, SelectInSeq
<1>7. Agree(rules, w, p, n + m0)
  BY <1>1
<1> HIDE DEF n, m0, static
<1>8. CASE /\ \A i \in 1 .. Len(rules) : p \notin rules[i].on
           /\ \A j \in 1 .. n + m0 : ~(w[j] \in Rules /\ p \in w[j].on)
  <2>1. I = {}
    BY <1>8
  <2>2. hits = {}
    <3>1. \A i \in 1 .. n : i \in 1 .. n + m0
      BY <1>3
    <3> QED
      BY <1>3, <1>8, <3>1
  <2>3. ~static
    <3>1. \A i \in 1 .. m0 : n + i \in 1 .. n + m0
      BY <1>3
    <3> QED
      BY <1>3, <1>4, <1>5, <1>8, <3>1
  <2> QED
    BY <1>6, <2>1, <2>2, <2>3 DEF static
<1>9. ASSUME NEW i \in 1 .. Len(rules), NEW m \in 1 .. n + m0,
             FirstIn(rules, p, i), FirstHit(w, p, m), rules[i].poll = w[m].poll
      PROVE  gam_exclude_check(rules, p) <=>
               IF hits = {} THEN static ELSE all[Min(hits)].poll
  <2>1. i \in I /\ \A j \in I : i <= j
    BY <1>9 DEF FirstIn
  <2>2. Min(I) = i
    <3>1. Min(I) \in I /\ \A j \in I : Min(I) <= j
      BY <1>6, <2>1, LeastIsIn
    <3>2. PICK k \in Nat : k = Min(I)
      BY <1>6, <3>1
    <3>3. k <= i /\ i <= k
      BY <2>1, <3>1, <3>2
    <3> QED
      BY <3>2, <3>3
  <2>3. gam_exclude_check(rules, p) <=> w[m].poll
    <3>1. i # 0 /\ I # {}
      BY <2>1
    <3> HIDE DEF I
    <3> QED
      BY <1>6, <1>9, <2>2, <3>1, Zenon
  <2>4. CASE m <= n
    <3>1. m \in 1 .. n /\ w[m] = all[m]
      BY <1>3, <2>4
    <3>2. m \in hits /\ hits \in SUBSET Nat
      BY <1>3, <1>9, <3>1 DEF FirstHit
    <3>3. \A j \in hits : m <= j
      <4>1. ASSUME NEW j \in hits, j < m
            PROVE  FALSE
        <5>1. j \in 1 .. n /\ j \in 1 .. m - 1
          BY <1>3, <3>1, <4>1
        <5> QED
          BY <1>3, <1>9, <5>1 DEF FirstHit
      <4> QED
        BY <3>2, <4>1
    <3>4. Min(hits) = m
      <4>1. Min(hits) \in hits /\ \A j \in hits : Min(hits) <= j
        BY <3>2, LeastIsIn
      <4> HIDE DEF hits
      <4>2. PICK k \in Nat : k = Min(hits)
        BY <3>2, <4>1
      <4>3. k <= m /\ m <= k
        BY <3>2, <3>3, <4>1, <4>2
      <4> QED
        BY <4>2, <4>3
    <3> HIDE DEF hits
    <3> QED
      BY <2>3, <3>1, <3>2, <3>4
  <2>5. CASE m > n
    <3>1. m - n \in 1 .. m0 /\ n + (m - n) = m
      BY <1>3, <2>5
    <3>2. w[m] = StaticRules[m - n]
      BY <1>3, <3>1
    <3>3. w[m].poll = TRUE /\ static
      BY <1>4, <1>5, <1>9, <3>1, <3>2 DEF FirstHit
    <3>4. hits = {}
      <4>1. ASSUME NEW j \in hits
            PROVE  FALSE
        <5>1. j \in 1 .. n /\ j \in 1 .. m - 1
          BY <1>3, <2>5
        <5> QED
          BY <1>3, <1>9, <5>1 DEF FirstHit
      <4> QED
        BY <4>1
    <3> HIDE DEF hits
    <3> QED
      BY <2>3, <3>3, <3>4
  <2> QED
    BY <1>3, <2>4, <2>5
<1>10. gam_exclude_check(rules, p) <=> IF hits = {} THEN static ELSE all[Min(hits)].poll
  <2> HIDE DEF hits, I
  <2> QED
    BY <1>7, <1>8, <1>9, Zenon DEF Agree, static, hits
<1> QED
  BY <1>10 DEF static

(* gam_fs_find_fs finds in the sorted list the last of the lines with the  *)
(* longest mount point that begins the path.                               *)
LEMMA MountAnswer ==
  ASSUME NEW table \in Seq(Mtabs), NEW list, Arranged(list, table, Len(table)),
         NEW p \in Paths
  PROVE  LET hits == {i \in DOMAIN table : p \in Prefix[table[i].at]}
             i    == gam_fs_find_fs(list, p)
         IN  IF hits = {} THEN i = 0
             ELSE i # 0 /\ \E h \in hits :
                    /\ list[i] = table[h]
                    /\ \A k \in hits : LET a == table[k].at
                                           b == table[h].at
                                       IN  Length[a] < Length[b] \/ (a = b /\ k <= h)
<1> DEFINE hits == {i \in DOMAIN table : p \in Prefix[table[i].at]}
           I == {i \in 1 .. Len(list) : p \in Prefix[list[i].at]}
<1>1. PICK n \in Nat : n = Len(table) /\ DOMAIN table = 1 .. n
  OBVIOUS
<1>2. PICK idx : Order(idx, list, table, n)
  BY <1>1 DEF Arranged
<1>3. Len(list) = n
  BY <1>1 DEF Arranged
<1>4. /\ \A i \in 1 .. n : idx[i] \in 1 .. n /\ list[i] = table[idx[i]]
      /\ \A k \in 1 .. n : \E i \in 1 .. n : idx[i] = k
      /\ \A i, j \in 1 .. n : i < j => Before(table, idx[i], idx[j])
  BY <1>2 DEF Order
<1>5. \A i \in 1 .. n : table[i].at \in Mounts /\ Length[table[i].at] \in Nat
  <2>1. \A i \in 1 .. n : table[i] \in Mtabs
    BY <1>1
  <2> QED
    BY <2>1, RoutingSets DEF Mtabs
<1>6. \A i \in 1 .. n : i \in I <=> idx[i] \in hits
  BY <1>1, <1>3, <1>4
<1>7. gam_fs_find_fs(list, p) = IF I # {} THEN Min(I) ELSE 0
  BY DEF gam_fs_find_fs, SelectInSeq
<1>8. I \in SUBSET Nat /\ I \subseteq 1 .. n /\ hits \subseteq 1 .. n
  BY <1>1, <1>3
<1>9. CASE hits = {}
  <2>1. I = {}
    <3> HIDE DEF I, hits
    <3> QED
      BY <1>6, <1>8, <1>9
  <2> QED
    BY <1>7, <1>9, <2>1
<1>10. CASE hits # {}
  <2>1. I # {}
    <3> HIDE DEF I, hits
    <3>1. PICK k \in hits : TRUE
      BY <1>10
    <3> QED
      BY <1>4, <1>6, <1>8, <3>1
  <2>2. PICK i : i = Min(I)
    OBVIOUS
  <2>3. i \in I /\ \A j \in I : i <= j
    <3> HIDE DEF I
    <3> QED
      BY <1>8, <2>1, <2>2, LeastIsIn
  <2>4. gam_fs_find_fs(list, p) = i
    BY <1>7, <2>1, <2>2, Zenon
  <2>5. i \in 1 .. n /\ i # 0
    BY <1>8, <2>3
  <2>6. PICK h \in 1 .. n : h = idx[i]
    BY <1>4, <2>5
  <2>7. h \in hits /\ list[i] = table[h]
    <3> HIDE DEF I, hits
    <3> QED
      BY <1>4, <1>6, <2>3, <2>5, <2>6
  <2>8. ASSUME NEW k \in hits
        PROVE  \/ Length[table[k].at] < Length[table[h].at]
               \/ table[k].at = table[h].at /\ k <= h
    <3>1. k \in 1 .. n
      BY <1>8
    <3>2. PICK j \in 1 .. n : idx[j] = k
      BY <1>4, <3>1
    <3>3. j \in I /\ i <= j
      <4> HIDE DEF I, hits
      <4> QED
        BY <1>6, <2>3, <2>8, <3>2
    <3>4. CASE i = j
      BY <2>6, <3>2, <3>4
    <3>5. CASE i < j
      <4>1. Before(table, h, k)
        BY <1>4, <2>5, <2>6, <3>2, <3>5
      <4>2. p \in Prefix[table[k].at] \cap Prefix[table[h].at]
        BY <2>7, <2>8
      <4>3. Length[table[k].at] = Length[table[h].at] => table[k].at = table[h].at
        BY <1>5, <2>6, <3>1, <4>2, PrefixAssumption
      <4> QED
        BY <1>5, <3>1, <4>1, <4>3 DEF Before
    <3> QED
      BY <2>5, <3>3, <3>4, <3>5
  <2> HIDE DEF hits
  <2>9. i # 0 /\ \E g \in hits :
          /\ list[i] = table[g]
          /\ \A k \in hits : \/ Length[table[k].at] < Length[table[g].at]
                             \/ table[k].at = table[g].at /\ k <= g
    BY <2>5, <2>7, <2>8
  <2> QED
    BY <1>10, <2>4, <2>9, Zenon DEF hits
<1> QED
  BY <1>9, <1>10

(* Lines without an fsset leave the properties as they are.                *)
LEMMA NoFsset ==
  ASSUME NEW v, NEW w, NEW t, NEW L \in Nat, NEW M \in Nat, L <= M, Given(v, w, t, L),
         \A i \in L + 1 .. M : w[i] \notin Fssets
  PROVE  Given(v, w, t, M)
<1>1. \A i : i \in 1 .. M <=> i \in 1 .. L \/ i \in L + 1 .. M
  OBVIOUS
<1>2. Mine(w, t, M) = Mine(w, t, L)
  BY <1>1 DEF Mine
<1> QED
  BY <1>2, Zenon DEF Given, Timed

-----------------------------------------------------------------------------
(* The invariant of the tables: what was read so far is in them.           *)

FsTypes ==
  /\ props \in Tables /\ initialized \in BOOLEAN /\ missed \in BOOLEAN
  /\ filesystems \in Seq(Mtabs) /\ seen \in 0 .. MaxTime

MtabTypes == mtab \in [present : BOOLEAN, table : MountTables, time : 0 .. MaxTime]

ConfTypes == conf \in Confs /\ boot \in 0 .. 4 /\ excludes \in Seq(Rules)

(* How many of the lines of Cat(conf) \o StaticRules were read.            *)
Count(c, b) == IF b = 4 THEN Offset(c, 3) + Len(StaticRules) ELSE Offset(c, b)

RulesHeld == \A p \in Paths : Agree(excludes, Cat(conf) \o StaticRules, p, Count(conf, boot))

(* The table of properties from the built in ones and the lines so far, or *)
(* empty while gam_fs_init was not called: then no fsset was read.         *)
PropsFrom(table, c, b) ==
  \A t \in Types : Given(table, Builtin \o Cat(c), t, Len(Builtin) + Offset(c, b))

Untouched(table, c, b) ==
  /\ table = [t \in Types |-> NoProps]
  /\ \A i \in 1 .. Offset(c, b) : Cat(c)[i] \notin Fssets

PropsHeld == IF initialized THEN PropsFrom(props, conf, boot) ELSE Untouched(props, conf, boot)

MountsHeld ==
  initialized /\ mtab.present /\ seen = mtab.time /\ ~missed =>
    filesystems = gam_fs_scan_mtab(mtab.table)

TablesInv ==
  /\ FsTypes /\ MtabTypes /\ ConfTypes
  /\ RulesHeld /\ PropsHeld /\ MountsHeld

(* The first call of gam_fs_init catches up with the lines before it.      *)
LEMMA FirstGiven ==
  ASSUME FsTypes, ConfTypes, PropsHeld
  PROVE  FirstProps \in Tables /\ PropsFrom(FirstProps, conf, boot)
<1>1. CASE initialized
  BY <1>1 DEF FirstProps, FsTypes, PropsHeld
<1>2. CASE ~initialized
  <2>1. PICK w : w = Builtin \o Cat(conf)
    OBVIOUS
  <2>2. PICK n \in Nat : n = Len(Builtin)
    BY RoutingLines
  <2>3. PICK m \in Nat : m = Offset(conf, boot) /\ m <= Len(Cat(conf))
    BY ConfLines DEF ConfTypes
  <2>4. /\ Builtin \in Seq(Fssets) /\ Builtin \in Seq(Lines) /\ Cat(conf) \in Seq(Lines)
    BY RoutingLines, ConfLines DEF ConfTypes, Lines
  <2>5. /\ \A i \in 1 .. n : w[i] = Builtin[i]
        /\ \A i \in 1 .. Len(Cat(conf)) : w[n + i] = Cat(conf)[i] /\ Len(Cat(conf)) \in Nat
    BY <2>1, <2>2, <2>4, Joined
  <2>6. /\ props = [t \in Types |-> NoProps] /\ props \in Tables
        /\ \A i \in 1 .. m : Cat(conf)[i] \notin Fssets
    BY <1>2, <2>3 DEF PropsHeld, Untouched, FsTypes
  <2>7. \A i \in n + 1 .. n + m : w[i] \notin Fssets
    <3>1. ASSUME NEW i \in n + 1 .. n + m
          PROVE  w[i] \notin Fssets
      <4>1. PICK j \in 1 .. m : i = n + j
        <5>1. i - n \in 1 .. m /\ i = n + (i - n)
          OBVIOUS
        <5> QED
          BY <5>1
      <4>2. Len(Cat(conf)) \in Nat
        BY <2>4
      <4>3. j \in 1 .. Len(Cat(conf))
        BY <2>3, <4>2
      <4> QED
        BY <2>5, <2>6, <4>1, <4>3
    <3> QED
      BY <3>1
  <2>8. FirstProps = FoldLeft(gam_fs_set, props, Builtin)
    BY <1>2, Zenon DEF FirstProps
  <2>9. FirstProps \in Tables
    <3>1. PICK h \in [0 .. Len(Builtin) -> Tables] :
            FoldLeft(gam_fs_set, props, Builtin) = h[Len(Builtin)]
      BY <2>4, <2>6, FoldBuiltin
    <3>2. n \in 0 .. n
      OBVIOUS
    <3> QED
      BY <2>2, <2>8, <3>1, <3>2
  <2>10. ASSUME NEW t \in Types
         PROVE  Given(FirstProps, w, t, n + m)
    <3>1. Given(props, w, t, 0)
      <4>1. Mine(w, t, 0) = {}
        BY DEF Mine
      <4> QED
        BY <2>6, <4>1 DEF Given
    <3>2. \A i \in 1 .. Len(Builtin) : w[0 + i] = Builtin[i]
      BY <2>2, <2>5
    <3>3. Given(FoldLeft(gam_fs_set, props, Builtin), w, t, 0 + Len(Builtin))
      BY <2>4, <2>6, <3>1, <3>2, FssetsRead
    <3>4. Given(FirstProps, w, t, n)
      <4>1. 0 + Len(Builtin) = n
        BY <2>2
      <4> QED
        BY <2>8, <3>3, <4>1, Zenon
    <3>5. n + m \in Nat /\ n <= n + m
      OBVIOUS
    <3> QED
      BY <2>7, <3>4, <3>5, NoFsset
  <2> QED
    BY <2>1, <2>2, <2>3, <2>9, <2>10 DEF PropsFrom
<1> QED
  BY <1>1, <1>2 DEF FsTypes

(* gam_fs_init, whatever stat says.                                        *)
LEMMA Rescan ==
  ASSUME FsTypes, MtabTypes, MountsHeld, NEW st \in Stats, gam_fs_init(st), mtab' = mtab
  PROVE  /\ initialized' = TRUE /\ missed' \in BOOLEAN
         /\ filesystems' \in Seq(Mtabs) /\ seen' \in 0 .. MaxTime
         /\ MountsHeld'
<1>0. /\ mtab.present \in BOOLEAN /\ mtab.table \in Seq(Mtabs) /\ mtab.time \in 0 .. MaxTime
  BY RoutingLines DEF MtabTypes, Mtabs
<1>1. PICK fresh : fresh = gam_fs_scan_mtab(mtab.table)
  OBVIOUS
<1>2. fresh \in Seq(Mtabs)
  BY <1>0, <1>1, MtabSorted
<1>3. PICK scan \in BOOLEAN : scan <=> (~initialized \/ st # seen)
  OBVIOUS
<1>4. /\ initialized' = TRUE /\ seen' = st
      /\ filesystems' = IF scan /\ mtab.present THEN fresh ELSE filesystems
      /\ missed' = IF mtab.present THEN missed /\ ~scan ELSE TRUE
  BY <1>1, <1>3, Zenon DEF gam_fs_init
<1>5. st \in 0 .. MaxTime /\ (mtab.present => st = mtab.time)
  BY <1>0 DEF Stats
<1>6. MountsHeld => (initialized /\ mtab.present /\ seen = mtab.time /\ ~missed => filesystems = fresh)
  BY <1>1 DEF MountsHeld
<1>7. initialized' /\ mtab.present /\ seen' = mtab.time /\ ~missed' => filesystems' = fresh
  BY <1>3, <1>4, <1>5, <1>6 DEF FsTypes
<1>8. MountsHeld'
  BY <1>1, <1>7 DEF MountsHeld
<1> QED
  BY <1>2, <1>4, <1>5, <1>8 DEF FsTypes

(* A lookup in an action that reads no file.                               *)
LEMMA LookupHeld ==
  ASSUME TablesInv, NEW p, Lookup(p) \/ Look \/ UNCHANGED fsVars,
         UNCHANGED <<conf, boot, excludes, mtab>>
  PROVE  TablesInv'
<1>1. /\ MtabTypes' /\ ConfTypes' /\ RulesHeld'
  BY DEF TablesInv, MtabTypes, ConfTypes, RulesHeld
<1>2. CASE UNCHANGED fsVars
  <2>1. PropsHeld' /\ MountsHeld' /\ FsTypes'
    BY <1>2 DEF TablesInv, PropsHeld, MountsHeld, FsTypes, fsVars
  <2> QED
    BY <1>1, <2>1 DEF TablesInv
<1>3. CASE ~(UNCHANGED fsVars)
  <2>1. PICK st \in Stats : gam_fs_init(st)
    BY <1>3 DEF Lookup, Look
  <2>2. props' = FirstProps
    BY <1>3 DEF Lookup, Look
  <2>3. /\ initialized' = TRUE /\ missed' \in BOOLEAN
        /\ filesystems' \in Seq(Mtabs) /\ seen' \in 0 .. MaxTime
        /\ MountsHeld'
    BY <2>1, Rescan DEF TablesInv
  <2>4. props' \in Tables /\ PropsFrom(props', conf, boot)
    <3>1. FirstProps \in Tables /\ PropsFrom(FirstProps, conf, boot)
      BY FirstGiven DEF TablesInv
    <3> QED
      BY <2>2, <3>1, Zenon
  <2>5. FsTypes'
    BY <2>3, <2>4 DEF FsTypes
  <2>6. PropsHeld'
    BY <2>3, <2>4 DEF PropsHeld
  <2> QED
    BY <1>1, <2>3, <2>5, <2>6 DEF TablesInv
<1> QED
  BY <1>2, <1>3

(* One file is read: its rules are appended, its fssets applied. *)
LEMMA FileHeld ==
  ASSUME TablesInv, gam_conf_read_internal
  PROVE  TablesInv'
<1> DEFINE c == conf
           b == boot
           lines == c[b + 1]
<1>0. /\ b \in 0 .. 2 /\ boot' = b + 1 /\ boot' \in 0 .. 4 /\ conf' = c /\ mtab' = mtab
      /\ b + 1 \in 1 .. 3 /\ b # 4 /\ boot' # 4
      /\ excludes' = FoldLeft(ReadRule, excludes, lines)
  BY DEF TablesInv, ConfTypes, gam_conf_read_internal
<1>1. c \in Confs /\ excludes \in Seq(Rules)
  BY DEF TablesInv, ConfTypes
<1>2. /\ lines \in Seq(Lines) /\ Len(lines) \in Nat /\ DOMAIN lines = 1 .. Len(lines)
      /\ Cat(c) \in Seq(Lines) /\ Len(Cat(c)) = Offset(c, 3)
      /\ Offset(c, b) \in Nat /\ Offset(c, b + 1) = Offset(c, b) + Len(lines)
      /\ Offset(c, b + 1) <= Len(Cat(c)) /\ Offset(c, b + 1) \in Nat
      /\ \A i \in 1 .. Len(lines) : Cat(c)[Offset(c, b) + i] = lines[i]
  <2>1. b \in 0 .. 4 /\ b + 1 \in 0 .. 4
    BY <1>0
  <2>2. lines \in Seq(Lines)
    BY <1>0, <1>1, ConfLines
  <2>3. DOMAIN lines = 1 .. Len(lines) /\ Len(lines) \in Nat
    BY <2>2
  <2> HIDE DEF b, c
  <2> QED
    BY <1>0, <1>1, <2>1, <2>2, <2>3, ConfLines
<1> HIDE DEF lines
<1>3. PICK n \in Nat : n = Offset(c, b)
  BY <1>2
<1>4. PICK m \in Nat : m = Len(lines)
  BY <1>2
<1>5. MtabTypes'
  BY <1>0 DEF TablesInv, MtabTypes
<1>6. excludes' \in Seq(Rules)
  <2>1. PICK h \in [0 .. Len(lines) -> Seq(Rules)] :
          FoldLeft(ReadRule, excludes, lines) = h[Len(lines)]
    BY <1>1, <1>2, FoldRules
  <2>2. m \in 0 .. m
    OBVIOUS
  <2> QED
    BY <1>0, <1>4, <2>1, <2>2
<1>7. ConfTypes'
  BY <1>0, <1>1, <1>6 DEF ConfTypes
<1>8. ASSUME NEW p \in Paths
      PROVE  Agree(excludes', Cat(c) \o StaticRules, p, n + m)
  <2>1. PICK w : w = Cat(c) \o StaticRules
    OBVIOUS
  <2>2. \A i \in 1 .. Len(Cat(c)) : w[i] = Cat(c)[i]
    BY <1>2, <2>1, Joined, RoutingLines
  <2>3. \A i \in 1 .. m : w[n + i] = lines[i]
    <3>1. n + m <= Len(Cat(c)) /\ Len(Cat(c)) \in Nat
      BY <1>2, <1>3, <1>4
    <3>2. \A i \in 1 .. m : n + i \in 1 .. Len(Cat(c))
      BY <3>1
    <3> QED
      BY <1>2, <1>3, <1>4, <2>2, <3>2
  <2>4. Agree(excludes, w, p, n)
    BY <1>0, <1>3, <2>1 DEF TablesInv, RulesHeld, Count
  <2>5. \A i \in 1 .. Len(lines) : w[n + i] = lines[i]
    BY <1>4, <2>3
  <2>6. Agree(FoldLeft(ReadRule, excludes, lines), w, p, n + Len(lines))
    BY <1>1, <1>2, <2>4, <2>5, RulesRead
  <2> QED
    BY <1>0, <1>4, <2>1, <2>6, Zenon
<1>9. Offset(c, b + 1) = n + m /\ Count(conf', boot') = n + m
  <2>1. Offset(c, b + 1) = n + m
    BY <1>2, <1>3, <1>4
  <2>2. Count(conf', boot') = Offset(c, b + 1)
    BY <1>0, Zenon DEF Count
  <2> QED
    BY <2>1, <2>2
<1>10. RulesHeld'
  BY <1>0, <1>8, <1>9 DEF RulesHeld
<1>11. CASE ToSet(lines) \cap Fssets = {}
  <2>1. UNCHANGED fsVars
    BY <1>11 DEF gam_conf_read_internal, lines
  <2>2. \A i \in 1 .. m : lines[i] \notin Fssets
    BY <1>2, <1>4, <1>11 DEF ToSet
  <2>3. \A i \in n + 1 .. n + m : Cat(c)[i] \notin Fssets
    <3>1. ASSUME NEW i \in n + 1 .. n + m
          PROVE  Cat(c)[i] \notin Fssets
      <4>1. i - n \in 1 .. m /\ i = n + (i - n)
        OBVIOUS
      <4>2. Cat(c)[n + (i - n)] = lines[i - n]
        BY <1>2, <1>3, <1>4, <4>1
      <4> QED
        BY <2>2, <4>1, <4>2
    <3> QED
      BY <3>1
  <2>4. PropsHeld'
    <3>1. CASE initialized
      <4>1. PICK w : w = Builtin \o Cat(c)
        OBVIOUS
      <4>2. PICK B \in Nat : B = Len(Builtin)
        BY RoutingLines
      <4>3. \A i \in 1 .. Len(Cat(c)) : w[B + i] = Cat(c)[i]
        BY <1>2, <4>1, <4>2, Joined, RoutingLines
      <4>4. \A i \in (B + n) + 1 .. B + (n + m) : w[i] \notin Fssets
        <5>1. ASSUME NEW i \in (B + n) + 1 .. B + (n + m)
              PROVE  w[i] \notin Fssets
          <6>1. PICK j \in n + 1 .. n + m : i = B + j
            <7>1. i - B \in n + 1 .. n + m /\ i = B + (i - B)
              OBVIOUS
            <7> QED
              BY <7>1
          <6>2. j \in 1 .. Len(Cat(c))
            <7>1. n + m <= Len(Cat(c)) /\ Len(Cat(c)) \in Nat
              BY <1>2, <1>9
            <7> QED
              BY <7>1
          <6> QED
            BY <2>3, <4>3, <6>1, <6>2
        <5> QED
          BY <5>1
      <4>5. ASSUME NEW t \in Types
            PROVE  Given(props, w, t, B + (n + m))
        <5>1. Given(props, w, t, B + n)
          BY <1>3, <3>1, <4>1, <4>2 DEF TablesInv, PropsHeld, PropsFrom
        <5>2. B + n \in Nat /\ B + (n + m) \in Nat /\ B + n <= B + (n + m)
          OBVIOUS
        <5> QED
          BY <4>4, <5>1, <5>2, NoFsset
      <4>6. PropsFrom(props, c, b + 1)
        BY <1>9, <4>1, <4>2, <4>5 DEF PropsFrom
      <4> QED
        BY <1>0, <2>1, <3>1, <4>6 DEF PropsHeld, fsVars
    <3>2. CASE ~initialized
      <4>1. props = [t \in Types |-> NoProps] /\ \A i \in 1 .. n : Cat(c)[i] \notin Fssets
        BY <1>3, <3>2 DEF TablesInv, PropsHeld, Untouched
      <4>2. \A i \in 1 .. n + m : i \in 1 .. n \/ i \in n + 1 .. n + m
        OBVIOUS
      <4>3. Untouched(props, c, b + 1)
        BY <1>9, <2>3, <4>1, <4>2 DEF Untouched
      <4> QED
        BY <1>0, <2>1, <3>2, <4>3 DEF PropsHeld, fsVars
    <3> QED
      BY <3>1, <3>2
  <2>5. FsTypes' /\ MountsHeld'
    BY <1>0, <2>1 DEF TablesInv, FsTypes, MountsHeld, fsVars
  <2> QED
    BY <1>5, <1>7, <1>10, <2>4, <2>5 DEF TablesInv
<1>12. CASE ToSet(lines) \cap Fssets # {}
  <2>1. PICK st \in Stats : gam_fs_init(st)
    BY <1>12 DEF gam_conf_read_internal, lines
  <2>2. props' = FoldLeft(ReadFsset, FirstProps, lines)
    BY <1>12 DEF gam_conf_read_internal, lines
  <2>3. /\ initialized' = TRUE /\ missed' \in BOOLEAN
        /\ filesystems' \in Seq(Mtabs) /\ seen' \in 0 .. MaxTime
        /\ MountsHeld'
    BY <1>0, <2>1, Rescan DEF TablesInv
  <2>4. PICK first \in Tables : first = FirstProps /\ PropsFrom(first, conf, boot)
    BY FirstGiven DEF TablesInv
  <2>5. props' = FoldLeft(ReadFsset, first, lines)
    BY <2>2, <2>4
  <2>6. props' \in Tables
    <3>1. PICK h \in [0 .. Len(lines) -> Tables] :
            FoldLeft(ReadFsset, first, lines) = h[Len(lines)]
      BY <1>2, FoldFssets
    <3>2. m \in 0 .. m
      OBVIOUS
    <3> QED
      BY <1>4, <2>5, <3>1, <3>2
  <2>7. PICK w : w = Builtin \o Cat(c)
    OBVIOUS
  <2>8. PICK B \in Nat : B = Len(Builtin)
    BY RoutingLines
  <2>9. \A i \in 1 .. Len(Cat(c)) : w[B + i] = Cat(c)[i]
    BY <1>2, <2>7, <2>8, Joined, RoutingLines
  <2>10. \A i \in 1 .. Len(lines) : w[(B + n) + i] = lines[i]
    <3>1. ASSUME NEW i \in 1 .. m
          PROVE  w[(B + n) + i] = lines[i]
      <4>1. n + m <= Len(Cat(c)) /\ Len(Cat(c)) \in Nat
        BY <1>2, <1>9
      <4>2. n + i \in 1 .. Len(Cat(c)) /\ (B + n) + i = B + (n + i)
        BY <4>1
      <4>3. Cat(c)[n + i] = lines[i]
        BY <1>2, <1>3, <1>4
      <4> QED
        BY <2>9, <4>2, <4>3
    <3> QED
      BY <1>4, <3>1
  <2>11. ASSUME NEW t \in Types
         PROVE  Given(props', w, t, B + (n + m))
    <3>1. Given(first, w, t, B + n)
      BY <1>3, <2>4, <2>7, <2>8 DEF PropsFrom
    <3>2. B + n \in Nat /\ (B + n) + m = B + (n + m)
      OBVIOUS
    <3>3. Given(FoldLeft(ReadFsset, first, lines), w, t, (B + n) + Len(lines))
      BY <1>2, <2>10, <3>1, <3>2, FssetsRead
    <3> QED
      BY <1>4, <2>5, <3>2, <3>3, Zenon
  <2>12. PropsFrom(props', c, b + 1)
    BY <1>9, <2>7, <2>8, <2>11 DEF PropsFrom
  <2>13. PropsHeld' /\ FsTypes'
    BY <1>0, <2>3, <2>6, <2>12 DEF PropsHeld, FsTypes
  <2> QED
    BY <1>5, <1>7, <1>10, <2>3, <2>13 DEF TablesInv
<1> QED
  BY <1>11, <1>12

(* The static rules come last. *)
LEMMA StaticHeld ==
  ASSUME TablesInv, gam_exclude_init
  PROVE  TablesInv'
<1>0. /\ boot = 3 /\ boot' = 4 /\ conf' = conf
      /\ excludes' = FoldLeft(gam_exclude_add, excludes, StaticRules)
      /\ UNCHANGED <<mtab, fsVars>>
  BY DEF gam_exclude_init
<1>1. conf \in Confs /\ excludes \in Seq(Rules)
  BY DEF TablesInv, ConfTypes
<1>2. StaticRules \in Seq(Rules)
  <2>1. [on : SUBSET Paths, poll : {TRUE}] \subseteq Rules
    BY DEF Rules
  <2>2. PICK T : T = [on : SUBSET Paths, poll : {TRUE}]
    OBVIOUS
  <2>3. StaticRules \in Seq(T) /\ T \subseteq Rules
    BY <2>1, <2>2, RoutingLines
  <2> QED
    BY <2>3
<1>3. StaticRules \in Seq(Lines) /\ Len(StaticRules) \in Nat
  BY <1>2 DEF Lines
<1>4. FsTypes' /\ MtabTypes' /\ MountsHeld'
  BY <1>0 DEF TablesInv, FsTypes, MtabTypes, MountsHeld, fsVars
<1>5. excludes' \in Seq(Rules)
  <2>1. PICK h \in [0 .. Len(StaticRules) -> Seq(Rules)] :
          FoldLeft(gam_exclude_add, excludes, StaticRules) = h[Len(StaticRules)]
    BY <1>1, <1>2, FoldStatic
  <2>2. Len(StaticRules) \in 0 .. Len(StaticRules)
    BY <1>3
  <2> QED
    BY <1>0, <2>1, <2>2
<1>6. ConfTypes'
  BY <1>0, <1>1, <1>5 DEF ConfTypes
<1>7. PropsHeld'
  <2>1. Offset(conf, 4) = Offset(conf, 3)
    BY <1>1, ConfLines
  <2>2. PropsFrom(props, conf, 3) => PropsFrom(props, conf, 4)
    BY <2>1 DEF PropsFrom
  <2>3. Untouched(props, conf, 3) => Untouched(props, conf, 4)
    BY <2>1 DEF Untouched
  <2> QED
    BY <1>0, <2>2, <2>3 DEF TablesInv, PropsHeld, fsVars
<1>8. PICK n \in Nat : n = Offset(conf, 3) /\ n = Len(Cat(conf))
  BY <1>1, ConfLines
<1>9. ASSUME NEW p \in Paths
      PROVE  Agree(excludes', Cat(conf) \o StaticRules, p, n + Len(StaticRules))
  <2>1. PICK w : w = Cat(conf) \o StaticRules
    OBVIOUS
  <2>2. Cat(conf) \in Seq(Lines)
    BY <1>1, ConfLines
  <2>3. \A i \in 1 .. Len(StaticRules) : w[n + i] = StaticRules[i]
    BY <1>3, <1>8, <2>1, <2>2, Joined
  <2>4. Agree(excludes, w, p, n)
    BY <1>0, <1>8, <2>1 DEF TablesInv, RulesHeld, Count
  <2>5. Agree(FoldLeft(gam_exclude_add, excludes, StaticRules), w, p, n + Len(StaticRules))
    BY <1>1, <1>2, <1>3, <2>3, <2>4, RulesRead
  <2> QED
    BY <1>0, <2>1, <2>5, Zenon
<1>10. RulesHeld'
  <2>1. Count(conf', boot') = n + Len(StaticRules)
    BY <1>0, <1>8 DEF Count
  <2> QED
    BY <1>0, <1>9, <2>1 DEF RulesHeld
<1> QED
  BY <1>4, <1>6, <1>7, <1>10 DEF TablesInv

(* /etc/mtab is changed by others: what was read of it is held, or missed. *)
LEMMA MtabHeld ==
  ASSUME TablesInv, Unlink \/ \E t \in MountTables, n \in 0 .. MaxTime : Mount(t, n)
  PROVE  TablesInv'
<1>1. UNCHANGED <<conf, boot, excludes, props, initialized, filesystems, seen>>
  BY DEF Unlink, Mount, fsVars
<1>2. ConfTypes' /\ RulesHeld' /\ PropsHeld'
  BY <1>1 DEF TablesInv, ConfTypes, RulesHeld, PropsHeld
<1>3. FsTypes' /\ MtabTypes' /\ MountsHeld'
  <2>1. CASE Unlink
    <3>1. mtab' = [mtab EXCEPT !.present = FALSE] /\ missed' = missed
      BY <2>1 DEF Unlink, fsVars
    <3>2. MtabTypes' /\ ~mtab'.present
      BY <3>1 DEF TablesInv, MtabTypes
    <3> QED
      BY <1>1, <3>1, <3>2 DEF TablesInv, FsTypes, MountsHeld
  <2>2. ASSUME NEW t \in MountTables, NEW n \in 0 .. MaxTime, Mount(t, n)
        PROVE  FsTypes' /\ MtabTypes' /\ MountsHeld'
    <3>1. /\ mtab' = [present |-> TRUE, table |-> t, time |-> n]
          /\ missed' = (missed \/ (initialized /\ n = seen))
      BY <2>2 DEF Mount
    <3>2. MtabTypes'
      BY <3>1 DEF MtabTypes
    <3>3. FsTypes'
      BY <1>1, <3>1 DEF TablesInv, FsTypes
    <3>4. MountsHeld'
      <4>1. mtab'.time = n
        BY <3>1
      <4> QED
        BY <1>1, <3>1, <4>1 DEF MountsHeld
    <3> QED
      BY <3>2, <3>3, <3>4
  <2> QED
    BY <2>1, <2>2
<1> QED
  BY <1>2, <1>3 DEF TablesInv

LEMMA InitHeld == Init => TablesInv
<1> SUFFICES ASSUME Init PROVE TablesInv
  OBVIOUS
<1>1. ConfTypes /\ MtabTypes
  BY RoutingSets DEF Init, ConfTypes, Confs, MtabTypes
<1>2. FsTypes
  <2>1. [t \in Types |-> NoProps] \in Tables
    BY DEF Tables, NoProps, Props, Methods
  <2>2. <<>> \in Seq(Mtabs) /\ 0 \in 0 .. MaxTime
    BY RoutingSets
  <2> QED
    BY <2>1, <2>2, Zenon DEF Init, FsTypes
<1>3. boot = 0 /\ excludes = <<>> /\ Offset(conf, 0) = 0 /\ Count(conf, 0) = 0
  BY DEF Init, Offset, Count
<1>4. RulesHeld
  BY <1>3 DEF RulesHeld, Agree
<1>5. PropsHeld
  BY <1>3 DEF Init, PropsHeld, Untouched
<1>6. MountsHeld
  BY DEF Init, MountsHeld
<1> QED
  BY <1>1, <1>2, <1>4, <1>5, <1>6 DEF TablesInv

LEMMA NextHeld == TablesInv /\ [Next]_vars => TablesInv'
<1> SUFFICES ASSUME TablesInv, [Next]_vars PROVE TablesInv'
  OBVIOUS
<1>1. CASE gam_conf_read_internal
  BY <1>1, FileHeld
<1>2. CASE gam_exclude_init
  BY <1>2, StaticHeld
<1>3. CASE Unlink \/ \E t \in MountTables, n \in 0 .. MaxTime : Mount(t, n)
  BY <1>3, MtabHeld
<1>4. ASSUME NEW s \in Subs, gam_add_subscription(s, path[s])
      PROVE  TablesInv'
  BY <1>4, LookupHeld DEF gam_add_subscription
<1>5. ASSUME NEW s \in Subs, gam_remove_subscription(s)
      PROVE  TablesInv'
  BY <1>5, LookupHeld DEF gam_remove_subscription
<1>6. ASSUME NEW s \in Subs, gam_listener_free_subscription(s)
      PROVE  TablesInv'
  BY <1>6, LookupHeld DEF gam_listener_free_subscription
<1>7. CASE UNCHANGED vars \/ gam_node_new
  BY <1>7, LookupHeld DEF vars, gam_node_new
<1> QED
  BY <1>1, <1>2, <1>3, <1>4, <1>5, <1>6, <1>7 DEF Next

-----------------------------------------------------------------------------
LEMMA HookType ==
  ASSUME NEW p, NEW table, NEW list
  PROVE  /\ HookFor(p, table, list) \in Holders
         /\ HookFor(p, table, list) = "inotify" => backend \in {"inotify", "failed"}
  BY DEF HookFor, KernelHook, inotify_is_running, Holders

(* gam_listener_free_subscription asks what gam_remove_subscription asked  *)
(* in other words: inotify leaves to it what it holds, the tree nothing.   *)
LEMMA SameQuestion ==
  ASSUME NEW p, NEW table, NEW list
  PROVE  /\ HookFor(p, table, list) = "tree" => ~FreesIt(p, table, list)
         /\ HookFor(p, table, list) = "inotify" => (FreesIt(p, table, list) <=> backend # "failed")
<1>1. CASE gam_exclude_check(excludes, p)
  BY <1>1 DEF HookFor, KernelHook, FreesIt, inotify_is_running
<1>2. CASE ~gam_exclude_check(excludes, p)
  <2>1. PICK type : type = gam_fs_get_mon_type(table, list, p)
    OBVIOUS
  <2>2. HookFor(p, table, list) =
          IF type = "kernel" THEN KernelHook ELSE IF type = "poll" THEN "tree" ELSE "nobody"
    BY <1>2, <2>1 DEF HookFor
  <2>3. FreesIt(p, table, list) <=> inotify_is_running /\ type # "poll"
    BY <1>2, <2>1 DEF FreesIt
  <2> QED
    BY <2>2, <2>3 DEF KernelHook, inotify_is_running
<1> QED
  BY <1>1, <1>2

LEMMA AddLife ==
  ASSUME Inv, NEW s \in Subs, NEW p, gam_add_subscription(s, p)
  PROVE  Inv'
<1>1. PICK to \in Holders : to = HookFor(p, props', filesystems')
  BY HookType
<1>2. to = "inotify" => backend \in {"inotify", "failed"}
  BY <1>1, HookType
<1>3. /\ stage[s] = "new" /\ UNCHANGED <<backend, freed, moved>>
      /\ route'  = [route EXCEPT ![s] = to]
      /\ holder' = [holder EXCEPT ![s] = to]
      /\ stage'  = [stage EXCEPT ![s] = IF to = "nobody" THEN "refused" ELSE "held"]
  BY <1>1 DEF gam_add_subscription
<1>4. SubTypes'
  BY <1>3 DEF Inv, SubTypes
<1>5. ASSUME NEW u \in Subs
      PROVE  Life(u)'
  <2>1. CASE u = s
    BY <1>2, <1>3, <2>1 DEF Inv, SubTypes, Life, Routed
  <2>2. CASE u # s
    BY <1>3, <2>2 DEF Inv, SubTypes, Life, Routed
  <2> QED
    BY <2>1, <2>2
<1> QED
  BY <1>4, <1>5 DEF Inv

LEMMA RemoveLife ==
  ASSUME Inv, NEW s \in Subs, gam_remove_subscription(s)
  PROVE  Inv'
<1>1. PICK from \in Holders : from = HookFor(path[s], props', filesystems')
  BY HookType
<1>2. /\ stage[s] = "held" /\ UNCHANGED <<backend, route>>
      /\ holder' = [holder EXCEPT ![s] = IF @ = from THEN "nobody" ELSE @]
      /\ freed'  = [freed EXCEPT ![s] = IF from = "tree" THEN @ + 1 ELSE @]
      /\ moved'  = [moved EXCEPT ![s] = from # route[s]]
      /\ stage'  = [stage EXCEPT ![s] = "removed"]
  BY <1>1 DEF gam_remove_subscription
<1>3. SubTypes'
  BY <1>2 DEF Inv, SubTypes, Holders
<1>4. ASSUME NEW u \in Subs
      PROVE  Life(u)'
  <2>1. CASE u = s
    <3>1. freed[s] = 0 /\ Routed(s) /\ holder[s] = route[s]
      BY <1>2 DEF Inv, Life
    <3>2. /\ stage'[s] = "removed" /\ route'[s] = route[s] /\ backend' = backend
          /\ holder'[s] = IF holder[s] = from THEN "nobody" ELSE holder[s]
          /\ freed'[s] = IF from = "tree" THEN 1 ELSE 0
      BY <1>2, <3>1 DEF Inv, SubTypes
    <3>3. ~moved'[s] => from = route[s]
      BY <1>2 DEF Inv, SubTypes
    <3> QED
      BY <2>1, <3>1, <3>2, <3>3 DEF Life, Routed
  <2>2. CASE u # s
    BY <1>2, <2>2 DEF Inv, SubTypes, Life, Routed
  <2> QED
    BY <2>1, <2>2
<1> QED
  BY <1>3, <1>4 DEF Inv

LEMMA FreeLife ==
  ASSUME Inv, NEW s \in Subs, gam_listener_free_subscription(s)
  PROVE  Inv'
<1>1. PICK hook : hook = HookFor(path[s], props', filesystems')
  OBVIOUS
<1>2. PICK frees \in BOOLEAN : frees <=> FreesIt(path[s], props', filesystems')
  OBVIOUS
<1>3. /\ hook = "tree" => ~frees
      /\ hook = "inotify" => (frees <=> backend # "failed")
  BY <1>1, <1>2, SameQuestion
<1>4. /\ stage[s] = "removed" /\ UNCHANGED <<backend, route, holder>>
      /\ freed' = [freed EXCEPT ![s] = IF frees THEN @ + 1 ELSE @]
      /\ moved' = [moved EXCEPT ![s] = @ \/ hook # route[s]]
      /\ stage' = [stage EXCEPT ![s] = "done"]
  BY <1>1, <1>2 DEF gam_listener_free_subscription
<1>5. SubTypes'
  BY <1>4 DEF Inv, SubTypes
<1>6. ASSUME NEW u \in Subs
      PROVE  Life(u)'
  <2>1. CASE u = s
    <3>1. ~moved'[s] => ~moved[s] /\ hook = route[s]
      BY <1>4 DEF Inv, SubTypes
    <3>2. ~moved[s] => /\ Routed(s) /\ holder[s] = "nobody"
                       /\ freed[s] = IF route[s] = "tree" THEN 1 ELSE 0
      BY <1>4 DEF Inv, Life
    <3>3. route[s] \in Holders /\ freed[s] \in Nat /\ freed'[s] = IF frees THEN freed[s] + 1 ELSE freed[s]
      BY <1>4 DEF Inv, SubTypes
    <3>4. stage'[s] = "done" /\ holder'[s] = holder[s] /\ route'[s] = route[s] /\ backend' = backend
      BY <1>4 DEF Inv, SubTypes
    <3>5. freed[s] <= 1
      BY <1>4 DEF Inv, Life
    <3>6. freed'[s] <= 2
      BY <3>3, <3>5
    <3> QED
      BY <1>3, <2>1, <3>1, <3>2, <3>3, <3>4, <3>6 DEF Life, Routed, Holders
  <2>2. CASE u # s
    BY <1>4, <2>2 DEF Inv, SubTypes, Life, Routed
  <2> QED
    BY <2>1, <2>2
<1> QED
  BY <1>5, <1>6 DEF Inv

LEMMA InitLife == Init => Inv
<1> SUFFICES ASSUME Init PROVE Inv
  OBVIOUS
<1>1. SubTypes
  BY DEF Init, SubTypes, Holders
<1>2. \A s \in Subs : Life(s)
  BY DEF Init, Life
<1> QED
  BY <1>1, <1>2 DEF Inv

LEMMA NextLife == Inv /\ [Next]_vars => Inv'
<1> SUFFICES ASSUME Inv, [Next]_vars PROVE Inv'
  OBVIOUS
<1>1. CASE UNCHANGED <<backend, subVars>>
  BY <1>1 DEF Inv, SubTypes, Life, Routed, subVars
<1>2. CASE \/ gam_conf_read_internal \/ gam_exclude_init \/ Unlink \/ UNCHANGED vars
           \/ gam_node_new
           \/ \E t \in MountTables, n \in 0 .. MaxTime : Mount(t, n)
  BY <1>1, <1>2 DEF gam_conf_read_internal, gam_exclude_init, Unlink, Mount, gam_node_new,
                     vars
<1> QED
  BY <1>2, AddLife, RemoveLife, FreeLife DEF Next

(* A subscription that was removed is freed once and no backend refers to  *)
(* it, whatever the configuration says, unless the file system under its   *)
(* path changed while it was monitored: the lookups of                     *)
(* gam_remove_subscription and gam_listener_free_subscription agree with   *)
(* the one of gam_add_subscription, which chose its backend.               *)
THEOREM RemovalIsClean == Spec => []CleanRemoval
<1>1. Inv => CleanRemoval
  BY DEF Inv, Life, CleanRemoval
<1> QED
  BY <1>1, InitLife, NextLife, PTL DEF Spec

LEMMA PathKept == path \in [Subs -> Paths] /\ [Next]_vars => path' = path
<1> SUFFICES ASSUME path \in [Subs -> Paths], [Next]_vars PROVE path' = path
  OBVIOUS
<1>1. ASSUME NEW s \in Subs, gam_add_subscription(s, path[s])
      PROVE  path' = path
  <2>1. path' = [path EXCEPT ![s] = path[s]]
    BY <1>1 DEF gam_add_subscription
  <2> QED
    BY <2>1
<1>2. CASE UNCHANGED subVars
  BY <1>2 DEF subVars
<1>3. CASE \/ gam_conf_read_internal \/ gam_exclude_init \/ Unlink \/ UNCHANGED vars
           \/ gam_node_new
           \/ \E t \in MountTables, n \in 0 .. MaxTime : Mount(t, n)
  BY <1>2, <1>3 DEF gam_conf_read_internal, gam_exclude_init, Unlink, Mount, gam_node_new,
                     vars
<1> QED
  BY <1>1, <1>3 DEF Next, gam_remove_subscription, gam_listener_free_subscription

(* The variables keep their types, and no subscription is freed more than  *)
(* twice, however often /etc/mtab changes between the lookups of           *)
(* gam_remove_subscription and gam_listener_free_subscription.             *)
THEOREM RoutingTypes == Spec => []TypeOK
<1> DEFINE PathType == path \in [Subs -> Paths]
<1>1. Init => PathType
  BY DEF Init
<1>2. PathType /\ [Next]_vars => PathType'
  BY PathKept
<1>3. Inv /\ TablesInv /\ PathType => TypeOK
  <2> SUFFICES ASSUME Inv, TablesInv, PathType PROVE TypeOK
    OBVIOUS
  <2>1. \A s \in Subs : freed[s] \in 0 .. 2
    <3>1. ASSUME NEW s \in Subs
          PROVE  freed[s] \in 0 .. 2
      <4>1. freed[s] \in Nat /\ stage[s] \in {"new", "refused", "held", "removed", "done"}
        BY DEF Inv, SubTypes
      <4>2. Life(s)
        BY DEF Inv
      <4>3. freed[s] <= 2
        BY <4>1, <4>2 DEF Life
      <4> QED
        BY <4>1, <4>3
    <3> QED
      BY <3>1
  <2>2. freed \in [Subs -> 0 .. 2]
    BY <2>1 DEF Inv, SubTypes
  <2>3. /\ boot \in 0 .. 4 /\ excludes \in Seq(Rules)
        /\ props \in [Types -> Props] /\ initialized \in BOOLEAN /\ missed \in BOOLEAN
        /\ filesystems \in Seq([at : Mounts, type : Types]) /\ seen \in 0 .. MaxTime
        /\ mtab \in [present : BOOLEAN, table : MountTables, time : 0 .. MaxTime]
    BY Zenon DEF TablesInv, FsTypes, MtabTypes, ConfTypes, Tables, Mtabs
  <2> QED
    BY <2>2, <2>3, Zenon DEF Inv, SubTypes, Holders, TypeOK
<1> QED
  BY <1>1, <1>2, <1>3, InitLife, NextLife, InitHeld, NextHeld, PTL DEF Spec

(* gam_exclude_check answers, for every path, every three files and every  *)
(* set of static patterns, what the first line that matches says: in the   *)
(* order gam_conf_read reads the files, before the patterns that           *)
(* gam_exclude_init adds.  That holds for every path; the documentation    *)
(* claims it only where the mandatory file does not contradict an earlier  *)
(* one.                                                                    *)
THEOREM FirstRuleAlways == Spec => []FirstRuleWins
<1>1. TablesInv => FirstRuleWins
  <2> SUFFICES ASSUME TablesInv, boot = 4, NEW p \in Paths
               PROVE  LET all  == AllLines
                          hits == Hits(all, p)
                      IN  gam_exclude_check(excludes, p) <=>
                            IF hits = {} THEN \E r \in ToSet(StaticRules) : p \in r.on
                            ELSE all[Min(hits)].poll
    BY DEF FirstRuleWins
  <2>1. PICK all : all = Cat(conf)
    OBVIOUS
  <2>2. all \in Seq(Lines) /\ Len(all) = Offset(conf, 3) /\ excludes \in Seq(Rules)
    BY <2>1, ConfLines DEF TablesInv, ConfTypes
  <2>3. Agree(excludes, all \o StaticRules, p, Len(all) + Len(StaticRules))
    <3>1. Count(conf, boot) = Len(all) + Len(StaticRules)
      BY <2>2 DEF Count
    <3> QED
      BY <2>1, <3>1 DEF TablesInv, RulesHeld
  <2>4. AllLines = all
    BY <2>1 DEF AllLines, Cat
  <2>5. LET hits == {i \in DOMAIN all : all[i] \in Rules /\ p \in all[i].on}
        IN  gam_exclude_check(excludes, p) <=>
              IF hits = {} THEN \E r \in ToSet(StaticRules) : p \in r.on
              ELSE all[Min(hits)].poll
    BY <2>2, <2>3, RuleAnswer
  <2>6. Hits(all, p) = {i \in DOMAIN all : all[i] \in Rules /\ p \in all[i].on}
    BY DEF Hits
  <2> QED
    BY <2>4, <2>5, <2>6, Zenon
<1> QED
  BY <1>1, InitHeld, NextHeld, PTL DEF Spec

(* The table of gam_fs_set holds, for every type and every three files,    *)
(* the method of the last fsset line and the last timeout that was given,  *)
(* the built in lines of gam_fs_init counting as the first, although that  *)
(* function may be called only when some of the files have been read.      *)
THEOREM LastFssetAlways == Spec => []LastFssetWins
<1>1. TablesInv => LastFssetWins
  <2> SUFFICES ASSUME TablesInv, boot = 4, initialized, NEW t \in Types
               PROVE  LET all   == Builtin \o AllLines
                          mine  == {i \in DOMAIN all : all[i] \in Fssets /\ all[i].type = t}
                          timed == {i \in mine : all[i].timeout >= 0}
                      IN  props[t] = IF mine = {} THEN NoProps
                                     ELSE [mon     |-> all[Max(mine)].mon,
                                           timeout |-> IF timed = {} THEN 0
                                                       ELSE all[Max(timed)].timeout]
    BY DEF LastFssetWins
  <2>1. PICK all : all = Builtin \o Cat(conf)
    OBVIOUS
  <2>2. /\ Cat(conf) \in Seq(Lines) /\ Len(Cat(conf)) = Offset(conf, 3)
        /\ Offset(conf, 4) = Offset(conf, 3)
    BY ConfLines DEF TablesInv, ConfTypes
  <2>3. DOMAIN all = 1 .. Len(Builtin) + Offset(conf, 4)
    <3>1. PICK c : c = Cat(conf)
      OBVIOUS
    <3>2. Builtin \in Seq(Fssets) /\ c \in Seq(Lines)
      BY <2>2, <3>1, RoutingLines
    <3>3. DOMAIN (Builtin \o c) = 1 .. Len(Builtin) + Len(c)
      BY <3>2, Joined
    <3> QED
      BY <2>1, <2>2, <3>1, <3>3, Zenon
  <2>4. PICK n : n = Len(Builtin) + Offset(conf, 4)
    OBVIOUS
  <2>5. Given(props, all, t, n)
    BY <2>1, <2>4 DEF TablesInv, PropsHeld, PropsFrom
  <2>6. Builtin \o AllLines = all
    BY <2>1 DEF AllLines, Cat
  <2>7. DOMAIN all = 1 .. n
    BY <2>3, <2>4
  <2> QED
    BY <2>5, <2>6, <2>7, Zenon DEF Given, Mine, Timed
<1> QED
  BY <1>1, InitHeld, NextHeld, PTL DEF Spec

(* gam_fs_find_fs finds for every path the line of /etc/mtab with the      *)
(* longest mount point that begins it, and of several at one mount point   *)
(* the last: gam_fs_scan_mtab keeps the list in the order in which the     *)
(* first hit is that line, for a table of any length.                      *)
THEOREM MountFoundAlways == Spec => []MountFound
<1>1. TablesInv => MountFound
  <2> SUFFICES ASSUME TablesInv, initialized, mtab.present, seen = mtab.time, ~missed,
                      NEW p \in Paths
               PROVE  LET hits == {i \in DOMAIN mtab.table : p \in Prefix[mtab.table[i].at]}
                          i    == gam_fs_find_fs(filesystems, p)
                      IN  IF hits = {} THEN i = 0
                          ELSE i # 0 /\ \E h \in hits :
                                 /\ filesystems[i] = mtab.table[h]
                                 /\ \A k \in hits : LET a == mtab.table[k].at
                                                        b == mtab.table[h].at
                                                    IN  \/ Length[a] < Length[b]
                                                        \/ (a = b /\ k <= h)
    BY DEF MountFound
  <2>1. PICK table \in Seq(Mtabs) : table = mtab.table
    BY RoutingLines DEF TablesInv, MtabTypes, Mtabs
  <2>2. filesystems = gam_fs_scan_mtab(table)
    BY <2>1 DEF TablesInv, MountsHeld
  <2>3. Arranged(filesystems, table, Len(table))
    BY <2>2, MtabSorted
  <2>4. LET hits == {i \in DOMAIN table : p \in Prefix[table[i].at]}
            i    == gam_fs_find_fs(filesystems, p)
        IN  IF hits = {} THEN i = 0
            ELSE i # 0 /\ \E h \in hits :
                   /\ filesystems[i] = table[h]
                   /\ \A k \in hits : LET a == table[k].at
                                          b == table[h].at
                                      IN  Length[a] < Length[b] \/ (a = b /\ k <= h)
    BY <2>3, MountAnswer
  <2> QED
    BY <2>1, <2>4, Zenon
<1> QED
  BY <1>1, InitHeld, NextHeld, PTL DEF Spec
=============================================================================
