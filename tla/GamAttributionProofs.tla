----------------------- MODULE GamAttributionProofs ------------------------
(***************************************************************************)
(* Every event reaches the application under the request it belongs to.    *)
(*                                                                         *)
(* Attribution speaks of the end of a long way: a request is written, read *)
(* by the server, kept as a subscription, named by queued events, flushed, *)
(* read back and looked up in a table that has changed since.  Three       *)
(* invariants carry the proof: the ends of sockets and what they hold      *)
(* (Ends), the sorted table and the counter ahead of it (SortedUntilReset),*)
(* and that everything in flight on a connection has a number already      *)
(* handed out and the path its request has, if it is still in the table    *)
(* (Consistent).                                                           *)
(***************************************************************************)
EXTENDS GamSystemProofs, WellFoundedInduction

(* A non-empty set of numbers has a least element. *)
LEMMA MinIsIn ==
  ASSUME NEW I \in SUBSET Nat, I # {}
  PROVE  Min(I) \in I
<1>1. PICK x \in I : \A y \in I : ~(<<y, x>> \in OpToRel(<, Nat))
  BY NatLessThanWellFounded, WFMin
<1>2. \A y \in I : ~(y < x)
  BY <1>1, Zenon DEF OpToRel
<1>3. \A y \in I : x =< y
  BY <1>2
<1> QED
  BY <1>3 DEF Min

-----------------------------------------------------------------------------
(* What sequences hold. *)

LEMMA ToSetOne == ASSUME NEW x PROVE ToSet(<<x>>) = {x}
  BY DEF ToSet

LEMMA ToSetFacts ==
  ASSUME NEW S
  PROVE  /\ ToSet(<<>>) = {}
         /\ \A x \in S : ToSet(<<x>>) = {x}
         /\ \A q \in Seq(S) : \A k \in 1 .. Len(q) : q[k] \in ToSet(q)
         /\ \A q \in Seq(S) : \A x \in ToSet(q) : \E k \in 1 .. Len(q) : x = q[k]
         /\ \A q \in Seq(S) : q # <<>> => Head(q) \in ToSet(q) /\ ToSet(Tail(q)) \subseteq ToSet(q)
<1>1. /\ ToSet(<<>>) = {}
      /\ \A x \in S : ToSet(<<x>>) = {x}
  BY DEF ToSet
<1>2. ASSUME NEW q \in Seq(S)
      PROVE  /\ \A k \in 1 .. Len(q) : q[k] \in ToSet(q)
             /\ \A x \in ToSet(q) : \E k \in 1 .. Len(q) : x = q[k]
             /\ q # <<>> => Head(q) \in ToSet(q) /\ ToSet(Tail(q)) \subseteq ToSet(q)
  BY DEF ToSet
<1> QED
  BY <1>1, <1>2

LEMMA ToSetConcat ==
  ASSUME NEW S, NEW a \in Seq(S), NEW b \in Seq(S)
  PROVE  ToSet(a \o b) = ToSet(a) \cup ToSet(b)
<1>1. /\ DOMAIN a = 1 .. Len(a) /\ DOMAIN b = 1 .. Len(b)
      /\ DOMAIN (a \o b) = 1 .. Len(a) + Len(b)
      /\ Len(a) \in Nat /\ Len(b) \in Nat
  OBVIOUS
<1>2. \A k \in 1 .. Len(a) + Len(b) :
        (a \o b)[k] = IF k <= Len(a) THEN a[k] ELSE b[k - Len(a)]
  OBVIOUS
<1>3. ASSUME NEW x \in ToSet(a \o b)
      PROVE  x \in ToSet(a) \cup ToSet(b)
  <2>1. PICK k \in 1 .. Len(a) + Len(b) : x = (a \o b)[k]
    BY <1>1, <1>3 DEF ToSet
  <2>2. CASE k <= Len(a)
    BY <1>1, <1>2, <2>1, <2>2 DEF ToSet
  <2>3. CASE k > Len(a)
    <3>1. k - Len(a) \in 1 .. Len(b) /\ x = b[k - Len(a)]
      BY <1>1, <1>2, <2>1, <2>3
    <3> QED
      BY <1>1, <3>1 DEF ToSet
  <2> QED
    BY <1>1, <2>2, <2>3
<1>4. ASSUME NEW x \in ToSet(a)
      PROVE  x \in ToSet(a \o b)
  <2>1. PICK k \in 1 .. Len(a) : x = a[k]
    BY <1>1, <1>4 DEF ToSet
  <2>2. k \in 1 .. Len(a) + Len(b) /\ (a \o b)[k] = x
    BY <1>1, <1>2, <2>1
  <2> QED
    BY <1>1, <2>2 DEF ToSet
<1>5. ASSUME NEW x \in ToSet(b)
      PROVE  x \in ToSet(a \o b)
  <2>1. PICK k \in 1 .. Len(b) : x = b[k]
    BY <1>1, <1>5 DEF ToSet
  <2>2. k + Len(a) \in 1 .. Len(a) + Len(b) /\ (a \o b)[k + Len(a)] = x
    BY <1>1, <1>2, <2>1
  <2> QED
    BY <1>1, <2>2 DEF ToSet
<1> QED
  BY <1>3, <1>4, <1>5

LEMMA ToSetCons ==
  ASSUME NEW S, NEW x \in S, NEW q \in Seq(S)
  PROVE  ToSet(<<x>> \o q) = {x} \cup ToSet(q)
<1>1. <<x>> \in Seq(S)
  OBVIOUS
<1>2. ToSet(<<x>> \o q) = ToSet(<<x>>) \cup ToSet(q)
  BY <1>1, ToSetConcat, Zenon
<1> QED
  BY <1>2, ToSetOne, Zenon

LEMMA ToSetRemoveAt ==
  ASSUME NEW S, NEW q \in Seq(S), NEW i \in 1 .. Len(q)
  PROVE  ToSet(RemoveAt(q, i)) \subseteq ToSet(q)
<1> DEFINE u == RemoveAt(q, i)
<1>1. /\ u \in Seq(S) /\ Len(u) = Len(q) - 1
      /\ \A j \in 1 .. Len(q) - 1 : u[j] = IF j < i THEN q[j] ELSE q[j + 1]
  BY RemoveAtType
<1> HIDE DEF u
<1>2. ASSUME NEW x \in ToSet(u)
      PROVE  x \in ToSet(q)
  <2>1. PICK j \in 1 .. Len(q) - 1 : x = u[j]
    BY <1>1, <1>2, ToSetFacts
  <2>2. \E k \in 1 .. Len(q) : x = q[k]
    BY <1>1, <2>1
  <2> QED
    BY <2>2, ToSetFacts
<1> QED
  BY <1>2 DEF u

-----------------------------------------------------------------------------
(* The table of requests. *)

Ahead(t, n) ==
  /\ Increasing(t)
  /\ \A i \in 1 .. Len(t) : t[i].reqno < n

(* u holds requests of t only, with their paths. *)
Within(u, t) ==
  \A e \in ToSet(u) : \E f \in ToSet(t) : e.reqno = f.reqno /\ e.path = f.path

LEMMA SameNumbers ==
  ASSUME NEW t \in Seq(Entries), NEW u \in Seq(Entries), Len(u) = Len(t),
         \A i \in 1 .. Len(t) : u[i].reqno = t[i].reqno /\ u[i].path = t[i].path
  PROVE  Within(u, t) /\ \A n : Ahead(t, n) => Ahead(u, n)
<1>1. Within(u, t)
  BY ToSetFacts DEF Within
<1>2. \A n : Ahead(t, n) => Ahead(u, n)
  BY DEF Ahead, Increasing
<1> QED
  BY <1>1, <1>2

LEMMA CancelKeeps ==
  ASSUME NEW t \in Seq(Entries), NEW i \in 1 .. Len(t), NEW st \in ReqStates
  PROVE  /\ Within([t EXCEPT ![i].state = st], t)
         /\ \A n : Ahead(t, n) => Ahead([t EXCEPT ![i].state = st], n)
<1> DEFINE u == [t EXCEPT ![i].state = st]
<1>1. \A j \in 1 .. Len(t) : t[j] \in Entries
  OBVIOUS
<1>2. [t[i] EXCEPT !.state = st] \in Entries
  BY <1>1 DEF Entries
<1>3. u \in Seq(Entries) /\ Len(u) = Len(t)
  BY <1>2
<1>4. ASSUME NEW j \in 1 .. Len(t)
      PROVE  u[j].reqno = t[j].reqno /\ u[j].path = t[j].path
  BY <1>1 DEF Entries
<1> HIDE DEF u
<1>5. Within(u, t) /\ \A n : Ahead(t, n) => Ahead(u, n)
  BY <1>3, <1>4, SameNumbers
<1> QED
  BY <1>5 DEF u

LEMMA ConfirmKeeps ==
  ASSUME NEW t \in Seq(Entries), NEW e
  PROVE  Within(Confirm(t, e), t) /\ \A n : Ahead(t, n) => Ahead(Confirm(t, e), n)
<1> DEFINE i == gamin_data_get_req_idx(t, e.seq)
<1>1. CASE Wanted(t, e) /\ t[i].state = "INIT"
  <2>1. i \in 1 .. Len(t) /\ "CONFIRMED" \in ReqStates
    BY <1>1 DEF Wanted, ReqStates
  <2>2. Confirm(t, e) = [t EXCEPT ![i].state = "CONFIRMED"]
    BY <1>1 DEF Confirm
  <2> HIDE DEF i
  <2>3. /\ Within([t EXCEPT ![i].state = "CONFIRMED"], t)
        /\ \A n : Ahead(t, n) => Ahead([t EXCEPT ![i].state = "CONFIRMED"], n)
    BY <2>1, CancelKeeps, Zenon
  <2> QED
    BY <2>2, <2>3, Zenon
<1>2. CASE ~(Wanted(t, e) /\ t[i].state = "INIT")
  BY <1>2 DEF Confirm, Within
<1> QED
  BY <1>1, <1>2

LEMMA DelKeeps ==
  ASSUME NEW t \in Seq(Entries), NEW r
  PROVE  /\ Within(gamin_data_del_req(t, r), t)
         /\ \A n : Ahead(t, n) => Ahead(gamin_data_del_req(t, r), n)
<1> DEFINE i == gamin_data_get_req_idx(t, r)
           u == RemoveAt(t, i)
<1>1. CASE i \in 1 .. Len(t)
  <2>0. gamin_data_del_req(t, r) = u
    BY <1>1 DEF gamin_data_del_req
  <2> HIDE DEF i
  <2>1. /\ u \in Seq(Entries) /\ Len(u) = Len(t) - 1
        /\ \A j \in 1 .. Len(t) - 1 : u[j] = IF j < i THEN t[j] ELSE t[j + 1]
    BY <1>1, RemoveAtType
  <2>2. ToSet(u) \subseteq ToSet(t)
    BY <1>1, ToSetRemoveAt
  <2> HIDE DEF u
  <2>3. Within(u, t)
    BY <2>2 DEF Within
  <2>4. ASSUME NEW n, Ahead(t, n)
        PROVE  Ahead(u, n)
    <3>1. ASSUME NEW j \in 1 .. Len(u), NEW k \in 1 .. Len(u), j < k
          PROVE  u[j].reqno < u[k].reqno
      <4> DEFINE jj == IF j < i THEN j ELSE j + 1
                 kk == IF k < i THEN k ELSE k + 1
      <4>1. jj \in 1 .. Len(t) /\ kk \in 1 .. Len(t) /\ jj < kk
        BY <1>1, <2>1, <3>1
      <4>2. u[j] = t[jj] /\ u[k] = t[kk]
        BY <1>1, <2>1, <3>1
      <4> QED
        BY <2>4, <4>1, <4>2 DEF Ahead, Increasing
    <3>2. ASSUME NEW j \in 1 .. Len(u)
          PROVE  u[j].reqno < n
      BY <1>1, <2>1, <2>4 DEF Ahead
    <3> QED
      BY <3>1, <3>2 DEF Ahead, Increasing
  <2> QED
    BY <2>0, <2>3, <2>4
<1>2. CASE i \notin 1 .. Len(t)
  BY <1>2 DEF gamin_data_del_req, Within
<1> QED
  BY <1>1, <1>2

LEMMA AddKeeps ==
  ASSUME NEW t \in Seq(Entries), NEW r \in Nat, NEW p \in Paths,
         NEW type \in ReqTypes, Ahead(t, r)
  PROVE  Ahead(gamin_data_add_req(t, r, p, type), r + 1)
<1> DEFINE e == NewEntry(r, p, type)
           u == Append(t, e)
<1>1. e.reqno = r
  BY DEF NewEntry
<1>2. \A j \in 1 .. Len(t) : t[j].reqno \in Nat
  <2>1. \A j \in 1 .. Len(t) : t[j] \in Entries
    OBVIOUS
  <2> QED
    BY <2>1 DEF Entries
<1> HIDE DEF e
<1>3. /\ Len(u) = Len(t) + 1 /\ u[Len(t) + 1] = e
      /\ \A j \in 1 .. Len(t) : u[j] = t[j]
  OBVIOUS
<1>4. gamin_data_add_req(t, r, p, type) = u
  BY DEF gamin_data_add_req, e
<1> HIDE DEF u
<1>5. Len(t) \in Nat
  OBVIOUS
<1>6. ASSUME NEW j \in 1 .. Len(u), NEW k \in 1 .. Len(u), j < k
      PROVE  u[j].reqno < u[k].reqno
  <2>1. CASE k = Len(t) + 1
    BY <1>1, <1>3, <1>5, <1>6, <2>1 DEF Ahead
  <2>2. CASE k # Len(t) + 1
    BY <1>3, <1>5, <1>6, <2>2 DEF Ahead, Increasing
  <2> QED
    BY <2>1, <2>2
<1>7. ASSUME NEW j \in 1 .. Len(u)
      PROVE  u[j].reqno < r + 1
  <2>1. CASE j = Len(t) + 1
    BY <1>1, <1>3, <2>1
  <2>2. CASE j # Len(t) + 1
    BY <1>2, <1>3, <1>5, <2>2 DEF Ahead
  <2> QED
    BY <2>1, <2>2
<1> QED
  BY <1>4, <1>6, <1>7 DEF Ahead, Increasing

-----------------------------------------------------------------------------
(* Loops.  A recursive function that only calls itself at next[w], until w *)
(* is in stop, where it is val[w]: it exists when a size decreases, and    *)
(* what the windows of a run have in common the last one has too.          *)

Loop(f, D, stop, val, next) ==
  f = [w \in D |-> IF w \in stop THEN val[w] ELSE f[next[w]]]

Shrinks(D, stop, next, size, N) ==
  /\ N \in Nat /\ next \in [D -> D] /\ size \in [D -> 0 .. N]
  /\ \A w \in D \ stop : size[next[w]] < size[w]

LEMMA LeastIsIn ==
  ASSUME NEW I \in SUBSET Nat, I # {}
  PROVE  \E x \in I : \A y \in I : x <= y
<1>1. PICK x \in I : \A y \in I : ~(<<y, x>> \in OpToRel(<, Nat))
  BY NatLessThanWellFounded, WFMin
<1>2. \A y \in I : ~(y < x)
  BY <1>1, Zenon DEF OpToRel
<1> QED
  BY <1>2

LEMMA LoopExists ==
  ASSUME NEW D, NEW stop, NEW val, NEW next, NEW size, NEW N,
         Shrinks(D, stop, next, size, N)
  PROVE  \E f : Loop(f, D, stop, val, next)
<1> DEFINE Upto(f, n) ==
             \A w \in D : size[w] <= n =>
               f[w] = IF w \in stop THEN val[w] ELSE f[next[w]]
           Bad == {n \in Nat : ~ \E f : Upto(f, n)}
<1>0. /\ N \in Nat /\ \A w \in D : next[w] \in D /\ size[w] \in Nat /\ size[w] <= N
      /\ \A w \in D \ stop : size[next[w]] < size[w]
  BY DEF Shrinks
<1>1. Bad = {}
  <2> SUFFICES ASSUME Bad # {} PROVE FALSE
    OBVIOUS
  <2>1. Bad \in SUBSET Nat
    OBVIOUS
  <2>2. PICK m \in Bad : \A y \in Bad : m <= y
    BY <2>1, LeastIsIn
  <2>3. m \in Nat /\ ~ \E f : Upto(f, m)
    BY <2>2
  <2>4. CASE m = 0
    <3> DEFINE g == [w \in D |-> val[w]]
    <3>1. Upto(g, m)
      <4>1. ASSUME NEW w \in D, size[w] <= m
            PROVE  w \in stop
        BY <1>0, <2>4, <4>1
      <4> QED
        BY <4>1
    <3> QED
      BY <2>3, <3>1
  <2>5. CASE m # 0
    <3>1. m - 1 \in Nat /\ m - 1 \notin Bad
      BY <2>2, <2>3, <2>5
    <3>2. PICK f : Upto(f, m - 1)
      BY <3>1
    <3> DEFINE g == [w \in D |-> IF size[w] <= m - 1 THEN f[w]
                                 ELSE IF w \in stop THEN val[w] ELSE f[next[w]]]
    <3>3. ASSUME NEW w \in D, size[w] <= m
          PROVE  g[w] = IF w \in stop THEN val[w] ELSE g[next[w]]
      <4>1. CASE w \in stop
        BY <3>2, <4>1
      <4>2. CASE w \notin stop
        <5>1. next[w] \in D /\ size[next[w]] <= m - 1
          BY <1>0, <2>3, <3>3, <4>2
        <5>2. g[next[w]] = f[next[w]]
          BY <5>1
        <5>3. g[w] = f[next[w]]
          BY <3>2, <4>2
        <5> QED
          BY <4>2, <5>2, <5>3
      <4> QED
        BY <4>1, <4>2
    <3>4. Upto(g, m)
      BY <3>3
    <3> QED
      BY <2>3, <3>4
  <2> QED
    BY <2>4, <2>5
<1>2. PICK f : Upto(f, N)
  BY <1>0, <1>1
<1> DEFINE g == [w \in D |-> f[w]]
<1>3. \A w \in D : g[w] = IF w \in stop THEN val[w] ELSE g[next[w]]
  BY <1>0, <1>2
<1>4. g = [w \in D |-> IF w \in stop THEN val[w] ELSE g[next[w]]]
  BY <1>3
<1> QED
  BY <1>4 DEF Loop

LEMMA LoopEnds ==
  ASSUME NEW D, NEW stop, NEW val, NEW next, NEW size, NEW N,
         Shrinks(D, stop, next, size, N), NEW f, Loop(f, D, stop, val, next),
         NEW Inv \in SUBSET D, \A w \in Inv \ stop : next[w] \in Inv, NEW x \in Inv
  PROVE  \E z \in Inv \cap stop : f[x] = val[z]
<1> DEFINE Fine(w) == \E z \in Inv \cap stop : f[w] = val[z]
           Bad == {n \in Nat : \E w \in Inv : size[w] = n /\ ~Fine(w)}
<1>0. /\ \A w \in D : next[w] \in D /\ size[w] \in Nat
      /\ \A w \in D \ stop : size[next[w]] < size[w]
  BY DEF Shrinks
<1>1. \A w \in D : f[w] = IF w \in stop THEN val[w] ELSE f[next[w]]
  BY DEF Loop
<1>2. Bad = {}
  <2> SUFFICES ASSUME Bad # {} PROVE FALSE
    OBVIOUS
  <2>1. Bad \in SUBSET Nat
    OBVIOUS
  <2>2. PICK m \in Bad : \A y \in Bad : m <= y
    BY <2>1, LeastIsIn
  <2>3. PICK w \in Inv : size[w] = m /\ ~Fine(w)
    BY <2>2
  <2>4. w \notin stop
    BY <1>1, <2>3
  <2>5. next[w] \in Inv /\ size[next[w]] < size[w] /\ f[w] = f[next[w]]
    BY <1>0, <1>1, <2>4
  <2>6. ~Fine(next[w])
    BY <2>3, <2>5
  <2>7. size[next[w]] \in Nat /\ size[next[w]] \in Bad
    BY <1>0, <2>5, <2>6
  <2>8. m <= size[next[w]] /\ m \in Nat
    BY <2>2, <2>7
  <2> QED
    BY <2>3, <2>5, <2>7, <2>8
<1>3. Fine(x)
  <2>1. size[x] \in Nat
    BY <1>0
  <2> QED
    BY <1>2, <2>1
<1> QED
  BY <1>3

-----------------------------------------------------------------------------
(* The binary searches.  A window is <<min, max>>. *)

Mid(w) == (w[2] + w[1]) \div 2

(* Where both searches go on when the middle entry is not r. *)
Narrowed(t, r, w) ==
  IF t[Mid(w)].reqno < r THEN <<Mid(w) + 1, w[2]>> ELSE <<w[1], Mid(w) - 1>>

(* What is left of and right of the window is smaller and larger than r.   *)
Around(t, r, w) ==
  /\ w[1] <= w[2] + 1
  /\ \A j \in 1 .. Len(t) : (j < w[1] => t[j].reqno < r) /\ (j > w[2] => r < t[j].reqno)

(* The window w narrows to <<x, y>>, and keeps what is around it. *)
Narrows(t, r, w, x, y) ==
  /\ Narrowed(t, r, w) = <<x, y>>
  /\ w[1] <= x /\ y <= w[2] /\ (w[1] < x \/ y < w[2]) /\ (w[1] < w[2] => x <= Len(t))
  /\ (Increasing(t) /\ Around(t, r, w) /\ t[Mid(w)].reqno # r)
       => Around(t, r, <<x, y>>)

LEMMA NarrowedFacts ==
  ASSUME NEW t \in Seq(Entries), NEW r \in Nat, NEW w, w[1] \in 1 .. Len(t),
         w[2] \in 0 .. Len(t), w[1] <= w[2]
  PROVE  /\ Mid(w) \in 1 .. Len(t)
         /\ w[1] <= Mid(w) /\ Mid(w) <= w[2]
         /\ \E x \in 1 .. Len(t) + 1, y \in 0 .. Len(t) : Narrows(t, r, w, x, y)
<1> DEFINE P(x, y) == Narrows(t, r, w, x, y)
<1>0. PICK a, b : a = w[1] /\ b = w[2]
  OBVIOUS
<1>1. /\ w[1] = a /\ w[2] = b
      /\ a \in 1 .. Len(t) /\ b \in 0 .. Len(t) /\ a <= b
  BY <1>0
<1>2. PICK m : m = (b + a) \div 2
  OBVIOUS
<1>3. m \in a .. b /\ m \in 1 .. Len(t) /\ Mid(w) = m /\ (a < b => m < b)
  BY <1>1, <1>2 DEF Mid
<1>4. \A j \in 1 .. Len(t) : t[j].reqno \in Nat
  <2>1. \A j \in 1 .. Len(t) : t[j] \in Entries
    OBVIOUS
  <2> QED
    BY <2>1 DEF Entries
<1>5. ASSUME t[m].reqno < r
      PROVE  \E x \in 1 .. Len(t) + 1, y \in 0 .. Len(t) : P(x, y)
  <2>1. Narrowed(t, r, w) = <<m + 1, b>>
    BY <1>1, <1>3, <1>5 DEF Narrowed
  <2>2. m + 1 \in 1 .. Len(t) + 1 /\ a < m + 1 /\ (a < b => m + 1 <= Len(t))
    BY <1>1, <1>3
  <2>3. ASSUME Increasing(t), Around(t, r, w)
        PROVE  Around(t, r, <<m + 1, b>>)
    <3>1. \A j \in 1 .. Len(t) : j < m + 1 => t[j].reqno < r
      <4>1. ASSUME NEW j \in 1 .. Len(t), j < m + 1
            PROVE  t[j].reqno < r
        <5>1. CASE j = m
          BY <1>5, <5>1
        <5>2. CASE j < m
          <6>1. t[j].reqno < t[m].reqno
            BY <1>3, <2>3, <5>2 DEF Increasing
          <6> QED
            BY <1>3, <1>4, <1>5, <6>1
        <5> QED
          BY <1>3, <4>1, <5>1, <5>2
      <4> QED
        BY <4>1
    <3>2. \A j \in 1 .. Len(t) : j > b => r < t[j].reqno
      BY <1>1, <2>3 DEF Around
    <3> QED
      BY <1>1, <1>3, <3>1, <3>2 DEF Around
  <2>4. P(m + 1, b)
    BY <1>1, <1>3, <2>1, <2>2, <2>3 DEF Narrows
  <2>5. m + 1 \in 1 .. Len(t) + 1 /\ b \in 0 .. Len(t)
    BY <1>1, <2>2
  <2> HIDE DEF P
  <2>6. \E x \in 1 .. Len(t) + 1, y \in 0 .. Len(t) : P(x, y)
    BY <2>4, <2>5, Zenon
  <2> QED
    BY <2>6
<1>6. ASSUME ~(t[m].reqno < r)
      PROVE  \E x \in 1 .. Len(t) + 1, y \in 0 .. Len(t) : P(x, y)
  <2>1. Narrowed(t, r, w) = <<a, m - 1>>
    BY <1>1, <1>3, <1>6 DEF Narrowed
  <2>2. m - 1 \in 0 .. Len(t) /\ m - 1 < b
    BY <1>1, <1>3
  <2>3. ASSUME Increasing(t), Around(t, r, w), t[m].reqno # r
        PROVE  Around(t, r, <<a, m - 1>>)
    <3>1. \A j \in 1 .. Len(t) : j > m - 1 => r < t[j].reqno
      <4>1. ASSUME NEW j \in 1 .. Len(t), j > m - 1
            PROVE  r < t[j].reqno
        <5>1. r < t[m].reqno
          BY <1>3, <1>4, <1>6, <2>3
        <5>2. CASE j = m
          BY <5>1, <5>2
        <5>3. CASE m < j
          <6>1. t[m].reqno < t[j].reqno
            BY <1>3, <2>3, <5>3 DEF Increasing
          <6> QED
            BY <1>3, <1>4, <5>1, <6>1
        <5> QED
          BY <1>3, <4>1, <5>2, <5>3
      <4> QED
        BY <4>1
    <3>2. \A j \in 1 .. Len(t) : j < a => t[j].reqno < r
      BY <1>1, <2>3 DEF Around
    <3> QED
      BY <1>1, <1>3, <3>1, <3>2 DEF Around
  <2>4. P(a, m - 1)
    BY <1>1, <1>3, <2>1, <2>2, <2>3 DEF Narrows
  <2>5. a \in 1 .. Len(t) + 1 /\ m - 1 \in 0 .. Len(t)
    BY <1>1, <2>2
  <2> HIDE DEF P
  <2>6. \E x \in 1 .. Len(t) + 1, y \in 0 .. Len(t) : P(x, y)
    BY <2>4, <2>5, Zenon
  <2> QED
    BY <2>6
<1>7. \E x \in 1 .. Len(t) + 1, y \in 0 .. Len(t) : P(x, y)
  BY <1>5, <1>6, Zenon
<1> QED
  BY <1>1, <1>3, <1>7

(* gamin_data_get_req_loc as a loop. *)
LocWindows(t) == (1 .. Len(t)) \X (0 .. Len(t))
LocStop(t, r) == {w \in LocWindows(t) : w[2] <= w[1] \/ t[Mid(w)].reqno = r}
LocVal(t, r) ==
  [w \in LocWindows(t) |->
     IF w[2] <= w[1] THEN IF r > t[w[1]].reqno THEN w[1] + 1 ELSE w[1] ELSE 0]
LocNext(t, r) ==
  [w \in LocWindows(t) |-> IF w \in LocStop(t, r) THEN w ELSE Narrowed(t, r, w)]
LocBody(t, r, f, w) ==
  IF w[2] <= w[1] THEN IF r > t[w[1]].reqno THEN w[1] + 1 ELSE w[1]
  ELSE IF t[(w[2] + w[1]) \div 2].reqno = r THEN 0
  ELSE IF t[(w[2] + w[1]) \div 2].reqno < r
       THEN f[<<((w[2] + w[1]) \div 2) + 1, w[2]>>]
  ELSE f[<<w[1], ((w[2] + w[1]) \div 2) - 1>>]
LocSize(t) == [w \in LocWindows(t) |-> IF w[1] < w[2] THEN w[2] - w[1] ELSE 0]

LEMMA LocShrinks ==
  ASSUME NEW t \in Seq(Entries), NEW r \in Nat
  PROVE  Shrinks(LocWindows(t), LocStop(t, r), LocNext(t, r), LocSize(t), Len(t))
<1> DEFINE D == LocWindows(t)
<1>1. ASSUME NEW w \in D
      PROVE  LocSize(t)[w] \in 0 .. Len(t)
  BY DEF LocWindows, LocSize
<1>2. ASSUME NEW w \in D \ LocStop(t, r)
      PROVE  /\ Narrowed(t, r, w) \in D
             /\ LocSize(t)[Narrowed(t, r, w)] < LocSize(t)[w]
  <2>1. PICK a \in 1 .. Len(t), b \in 0 .. Len(t) : w = <<a, b>>
    BY <1>2 DEF LocWindows
  <2>2. a < b
    BY <1>2, <2>1 DEF LocStop, LocWindows
  <2>3. PICK x \in 1 .. Len(t) + 1, y \in 0 .. Len(t) :
          Narrows(t, r, w, x, y)
    <3>1. w[1] \in 1 .. Len(t) /\ w[2] \in 0 .. Len(t) /\ w[1] <= w[2]
      BY <2>1, <2>2
    <3> QED
      BY <3>1, NarrowedFacts
  <2>4. <<x, y>> \in D /\ Narrowed(t, r, w) = <<x, y>>
    BY <2>1, <2>2, <2>3 DEF LocWindows, Narrows
  <2>5. LocSize(t)[<<x, y>>] = IF x < y THEN y - x ELSE 0
    BY <2>4 DEF LocSize
  <2>6. LocSize(t)[w] = b - a
    BY <1>2, <2>1, <2>2 DEF LocSize
  <2> QED
    BY <2>1, <2>2, <2>3, <2>4, <2>5, <2>6 DEF Narrows
<1>3. LocNext(t, r) \in [D -> D]
  BY <1>2 DEF LocNext
<1>4. LocSize(t) \in [D -> 0 .. Len(t)]
  BY <1>1 DEF LocSize
<1>5. \A w \in D \ LocStop(t, r) : LocNext(t, r)[w] = Narrowed(t, r, w)
  BY DEF LocNext
<1> QED
  BY <1>2, <1>3, <1>4, <1>5 DEF Shrinks

LEMMA LocLoop ==
  ASSUME NEW t \in Seq(Entries), NEW r \in Nat, t # <<>>
  PROVE  \E f : /\ Loop(f, LocWindows(t), LocStop(t, r), LocVal(t, r), LocNext(t, r))
                /\ gamin_data_get_req_loc(t, r) = f[<<1, Len(t)>>]
<1> DEFINE D == LocWindows(t)
           L(f) == Loop(f, D, LocStop(t, r), LocVal(t, r), LocNext(t, r))
           B(f) == f = [w \in D |-> LocBody(t, r, f, w)]
<1>1. ASSUME NEW f, NEW w \in D
      PROVE  (IF w \in LocStop(t, r) THEN LocVal(t, r)[w] ELSE f[LocNext(t, r)[w]])
               = LocBody(t, r, f, w)
  <2>1. CASE w \in LocStop(t, r)
    BY <2>1 DEF LocStop, LocVal, LocBody, Mid
  <2>2. CASE w \notin LocStop(t, r)
    <3>1. LocNext(t, r)[w] = Narrowed(t, r, w)
      BY <2>2 DEF LocNext
    <3>2. ~(w[2] <= w[1]) /\ t[Mid(w)].reqno # r
      BY <2>2 DEF LocStop
    <3> QED
      BY <2>2, <3>1, <3>2 DEF Narrowed, LocBody, Mid
  <2> QED
    BY <2>1, <2>2
<1>2. \A f : L(f) <=> B(f)
  <2> TAKE f
  <2>1. [w \in D |-> IF w \in LocStop(t, r) THEN LocVal(t, r)[w]
                     ELSE f[LocNext(t, r)[w]]]
          = [w \in D |-> LocBody(t, r, f, w)]
    BY <1>1, Zenon
  <2> QED
    BY <2>1, Zenon DEF Loop
<1>3. gamin_data_get_req_loc(t, r) = (CHOOSE f : B(f))[<<1, Len(t)>>]
  BY Zenon DEF gamin_data_get_req_loc, LocBody, LocWindows
<1>4. \E f : L(f)
  BY LocShrinks, LoopExists
<1> HIDE DEF L, B
<1>5. B(CHOOSE f : B(f))
  BY <1>2, <1>4, Zenon
<1>6. L(CHOOSE f : B(f))
  BY <1>2, <1>5, Zenon
<1> QED
  BY <1>3, <1>6, Zenon DEF L

(* Where gamin_data_get_req_loc puts r: everything before the place is     *)
(* smaller, nothing from it on is; 0 only when r is in the table.          *)
Place(t, r, i) ==
  \/ i = 0 /\ \E j \in 1 .. Len(t) : t[j].reqno = r
  \/ /\ i \in 1 .. Len(t) + 1
     /\ \A j \in 1 .. Len(t) : /\ j < i => t[j].reqno < r
                               /\ j > i => r < t[j].reqno
                               /\ j = i => r <= t[j].reqno

LEMMA LocPlace ==
  ASSUME NEW t \in Seq(Entries), NEW r \in Nat, Increasing(t)
  PROVE  Place(t, r, gamin_data_get_req_loc(t, r))
<1>1. CASE t = <<>>
  BY <1>1 DEF gamin_data_get_req_loc, Place
<1>2. CASE t # <<>>
  <2> DEFINE D   == LocWindows(t)
             Inv == {w \in D : Around(t, r, w)}
  <2>0. /\ Len(t) \in Nat /\ 1 <= Len(t)
        /\ \A j \in 1 .. Len(t) : t[j].reqno \in Nat
    <3>1. \A j \in 1 .. Len(t) : t[j] \in Entries
      OBVIOUS
    <3> QED
      BY <1>2, <3>1 DEF Entries
  <2>1. PICK f : /\ Loop(f, D, LocStop(t, r), LocVal(t, r), LocNext(t, r))
                 /\ gamin_data_get_req_loc(t, r) = f[<<1, Len(t)>>]
    BY <1>2, LocLoop
  <2>2. <<1, Len(t)>> \in Inv
    BY <2>0 DEF LocWindows, Around
  <2>3. ASSUME NEW w \in Inv \ LocStop(t, r)
        PROVE  LocNext(t, r)[w] \in Inv
    <3>1. /\ w \in D /\ w[1] \in 1 .. Len(t) /\ w[2] \in 0 .. Len(t)
          /\ w[1] < w[2] /\ t[Mid(w)].reqno # r /\ Around(t, r, w)
      BY <2>3 DEF LocWindows, LocStop
    <3>2. w[1] <= w[2]
      BY <3>1
    <3>3. PICK x \in 1 .. Len(t) + 1, y \in 0 .. Len(t) : Narrows(t, r, w, x, y)
      BY <3>1, <3>2, NarrowedFacts
    <3>4. <<x, y>> \in Inv
      BY <3>1, <3>3 DEF Narrows, LocWindows
    <3>5. LocNext(t, r)[w] = Narrowed(t, r, w)
      BY <2>3, <3>1 DEF LocNext
    <3> QED
      BY <3>3, <3>4, <3>5 DEF Narrows
  <2>4. PICK z \in Inv \cap LocStop(t, r) : f[<<1, Len(t)>>] = LocVal(t, r)[z]
    <3>1. Shrinks(D, LocStop(t, r), LocNext(t, r), LocSize(t), Len(t))
      BY LocShrinks
    <3>2. Inv \in SUBSET D
      OBVIOUS
    <3> HIDE DEF Inv, D
    <3> QED
      BY <2>1, <2>2, <2>3, <3>1, <3>2, LoopEnds
  <2>5. /\ z[1] \in 1 .. Len(t) /\ z[2] \in 0 .. Len(t) /\ Around(t, r, z)
        /\ LocVal(t, r)[z] = IF z[2] <= z[1]
                             THEN IF r > t[z[1]].reqno THEN z[1] + 1 ELSE z[1] ELSE 0
        /\ z[2] <= z[1] \/ t[Mid(z)].reqno = r
    BY DEF LocWindows, LocStop, LocVal
  <2>6. PICK i : i = gamin_data_get_req_loc(t, r)
    OBVIOUS
  <2>7. i = LocVal(t, r)[z]
    BY <2>1, <2>4, <2>6
  <2>8. CASE z[2] <= z[1]
    <3>1. PICK a, b : a = z[1] /\ b = z[2]
      OBVIOUS
    <3>2. /\ a \in 1 .. Len(t) /\ b \in 0 .. Len(t) /\ b <= a
          /\ i = IF r > t[a].reqno THEN a + 1 ELSE a
          /\ \A j \in 1 .. Len(t) : (j < a => t[j].reqno < r) /\ (j > b => r < t[j].reqno)
      BY <2>5, <2>7, <2>8, <3>1 DEF Around
    <3>3. i \in 1 .. Len(t) + 1
      BY <3>2
    <3>4. ASSUME NEW j \in 1 .. Len(t)
          PROVE  /\ j < i => t[j].reqno < r
                 /\ j > i => r < t[j].reqno
                 /\ j = i => r <= t[j].reqno
      <4>1. CASE r > t[a].reqno
        BY <2>0, <3>2, <4>1
      <4>2. CASE ~(r > t[a].reqno)
        BY <2>0, <3>2, <4>2
      <4> QED
        BY <4>1, <4>2
    <3> QED
      BY <2>6, <3>3, <3>4 DEF Place
  <2>9. CASE ~(z[2] <= z[1])
    <3>1. z[1] <= z[2]
      BY <2>5, <2>9
    <3>2. Mid(z) \in 1 .. Len(t)
      BY <2>5, <3>1, NarrowedFacts
    <3> QED
      BY <2>5, <2>6, <2>7, <2>9, <3>2 DEF Place
  <2> QED
    BY <2>8, <2>9
<1> QED
  BY <1>1, <1>2

(* gamin_data_add_req2 keeps a sorted table sorted, and leaves it alone    *)
(* only when the number is in use.                                         *)
LEMMA Add2Keeps ==
  ASSUME NEW t \in Seq(Entries), NEW r \in Nat, NEW p \in Paths,
         NEW type \in ReqTypes, Increasing(t)
  PROVE  /\ Increasing(gamin_data_add_req2(t, r, p, type))
         /\ gamin_data_add_req2(t, r, p, type) = t
              => \E j \in 1 .. Len(t) : t[j].reqno = r
<1>1. PICK i : i = gamin_data_get_req_loc(t, r)
  OBVIOUS
<1>2. Place(t, r, i)
  BY <1>1, LocPlace
<1>3. PICK e : e = NewEntry(r, p, type)
  OBVIOUS
<1>4. e \in Entries /\ e.reqno = r
  BY <1>3 DEF NewEntry, Entries, ReqStates
<1>5. \A j \in 1 .. Len(t) : t[j].reqno \in Nat
  <2>1. \A j \in 1 .. Len(t) : t[j] \in Entries
    OBVIOUS
  <2> QED
    BY <2>1 DEF Entries
<1>6. CASE i \notin 1 .. Len(t) + 1 \/ (i <= Len(t) /\ t[i].reqno = r)
  <2>1. gamin_data_add_req2(t, r, p, type) = t
    BY <1>1, <1>6 DEF gamin_data_add_req2
  <2>2. \E j \in 1 .. Len(t) : t[j].reqno = r
    BY <1>2, <1>6 DEF Place
  <2> QED
    BY <2>1, <2>2
<1>7. CASE ~(i \notin 1 .. Len(t) + 1 \/ (i <= Len(t) /\ t[i].reqno = r))
  <2>1. /\ i \in 1 .. Len(t) + 1
        /\ \A j \in 1 .. Len(t) : (j < i => t[j].reqno < r) /\ (j >= i => r < t[j].reqno)
    BY <1>2, <1>5, <1>7 DEF Place
  <2>2. ~(i <= Len(t) /\ t[i].reqno < r)
    BY <1>5, <2>1
  <2>3. gamin_data_add_req2(t, r, p, type) = InsertAt(t, i, e)
    BY <1>1, <1>3, <1>7, <2>2 DEF gamin_data_add_req2
  <2>4. PICK u : u = InsertAt(t, i, e)
    OBVIOUS
  <2>5. /\ u \in Seq(Entries) /\ Len(u) = Len(t) + 1
        /\ \A j \in 1 .. Len(t) + 1 :
             u[j] = IF j < i THEN t[j] ELSE IF j = i THEN e ELSE t[j - 1]
    <3>1. /\ u \in Seq(Entries) /\ Len(u) = Len(t) + 1 /\ u[i] = e
          /\ \A j \in 1 .. Len(t) : t[j] = IF j < i THEN u[j] ELSE u[j + 1]
      BY <1>4, <2>1, <2>4, InsertAtType
    <3>2. ASSUME NEW j \in 1 .. Len(t) + 1, j > i
          PROVE  u[j] = t[j - 1]
      <4>1. j - 1 \in 1 .. Len(t) /\ ~(j - 1 < i) /\ (j - 1) + 1 = j
        BY <2>1, <3>2
      <4> QED
        BY <3>1, <4>1
    <3> QED
      BY <2>1, <3>1, <3>2
  <2>6. ASSUME NEW j \in 1 .. Len(u), NEW k \in 1 .. Len(u), j < k
        PROVE  u[j].reqno < u[k].reqno
    <3>0. /\ j \in 1 .. Len(t) + 1 /\ k \in 1 .. Len(t) + 1 /\ Len(t) \in Nat
      BY <2>5
    <3>1. CASE k < i
      <4>1. k \in 1 .. Len(t) /\ j \in 1 .. Len(t) /\ j < i
        BY <2>1, <2>6, <3>0, <3>1
      <4>2. u[j] = t[j] /\ u[k] = t[k]
        BY <2>5, <3>0, <3>1, <4>1
      <4> QED
        BY <2>6, <4>1, <4>2 DEF Increasing
    <3>2. CASE k = i
      BY <1>4, <2>1, <2>5, <2>6, <3>0, <3>2
    <3>3. CASE k > i /\ j < i
      <4>1. k - 1 \in 1 .. Len(t) /\ j \in 1 .. Len(t) /\ k - 1 >= i
        BY <2>1, <2>6, <3>0, <3>3
      <4>2. t[j].reqno < r /\ r < t[k - 1].reqno
        BY <2>1, <3>3, <4>1
      <4>3. u[j] = t[j] /\ u[k] = t[k - 1]
        BY <2>1, <2>5, <3>0, <3>3
      <4> QED
        BY <1>5, <4>1, <4>2, <4>3
    <3>4. CASE k > i /\ j = i
      <4>1. k - 1 \in 1 .. Len(t) /\ k - 1 >= i
        BY <2>1, <2>6, <3>0, <3>4
      <4> QED
        BY <1>4, <2>1, <2>5, <3>0, <3>4, <4>1
    <3>5. CASE k > i /\ j > i
      <4>1. k - 1 \in 1 .. Len(t) /\ j - 1 \in 1 .. Len(t) /\ j - 1 < k - 1
        BY <2>1, <2>6, <3>0, <3>5
      <4>2. u[j] = t[j - 1] /\ u[k] = t[k - 1]
        BY <2>1, <2>5, <3>0, <3>5
      <4> QED
        BY <4>1, <4>2 DEF Increasing
    <3> QED
      BY <2>1, <3>0, <3>1, <3>2, <3>3, <3>4, <3>5
  <2>7. Increasing(u)
    BY <2>6 DEF Increasing
  <2>8. u # t
    BY <2>5
  <2> QED
    BY <2>3, <2>4, <2>7, <2>8
<1> QED
  BY <1>6, <1>7

(* Searched as a loop. *)
IdxWindows(t) == (1 .. Len(t) + 1) \X (0 .. Len(t))
IdxStop(t, r) == {w \in IdxWindows(t) : w[2] < w[1] \/ t[Mid(w)].reqno = r}
IdxVal(t) == [w \in IdxWindows(t) |-> IF w[2] < w[1] THEN 0 ELSE Mid(w)]
IdxNext(t, r) ==
  [w \in IdxWindows(t) |-> IF w \in IdxStop(t, r) THEN w ELSE Narrowed(t, r, w)]
IdxBody(t, r, f, w) ==
  IF w[2] < w[1] THEN 0
  ELSE IF t[(w[2] + w[1]) \div 2].reqno = r THEN (w[2] + w[1]) \div 2
  ELSE IF t[(w[2] + w[1]) \div 2].reqno < r
       THEN f[<<((w[2] + w[1]) \div 2) + 1, w[2]>>]
  ELSE f[<<w[1], ((w[2] + w[1]) \div 2) - 1>>]
IdxSize(t) == [w \in IdxWindows(t) |-> IF w[1] <= w[2] THEN w[2] - w[1] + 1 ELSE 0]

LEMMA IdxNarrows ==
  ASSUME NEW t \in Seq(Entries), NEW r \in Nat, NEW w \in IdxWindows(t) \ IdxStop(t, r)
  PROVE  /\ w[1] \in 1 .. Len(t) /\ w[2] \in 0 .. Len(t) /\ w[1] <= w[2]
         /\ t[Mid(w)].reqno # r /\ IdxNext(t, r)[w] = Narrowed(t, r, w)
         /\ \E x \in 1 .. Len(t) + 1, y \in 0 .. Len(t) : Narrows(t, r, w, x, y)
<1>1. /\ w[1] \in 1 .. Len(t) /\ w[2] \in 0 .. Len(t) /\ w[1] <= w[2]
      /\ t[Mid(w)].reqno # r
  BY DEF IdxWindows, IdxStop
<1>2. IdxNext(t, r)[w] = Narrowed(t, r, w)
  BY DEF IdxNext
<1>3. \E x \in 1 .. Len(t) + 1, y \in 0 .. Len(t) : Narrows(t, r, w, x, y)
  BY <1>1, NarrowedFacts
<1> QED
  BY <1>1, <1>2, <1>3

LEMMA IdxShrinks ==
  ASSUME NEW t \in Seq(Entries), NEW r \in Nat
  PROVE  Shrinks(IdxWindows(t), IdxStop(t, r), IdxNext(t, r), IdxSize(t), Len(t))
<1> DEFINE D == IdxWindows(t)
<1>1. ASSUME NEW w \in D
      PROVE  IdxSize(t)[w] \in 0 .. Len(t)
  BY DEF IdxWindows, IdxSize
<1>2. ASSUME NEW w \in D \ IdxStop(t, r)
      PROVE  /\ Narrowed(t, r, w) \in D
             /\ IdxSize(t)[Narrowed(t, r, w)] < IdxSize(t)[w]
  <2>1. w[1] \in 1 .. Len(t) /\ w[2] \in 0 .. Len(t) /\ w[1] <= w[2]
    BY <1>2, IdxNarrows
  <2>2. PICK x \in 1 .. Len(t) + 1, y \in 0 .. Len(t) : Narrows(t, r, w, x, y)
    BY <1>2, IdxNarrows
  <2>3. <<x, y>> \in D /\ Narrowed(t, r, w) = <<x, y>>
    BY <2>2 DEF IdxWindows, Narrows
  <2>4. IdxSize(t)[<<x, y>>] = IF x <= y THEN y - x + 1 ELSE 0
    BY <2>3 DEF IdxSize
  <2>5. IdxSize(t)[w] = w[2] - w[1] + 1
    BY <1>2, <2>1 DEF IdxSize
  <2> QED
    BY <2>1, <2>2, <2>3, <2>4, <2>5 DEF Narrows
<1>3. IdxNext(t, r) \in [D -> D]
  BY <1>2 DEF IdxNext
<1>4. IdxSize(t) \in [D -> 0 .. Len(t)]
  BY <1>1 DEF IdxSize
<1>5. \A w \in D \ IdxStop(t, r) : IdxNext(t, r)[w] = Narrowed(t, r, w)
  BY DEF IdxNext
<1> QED
  BY <1>2, <1>3, <1>4, <1>5 DEF Shrinks

LEMMA IdxLoop ==
  ASSUME NEW t \in Seq(Entries), NEW r \in Nat
  PROVE  \E f : /\ Loop(f, IdxWindows(t), IdxStop(t, r), IdxVal(t), IdxNext(t, r))
                /\ Searched(t, r) = f[<<1, Len(t)>>]
<1> DEFINE D == IdxWindows(t)
           L(f) == Loop(f, D, IdxStop(t, r), IdxVal(t), IdxNext(t, r))
           B(f) == f = [w \in D |-> IdxBody(t, r, f, w)]
<1>1. ASSUME NEW f, NEW w \in D
      PROVE  (IF w \in IdxStop(t, r) THEN IdxVal(t)[w] ELSE f[IdxNext(t, r)[w]])
               = IdxBody(t, r, f, w)
  <2>1. CASE w \in IdxStop(t, r)
    BY <2>1 DEF IdxStop, IdxVal, IdxBody, Mid
  <2>2. CASE w \notin IdxStop(t, r)
    <3>1. IdxNext(t, r)[w] = Narrowed(t, r, w)
      BY <2>2 DEF IdxNext
    <3>2. ~(w[2] < w[1]) /\ t[Mid(w)].reqno # r
      BY <2>2 DEF IdxStop
    <3> QED
      BY <2>2, <3>1, <3>2 DEF Narrowed, IdxBody, Mid
  <2> QED
    BY <2>1, <2>2
<1>2. \A f : L(f) <=> B(f)
  <2> TAKE f
  <2>1. [w \in D |-> IF w \in IdxStop(t, r) THEN IdxVal(t)[w]
                     ELSE f[IdxNext(t, r)[w]]]
          = [w \in D |-> IdxBody(t, r, f, w)]
    BY <1>1, Zenon
  <2> QED
    BY <2>1, Zenon DEF Loop
<1>3. Searched(t, r) = (CHOOSE f : B(f))[<<1, Len(t)>>]
  BY Zenon DEF Searched, IdxBody, IdxWindows
<1>4. \E f : L(f)
  BY IdxShrinks, LoopExists
<1> HIDE DEF L, B
<1>5. B(CHOOSE f : B(f))
  BY <1>2, <1>4, Zenon
<1>6. L(CHOOSE f : B(f))
  BY <1>2, <1>5, Zenon
<1> QED
  BY <1>3, <1>6, Zenon DEF L

(* The binary search finds every request of a sorted table. *)
LEMMA IdxFinds ==
  ASSUME NEW t \in Seq(Entries), Increasing(t), NEW i \in 1 .. Len(t)
  PROVE  gamin_data_get_req_idx(t, t[i].reqno) = i
<1>1. PICK r : r = t[i].reqno
  OBVIOUS
<1>2. r \in Nat
  <2>1. t[i] \in Entries
    OBVIOUS
  <2> QED
    BY <1>1, <2>1 DEF Entries
<1> DEFINE D   == IdxWindows(t)
           Inv == {w \in D : Around(t, r, w)}
<1>3. PICK f : /\ Loop(f, D, IdxStop(t, r), IdxVal(t), IdxNext(t, r))
               /\ Searched(t, r) = f[<<1, Len(t)>>]
  BY <1>2, IdxLoop
<1>4. <<1, Len(t)>> \in Inv
  BY DEF IdxWindows, Around
<1>5. ASSUME NEW w \in Inv \ IdxStop(t, r)
      PROVE  IdxNext(t, r)[w] \in Inv
  <2>1. w \in D \ IdxStop(t, r) /\ Around(t, r, w)
    BY <1>5
  <2>2. t[Mid(w)].reqno # r /\ IdxNext(t, r)[w] = Narrowed(t, r, w)
    BY <1>2, <2>1, IdxNarrows
  <2>3. PICK x \in 1 .. Len(t) + 1, y \in 0 .. Len(t) : Narrows(t, r, w, x, y)
    BY <1>2, <2>1, IdxNarrows
  <2> QED
    BY <2>1, <2>2, <2>3 DEF Narrows, IdxWindows
<1>6. PICK z \in Inv \cap IdxStop(t, r) : f[<<1, Len(t)>>] = IdxVal(t)[z]
  <2>1. Shrinks(D, IdxStop(t, r), IdxNext(t, r), IdxSize(t), Len(t))
    BY <1>2, IdxShrinks
  <2>2. Inv \in SUBSET D
    OBVIOUS
  <2> HIDE DEF Inv, D
  <2> QED
    BY <1>3, <1>4, <1>5, <2>1, <2>2, LoopEnds
<1>7. /\ z[1] \in 1 .. Len(t) + 1 /\ z[2] \in 0 .. Len(t) /\ Around(t, r, z)
      /\ IdxVal(t)[z] = IF z[2] < z[1] THEN 0 ELSE Mid(z)
      /\ z[2] < z[1] \/ t[Mid(z)].reqno = r
  BY DEF IdxWindows, IdxStop, IdxVal
<1>8. z[1] <= i /\ i <= z[2]
  BY <1>1, <1>2, <1>7 DEF Around
<1>9. z[1] <= z[2] /\ z[1] \in 1 .. Len(t)
  BY <1>7, <1>8
<1>10. Mid(z) \in 1 .. Len(t)
  BY <1>2, <1>7, <1>9, NarrowedFacts
<1>11. t[Mid(z)].reqno = r /\ Searched(t, r) = Mid(z)
  BY <1>3, <1>6, <1>7, <1>9
<1>12. Mid(z) = i
  BY <1>1, <1>2, <1>10, <1>11 DEF Increasing
<1> QED
  BY <1>1, <1>11, <1>12 DEF gamin_data_get_req_idx

-----------------------------------------------------------------------------
(* The sorted table. *)

LEMMA SortedStep ==
  ASSUME TypeOK, SortedUntilReset, NEW c \in Clients, ClientNext(c)
  PROVE  SortedUntilReset'
<1> SUFFICES ASSUME UserNums = {}, NEW d \in Clients, ~wasReset'[d]
             PROVE  Ahead(tab'[d], reqno'[d])
  BY DEF SortedUntilReset, Ahead, Increasing
<1>0. /\ \A x \in Clients : ~wasReset[x] => Ahead(tab[x], reqno[x])
      /\ tab \in [Clients -> Seq(Entries)] /\ reqno \in [Clients -> Nat]
      /\ wasReset \in [Clients -> BOOLEAN]
  BY DEF SortedUntilReset, Ahead, TypeOK, ClientTypeOK
<1>a. UNCHANGED <<reqno, tab, wasReset>> => Ahead(tab'[d], reqno'[d])
  BY <1>0
<1>b. FreshData(c) => Ahead(tab'[d], reqno'[d])
  <2>1. Ahead(<<>>, 1)
    BY DEF Ahead, Increasing
  <2> QED
    BY <1>0, <2>1 DEF FreshData
<1>1. CASE FAMOpen(c) \/ gamin_fork_server(c) \/ GiveUp(c) \/ FAMNoExists(c)
           \/ gamin_check_cred(c) \/ LostServer(c)
  BY <1>a, <1>1 DEF FAMOpen, gamin_fork_server, GiveUp, FAMNoExists,
     gamin_check_cred, LostServer, dataVars
<1>2. ASSUME NEW s \in Socks, gamin_data_new(c, s)
      PROVE  Ahead(tab'[d], reqno'[d])
  BY <1>b, <1>2 DEF gamin_data_new
<1>3. ASSUME NEW s \in Socks, gamin_try_reconnect(c, s)
      PROVE  Ahead(tab'[d], reqno'[d])
  BY <1>0, <1>3 DEF gamin_try_reconnect, gamin_data_reset
<1>4. ASSUME NEW p \in Paths, NEW type \in MonTypes, FAMMonitor(c, p, type)
      PROVE  Ahead(tab'[d], reqno'[d])
  <2>1. type \in ReqTypes
    BY MonTypesAssumption
  <2>2. /\ tab' = [tab EXCEPT ![c] = gamin_data_add_req(@, reqno[c], p, type)]
        /\ reqno' = [reqno EXCEPT ![c] = @ + 1]
        /\ wasReset' = wasReset
    BY <1>4 DEF FAMMonitor
  <2>3. CASE d = c
    <3>1. Ahead(gamin_data_add_req(tab[c], reqno[c], p, type), reqno[c] + 1)
      BY <1>0, <2>1, <2>2, <2>3, AddKeeps
    <3> QED
      BY <1>0, <2>2, <2>3, <3>1
  <2>4. CASE d # c
    BY <1>0, <2>2, <2>4
  <2> QED
    BY <2>3, <2>4
<1>5. ASSUME NEW k \in 1 .. Len(tab[c]), FAMCancelMonitor(c, tab[c][k].reqno)
      PROVE  Ahead(tab'[d], reqno'[d])
  <2> DEFINE i == gamin_data_get_req_idx(tab[c], tab[c][k].reqno)
  <2>1. /\ i \in 1 .. Len(tab[c])
        /\ tab' = [tab EXCEPT ![c] = gamin_data_cancel(tab[c], i)]
        /\ UNCHANGED <<reqno, wasReset>>
    BY <1>5 DEF FAMCancelMonitor
  <2> HIDE DEF i
  <2>2. Ahead(tab[c], reqno[c]) =>
          Ahead([tab[c] EXCEPT ![i].state = "CANCELLED"], reqno[c])
    <3>1. "CANCELLED" \in ReqStates /\ tab[c] \in Seq(Entries)
      BY <1>0 DEF ReqStates
    <3> QED
      BY <2>1, <3>1, CancelKeeps, Zenon
  <2>3. Ahead(tab[c], reqno[c]) => Ahead(gamin_data_cancel(tab[c], i), reqno[c])
    BY <2>2, Zenon DEF gamin_data_cancel
  <2> QED
    BY <1>0, <2>1, <2>3
<1>6. CASE FAMClose(c)
  BY <1>b, <1>6 DEF FAMClose
<1>7. CASE FAMPending(c)
  <2> DEFINE e == Head(down[fd[c]])
  <2>1. tab' = [tab EXCEPT ![c] = Confirm(tab[c], e)] /\ UNCHANGED <<reqno, wasReset>>
    BY <1>7 DEF FAMPending
  <2> HIDE DEF e
  <2>2. Ahead(tab[c], reqno[c]) => Ahead(Confirm(tab[c], e), reqno[c])
    BY <1>0, ConfirmKeeps
  <2> QED
    BY <1>0, <2>1, <2>2
<1>8. CASE FAMNextEvent(c)
  <2>1. /\ tab' = [tab EXCEPT ![c] =
                     IF ready[c].type = "Ack"
                     THEN gamin_data_del_req(tab[c], ready[c].seq) ELSE tab[c]]
        /\ UNCHANGED <<reqno, wasReset>>
    BY <1>8 DEF FAMNextEvent
  <2>2. Ahead(tab[c], reqno[c]) =>
          Ahead(gamin_data_del_req(tab[c], ready[c].seq), reqno[c])
    BY <1>0, DelKeeps
  <2> QED
    BY <1>0, <2>1, <2>2
<1> QED
  BY <1>1, <1>2, <1>3, <1>4, <1>5, <1>6, <1>7, <1>8 DEF ClientNext

(* The request table stays sorted, with no number twice and the counter    *)
(* ahead of it, as long as the connection has not been re-established:     *)
(* whatever is cancelled, acknowledged, confirmed or added, and in any     *)
(* order.                                                                  *)
THEOREM SortedAlways == Spec => []SortedUntilReset
<1>1. Init => SortedUntilReset
  BY DEF Init, ClientInit, SortedUntilReset, Increasing
<1>2. TypeOK /\ SortedUntilReset /\ [Next]_vars => SortedUntilReset'
  <2> SUFFICES ASSUME TypeOK, SortedUntilReset, [Next]_vars
               PROVE  SortedUntilReset'
    OBVIOUS
  <2>1. CASE ClientStep
    BY <2>1, SortedStep DEF ClientStep
  <2>2. CASE ServerStep \/ UNCHANGED vars
    BY <2>2 DEF ServerStep, vars, clientVars, dataVars, SortedUntilReset,
       Increasing
  <2> QED
    BY <2>1, <2>2 DEF Next
<1> QED
  BY <1>1, <1>2, TypeCorrect, PTL DEF Spec

(* A sorted table is ahead of some number, whoever chose the numbers. *)
LEMMA IncreasingAhead ==
  ASSUME NEW t \in Seq(Entries), Increasing(t)
  PROVE  \E n \in Nat : Ahead(t, n)
<1>1. \A j \in 1 .. Len(t) : t[j].reqno \in Nat
  <2>1. \A j \in 1 .. Len(t) : t[j] \in Entries
    OBVIOUS
  <2> QED
    BY <2>1 DEF Entries
<1>2. CASE t = <<>>
  <2>1. Ahead(t, 0)
    BY <1>2 DEF Ahead
  <2> QED
    BY <2>1
<1>3. CASE t # <<>>
  <2>1. Len(t) \in 1 .. Len(t)
    BY <1>3
  <2>2. PICK n : n = t[Len(t)].reqno
    OBVIOUS
  <2>3. n \in Nat
    BY <1>1, <2>1, <2>2
  <2>4. ASSUME NEW j \in 1 .. Len(t)
        PROVE  t[j].reqno < n + 1
    <3>1. CASE j = Len(t)
      BY <2>2, <2>3, <3>1
    <3>2. CASE j < Len(t)
      <4>1. t[j].reqno < n
        BY <2>1, <2>2, <3>2 DEF Increasing
      <4> QED
        BY <1>1, <2>3, <4>1
    <3> QED
      BY <2>1, <3>1, <3>2
  <2>5. Ahead(t, n + 1)
    BY <2>4 DEF Ahead
  <2> QED
    BY <2>3, <2>5
<1> QED
  BY <1>2, <1>3

LEMMA UserNumsStep ==
  ASSUME TypeOK, UserNumsSorted, NEW c \in Clients, ClientNext(c)
  PROVE  UserNumsSorted'
<1> SUFFICES ASSUME ~UseAuto, NEW d \in Clients
             PROVE  Increasing(tab'[d])
  BY DEF UserNumsSorted, Increasing
<1>0. /\ \A x \in Clients : Increasing(tab[x])
      /\ tab \in [Clients -> Seq(Entries)]
  BY DEF UserNumsSorted, TypeOK, ClientTypeOK
<1>a. UNCHANGED tab => Increasing(tab'[d])
  BY <1>0
<1>b. FreshData(c) => Increasing(tab'[d])
  <2>1. Increasing(<<>>)
    BY DEF Increasing
  <2> QED
    BY <1>0, <2>1 DEF FreshData
<1>c. ASSUME NEW t, tab' = [tab EXCEPT ![c] = t], Increasing(t)
      PROVE  Increasing(tab'[d])
  BY <1>0, <1>c
<1>d. PICK n \in Nat : Ahead(tab[c], n)
  BY <1>0, IncreasingAhead
<1>1. CASE FAMOpen(c) \/ gamin_fork_server(c) \/ GiveUp(c) \/ FAMNoExists(c)
           \/ gamin_check_cred(c) \/ LostServer(c)
  BY <1>a, <1>1 DEF FAMOpen, gamin_fork_server, GiveUp, FAMNoExists,
     gamin_check_cred, LostServer, dataVars
<1>2. ASSUME NEW s \in Socks, gamin_data_new(c, s)
      PROVE  Increasing(tab'[d])
  BY <1>b, <1>2 DEF gamin_data_new
<1>3. ASSUME NEW s \in Socks, gamin_try_reconnect(c, s)
      PROVE  Increasing(tab'[d])
  BY <1>a, <1>3 DEF gamin_try_reconnect, gamin_data_reset
<1>4. ASSUME NEW p \in Paths, NEW type \in MonTypes, FAMMonitor(c, p, type)
      PROVE  Increasing(tab'[d])
  BY <1>4 DEF FAMMonitor
<1>5. ASSUME NEW p \in Paths, NEW type \in MonTypes, NEW r \in UserNums,
             FAMMonitor2(c, p, type, r)
      PROVE  Increasing(tab'[d])
  <2>1. type \in ReqTypes /\ r \in Nat
    BY MonTypesAssumption, UserNumsAssumption
  <2>2. tab' = [tab EXCEPT ![c] = gamin_data_add_req2(tab[c], r, p, type)]
    BY <1>5 DEF FAMMonitor2
  <2>3. tab[c] \in Seq(Entries) /\ Increasing(tab[c])
    BY <1>0
  <2>4. Increasing(gamin_data_add_req2(tab[c], r, p, type))
    BY <2>1, <2>3, Add2Keeps
  <2> QED
    BY <1>c, <2>2, <2>4
<1>6. ASSUME NEW k \in 1 .. Len(tab[c]), FAMCancelMonitor(c, tab[c][k].reqno)
      PROVE  Increasing(tab'[d])
  <2> DEFINE i == gamin_data_get_req_idx(tab[c], tab[c][k].reqno)
  <2>1. /\ i \in 1 .. Len(tab[c])
        /\ tab' = [tab EXCEPT ![c] = gamin_data_cancel(tab[c], i)]
    BY <1>6 DEF FAMCancelMonitor
  <2> HIDE DEF i
  <2>2. Ahead([tab[c] EXCEPT ![i].state = "CANCELLED"], n)
    <3>1. "CANCELLED" \in ReqStates /\ tab[c] \in Seq(Entries)
      BY <1>0 DEF ReqStates
    <3> QED
      BY <1>d, <2>1, <3>1, CancelKeeps, Zenon
  <2>3. Increasing(gamin_data_cancel(tab[c], i))
    BY <2>2, Zenon DEF gamin_data_cancel, Ahead
  <2> QED
    BY <1>c, <2>1, <2>3
<1>7. CASE FAMClose(c)
  BY <1>b, <1>7 DEF FAMClose
<1>8. CASE FAMPending(c)
  <2> DEFINE e == Head(down[fd[c]])
  <2>1. tab' = [tab EXCEPT ![c] = Confirm(tab[c], e)]
    BY <1>8 DEF FAMPending
  <2> HIDE DEF e
  <2>2. Ahead(Confirm(tab[c], e), n)
    BY <1>0, <1>d, ConfirmKeeps
  <2> QED
    BY <1>c, <2>1, <2>2 DEF Ahead
<1>9. CASE FAMNextEvent(c)
  <2>1. tab' = [tab EXCEPT ![c] =
                  IF ready[c].type = "Ack"
                  THEN gamin_data_del_req(tab[c], ready[c].seq) ELSE tab[c]]
    BY <1>9 DEF FAMNextEvent
  <2>2. Ahead(gamin_data_del_req(tab[c], ready[c].seq), n)
    BY <1>0, <1>d, DelKeeps
  <2> QED
    BY <1>0, <1>c, <2>1, <2>2 DEF Ahead
<1> QED
  BY <1>1, <1>2, <1>3, <1>4, <1>5, <1>6, <1>7, <1>8, <1>9 DEF ClientNext

(* Numbers chosen by the application keep the table sorted for ever,       *)
(* through reconnections too: the insertion search of                      *)
(* gamin_data_get_req_loc ends at the place of the new number, or at the   *)
(* entry that has it already.                                              *)
THEOREM UserNumsSortedAlways == Spec => []UserNumsSorted
<1>1. Init => UserNumsSorted
  BY DEF Init, ClientInit, UserNumsSorted, Increasing
<1>2. TypeOK /\ UserNumsSorted /\ [Next]_vars => UserNumsSorted'
  <2> SUFFICES ASSUME TypeOK, UserNumsSorted, [Next]_vars
               PROVE  UserNumsSorted'
    OBVIOUS
  <2>1. CASE ClientStep
    BY <2>1, UserNumsStep DEF ClientStep
  <2>2. CASE ServerStep \/ UNCHANGED vars
    BY <2>2 DEF ServerStep, vars, clientVars, dataVars, UserNumsSorted,
       Increasing
  <2> QED
    BY <2>1, <2>2 DEF Next
<1> QED
  BY <1>1, <1>2, TypeCorrect, PTL DEF Spec

(* No request gets lost in its table: while the table is kept sorted the   *)
(* binary search of gamin_data_get_req_idx ends at the request whose       *)
(* number it is given, wherever that stands.                               *)
THEOREM FindableAlways == Spec => []Findable
<1>1. TypeOK /\ SortedUntilReset /\ UserNumsSorted => Findable
  <2> SUFFICES ASSUME TypeOK, SortedUntilReset, UserNumsSorted, NEW c \in Clients,
                      ~UseAuto \/ (UserNums = {} /\ ~wasReset[c]),
                      NEW i \in 1 .. Len(tab[c])
               PROVE  gamin_data_get_req_idx(tab[c], tab[c][i].reqno) = i
    BY DEF Findable
  <2>1. tab[c] \in Seq(Entries)
    BY DEF TypeOK, ClientTypeOK
  <2>2. Increasing(tab[c])
    BY DEF SortedUntilReset, UserNumsSorted
  <2> QED
    BY <2>1, <2>2, IdxFinds
<1> QED
  BY <1>1, TypeCorrect, SortedAlways, UserNumsSortedAlways, PTL

-----------------------------------------------------------------------------
(* The ends of the sockets. *)

(* Connections do not share a socket, and an end that is closed or not yet *)
(* accepted holds nothing: a new connection starts from empty channels.    *)
ClientEnds ==
  /\ \A c, d \in Clients : fd[c] = fd[d] /\ fd[c] # NoSock => c = d
  /\ \A c \in Clients : fd[c] # NoSock => cOpen[fd[c]]
  /\ \A s \in Socks : ~cOpen[s] => down[s] = <<>>

ServerEnds ==
  /\ \A s \in Socks : ~sOpen[s] => up[s] = <<>> /\ cstate[s] = "NONE"
  /\ \A s \in Socks : cstate[s] = "NONE" => subs[s] = <<>> /\ eq[s] = <<>>

Ends == ClientEnds /\ ServerEnds

LEMMA WrittenAt ==
  ASSUME NEW S, NEW ch \in [Socks -> Seq(S)], NEW open,
         NEW s \in Socks, NEW pkts, NEW x \in Socks
  PROVE  /\ x # s => Written(ch, open, s, pkts)[x] = ch[x]
         /\ ~open[x] => Written(ch, open, s, pkts)[x] = ch[x]
         /\ open[s] => Written(ch, open, s, pkts)[s] = ch[s] \o pkts
  BY DEF Written

(* A client's step. *)
LEMMA EndsClient ==
  ASSUME TypeOK, Ends, NEW c \in Clients, ClientNext(c), UNCHANGED serverVars
  PROVE  Ends'
<1> USE NoSockAssumption
<1>0. /\ up \in [Socks -> Seq(Requests)] /\ down \in [Socks -> Seq(Packets)]
      /\ cOpen \in [Socks -> BOOLEAN] /\ sOpen \in [Socks -> BOOLEAN]
      /\ fd \in [Clients -> Socks \cup {NoSock}]
  BY DEF TypeOK, SockTypeOK, ClientTypeOK
<1>u. UNCHANGED <<cstate, subs, eq>>
  BY DEF serverVars, connVars
<1>a. UNCHANGED <<fd, sockVars>> => Ends'
  BY <1>u DEF Ends, ClientEnds, ServerEnds, sockVars
<1>b. UNCHANGED <<up, sOpen>> => ServerEnds'
  BY <1>u DEF Ends, ServerEnds
<1>c. ASSUME NEW s \in Socks, NEW pkts, up' = Written(up, sOpen, s, pkts),
             UNCHANGED <<fd, down, cOpen, sOpen>>
      PROVE  Ends'
  <2>1. \A x \in Socks : ~sOpen[x] => up'[x] = up[x]
    BY <1>0, <1>c DEF Written
  <2> QED
    BY <1>0, <1>u, <1>c, <2>1 DEF Ends, ClientEnds, ServerEnds
<1>1. CASE FAMOpen(c) \/ gamin_fork_server(c) \/ GiveUp(c) \/ FAMNoExists(c)
           \/ LostServer(c) \/ FAMNextEvent(c)
  BY <1>a, <1>1 DEF FAMOpen, gamin_fork_server, GiveUp, FAMNoExists,
     LostServer, FAMNextEvent
<1>2. ASSUME NEW s \in Socks, NEW sent, Connect(c, s, sent)
      PROVE  /\ ServerEnds'
             /\ \A d \in Clients : d # c => fd'[d] = fd[d] /\ fd[d] # s
             /\ fd'[c] = s
  <2>1. \A d \in Clients : d # c => fd'[d] = fd[d] /\ fd[d] # s
    BY <1>0, <1>2 DEF Connect, Free, Ends, ClientEnds
  <2>2. \A x \in Socks : ~sOpen'[x] => x # s /\ ~sOpen[x]
    BY <1>0, <1>2 DEF Connect
  <2>3. \A x \in Socks : x # s => up'[x] = up[x]
    BY <1>0, <1>2 DEF Connect
  <2>4. ServerEnds'
    BY <1>u, <2>2, <2>3 DEF Ends, ServerEnds
  <2>5. fd'[c] = s
    BY <1>0, <1>2 DEF Connect
  <2> QED
    BY <2>1, <2>4, <2>5
<1>3. ASSUME NEW s \in Socks, gamin_data_new(c, s)
      PROVE  Ends'
  <2>1. Connect(c, s, <<>>) /\ cOpen' = [cOpen EXCEPT ![s] = TRUE] /\ down' = down
    BY <1>3 DEF gamin_data_new
  <2>2. /\ ServerEnds' /\ fd'[c] = s
        /\ \A d \in Clients : d # c => fd'[d] = fd[d] /\ fd[d] # s
    BY <1>2, <2>1
  <2>3. \A d, x \in Clients : fd'[d] = fd'[x] /\ fd'[d] # NoSock => d = x
    BY <2>2 DEF Ends, ClientEnds
  <2>4. \A d \in Clients : fd'[d] # NoSock => cOpen'[fd'[d]]
    BY <1>0, <2>1, <2>2 DEF Ends, ClientEnds
  <2>5. \A x \in Socks : ~cOpen'[x] => down'[x] = <<>>
    BY <1>0, <2>1 DEF Ends, ClientEnds
  <2> QED
    BY <2>2, <2>3, <2>4, <2>5 DEF Ends, ClientEnds
<1>4. ASSUME NEW s \in Socks, gamin_try_reconnect(c, s)
      PROVE  Ends'
  <2>1. /\ Connect(c, s, Resent(tab[c]))
        /\ cOpen' = [cOpen EXCEPT ![s] = TRUE, ![fd[c]] = FALSE]
        /\ down' = [down EXCEPT ![fd[c]] = <<>>]
    BY <1>4 DEF gamin_try_reconnect
  <2>2. fd[c] # s
    BY <1>0, <2>1 DEF Connect, Free, Ends, ClientEnds
  <2>3. \A d \in Clients : d # c => fd[d] # fd[c] \/ fd[d] = NoSock
    BY DEF Ends, ClientEnds
  <2>4. /\ ServerEnds' /\ fd'[c] = s
        /\ \A d \in Clients : d # c => fd'[d] = fd[d] /\ fd[d] # s
    BY <1>2, <2>1
  <2>5. \A d, x \in Clients : fd'[d] = fd'[x] /\ fd'[d] # NoSock => d = x
    BY <2>4 DEF Ends, ClientEnds
  <2>6. \A d \in Clients : fd'[d] # NoSock => cOpen'[fd'[d]]
    BY <1>0, <2>1, <2>2, <2>3, <2>4 DEF Ends, ClientEnds
  <2>7. \A x \in Socks : ~cOpen'[x] => down'[x] = <<>>
    BY <1>0, <2>1 DEF Ends, ClientEnds
  <2> QED
    BY <2>4, <2>5, <2>6, <2>7 DEF Ends, ClientEnds
<1>5. ASSUME NEW p \in Paths, NEW type \in MonTypes, FAMMonitor(c, p, type)
      PROVE  Ends'
  <2>1. fd[c] \in Socks
    BY <1>0, <1>5 DEF FAMMonitor, MayAsk, IsOpen
  <2> QED
    BY <1>c, <1>5, <2>1 DEF FAMMonitor
<1>6. ASSUME NEW p \in Paths, NEW type \in MonTypes, NEW r \in UserNums,
             FAMMonitor2(c, p, type, r)
      PROVE  Ends'
  <2>1. fd[c] \in Socks
    BY <1>0, <1>6 DEF FAMMonitor2, MayAsk, IsOpen
  <2> QED
    BY <1>c, <1>6, <2>1 DEF FAMMonitor2
<1>7. ASSUME NEW r, FAMCancelMonitor(c, r)
      PROVE  Ends'
  <2>1. fd[c] \in Socks
    BY <1>0, <1>7 DEF FAMCancelMonitor, MayAsk, IsOpen
  <2> QED
    BY <1>c, <1>7, <2>1 DEF FAMCancelMonitor
<1>8. CASE FAMClose(c)
  <2>1. /\ cOpen' = [cOpen EXCEPT ![fd[c]] = FALSE]
        /\ down' = [down EXCEPT ![fd[c]] = <<>>]
        /\ fd' = [fd EXCEPT ![c] = NoSock]
        /\ UNCHANGED <<up, sOpen>>
    BY <1>8 DEF FAMClose
  <2>2. ClientEnds'
    BY <1>0, <2>1 DEF Ends, ClientEnds
  <2> QED
    BY <1>b, <2>1, <2>2 DEF Ends
<1>9. CASE gamin_check_cred(c) \/ FAMPending(c)
  <2>1. /\ fd[c] # NoSock
        /\ down' = [down EXCEPT ![fd[c]] = Tail(@)]
        /\ UNCHANGED <<fd, cOpen, up, sOpen>>
    BY <1>9 DEF gamin_check_cred, FAMPending, IsOpen
  <2>2. ClientEnds'
    BY <1>0, <2>1 DEF Ends, ClientEnds
  <2> QED
    BY <1>b, <2>1, <2>2 DEF Ends
<1> QED
  BY <1>1, <1>3, <1>4, <1>5, <1>6, <1>7, <1>8, <1>9 DEF ClientNext

(* A step of the server. *)
LEMMA EndsServer ==
  ASSUME TypeOK, Ends, ServerNext, UNCHANGED clientVars
  PROVE  Ends'
<1>0. /\ up \in [Socks -> Seq(Requests)] /\ down \in [Socks -> Seq(Packets)]
      /\ cOpen \in [Socks -> BOOLEAN] /\ sOpen \in [Socks -> BOOLEAN]
      /\ cstate \in [Socks -> {"NONE", "AUTH", "OKAY"}]
      /\ subs \in [Socks -> Seq(Subscriptions)] /\ eq \in [Socks -> Seq(QueuedEvents)]
  BY DEF TypeOK, SockTypeOK, ServerTypeOK
<1>a. fd' = fd
  BY DEF clientVars
<1>b. UNCHANGED <<down, cOpen>> => ClientEnds'
  BY <1>a DEF Ends, ClientEnds
<1>c. ASSUME NEW s \in Socks, NEW pkts, down' = Written(down, cOpen, s, pkts),
             cOpen' = cOpen
      PROVE  ClientEnds'
  <2>1. \A x \in Socks : ~cOpen[x] => down'[x] = down[x]
    BY <1>0, <1>c DEF Written
  <2> QED
    BY <1>a, <1>c, <2>1 DEF Ends, ClientEnds
<1>1. ASSUME NEW s \in Socks, gam_incoming_conn_read(s)
      PROVE  Ends'
  <2>1. ServerEnds'
    BY <1>0, <1>1 DEF gam_incoming_conn_read, sockVars, Ends, ServerEnds
  <2> QED
    BY <1>b, <1>1, <2>1 DEF gam_incoming_conn_read, sockVars, Ends
<1>2. ASSUME NEW s \in Socks, gam_client_conn_check_cred(s)
      PROVE  Ends'
  <2>1. ClientEnds'
    BY <1>c, <1>2 DEF gam_client_conn_check_cred
  <2>2. ServerEnds'
    BY <1>0, <1>2 DEF gam_client_conn_check_cred, Ends, ServerEnds
  <2> QED
    BY <2>1, <2>2 DEF Ends
<1>3. ASSUME NEW s \in Socks, gam_connection_close(s)
      PROVE  Ends'
  <2>1. ServerEnds'
    BY <1>0, <1>3 DEF gam_connection_close, Ends, ServerEnds
  <2> QED
    BY <1>b, <1>3, <2>1 DEF gam_connection_close, Ends
<1>4. ASSUME NEW s \in Socks, NEW gevent \in Reports,
             gam_add_subscription(s, gevent)
      PROVE  Ends'
  <2>1. /\ cstate[s] = "OKAY" /\ up[s] # <<>>
        /\ \A x \in Socks : x # s => up'[x] = up[x]
        /\ UNCHANGED <<cstate, down, cOpen, sOpen>>
    BY <1>4 DEF gam_add_subscription, Asked
  <2>2. \A x \in Socks : x # s => subs'[x] = subs[x] /\ eq'[x] = eq[x]
    <3>1. CASE Head(up[s]).path \in NonePaths
      BY <1>4, <3>1 DEF gam_add_subscription
    <3>2. CASE Head(up[s]).path \notin NonePaths
      BY <1>0, <1>4, <3>2 DEF gam_add_subscription,
         gam_inotify_send_initial_events, gam_queue_event
    <3> QED
      BY <3>1, <3>2
  <2>3. ServerEnds'
    BY <1>0, <2>1, <2>2 DEF Ends, ServerEnds
  <2> QED
    BY <1>b, <2>1, <2>3 DEF Ends
<1>5. ASSUME NEW s \in Socks, gam_remove_subscription(s)
      PROVE  Ends'
  <2>1. /\ cstate[s] = "OKAY"
        /\ \A x \in Socks : x # s => up'[x] = up[x] /\ subs'[x] = subs[x]
        /\ UNCHANGED <<cstate, eq, cOpen, sOpen>>
    BY <1>0, <1>5 DEF gam_remove_subscription, Asked
  <2>2. ClientEnds'
    BY <1>c, <1>5 DEF gam_remove_subscription
  <2>3. ServerEnds'
    BY <1>0, <2>1 DEF Ends, ServerEnds
  <2> QED
    BY <2>2, <2>3 DEF Ends
<1>6. ASSUME NEW s \in Socks, gam_connection_eq_flush(s)
      PROVE  Ends'
  <2>1. ClientEnds'
    BY <1>c, <1>6 DEF gam_connection_eq_flush
  <2>2. ServerEnds'
    BY <1>0, <1>6 DEF gam_connection_eq_flush, Ends, ServerEnds
  <2> QED
    BY <2>1, <2>2 DEF Ends
<1>7. ASSUME NEW s \in Socks, NEW i \in 1 .. Len(subs[s]), NEW type \in EmitTypes,
             gam_inotify_event_callback(s, i, type)
      PROVE  Ends'
  <2>1. cstate[s] # "NONE"
    <3>1. subs[s] # <<>>
      BY <1>0
    <3> QED
      BY <3>1 DEF Ends, ServerEnds
  <2>2. /\ \A x \in Socks : x # s => eq'[x] = eq[x]
        /\ UNCHANGED <<cstate, subs, up, down, cOpen, sOpen>>
    BY <1>0, <1>7 DEF gam_inotify_event_callback, gam_queue_event, sockVars
  <2>3. ServerEnds'
    BY <2>1, <2>2 DEF Ends, ServerEnds
  <2> QED
    BY <1>b, <2>2, <2>3 DEF Ends
<1>8. CASE gam_server_init
  BY <1>a, <1>8 DEF gam_server_init, connVars, sockVars, Ends, ClientEnds, ServerEnds
<1>9. ASSUME ProcessEnds
      PROVE  Ends'
  BY <1>b, <1>9 DEF ProcessEnds, Ends, ServerEnds
<1>10. CASE gam_connections_check
  <2>1. CASE Conns = {}
    BY <1>9, <1>10, <2>1 DEF gam_connections_check
  <2>2. CASE Conns # {}
    BY <1>a, <1>10, <2>2 DEF gam_connections_check, connVars, sockVars, Ends,
       ClientEnds, ServerEnds
  <2> QED
    BY <2>1, <2>2
<1> QED
  BY <1>1, <1>2, <1>3, <1>4, <1>5, <1>6, <1>7, <1>8, <1>9, <1>10
     DEF ServerNext, gam_client_conn_read, gam_client_conn_shutdown,
         CancelUnknown, gam_exit

(* No two open connections share a socket, and a socket end that is closed *)
(* or not yet accepted has no packet, subscription or queued event left of *)
(* its previous life.                                                      *)
THEOREM EndsAlways == Spec => []Ends
<1> USE NoSockAssumption
<1>1. Init => Ends
  BY DEF Init, SockInit, ClientInit, ServerInit, Ends, ClientEnds, ServerEnds
<1>2. TypeOK /\ Ends /\ [Next]_vars => Ends'
  <2> SUFFICES ASSUME TypeOK, Ends, [Next]_vars PROVE Ends'
    OBVIOUS
  <2>1. CASE ClientStep
    BY <2>1, EndsClient DEF ClientStep
  <2>2. CASE ServerStep
    BY <2>2, EndsServer DEF ServerStep
  <2>3. CASE UNCHANGED vars
    BY <2>3 DEF vars, sockVars, clientVars, serverVars, connVars, Ends,
       ClientEnds, ServerEnds
  <2> QED
    BY <2>1, <2>2, <2>3 DEF Next
<1> QED
  BY <1>1, <1>2, TypeCorrect, PTL DEF Spec

-----------------------------------------------------------------------------
(* What is in flight. *)

(* Something on socket s speaks of request r on path p: a request not read *)
(* yet, a subscription, a queued event, or a packet on its way back.       *)
InFlight(s, r, p) ==
  \/ \E x \in ToSet(up[s]) : x.type \in ReqTypes /\ x.seq = r /\ x.path = p
  \/ \E x \in ToSet(subs[s]) : x.reqno = r /\ x.path = p
  \/ \E x \in ToSet(eq[s]) : x.seq = r /\ x.path = p
  \/ \E x \in ToSet(down[s]) : x.type # "CRED" /\ x.seq = r /\ x.path = p

(* The client handed out r, and if it still has r it is for p. *)
Knows(c, r, p) ==
  r < reqno[c] /\ \A e \in ToSet(tab[c]) : e.reqno = r => e.path = p

Consistent ==
  \A c \in Clients :
    Healthy(c) /\ fd[c] # NoSock =>
      \A r \in 0 .. SeqSpan - 1, p \in Paths \cup {NoPath} :
        InFlight(fd[c], r, p) => Knows(c, r, p)

LEMMA EmitMembers ==
  ASSUME NEW q \in Seq(QueuedEvents), NEW sub \in Subscriptions,
         NEW type \in EventTypes
  PROVE  \A x \in ToSet(gam_server_emit_one_event(q, sub, type)) :
           x \in ToSet(q) \/ (x.seq = sub.reqno /\ x.path = sub.path)
<1> DEFINE e == [type |-> type, seq |-> sub.reqno, path |-> sub.path]
<1>1. e \in QueuedEvents
  BY DEF QueuedEvents, Subscriptions
<1>2. e.seq = sub.reqno /\ e.path = sub.path
  OBVIOUS
<1>3. \/ gam_server_emit_one_event(q, sub, type) = q
      \/ gam_server_emit_one_event(q, sub, type) = q \o <<e>>
  BY <1>1 DEF gam_server_emit_one_event, gam_eq_queue
<1> HIDE DEF e
<1>4. ToSet(q \o <<e>>) = ToSet(q) \cup {e}
  <2>1. <<e>> \in Seq(QueuedEvents) /\ ToSet(<<e>>) = {e}
    BY <1>1, ToSetFacts
  <2>2. ToSet(q \o <<e>>) = ToSet(q) \cup ToSet(<<e>>)
    BY <2>1, ToSetConcat, Zenon
  <2> QED
    BY <2>1, <2>2, Zenon
<1> QED
  BY <1>2, <1>3, <1>4

LEMMA ReqnoFound ==
  ASSUME TypeOK, NEW s \in Socks, NEW r,
         gam_listener_get_subscription_by_reqno(s, r) \in 1 .. Len(subs[s])
  PROVE  subs[s][gam_listener_get_subscription_by_reqno(s, r)].reqno = r
<1> DEFINE I == {i \in 1 .. Len(subs[s]) : subs[s][i].reqno = r}
<1>1. gam_listener_get_subscription_by_reqno(s, r) = IF I # {} THEN Min(I) ELSE 0
  BY DEF gam_listener_get_subscription_by_reqno, SelectInSeq
<1>2. I \in SUBSET Nat
  OBVIOUS
<1>3. I # {} => Min(I) \in I
  BY <1>2, MinIsIn
<1>4. gam_listener_get_subscription_by_reqno(s, r) \in I
  BY <1>1, <1>3
<1> QED
  BY <1>4

(* Writing adds what was written, to its channel only. *)
LEMMA WrittenMembers ==
  ASSUME NEW S, NEW ch \in [Socks -> Seq(S)], NEW open, NEW s \in Socks,
         NEW pkts \in Seq(S), NEW x \in Socks
  PROVE  /\ ToSet(Written(ch, open, s, pkts)[x]) \subseteq ToSet(ch[x]) \cup ToSet(pkts)
         /\ x # s => Written(ch, open, s, pkts)[x] = ch[x]
<1>1. x # s => Written(ch, open, s, pkts)[x] = ch[x]
  BY DEF Written
<1>2. \/ Written(ch, open, s, pkts)[x] = ch[x]
      \/ Written(ch, open, s, pkts)[x] = ch[x] \o pkts
  BY DEF Written
<1>3. ToSet(ch[x] \o pkts) = ToSet(ch[x]) \cup ToSet(pkts)
  <2>1. ch[x] \in Seq(S)
    OBVIOUS
  <2> QED
    BY <2>1, ToSetConcat, Zenon
<1> QED
  BY <1>1, <1>2, <1>3

(* Reading takes away. *)
LEMMA ReadMembers ==
  ASSUME NEW S, NEW ch \in [Socks -> Seq(S)], NEW s \in Socks, ch[s] # <<>>,
         NEW x \in Socks
  PROVE  ToSet([ch EXCEPT ![s] = Tail(ch[s])][x]) \subseteq ToSet(ch[x])
<1>1. CASE x = s
  <2>1. [ch EXCEPT ![s] = Tail(ch[s])][x] = Tail(ch[x]) /\ ch[x] \in Seq(S)
    BY <1>1
  <2>2. ToSet(Tail(ch[x])) \subseteq ToSet(ch[x])
    BY <1>1, <2>1, ToSetFacts
  <2> QED
    BY <2>1, <2>2
<1>2. CASE x # s
  BY <1>2
<1> QED
  BY <1>1, <1>2

(* The server makes nothing up: what it says of a request, a request said. *)
LEMMA NothingNew ==
  ASSUME TypeOK, ServerNext, NEW z \in Socks, NEW r, NEW p, InFlight(z, r, p)'
  PROVE  InFlight(z, r, p)
<1>0. /\ up \in [Socks -> Seq(Requests)] /\ down \in [Socks -> Seq(Packets)]
      /\ subs \in [Socks -> Seq(Subscriptions)] /\ eq \in [Socks -> Seq(QueuedEvents)]
  BY DEF TypeOK, SockTypeOK, ServerTypeOK
<1>e. ToSet(<<>>) = {}
  BY ToSetFacts
<1>m. ASSUME /\ ToSet(up'[z]) \subseteq ToSet(up[z])
             /\ ToSet(subs'[z]) \subseteq ToSet(subs[z])
             /\ ToSet(eq'[z]) \subseteq ToSet(eq[z])
             /\ ToSet(down'[z]) \subseteq ToSet(down[z])
      PROVE  InFlight(z, r, p)
  BY <1>m DEF InFlight
<1>1. ASSUME NEW s \in Socks, gam_incoming_conn_read(s)
      PROVE  InFlight(z, r, p)
  BY <1>m, <1>1 DEF gam_incoming_conn_read, sockVars
<1>2. ASSUME NEW s \in Socks, gam_client_conn_check_cred(s)
      PROVE  InFlight(z, r, p)
  <2>1. /\ up[s] # <<>> /\ up' = [up EXCEPT ![s] = Tail(up[s])]
        /\ down' = Written(down, cOpen, s, <<ServerByte>>)
        /\ UNCHANGED <<subs, eq>>
    BY <1>2 DEF gam_client_conn_check_cred
  <2>2. ToSet(up'[z]) \subseteq ToSet(up[z])
    BY <1>0, <2>1, ReadMembers
  <2>3. ServerByte \in Packets /\ ServerByte.type = "CRED"
    BY SeqSpanAssumption DEF ServerByte, Packets
  <2>4. <<ServerByte>> \in Seq(Packets)
    BY <2>3
  <2>5. ToSet(down'[z]) \subseteq ToSet(down[z]) \cup {ServerByte}
    <3>1. down \in [Socks -> Seq(Packets)]
      BY <1>0
    <3>2. ToSet(Written(down, cOpen, s, <<ServerByte>>)[z])
            \subseteq ToSet(down[z]) \cup ToSet(<<ServerByte>>)
      BY <2>4, <3>1, WrittenMembers, Zenon
    <3> QED
      BY <2>1, <3>2, ToSetOne, Zenon
  <2> QED
    BY <2>1, <2>2, <2>3, <2>5 DEF InFlight
<1>3. ASSUME NEW s \in Socks, gam_connection_close(s)
      PROVE  InFlight(z, r, p)
  BY <1>0, <1>e, <1>m, <1>3 DEF gam_connection_close
<1>4. ASSUME NEW s \in Socks, NEW gevent \in Reports,
             gam_add_subscription(s, gevent)
      PROVE  InFlight(z, r, p)
  <2> DEFINE req == Head(up[s])
             sub == NewSub(req)
             q1 == gam_server_emit_one_event(eq[s], sub, gevent)
             q2 == gam_server_emit_one_event(q1, sub, "EndExist")
  <2>1. /\ up[s] # <<>> /\ req.type \in ReqTypes
        /\ up' = [up EXCEPT ![s] = Tail(up[s])] /\ down' = down
    BY <1>4 DEF gam_add_subscription, Asked
  <2>2. ToSet(up'[z]) \subseteq ToSet(up[z])
    BY <1>0, <2>1, ReadMembers
  <2>3. req \in ToSet(up[s]) /\ req \in Requests
    BY <1>0, <2>1, ToSetFacts
  <2>4. req \in Monitors
    BY <2>1, <2>3 DEF Requests, ReqTypes
  <2>5. sub \in Subscriptions /\ sub.reqno = req.seq /\ sub.path = req.path
    <3>1. (req.type = "DIR") \in BOOLEAN
      OBVIOUS
    <3> HIDE DEF req
    <3> QED
      BY <2>4, <3>1 DEF NewSub, Subscriptions, Monitors
  <2>6. CASE req.path \in NonePaths
    BY <1>m, <1>4, <2>1, <2>2, <2>6 DEF gam_add_subscription
  <2>7. CASE req.path \notin NonePaths
    <3>1. subs' = [subs EXCEPT ![s] = <<sub>> \o subs[s]] /\ eq' = [eq EXCEPT ![s] = q2]
      BY <1>4, <2>7 DEF gam_add_subscription,
         gam_inotify_send_initial_events, gam_queue_event
    <3>2. gevent \in EventTypes /\ "EndExist" \in EventTypes
      BY ReportsAssumption DEF EventTypes
    <3> HIDE DEF sub, req
    <3>3. q1 \in Seq(QueuedEvents)
      BY <1>0, <2>5, <3>2, EmitType
    <3>4. \A x \in ToSet(q1) :
            x \in ToSet(eq[s]) \/ (x.seq = sub.reqno /\ x.path = sub.path)
      BY <1>0, <2>5, <3>2, EmitMembers
    <3> HIDE DEF q1
    <3>5. \A x \in ToSet(q2) :
            x \in ToSet(q1) \/ (x.seq = sub.reqno /\ x.path = sub.path)
      BY <2>5, <3>2, <3>3, EmitMembers
    <3> HIDE DEF q2
    <3>6. \A x \in ToSet(eq'[z]) :
            x \in ToSet(eq[z]) \/ (z = s /\ x.seq = req.seq /\ x.path = req.path)
      BY <1>0, <2>5, <3>1, <3>4, <3>5
    <3>7. ToSet(<<sub>> \o subs[s]) = {sub} \cup ToSet(subs[s])
      <4>1. subs[s] \in Seq(Subscriptions)
        BY <1>0
      <4> QED
        BY <2>5, <4>1, ToSetCons
    <3>8. \A x \in ToSet(subs'[z]) :
            x \in ToSet(subs[z]) \/ (z = s /\ x.reqno = req.seq /\ x.path = req.path)
      BY <1>0, <2>5, <3>1, <3>7
    <3>9. CASE z = s /\ r = req.seq /\ p = req.path
      BY <2>1, <2>3, <3>9 DEF InFlight
    <3>10. CASE ~(z = s /\ r = req.seq /\ p = req.path)
      BY <2>1, <2>2, <3>6, <3>8, <3>10 DEF InFlight
    <3> QED
      BY <3>9, <3>10
  <2> QED
    BY <2>6, <2>7
<1>5. ASSUME NEW s \in Socks, gam_remove_subscription(s)
      PROVE  InFlight(z, r, p)
  <2> DEFINE n == Head(up[s]).seq
             i == gam_listener_get_subscription_by_reqno(s, n)
             ack == [type |-> "Ack", seq |-> n, path |-> subs[s][i].path]
  <2>1. /\ up[s] # <<>> /\ up' = [up EXCEPT ![s] = Tail(up[s])]
        /\ i \in 1 .. Len(subs[s])
        /\ subs' = [subs EXCEPT ![s] = RemoveAt(subs[s], i)]
        /\ down' = Written(down, cOpen, s, <<ack>>)
        /\ eq' = eq
    BY <1>5 DEF gam_remove_subscription, Asked
  <2>2. ToSet(up'[z]) \subseteq ToSet(up[z])
    BY <1>0, <2>1, ReadMembers
  <2>3. subs[s][i].reqno = n
    BY <2>1, ReqnoFound
  <2>4. n \in 0 .. SeqSpan - 1
    <3>1. Head(up[s]) \in Requests
      BY <1>0, <2>1
    <3> QED
      BY <3>1 DEF Requests, Monitors
  <2> HIDE DEF n, i
  <2>5. subs[s][i] \in Subscriptions /\ subs[s][i] \in ToSet(subs[s])
    BY <1>0, <2>1, ToSetFacts
  <2>6. ack \in Packets /\ ack.seq = n /\ ack.path = subs[s][i].path
    BY <2>4, <2>5 DEF Packets, Subscriptions
  <2> HIDE DEF ack
  <2>7. <<ack>> \in Seq(Packets)
    BY <2>6
  <2>8. /\ ToSet(down'[z]) \subseteq ToSet(down[z]) \cup {ack}
        /\ z # s => down'[z] = down[z]
    <3> DEFINE w == Written(down, cOpen, s, <<ack>>)
    <3>1. down \in [Socks -> Seq(Packets)]
      BY <1>0
    <3>2. ToSet(w[z]) \subseteq ToSet(down[z]) \cup ToSet(<<ack>>)
      BY <2>7, <3>1, WrittenMembers, Zenon
    <3>3. z # s => w[z] = down[z]
      BY <3>1 DEF Written
    <3> QED
      BY <2>1, <3>2, <3>3, ToSetOne, Zenon
  <2>9. ToSet(subs'[z]) \subseteq ToSet(subs[z])
    BY <1>0, <2>1, ToSetRemoveAt
  <2>10. CASE z = s /\ r = n /\ p = subs[s][i].path
    BY <2>3, <2>5, <2>10 DEF InFlight
  <2>11. CASE ~(z = s /\ r = n /\ p = subs[s][i].path)
    BY <2>1, <2>2, <2>6, <2>8, <2>9, <2>11 DEF InFlight
  <2> QED
    BY <2>10, <2>11
<1>6. ASSUME NEW s \in Socks, gam_connection_eq_flush(s)
      PROVE  InFlight(z, r, p)
  <2>1. /\ down' = Written(down, cOpen, s, eq[s])
        /\ eq' = [eq EXCEPT ![s] = <<>>]
        /\ UNCHANGED <<up, subs>>
    BY <1>6 DEF gam_connection_eq_flush
  <2>2. eq[s] \in Seq(Packets)
    BY <1>0, QueuedAreSent
  <2>3. /\ ToSet(down'[z]) \subseteq ToSet(down[z]) \cup ToSet(eq[s])
        /\ z # s => down'[z] = down[z]
    <3> DEFINE w == Written(down, cOpen, s, eq[s])
    <3>1. down \in [Socks -> Seq(Packets)]
      BY <1>0
    <3>2. ToSet(w[z]) \subseteq ToSet(down[z]) \cup ToSet(eq[s])
      BY <2>2, <3>1, WrittenMembers, Zenon
    <3>3. z # s => w[z] = down[z]
      BY <3>1 DEF Written
    <3> QED
      BY <2>1, <3>2, <3>3, Zenon
  <2>4. ToSet(eq'[z]) \subseteq ToSet(eq[z])
    BY <1>0, <1>e, <2>1
  <2> QED
    BY <2>1, <2>3, <2>4 DEF InFlight
<1>7. ASSUME NEW s \in Socks, NEW i \in 1 .. Len(subs[s]), NEW type \in EmitTypes,
             gam_inotify_event_callback(s, i, type)
      PROVE  InFlight(z, r, p)
  <2> DEFINE q == gam_server_emit_one_event(eq[s], subs[s][i], type)
  <2>1. eq' = [eq EXCEPT ![s] = q] /\ UNCHANGED <<subs, up, down>>
    BY <1>7 DEF gam_inotify_event_callback, gam_queue_event, sockVars
  <2>2. /\ subs[s][i] \in Subscriptions /\ type \in EventTypes
        /\ subs[s][i] \in ToSet(subs[s])
    BY <1>0, EmitTypesAssumption, ToSetFacts DEF EventTypes
  <2>3. \A x \in ToSet(q) :
          x \in ToSet(eq[s]) \/ (x.seq = subs[s][i].reqno /\ x.path = subs[s][i].path)
    BY <1>0, <2>2, EmitMembers
  <2> HIDE DEF q
  <2>4. CASE z = s /\ r = subs[s][i].reqno /\ p = subs[s][i].path
    BY <2>2, <2>4 DEF InFlight
  <2>5. CASE ~(z = s /\ r = subs[s][i].reqno /\ p = subs[s][i].path)
    BY <1>0, <2>1, <2>3, <2>5 DEF InFlight
  <2> QED
    BY <2>4, <2>5
<1>8. CASE gam_server_init
  BY <1>m, <1>8 DEF gam_server_init, connVars, sockVars
<1>9. ASSUME ProcessEnds
      PROVE  InFlight(z, r, p)
  BY <1>e, <1>m, <1>9 DEF ProcessEnds
<1>10. CASE gam_connections_check
  BY <1>m, <1>9, <1>10 DEF gam_connections_check, connVars, sockVars
<1> QED
  BY <1>1, <1>2, <1>3, <1>4, <1>5, <1>6, <1>7, <1>8, <1>9, <1>10
     DEF ServerNext, gam_client_conn_read, gam_client_conn_shutdown,
         CancelUnknown, gam_exit

-----------------------------------------------------------------------------
(* Request numbers start at 1: the credential byte, whose number is 0,     *)
(* belongs to no request.                                                  *)
Numbered ==
  UserNums = {} =>
    \A c \in Clients :
      reqno[c] >= 1 /\ \A e \in ToSet(tab[c]) : e.reqno >= 1

LEMMA AddMembers ==
  ASSUME NEW t \in Seq(Entries), NEW r \in Nat, NEW p \in Paths,
         NEW type \in ReqTypes
  PROVE  ToSet(gamin_data_add_req(t, r, p, type)) = ToSet(t) \cup {NewEntry(r, p, type)}
<1> DEFINE e == NewEntry(r, p, type)
<1>1. e \in Entries
  BY DEF NewEntry, Entries, ReqStates
<1> HIDE DEF e
<1>2. <<e>> \in Seq(Entries)
  BY <1>1
<1>3. ToSet(t \o <<e>>) = ToSet(t) \cup ToSet(<<e>>)
  BY <1>2, ToSetConcat, Zenon
<1>4. gamin_data_add_req(t, r, p, type) = t \o <<e>>
  BY <1>1 DEF gamin_data_add_req, e
<1> QED
  BY <1>3, <1>4, ToSetOne, Zenon DEF e

(* What a client's call does to the tables, when the library numbers the   *)
(* requests.                                                               *)
LEMMA TableStep ==
  ASSUME TypeOK, UserNums = {}, NEW c \in Clients, ClientNext(c)
  PROVE  /\ \A d \in Clients : d # c =>
              reqno'[d] = reqno[d] /\ tab'[d] = tab[d] /\ wasReset'[d] = wasReset[d]
         /\ \/ reqno'[c] = 1 /\ tab'[c] = <<>>
            \/ reqno'[c] = 1 /\ tab'[c] = tab[c] /\ wasReset'[c]
            \/ /\ reqno'[c] = reqno[c] /\ wasReset'[c] = wasReset[c]
               /\ Within(tab'[c], tab[c])
            \/ /\ reqno'[c] = reqno[c] + 1 /\ wasReset'[c] = wasReset[c]
               /\ \E p \in Paths, type \in ReqTypes :
                    tab'[c] = gamin_data_add_req(tab[c], reqno[c], p, type)
<1> DEFINE Goal ==
      /\ \A d \in Clients : d # c =>
           reqno'[d] = reqno[d] /\ tab'[d] = tab[d] /\ wasReset'[d] = wasReset[d]
      /\ \/ reqno'[c] = 1 /\ tab'[c] = <<>>
         \/ reqno'[c] = 1 /\ tab'[c] = tab[c] /\ wasReset'[c]
         \/ /\ reqno'[c] = reqno[c] /\ wasReset'[c] = wasReset[c]
            /\ Within(tab'[c], tab[c])
         \/ /\ reqno'[c] = reqno[c] + 1 /\ wasReset'[c] = wasReset[c]
            /\ \E p \in Paths, type \in ReqTypes :
                 tab'[c] = gamin_data_add_req(tab[c], reqno[c], p, type)
<1> SUFFICES Goal
  OBVIOUS
<1>0. /\ tab \in [Clients -> Seq(Entries)] /\ reqno \in [Clients -> Nat]
      /\ wasReset \in [Clients -> BOOLEAN]
  BY DEF TypeOK, ClientTypeOK
<1>w. Within(tab[c], tab[c])
  BY DEF Within
<1>a. UNCHANGED <<reqno, tab, wasReset>> => Goal
  BY <1>w
<1>b. FreshData(c) => Goal
  BY <1>0 DEF FreshData
<1>c. ASSUME NEW u, Within(u, tab[c]), tab' = [tab EXCEPT ![c] = u],
             UNCHANGED <<reqno, wasReset>>
      PROVE  Goal
  BY <1>0, <1>c
<1>1. CASE FAMOpen(c) \/ gamin_fork_server(c) \/ GiveUp(c) \/ FAMNoExists(c)
           \/ gamin_check_cred(c) \/ LostServer(c)
  <2>1. UNCHANGED <<reqno, tab, wasReset>>
    BY <1>1 DEF FAMOpen, gamin_fork_server, GiveUp, FAMNoExists,
       gamin_check_cred, LostServer, dataVars
  <2> QED
    BY <1>a, <2>1
<1>2. ASSUME NEW s \in Socks, gamin_data_new(c, s)
      PROVE  Goal
  BY <1>b, <1>2 DEF gamin_data_new
<1>3. ASSUME NEW s \in Socks, gamin_try_reconnect(c, s)
      PROVE  Goal
  BY <1>0, <1>3 DEF gamin_try_reconnect, gamin_data_reset
<1>4. ASSUME NEW p \in Paths, NEW type \in MonTypes, FAMMonitor(c, p, type)
      PROVE  Goal
  <2>1. type \in ReqTypes
    BY MonTypesAssumption
  <2>2. /\ tab' = [tab EXCEPT ![c] = gamin_data_add_req(tab[c], reqno[c], p, type)]
        /\ reqno' = [reqno EXCEPT ![c] = @ + 1]
        /\ wasReset' = wasReset
    BY <1>4 DEF FAMMonitor
  <2> QED
    BY <1>0, <2>1, <2>2
<1>5. ASSUME NEW r, FAMCancelMonitor(c, r)
      PROVE  Goal
  <2> DEFINE i == gamin_data_get_req_idx(tab[c], r)
  <2>1. /\ i \in 1 .. Len(tab[c])
        /\ tab' = [tab EXCEPT ![c] = gamin_data_cancel(tab[c], i)]
        /\ UNCHANGED <<reqno, wasReset>>
    BY <1>5 DEF FAMCancelMonitor
  <2> HIDE DEF i, Goal
  <2>2. Within([tab[c] EXCEPT ![i].state = "CANCELLED"], tab[c])
    <3>1. "CANCELLED" \in ReqStates
      BY DEF ReqStates
    <3>2. tab[c] \in Seq(Entries)
      BY <1>0
    <3> QED
      BY <2>1, <3>1, <3>2, CancelKeeps, Zenon
  <2>3. Within(gamin_data_cancel(tab[c], i), tab[c])
    BY <2>2, Zenon DEF gamin_data_cancel
  <2> QED
    BY <1>c, <2>1, <2>3
<1>6. CASE FAMClose(c)
  BY <1>b, <1>6 DEF FAMClose
<1>7. CASE FAMPending(c)
  <2> DEFINE e == Head(down[fd[c]])
  <2>1. tab' = [tab EXCEPT ![c] = Confirm(tab[c], e)] /\ UNCHANGED <<reqno, wasReset>>
    BY <1>7 DEF FAMPending
  <2> HIDE DEF e, Goal
  <2>2. Within(Confirm(tab[c], e), tab[c])
    BY <1>0, ConfirmKeeps
  <2> QED
    BY <1>c, <2>1, <2>2
<1>8. CASE FAMNextEvent(c)
  <2> DEFINE u == IF ready[c].type = "Ack"
                  THEN gamin_data_del_req(tab[c], ready[c].seq) ELSE tab[c]
  <2>1. tab' = [tab EXCEPT ![c] = u] /\ UNCHANGED <<reqno, wasReset>>
    BY <1>8 DEF FAMNextEvent
  <2>2. Within(u, tab[c])
    BY <1>0, <1>w, DelKeeps
  <2> HIDE DEF u, Goal
  <2> QED
    BY <1>c, <2>1, <2>2
<1> HIDE DEF Goal
<1>9. ASSUME NEW p, NEW type, NEW r \in UserNums, FAMMonitor2(c, p, type, r)
      PROVE  Goal
  OBVIOUS
<1> QED
  BY <1>1, <1>2, <1>3, <1>4, <1>5, <1>6, <1>7, <1>8, <1>9 DEF ClientNext

LEMMA NumberedStep ==
  ASSUME TypeOK, Numbered, NEW c \in Clients, ClientNext(c)
  PROVE  Numbered'
<1> SUFFICES ASSUME UserNums = {}, NEW d \in Clients
             PROVE  reqno'[d] >= 1 /\ \A e \in ToSet(tab'[d]) : e.reqno >= 1
  BY DEF Numbered
<1>0. /\ reqno[d] >= 1 /\ \A e \in ToSet(tab[d]) : e.reqno >= 1
      /\ tab[d] \in Seq(Entries) /\ reqno[d] \in Nat
  BY DEF Numbered, TypeOK, ClientTypeOK
<1>1. CASE d # c
  BY <1>0, <1>1, TableStep
<1>2. CASE d = c
  <2>1. CASE reqno'[c] = 1 /\ (tab'[c] = <<>> \/ tab'[c] = tab[c])
    <3>1. ToSet(<<>>) = {}
      BY DEF ToSet
    <3> QED
      BY <1>0, <1>2, <2>1, <3>1
  <2>2. CASE reqno'[c] = reqno[c] /\ Within(tab'[c], tab[c])
    <3>1. \A e \in ToSet(tab'[c]) : \E f \in ToSet(tab[c]) : e.reqno = f.reqno
      BY <2>2 DEF Within
    <3> QED
      BY <1>0, <1>2, <2>2, <3>1
  <2>3. ASSUME reqno'[c] = reqno[c] + 1, NEW p \in Paths, NEW type \in ReqTypes,
               tab'[c] = gamin_data_add_req(tab[c], reqno[c], p, type)
        PROVE  reqno'[d] >= 1 /\ \A e \in ToSet(tab'[d]) : e.reqno >= 1
    <3>1. ToSet(tab'[c]) = ToSet(tab[c]) \cup {NewEntry(reqno[c], p, type)}
      BY <1>0, <1>2, <2>3, AddMembers
    <3>2. NewEntry(reqno[c], p, type).reqno = reqno[c]
      BY DEF NewEntry
    <3> QED
      BY <1>0, <1>2, <2>3, <3>1, <3>2
  <2> QED
    BY <2>1, <2>2, <2>3, TableStep
<1> QED
  BY <1>1, <1>2

-----------------------------------------------------------------------------
(* Everything in flight agrees with the table. *)

(* The client's side of a step, seen from any client d: what is new on its *)
(* socket and in its table is at most one request, and they agree.         *)
LEMMA ConsistentClient ==
  ASSUME TypeOK, Ends, SortedUntilReset, Consistent,
         NEW c \in Clients, ClientNext(c), UNCHANGED serverVars
  PROVE  Consistent'
<1> SUFFICES ASSUME NEW d \in Clients, Healthy(d)', fd'[d] # NoSock,
                    NEW r \in 0 .. SeqSpan - 1, NEW p \in Paths \cup {NoPath},
                    InFlight(fd[d], r, p)'
             PROVE  Knows(d, r, p)'
  BY DEF Consistent
<1> USE NoSockAssumption
<1>0. /\ up \in [Socks -> Seq(Requests)] /\ down \in [Socks -> Seq(Packets)]
      /\ cOpen \in [Socks -> BOOLEAN] /\ sOpen \in [Socks -> BOOLEAN]
      /\ fd \in [Clients -> Socks \cup {NoSock}]
      /\ tab \in [Clients -> Seq(Entries)] /\ reqno \in [Clients -> Nat]
      /\ wasReset \in [Clients -> BOOLEAN]
  BY DEF TypeOK, SockTypeOK, ClientTypeOK
<1>u. UNCHANGED <<subs, eq>>
  BY DEF serverVars, connVars
<1>h. UserNums = {} /\ ~wasReset'[d] /\ reqno'[d] <= SeqSpan
  BY DEF Healthy
(* Nothing new, neither on the socket nor in the table. *)
<1>m. ASSUME fd'[d] = fd[d], reqno'[d] = reqno[d], wasReset'[d] = wasReset[d],
             Within(tab'[d], tab[d]),
             \A x \in ToSet(up'[fd[d]]) : x \in ToSet(up[fd[d]]) \/ x.type \notin ReqTypes,
             ToSet(down'[fd[d]]) \subseteq ToSet(down[fd[d]])
      PROVE  Knows(d, r, p)'
  <2>1. Healthy(d) /\ fd[d] # NoSock
    BY <1>h, <1>m DEF Healthy
  <2>2. InFlight(fd[d], r, p)
    BY <1>m, <1>u DEF InFlight
  <2>3. Knows(d, r, p)
    BY <2>1, <2>2 DEF Consistent
  <2> QED
    BY <1>m, <2>3 DEF Knows, Within
<1>w. Within(tab[d], tab[d])
  BY DEF Within
<1>o. d # c => /\ reqno'[d] = reqno[d] /\ tab'[d] = tab[d]
               /\ wasReset'[d] = wasReset[d]
  BY <1>h, TableStep
<1>t. \/ reqno'[c] = 1 /\ tab'[c] = <<>>
      \/ reqno'[c] = 1 /\ tab'[c] = tab[c] /\ wasReset'[c]
      \/ /\ reqno'[c] = reqno[c] /\ wasReset'[c] = wasReset[c]
         /\ Within(tab'[c], tab[c])
      \/ /\ reqno'[c] = reqno[c] + 1 /\ wasReset'[c] = wasReset[c]
         /\ \E q \in Paths, type \in ReqTypes :
              tab'[c] = gamin_data_add_req(tab[c], reqno[c], q, type)
  BY <1>h, TableStep
<1>1. CASE FAMOpen(c) \/ gamin_fork_server(c) \/ GiveUp(c) \/ FAMNoExists(c)
           \/ LostServer(c)
  <2>1. UNCHANGED <<reqno, tab, wasReset, fd, up, down>>
    BY <1>1 DEF FAMOpen, gamin_fork_server, GiveUp, FAMNoExists, LostServer,
       dataVars, sockVars
  <2> QED
    BY <1>m, <1>w, <2>1
<1>2. ASSUME NEW s \in Socks, gamin_data_new(c, s)
      PROVE  Knows(d, r, p)'
  <2>1. /\ Free(s) /\ up' = [up EXCEPT ![s] = <<Cred>> \o <<>>]
        /\ fd' = [fd EXCEPT ![c] = s] /\ down' = down
    BY <1>2 DEF gamin_data_new, Connect
  <2>2. CASE d = c
    <3>1. fd'[d] = s /\ up'[s] = <<Cred>>
      BY <1>0, <2>1, <2>2
    <3>2. subs'[s] = <<>> /\ eq'[s] = <<>> /\ down'[s] = <<>>
      BY <1>u, <2>1 DEF Free, Ends, ClientEnds, ServerEnds
    <3>3. ToSet(<<>>) = {} /\ ToSet(<<Cred>>) = {Cred}
      BY ToSetFacts, ToSetOne
    <3>4. Cred.type \notin ReqTypes
      BY DEF Cred, ReqTypes
    <3> QED
      BY <3>1, <3>2, <3>3, <3>4 DEF InFlight
  <2>3. CASE d # c
    <3>1. fd'[d] = fd[d] /\ fd[d] # s
      BY <1>0, <2>1, <2>3 DEF Free, Ends, ClientEnds
    <3>2. up'[fd[d]] = up[fd[d]]
      BY <1>0, <2>1, <3>1
    <3> QED
      BY <1>m, <1>o, <1>w, <2>1, <2>3, <3>1, <3>2
  <2> QED
    BY <2>2, <2>3
<1>3. ASSUME NEW s \in Socks, gamin_try_reconnect(c, s)
      PROVE  Knows(d, r, p)'
  <2>1. /\ Free(s) /\ up' = [up EXCEPT ![s] = <<Cred>> \o Resent(tab[c])]
        /\ fd' = [fd EXCEPT ![c] = s]
        /\ down' = [down EXCEPT ![fd[c]] = <<>>]
        /\ wasReset'[c]
    BY <1>0, <1>3 DEF gamin_try_reconnect, Connect, gamin_data_reset
  <2>2. d # c
    BY <1>h, <2>1
  <2>3. fd'[d] = fd[d] /\ fd[d] # s /\ fd[d] # fd[c]
    BY <1>0, <2>1, <2>2 DEF Free, Ends, ClientEnds
  <2>4. up'[fd[d]] = up[fd[d]] /\ down'[fd[d]] = down[fd[d]]
    BY <1>0, <2>1, <2>3
  <2> QED
    BY <1>m, <1>o, <1>w, <2>2, <2>3, <2>4
<1>4. ASSUME NEW q \in Paths, NEW type \in MonTypes, FAMMonitor(c, q, type)
      PROVE  Knows(d, r, p)'
  <2> DEFINE n == reqno[c]
             req == Request(c, n, q, type)
             e == NewEntry(n, q, type)
  <2>1. /\ fd[c] # NoSock /\ UNCHANGED <<fd, down, wasReset>>
        /\ tab' = [tab EXCEPT ![c] = gamin_data_add_req(tab[c], n, q, type)]
        /\ reqno' = [reqno EXCEPT ![c] = n + 1]
        /\ up' = Written(up, sOpen, fd[c], <<req>>)
    BY <1>4 DEF FAMMonitor, MayAsk, IsOpen
  <2>2. type \in ReqTypes /\ fd[c] \in Socks
    BY <1>0, <2>1, MonTypesAssumption
  <2>3. n \in Nat
    BY <1>0
  <2>4. CASE d # c
    <3>1. fd[d] # fd[c] /\ fd[d] \in Socks
      BY <1>0, <2>1, <2>4 DEF Ends, ClientEnds
    <3>2. up'[fd[d]] = up[fd[d]]
      BY <1>0, <2>1, <3>1 DEF Written
    <3> QED
      BY <1>m, <1>o, <1>w, <2>1, <2>4, <3>2
  <2>5. CASE d = c
    <3>1. reqno'[c] = n + 1 /\ n < SeqSpan /\ SeqSpan \in Nat
      BY <1>0, <1>h, <2>1, <2>5, SeqSpanAssumption
    <3>2. req.seq = n /\ req.path = q
      BY <2>3, <3>1 DEF Request, SeqOf16
    <3>3. <<req>> \in Seq(Requests)
      <4>1. (type = "DIR" /\ noexist[c]) \in BOOLEAN
        OBVIOUS
      <4>2. SeqOf16(n) \in 0 .. SeqSpan - 1
        BY <2>3, SeqOf16Type
      <4>3. req \in Monitors
        BY <2>2, <4>1, <4>2 DEF Request, Monitors
      <4>4. req \in Requests
        BY <4>3 DEF Requests
      <4> HIDE DEF req
      <4> QED
        BY <4>4
    <3>4. ToSet(tab'[c]) = ToSet(tab[c]) \cup {e}
      <4>1. tab'[c] = gamin_data_add_req(tab[c], n, q, type) /\ tab[c] \in Seq(Entries)
        BY <1>0, <2>1
      <4> QED
        BY <2>2, <2>3, <4>1, AddMembers
    <3>5. e.reqno = n /\ e.path = q
      BY DEF NewEntry
    <3> HIDE DEF req, e
    <3>6. ToSet(up'[fd[c]]) \subseteq ToSet(up[fd[c]]) \cup {req}
      <4>1. up \in [Socks -> Seq(Requests)]
        BY <1>0
      <4>2. ToSet(Written(up, sOpen, fd[c], <<req>>)[fd[c]])
              \subseteq ToSet(up[fd[c]]) \cup ToSet(<<req>>)
        BY <2>2, <3>3, <4>1, WrittenMembers, Zenon
      <4> QED
        BY <2>1, <4>2, ToSetOne, Zenon
    <3>7. \A f \in ToSet(tab[c]) : f.reqno < n
      <4>1. \A i \in 1 .. Len(tab[c]) : tab[c][i].reqno < n
        BY <1>h, <2>1, <2>5 DEF SortedUntilReset
      <4>2. tab[c] \in Seq(Entries)
        BY <1>0
      <4> QED
        BY <4>1, <4>2, ToSetFacts
    <3>8. Healthy(c) /\ fd'[c] = fd[c]
      BY <1>h, <2>1, <2>3, <2>5, <3>1 DEF Healthy
    <3>9. InFlight(fd[c], r, p) \/ (r = n /\ p = q)
      <4>1. InFlight(fd[c], r, p)'
        BY <2>5
      <4> QED
        BY <1>u, <2>1, <3>2, <3>6, <3>8, <4>1 DEF InFlight
    <3>10. CASE InFlight(fd[c], r, p)
      <4>1. Knows(c, r, p)
        BY <2>1, <3>8, <3>10 DEF Consistent
      <4>2. r < n /\ \A f \in ToSet(tab[c]) : f.reqno = r => f.path = p
        BY <4>1 DEF Knows
      <4>3. r < reqno'[c]
        BY <2>3, <3>1, <4>2
      <4>4. \A f \in ToSet(tab'[c]) : f.reqno = r => f.path = p
        BY <2>3, <3>4, <3>5, <4>2
      <4> QED
        BY <2>5, <4>3, <4>4 DEF Knows
    <3>11. CASE r = n /\ p = q
      <4>1. \A f \in ToSet(tab'[c]) : f.reqno = r => f.path = p
        <5>1. n \in Nat /\ ~(n < n)
          BY <2>3
        <5> QED
          BY <3>4, <3>5, <3>7, <3>11, <5>1
      <4>2. r < reqno'[c]
        BY <2>3, <3>1, <3>11
      <4> QED
        BY <2>5, <4>1, <4>2 DEF Knows
    <3> QED
      BY <3>9, <3>10, <3>11
  <2> QED
    BY <2>4, <2>5
<1>5. ASSUME NEW n, FAMCancelMonitor(c, n)
      PROVE  Knows(d, r, p)'
  <2> DEFINE req == [type |-> "CANCEL", seq |-> SeqOf16(n),
                     path |-> NoPath, noexists |-> FALSE]
             i == gamin_data_get_req_idx(tab[c], n)
  <2>1. /\ fd[c] # NoSock /\ UNCHANGED <<fd, down, wasReset, reqno>>
        /\ up' = Written(up, sOpen, fd[c], <<req>>)
        /\ i \in 1 .. Len(tab[c])
        /\ tab' = [tab EXCEPT ![c] = gamin_data_cancel(tab[c], i)]
    BY <1>5 DEF FAMCancelMonitor, MayAsk, IsOpen
  <2>2. fd[c] \in Socks /\ fd[d] \in Socks
    BY <1>0, <2>1
  <2>3. req.type \notin ReqTypes
    BY DEF ReqTypes
  <2> HIDE DEF req, i
  <2>4. \A x \in ToSet(up'[fd[d]]) : x \in ToSet(up[fd[d]]) \/ x.type \notin ReqTypes
    <3>1. \/ up'[fd[d]] = up[fd[d]]
          \/ up'[fd[d]] = up[fd[d]] \o <<req>>
      BY <1>0, <2>1, <2>2 DEF Written
    <3>2. ToSet(up[fd[d]] \o <<req>>) = ToSet(up[fd[d]]) \cup {req}
      <4> DEFINE S == Requests \cup {req}
      <4>1. up[fd[d]] \in Seq(Requests)
        BY <1>0, <2>2
      <4>2. Requests \subseteq S /\ req \in S
        OBVIOUS
      <4> HIDE DEF S
      <4>3. <<req>> \in Seq(S)
        BY <4>2
      <4>4. up[fd[d]] \in Seq(S)
        BY <4>1, <4>2, SeqMonotonic, Zenon
      <4>5. \A u, v \in Seq(S) : ToSet(u \o v) = ToSet(u) \cup ToSet(v)
        BY ToSetConcat, Zenon
      <4>6. ToSet(up[fd[d]] \o <<req>>) = ToSet(up[fd[d]]) \cup ToSet(<<req>>)
        BY <4>3, <4>4, <4>5, Zenon
      <4> QED
        BY <4>6, ToSetOne, Zenon
    <3> QED
      BY <2>3, <3>1, <3>2
  <2>5. Within([tab[c] EXCEPT ![i].state = "CANCELLED"], tab[c])
    <3>1. "CANCELLED" \in ReqStates
      BY DEF ReqStates
    <3>2. tab[c] \in Seq(Entries)
      BY <1>0
    <3> QED
      BY <2>1, <3>1, <3>2, CancelKeeps, Zenon
  <2>6. Within(gamin_data_cancel(tab[c], i), tab[c])
    BY <2>5, Zenon DEF gamin_data_cancel
  <2>7. Within(tab'[d], tab[d])
    BY <1>0, <1>w, <2>1, <2>6
  <2> QED
    BY <1>m, <2>1, <2>4, <2>7
<1>6. CASE FAMClose(c)
  <2>1. /\ fd' = [fd EXCEPT ![c] = NoSock] /\ up' = up
        /\ down' = [down EXCEPT ![fd[c]] = <<>>]
    BY <1>6 DEF FAMClose
  <2>2. d # c /\ fd'[d] = fd[d]
    BY <1>0, <2>1
  <2>3. fd[d] # fd[c]
    BY <2>2 DEF Ends, ClientEnds
  <2>4. down'[fd[d]] = down[fd[d]]
    BY <1>0, <2>1, <2>3
  <2> QED
    BY <1>m, <1>o, <1>w, <2>1, <2>2, <2>4
<1>7. CASE gamin_check_cred(c) \/ FAMPending(c)
  <2>1. /\ fd[c] # NoSock /\ down[fd[c]] # <<>>
        /\ down' = [down EXCEPT ![fd[c]] = Tail(down[fd[c]])]
        /\ UNCHANGED <<fd, up, reqno, wasReset>>
    BY <1>7 DEF gamin_check_cred, FAMPending, IsOpen
  <2>2. fd[c] \in Socks /\ fd[d] \in Socks
    BY <1>0, <2>1
  <2>3. ToSet(down'[fd[d]]) \subseteq ToSet(down[fd[d]])
    <3>1. down \in [Socks -> Seq(Packets)]
      BY <1>0
    <3>2. ToSet([down EXCEPT ![fd[c]] = Tail(down[fd[c]])][fd[d]])
            \subseteq ToSet(down[fd[d]])
      BY <2>1, <2>2, <3>1, ReadMembers, Zenon
    <3> QED
      BY <2>1, <3>2, Zenon
  <2>4. Within(tab'[d], tab[d])
    <3>1. CASE gamin_check_cred(c)
      BY <1>w, <3>1 DEF gamin_check_cred
    <3>2. CASE FAMPending(c)
      <4>1. tab' = [tab EXCEPT ![c] = Confirm(tab[c], Head(down[fd[c]]))]
        BY <3>2 DEF FAMPending
      <4>2. Within(Confirm(tab[c], Head(down[fd[c]])), tab[c])
        BY <1>0, ConfirmKeeps
      <4> QED
        BY <1>0, <1>w, <4>1, <4>2
    <3> QED
      BY <1>7, <3>1, <3>2
  <2> QED
    BY <1>m, <2>1, <2>3, <2>4
<1>8. CASE FAMNextEvent(c)
  <2> DEFINE t == IF ready[c].type = "Ack"
                  THEN gamin_data_del_req(tab[c], ready[c].seq) ELSE tab[c]
  <2>1. /\ tab' = [tab EXCEPT ![c] = t]
        /\ UNCHANGED <<fd, up, down, reqno, wasReset>>
    BY <1>8 DEF FAMNextEvent, sockVars
  <2>2. Within(t, tab[c])
    <3>1. Within(tab[c], tab[c])
      BY DEF Within
    <3> QED
      BY <1>0, <3>1, DelKeeps
  <2> HIDE DEF t
  <2>3. Within(tab'[d], tab[d])
    BY <1>0, <1>w, <2>1, <2>2
  <2> QED
    BY <1>m, <2>1, <2>3
<1>9. ASSUME NEW q, NEW type, NEW n \in UserNums, FAMMonitor2(c, q, type, n)
      PROVE  Knows(d, r, p)'
  BY <1>h, <1>9
<1> QED
  BY <1>1, <1>2, <1>3, <1>4, <1>5, <1>6, <1>7, <1>8, <1>9 DEF ClientNext

LEMMA ConsistentServer ==
  ASSUME TypeOK, Consistent, ServerNext, UNCHANGED clientVars
  PROVE  Consistent'
<1> SUFFICES ASSUME NEW d \in Clients, Healthy(d)', fd'[d] # NoSock,
                    NEW r \in 0 .. SeqSpan - 1, NEW p \in Paths \cup {NoPath},
                    InFlight(fd[d], r, p)'
             PROVE  Knows(d, r, p)'
  BY DEF Consistent
<1>1. UNCHANGED <<fd, reqno, tab, wasReset>>
  BY DEF clientVars, dataVars
<1>2. fd[d] \in Socks
  BY <1>1 DEF TypeOK, ClientTypeOK
<1>3. Healthy(d) /\ fd[d] # NoSock
  BY <1>1 DEF Healthy
<1> DEFINE z == fd[d]
<1>4. InFlight(z, r, p)
  <2>1. fd' = fd
    BY <1>1
  <2>2. z \in Socks
    BY <1>2
  <2>3. \A x \in Socks : InFlight(x, r, p)' => InFlight(x, r, p)
    BY NothingNew
  <2>4. \A x \in Socks : x = fd'[d] => InFlight(x, r, p)'
    BY <2>1 DEF InFlight
  <2> QED
    BY <2>1, <2>2, <2>3, <2>4
<1>5. Knows(d, r, p)
  BY <1>3, <1>4 DEF Consistent
<1> QED
  BY <1>1, <1>5 DEF Knows

-----------------------------------------------------------------------------
(* The event read from the socket is the only one the table is searched    *)
(* for; the search may miss a request, but what it finds has the number.   *)
LEMMA IdxSound ==
  ASSUME NEW t, NEW r, gamin_data_get_req_idx(t, r) \in 1 .. Len(t)
  PROVE  t[gamin_data_get_req_idx(t, r)].reqno = r
<1>1. 0 \notin 1 .. Len(t)
  OBVIOUS
<1> QED
  BY <1>1 DEF gamin_data_get_req_idx

LEMMA AttributionClient ==
  ASSUME TypeOK, Consistent, Numbered, Attribution,
         NEW c \in Clients, ClientNext(c)
  PROVE  Attribution'
<1> SUFFICES ASSUME NEW d \in Clients, ready'[d] # NoEvent, Healthy(d)'
             PROVE  ready'[d].owner = ready'[d].path
  BY DEF Attribution
<1>0. /\ down \in [Socks -> Seq(Packets)]
      /\ fd \in [Clients -> Socks \cup {NoSock}]
      /\ tab \in [Clients -> Seq(Entries)] /\ reqno \in [Clients -> Nat]
      /\ wasReset \in [Clients -> BOOLEAN] /\ ready \in [Clients -> Events]
  BY DEF TypeOK, SockTypeOK, ClientTypeOK
<1>h. UserNums = {} /\ ~wasReset'[d] /\ reqno'[d] <= SeqSpan /\ SeqSpan \in Nat
  BY SeqSpanAssumption DEF Healthy
<1>m. ASSUME ready'[d] = ready[d], wasReset'[d] = wasReset[d],
             reqno'[d] = reqno[d] \/ reqno'[d] = reqno[d] + 1
      PROVE  ready'[d].owner = ready'[d].path
  <2>1. Healthy(d)
    BY <1>0, <1>h, <1>m DEF Healthy
  <2> QED
    BY <1>m, <2>1 DEF Attribution
<1>o. d # c => wasReset'[d] = wasReset[d] /\ reqno'[d] = reqno[d]
  BY <1>h, TableStep
<1>a. UNCHANGED <<ready, reqno, wasReset>> => ready'[d].owner = ready'[d].path
  BY <1>m
<1>b. ready' = [ready EXCEPT ![c] = NoEvent] => ready'[d].owner = ready'[d].path
  BY <1>0, <1>m, <1>o
<1>1. CASE FAMOpen(c) \/ gamin_fork_server(c) \/ GiveUp(c) \/ FAMNoExists(c)
           \/ gamin_check_cred(c) \/ LostServer(c)
  <2>1. UNCHANGED <<ready, reqno, wasReset>>
    BY <1>1 DEF FAMOpen, gamin_fork_server, GiveUp, FAMNoExists,
       gamin_check_cred, LostServer, dataVars
  <2> QED
    BY <1>a, <2>1
<1>2. ASSUME NEW s \in Socks,
             gamin_data_new(c, s) \/ gamin_try_reconnect(c, s)
      PROVE  ready'[d].owner = ready'[d].path
  BY <1>b, <1>2 DEF gamin_data_new, FreshData, gamin_try_reconnect,
     gamin_data_reset
<1>3. CASE FAMClose(c) \/ FAMNextEvent(c)
  BY <1>b, <1>3 DEF FAMClose, FreshData, FAMNextEvent
<1>4. ASSUME NEW q \in Paths, NEW type \in MonTypes, FAMMonitor(c, q, type)
      PROVE  ready'[d].owner = ready'[d].path
  <2>1. UNCHANGED <<ready, wasReset>> /\ reqno' = [reqno EXCEPT ![c] = @ + 1]
    BY <1>4 DEF FAMMonitor
  <2> QED
    BY <1>0, <1>m, <2>1
<1>5. ASSUME NEW n, FAMCancelMonitor(c, n)
      PROVE  ready'[d].owner = ready'[d].path
  BY <1>a, <1>5 DEF FAMCancelMonitor
<1>6. ASSUME NEW q, NEW type, NEW n \in UserNums, FAMMonitor2(c, q, type, n)
      PROVE  ready'[d].owner = ready'[d].path
  BY <1>h, <1>6
<1>7. CASE FAMPending(c)
  <2> DEFINE e == Head(down[fd[c]])
             t == tab[c]
             i == gamin_data_get_req_idx(t, e.seq)
  <2>1. /\ fd[c] # NoSock /\ down[fd[c]] # <<>>
        /\ ready' = [ready EXCEPT ![c] =
                       IF Accepted(t, restarted[c], e) THEN Decoded(t, e) ELSE NoEvent]
        /\ UNCHANGED <<reqno, wasReset>>
    BY <1>7 DEF FAMPending, IsOpen
  <2>2. CASE d # c
    BY <1>0, <1>m, <2>1, <2>2
  <2>3. CASE d = c
    <3>1. Accepted(t, restarted[c], e) /\ ready'[c] = Decoded(t, e)
      BY <1>0, <2>1, <2>3
    <3>2. i \in 1 .. Len(t)
      BY <3>1 DEF Accepted, Wanted
    <3>3. t[i].reqno = e.seq
      BY <3>2, IdxSound
    <3>4. fd[c] \in Socks /\ e \in ToSet(down[fd[c]]) /\ e \in Packets
      BY <1>0, <2>1, ToSetFacts
    <3>5. ready'[c].owner = t[i].path /\ ready'[c].path = e.path
      BY <3>1 DEF Decoded
    <3> HIDE DEF i, e
    <3>6. t[i] \in ToSet(t)
      BY <1>0, <3>2, ToSetFacts
    <3>7. Healthy(c)
      BY <1>h, <2>1, <2>3 DEF Healthy
    <3>8. e.seq >= 1
      BY <1>h, <3>3, <3>6 DEF Numbered
    <3>9. e.seq \in 0 .. SeqSpan - 1 /\ e.path \in Paths \cup {NoPath}
      BY <3>4, SeqSpanAssumption DEF Packets, ServerByte
    <3>10. CASE e.type # "CRED"
      <4>1. InFlight(fd[c], e.seq, e.path)
        BY <3>4, <3>10 DEF InFlight
      <4>2. Knows(c, e.seq, e.path)
        BY <2>1, <3>7, <3>9, <4>1 DEF Consistent
      <4>3. t[i].path = e.path
        BY <3>3, <3>6, <4>2 DEF Knows
      <4> QED
        BY <2>3, <3>5, <4>3
    <3>11. CASE e.type = "CRED"
      <4>1. e.seq = 0
        BY <3>4, <3>11 DEF Packets, EventTypes, ServerByte
      <4> QED
        BY <3>8, <4>1
    <3> QED
      BY <3>10, <3>11
  <2> QED
    BY <2>2, <2>3
<1> QED
  BY <1>1, <1>2, <1>3, <1>4, <1>5, <1>6, <1>7 DEF ClientNext

(* The inductive invariant. *)
LEMMA InFlightAlways == Spec => [](Consistent /\ Numbered /\ Attribution)
<1> DEFINE Inv == Consistent /\ Numbered /\ Attribution
<1>1. Init => Inv
  <2>1. ToSet(<<>>) = {}
    BY DEF ToSet
  <2> QED
    BY <2>1 DEF Init, SockInit, ClientInit, ServerInit, Consistent, Numbered,
       Attribution
<1>2. TypeOK /\ Ends /\ SortedUntilReset /\ Inv /\ [Next]_vars => Inv'
  <2> SUFFICES ASSUME TypeOK, Ends, SortedUntilReset, Inv, [Next]_vars
               PROVE  Inv'
    OBVIOUS
  <2>1. CASE ClientStep
    <3>1. PICK c \in Clients : ClientNext(c)
      BY <2>1 DEF ClientStep
    <3> QED
      BY <2>1, <3>1, ConsistentClient, NumberedStep, AttributionClient
         DEF ClientStep
  <2>2. CASE ServerStep
    <3>1. UNCHANGED <<reqno, tab, ready, wasReset>>
      BY <2>2 DEF ServerStep, clientVars, dataVars
    <3>2. Numbered' /\ Attribution'
      BY <3>1 DEF Numbered, Attribution, Healthy
    <3> QED
      BY <2>2, <3>2, ConsistentServer DEF ServerStep
  <2>3. CASE UNCHANGED vars
    BY <2>3 DEF vars, sockVars, clientVars, dataVars, serverVars, connVars,
       Consistent, Numbered, Attribution, Healthy, InFlight, Knows
  <2> QED
    BY <2>1, <2>2, <2>3 DEF Next
<1>3. Inv => Consistent /\ Numbered /\ Attribution
  OBVIOUS
<1> HIDE DEF Inv
<1> QED
  BY <1>1, <1>2, <1>3, TypeCorrect, EndsAlways, SortedAlways, PTL DEF Spec

(* The event FAMNextEvent returns is about the path of the request whose   *)
(* number and user data it carries: for any number of clients, sockets and *)
(* paths, and any order of requests, cancellations, events, crashes and    *)
(* closes, on a connection that was not re-established and whose numbers   *)
(* fit the 16 bit field.                                                   *)
THEOREM AttributionAlways == Spec => []Attribution
  BY InFlightAlways, PTL
=============================================================================
