-------------------------- MODULE GamLedgerProofs --------------------------
(***************************************************************************)
(* What the server holds for a client agrees with what the client asked.   *)
(*                                                                         *)
(* Both results are about sums, so the invariants count.  For a wire       *)
(* number q, the monitors a connection has in flight and the subscriptions *)
(* its listener has are credits, the cancellations in flight are debits.   *)
(* Covered says that the debits of every prefix of the channel are covered *)
(* when the server gets to them, Backed that the credits left suffice for  *)
(* every request the client may still cancel: no cancellation finds the    *)
(* listener without its subscription (NoSpuriousClose).  For a connection  *)
(* that never lost its server no number has two credits, and Books says    *)
(* which requests have one: once everything is read, the subscriptions are *)
(* the requests that were not cancelled (Agreement).                       *)
(***************************************************************************)
EXTENDS GamAttributionProofs, FiniteSetTheorems

-----------------------------------------------------------------------------
(* Counting in a sequence. *)

(* How many of the first k elements of s are in M. *)
Count(s, k, M) == Cardinality({i \in 1 .. k : s[i] \in M})

One(x, M) == IF x \in M THEN 1 ELSE 0

LEMMA CountFinite ==
  ASSUME NEW s, NEW M, NEW k \in Nat
  PROVE  IsFiniteSet({i \in 1 .. k : s[i] \in M})
<1>1. IsFiniteSet(1 .. k)
  BY FS_Interval
<1>2. {i \in 1 .. k : s[i] \in M} \in SUBSET (1 .. k)
  OBVIOUS
<1> QED
  BY <1>1, <1>2, FS_Subset

LEMMA CountType ==
  ASSUME NEW s, NEW M, NEW k \in Nat
  PROVE  Count(s, k, M) \in Nat
  BY CountFinite, FS_CardinalityType DEF Count

LEMMA CountZero ==
  ASSUME NEW s, NEW M
  PROVE  Count(s, 0, M) = 0
<1>1. {i \in 1 .. 0 : s[i] \in M} = {}
  OBVIOUS
<1> QED
  BY <1>1, FS_EmptySet DEF Count

LEMMA CountNone ==
  ASSUME NEW s, NEW M, NEW k \in Nat
  PROVE  Count(s, k, M) = 0 <=> \A i \in 1 .. k : s[i] \notin M
<1> DEFINE I == {i \in 1 .. k : s[i] \in M}
<1>1. I = {} <=> \A i \in 1 .. k : s[i] \notin M
  OBVIOUS
<1>2. IsFiniteSet(I) /\ Count(s, k, M) = Cardinality(I)
  BY CountFinite DEF Count
<1> HIDE DEF I
<1>3. Cardinality(I) = 0 <=> I = {}
  BY <1>2, FS_EmptySet
<1> QED
  BY <1>1, <1>2, <1>3

LEMMA CountTwo ==
  ASSUME NEW s, NEW M, NEW k \in Nat, Count(s, k, M) <= 1,
         NEW i \in 1 .. k, NEW j \in 1 .. k, s[i] \in M, s[j] \in M
  PROVE  i = j
<1> DEFINE I == {x \in 1 .. k : s[x] \in M}
<1>1. IsFiniteSet(I) /\ i \in I /\ j \in I /\ Cardinality(I) <= 1
  BY CountFinite DEF Count
<1> HIDE DEF I
<1>2. Cardinality(I) \in Nat
  BY <1>1, FS_CardinalityType
<1>3. Cardinality(I) # 0
  BY <1>1, FS_EmptySet
<1>4. Cardinality(I) = 1
  BY <1>1, <1>2, <1>3
<1>5. PICK x : I = {x}
  BY <1>1, <1>4, FS_Singleton
<1> QED
  BY <1>1, <1>5

LEMMA CountAgree ==
  ASSUME NEW s, NEW t, NEW M, NEW N, NEW k,
         \A i \in 1 .. k : s[i] \in M <=> t[i] \in N
  PROVE  Count(s, k, M) = Count(t, k, N)
<1>1. {i \in 1 .. k : s[i] \in M} = {i \in 1 .. k : t[i] \in N}
  OBVIOUS
<1> QED
  BY <1>1 DEF Count

LEMMA CountLess ==
  ASSUME NEW s, NEW t, NEW M, NEW N, NEW k \in Nat,
         \A i \in 1 .. k : s[i] \in M => t[i] \in N
  PROVE  Count(s, k, M) <= Count(t, k, N)
<1> DEFINE T == {i \in 1 .. k : s[i] \in M}
           S == {i \in 1 .. k : t[i] \in N}
<1>1. T \in SUBSET S
  OBVIOUS
<1>2. IsFiniteSet(S)
  BY CountFinite
<1> HIDE DEF S, T
<1>3. Cardinality(T) <= Cardinality(S)
  BY <1>1, <1>2, FS_Subset
<1> QED
  BY <1>3 DEF Count, S, T

(* The elements at every index but j of the first k + 1. *)
LEMMA CountBut ==
  ASSUME NEW t, NEW M, NEW k \in Nat, NEW j \in 1 .. k
  PROVE  /\ IsFiniteSet({i \in 1 .. k : t[i] \in M} \ {j})
         /\ Cardinality({i \in 1 .. k : t[i] \in M} \ {j}) \in Nat
         /\ Count(t, k, M) =
              Cardinality({i \in 1 .. k : t[i] \in M} \ {j}) + One(t[j], M)
<1> DEFINE I == {i \in 1 .. k : t[i] \in M}
<1>1. IsFiniteSet(I) /\ Count(t, k, M) = Cardinality(I)
  BY CountFinite DEF Count
<1>2. j \in I <=> t[j] \in M
  OBVIOUS
<1> HIDE DEF I
<1>3. /\ IsFiniteSet(I \ {j})
      /\ Cardinality(I \ {j}) =
           IF j \in I THEN Cardinality(I) - 1 ELSE Cardinality(I)
  BY <1>1, FS_RemoveElement
<1>4. Cardinality(I) \in Nat /\ Cardinality(I \ {j}) \in Nat
  BY <1>1, <1>3, FS_CardinalityType
<1>5. Count(t, k, M) = Cardinality(I \ {j}) + One(t[j], M)
  BY <1>1, <1>2, <1>3, <1>4 DEF One
<1> QED
  BY <1>3, <1>4, <1>5 DEF I

(* t is s with one element more, at j. *)
LEMMA CountSkip ==
  ASSUME NEW s, NEW t, NEW M, NEW k \in Nat, NEW j \in 1 .. k + 1,
         \A i \in 1 .. k : s[i] = IF i < j THEN t[i] ELSE t[i + 1]
  PROVE  Count(t, k + 1, M) = Count(s, k, M) + One(t[j], M)
<1> DEFINE I == {i \in 1 .. k : s[i] \in M}
           J == {i \in 1 .. k + 1 : t[i] \in M} \ {j}
           f == [i \in I |-> IF i < j THEN i ELSE i + 1]
<1>1. f \in [I -> J]
  OBVIOUS
<1>2. \A a, b \in I : f[a] = f[b] => a = b
  OBVIOUS
<1>3. ASSUME NEW y \in J
      PROVE  \E x \in I : f[x] = y
  <2>1. CASE y < j
    <3>1. y \in I /\ f[y] = y
      BY <2>1
    <3> QED
      BY <3>1
  <2>2. CASE y > j
    <3>1. y - 1 \in I
      BY <2>2
    <3>2. f[y - 1] = y
      BY <2>2, <3>1
    <3> QED
      BY <3>1, <3>2
  <2> QED
    BY <2>1, <2>2
<1>4. ExistsBijection(I, J)
  <2>1. f \in Bijection(I, J)
    BY <1>1, <1>2, <1>3 DEF Bijection, Injection, Surjection, IsInjective
  <2> QED
    BY <2>1 DEF ExistsBijection
<1>5. IsFiniteSet(I) /\ Count(s, k, M) = Cardinality(I)
  BY CountFinite DEF Count
<1>6. Count(t, k + 1, M) = Cardinality(J) + One(t[j], M)
  <2>1. k + 1 \in Nat
    OBVIOUS
  <2> QED
    BY <2>1, CountBut, Zenon
<1> HIDE DEF I, J
<1>7. Cardinality(J) = Cardinality(I)
  BY <1>4, <1>5, FS_Bijection
<1> QED
  BY <1>5, <1>6, <1>7

(* t is s but for the element at j. *)
LEMMA CountUpdate ==
  ASSUME NEW s, NEW t, NEW M, NEW k \in Nat, NEW j \in 1 .. k,
         \A i \in 1 .. k : i # j => s[i] = t[i]
  PROVE  Count(t, k, M) + One(s[j], M) = Count(s, k, M) + One(t[j], M)
<1>1. {i \in 1 .. k : s[i] \in M} \ {j} = {i \in 1 .. k : t[i] \in M} \ {j}
  OBVIOUS
<1> DEFINE n == Cardinality({i \in 1 .. k : s[i] \in M} \ {j})
<1>2. n \in Nat /\ Count(s, k, M) = n + One(s[j], M)
  BY CountBut
<1>3. Count(t, k, M) = n + One(t[j], M)
  BY <1>1, CountBut
<1> HIDE DEF n
<1>4. One(s[j], M) \in Nat /\ One(t[j], M) \in Nat
  BY DEF One
<1> QED
  BY <1>2, <1>3, <1>4
-----------------------------------------------------------------------------
(* Counting through the operations on sequences. *)

LEMMA CountAppend ==
  ASSUME NEW S, NEW t \in Seq(S), NEW x \in S, NEW M
  PROVE  /\ \A k \in 0 .. Len(t) : Count(t \o <<x>>, k, M) = Count(t, k, M)
         /\ Count(t \o <<x>>, Len(t) + 1, M) = Count(t, Len(t), M) + One(x, M)
<1> DEFINE u == t \o <<x>>
<1>1. /\ Len(t) \in Nat /\ u[Len(t) + 1] = x
      /\ \A i \in 1 .. Len(t) : u[i] = t[i]
  OBVIOUS
<1> HIDE DEF u
<1>2. ASSUME NEW k \in 0 .. Len(t)
      PROVE  Count(u, k, M) = Count(t, k, M)
  <2>1. \A i \in 1 .. k : u[i] \in M <=> t[i] \in M
    BY <1>1
  <2> QED
    BY <2>1, CountAgree
<1>3. Count(u, Len(t) + 1, M) = Count(t, Len(t), M) + One(u[Len(t) + 1], M)
  <2>1. Len(t) + 1 \in 1 .. Len(t) + 1
    BY <1>1
  <2>2. \A i \in 1 .. Len(t) :
          t[i] = IF i < Len(t) + 1 THEN u[i] ELSE u[i + 1]
    BY <1>1
  <2> QED
    BY <1>1, <2>1, <2>2, CountSkip
<1> QED
  BY <1>1, <1>2, <1>3 DEF u

LEMMA CountTail ==
  ASSUME NEW S, NEW t \in Seq(S), t # <<>>, NEW M, NEW k \in 0 .. Len(t) - 1
  PROVE  Count(t, k + 1, M) = Count(Tail(t), k, M) + One(Head(t), M)
<1> DEFINE u == Tail(t)
<1>1. /\ Head(t) = t[1] /\ \A i \in 1 .. k : u[i] = t[i + 1]
      /\ k \in Nat /\ 1 \in 1 .. k + 1
  OBVIOUS
<1> HIDE DEF u
<1>2. \A i \in 1 .. k : u[i] = IF i < 1 THEN t[i] ELSE t[i + 1]
  BY <1>1
<1>3. Count(t, k + 1, M) = Count(u, k, M) + One(t[1], M)
  BY <1>1, <1>2, CountSkip
<1> QED
  BY <1>1, <1>3 DEF u

LEMMA CountCons ==
  ASSUME NEW S, NEW t \in Seq(S), NEW x \in S, NEW M, NEW k \in 0 .. Len(t)
  PROVE  Count(<<x>> \o t, k + 1, M) = Count(t, k, M) + One(x, M)
<1> DEFINE u == <<x>> \o t
<1>1. /\ u[1] = x /\ \A i \in 1 .. k : u[i + 1] = t[i]
      /\ k \in Nat /\ 1 \in 1 .. k + 1
  OBVIOUS
<1> HIDE DEF u
<1>2. \A i \in 1 .. k : t[i] = IF i < 1 THEN u[i] ELSE u[i + 1]
  BY <1>1
<1>3. Count(u, k + 1, M) = Count(t, k, M) + One(u[1], M)
  BY <1>1, <1>2, CountSkip
<1> QED
  BY <1>1, <1>3 DEF u

LEMMA CountRemoveAt ==
  ASSUME NEW S, NEW t \in Seq(S), NEW j \in 1 .. Len(t), NEW M
  PROVE  Count(t, Len(t), M) =
           Count(RemoveAt(t, j), Len(t) - 1, M) + One(t[j], M)
<1> DEFINE u == RemoveAt(t, j)
           k == Len(t) - 1
<1>1. \A i \in 1 .. k : u[i] = IF i < j THEN t[i] ELSE t[i + 1]
  BY RemoveAtType
<1>2. k \in Nat /\ k + 1 = Len(t)
  OBVIOUS
<1> HIDE DEF u, k
<1>3. Count(t, k + 1, M) = Count(u, k, M) + One(t[j], M)
  BY <1>1, <1>2, CountSkip
<1> QED
  BY <1>2, <1>3 DEF u, k

LEMMA CountInsertAt ==
  ASSUME NEW S, NEW t \in Seq(S), NEW j \in 1 .. Len(t) + 1, NEW x \in S, NEW M
  PROVE  Count(InsertAt(t, j, x), Len(t) + 1, M) =
           Count(t, Len(t), M) + One(x, M)
<1> DEFINE u == InsertAt(t, j, x)
           k == Len(t)
<1>1. \A i \in 1 .. k : t[i] = IF i < j THEN u[i] ELSE u[i + 1]
  BY InsertAtType
<1>2. u[j] = x
  BY InsertAtType
<1>3. k \in Nat /\ j \in 1 .. k + 1
  OBVIOUS
<1> HIDE DEF u, k
<1>4. Count(u, k + 1, M) = Count(t, k, M) + One(u[j], M)
  BY <1>1, <1>3, CountSkip
<1> QED
  BY <1>2, <1>4 DEF u, k
-----------------------------------------------------------------------------
(* The ledger of a connection: the channel u, the subscriptions b and the  *)
(* table t of its client. *)

Wire == 0 .. SeqSpan - 1

SubsOf(q)     == {x \in Subscriptions : x.reqno = q}
MonitorsOf(q) == {x \in Monitors : x.seq = q}
CancelsOf(q)  == {x \in Requests : x.type = "CANCEL" /\ x.seq = q}
LiveOf(q)     == {x \in Entries : x.state # "CANCELLED" /\ SeqOf16(x.reqno) = q}

Held(b, q)    == Count(b, Len(b), SubsOf(q))
Live(t, q)    == Count(t, Len(t), LiveOf(q))

(* The server covers every cancellation when it reads it. *)
Covered(u, b) ==
  \A q \in Wire, k \in 0 .. Len(u) :
    Count(u, k, CancelsOf(q)) <= Held(b, q) + Count(u, k, MonitorsOf(q))

(* What is left backs every request that may still be cancelled. *)
Backed(u, b, t) ==
  \A q \in Wire :
    Live(t, q) + Count(u, Len(u), CancelsOf(q))
      <= Held(b, q) + Count(u, Len(u), MonitorsOf(q))

LEMMA HeldType ==
  ASSUME NEW b \in Seq(Subscriptions), NEW q
  PROVE  Held(b, q) \in Nat
  BY CountType DEF Held

LEMMA LiveType ==
  ASSUME NEW t \in Seq(Entries), NEW q
  PROVE  Live(t, q) \in Nat
  BY CountType DEF Live

LEMMA OneOfEach ==
  ASSUME NEW q
  PROVE  /\ \A x, M : One(x, M) \in {0, 1}
         /\ \A x \in Monitors : /\ One(x, CancelsOf(q)) = 0
                                /\ One(x, MonitorsOf(q)) = IF x.seq = q THEN 1 ELSE 0
         /\ \A x \in Requests :
              /\ x.type = "CANCEL" =>
                   /\ One(x, MonitorsOf(q)) = 0
                   /\ One(x, CancelsOf(q)) = IF x.seq = q THEN 1 ELSE 0
              /\ x.type = "CRED" =>
                   /\ One(x, MonitorsOf(q)) = 0
                   /\ One(x, CancelsOf(q)) = 0
<1>1. \A x, M : One(x, M) \in {0, 1}
  BY DEF One
<1>2. ASSUME NEW x \in Monitors
      PROVE  /\ x \notin CancelsOf(q)
             /\ x \in MonitorsOf(q) <=> x.seq = q
  BY DEF Monitors, ReqTypes, CancelsOf, MonitorsOf
<1>3. ASSUME NEW x \in Requests, x.type = "CANCEL"
      PROVE  /\ x \notin MonitorsOf(q)
             /\ x \in CancelsOf(q) <=> x.seq = q
  BY <1>3 DEF Monitors, ReqTypes, CancelsOf, MonitorsOf
<1>4. ASSUME NEW x \in Requests, x.type = "CRED"
      PROVE  x \notin MonitorsOf(q) /\ x \notin CancelsOf(q)
  BY <1>4 DEF Monitors, ReqTypes, CancelsOf, MonitorsOf
<1> QED
  BY <1>1, <1>2, <1>3, <1>4 DEF One

(* The client writes x, and its table becomes v. *)
LEMMA LedgerWrite ==
  ASSUME NEW u \in Seq(Requests), NEW b \in Seq(Subscriptions),
         NEW t \in Seq(Entries), NEW v \in Seq(Entries), NEW x \in Requests,
         Covered(u, b), Backed(u, b, t),
         \A q \in Wire : Live(v, q) + One(x, CancelsOf(q))
                           <= Live(t, q) + One(x, MonitorsOf(q))
  PROVE  Covered(u \o <<x>>, b) /\ Backed(u \o <<x>>, b, v)
<1>0. Len(u) \in Nat /\ Len(u \o <<x>>) = Len(u) + 1
  OBVIOUS
<1>1. ASSUME NEW q \in Wire
      PROVE  Live(v, q) + Count(u \o <<x>>, Len(u) + 1, CancelsOf(q))
               <= Held(b, q) + Count(u \o <<x>>, Len(u) + 1, MonitorsOf(q))
  <2>1. /\ Count(u \o <<x>>, Len(u) + 1, CancelsOf(q))
             = Count(u, Len(u), CancelsOf(q)) + One(x, CancelsOf(q))
        /\ Count(u \o <<x>>, Len(u) + 1, MonitorsOf(q))
             = Count(u, Len(u), MonitorsOf(q)) + One(x, MonitorsOf(q))
    BY CountAppend
  <2>2. Live(t, q) + Count(u, Len(u), CancelsOf(q))
          <= Held(b, q) + Count(u, Len(u), MonitorsOf(q))
    BY DEF Backed
  <2>3. /\ Live(t, q) \in Nat /\ Live(v, q) \in Nat /\ Held(b, q) \in Nat
        /\ Count(u, Len(u), CancelsOf(q)) \in Nat
        /\ Count(u, Len(u), MonitorsOf(q)) \in Nat
    BY <1>0, LiveType, HeldType, CountType
  <2>4. One(x, CancelsOf(q)) \in Nat /\ One(x, MonitorsOf(q)) \in Nat
    BY DEF One
  <2>5. Live(v, q) + One(x, CancelsOf(q)) <= Live(t, q) + One(x, MonitorsOf(q))
    OBVIOUS
  <2>6. \A lt, lv, h, cu, mu, cx, mx \in Nat :
          lt + cu <= h + mu /\ lv + cx <= lt + mx
            => lv + (cu + cx) <= h + (mu + mx)
    OBVIOUS
  <2>7. Live(v, q) + (Count(u, Len(u), CancelsOf(q)) + One(x, CancelsOf(q)))
          <= Held(b, q) + (Count(u, Len(u), MonitorsOf(q)) + One(x, MonitorsOf(q)))
    BY <2>2, <2>3, <2>4, <2>5, <2>6, Zenon
  <2> QED
    BY <2>1, <2>7, Zenon
<1>2. ASSUME NEW q \in Wire, NEW k \in 0 .. Len(u) + 1
      PROVE  Count(u \o <<x>>, k, CancelsOf(q))
               <= Held(b, q) + Count(u \o <<x>>, k, MonitorsOf(q))
  <2>1. CASE k = Len(u) + 1
    <3>1. /\ Live(v, q) \in Nat /\ Held(b, q) \in Nat
          /\ Count(u \o <<x>>, k, CancelsOf(q)) \in Nat
          /\ Count(u \o <<x>>, k, MonitorsOf(q)) \in Nat
      BY <1>0, LiveType, HeldType, CountType
    <3>2. Live(v, q) + Count(u \o <<x>>, k, CancelsOf(q))
            <= Held(b, q) + Count(u \o <<x>>, k, MonitorsOf(q))
      BY <1>1, <2>1, Zenon
    <3>3. \A l, c, h, m \in Nat : l + c <= h + m => c <= h + m
      OBVIOUS
    <3> QED
      BY <3>1, <3>2, <3>3, Zenon
  <2>2. CASE k \in 0 .. Len(u)
    <3>1. /\ Count(u \o <<x>>, k, CancelsOf(q)) = Count(u, k, CancelsOf(q))
          /\ Count(u \o <<x>>, k, MonitorsOf(q)) = Count(u, k, MonitorsOf(q))
      BY <2>2, CountAppend
    <3> QED
      BY <2>2, <3>1 DEF Covered
  <2> QED
    BY <1>0, <2>1, <2>2
<1> QED
  BY <1>0, <1>1, <1>2 DEF Covered, Backed

(* The client's table loses credit only. *)
LEMMA LedgerTable ==
  ASSUME NEW u \in Seq(Requests), NEW b \in Seq(Subscriptions),
         NEW t \in Seq(Entries), NEW v \in Seq(Entries), Backed(u, b, t),
         \A q \in Wire : Live(v, q) <= Live(t, q)
  PROVE  Backed(u, b, v)
<1> SUFFICES ASSUME NEW q \in Wire
             PROVE  Live(v, q) + Count(u, Len(u), CancelsOf(q))
                      <= Held(b, q) + Count(u, Len(u), MonitorsOf(q))
  BY DEF Backed
<1>1. /\ Live(t, q) \in Nat /\ Live(v, q) \in Nat /\ Held(b, q) \in Nat
      /\ Count(u, Len(u), CancelsOf(q)) \in Nat
      /\ Count(u, Len(u), MonitorsOf(q)) \in Nat
  BY LiveType, HeldType, CountType
<1> QED
  BY <1>1 DEF Backed

(* The server reads the head of u, and its subscriptions become d. *)
LEMMA LedgerRead ==
  ASSUME NEW u \in Seq(Requests), u # <<>>,
         NEW b \in Seq(Subscriptions), NEW d \in Seq(Subscriptions),
         \A q \in Wire : Held(b, q) + One(Head(u), MonitorsOf(q))
                           = Held(d, q) + One(Head(u), CancelsOf(q))
  PROVE  /\ Covered(u, b) => Covered(Tail(u), d)
         /\ \A t \in Seq(Entries) : Backed(u, b, t) => Backed(Tail(u), d, t)
<1>0. /\ Len(u) \in Nat /\ Len(u) >= 1 /\ Len(Tail(u)) = Len(u) - 1
      /\ Head(u) \in Requests /\ Tail(u) \in Seq(Requests)
  OBVIOUS
<1>1. ASSUME NEW q \in Wire, NEW k \in 0 .. Len(u) - 1
      PROVE  /\ Count(u, k + 1, CancelsOf(q)) =
                  Count(Tail(u), k, CancelsOf(q)) + One(Head(u), CancelsOf(q))
             /\ Count(u, k + 1, MonitorsOf(q)) =
                  Count(Tail(u), k, MonitorsOf(q)) + One(Head(u), MonitorsOf(q))
             /\ Count(Tail(u), k, CancelsOf(q)) \in Nat
             /\ Count(Tail(u), k, MonitorsOf(q)) \in Nat
             /\ One(Head(u), CancelsOf(q)) \in {0, 1}
             /\ One(Head(u), MonitorsOf(q)) \in {0, 1}
             /\ Held(b, q) \in Nat /\ Held(d, q) \in Nat
  <2>1. k \in Nat
    OBVIOUS
  <2> QED
    BY <2>1, CountTail, CountType, OneOfEach, HeldType
<1>2. ASSUME Covered(u, b), NEW q \in Wire, NEW k \in 0 .. Len(u) - 1
      PROVE  Count(Tail(u), k, CancelsOf(q))
               <= Held(d, q) + Count(Tail(u), k, MonitorsOf(q))
  <2>1. k + 1 \in 0 .. Len(u)
    BY <1>0
  <2>2. Count(u, k + 1, CancelsOf(q))
          <= Held(b, q) + Count(u, k + 1, MonitorsOf(q))
    BY <1>2, <2>1 DEF Covered
  <2>3. PICK cu \in Nat, mu \in Nat, cx \in Nat, mx \in Nat, hb \in Nat, hd \in Nat :
          /\ cu = Count(Tail(u), k, CancelsOf(q)) /\ cx = One(Head(u), CancelsOf(q))
          /\ mu = Count(Tail(u), k, MonitorsOf(q)) /\ mx = One(Head(u), MonitorsOf(q))
          /\ hb = Held(b, q) /\ hd = Held(d, q)
    <3>1. One(Head(u), CancelsOf(q)) \in Nat /\ One(Head(u), MonitorsOf(q)) \in Nat
      BY DEF One
    <3>2. /\ Count(Tail(u), k, CancelsOf(q)) \in Nat
          /\ Count(Tail(u), k, MonitorsOf(q)) \in Nat
          /\ Held(b, q) \in Nat /\ Held(d, q) \in Nat
      BY <1>1
    <3> QED
      BY <3>1, <3>2, Zenon
  <2>4. hb + mx = hd + cx
    BY <2>3
  <2>5. Count(u, k + 1, CancelsOf(q)) = cu + cx /\ Count(u, k + 1, MonitorsOf(q)) = mu + mx
    BY <1>1, <2>3, Zenon
  <2>6. cu + cx <= hb + (mu + mx)
    BY <2>2, <2>3, <2>5, Zenon
  <2>7. cu <= hd + mu
    BY <2>4, <2>6
  <2> QED
    BY <2>3, <2>7, Zenon
<1>3. ASSUME NEW t \in Seq(Entries), Backed(u, b, t), NEW q \in Wire
      PROVE  Live(t, q) + Count(Tail(u), Len(u) - 1, CancelsOf(q))
               <= Held(d, q) + Count(Tail(u), Len(u) - 1, MonitorsOf(q))
  <2>1. Len(u) - 1 \in 0 .. Len(u) - 1 /\ (Len(u) - 1) + 1 = Len(u)
    BY <1>0
  <2>2. Live(t, q) \in Nat
    BY LiveType
  <2>3. Live(t, q) + Count(u, Len(u), CancelsOf(q))
          <= Held(b, q) + Count(u, Len(u), MonitorsOf(q))
    BY <1>3 DEF Backed
  <2>4. PICK k : k = Len(u) - 1
    OBVIOUS
  <2>5. k \in 0 .. Len(u) - 1 /\ k + 1 = Len(u)
    BY <2>1, <2>4
  <2>6. /\ Count(u, Len(u), CancelsOf(q)) =
             Count(Tail(u), k, CancelsOf(q)) + One(Head(u), CancelsOf(q))
        /\ Count(u, Len(u), MonitorsOf(q)) =
             Count(Tail(u), k, MonitorsOf(q)) + One(Head(u), MonitorsOf(q))
        /\ Count(Tail(u), k, CancelsOf(q)) \in Nat
        /\ Count(Tail(u), k, MonitorsOf(q)) \in Nat
        /\ Held(b, q) \in Nat /\ Held(d, q) \in Nat
    BY <1>1, <2>5
  <2>7. One(Head(u), CancelsOf(q)) \in Nat /\ One(Head(u), MonitorsOf(q)) \in Nat
    BY DEF One
  <2>9. Held(b, q) + One(Head(u), MonitorsOf(q))
          = Held(d, q) + One(Head(u), CancelsOf(q))
    OBVIOUS
  <2>a. Live(t, q) + (Count(Tail(u), k, CancelsOf(q)) + One(Head(u), CancelsOf(q)))
          <= Held(b, q) + (Count(Tail(u), k, MonitorsOf(q)) + One(Head(u), MonitorsOf(q)))
    BY <2>3, <2>6, Zenon
  <2>10. Live(t, q) + Count(Tail(u), k, CancelsOf(q))
           <= Held(d, q) + Count(Tail(u), k, MonitorsOf(q))
    <3>1. PICK cu, mu, cx, mx, hb, hd, l :
            /\ cu = Count(Tail(u), k, CancelsOf(q)) /\ cx = One(Head(u), CancelsOf(q))
            /\ mu = Count(Tail(u), k, MonitorsOf(q)) /\ mx = One(Head(u), MonitorsOf(q))
            /\ hb = Held(b, q) /\ hd = Held(d, q) /\ l = Live(t, q)
      OBVIOUS
    <3>2. /\ cu \in Nat /\ mu \in Nat /\ cx \in Nat /\ mx \in Nat
          /\ hb \in Nat /\ hd \in Nat /\ l \in Nat
      BY <2>2, <2>6, <2>7, <3>1, Zenon
    <3>3. l + (cu + cx) <= hb + (mu + mx) /\ hb + mx = hd + cx
      BY <2>a, <2>9, <3>1, Zenon
    <3>4. l + cu <= hd + mu
      BY <3>2, <3>3
    <3> QED
      BY <3>1, <3>4, Zenon
  <2> QED
    BY <2>4, <2>10, Zenon
<1> QED
  BY <1>0, <1>2, <1>3 DEF Covered, Backed
(* What the operations on the table and on the subscriptions do to a sum. *)
LEMMA EntryOne ==
  ASSUME NEW q, NEW x \in Entries, x.state # "CANCELLED"
  PROVE  One(x, LiveOf(q)) = IF SeqOf16(x.reqno) = q THEN 1 ELSE 0
  BY DEF One, LiveOf

LEMMA NewEntryOne ==
  ASSUME NEW q, NEW r \in Nat, NEW p \in Paths, NEW type \in ReqTypes
  PROVE  /\ NewEntry(r, p, type) \in Entries
         /\ One(NewEntry(r, p, type), LiveOf(q)) = IF SeqOf16(r) = q THEN 1 ELSE 0
<1>1. /\ NewEntry(r, p, type) \in Entries
      /\ NewEntry(r, p, type).state # "CANCELLED"
      /\ NewEntry(r, p, type).reqno = r
  BY DEF NewEntry, Entries, ReqStates
<1> QED
  BY <1>1, EntryOne

LEMMA LiveAdd ==
  ASSUME NEW t \in Seq(Entries), NEW r \in Nat, NEW p \in Paths,
         NEW type \in ReqTypes, NEW q
  PROVE  Live(gamin_data_add_req(t, r, p, type), q) =
           Live(t, q) + (IF SeqOf16(r) = q THEN 1 ELSE 0)
<1>1. PICK e : e = NewEntry(r, p, type)
  OBVIOUS
<1>2. e \in Entries /\ One(e, LiveOf(q)) = IF SeqOf16(r) = q THEN 1 ELSE 0
  BY <1>1, NewEntryOne
<1>3. gamin_data_add_req(t, r, p, type) = t \o <<e>>
  BY <1>1, <1>2 DEF gamin_data_add_req
<1>4. Len(t \o <<e>>) = Len(t) + 1
  BY <1>2
<1>5. Count(t \o <<e>>, Len(t) + 1, LiveOf(q)) =
        Count(t, Len(t), LiveOf(q)) + One(e, LiveOf(q))
  BY <1>2, CountAppend
<1> QED
  BY <1>2, <1>3, <1>4, <1>5 DEF Live

LEMMA LiveAdd2 ==
  ASSUME NEW t \in Seq(Entries), NEW r \in Nat, NEW p \in Paths,
         NEW type \in ReqTypes, NEW q,
         gamin_data_add_req2(t, r, p, type) # t
  PROVE  Live(gamin_data_add_req2(t, r, p, type), q) =
           Live(t, q) + (IF SeqOf16(r) = q THEN 1 ELSE 0)
<1>1. PICK e : e = NewEntry(r, p, type)
  OBVIOUS
<1>2. e \in Entries /\ One(e, LiveOf(q)) = IF SeqOf16(r) = q THEN 1 ELSE 0
  BY <1>1, NewEntryOne
<1>3. PICK i : i = gamin_data_get_req_loc(t, r)
  OBVIOUS
<1>4. PICK j : j = IF i <= Len(t) /\ t[i].reqno < r THEN i + 1 ELSE i
  OBVIOUS
<1>5. /\ i \in 1 .. Len(t) + 1
      /\ gamin_data_add_req2(t, r, p, type) = InsertAt(t, j, e)
  BY <1>1, <1>3, <1>4 DEF gamin_data_add_req2
<1>6. j \in 1 .. Len(t) + 1
  BY <1>4, <1>5
<1>7. Count(InsertAt(t, j, e), Len(t) + 1, LiveOf(q)) =
        Count(t, Len(t), LiveOf(q)) + One(e, LiveOf(q))
  BY <1>2, <1>6, CountInsertAt
<1>8. Len(InsertAt(t, j, e)) = Len(t) + 1
  BY <1>2, <1>6, InsertAtType
<1> QED
  BY <1>2, <1>5, <1>7, <1>8 DEF Live

(* u is t with the state of its i-th entry set to st. *)
Marked(t, i, st, u) ==
  /\ u \in Seq(Entries) /\ Len(u) = Len(t)
  /\ u[i].state = st /\ u[i].reqno = t[i].reqno /\ u[i].path = t[i].path
  /\ \A j \in 1 .. Len(t) : j # i => t[j] = u[j]

LEMMA StateSet ==
  ASSUME NEW t \in Seq(Entries), NEW i \in 1 .. Len(t), NEW st \in ReqStates
  PROVE  Marked(t, i, st, [t EXCEPT ![i].state = st])
<1> DEFINE u == [t EXCEPT ![i].state = st]
<1>1. t[i] \in Entries
  OBVIOUS
<1>2. [t[i] EXCEPT !.state = st] \in Entries
  BY <1>1 DEF Entries
<1>3. /\ u \in Seq(Entries) /\ Len(u) = Len(t)
      /\ u[i] = [t[i] EXCEPT !.state = st]
      /\ \A j \in 1 .. Len(t) : j # i => t[j] = u[j]
  BY <1>2
<1>4. u[i].state = st /\ u[i].reqno = t[i].reqno /\ u[i].path = t[i].path
  BY <1>1, <1>3 DEF Entries
<1> HIDE DEF u
<1>5. Marked(t, i, st, u)
  BY <1>3, <1>4 DEF Marked
<1> QED
  BY <1>5 DEF u

LEMMA CancelMarks ==
  ASSUME NEW t \in Seq(Entries), NEW i \in 1 .. Len(t)
  PROVE  Marked(t, i, "CANCELLED", gamin_data_cancel(t, i))
<1>1. "CANCELLED" \in ReqStates
  BY DEF ReqStates
<1>2. Marked(t, i, "CANCELLED", [t EXCEPT ![i].state = "CANCELLED"])
  BY <1>1, StateSet, Zenon
<1> QED
  BY <1>2, Zenon DEF gamin_data_cancel

LEMMA ConfirmMarks ==
  ASSUME NEW t \in Seq(Entries), NEW e
  PROVE  \/ Confirm(t, e) = t
         \/ \E i \in 1 .. Len(t) :
              /\ t[i].state = "INIT"
              /\ Marked(t, i, "CONFIRMED", Confirm(t, e))
<1>1. PICK i : i = gamin_data_get_req_idx(t, e.seq)
  OBVIOUS
<1>2. CASE Wanted(t, e) /\ t[i].state = "INIT"
  <2>1. i \in 1 .. Len(t) /\ "CONFIRMED" \in ReqStates
    BY <1>1, <1>2 DEF Wanted, ReqStates
  <2>2. Confirm(t, e) = [t EXCEPT ![i].state = "CONFIRMED"]
    BY <1>1, <1>2 DEF Confirm
  <2>3. Marked(t, i, "CONFIRMED", [t EXCEPT ![i].state = "CONFIRMED"])
    BY <2>1, StateSet, Zenon
  <2>4. Marked(t, i, "CONFIRMED", Confirm(t, e))
    BY <2>2, <2>3, Zenon
  <2> QED
    BY <1>2, <2>1, <2>4
<1>3. CASE ~(Wanted(t, e) /\ t[i].state = "INIT")
  BY <1>1, <1>3 DEF Confirm
<1> QED
  BY <1>2, <1>3

LEMMA LiveMarked ==
  ASSUME NEW t \in Seq(Entries), NEW i \in 1 .. Len(t), NEW st, NEW u,
         Marked(t, i, st, u), NEW q
  PROVE  Live(u, q) + One(t[i], LiveOf(q)) = Live(t, q) + One(u[i], LiveOf(q))
<1>1. /\ Len(u) = Len(t)
      /\ \A j \in 1 .. Len(t) : j # i => t[j] = u[j]
  BY DEF Marked
<1>2. PICK n \in Nat : n = Len(t)
  OBVIOUS
<1>3. Count(u, n, LiveOf(q)) + One(t[i], LiveOf(q)) =
        Count(t, n, LiveOf(q)) + One(u[i], LiveOf(q))
  BY <1>1, <1>2, CountUpdate
<1> QED
  BY <1>1, <1>2, <1>3 DEF Live

LEMMA LiveCancel ==
  ASSUME NEW t \in Seq(Entries), NEW i \in 1 .. Len(t), NEW q,
         t[i].state # "CANCELLED"
  PROVE  Live(gamin_data_cancel(t, i), q) +
           (IF SeqOf16(t[i].reqno) = q THEN 1 ELSE 0) = Live(t, q)
<1>1. t[i] \in Entries
  OBVIOUS
<1>2. PICK u : u = gamin_data_cancel(t, i)
  OBVIOUS
<1>3. Marked(t, i, "CANCELLED", u)
  BY <1>2, CancelMarks
<1>4. u[i].state = "CANCELLED"
  BY <1>3 DEF Marked
<1>5. One(u[i], LiveOf(q)) = 0
  BY <1>4 DEF One, LiveOf
<1>6. One(t[i], LiveOf(q)) = IF SeqOf16(t[i].reqno) = q THEN 1 ELSE 0
  BY <1>1, EntryOne
<1>7. Live(u, q) + One(t[i], LiveOf(q)) = Live(t, q) + One(u[i], LiveOf(q))
  BY <1>3, LiveMarked
<1>8. Live(t, q) \in Nat
  BY LiveType
<1> QED
  BY <1>2, <1>5, <1>6, <1>7, <1>8

LEMMA LiveConfirm ==
  ASSUME NEW t \in Seq(Entries), NEW e, NEW q
  PROVE  Live(Confirm(t, e), q) = Live(t, q)
<1>1. PICK u : u = Confirm(t, e)
  OBVIOUS
<1>2. CASE u # t
  <2>1. PICK i \in 1 .. Len(t) : t[i].state = "INIT" /\ Marked(t, i, "CONFIRMED", u)
    BY <1>1, <1>2, ConfirmMarks
  <2>2. /\ u \in Seq(Entries) /\ Len(u) = Len(t)
        /\ u[i].state = "CONFIRMED" /\ u[i].reqno = t[i].reqno
    BY <2>1 DEF Marked
  <2>3. /\ t[i] \in Entries /\ t[i].state # "CANCELLED"
        /\ u[i] \in Entries /\ u[i].state # "CANCELLED"
    BY <2>1, <2>2
  <2>4. One(u[i], LiveOf(q)) = IF SeqOf16(t[i].reqno) = q THEN 1 ELSE 0
    BY <2>2, <2>3, EntryOne
  <2>5. One(t[i], LiveOf(q)) = IF SeqOf16(t[i].reqno) = q THEN 1 ELSE 0
    BY <2>3, EntryOne
  <2>6. Live(u, q) + One(t[i], LiveOf(q)) = Live(t, q) + One(u[i], LiveOf(q))
    BY <2>1, LiveMarked
  <2>7. Live(u, q) \in Nat /\ Live(t, q) \in Nat
    BY <2>2, LiveType
  <2> QED
    BY <1>1, <2>4, <2>5, <2>6, <2>7
<1> QED
  BY <1>1, <1>2

LEMMA LiveDel ==
  ASSUME NEW t \in Seq(Entries), NEW r, NEW q
  PROVE  Live(gamin_data_del_req(t, r), q) <= Live(t, q)
<1>1. PICK i : i = gamin_data_get_req_idx(t, r)
  OBVIOUS
<1>2. CASE i \in 1 .. Len(t)
  <2>1. PICK u : u = gamin_data_del_req(t, r)
    OBVIOUS
  <2>2. u = RemoveAt(t, i)
    BY <1>1, <1>2, <2>1 DEF gamin_data_del_req
  <2>3. u \in Seq(Entries) /\ Len(u) = Len(t) - 1
    BY <1>2, <2>2, RemoveAtType
  <2>4. Live(t, q) = Live(u, q) + One(t[i], LiveOf(q))
    BY <1>2, <2>2, <2>3, CountRemoveAt DEF Live
  <2>5. Live(u, q) \in Nat /\ One(t[i], LiveOf(q)) \in Nat
    BY <2>3, LiveType DEF One
  <2> QED
    BY <2>1, <2>4, <2>5
<1>3. CASE i \notin 1 .. Len(t)
  BY <1>1, <1>3, LiveType DEF gamin_data_del_req
<1> QED
  BY <1>2, <1>3

LEMMA HeldCons ==
  ASSUME NEW b \in Seq(Subscriptions), NEW x \in Subscriptions, NEW q
  PROVE  Held(<<x>> \o b, q) = Held(b, q) + (IF x.reqno = q THEN 1 ELSE 0)
<1>1. Len(b) \in 0 .. Len(b) /\ Len(<<x>> \o b) = Len(b) + 1
  OBVIOUS
<1>2. Count(<<x>> \o b, Len(b) + 1, SubsOf(q)) =
        Count(b, Len(b), SubsOf(q)) + One(x, SubsOf(q))
  BY <1>1, CountCons
<1>3. One(x, SubsOf(q)) = IF x.reqno = q THEN 1 ELSE 0
  BY DEF One, SubsOf
<1> QED
  BY <1>1, <1>2, <1>3 DEF Held

LEMMA HeldRemove ==
  ASSUME NEW b \in Seq(Subscriptions), NEW i \in 1 .. Len(b), NEW q
  PROVE  Held(b, q) =
           Held(RemoveAt(b, i), q) + (IF b[i].reqno = q THEN 1 ELSE 0)
<1>1. Len(RemoveAt(b, i)) = Len(b) - 1
  BY RemoveAtType
<1>2. Count(b, Len(b), SubsOf(q)) =
        Count(RemoveAt(b, i), Len(b) - 1, SubsOf(q)) + One(b[i], SubsOf(q))
  BY CountRemoveAt
<1>3. b[i] \in Subscriptions
  OBVIOUS
<1>4. One(b[i], SubsOf(q)) = IF b[i].reqno = q THEN 1 ELSE 0
  BY <1>3 DEF One, SubsOf
<1> QED
  BY <1>1, <1>2, <1>4 DEF Held
LEMMA ResentFacts ==
  ASSUME NEW t \in Seq(Entries)
  PROVE  /\ Resent(t) \in Seq(Requests) /\ Len(Resent(t)) = Len(t)
         /\ \A i \in 1 .. Len(t) :
              /\ Resent(t)[i] \in Monitors
              /\ Resent(t)[i].seq = SeqOf16(t[i].reqno)
<1>1. ASSUME NEW i \in 1 .. Len(t)
      PROVE  /\ gamin_resend_request(t[i]) \in Monitors
             /\ gamin_resend_request(t[i]).seq = SeqOf16(t[i].reqno)
  <2>1. t[i] \in Entries
    OBVIOUS
  <2>2. SeqOf16(t[i].reqno) \in 0 .. SeqSpan - 1
    BY <2>1, SeqOf16Type DEF Entries
  <2> QED
    BY <2>1, <2>2 DEF gamin_resend_request, Monitors, Entries
<1>2. Resent(t) \in Seq(Requests)
  BY ResentType
<1>3. Len(Resent(t)) = Len(t) /\ \A i \in 1 .. Len(t) :
        Resent(t)[i] = gamin_resend_request(t[i])
  BY DEF Resent
<1> QED
  BY <1>1, <1>2, <1>3

(* A new connection, with the requests of t sent again. *)
LEMMA LedgerNew ==
  ASSUME NEW t \in Seq(Entries)
  PROVE  /\ Covered(<<Cred>> \o Resent(t), <<>>)
         /\ Backed(<<Cred>> \o Resent(t), <<>>, t)
<1>1. PICK z : z = Resent(t)
  OBVIOUS
<1>2. /\ z \in Seq(Requests) /\ Len(z) = Len(t)
      /\ \A i \in 1 .. Len(t) : z[i] \in Monitors /\ z[i].seq = SeqOf16(t[i].reqno)
  BY <1>1, ResentFacts
<1>3. Cred \in Requests /\ Cred.type = "CRED"
  BY SeqSpanAssumption DEF Cred, Requests
<1>4. PICK u : u = <<Cred>> \o z
  OBVIOUS
<1>5. /\ u \in Seq(Requests) /\ Len(u) = Len(t) + 1 /\ u[1] = Cred
      /\ \A i \in 1 .. Len(t) : u[i + 1] = z[i]
  BY <1>2, <1>3, <1>4
<1>6. \A i \in 1 .. Len(u) : u[i] = Cred \/ u[i] \in Monitors
  <2>1. ASSUME NEW i \in 1 .. Len(u), i # 1
        PROVE  u[i] \in Monitors
    <3>1. i - 1 \in 1 .. Len(t) /\ u[(i - 1) + 1] = z[i - 1] /\ (i - 1) + 1 = i
      BY <1>5, <2>1
    <3> QED
      BY <1>2, <3>1
  <2> QED
    BY <1>5, <2>1
<1>7. ASSUME NEW q, NEW k \in 0 .. Len(u)
      PROVE  Count(u, k, CancelsOf(q)) = 0
  <2>1. ASSUME NEW i \in 1 .. k
        PROVE  u[i] \notin CancelsOf(q)
    <3>1. u[i] = Cred \/ u[i] \in Monitors
      BY <1>6
    <3> QED
      BY <1>3, <3>1 DEF CancelsOf, Monitors, ReqTypes
  <2>2. k \in Nat
    OBVIOUS
  <2> QED
    BY <2>1, <2>2, CountNone
<1>8. ASSUME NEW q
      PROVE  Held(<<>>, q) = 0
  <2>1. Len(<<>>) = 0
    OBVIOUS
  <2> QED
    BY <2>1, CountZero, Zenon DEF Held
<1>9. ASSUME NEW q, NEW k \in 0 .. Len(u)
      PROVE  Count(u, k, MonitorsOf(q)) \in Nat
  BY CountType
<1>10. Covered(u, <<>>)
  BY <1>7, <1>8, <1>9 DEF Covered
<1>11. ASSUME NEW q \in Wire
       PROVE  Live(t, q) <= Count(u, Len(u), MonitorsOf(q))
  <2>1. PICK n \in Nat : n = Len(t)
    OBVIOUS
  <2>2. \A i \in 1 .. n : t[i] \in LiveOf(q) => z[i] \in MonitorsOf(q)
    BY <1>2, <2>1 DEF LiveOf, MonitorsOf
  <2>3. Count(t, n, LiveOf(q)) <= Count(z, n, MonitorsOf(q))
    BY <2>2, CountLess
  <2>4. Count(u, n + 1, MonitorsOf(q)) =
          Count(z, n, MonitorsOf(q)) + One(Cred, MonitorsOf(q))
    <3>1. n \in 0 .. Len(z)
      BY <1>2, <2>1
    <3> QED
      BY <1>2, <1>3, <1>4, <3>1, CountCons
  <2>5. One(Cred, MonitorsOf(q)) \in Nat /\ Count(z, n, MonitorsOf(q)) \in Nat
    BY CountType DEF One
  <2>6. Live(t, q) = Count(t, n, LiveOf(q)) /\ Live(t, q) \in Nat
    BY <2>1, LiveType DEF Live
  <2>7. Count(u, Len(u), MonitorsOf(q)) = Count(u, n + 1, MonitorsOf(q))
    BY <1>5, <2>1
  <2> QED
    BY <2>3, <2>4, <2>5, <2>6, <2>7
<1>12. Len(u) \in 0 .. Len(u)
  BY <1>5
<1>13. ASSUME NEW q \in Wire
       PROVE  Live(t, q) + Count(u, Len(u), CancelsOf(q))
                <= Held(<<>>, q) + Count(u, Len(u), MonitorsOf(q))
  <2>1. /\ Count(u, Len(u), CancelsOf(q)) = 0 /\ Held(<<>>, q) = 0
        /\ Count(u, Len(u), MonitorsOf(q)) \in Nat
    BY <1>7, <1>8, <1>9, <1>12
  <2>2. Live(t, q) \in Nat
    BY LiveType
  <2> QED
    BY <1>11, <2>1, <2>2
<1>14. Backed(u, <<>>, t)
  BY <1>13 DEF Backed
<1> QED
  BY <1>1, <1>4, <1>10, <1>14

-----------------------------------------------------------------------------
(* The ledgers of all connections. *)

(* Before the handshake the credential byte is still the first to be read. *)
Handshake ==
  \A s \in Socks :
    sOpen[s] /\ cstate[s] # "OKAY" => up[s] # <<>> /\ Head(up[s]).type = "CRED"

Ledger ==
  /\ \A s \in Socks : sOpen[s] => Covered(up[s], subs[s])
  /\ \A c \in Clients :
       fd[c] # NoSock /\ sOpen[fd[c]] => Backed(up[fd[c]], subs[fd[c]], tab[c])

-----------------------------------------------------------------------------
(* What a step does to the ledgers: the actions, summarised. *)

CancelOf(r) ==
  [type |-> "CANCEL", seq |-> SeqOf16(r), path |-> NoPath, noexists |-> FALSE]

LEMMA RequestTypes ==
  ASSUME TypeOK, NEW c \in Clients, NEW r \in Nat
  PROVE  /\ \A p \in Paths, type \in ReqTypes :
              /\ Request(c, r, p, type) \in Monitors
              /\ Request(c, r, p, type) \in Requests
              /\ Request(c, r, p, type).seq = SeqOf16(r)
              /\ Request(c, r, p, type).path = p
         /\ CancelOf(r) \in Requests /\ CancelOf(r).type = "CANCEL"
         /\ CancelOf(r).seq = SeqOf16(r) /\ SeqOf16(r) \in Wire
<1>1. SeqOf16(r) \in 0 .. SeqSpan - 1
  BY SeqOf16Type
<1>2. ASSUME NEW p \in Paths, NEW type \in ReqTypes
      PROVE  /\ Request(c, r, p, type) \in Monitors
             /\ Request(c, r, p, type).seq = SeqOf16(r)
             /\ Request(c, r, p, type).path = p
  <2>1. (type = "DIR" /\ noexist[c]) \in BOOLEAN
    BY DEF TypeOK, ClientTypeOK
  <2> QED
    BY <1>1, <2>1 DEF Request, Monitors
<1>3. CancelOf(r) \in Requests
  BY <1>1 DEF CancelOf, Requests
<1> QED
  BY <1>1, <1>2, <1>3 DEF CancelOf, Wire, Requests

(* The client writes x, and its table becomes v. *)
Asks(c, x, v) ==
  /\ fd[c] \in Socks
  /\ up' = Written(up, sOpen, fd[c], <<x>>)
  /\ tab' = [tab EXCEPT ![c] = v]
  /\ UNCHANGED <<fd, sOpen>>

(* Its table becomes v. *)
Edits(c, v) ==
  /\ tab' = [tab EXCEPT ![c] = v]
  /\ UNCHANGED <<up, fd, sOpen>>

Leaves(c) ==
  /\ fd' = [fd EXCEPT ![c] = NoSock]
  /\ \A d \in Clients \ {c} : tab'[d] = tab[d]
  /\ UNCHANGED <<up, sOpen>>

(* It has a new socket s, on which the requests of its table t were sent.  *)
Joins(c, s, t) ==
  /\ ~cOpen[s] /\ ~sOpen[s]
  /\ fd' = [fd EXCEPT ![c] = s]
  /\ tab' = [tab EXCEPT ![c] = t]
  /\ up' = [up EXCEPT ![s] = <<Cred>> \o Resent(t)]
  /\ sOpen' = [sOpen EXCEPT ![s] = TRUE]

(* No credit is used up that x does not bring, and x is only cancelled     *)
(* once.                                                                   *)
Pays(c, x, v) ==
  \A q \in Wire :
    Live(v, q) + One(x, CancelsOf(q)) <= Live(tab[c], q) + One(x, MonitorsOf(q))

LEMMA ClientMoves ==
  ASSUME TypeOK, NEW c \in Clients, ClientNext(c)
  PROVE  \/ UNCHANGED <<up, sOpen, fd, tab>>
         \/ \E x \in Requests, v \in Seq(Entries) :
              Asks(c, x, v) /\ (~DoubleCancel => Pays(c, x, v))
         \/ \E v \in Seq(Entries) :
              Edits(c, v) /\ \A q \in Wire : Live(v, q) <= Live(tab[c], q)
         \/ Leaves(c)
         \/ \E s \in Socks, t \in Seq(Entries) : Joins(c, s, t)
<1>0. /\ tab \in [Clients -> Seq(Entries)] /\ tab[c] \in Seq(Entries)
      /\ fd \in [Clients -> Socks \cup {NoSock}]
      /\ reqno \in [Clients -> Nat] /\ ready[c] \in Events
  BY DEF TypeOK, ClientTypeOK
<1>a. ASSUME NEW p \in Paths, NEW type \in MonTypes, NEW r \in Nat, NEW v,
             v \in Seq(Entries), IsOpen(c),
             \A q : Live(v, q) = Live(tab[c], q) + (IF SeqOf16(r) = q THEN 1 ELSE 0),
             tab' = [tab EXCEPT ![c] = v],
             up' = Written(up, sOpen, fd[c], <<Request(c, r, p, type)>>),
             UNCHANGED <<fd, sOpen>>
      PROVE  \E x \in Requests, w \in Seq(Entries) : Asks(c, x, w) /\ Pays(c, x, w)
  <2>1. type \in ReqTypes /\ fd[c] \in Socks
    BY <1>0, <1>a, MonTypesAssumption DEF IsOpen
  <2>2. PICK x : x = Request(c, r, p, type)
    OBVIOUS
  <2>3. x \in Monitors /\ x \in Requests /\ x.seq = SeqOf16(r)
    BY <2>1, <2>2, RequestTypes
  <2>4. Asks(c, x, v)
    BY <1>a, <2>1, <2>2 DEF Asks
  <2>5. ASSUME NEW q \in Wire
        PROVE  Live(v, q) + One(x, CancelsOf(q))
                 <= Live(tab[c], q) + One(x, MonitorsOf(q))
    <3>1. /\ One(x, CancelsOf(q)) = 0
          /\ One(x, MonitorsOf(q)) = IF x.seq = q THEN 1 ELSE 0
      BY <2>3, OneOfEach
    <3>2. Live(tab[c], q) \in Nat
      BY <1>0, LiveType
    <3> QED
      BY <1>a, <2>3, <3>1, <3>2
  <2> QED
    BY <1>a, <2>3, <2>4, <2>5 DEF Pays
<1>1. CASE FAMOpen(c) \/ gamin_fork_server(c) \/ GiveUp(c) \/ FAMNoExists(c)
           \/ gamin_check_cred(c) \/ LostServer(c)
  <2>1. UNCHANGED <<up, sOpen, fd, tab>>
    BY <1>1 DEF FAMOpen, gamin_fork_server, GiveUp, FAMNoExists,
       gamin_check_cred, LostServer, sockVars, dataVars
  <2> QED
    BY <2>1
<1>2. ASSUME NEW s \in Socks, gamin_data_new(c, s)
      PROVE  \E t \in Seq(Entries) : Joins(c, s, t)
  <2>1. <<>> \in Seq(Entries) /\ Resent(<<>>) = <<>>
    BY DEF Resent
  <2>2. Joins(c, s, <<>>)
    BY <1>2, <2>1 DEF Joins, gamin_data_new, Connect, Free, FreshData
  <2> QED
    BY <2>1, <2>2
<1>3. ASSUME NEW s \in Socks, gamin_try_reconnect(c, s)
      PROVE  \E t \in Seq(Entries) : Joins(c, s, t)
  <2>1. Joins(c, s, tab[c])
    BY <1>0, <1>3 DEF Joins, gamin_try_reconnect, gamin_data_reset, Connect, Free
  <2> QED
    BY <1>0, <2>1
<1>4. ASSUME NEW p \in Paths, NEW type \in MonTypes, FAMMonitor(c, p, type)
      PROVE  \E x \in Requests, w \in Seq(Entries) : Asks(c, x, w) /\ Pays(c, x, w)
  <2>1. type \in ReqTypes /\ reqno[c] \in Nat
    BY <1>0, MonTypesAssumption
  <2>2. PICK v : v = gamin_data_add_req(tab[c], reqno[c], p, type)
    OBVIOUS
  <2>3. v \in Seq(Entries)
    BY <1>0, <2>1, <2>2, TableType
  <2>4. \A q : Live(v, q) =
          Live(tab[c], q) + (IF SeqOf16(reqno[c]) = q THEN 1 ELSE 0)
    BY <1>0, <2>1, <2>2, LiveAdd
  <2>5. /\ tab' = [tab EXCEPT ![c] = v] /\ IsOpen(c) /\ UNCHANGED <<fd, sOpen>>
        /\ up' = Written(up, sOpen, fd[c], <<Request(c, reqno[c], p, type)>>)
    BY <1>4, <2>2 DEF FAMMonitor, MayAsk
  <2> QED
    BY <1>a, <2>1, <2>3, <2>4, <2>5
<1>5. ASSUME NEW p \in Paths, NEW type \in MonTypes, NEW r \in UserNums,
             FAMMonitor2(c, p, type, r)
      PROVE  \E x \in Requests, w \in Seq(Entries) : Asks(c, x, w) /\ Pays(c, x, w)
  <2>1. type \in ReqTypes /\ r \in Nat
    BY MonTypesAssumption, UserNumsAssumption
  <2>2. PICK v : v = gamin_data_add_req2(tab[c], r, p, type)
    OBVIOUS
  <2>3. v \in Seq(Entries)
    BY <1>0, <2>1, <2>2, TableType
  <2>5. /\ tab' = [tab EXCEPT ![c] = v] /\ tab'[c] # tab[c]
        /\ IsOpen(c) /\ UNCHANGED <<fd, sOpen>>
        /\ up' = Written(up, sOpen, fd[c], <<Request(c, r, p, type)>>)
    BY <1>5, <2>2 DEF FAMMonitor2, MayAsk
  <2>6. gamin_data_add_req2(tab[c], r, p, type) # tab[c]
    BY <1>0, <2>2, <2>5
  <2>4. \A q : Live(v, q) = Live(tab[c], q) + (IF SeqOf16(r) = q THEN 1 ELSE 0)
    BY <1>0, <2>1, <2>2, <2>6, LiveAdd2
  <2> QED
    BY <1>a, <2>1, <2>3, <2>4, <2>5
<1>6. ASSUME NEW k \in 1 .. Len(tab[c]), FAMCancelMonitor(c, tab[c][k].reqno)
      PROVE  \E x \in Requests, w \in Seq(Entries) :
               Asks(c, x, w) /\ (~DoubleCancel => Pays(c, x, w))
  <2>1. PICK r : r = tab[c][k].reqno
    OBVIOUS
  <2>2. tab[c][k] \in Entries
    BY <1>0
  <2>3. r \in Nat
    BY <2>1, <2>2 DEF Entries
  <2>4. PICK i : i = gamin_data_get_req_idx(tab[c], r)
    OBVIOUS
  <2>5. /\ IsOpen(c) /\ i \in 1 .. Len(tab[c])
        /\ tab[c][i].state = "CANCELLED" => DoubleCancel
        /\ tab' = [tab EXCEPT ![c] = gamin_data_cancel(tab[c], i)]
        /\ up' = Written(up, sOpen, fd[c], <<CancelOf(r)>>)
        /\ UNCHANGED <<fd, sOpen>>
    BY <1>6, <2>1, <2>4 DEF FAMCancelMonitor, MayAsk, CancelOf
  <2>6. tab[c][i].reqno = r
    BY <2>4, <2>5 DEF gamin_data_get_req_idx
  <2>7. PICK v : v = gamin_data_cancel(tab[c], i)
    OBVIOUS
  <2>8. v \in Seq(Entries)
    BY <1>0, <2>5, <2>7, CancelMarks DEF Marked
  <2>9. PICK x : x = CancelOf(r)
    OBVIOUS
  <2>10. x \in Requests /\ x.type = "CANCEL" /\ x.seq = SeqOf16(r)
    BY <2>3, <2>9, RequestTypes
  <2>11. Asks(c, x, v)
    BY <1>0, <2>5, <2>7, <2>9 DEF Asks, IsOpen
  <2>12. ASSUME ~DoubleCancel, NEW q \in Wire
         PROVE  Live(v, q) + One(x, CancelsOf(q))
                  <= Live(tab[c], q) + One(x, MonitorsOf(q))
    <3>1. Live(v, q) + (IF SeqOf16(r) = q THEN 1 ELSE 0) = Live(tab[c], q)
      BY <1>0, <2>5, <2>6, <2>7, <2>12, LiveCancel
    <3>2. /\ One(x, CancelsOf(q)) = IF x.seq = q THEN 1 ELSE 0
          /\ One(x, MonitorsOf(q)) = 0
      BY <2>10, OneOfEach
    <3>3. Live(tab[c], q) \in Nat /\ Live(v, q) \in Nat
      BY <1>0, <2>8, LiveType
    <3> QED
      BY <2>10, <3>1, <3>2, <3>3
  <2> QED
    BY <2>8, <2>10, <2>11, <2>12 DEF Pays
<1>7. CASE FAMClose(c)
  <2>1. Leaves(c)
    BY <1>0, <1>7 DEF FAMClose, FreshData, Leaves
  <2> QED
    BY <2>1
<1>8. CASE FAMPending(c)
  <2>1. PICK v : v = Confirm(tab[c], Head(down[fd[c]]))
    OBVIOUS
  <2>2. Edits(c, v)
    BY <1>8, <2>1 DEF FAMPending, Edits
  <2>3. v \in Seq(Entries)
    BY <1>0, <2>1, ConfirmType
  <2>4. \A q \in Wire : Live(v, q) <= Live(tab[c], q)
    BY <1>0, <2>1, LiveConfirm, LiveType
  <2> QED
    BY <2>2, <2>3, <2>4
<1>9. CASE FAMNextEvent(c)
  <2>1. PICK v : v = IF ready[c].type = "Ack"
                     THEN gamin_data_del_req(tab[c], ready[c].seq) ELSE tab[c]
    OBVIOUS
  <2>2. Edits(c, v)
    BY <1>9, <2>1 DEF FAMNextEvent, Edits, sockVars
  <2>3. v \in Seq(Entries)
    <3>1. gamin_data_del_req(tab[c], ready[c].seq) \in Seq(Entries)
      BY <1>0, RemoveAtType DEF gamin_data_del_req
    <3> QED
      BY <1>0, <2>1, <3>1
  <2>4. \A q \in Wire : Live(v, q) <= Live(tab[c], q)
    <3>1. \A q : Live(tab[c], q) \in Nat
      BY <1>0, LiveType
    <3>2. \A q : Live(gamin_data_del_req(tab[c], ready[c].seq), q) <= Live(tab[c], q)
      BY <1>0, LiveDel
    <3> QED
      BY <2>1, <3>1, <3>2
  <2> QED
    BY <2>2, <2>3, <2>4
<1> QED
  BY <1>1, <1>2, <1>3, <1>4, <1>5, <1>6, <1>7, <1>8, <1>9 DEF ClientNext
Closes(s) ==
  /\ up' = [up EXCEPT ![s] = <<>>]
  /\ subs' = [subs EXCEPT ![s] = <<>>]
  /\ sOpen' = [sOpen EXCEPT ![s] = FALSE]
  /\ cstate' = [cstate EXCEPT ![s] = "NONE"]
  /\ UNCHANGED <<down, srv>>
  /\ \/ up[s] = <<>> /\ ~cOpen[s]
     \/ /\ up[s] # <<>> /\ Head(up[s]).type = "CANCEL"
        /\ \A i \in 1 .. Len(subs[s]) : subs[s][i].reqno # Head(up[s]).seq

ReadsCred(s) ==
  /\ cstate[s] = "AUTH" /\ up[s] # <<>>
  /\ up' = [up EXCEPT ![s] = Tail(@)]
  /\ cstate' = [cstate EXCEPT ![s] = "OKAY"]
  /\ down' = Written(down, cOpen, s, <<ServerByte>>)
  /\ UNCHANGED <<subs, sOpen>>

ReadsMonitor(s) ==
  /\ cstate[s] = "OKAY" /\ up[s] # <<>> /\ Head(up[s]) \in Monitors
  /\ up' = [up EXCEPT ![s] = Tail(@)]
  /\ IF Head(up[s]).path \in NonePaths THEN UNCHANGED subs
     ELSE subs' = [subs EXCEPT ![s] = <<NewSub(Head(up[s]))>> \o @]
  /\ UNCHANGED <<cstate, down, sOpen>>

ReadsCancel(s, i) ==
  /\ cstate[s] = "OKAY" /\ up[s] # <<>> /\ Head(up[s]).type = "CANCEL"
  /\ i \in 1 .. Len(subs[s]) /\ subs[s][i].reqno = Head(up[s]).seq
  /\ up' = [up EXCEPT ![s] = Tail(@)]
  /\ subs' = [subs EXCEPT ![s] = RemoveAt(@, i)]
  /\ down' = Written(down, cOpen, s,
               <<[type |-> "Ack", seq |-> Head(up[s]).seq, path |-> subs[s][i].path]>>)
  /\ UNCHANGED <<cstate, sOpen>>

(* The backend, the flush timer, and a process that starts. *)
Sends(s) ==
  /\ \E e \in Seq(QueuedEvents) : down' = Written(down, cOpen, s, e)
  /\ UNCHANGED <<up, subs, cstate, sOpen>>

Accepts(s) ==
  /\ cstate[s] = "NONE" /\ cstate' = [cstate EXCEPT ![s] = "AUTH"]
  /\ UNCHANGED <<up, subs, down, sOpen>>

Dies ==
  /\ srv' = "down" /\ sOpen' = [s \in Socks |-> FALSE]
  /\ UNCHANGED down

LEMMA ReqnoMissing ==
  ASSUME TypeOK, NEW s \in Socks, NEW r,
         gam_listener_get_subscription_by_reqno(s, r) = 0
  PROVE  \A i \in 1 .. Len(subs[s]) : subs[s][i].reqno # r
<1> DEFINE I == {i \in 1 .. Len(subs[s]) : subs[s][i].reqno = r}
<1>1. gam_listener_get_subscription_by_reqno(s, r) = IF I # {} THEN Min(I) ELSE 0
  BY DEF gam_listener_get_subscription_by_reqno, SelectInSeq
<1>2. I \in SUBSET Nat /\ 0 \notin I
  OBVIOUS
<1>3. I # {} => Min(I) \in I
  BY <1>2, MinIsIn
<1>4. I = {}
  BY <1>1, <1>2, <1>3
<1> QED
  BY <1>4

LEMMA ServerMoves ==
  ASSUME TypeOK, ServerNext
  PROVE  \/ UNCHANGED <<up, subs, cstate, down, sOpen>>
         \/ \E s \in Socks : Closes(s)
         \/ \E s \in Socks : ReadsCred(s)
         \/ \E s \in Socks : ReadsMonitor(s)
         \/ \E s \in Socks, i \in Nat : ReadsCancel(s, i)
         \/ \E s \in Socks : Sends(s)
         \/ \E s \in Socks : Accepts(s)
         \/ Dies
<1>0. /\ up \in [Socks -> Seq(Requests)] /\ subs \in [Socks -> Seq(Subscriptions)]
      /\ eq \in [Socks -> Seq(QueuedEvents)]
  BY DEF TypeOK, SockTypeOK, ServerTypeOK
<1>1. ASSUME NEW s \in Socks, gam_incoming_conn_read(s)
      PROVE  Accepts(s)
  BY <1>1 DEF gam_incoming_conn_read, Accepts, sockVars
<1>2. ASSUME NEW s \in Socks, gam_client_conn_check_cred(s)
      PROVE  ReadsCred(s)
  BY <1>2 DEF gam_client_conn_check_cred, ReadsCred
<1>3. ASSUME NEW s \in Socks, gam_client_conn_shutdown(s)
      PROVE  Closes(s)
  BY <1>3 DEF gam_client_conn_shutdown, gam_connection_close, Closes
<1>4. ASSUME NEW s \in Socks, CancelUnknown(s)
      PROVE  Closes(s)
  <2>1. up[s] # <<>> /\ Head(up[s]).type = "CANCEL"
    BY <1>4 DEF CancelUnknown, Asked
  <2>2. \A i \in 1 .. Len(subs[s]) : subs[s][i].reqno # Head(up[s]).seq
    BY <1>4, ReqnoMissing DEF CancelUnknown
  <2> QED
    BY <1>4, <2>1, <2>2 DEF CancelUnknown, gam_connection_close, Closes
<1>5. ASSUME NEW s \in Socks, NEW gevent, gam_add_subscription(s, gevent)
      PROVE  ReadsMonitor(s)
  <2>1. up[s] # <<>> /\ Head(up[s]).type \in ReqTypes /\ cstate[s] = "OKAY"
    BY <1>5 DEF gam_add_subscription, Asked
  <2>2. Head(up[s]) \in Requests
    BY <1>0, <2>1
  <2>3. Head(up[s]) \in Monitors
    BY <2>1, <2>2 DEF Requests, ReqTypes
  <2> QED
    BY <1>5, <2>1, <2>3 DEF gam_add_subscription, ReadsMonitor
<1>6. ASSUME NEW s \in Socks, gam_remove_subscription(s)
      PROVE  \E i \in Nat : ReadsCancel(s, i)
  <2>1. PICK i : i = gam_listener_get_subscription_by_reqno(s, Head(up[s]).seq)
    OBVIOUS
  <2>2. /\ i \in 1 .. Len(subs[s])
        /\ Asked(s, {"CANCEL"})
        /\ up' = [up EXCEPT ![s] = Tail(@)]
        /\ subs' = [subs EXCEPT ![s] = RemoveAt(@, i)]
        /\ down' = Written(down, cOpen, s,
             <<[type |-> "Ack", seq |-> Head(up[s]).seq, path |-> subs[s][i].path]>>)
        /\ UNCHANGED <<cstate, sOpen>>
    BY <1>6, <2>1 DEF gam_remove_subscription
  <2>3. subs[s][i].reqno = Head(up[s]).seq
    BY <2>1, <2>2, ReqnoFound
  <2>4. ReadsCancel(s, i) /\ i \in Nat
    BY <2>2, <2>3 DEF ReadsCancel, Asked
  <2> QED
    BY <2>4
<1>7. ASSUME NEW s \in Socks, gam_connection_eq_flush(s)
      PROVE  Sends(s)
  <2>1. eq[s] \in Seq(QueuedEvents) /\ down' = Written(down, cOpen, s, eq[s])
    BY <1>0, <1>7 DEF gam_connection_eq_flush
  <2> QED
    BY <1>7, <2>1 DEF gam_connection_eq_flush, Sends
<1>8. ASSUME NEW s \in Socks, NEW i, NEW type, gam_inotify_event_callback(s, i, type)
      PROVE  UNCHANGED <<up, subs, cstate, down, sOpen>>
  BY <1>8 DEF gam_inotify_event_callback, sockVars
<1>9. CASE gam_server_init
  BY <1>9 DEF gam_server_init, sockVars, connVars
<1>10. CASE gam_connections_check \/ gam_exit
  <2>1. CASE ProcessEnds
    BY <2>1 DEF ProcessEnds, Dies
  <2>2. CASE ~ProcessEnds
    BY <1>10, <2>2 DEF gam_connections_check, gam_exit, sockVars, connVars
  <2> QED
    BY <2>1, <2>2
<1> QED
  BY <1>1, <1>2, <1>3, <1>4, <1>5, <1>6, <1>7, <1>8, <1>9, <1>10
     DEF ServerNext, gam_client_conn_read
-----------------------------------------------------------------------------
(* Every step keeps the books. *)

LEMMA AsksAt ==
  ASSUME TypeOK, NEW c \in Clients, NEW x \in Requests, NEW v, Asks(c, x, v)
  PROVE  /\ \A y \in Socks : y # fd[c] \/ ~sOpen[y] => up'[y] = up[y]
         /\ sOpen[fd[c]] => up'[fd[c]] = up[fd[c]] \o <<x>>
<1>1. up \in [Socks -> Seq(Requests)]
  BY DEF TypeOK, SockTypeOK
<1>2. PICK z : z = <<x>>
  OBVIOUS
<1>3. fd[c] \in Socks /\ up' = Written(up, sOpen, fd[c], z)
  BY <1>2 DEF Asks
<1>4. /\ \A y \in Socks : y # fd[c] \/ ~sOpen[y] => up'[y] = up[y]
      /\ sOpen[fd[c]] => up'[fd[c]] = up[fd[c]] \o z
  BY <1>1, <1>3 DEF Written
<1> QED
  BY <1>2, <1>4

LEMMA HandshakeClient ==
  ASSUME TypeOK, Handshake, NEW c \in Clients, ClientNext(c), UNCHANGED serverVars
  PROVE  Handshake'
<1>0. /\ up \in [Socks -> Seq(Requests)] /\ sOpen \in [Socks -> BOOLEAN]
      /\ UNCHANGED cstate
  BY DEF TypeOK, SockTypeOK, serverVars, connVars
<1>1. UNCHANGED <<up, sOpen>> => Handshake'
  BY <1>0 DEF Handshake
<1>2. ASSUME NEW x \in Requests, NEW v, Asks(c, x, v)
      PROVE  Handshake'
  <2>1. ASSUME NEW s \in Socks
        PROVE  up'[s] = up[s] \/ up'[s] = up[s] \o <<x>>
    BY <1>2, AsksAt, Zenon
  <2>2. ASSUME NEW s \in Socks, up[s] # <<>>
        PROVE  up[s] \o <<x>> # <<>> /\ Head(up[s] \o <<x>>) = Head(up[s])
    BY <1>0, <2>2
  <2> QED
    BY <1>0, <1>2, <2>1, <2>2 DEF Handshake, Asks
<1>3. ASSUME NEW s \in Socks, NEW t \in Seq(Entries), Joins(c, s, t)
      PROVE  Handshake'
  <2>1. Cred \in Requests /\ Cred.type = "CRED"
    BY SeqSpanAssumption DEF Cred, Requests
  <2>2. PICK z : z = Resent(t)
    OBVIOUS
  <2>3. z \in Seq(Requests)
    BY <2>2, ResentType
  <2>4. <<Cred>> \o z # <<>> /\ Head(<<Cred>> \o z) = Cred
    BY <2>1, <2>3
  <2> QED
    BY <1>0, <1>3, <2>1, <2>2, <2>4 DEF Handshake, Joins
<1> QED
  BY <1>1, <1>2, <1>3, ClientMoves DEF Edits, Leaves

LEMMA HandshakeServer ==
  ASSUME TypeOK, Handshake, ServerNext
  PROVE  Handshake'
<1>0. /\ up \in [Socks -> Seq(Requests)] /\ sOpen \in [Socks -> BOOLEAN]
      /\ cstate \in [Socks -> {"NONE", "AUTH", "OKAY"}]
  BY DEF TypeOK, SockTypeOK, ServerTypeOK
<1>1. ASSUME NEW s \in Socks, Closes(s)
      PROVE  Handshake'
  BY <1>0, <1>1 DEF Closes, Handshake
<1>2. ASSUME NEW s \in Socks, ReadsCred(s)
      PROVE  Handshake'
  BY <1>0, <1>2 DEF ReadsCred, Handshake
<1>3. ASSUME NEW s \in Socks, cstate[s] = "OKAY",
             up' = [up EXCEPT ![s] = Tail(@)], UNCHANGED <<cstate, sOpen>>
      PROVE  Handshake'
  BY <1>0, <1>3 DEF Handshake
<1>4. ASSUME NEW s \in Socks, Accepts(s)
      PROVE  Handshake'
  BY <1>0, <1>4 DEF Accepts, Handshake
<1>5. UNCHANGED <<up, cstate, sOpen>> => Handshake'
  BY DEF Handshake
<1>6. Dies => Handshake'
  BY DEF Dies, Handshake
<1> QED
  BY <1>1, <1>2, <1>3, <1>4, <1>5, <1>6, ServerMoves
     DEF ReadsMonitor, ReadsCancel, Sends

LEMMA LedgerClient ==
  ASSUME ~DoubleCancel, TypeOK, Ends, Ledger, NEW c \in Clients, ClientNext(c),
         UNCHANGED serverVars
  PROVE  Ledger'
<1>0. /\ up \in [Socks -> Seq(Requests)] /\ sOpen \in [Socks -> BOOLEAN]
      /\ subs \in [Socks -> Seq(Subscriptions)]
      /\ fd \in [Clients -> Socks \cup {NoSock}]
      /\ tab \in [Clients -> Seq(Entries)]
      /\ UNCHANGED subs
  BY DEF TypeOK, SockTypeOK, ClientTypeOK, ServerTypeOK, serverVars, connVars
<1>1. CASE UNCHANGED <<up, sOpen, fd, tab>>
  BY <1>0, <1>1 DEF Ledger
<1>2. ASSUME NEW x \in Requests, NEW v \in Seq(Entries), Asks(c, x, v), Pays(c, x, v)
      PROVE  Ledger'
  <2>1. PICK s \in Socks : s = fd[c]
    BY <1>2 DEF Asks
  <2>2. /\ \A y \in Socks \ {s} : up'[y] = up[y]
        /\ sOpen[s] => up'[s] = up[s] \o <<x>>
        /\ UNCHANGED <<fd, sOpen>>
    <3>1. /\ \A y \in Socks : y # fd[c] \/ ~sOpen[y] => up'[y] = up[y]
          /\ sOpen[fd[c]] => up'[fd[c]] = up[fd[c]] \o <<x>>
      BY <1>2, AsksAt, Zenon
    <3> QED
      BY <1>2, <2>1, <3>1 DEF Asks
  <2>3. tab'[c] = v /\ \A d \in Clients \ {c} : tab'[d] = tab[d]
    BY <1>0, <1>2 DEF Asks
  <2>4. \A d \in Clients \ {c} : fd[d] # s
    BY <2>1, NoSockAssumption DEF Ends, ClientEnds
  <2>5. ASSUME sOpen[s]
        PROVE  Covered(up'[s], subs[s]) /\ Backed(up'[s], subs[s], v)
    <3>1. Covered(up[s], subs[s]) /\ Backed(up[s], subs[s], tab[c])
      BY <2>1, <2>5, NoSockAssumption DEF Ledger
    <3>2. /\ up[s] \in Seq(Requests) /\ subs[s] \in Seq(Subscriptions)
          /\ tab[c] \in Seq(Entries)
      BY <1>0
    <3>3. Covered(up[s] \o <<x>>, subs[s]) /\ Backed(up[s] \o <<x>>, subs[s], v)
      BY <1>2, <3>1, <3>2, LedgerWrite DEF Pays
    <3> QED
      BY <2>2, <2>5, <3>3, Zenon
  <2>6. ASSUME NEW y \in Socks, sOpen'[y]
        PROVE  Covered(up'[y], subs'[y])
    BY <1>0, <2>2, <2>5, <2>6 DEF Ledger
  <2>7. ASSUME NEW d \in Clients, fd'[d] # NoSock, sOpen'[fd'[d]]
        PROVE  Backed(up'[fd'[d]], subs'[fd'[d]], tab'[d])
    <3>1. CASE d = c
      BY <1>0, <2>1, <2>2, <2>3, <2>5, <2>7, <3>1
    <3>2. CASE d # c
      BY <1>0, <2>2, <2>3, <2>4, <2>7, <3>2 DEF Ledger
    <3> QED
      BY <3>1, <3>2
  <2> QED
    BY <2>6, <2>7 DEF Ledger
<1>3. ASSUME NEW v \in Seq(Entries), Edits(c, v),
             \A q \in Wire : Live(v, q) <= Live(tab[c], q)
      PROVE  Ledger'
  <2>1. tab'[c] = v /\ \A d \in Clients \ {c} : tab'[d] = tab[d]
    BY <1>0, <1>3 DEF Edits
  <2>2. UNCHANGED <<up, fd, sOpen>>
    BY <1>3 DEF Edits
  <2>3. ASSUME fd[c] # NoSock, sOpen[fd[c]]
        PROVE  Backed(up[fd[c]], subs[fd[c]], v)
    <3>1. PICK s \in Socks : s = fd[c]
      BY <1>0, <2>3
    <3>2. /\ up[s] \in Seq(Requests) /\ subs[s] \in Seq(Subscriptions)
          /\ tab[c] \in Seq(Entries) /\ Backed(up[s], subs[s], tab[c])
      BY <1>0, <2>3, <3>1 DEF Ledger
    <3> QED
      BY <1>3, <3>1, <3>2, LedgerTable
  <2> QED
    BY <1>0, <2>1, <2>2, <2>3 DEF Ledger
<1>4. CASE Leaves(c)
  <2>1. /\ fd'[c] = NoSock
        /\ \A d \in Clients \ {c} : fd'[d] = fd[d] /\ tab'[d] = tab[d]
        /\ UNCHANGED <<up, sOpen>>
    BY <1>0, <1>4 DEF Leaves
  <2> QED
    BY <1>0, <2>1 DEF Ledger
<1>5. ASSUME NEW s \in Socks, NEW t \in Seq(Entries), Joins(c, s, t)
      PROVE  Ledger'
  <2>1. /\ fd'[c] = s /\ tab'[c] = t
        /\ \A d \in Clients \ {c} : fd'[d] = fd[d] /\ tab'[d] = tab[d]
        /\ up'[s] = <<Cred>> \o Resent(t)
        /\ \A y \in Socks \ {s} : up'[y] = up[y] /\ sOpen'[y] = sOpen[y]
    BY <1>0, <1>5 DEF Joins
  <2>2. subs[s] = <<>>
    BY <1>5 DEF Joins, Ends, ServerEnds
  <2>3. \A d \in Clients : fd[d] # s
    BY <1>5, NoSockAssumption DEF Joins, Ends, ClientEnds
  <2>4. Covered(up'[s], subs'[s]) /\ Backed(up'[s], subs'[s], t)
    <3>1. PICK z : z = <<Cred>> \o Resent(t)
      OBVIOUS
    <3>2. Covered(z, <<>>) /\ Backed(z, <<>>, t)
      BY <3>1, LedgerNew, Zenon
    <3>3. up'[s] = z /\ subs'[s] = <<>>
      BY <1>0, <2>1, <2>2, <3>1
    <3> QED
      BY <3>2, <3>3, Zenon
  <2>5. ASSUME NEW y \in Socks, sOpen'[y]
        PROVE  Covered(up'[y], subs'[y])
    BY <1>0, <2>1, <2>4, <2>5 DEF Ledger
  <2>6. ASSUME NEW d \in Clients, fd'[d] # NoSock, sOpen'[fd'[d]]
        PROVE  Backed(up'[fd'[d]], subs'[fd'[d]], tab'[d])
    <3>1. CASE d = c
      BY <2>1, <2>4, <3>1
    <3>2. CASE d # c
      BY <1>0, <2>1, <2>3, <2>6, <3>2 DEF Ledger
    <3> QED
      BY <3>1, <3>2
  <2> QED
    BY <2>5, <2>6 DEF Ledger
<1> QED
  BY <1>1, <1>2, <1>3, <1>4, <1>5, ClientMoves
(* The server reads the head of the channel of s, and its subscriptions    *)
(* become d.                                                               *)
LEMMA LedgerTakes ==
  ASSUME TypeOK, Ledger, UNCHANGED clientVars, NEW s \in Socks, up[s] # <<>>,
         NEW d \in Seq(Subscriptions), sOpen[s],
         \A q \in Wire : Held(subs[s], q) + One(Head(up[s]), MonitorsOf(q))
                           = Held(d, q) + One(Head(up[s]), CancelsOf(q)),
         up' = [up EXCEPT ![s] = Tail(@)], subs' = [subs EXCEPT ![s] = d],
         UNCHANGED sOpen
  PROVE  Ledger'
<1>0. /\ up \in [Socks -> Seq(Requests)] /\ sOpen \in [Socks -> BOOLEAN]
      /\ subs \in [Socks -> Seq(Subscriptions)]
      /\ fd \in [Clients -> Socks \cup {NoSock}]
      /\ tab \in [Clients -> Seq(Entries)]
      /\ UNCHANGED <<fd, tab>>
  BY DEF TypeOK, SockTypeOK, ClientTypeOK, ServerTypeOK, clientVars, dataVars
<1>1. up[s] \in Seq(Requests) /\ subs[s] \in Seq(Subscriptions)
  BY <1>0
<1>2. PICK u, b : u = up[s] /\ b = subs[s]
  OBVIOUS
<1>3. /\ Covered(u, b) => Covered(Tail(u), d)
      /\ \A t \in Seq(Entries) : Backed(u, b, t) => Backed(Tail(u), d, t)
  <2>1. u \in Seq(Requests) /\ b \in Seq(Subscriptions) /\ u # <<>>
    BY <1>1, <1>2
  <2>2. \A q \in Wire : Held(b, q) + One(Head(u), MonitorsOf(q))
                          = Held(d, q) + One(Head(u), CancelsOf(q))
    BY <1>2
  <2> QED
    BY <2>1, <2>2, LedgerRead
<1>4. /\ up'[s] = Tail(u) /\ subs'[s] = d
      /\ \A y \in Socks \ {s} : up'[y] = up[y] /\ subs'[y] = subs[y]
  BY <1>0, <1>2
<1>5. ASSUME NEW y \in Socks, sOpen'[y]
      PROVE  Covered(up'[y], subs'[y])
  BY <1>2, <1>3, <1>4, <1>5 DEF Ledger
<1>6. ASSUME NEW c \in Clients, fd'[c] # NoSock, sOpen'[fd'[c]]
      PROVE  Backed(up'[fd'[c]], subs'[fd'[c]], tab'[c])
  <2>1. fd[c] \in Socks /\ tab[c] \in Seq(Entries)
    BY <1>0, <1>6
  <2>2. Backed(up[fd[c]], subs[fd[c]], tab[c])
    BY <1>0, <1>6 DEF Ledger
  <2>3. CASE fd[c] = s
    BY <1>0, <1>2, <1>3, <1>4, <2>1, <2>2, <2>3
  <2>4. CASE fd[c] # s
    BY <1>0, <1>4, <2>1, <2>2, <2>4
  <2> QED
    BY <2>3, <2>4
<1> QED
  BY <1>5, <1>6 DEF Ledger

LEMMA NewSubType ==
  ASSUME NEW x \in Monitors
  PROVE  NewSub(x) \in Subscriptions /\ NewSub(x).reqno = x.seq /\ NewSub(x).path = x.path
  BY DEF NewSub, Monitors, Subscriptions

LEMMA LedgerServer ==
  ASSUME NonePaths = {}, TypeOK, Ends, Handshake, Ledger, ServerNext,
         UNCHANGED clientVars
  PROVE  Ledger'
<1>0. /\ up \in [Socks -> Seq(Requests)] /\ sOpen \in [Socks -> BOOLEAN]
      /\ subs \in [Socks -> Seq(Subscriptions)]
      /\ fd \in [Clients -> Socks \cup {NoSock}]
      /\ UNCHANGED <<fd, tab>>
  BY DEF TypeOK, SockTypeOK, ClientTypeOK, ServerTypeOK, clientVars, dataVars
<1>a. \A s \in Socks : cstate[s] # "NONE" => sOpen[s]
  BY <1>0 DEF Ends, ServerEnds
<1>1. UNCHANGED <<up, subs, sOpen>> => Ledger'
  BY <1>0 DEF Ledger
<1>2. ASSUME NEW s \in Socks, Closes(s)
      PROVE  Ledger'
  <2>1. /\ ~sOpen'[s] /\ \A y \in Socks \ {s} :
             sOpen'[y] = sOpen[y] /\ up'[y] = up[y] /\ subs'[y] = subs[y]
    BY <1>0, <1>2 DEF Closes
  <2> QED
    BY <1>0, <2>1 DEF Ledger
<1>3. ASSUME NEW s \in Socks, ReadsCred(s)
      PROVE  Ledger'
  <2>1. /\ up[s] # <<>> /\ sOpen[s] /\ up' = [up EXCEPT ![s] = Tail(@)]
        /\ subs' = [subs EXCEPT ![s] = subs[s]] /\ UNCHANGED sOpen
        /\ subs[s] \in Seq(Subscriptions)
    BY <1>0, <1>3, <1>a DEF ReadsCred
  <2>2. Head(up[s]) \in Requests /\ Head(up[s]).type = "CRED"
    BY <1>0, <1>3, <2>1 DEF ReadsCred, Handshake
  <2>3. \A q \in Wire : One(Head(up[s]), MonitorsOf(q)) = 0
                        /\ One(Head(up[s]), CancelsOf(q)) = 0
    BY <2>2, OneOfEach
  <2> QED
    BY <2>1, <2>3, LedgerTakes
<1>4. ASSUME NEW s \in Socks, ReadsMonitor(s)
      PROVE  Ledger'
  <2>1. PICK x : x = Head(up[s])
    OBVIOUS
  <2>2. /\ x \in Monitors /\ up[s] # <<>> /\ sOpen[s]
        /\ up' = [up EXCEPT ![s] = Tail(@)] /\ UNCHANGED sOpen
        /\ subs[s] \in Seq(Subscriptions)
    BY <1>0, <1>4, <1>a, <2>1 DEF ReadsMonitor
  <2>3. NewSub(x) \in Subscriptions /\ NewSub(x).reqno = x.seq
    BY <2>2, NewSubType
  <2>4. PICK d : d = <<NewSub(x)>> \o subs[s]
    OBVIOUS
  <2>5. subs' = [subs EXCEPT ![s] = d]
    BY <1>4, <2>1, <2>4 DEF ReadsMonitor
  <2>6. d \in Seq(Subscriptions)
    BY <2>2, <2>3, <2>4
  <2>7. ASSUME NEW q \in Wire
        PROVE  Held(subs[s], q) + One(x, MonitorsOf(q))
                 = Held(d, q) + One(x, CancelsOf(q))
    <3>1. Held(d, q) = Held(subs[s], q) + (IF x.seq = q THEN 1 ELSE 0)
      BY <2>2, <2>3, <2>4, HeldCons
    <3>2. /\ One(x, MonitorsOf(q)) = IF x.seq = q THEN 1 ELSE 0
          /\ One(x, CancelsOf(q)) = 0
      BY <2>2, OneOfEach
    <3>3. Held(subs[s], q) \in Nat
      BY <2>2, HeldType
    <3> QED
      BY <3>1, <3>2, <3>3
  <2> QED
    BY <2>1, <2>2, <2>5, <2>6, <2>7, LedgerTakes
<1>5. ASSUME NEW s \in Socks, NEW i \in Nat, ReadsCancel(s, i)
      PROVE  Ledger'
  <2>1. PICK x : x = Head(up[s])
    OBVIOUS
  <2>2. /\ x \in Requests /\ x.type = "CANCEL" /\ up[s] # <<>> /\ sOpen[s]
        /\ up' = [up EXCEPT ![s] = Tail(@)] /\ UNCHANGED sOpen
        /\ subs[s] \in Seq(Subscriptions)
        /\ i \in 1 .. Len(subs[s]) /\ subs[s][i].reqno = x.seq
    BY <1>0, <1>5, <1>a, <2>1 DEF ReadsCancel
  <2>4. PICK d : d = RemoveAt(subs[s], i)
    OBVIOUS
  <2>5. subs' = [subs EXCEPT ![s] = d]
    BY <1>5, <2>4 DEF ReadsCancel
  <2>6. d \in Seq(Subscriptions)
    BY <2>2, <2>4, RemoveAtType
  <2>7. ASSUME NEW q \in Wire
        PROVE  Held(subs[s], q) + One(x, MonitorsOf(q))
                 = Held(d, q) + One(x, CancelsOf(q))
    <3>1. Held(subs[s], q) = Held(d, q) + (IF x.seq = q THEN 1 ELSE 0)
      BY <2>2, <2>4, HeldRemove
    <3>2. /\ One(x, CancelsOf(q)) = IF x.seq = q THEN 1 ELSE 0
          /\ One(x, MonitorsOf(q)) = 0
      BY <2>2, OneOfEach
    <3>3. Held(d, q) \in Nat
      BY <2>6, HeldType
    <3> QED
      BY <3>1, <3>2, <3>3
  <2> QED
    BY <2>1, <2>2, <2>5, <2>6, <2>7, LedgerTakes
<1>6. Dies => Ledger'
  <2>1. ASSUME Dies
        PROVE  \A s \in Socks : ~sOpen'[s]
    BY <2>1 DEF Dies
  <2> QED
    BY <1>0, <2>1 DEF Ledger
<1> QED
  BY <1>1, <1>2, <1>3, <1>4, <1>5, <1>6, ServerMoves DEF Sends, Accepts

(* A cancellation at the head of a covered channel finds a subscription. *)
LEMMA CoveredHead ==
  ASSUME NEW u \in Seq(Requests), NEW b \in Seq(Subscriptions), Covered(u, b),
         u # <<>>, Head(u).type = "CANCEL"
  PROVE  \E i \in 1 .. Len(b) : b[i].reqno = Head(u).seq
<1>1. PICK q : q = Head(u).seq
  OBVIOUS
<1>2. Head(u) \in Requests /\ 1 \in 0 .. Len(u) /\ 0 \in 0 .. Len(u) - 1
  OBVIOUS
<1>3. q \in Wire
  BY <1>1, <1>2 DEF Requests, Monitors, Wire
<1>4. /\ Count(u, 0 + 1, CancelsOf(q)) =
           Count(Tail(u), 0, CancelsOf(q)) + One(Head(u), CancelsOf(q))
      /\ Count(u, 0 + 1, MonitorsOf(q)) =
           Count(Tail(u), 0, MonitorsOf(q)) + One(Head(u), MonitorsOf(q))
  BY <1>2, CountTail
<1>5. /\ Count(Tail(u), 0, CancelsOf(q)) = 0
      /\ Count(Tail(u), 0, MonitorsOf(q)) = 0
  BY CountZero
<1>6. One(Head(u), CancelsOf(q)) = 1 /\ One(Head(u), MonitorsOf(q)) = 0
  BY <1>1, <1>2, OneOfEach
<1>7. Count(u, 1, CancelsOf(q)) = 1 /\ Count(u, 1, MonitorsOf(q)) = 0
  BY <1>4, <1>5, <1>6
<1>8. Count(u, 1, CancelsOf(q)) <= Held(b, q) + Count(u, 1, MonitorsOf(q))
  BY <1>2, <1>3 DEF Covered
<1>9. Held(b, q) # 0
  BY <1>7, <1>8
<1>10. ~ \A i \in 1 .. Len(b) : b[i] \notin SubsOf(q)
  BY <1>9, CountNone DEF Held
<1> QED
  BY <1>1, <1>10 DEF SubsOf

LedgerInv == NonePaths = {} /\ ~DoubleCancel => Ledger

(* The server finds every request it is asked to cancel, whatever the      *)
(* table looks like after reconnections and with numbers of the user's     *)
(* own: a client that cancels each monitor once is only disconnected by    *)
(* the end of the server.                                                  *)
THEOREM NoSpuriousCloseAlways == Spec => NoSpuriousClose
<1>1. Init => Handshake /\ LedgerInv
  <2> SUFFICES ASSUME Init PROVE Handshake /\ LedgerInv
    OBVIOUS
  <2>1. \A s \in Socks : ~sOpen[s]
    BY DEF Init, SockInit
  <2>2. \A c \in Clients : fd[c] = NoSock
    BY DEF Init, ClientInit
  <2> QED
    BY <2>1, <2>2 DEF Handshake, LedgerInv, Ledger
<1>2. TypeOK /\ Ends /\ Handshake /\ LedgerInv /\ [Next]_vars
        => Handshake' /\ LedgerInv'
  <2> SUFFICES ASSUME TypeOK, Ends, Handshake, LedgerInv, [Next]_vars
               PROVE  Handshake' /\ LedgerInv'
    OBVIOUS
  <2>1. CASE ClientStep
    BY <2>1, HandshakeClient, LedgerClient DEF ClientStep, LedgerInv
  <2>2. CASE ServerStep
    BY <2>2, HandshakeServer, LedgerServer DEF ServerStep, LedgerInv
  <2>3. CASE UNCHANGED vars
    BY <2>3 DEF vars, sockVars, clientVars, dataVars, serverVars, connVars,
       Handshake, LedgerInv, Ledger
  <2> QED
    BY <2>1, <2>2, <2>3 DEF Next
<1>3. TypeOK /\ Ends /\ LedgerInv /\ [Next]_vars =>
        [~DoubleCancel /\ NonePaths = {} =>
           \A s \in Socks :
             cstate[s] = "OKAY" /\ cOpen[s] /\ cstate'[s] = "NONE"
               => srv' = "down"]_vars
  <2> SUFFICES ASSUME TypeOK, Ends, LedgerInv, Next, ~DoubleCancel, NonePaths = {},
                      NEW s \in Socks,
                      cstate[s] = "OKAY", cOpen[s], cstate'[s] = "NONE"
               PROVE  srv' = "down"
    OBVIOUS
  <2>0. /\ up \in [Socks -> Seq(Requests)] /\ sOpen \in [Socks -> BOOLEAN]
        /\ subs \in [Socks -> Seq(Subscriptions)]
        /\ cstate \in [Socks -> {"NONE", "AUTH", "OKAY"}]
    BY DEF TypeOK, SockTypeOK, ServerTypeOK
  <2>1. ServerNext
    BY DEF Next, ClientStep, ServerStep, serverVars, connVars
  <2>2. Covered(up[s], subs[s])
    BY <2>0 DEF LedgerInv, Ledger, Ends, ServerEnds
  <2>3. ~Closes(s)
    <3> SUFFICES ASSUME Closes(s) PROVE FALSE
      OBVIOUS
    <3>1. /\ up[s] # <<>> /\ Head(up[s]).type = "CANCEL"
          /\ \A i \in 1 .. Len(subs[s]) : subs[s][i].reqno # Head(up[s]).seq
      BY DEF Closes
    <3>2. up[s] \in Seq(Requests) /\ subs[s] \in Seq(Subscriptions)
      BY <2>0
    <3> QED
      BY <2>2, <3>1, <3>2, CoveredHead
  <2>4. \A y \in Socks : Closes(y) => y = s
    BY <2>0 DEF Closes
  <2>5. ~ UNCHANGED cstate
    OBVIOUS
  <2>6. \A y \in Socks : ~ReadsCred(y) /\ ~Accepts(y)
    BY <2>0 DEF ReadsCred, Accepts
  <2> QED
    BY <2>1, <2>3, <2>4, <2>5, <2>6, ServerMoves
       DEF ReadsMonitor, ReadsCancel, Sends, Dies
<1> QED
  BY <1>1, <1>2, <1>3, TypeCorrect, EndsAlways, PTL DEF Spec, NoSpuriousClose
-----------------------------------------------------------------------------
(* A connection that never lost its server: every number has one credit at *)
(* most, and it is known which numbers have one.                           *)

Total(u, M) == Count(u, Len(u), M)

TrackedOf(q) == {x \in Monitors : x.seq = q /\ x.path \notin NonePaths}

Tokens(u, b, q)  == Held(b, q) + Total(u, MonitorsOf(q))
Tracked(u, b, q) == Held(b, q) + Total(u, TrackedOf(q))
Debt(u, q)       == Total(u, CancelsOf(q))

(* The table wants the events of the request with wire number q. *)
IsLive(e) == e.state # "CANCELLED" /\ e.path \notin NonePaths
HasLive(t, q) == \E i \in 1 .. Len(t) : IsLive(t[i]) /\ SeqOf16(t[i].reqno) = q

(* An acknowledgement of q is on its way, or waits for FAMNextEvent. *)
Acked(d, e, q) ==
  \/ e.type = "Ack" /\ e.seq = q
  \/ \E i \in 1 .. Len(d) : d[i].type = "Ack" /\ d[i].seq = q

(* The books of number q: channel u, subscriptions b, table t, counter n;  *)
(* a says whether an acknowledgement is on its way.                        *)
Sound(u, b, t, a, n, q) ==
  /\ Tokens(u, b, q) <= 1
  /\ n <= q => Tokens(u, b, q) = 0 /\ Debt(u, q) = 0
  /\ a => Tokens(u, b, q) = 0 /\ q < n
  /\ HasLive(t, q) <=> Tracked(u, b, q) # 0 /\ Debt(u, q) = 0

LEMMA SeqOf16Small ==
  ASSUME NEW r \in Nat, r < SeqSpan
  PROVE  SeqOf16(r) = r
  BY SeqSpanAssumption DEF SeqOf16

LEMMA TotalFacts ==
  ASSUME NEW u \in Seq(Requests), NEW M
  PROVE  /\ Total(u, M) \in Nat
         /\ \A x \in Requests : Total(u \o <<x>>, M) = Total(u, M) + One(x, M)
         /\ u # <<>> => Total(u, M) = Total(Tail(u), M) + One(Head(u), M)
<1>1. Len(u) \in Nat
  OBVIOUS
<1>2. Total(u, M) \in Nat
  BY <1>1, CountType DEF Total
<1>3. ASSUME NEW x \in Requests
      PROVE  Total(u \o <<x>>, M) = Total(u, M) + One(x, M)
  <2>1. Len(u \o <<x>>) = Len(u) + 1
    OBVIOUS
  <2>2. Count(u \o <<x>>, Len(u) + 1, M) = Count(u, Len(u), M) + One(x, M)
    BY CountAppend
  <2> QED
    BY <2>1, <2>2 DEF Total
<1>4. ASSUME u # <<>>
      PROVE  Total(u, M) = Total(Tail(u), M) + One(Head(u), M)
  <2>1. PICK k : k = Len(Tail(u))
    OBVIOUS
  <2>2. k \in 0 .. Len(u) - 1 /\ k + 1 = Len(u)
    BY <1>4, <2>1
  <2>3. Count(u, k + 1, M) = Count(Tail(u), k, M) + One(Head(u), M)
    BY <1>4, <2>2, CountTail
  <2> QED
    BY <2>1, <2>2, <2>3 DEF Total
<1> QED
  BY <1>2, <1>3, <1>4

LEMMA TokenFacts ==
  ASSUME NEW u \in Seq(Requests), NEW b \in Seq(Subscriptions), NEW q
  PROVE  /\ Tokens(u, b, q) \in Nat /\ Tracked(u, b, q) \in Nat /\ Debt(u, q) \in Nat
         /\ Tracked(u, b, q) <= Tokens(u, b, q)
<1>1. /\ Total(u, MonitorsOf(q)) \in Nat /\ Total(u, TrackedOf(q)) \in Nat
      /\ Total(u, CancelsOf(q)) \in Nat /\ Held(b, q) \in Nat
  BY TotalFacts, HeldType
<1>2. PICK n \in Nat : n = Len(u)
  OBVIOUS
<1>3. \A i \in 1 .. n : u[i] \in TrackedOf(q) => u[i] \in MonitorsOf(q)
  BY DEF TrackedOf, MonitorsOf
<1>4. Count(u, n, TrackedOf(q)) <= Count(u, n, MonitorsOf(q))
  BY <1>3, CountLess
<1>5. Total(u, TrackedOf(q)) <= Total(u, MonitorsOf(q))
  BY <1>2, <1>4 DEF Total
<1> QED
  BY <1>1, <1>5 DEF Tokens, Tracked, Debt

LEMMA OneTracked ==
  ASSUME NEW q
  PROVE  /\ \A x \in Monitors :
              One(x, TrackedOf(q)) = IF x.seq = q /\ x.path \notin NonePaths THEN 1 ELSE 0
         /\ \A x \in Requests : x.type \notin ReqTypes => One(x, TrackedOf(q)) = 0
<1>1. ASSUME NEW x \in Monitors
      PROVE  One(x, TrackedOf(q)) = IF x.seq = q /\ x.path \notin NonePaths THEN 1 ELSE 0
  BY DEF One, TrackedOf
<1>2. ASSUME NEW x \in Requests, x.type \notin ReqTypes
      PROVE  One(x, TrackedOf(q)) = 0
  BY <1>2 DEF One, TrackedOf, Monitors
<1> QED
  BY <1>1, <1>2

-----------------------------------------------------------------------------
(* The live requests of a table. *)

LEMMA LiveAfterAdd ==
  ASSUME NEW t \in Seq(Entries), NEW e \in Entries, NEW q
  PROVE  HasLive(t \o <<e>>, q) <=>
           HasLive(t, q) \/ (IsLive(e) /\ SeqOf16(e.reqno) = q)
<1>1. PICK v : v = t \o <<e>>
  OBVIOUS
<1>2. /\ Len(t) \in Nat /\ Len(v) = Len(t) + 1 /\ v[Len(t) + 1] = e
      /\ \A i \in 1 .. Len(t) : v[i] = t[i]
  BY <1>1
<1>3. ASSUME HasLive(v, q)
      PROVE  HasLive(t, q) \/ (IsLive(e) /\ SeqOf16(e.reqno) = q)
  <2>1. PICK i \in 1 .. Len(v) : IsLive(v[i]) /\ SeqOf16(v[i].reqno) = q
    BY <1>3 DEF HasLive
  <2>2. CASE i = Len(t) + 1
    BY <1>2, <2>1, <2>2
  <2>3. CASE i \in 1 .. Len(t)
    BY <1>2, <2>1, <2>3 DEF HasLive
  <2> QED
    BY <1>2, <2>2, <2>3
<1>4. ASSUME HasLive(t, q)
      PROVE  HasLive(v, q)
  <2>1. PICK i \in 1 .. Len(t) : IsLive(t[i]) /\ SeqOf16(t[i].reqno) = q
    BY <1>4 DEF HasLive
  <2>2. i \in 1 .. Len(v) /\ v[i] = t[i]
    BY <1>2
  <2> QED
    BY <2>1, <2>2 DEF HasLive
<1>5. ASSUME IsLive(e), SeqOf16(e.reqno) = q
      PROVE  HasLive(v, q)
  <2>1. Len(t) + 1 \in 1 .. Len(v)
    BY <1>2
  <2> QED
    BY <1>2, <1>5, <2>1 DEF HasLive
<1> QED
  BY <1>1, <1>3, <1>4, <1>5

LEMMA LiveAfterCancel ==
  ASSUME NEW t \in Seq(Entries), NEW i \in 1 .. Len(t), NEW u,
         Marked(t, i, "CANCELLED", u), Ahead(t, SeqSpan)
  PROVE  /\ ~HasLive(u, t[i].reqno)
         /\ \A q : q # t[i].reqno => (HasLive(u, q) <=> HasLive(t, q))
<1>1. /\ Len(u) = Len(t) /\ u[i].state = "CANCELLED"
      /\ \A j \in 1 .. Len(t) : j # i => t[j] = u[j]
  BY DEF Marked
<1>2. \A j \in 1 .. Len(t) : t[j].reqno \in Nat /\ SeqOf16(t[j].reqno) = t[j].reqno
  <2>1. ASSUME NEW j \in 1 .. Len(t)
        PROVE  t[j].reqno \in Nat /\ SeqOf16(t[j].reqno) = t[j].reqno
    <3>1. t[j] \in Entries
      OBVIOUS
    <3>2. t[j].reqno \in Nat /\ t[j].reqno < SeqSpan
      BY <3>1 DEF Entries, Ahead
    <3> QED
      BY <3>2, SeqOf16Small
  <2> QED
    BY <2>1
<1>3. \A j \in 1 .. Len(t) : j # i => t[j].reqno # t[i].reqno
  <2>1. ASSUME NEW j \in 1 .. Len(t), j # i
        PROVE  t[j].reqno # t[i].reqno
    <3>1. CASE j < i
      BY <1>2, <3>1 DEF Ahead, Increasing
    <3>2. CASE i < j
      BY <1>2, <3>2 DEF Ahead, Increasing
    <3> QED
      BY <2>1, <3>1, <3>2
  <2> QED
    BY <2>1
<1>4. ~IsLive(u[i])
  BY <1>1 DEF IsLive
<1>5. ~HasLive(u, t[i].reqno)
  BY <1>1, <1>2, <1>3, <1>4 DEF HasLive
<1>6. ASSUME NEW q, q # t[i].reqno
      PROVE  HasLive(u, q) <=> HasLive(t, q)
  <2>1. \A j \in 1 .. Len(t) :
          (IsLive(u[j]) /\ SeqOf16(u[j].reqno) = q)
            <=> (IsLive(t[j]) /\ SeqOf16(t[j].reqno) = q)
    BY <1>1, <1>2, <1>4, <1>6
  <2> QED
    BY <1>1, <2>1 DEF HasLive
<1> QED
  BY <1>5, <1>6

LEMMA LiveAfterConfirm ==
  ASSUME NEW t \in Seq(Entries), NEW e, NEW q
  PROVE  HasLive(Confirm(t, e), q) <=> HasLive(t, q)
<1>1. PICK u : u = Confirm(t, e)
  OBVIOUS
<1>2. CASE u # t
  <2>1. PICK i \in 1 .. Len(t) : t[i].state = "INIT" /\ Marked(t, i, "CONFIRMED", u)
    BY <1>1, <1>2, ConfirmMarks
  <2>2. /\ Len(u) = Len(t) /\ \A j \in 1 .. Len(t) : j # i => t[j] = u[j]
        /\ u[i].state = "CONFIRMED" /\ u[i].reqno = t[i].reqno /\ u[i].path = t[i].path
    BY <2>1 DEF Marked
  <2>3. \A j \in 1 .. Len(t) :
          (IsLive(u[j]) /\ SeqOf16(u[j].reqno) = q)
            <=> (IsLive(t[j]) /\ SeqOf16(t[j].reqno) = q)
    <3>1. IsLive(u[i]) <=> IsLive(t[i])
      BY <2>1, <2>2 DEF IsLive
    <3> QED
      BY <2>2, <3>1
  <2> QED
    BY <1>1, <2>2, <2>3 DEF HasLive
<1> QED
  BY <1>1, <1>2

LEMMA LiveAfterDel ==
  ASSUME NEW t \in Seq(Entries), NEW r \in Wire
  PROVE  /\ HasLive(gamin_data_del_req(t, r), r) => HasLive(t, r)
         /\ \A q : q # r => (HasLive(gamin_data_del_req(t, r), q) <=> HasLive(t, q))
<1>1. PICK i : i = gamin_data_get_req_idx(t, r)
  OBVIOUS
<1>2. CASE i \in 1 .. Len(t)
  <2>1. PICK u : u = gamin_data_del_req(t, r)
    OBVIOUS
  <2>2. u = RemoveAt(t, i)
    BY <1>1, <1>2, <2>1 DEF gamin_data_del_req
  <2>3. /\ Len(u) = Len(t) - 1
        /\ \A j \in 1 .. Len(t) - 1 : u[j] = IF j < i THEN t[j] ELSE t[j + 1]
    BY <1>2, <2>2, RemoveAtType
  <2>4. t[i].reqno = r /\ SeqOf16(r) = r
    BY <1>1, <1>2, IdxSound, SeqOf16Small, SeqSpanAssumption DEF Wire
  <2>5. ASSUME NEW q, HasLive(u, q)
        PROVE  HasLive(t, q)
    <3>1. PICK j \in 1 .. Len(u) : IsLive(u[j]) /\ SeqOf16(u[j].reqno) = q
      BY <2>5 DEF HasLive
    <3>2. \E k \in 1 .. Len(t) : u[j] = t[k]
      <4>1. CASE j < i
        BY <1>2, <2>3, <4>1
      <4>2. CASE j >= i
        <5>1. j + 1 \in 1 .. Len(t) /\ u[j] = t[j + 1]
          BY <1>2, <2>3, <4>2
        <5> QED
          BY <5>1
      <4> QED
        BY <1>2, <4>1, <4>2
    <3> QED
      BY <3>1, <3>2 DEF HasLive
  <2>6. ASSUME NEW q, q # r, HasLive(t, q)
        PROVE  HasLive(u, q)
    <3>1. PICK k \in 1 .. Len(t) : IsLive(t[k]) /\ SeqOf16(t[k].reqno) = q
      BY <2>6 DEF HasLive
    <3>2. k # i
      BY <2>4, <2>6, <3>1
    <3>3. \E j \in 1 .. Len(u) : u[j] = t[k]
      <4>1. CASE k < i
        <5>1. k \in 1 .. Len(t) - 1 /\ u[k] = t[k]
          BY <1>2, <2>3, <4>1
        <5> QED
          BY <2>3, <5>1
      <4>2. CASE k > i
        <5>1. k - 1 \in 1 .. Len(t) - 1 /\ u[k - 1] = t[(k - 1) + 1] /\ (k - 1) + 1 = k
          BY <1>2, <2>3, <4>2
        <5> QED
          BY <2>3, <5>1
      <4> QED
        BY <1>2, <3>2, <4>1, <4>2
    <3> QED
      BY <3>1, <3>3 DEF HasLive
  <2> QED
    BY <2>1, <2>5, <2>6
<1>3. CASE i \notin 1 .. Len(t)
  BY <1>1, <1>3 DEF gamin_data_del_req
<1> QED
  BY <1>2, <1>3
-----------------------------------------------------------------------------
(* What a step does to the books of a number. *)

LEMMA AppendBooks ==
  ASSUME NEW u \in Seq(Requests), NEW b \in Seq(Subscriptions), NEW q,
         NEW x \in Requests
  PROVE  /\ Tokens(u \o <<x>>, b, q) = Tokens(u, b, q) + One(x, MonitorsOf(q))
         /\ Tracked(u \o <<x>>, b, q) = Tracked(u, b, q) + One(x, TrackedOf(q))
         /\ Debt(u \o <<x>>, q) = Debt(u, q) + One(x, CancelsOf(q))
<1>1. /\ Total(u \o <<x>>, MonitorsOf(q)) = Total(u, MonitorsOf(q)) + One(x, MonitorsOf(q))
      /\ Total(u \o <<x>>, TrackedOf(q)) = Total(u, TrackedOf(q)) + One(x, TrackedOf(q))
      /\ Total(u \o <<x>>, CancelsOf(q)) = Total(u, CancelsOf(q)) + One(x, CancelsOf(q))
  BY TotalFacts
<1>2. /\ Total(u, MonitorsOf(q)) \in Nat /\ Total(u, TrackedOf(q)) \in Nat
      /\ Held(b, q) \in Nat
  BY TotalFacts, HeldType
<1>3. One(x, MonitorsOf(q)) \in Nat /\ One(x, TrackedOf(q)) \in Nat
  BY DEF One
<1> QED
  BY <1>1, <1>2, <1>3 DEF Tokens, Tracked, Debt

LEMMA ReadBooks ==
  ASSUME NEW u \in Seq(Requests), NEW b \in Seq(Subscriptions), NEW q,
         NEW d \in Seq(Subscriptions), NEW h \in {0, 1}, u # <<>>
  PROVE  /\ Held(d, q) = Held(b, q) + h =>
              /\ Tokens(u, b, q) + h = Tokens(Tail(u), d, q) + One(Head(u), MonitorsOf(q))
              /\ Tracked(u, b, q) + h = Tracked(Tail(u), d, q) + One(Head(u), TrackedOf(q))
         /\ Held(b, q) = Held(d, q) + h =>
              /\ Tokens(u, b, q) = Tokens(Tail(u), d, q) + One(Head(u), MonitorsOf(q)) + h
              /\ Tracked(u, b, q) = Tracked(Tail(u), d, q) + One(Head(u), TrackedOf(q)) + h
         /\ Debt(u, q) = Debt(Tail(u), q) + One(Head(u), CancelsOf(q))
<1>1. /\ Total(u, MonitorsOf(q)) = Total(Tail(u), MonitorsOf(q)) + One(Head(u), MonitorsOf(q))
      /\ Total(u, TrackedOf(q)) = Total(Tail(u), TrackedOf(q)) + One(Head(u), TrackedOf(q))
      /\ Total(u, CancelsOf(q)) = Total(Tail(u), CancelsOf(q)) + One(Head(u), CancelsOf(q))
  BY TotalFacts
<1>2. Tail(u) \in Seq(Requests)
  OBVIOUS
<1>3. /\ Total(Tail(u), MonitorsOf(q)) \in Nat /\ Total(Tail(u), TrackedOf(q)) \in Nat
      /\ Held(b, q) \in Nat /\ Held(d, q) \in Nat
  BY <1>2, TotalFacts, HeldType
<1>4. One(Head(u), MonitorsOf(q)) \in Nat /\ One(Head(u), TrackedOf(q)) \in Nat
  BY DEF One
<1>5. PICK m, w, om, ow, hb, hd :
        /\ m = Total(Tail(u), MonitorsOf(q)) /\ om = One(Head(u), MonitorsOf(q))
        /\ w = Total(Tail(u), TrackedOf(q)) /\ ow = One(Head(u), TrackedOf(q))
        /\ hb = Held(b, q) /\ hd = Held(d, q)
  OBVIOUS
<1>6. /\ Tokens(u, b, q) = hb + (m + om) /\ Tracked(u, b, q) = hb + (w + ow)
      /\ Tokens(Tail(u), d, q) = hd + m /\ Tracked(Tail(u), d, q) = hd + w
  BY <1>1, <1>5, Zenon DEF Tokens, Tracked
<1>7. /\ m \in Nat /\ w \in Nat /\ om \in Nat /\ ow \in Nat
      /\ hb \in Nat /\ hd \in Nat
  BY <1>3, <1>4, <1>5
<1>8. ASSUME hd = hb + h
      PROVE  hb + (m + om) + h = (hd + m) + om /\ hb + (w + ow) + h = (hd + w) + ow
  BY <1>7, <1>8
<1>9. ASSUME hb = hd + h
      PROVE  hb + (m + om) = (hd + m) + om + h /\ hb + (w + ow) = (hd + w) + ow + h
  BY <1>7, <1>9
<1> QED
  BY <1>1, <1>5, <1>6, <1>8, <1>9, Zenon DEF Debt

LEMMA ReadBooksMore ==
  ASSUME NEW u \in Seq(Requests), NEW b \in Seq(Subscriptions), NEW q,
         NEW d \in Seq(Subscriptions), NEW h \in {0, 1}, u # <<>>,
         Held(d, q) = Held(b, q) + h
  PROVE  /\ Tokens(u, b, q) + h = Tokens(Tail(u), d, q) + One(Head(u), MonitorsOf(q))
         /\ Tracked(u, b, q) + h = Tracked(Tail(u), d, q) + One(Head(u), TrackedOf(q))
         /\ Debt(u, q) = Debt(Tail(u), q) + One(Head(u), CancelsOf(q))
  BY ReadBooks

(* FAMMonitor: the next number is used. *)
LEMMA SoundAsk ==
  ASSUME NEW u \in Seq(Requests), NEW b \in Seq(Subscriptions), NEW t \in Seq(Entries),
         NEW n \in Nat, n < SeqSpan, NEW x \in Monitors, x.seq = n,
         NEW e \in Entries, e.reqno = n, e.path = x.path, e.state = "INIT",
         NEW a \in BOOLEAN, NEW q \in Wire, Sound(u, b, t, a, n, q)
  PROVE  Sound(u \o <<x>>, b, t \o <<e>>, a, n + 1, q)
<1>0. q \in Nat
  BY SeqSpanAssumption DEF Wire
<1>1. x \in Requests /\ q \in Nat
  BY <1>0 DEF Requests
<1>2. PICK tk, tr, de : /\ tk = Tokens(u, b, q) /\ tr = Tracked(u, b, q)
                        /\ de = Debt(u, q)
  OBVIOUS
<1>3. tk \in Nat /\ tr \in Nat /\ de \in Nat /\ tr <= tk
  BY <1>2, TokenFacts
<1>4. /\ One(x, MonitorsOf(q)) = IF n = q THEN 1 ELSE 0
      /\ One(x, CancelsOf(q)) = 0
      /\ One(x, TrackedOf(q)) = IF n = q /\ x.path \notin NonePaths THEN 1 ELSE 0
  BY OneOfEach, OneTracked
<1>5. /\ Tokens(u \o <<x>>, b, q) = tk + (IF n = q THEN 1 ELSE 0)
      /\ Tracked(u \o <<x>>, b, q) =
           tr + (IF n = q /\ x.path \notin NonePaths THEN 1 ELSE 0)
      /\ Debt(u \o <<x>>, q) = de
  <2>1. /\ Tokens(u \o <<x>>, b, q) = tk + One(x, MonitorsOf(q))
        /\ Tracked(u \o <<x>>, b, q) = tr + One(x, TrackedOf(q))
        /\ Debt(u \o <<x>>, q) = de + One(x, CancelsOf(q))
    BY <1>1, <1>2, AppendBooks
  <2> QED
    BY <1>3, <1>4, <2>1
<1>6. /\ tk <= 1 /\ (n <= q => tk = 0 /\ de = 0) /\ (a => tk = 0 /\ q < n)
      /\ HasLive(t, q) <=> tr # 0 /\ de = 0
  BY <1>2 DEF Sound
<1>7. HasLive(t \o <<e>>, q) <=>
        HasLive(t, q) \/ (x.path \notin NonePaths /\ n = q)
  <2>1. SeqOf16(n) = n /\ (IsLive(e) <=> x.path \notin NonePaths)
    BY SeqOf16Small DEF IsLive
  <2> QED
    BY <2>1, LiveAfterAdd
<1>8. /\ tk + (IF n = q THEN 1 ELSE 0) <= 1
      /\ n + 1 <= q => tk + (IF n = q THEN 1 ELSE 0) = 0 /\ de = 0
      /\ a => tk + (IF n = q THEN 1 ELSE 0) = 0 /\ q < n + 1
  BY <1>1, <1>3, <1>6
<1>9. HasLive(t \o <<e>>, q) <=>
        tr + (IF n = q /\ x.path \notin NonePaths THEN 1 ELSE 0) # 0 /\ de = 0
  BY <1>1, <1>3, <1>6, <1>7
<1> QED
  BY <1>5, <1>8, <1>9 DEF Sound

(* FAMCancelMonitor of the i-th request. *)
LEMMA SoundCancel ==
  ASSUME NEW u \in Seq(Requests), NEW b \in Seq(Subscriptions), NEW t \in Seq(Entries),
         NEW n \in Nat, n <= SeqSpan, Ahead(t, n), NEW i \in 1 .. Len(t), NEW v,
         Marked(t, i, "CANCELLED", v),
         NEW x \in Requests, x.type = "CANCEL", x.seq = SeqOf16(t[i].reqno),
         NEW a \in BOOLEAN, NEW q \in Wire, Sound(u, b, t, a, n, q)
  PROVE  Sound(u \o <<x>>, b, v, a, n, q)
<1>1. t[i] \in Entries
  OBVIOUS
<1>2. t[i].reqno \in Nat /\ t[i].reqno < n /\ SeqSpan \in Nat /\ q \in Nat
  BY <1>1, SeqSpanAssumption DEF Entries, Ahead, Wire
<1>3. SeqOf16(t[i].reqno) = t[i].reqno
  BY <1>2, SeqOf16Small
<1>4. Ahead(t, SeqSpan)
  <2>1. ASSUME NEW j \in 1 .. Len(t)
        PROVE  t[j].reqno < SeqSpan
    <3>1. t[j] \in Entries
      OBVIOUS
    <3>2. t[j].reqno \in Nat /\ t[j].reqno < n
      BY <3>1 DEF Entries, Ahead
    <3> QED
      BY <1>2, <3>2
  <2> QED
    BY <2>1 DEF Ahead
<1>5. PICK tk, tr, de : /\ tk = Tokens(u, b, q) /\ tr = Tracked(u, b, q)
                        /\ de = Debt(u, q)
  OBVIOUS
<1>6. tk \in Nat /\ tr \in Nat /\ de \in Nat /\ tr <= tk
  BY <1>5, TokenFacts
<1>7. /\ One(x, MonitorsOf(q)) = 0 /\ One(x, TrackedOf(q)) = 0
      /\ One(x, CancelsOf(q)) = IF t[i].reqno = q THEN 1 ELSE 0
  BY <1>3, OneOfEach, OneTracked DEF ReqTypes
<1>8. /\ Tokens(u \o <<x>>, b, q) = tk
      /\ Tracked(u \o <<x>>, b, q) = tr
      /\ Debt(u \o <<x>>, q) = de + (IF t[i].reqno = q THEN 1 ELSE 0)
  <2>1. /\ Tokens(u \o <<x>>, b, q) = tk + One(x, MonitorsOf(q))
        /\ Tracked(u \o <<x>>, b, q) = tr + One(x, TrackedOf(q))
        /\ Debt(u \o <<x>>, q) = de + One(x, CancelsOf(q))
    BY <1>5, AppendBooks
  <2> QED
    BY <1>6, <1>7, <2>1
<1>9. /\ tk <= 1 /\ (n <= q => tk = 0 /\ de = 0) /\ (a => tk = 0 /\ q < n)
      /\ HasLive(t, q) <=> tr # 0 /\ de = 0
  BY <1>5 DEF Sound
<1>10. HasLive(v, q) <=> t[i].reqno # q /\ HasLive(t, q)
  BY <1>4, LiveAfterCancel
<1>11. n <= q => de + (IF t[i].reqno = q THEN 1 ELSE 0) = 0
  BY <1>2, <1>6, <1>9
<1>12. HasLive(v, q) <=> tr # 0 /\ de + (IF t[i].reqno = q THEN 1 ELSE 0) = 0
  BY <1>6, <1>9, <1>10
<1> QED
  BY <1>8, <1>9, <1>11, <1>12 DEF Sound

(* The books do not depend on how the table looks beyond its live          *)
(* requests, and an acknowledgement may go.                                *)
LEMMA SoundLess ==
  ASSUME NEW u, NEW b, NEW t, NEW v, NEW n, NEW q, NEW a \in BOOLEAN, NEW z \in BOOLEAN,
         Sound(u, b, t, a, n, q), z => a, HasLive(v, q) <=> HasLive(t, q)
  PROVE  Sound(u, b, v, z, n, q)
  BY DEF Sound
(* A credit that is not tracked may go. *)
LEMMA SoundSame ==
  ASSUME NEW u \in Seq(Requests), NEW b \in Seq(Subscriptions),
         NEW w \in Seq(Requests), NEW d \in Seq(Subscriptions),
         NEW t, NEW n, NEW q, NEW a, Sound(u, b, t, a, n, q),
         Tokens(w, d, q) <= Tokens(u, b, q), Debt(w, q) = Debt(u, q),
         Tracked(w, d, q) = Tracked(u, b, q)
  PROVE  Sound(w, d, t, a, n, q)
<1>1. Tokens(w, d, q) \in Nat /\ Tokens(u, b, q) \in Nat
  BY TokenFacts
<1>2. /\ Tokens(u, b, q) = 0 => Tokens(w, d, q) = 0
      /\ Tokens(u, b, q) <= 1 => Tokens(w, d, q) <= 1
  BY <1>1
<1> QED
  BY <1>2 DEF Sound

(* The server reads the credential byte. *)
LEMMA SoundCred ==
  ASSUME NEW u \in Seq(Requests), NEW b \in Seq(Subscriptions), NEW t, NEW n, NEW q,
         NEW a, Sound(u, b, t, a, n, q), u # <<>>, Head(u).type = "CRED"
  PROVE  Sound(Tail(u), b, t, a, n, q)
<1>1. Head(u) \in Requests /\ Tail(u) \in Seq(Requests)
  OBVIOUS
<1>2. /\ One(Head(u), MonitorsOf(q)) = 0 /\ One(Head(u), CancelsOf(q)) = 0
      /\ One(Head(u), TrackedOf(q)) = 0
  BY <1>1, OneOfEach, OneTracked DEF ReqTypes
<1>3. Held(b, q) = Held(b, q) + 0
  BY HeldType
<1>4. /\ Tokens(u, b, q) = Tokens(Tail(u), b, q) + 0 + 0
      /\ Tracked(u, b, q) = Tracked(Tail(u), b, q) + 0 + 0
      /\ Debt(u, q) = Debt(Tail(u), q) + 0
  BY <1>2, <1>3, ReadBooks
<1>5. /\ Tokens(Tail(u), b, q) \in Nat /\ Tracked(Tail(u), b, q) \in Nat
      /\ Debt(Tail(u), q) \in Nat
  BY <1>1, TokenFacts
<1>6. /\ Tokens(Tail(u), b, q) <= Tokens(u, b, q) /\ Debt(Tail(u), q) = Debt(u, q)
      /\ Tracked(Tail(u), b, q) = Tracked(u, b, q)
  BY <1>4, <1>5
<1> QED
  BY <1>1, <1>6, SoundSame

(* The server reads a monitor: it becomes a subscription, or is dropped.   *)
LEMMA SoundMonitorHeld ==
  ASSUME NEW u \in Seq(Requests), NEW b \in Seq(Subscriptions), NEW t, NEW n, NEW q,
         NEW a, Sound(u, b, t, a, n, q), u # <<>>, Head(u) \in Monitors,
         NEW d \in Seq(Subscriptions), NEW h \in {0, 1},
         h = (IF Head(u).seq = q /\ Head(u).path \notin NonePaths THEN 1 ELSE 0),
         Held(d, q) = Held(b, q) + h
  PROVE  Sound(Tail(u), d, t, a, n, q)
<1>1. PICK x, w : x = Head(u) /\ w = Tail(u)
  OBVIOUS
<1>2. x \in Monitors /\ w \in Seq(Requests)
  BY <1>1
<1>3. /\ One(x, MonitorsOf(q)) = IF x.seq = q THEN 1 ELSE 0
      /\ One(x, CancelsOf(q)) = 0
      /\ One(x, TrackedOf(q)) = IF x.seq = q /\ x.path \notin NonePaths THEN 1 ELSE 0
  BY <1>2, OneOfEach, OneTracked
<1>4. /\ Tokens(u, b, q) + h = Tokens(w, d, q) + One(x, MonitorsOf(q))
      /\ Tracked(u, b, q) + h = Tracked(w, d, q) + One(x, TrackedOf(q))
      /\ Debt(u, q) = Debt(w, q) + One(x, CancelsOf(q))
  BY <1>1, ReadBooksMore
<1>5. /\ Tokens(w, d, q) \in Nat /\ Tracked(w, d, q) \in Nat /\ Debt(w, q) \in Nat
      /\ Tokens(u, b, q) \in Nat /\ Tracked(u, b, q) \in Nat
  BY <1>2, TokenFacts
<1>6. /\ Tokens(w, d, q) <= Tokens(u, b, q) /\ Debt(w, q) = Debt(u, q)
      /\ Tracked(w, d, q) = Tracked(u, b, q)
  <2>1. PICK m \in {0, 1} : m = One(x, MonitorsOf(q))
    BY <1>3
  <2>2. h <= m /\ One(x, TrackedOf(q)) = h
    BY <1>1, <1>3, <2>1
  <2> QED
    BY <1>3, <1>4, <1>5, <2>1, <2>2
<1> QED
  BY <1>1, <1>2, <1>6, SoundSame

LEMMA SoundMonitor ==
  ASSUME NEW u \in Seq(Requests), NEW b \in Seq(Subscriptions), NEW t, NEW n, NEW q,
         NEW a, Sound(u, b, t, a, n, q), u # <<>>, Head(u) \in Monitors,
         NEW d, d = IF Head(u).path \in NonePaths THEN b ELSE <<NewSub(Head(u))>> \o b
  PROVE  Sound(Tail(u), d, t, a, n, q)
<1>1. PICK x : x = Head(u)
  OBVIOUS
<1>2. NewSub(x) \in Subscriptions /\ NewSub(x).reqno = x.seq
  BY <1>1, NewSubType
<1>3. PICK h \in {0, 1} : h = IF x.seq = q /\ x.path \notin NonePaths THEN 1 ELSE 0
  OBVIOUS
<1>4. d \in Seq(Subscriptions) /\ Held(d, q) = Held(b, q) + h
  <2>1. CASE x.path \in NonePaths
    BY <1>1, <1>3, <2>1, HeldType
  <2>2. CASE x.path \notin NonePaths
    <3>1. d = <<NewSub(x)>> \o b
      BY <1>1, <2>2
    <3>2. Held(d, q) = Held(b, q) + (IF x.seq = q THEN 1 ELSE 0)
      BY <1>2, <3>1, HeldCons
    <3> QED
      BY <1>2, <1>3, <2>2, <3>1, <3>2
  <2> QED
    BY <2>1, <2>2
<1> QED
  BY <1>1, <1>3, <1>4, SoundMonitorHeld

(* The server reads a cancellation, which is acknowledged. *)
LEMMA SoundAck ==
  ASSUME NEW u \in Seq(Requests), NEW b \in Seq(Subscriptions), NEW t, NEW n \in Nat,
         NEW q \in Wire, NEW a \in BOOLEAN, Sound(u, b, t, a, n, q), u # <<>>,
         Head(u).type = "CANCEL", NEW i \in 1 .. Len(b), b[i].reqno = Head(u).seq
  PROVE  Sound(Tail(u), RemoveAt(b, i), t, a \/ Head(u).seq = q, n, q)
<1>1. PICK x, w, d : x = Head(u) /\ w = Tail(u) /\ d = RemoveAt(b, i)
  OBVIOUS
<1>2. x \in Requests /\ w \in Seq(Requests)
  BY <1>1
<1>3. d \in Seq(Subscriptions)
  BY <1>1, RemoveAtType
<1>4. /\ One(x, MonitorsOf(q)) = 0 /\ One(x, TrackedOf(q)) = 0
      /\ One(x, CancelsOf(q)) = IF x.seq = q THEN 1 ELSE 0
  BY <1>1, <1>2, OneOfEach, OneTracked DEF ReqTypes
<1>5. PICK h \in {0, 1} : h = IF x.seq = q THEN 1 ELSE 0
  OBVIOUS
<1>6. Held(b, q) = Held(d, q) + h
  <2>1. Held(b, q) = Held(d, q) + (IF b[i].reqno = q THEN 1 ELSE 0)
    BY <1>1, HeldRemove
  <2> QED
    BY <1>1, <1>5, <2>1
<1>7. /\ Tokens(u, b, q) = Tokens(w, d, q) + One(x, MonitorsOf(q)) + h
      /\ Tracked(u, b, q) = Tracked(w, d, q) + One(x, TrackedOf(q)) + h
      /\ Debt(u, q) = Debt(w, q) + One(x, CancelsOf(q))
  BY <1>1, <1>3, <1>6, ReadBooks
<1>8. PICK tk, tr, de, tk1, tr1, de1 :
        /\ tk = Tokens(u, b, q) /\ tr = Tracked(u, b, q) /\ de = Debt(u, q)
        /\ tk1 = Tokens(w, d, q) /\ tr1 = Tracked(w, d, q) /\ de1 = Debt(w, q)
  OBVIOUS
<1>9. /\ tk \in Nat /\ tr \in Nat /\ de \in Nat
      /\ tk1 \in Nat /\ tr1 \in Nat /\ de1 \in Nat /\ tr1 <= tk1
      /\ q \in Nat
  BY <1>2, <1>3, <1>8, TokenFacts, SeqSpanAssumption DEF Wire
<1>10. tk = tk1 + h /\ tr = tr1 + h /\ de = de1 + h
  BY <1>4, <1>5, <1>7, <1>8, <1>9
<1>11. /\ tk <= 1 /\ (n <= q => tk = 0 /\ de = 0) /\ (a => tk = 0 /\ q < n)
       /\ HasLive(t, q) <=> tr # 0 /\ de = 0
  BY <1>8 DEF Sound
<1>12. CASE x.seq # q
  <2>1. Tokens(w, d, q) = tk /\ Tracked(w, d, q) = tr /\ Debt(w, q) = de
    BY <1>5, <1>8, <1>9, <1>10, <1>12
  <2>2. Sound(w, d, t, a, n, q)
    BY <1>11, <2>1 DEF Sound
  <2> QED
    BY <1>1, <1>12, <2>2 DEF Sound
<1>13. CASE x.seq = q
  <2>1. h = 1 /\ tk1 = 0 /\ tr1 = 0 /\ de # 0 /\ ~HasLive(t, q)
    BY <1>5, <1>9, <1>10, <1>11, <1>13
  <2>2. q < n
    BY <1>9, <1>11, <2>1
  <2>3. ~(n <= q)
    BY <1>9, <2>2
  <2>4. Sound(w, d, t, TRUE, n, q)
    BY <1>8, <2>1, <2>2, <2>3 DEF Sound
  <2> QED
    BY <1>1, <1>13, <2>4 DEF Sound
<1> QED
  BY <1>12, <1>13

(* FAMNextEvent ends an acknowledged request. *)
LEMMA SoundDel ==
  ASSUME NEW u \in Seq(Requests), NEW b \in Seq(Subscriptions), NEW t \in Seq(Entries),
         NEW n, NEW q \in Wire, NEW a \in BOOLEAN, NEW z \in BOOLEAN, NEW r \in Wire,
         Sound(u, b, t, a, n, q), q = r => a, z => a
  PROVE  Sound(u, b, gamin_data_del_req(t, r), z, n, q)
<1>1. q # r => (HasLive(gamin_data_del_req(t, r), q) <=> HasLive(t, q))
  BY LiveAfterDel
<1>2. HasLive(gamin_data_del_req(t, r), r) => HasLive(t, r)
  BY LiveAfterDel
<1>3. ASSUME q = r
      PROVE  ~HasLive(t, q)
  <2>1. Tokens(u, b, q) = 0
    BY <1>3 DEF Sound
  <2>2. Tracked(u, b, q) = 0
    BY <2>1, TokenFacts
  <2> QED
    BY <2>2 DEF Sound
<1>4. HasLive(gamin_data_del_req(t, r), q) <=> HasLive(t, q)
  BY <1>1, <1>2, <1>3
<1> QED
  BY <1>4, SoundLess

(* A connection begins. *)
LEMMA SoundNew ==
  ASSUME NEW q \in Wire
  PROVE  Sound(<<Cred>>, <<>>, <<>>, FALSE, 1, q)
<1>1. Cred \in Requests /\ Cred.type = "CRED"
  BY SeqSpanAssumption DEF Cred, Requests
<1>2. PICK u : u = <<Cred>>
  OBVIOUS
<1>3. u \in Seq(Requests) /\ Len(u) = 1 /\ u[1] = Cred
  BY <1>1, <1>2
<1>4. /\ Cred \notin MonitorsOf(q) /\ Cred \notin TrackedOf(q)
      /\ Cred \notin CancelsOf(q)
  BY <1>1 DEF MonitorsOf, TrackedOf, CancelsOf, Monitors, ReqTypes
<1>5. ASSUME NEW M, Cred \notin M
      PROVE  Total(u, M) = 0
  <2>1. \A i \in 1 .. 1 : u[i] \notin M
    BY <1>3, <1>5
  <2>2. Count(u, 1, M) = 0
    BY <2>1, CountNone
  <2> QED
    BY <1>3, <2>2 DEF Total
<1>6. Held(<<>>, q) = 0
  <2>1. Len(<<>>) = 0
    OBVIOUS
  <2> QED
    BY <2>1, CountZero, Zenon DEF Held
<1>7. Tokens(u, <<>>, q) = 0 /\ Tracked(u, <<>>, q) = 0 /\ Debt(u, q) = 0
  BY <1>4, <1>5, <1>6 DEF Tokens, Tracked, Debt
<1>8. ~HasLive(<<>>, q)
  BY DEF HasLive
<1> QED
  BY <1>2, <1>7, <1>8 DEF Sound
-----------------------------------------------------------------------------
(* The books of all connections. *)

BooksOf(c) ==
  Healthy(c) /\ fd[c] # NoSock /\ sOpen[fd[c]] =>
    \A q \in Wire :
      Sound(up[fd[c]], subs[fd[c]], tab[c], Acked(down[fd[c]], ready[c], q), reqno[c], q)

Books == \A c \in Clients : BooksOf(c)

(* A client's step leaves the others alone. *)
LEMMA ClientLocal ==
  ASSUME TypeOK, NEW c \in Clients, ClientNext(c)
  PROVE  /\ \A d \in Clients \ {c} :
              /\ fd'[d] = fd[d] /\ tab'[d] = tab[d] /\ ready'[d] = ready[d]
              /\ reqno'[d] = reqno[d] /\ wasReset'[d] = wasReset[d]
         /\ \A s \in Socks : s # fd[c] => down'[s] = down[s]
         /\ \A s \in Socks : s # fd[c] /\ cOpen[s] =>
              up'[s] = up[s] /\ sOpen'[s] = sOpen[s]
<1> DEFINE Local ==
      /\ \A d \in Clients \ {c} :
              /\ fd'[d] = fd[d] /\ tab'[d] = tab[d] /\ ready'[d] = ready[d]
              /\ reqno'[d] = reqno[d] /\ wasReset'[d] = wasReset[d]
      /\ \A s \in Socks : s # fd[c] => down'[s] = down[s]
      /\ \A s \in Socks : s # fd[c] /\ cOpen[s] =>
              up'[s] = up[s] /\ sOpen'[s] = sOpen[s]
<1>0. /\ fd \in [Clients -> Socks \cup {NoSock}] /\ reqno \in [Clients -> Nat]
      /\ ready \in [Clients -> Events] /\ tab \in [Clients -> Seq(Entries)]
      /\ wasReset \in [Clients -> BOOLEAN]
      /\ up \in [Socks -> Seq(Requests)] /\ down \in [Socks -> Seq(Packets)]
      /\ cOpen \in [Socks -> BOOLEAN] /\ sOpen \in [Socks -> BOOLEAN]
  BY DEF TypeOK, SockTypeOK, ClientTypeOK
<1>a. ASSUME NEW z, fd[c] \in Socks, up' = Written(up, sOpen, fd[c], z)
      PROVE  \A s \in Socks : s # fd[c] => up'[s] = up[s]
  BY <1>0, <1>a DEF Written
<1>1. CASE FAMOpen(c) \/ gamin_fork_server(c) \/ GiveUp(c) \/ FAMNoExists(c)
           \/ LostServer(c)
  <2>1. UNCHANGED <<up, down, sOpen, fd, tab, ready, reqno, wasReset>>
    BY <1>1 DEF FAMOpen, gamin_fork_server, GiveUp, FAMNoExists, LostServer,
       sockVars, dataVars
  <2> QED
    BY <2>1
<1>2. ASSUME NEW s \in Socks, gamin_data_new(c, s)
      PROVE  Local
  BY <1>0, <1>2 DEF gamin_data_new, Connect, Free, FreshData
<1>3. ASSUME NEW s \in Socks, gamin_try_reconnect(c, s)
      PROVE  Local
  <2>1. PICK z : z = <<Cred>> \o Resent(tab[c])
    OBVIOUS
  <2>2. /\ ~cOpen[s] /\ up' = [up EXCEPT ![s] = z] /\ sOpen' = [sOpen EXCEPT ![s] = TRUE]
        /\ down' = [down EXCEPT ![fd[c]] = <<>>] /\ fd' = [fd EXCEPT ![c] = s]
        /\ reqno' = [reqno EXCEPT ![c] = 1] /\ ready' = [ready EXCEPT ![c] = NoEvent]
        /\ wasReset' = [wasReset EXCEPT ![c] = TRUE] /\ tab' = tab
    BY <1>3, <2>1 DEF gamin_try_reconnect, gamin_data_reset, Connect, Free
  <2> QED
    BY <1>0, <2>2
<1>4. ASSUME NEW p, NEW type, FAMMonitor(c, p, type)
      PROVE  Local
  <2>1. fd[c] \in Socks /\ \A s \in Socks : s # fd[c] => up'[s] = up[s]
    BY <1>0, <1>4, <1>a DEF FAMMonitor, MayAsk, IsOpen
  <2> QED
    BY <1>0, <1>4, <2>1 DEF FAMMonitor
<1>5. ASSUME NEW p, NEW type, NEW r, FAMMonitor2(c, p, type, r)
      PROVE  Local
  <2>1. fd[c] \in Socks /\ \A s \in Socks : s # fd[c] => up'[s] = up[s]
    BY <1>0, <1>5, <1>a DEF FAMMonitor2, MayAsk, IsOpen
  <2> QED
    BY <1>0, <1>5, <2>1 DEF FAMMonitor2
<1>6. ASSUME NEW r, FAMCancelMonitor(c, r)
      PROVE  Local
  <2>1. fd[c] \in Socks /\ \A s \in Socks : s # fd[c] => up'[s] = up[s]
    BY <1>0, <1>6, <1>a DEF FAMCancelMonitor, MayAsk, IsOpen
  <2> QED
    BY <1>0, <1>6, <2>1 DEF FAMCancelMonitor
<1>7. CASE FAMClose(c)
  BY <1>0, <1>7 DEF FAMClose, FreshData
<1>8. CASE gamin_check_cred(c)
  BY <1>0, <1>8 DEF gamin_check_cred
<1>9. CASE FAMPending(c)
  BY <1>0, <1>9 DEF FAMPending
<1>10. CASE FAMNextEvent(c)
  BY <1>0, <1>10 DEF FAMNextEvent, sockVars
<1> QED
  BY <1>1, <1>2, <1>3, <1>4, <1>5, <1>6, <1>7, <1>8, <1>9, <1>10 DEF ClientNext

(* Acknowledgements that were not on their way before. *)
LEMMA AckedFacts ==
  ASSUME NEW d \in Seq(Packets), NEW q
  PROVE  /\ ~Acked(<<>>, NoEvent, q)
         /\ \A e : Acked(d, e, q) \in BOOLEAN
         /\ d # <<>> =>
              \A e : (Acked(Tail(d), e, q) /\ (e.type = "Ack" /\ e.seq = q => Head(d).type = "Ack" /\ Head(d).seq = q))
                       => Acked(d, NoEvent, q)
         /\ \A e : Acked(d, NoEvent, q) => Acked(d, e, q)
<1>1. NoEvent.type # "Ack"
  BY DEF NoEvent
<1>2. ~Acked(<<>>, NoEvent, q)
  BY <1>1 DEF Acked
<1>3. \A e : Acked(d, e, q) \in BOOLEAN
  BY DEF Acked
<1>4. ASSUME d # <<>>, NEW e, Acked(Tail(d), e, q),
             e.type = "Ack" /\ e.seq = q => Head(d).type = "Ack" /\ Head(d).seq = q
      PROVE  Acked(d, NoEvent, q)
  <2>1. 1 \in 1 .. Len(d) /\ Head(d) = d[1]
    BY <1>4
  <2>2. CASE e.type = "Ack" /\ e.seq = q
    BY <1>4, <2>1, <2>2 DEF Acked
  <2>3. ASSUME NEW i \in 1 .. Len(Tail(d)), Tail(d)[i].type = "Ack", Tail(d)[i].seq = q
        PROVE  Acked(d, NoEvent, q)
    <3>1. i + 1 \in 1 .. Len(d) /\ Tail(d)[i] = d[i + 1]
      BY <1>4
    <3> QED
      BY <2>3, <3>1 DEF Acked
  <2> QED
    BY <1>4, <2>2, <2>3 DEF Acked
<1>5. \A e : Acked(d, NoEvent, q) => Acked(d, e, q)
  BY <1>1 DEF Acked
<1> QED
  BY <1>2, <1>3, <1>4, <1>5

LEMMA AppendJoins ==
  ASSUME NEW t \in Seq(Entries), NEW e \in Entries
  PROVE  Append(t, e) = t \o <<e>>
  OBVIOUS

LEMMA AckedConcat ==
  ASSUME NEW d \in Seq(Packets), NEW z \in Seq(Packets), NEW e, NEW q,
         Acked(d \o z, e, q)
  PROVE  Acked(d, e, q) \/ \E i \in 1 .. Len(z) : z[i].type = "Ack" /\ z[i].seq = q
<1>1. ASSUME ~ \E i \in 1 .. Len(z) : z[i].type = "Ack" /\ z[i].seq = q
      PROVE  Acked(d, e, q)
  <2>1. ASSUME NEW i \in 1 .. Len(d \o z), (d \o z)[i].type = "Ack", (d \o z)[i].seq = q
        PROVE  Acked(d, e, q)
    <3>1. CASE i <= Len(d)
      <4>1. i \in 1 .. Len(d) /\ (d \o z)[i] = d[i]
        BY <3>1
      <4> QED
        BY <2>1, <4>1 DEF Acked
    <3>2. CASE i > Len(d)
      <4>1. i - Len(d) \in 1 .. Len(z) /\ (d \o z)[i] = z[i - Len(d)]
        BY <3>2
      <4> QED
        BY <1>1, <2>1, <4>1
    <3> QED
      BY <3>1, <3>2
  <2> QED
    BY <1>1, <2>1 DEF Acked
<1> QED
  BY <1>1

(* The calls of an open connection keep its books. *)
LEMMA OpenBooks ==
  ASSUME TypeOK, SortedUntilReset, NEW c \in Clients, BooksOf(c),
         \/ \E p \in Paths, type \in MonTypes : FAMMonitor(c, p, type)
         \/ \E i \in 1 .. Len(tab[c]) : FAMCancelMonitor(c, tab[c][i].reqno)
         \/ gamin_check_cred(c)
         \/ FAMPending(c)
         \/ FAMNextEvent(c),
         UNCHANGED serverVars
  PROVE  BooksOf(c)'
<1>0. /\ fd \in [Clients -> Socks \cup {NoSock}] /\ reqno \in [Clients -> Nat]
      /\ ready \in [Clients -> Events] /\ tab \in [Clients -> Seq(Entries)]
      /\ wasReset \in [Clients -> BOOLEAN]
      /\ up \in [Socks -> Seq(Requests)] /\ down \in [Socks -> Seq(Packets)]
      /\ cOpen \in [Socks -> BOOLEAN] /\ sOpen \in [Socks -> BOOLEAN]
      /\ subs \in [Socks -> Seq(Subscriptions)] /\ subs' = subs
  BY DEF TypeOK, SockTypeOK, ClientTypeOK, ServerTypeOK, serverVars, connVars
<1>1. /\ IsOpen(c) /\ fd' = fd /\ sOpen' = sOpen
      /\ wasReset' = wasReset /\ (reqno' = reqno \/ reqno'[c] = reqno[c] + 1)
  <2>1. ASSUME NEW p, NEW type, FAMMonitor(c, p, type)
        PROVE  /\ IsOpen(c) /\ fd' = fd /\ sOpen' = sOpen
               /\ wasReset' = wasReset /\ reqno'[c] = reqno[c] + 1
    BY <1>0, <2>1 DEF FAMMonitor, MayAsk
  <2>2. ASSUME NEW r, FAMCancelMonitor(c, r)
        PROVE  /\ IsOpen(c) /\ fd' = fd /\ sOpen' = sOpen
               /\ wasReset' = wasReset /\ reqno' = reqno
    BY <2>2 DEF FAMCancelMonitor, MayAsk
  <2>3. ASSUME gamin_check_cred(c) \/ FAMPending(c) \/ FAMNextEvent(c)
        PROVE  /\ IsOpen(c) /\ fd' = fd /\ sOpen' = sOpen
               /\ wasReset' = wasReset /\ reqno' = reqno
    BY <2>3 DEF gamin_check_cred, FAMPending, FAMNextEvent, sockVars
  <2> QED
    BY <2>1, <2>2, <2>3
<1>2. PICK s \in Socks : s = fd[c]
  BY <1>0, <1>1 DEF IsOpen
<1> SUFFICES ASSUME Healthy(c)', sOpen[s], NEW q \in Wire
             PROVE  Sound(up'[s], subs[s], tab'[c], Acked(down'[s], ready'[c], q),
                          reqno'[c], q)
  BY <1>0, <1>1, <1>2 DEF BooksOf
<1> DEFINE a == Acked(down[s], ready[c], q)
<1>3. /\ up[s] \in Seq(Requests) /\ subs[s] \in Seq(Subscriptions)
      /\ tab[c] \in Seq(Entries) /\ reqno[c] \in Nat /\ a \in BOOLEAN
      /\ down[s] \in Seq(Packets) /\ ready[c] \in Events
      /\ UserNums = {} /\ ~wasReset[c] /\ reqno'[c] <= SeqSpan /\ SeqSpan \in Nat
  BY <1>0, <1>1, SeqSpanAssumption DEF Healthy, Acked
<1>4. reqno[c] <= SeqSpan
  BY <1>1, <1>3
<1>5. Sound(up[s], subs[s], tab[c], a, reqno[c], q)
  BY <1>1, <1>2, <1>3, <1>4, NoSockAssumption DEF BooksOf, Healthy, IsOpen
<1>6. Ahead(tab[c], reqno[c])
  BY <1>3 DEF SortedUntilReset, Ahead
<1>7. ASSUME NEW z, up' = Written(up, sOpen, s, z)
      PROVE  up'[s] = up[s] \o z
  BY <1>0, <1>7 DEF Written
<1> HIDE DEF a
<1>8. ASSUME NEW p \in Paths, NEW type \in MonTypes, FAMMonitor(c, p, type)
      PROVE  Sound(up'[s], subs[s], tab'[c], Acked(down'[s], ready'[c], q), reqno'[c], q)
  <2>1. PICK x, e : /\ x = Request(c, reqno[c], p, type)
                    /\ e = NewEntry(reqno[c], p, type)
    OBVIOUS
  <2>2. type \in ReqTypes
    BY MonTypesAssumption
  <2>3. reqno'[c] = reqno[c] + 1 /\ reqno[c] < SeqSpan
    BY <1>0, <1>3, <1>8 DEF FAMMonitor
  <2>4. x \in Monitors /\ x.seq = reqno[c] /\ x.path = p
    BY <1>3, <2>1, <2>2, <2>3, RequestTypes, SeqOf16Small
  <2>5. e \in Entries /\ e.reqno = reqno[c] /\ e.path = p /\ e.state = "INIT"
    BY <1>3, <2>1, <2>2 DEF NewEntry, Entries, ReqStates
  <2>6. up'[s] = up[s] \o <<x>>
    BY <1>2, <1>7, <1>8, <2>1 DEF FAMMonitor
  <2>7. tab'[c] = tab[c] \o <<e>>
    <3>1. tab'[c] = gamin_data_add_req(tab[c], reqno[c], p, type)
      BY <1>0, <1>8 DEF FAMMonitor
    <3>2. Append(tab[c], e) = tab[c] \o <<e>>
      BY <1>3, <2>5, AppendJoins
    <3> QED
      BY <2>1, <3>1, <3>2, Zenon DEF gamin_data_add_req
  <2>8. Acked(down'[s], ready'[c], q) = a
    BY <1>8 DEF FAMMonitor, a
  <2>9. Sound(up[s] \o <<x>>, subs[s], tab[c] \o <<e>>, a, reqno[c] + 1, q)
    BY <1>3, <1>5, <2>3, <2>4, <2>5, SoundAsk
  <2> QED
    BY <2>3, <2>6, <2>7, <2>8, <2>9, Zenon
<1>9. ASSUME NEW k \in 1 .. Len(tab[c]), FAMCancelMonitor(c, tab[c][k].reqno)
      PROVE  Sound(up'[s], subs[s], tab'[c], Acked(down'[s], ready'[c], q), reqno'[c], q)
  <2>1. PICK r, x, i : /\ r = tab[c][k].reqno /\ x = CancelOf(r)
                       /\ i = gamin_data_get_req_idx(tab[c], r)
    OBVIOUS
  <2>2. tab[c][k] \in Entries
    BY <1>3
  <2>3. r \in Nat
    BY <2>1, <2>2 DEF Entries
  <2>4. x \in Requests /\ x.type = "CANCEL" /\ x.seq = SeqOf16(r)
    BY <2>1, <2>3, RequestTypes
  <2>5. /\ i \in 1 .. Len(tab[c]) /\ tab'[c] = gamin_data_cancel(tab[c], i)
        /\ up' = Written(up, sOpen, s, <<x>>)
        /\ UNCHANGED <<down, ready, reqno>>
    BY <1>0, <1>2, <1>9, <2>1 DEF FAMCancelMonitor, CancelOf
  <2>6. tab[c][i].reqno = r
    BY <2>1, <2>5, IdxSound
  <2>7. Marked(tab[c], i, "CANCELLED", tab'[c])
    <3>1. Marked(tab[c], i, "CANCELLED", gamin_data_cancel(tab[c], i))
      BY <1>3, <2>5, CancelMarks
    <3> QED
      BY <2>5, <3>1, Zenon
  <2>8. up'[s] = up[s] \o <<x>>
    BY <1>7, <2>5
  <2>9. PICK v : v = tab'[c]
    OBVIOUS
  <2>10. Sound(up[s] \o <<x>>, subs[s], v, a, reqno[c], q)
    BY <1>3, <1>4, <1>5, <1>6, <2>4, <2>5, <2>6, <2>7, <2>9, SoundCancel
  <2> QED
    BY <2>5, <2>8, <2>9, <2>10, Zenon DEF a
<1>10. ASSUME NEW z, z = Acked(down'[s], ready'[c], q), z => a,
              HasLive(tab'[c], q) <=> HasLive(tab[c], q), up' = up, reqno' = reqno
       PROVE  Sound(up'[s], subs[s], tab'[c], Acked(down'[s], ready'[c], q), reqno'[c], q)
  <2>1. z \in BOOLEAN
    BY <1>10 DEF Acked
  <2>2. Sound(up[s], subs[s], tab'[c], z, reqno[c], q)
    BY <1>3, <1>5, <1>10, <2>1, SoundLess
  <2> QED
    BY <1>10, <2>2, Zenon
<1>11. CASE gamin_check_cred(c)
  <2>1. /\ down[s] # <<>> /\ down'[s] = Tail(down[s]) /\ ready[c] = NoEvent
        /\ UNCHANGED <<ready, tab, up, reqno>>
    BY <1>0, <1>2, <1>11 DEF gamin_check_cred
  <2>2. Acked(Tail(down[s]), NoEvent, q) => Acked(down[s], NoEvent, q)
    BY <1>3, <2>1, AckedFacts DEF NoEvent
  <2>3. Acked(down'[s], ready'[c], q) => a
    BY <2>1, <2>2, Zenon DEF a
  <2> QED
    BY <1>10, <2>1, <2>3
<1>12. CASE FAMPending(c)
  <2>1. PICK e, y : e = Head(down[s]) /\ y = ready'[c]
    OBVIOUS
  <2>2. /\ down[s] # <<>> /\ down'[s] = Tail(down[s]) /\ ready[c] = NoEvent
        /\ y = (IF Accepted(tab[c], restarted[c], e) THEN Decoded(tab[c], e) ELSE NoEvent)
        /\ tab'[c] = Confirm(tab[c], e)
        /\ UNCHANGED <<up, reqno>>
    BY <1>0, <1>2, <1>12, <2>1 DEF FAMPending
  <2>3. y.type = "Ack" /\ y.seq = q => e.type = "Ack" /\ e.seq = q
    BY <2>2 DEF Decoded, NoEvent
  <2>4. Acked(Tail(down[s]), y, q) => Acked(down[s], NoEvent, q)
    BY <1>3, <2>1, <2>2, <2>3, AckedFacts
  <2>5. Acked(down'[s], ready'[c], q) => a
    BY <2>1, <2>2, <2>4, Zenon DEF a
  <2>6. HasLive(tab'[c], q) <=> HasLive(tab[c], q)
    BY <1>3, <2>2, LiveAfterConfirm
  <2> QED
    BY <1>10, <2>2, <2>5, <2>6
<1>13. CASE FAMNextEvent(c)
  <2>1. /\ UNCHANGED <<up, down, reqno>> /\ ready'[c] = NoEvent
        /\ tab'[c] = IF ready[c].type = "Ack"
                     THEN gamin_data_del_req(tab[c], ready[c].seq) ELSE tab[c]
    BY <1>0, <1>13 DEF FAMNextEvent, sockVars
  <2>2. Acked(down[s], NoEvent, q) => a
    BY <1>3, AckedFacts DEF a
  <2>3. CASE ready[c].type # "Ack"
    <3>1. Acked(down'[s], ready'[c], q) => a
      BY <2>1, <2>2, Zenon
    <3>2. tab'[c] = tab[c]
      BY <2>1, <2>3
    <3> QED
      BY <1>10, <2>1, <3>1, <3>2
  <2>4. CASE ready[c].type = "Ack"
    <3>1. PICK r, z : r = ready[c].seq /\ z = Acked(down[s], NoEvent, q)
      OBVIOUS
    <3>2. r \in Wire /\ z \in BOOLEAN
      BY <1>3, <3>1 DEF Events, Wire, Acked
    <3>3. q = r => a
      BY <2>4, <3>1 DEF a, Acked
    <3>4. Sound(up[s], subs[s], gamin_data_del_req(tab[c], r), z, reqno[c], q)
      BY <1>3, <1>5, <2>2, <3>1, <3>2, <3>3, SoundDel
    <3>5. tab'[c] = gamin_data_del_req(tab[c], r)
      BY <2>1, <2>4, <3>1
    <3> QED
      BY <2>1, <3>1, <3>4, <3>5, Zenon
  <2> QED
    BY <2>3, <2>4
<1> QED
  BY <1>8, <1>9, <1>11, <1>12, <1>13

(* A client's step keeps its own books ... *)
LEMMA OwnBooks ==
  ASSUME TypeOK, Ends, SortedUntilReset, NEW c \in Clients, BooksOf(c),
         ClientNext(c), UNCHANGED serverVars
  PROVE  BooksOf(c)'
<1>0. /\ fd \in [Clients -> Socks \cup {NoSock}] /\ reqno \in [Clients -> Nat]
      /\ ready \in [Clients -> Events] /\ tab \in [Clients -> Seq(Entries)]
      /\ wasReset \in [Clients -> BOOLEAN]
      /\ up \in [Socks -> Seq(Requests)] /\ down \in [Socks -> Seq(Packets)]
      /\ cOpen \in [Socks -> BOOLEAN] /\ sOpen \in [Socks -> BOOLEAN]
      /\ subs \in [Socks -> Seq(Subscriptions)] /\ subs' = subs
  BY DEF TypeOK, SockTypeOK, ClientTypeOK, ServerTypeOK, serverVars, connVars
<1>1. CASE FAMOpen(c) \/ gamin_fork_server(c) \/ GiveUp(c) \/ FAMNoExists(c)
           \/ LostServer(c)
  <2>1. UNCHANGED <<up, down, sOpen, fd, tab, ready, reqno, wasReset>>
    BY <1>1 DEF FAMOpen, gamin_fork_server, GiveUp, FAMNoExists, LostServer,
       sockVars, dataVars
  <2> QED
    BY <1>0, <2>1 DEF BooksOf, Healthy
<1>2. ASSUME NEW s \in Socks, gamin_data_new(c, s)
      PROVE  BooksOf(c)'
  <2>1. /\ ~cOpen[s] /\ ~sOpen[s] /\ down' = down
        /\ fd'[c] = s /\ tab'[c] = <<>> /\ ready'[c] = NoEvent /\ reqno'[c] = 1
    BY <1>0, <1>2 DEF gamin_data_new, Connect, Free, FreshData
  <2>2. up'[s] = <<Cred>>
    <3>1. up' = [up EXCEPT ![s] = <<Cred>> \o <<>>]
      BY <1>2 DEF gamin_data_new, Connect
    <3>2. <<Cred>> \o <<>> = <<Cred>>
      OBVIOUS
    <3> QED
      BY <1>0, <3>1, <3>2
  <2>3. subs'[s] = <<>> /\ down'[s] = <<>>
    BY <1>0, <2>1 DEF Ends, ClientEnds, ServerEnds
  <2>4. ASSUME NEW q \in Wire
        PROVE  Sound(up'[s], subs'[s], tab'[c], Acked(down'[s], ready'[c], q), reqno'[c], q)
    <3>1. Acked(<<>>, NoEvent, q) = FALSE
      BY DEF Acked, NoEvent
    <3>2. Sound(<<Cred>>, <<>>, <<>>, FALSE, 1, q)
      BY SoundNew
    <3> QED
      BY <2>1, <2>2, <2>3, <3>1, <3>2, Zenon
  <2> QED
    BY <2>1, <2>4 DEF BooksOf
<1>3. ASSUME NEW s \in Socks, gamin_try_reconnect(c, s)
      PROVE  BooksOf(c)'
  <2>1. wasReset'[c]
    BY <1>0, <1>3 DEF gamin_try_reconnect, gamin_data_reset
  <2> QED
    BY <2>1 DEF BooksOf, Healthy
<1>4. CASE FAMClose(c)
  <2>1. fd'[c] = NoSock
    BY <1>0, <1>4 DEF FAMClose
  <2> QED
    BY <2>1 DEF BooksOf
<1>5. ASSUME NEW p \in Paths, NEW type \in MonTypes, NEW r \in UserNums
      PROVE  BooksOf(c)'
  BY <1>5 DEF BooksOf, Healthy
<1> QED
  BY <1>1, <1>2, <1>3, <1>4, <1>5, OpenBooks DEF ClientNext
(* ... and those of the others. *)
LEMMA BooksClient ==
  ASSUME TypeOK, Ends, SortedUntilReset, Books, NEW c \in Clients, ClientNext(c),
         UNCHANGED serverVars
  PROVE  Books'
<1>0. fd \in [Clients -> Socks \cup {NoSock}] /\ subs' = subs
  BY DEF TypeOK, ClientTypeOK, serverVars, connVars
<1>1. BooksOf(c)'
  BY OwnBooks DEF Books
<1>2. ASSUME NEW d \in Clients \ {c}
      PROVE  BooksOf(d)'
  <2>1. /\ fd'[d] = fd[d] /\ tab'[d] = tab[d] /\ ready'[d] = ready[d]
        /\ reqno'[d] = reqno[d] /\ wasReset'[d] = wasReset[d]
    BY ClientLocal
  <2>2. CASE fd[d] = NoSock
    BY <2>1, <2>2 DEF BooksOf
  <2>3. CASE fd[d] # NoSock
    <3>1. fd[d] \in Socks /\ fd[d] # fd[c] /\ cOpen[fd[d]]
      BY <1>0, <2>3 DEF Ends, ClientEnds
    <3>2. /\ down'[fd[d]] = down[fd[d]] /\ up'[fd[d]] = up[fd[d]]
          /\ sOpen'[fd[d]] = sOpen[fd[d]]
      BY <3>1, ClientLocal
    <3>3. BooksOf(d)
      BY DEF Books
    <3> QED
      BY <1>0, <2>1, <3>2, <3>3 DEF BooksOf, Healthy
  <2> QED
    BY <2>2, <2>3
<1> QED
  BY <1>1, <1>2 DEF Books

(* The server changes the channels of s only, to u and d, and its          *)
(* subscriptions to b.                                                     *)
LEMMA BooksAt ==
  ASSUME TypeOK, Books, UNCHANGED clientVars, NEW s \in Socks, NEW u, NEW b, NEW d,
         \A y \in Socks \ {s} : up'[y] = up[y] /\ subs'[y] = subs[y] /\ down'[y] = down[y],
         up'[s] = u, subs'[s] = b, down'[s] = d, UNCHANGED sOpen,
         \A c \in Clients : fd[c] = s => \A q \in Wire :
           Sound(up[s], subs[s], tab[c], Acked(down[s], ready[c], q), reqno[c], q)
             => Sound(u, b, tab[c], Acked(d, ready[c], q), reqno[c], q)
  PROVE  Books'
<1>0. /\ fd \in [Clients -> Socks \cup {NoSock}]
      /\ UNCHANGED <<fd, tab, ready, reqno, wasReset>>
  BY DEF TypeOK, ClientTypeOK, clientVars, dataVars
<1>1. ASSUME NEW c \in Clients
      PROVE  BooksOf(c)'
  <2>1. BooksOf(c)
    BY DEF Books
  <2>2. SUFFICES ASSUME Healthy(c), fd[c] # NoSock, sOpen[fd[c]], NEW q \in Wire
                 PROVE  Sound(up'[fd[c]], subs'[fd[c]], tab[c],
                              Acked(down'[fd[c]], ready[c], q), reqno[c], q)
    BY <1>0 DEF BooksOf, Healthy
  <2>3. /\ fd[c] \in Socks
        /\ Sound(up[fd[c]], subs[fd[c]], tab[c], Acked(down[fd[c]], ready[c], q), reqno[c], q)
    BY <1>0, <2>1, <2>2 DEF BooksOf
  <2>4. CASE fd[c] = s
    BY <2>3, <2>4
  <2>5. CASE fd[c] # s
    BY <2>3, <2>5
  <2> QED
    BY <2>4, <2>5
<1> QED
  BY <1>1 DEF Books

(* Packets that are no acknowledgement do not touch the books. *)
LEMMA SoundSent ==
  ASSUME NEW u, NEW b, NEW t, NEW n, NEW q, NEW e, NEW d \in Seq(Packets),
         NEW z \in Seq(Packets), \A i \in 1 .. Len(z) : z[i].type # "Ack",
         Sound(u, b, t, Acked(d, e, q), n, q)
  PROVE  Sound(u, b, t, Acked(d \o z, e, q), n, q)
<1>1. PICK a, y : a = Acked(d, e, q) /\ y = Acked(d \o z, e, q)
  OBVIOUS
<1>2. ASSUME y
      PROVE  a
  <2>1. Acked(d \o z, e, q)
    BY <1>1, <1>2, Zenon
  <2>2. Acked(d, e, q) \/ \E i \in 1 .. Len(z) : z[i].type = "Ack" /\ z[i].seq = q
    BY <2>1, AckedConcat
  <2> QED
    BY <1>1, <2>2, Zenon
<1>3. a \in BOOLEAN /\ y \in BOOLEAN
  BY <1>1 DEF Acked
<1>4. Sound(u, b, t, a, n, q)
  BY <1>1, Zenon
<1>5. Sound(u, b, t, y, n, q)
  BY <1>2, <1>3, <1>4, SoundLess
<1> QED
  BY <1>1, <1>5, Zenon

LEMMA BooksServer ==
  ASSUME TypeOK, Ends, Handshake, Books, ServerNext, UNCHANGED clientVars
  PROVE  Books'
<1>0. /\ fd \in [Clients -> Socks \cup {NoSock}] /\ reqno \in [Clients -> Nat]
      /\ ready \in [Clients -> Events] /\ tab \in [Clients -> Seq(Entries)]
      /\ up \in [Socks -> Seq(Requests)] /\ down \in [Socks -> Seq(Packets)]
      /\ cOpen \in [Socks -> BOOLEAN] /\ sOpen \in [Socks -> BOOLEAN]
      /\ subs \in [Socks -> Seq(Subscriptions)]
      /\ UNCHANGED <<fd, tab, ready, reqno, wasReset>>
  BY DEF TypeOK, SockTypeOK, ClientTypeOK, ServerTypeOK, clientVars, dataVars
<1>a. /\ \A c \in Clients : fd[c] # NoSock => cOpen[fd[c]]
      /\ \A s \in Socks : cstate[s] # "NONE" => sOpen[s]
  BY <1>0 DEF Ends, ClientEnds, ServerEnds
<1>b. ASSUME NEW s \in Socks, NEW z, down' = Written(down, cOpen, s, z)
      PROVE  /\ \A y \in Socks \ {s} : down'[y] = down[y]
             /\ cOpen[s] => down'[s] = down[s] \o z
  BY <1>0, <1>b DEF Written
<1>1. UNCHANGED <<up, subs, down, sOpen>> => Books'
  BY <1>0 DEF Books, BooksOf, Healthy
<1>2. ASSUME NEW s \in Socks, Closes(s)
      PROVE  Books'
  <2>1. /\ ~sOpen'[s] /\ \A y \in Socks \ {s} :
             sOpen'[y] = sOpen[y] /\ up'[y] = up[y] /\ subs'[y] = subs[y]
        /\ down' = down
    BY <1>0, <1>2 DEF Closes
  <2> QED
    BY <1>0, <2>1 DEF Books, BooksOf, Healthy
<1>3. ASSUME NEW s \in Socks, ReadsCred(s)
      PROVE  Books'
  <2>1. /\ up[s] # <<>> /\ sOpen[s] /\ Head(up[s]).type = "CRED"
        /\ up'[s] = Tail(up[s]) /\ subs'[s] = subs[s] /\ sOpen' = sOpen
        /\ \A y \in Socks \ {s} : up'[y] = up[y] /\ subs'[y] = subs[y]
    BY <1>0, <1>3, <1>a DEF ReadsCred, Handshake
  <2>2. PICK z : z = <<ServerByte>>
    OBVIOUS
  <2>3. /\ z \in Seq(Packets) /\ \A i \in 1 .. Len(z) : z[i].type # "Ack"
    <3>1. ServerByte \in Packets /\ ServerByte.type # "Ack"
      BY DEF Packets, ServerByte
    <3> QED
      BY <2>2, <3>1
  <2>4. /\ \A y \in Socks \ {s} : down'[y] = down[y]
        /\ cOpen[s] => down'[s] = down[s] \o z
    BY <1>3, <1>b, <2>2 DEF ReadsCred
  <2>5. ASSUME NEW c \in Clients, fd[c] = s, NEW q \in Wire,
               Sound(up[s], subs[s], tab[c], Acked(down[s], ready[c], q), reqno[c], q)
        PROVE  Sound(Tail(up[s]), subs[s], tab[c], Acked(down'[s], ready[c], q), reqno[c], q)
    <3>1. down'[s] = down[s] \o z
      BY <1>a, <2>4, <2>5, NoSockAssumption
    <3>2. Sound(Tail(up[s]), subs[s], tab[c], Acked(down[s], ready[c], q), reqno[c], q)
      BY <1>0, <2>1, <2>5, SoundCred
    <3>3. Sound(Tail(up[s]), subs[s], tab[c], Acked(down[s] \o z, ready[c], q), reqno[c], q)
      BY <1>0, <2>3, <3>2, SoundSent
    <3> QED
      BY <3>1, <3>3, Zenon
  <2> QED
    BY <2>1, <2>4, <2>5, BooksAt
<1>4. ASSUME NEW s \in Socks, ReadsMonitor(s)
      PROVE  Books'
  <2>1. PICK d : d = IF Head(up[s]).path \in NonePaths THEN subs[s]
                     ELSE <<NewSub(Head(up[s]))>> \o subs[s]
    OBVIOUS
  <2>2. /\ up[s] # <<>> /\ Head(up[s]) \in Monitors
        /\ up'[s] = Tail(up[s]) /\ sOpen' = sOpen /\ down' = down
        /\ \A y \in Socks \ {s} : up'[y] = up[y]
    BY <1>0, <1>4 DEF ReadsMonitor
  <2>3. subs'[s] = d /\ \A y \in Socks \ {s} : subs'[y] = subs[y]
    BY <1>0, <1>4, <2>1 DEF ReadsMonitor
  <2>4. ASSUME NEW c \in Clients, fd[c] = s, NEW q \in Wire,
               Sound(up[s], subs[s], tab[c], Acked(down[s], ready[c], q), reqno[c], q)
        PROVE  Sound(Tail(up[s]), d, tab[c], Acked(down[s], ready[c], q), reqno[c], q)
    BY <1>0, <2>1, <2>2, <2>4, SoundMonitor
  <2> QED
    BY <2>2, <2>3, <2>4, BooksAt
<1>5. ASSUME NEW s \in Socks, NEW i \in Nat, ReadsCancel(s, i)
      PROVE  Books'
  <2>1. PICK d, x, r : d = RemoveAt(subs[s], i) /\ r = Head(up[s]).seq
                       /\ x = [type |-> "Ack", seq |-> r, path |-> subs[s][i].path]
    OBVIOUS
  <2>2. /\ up[s] # <<>> /\ Head(up[s]).type = "CANCEL"
        /\ i \in 1 .. Len(subs[s]) /\ subs[s][i].reqno = r
        /\ up'[s] = Tail(up[s]) /\ sOpen' = sOpen /\ subs'[s] = d
        /\ \A y \in Socks \ {s} : up'[y] = up[y] /\ subs'[y] = subs[y]
    BY <1>0, <1>5, <2>1 DEF ReadsCancel
  <2>3. x \in Packets /\ x.seq = r
    <3>1. subs[s][i] \in Subscriptions
      BY <1>0, <2>2
    <3> QED
      BY <2>1, <2>2, <3>1 DEF Subscriptions, Packets
  <2>4. PICK z : z = <<x>>
    OBVIOUS
  <2>5. z \in Seq(Packets) /\ Len(z) = 1 /\ z[1] = x
    BY <2>3, <2>4
  <2>6. /\ \A y \in Socks \ {s} : down'[y] = down[y]
        /\ cOpen[s] => down'[s] = down[s] \o z
    BY <1>5, <1>b, <2>1, <2>4 DEF ReadsCancel
  <2>7. ASSUME NEW c \in Clients, fd[c] = s, NEW q \in Wire,
               Sound(up[s], subs[s], tab[c], Acked(down[s], ready[c], q), reqno[c], q)
        PROVE  Sound(Tail(up[s]), d, tab[c], Acked(down'[s], ready[c], q), reqno[c], q)
    <3>1. down'[s] = down[s] \o z
      BY <1>a, <2>6, <2>7, NoSockAssumption
    <3>2. PICK a, y : a = Acked(down[s], ready[c], q) /\ y = Acked(down[s] \o z, ready[c], q)
      OBVIOUS
    <3>3. a \in BOOLEAN /\ y \in BOOLEAN
      BY <3>2 DEF Acked
    <3>4. y => a \/ r = q
      <4> SUFFICES ASSUME y PROVE a \/ r = q
        OBVIOUS
      <4>1. down[s] \in Seq(Packets)
        BY <1>0
      <4>2. Acked(down[s] \o z, ready[c], q)
        BY <3>2, Zenon
      <4>3. \/ Acked(down[s], ready[c], q)
            \/ \E k \in 1 .. Len(z) : z[k].type = "Ack" /\ z[k].seq = q
        BY <2>5, <4>1, <4>2, AckedConcat
      <4>4. ASSUME NEW k \in 1 .. Len(z), z[k].seq = q
            PROVE  r = q
        BY <2>3, <2>5, <4>4
      <4> QED
        BY <3>2, <4>3, <4>4, Zenon
    <3>5. Sound(up[s], subs[s], tab[c], a, reqno[c], q)
      BY <2>7, <3>2, Zenon
    <3>6. Sound(Tail(up[s]), RemoveAt(subs[s], i), tab[c], a \/ Head(up[s]).seq = q, reqno[c], q)
      <4>1. /\ up[s] \in Seq(Requests) /\ subs[s] \in Seq(Subscriptions)
            /\ reqno[c] \in Nat
        BY <1>0
      <4>2. subs[s][i].reqno = Head(up[s]).seq
        BY <2>1, <2>2
      <4>3. PICK u, b, t, n : u = up[s] /\ b = subs[s] /\ t = tab[c] /\ n = reqno[c]
        OBVIOUS
      <4>4. /\ u \in Seq(Requests) /\ b \in Seq(Subscriptions) /\ n \in Nat /\ u # <<>>
            /\ Head(u).type = "CANCEL" /\ i \in 1 .. Len(b) /\ b[i].reqno = Head(u).seq
            /\ Sound(u, b, t, a, n, q)
        BY <2>2, <3>5, <4>1, <4>2, <4>3, Zenon
      <4>5. Sound(Tail(u), RemoveAt(b, i), t, a \/ Head(u).seq = q, n, q)
        BY <3>3, <4>4, SoundAck, ZenonT(60)
      <4> QED
        BY <4>3, <4>5, Zenon
    <3>7. Sound(Tail(up[s]), d, tab[c], a \/ r = q, reqno[c], q)
      BY <2>1, <3>6, Zenon
    <3>8. Sound(Tail(up[s]), d, tab[c], y, reqno[c], q)
      BY <3>3, <3>4, <3>7 DEF Sound
    <3> QED
      BY <3>1, <3>2, <3>8, Zenon
  <2> QED
    BY <2>2, <2>6, <2>7, BooksAt
<1>6. ASSUME NEW s \in Socks, Sends(s)
      PROVE  Books'
  <2>1. PICK z \in Seq(QueuedEvents) : down' = Written(down, cOpen, s, z)
    BY <1>6 DEF Sends
  <2>2. z \in Seq(Packets) /\ \A i \in 1 .. Len(z) : z[i].type # "Ack"
    <3>1. z \in Seq(Packets)
      BY <2>1, QueuedAreSent
    <3>2. ASSUME NEW i \in 1 .. Len(z)
          PROVE  z[i].type # "Ack"
      <4>1. z[i] \in QueuedEvents
        BY <2>1
      <4> QED
        BY <4>1 DEF QueuedEvents, EventTypes
    <3> QED
      BY <3>1, <3>2
  <2>3. /\ \A y \in Socks \ {s} : down'[y] = down[y]
        /\ cOpen[s] => down'[s] = down[s] \o z
    BY <1>b, <2>1
  <2>4. UNCHANGED <<up, subs, sOpen>>
    BY <1>6 DEF Sends
  <2>5. ASSUME NEW c \in Clients, fd[c] = s, NEW q \in Wire,
               Sound(up[s], subs[s], tab[c], Acked(down[s], ready[c], q), reqno[c], q)
        PROVE  Sound(up[s], subs[s], tab[c], Acked(down'[s], ready[c], q), reqno[c], q)
    <3>1. down'[s] = down[s] \o z
      BY <1>a, <2>3, <2>5, NoSockAssumption
    <3>2. Sound(up[s], subs[s], tab[c], Acked(down[s] \o z, ready[c], q), reqno[c], q)
      BY <1>0, <2>2, <2>5, SoundSent
    <3> QED
      BY <3>1, <3>2, Zenon
  <2> QED
    BY <2>3, <2>4, <2>5, BooksAt
<1>7. Dies => Books'
  <2>1. ASSUME Dies
        PROVE  \A s \in Socks : ~sOpen'[s]
    BY <2>1 DEF Dies
  <2> QED
    BY <1>0, <2>1 DEF Books, BooksOf
<1> QED
  BY <1>1, <1>2, <1>3, <1>4, <1>5, <1>6, <1>7, ServerMoves DEF Accepts
-----------------------------------------------------------------------------
(* A settled connection. *)

(* With nothing in the channel, the subscriptions are the live requests.   *)
LEMMA SoundSettled ==
  ASSUME NEW b \in Seq(Subscriptions), NEW t, NEW n, NEW q, NEW a,
         Sound(<<>>, b, t, a, n, q)
  PROVE  /\ Held(b, q) <= 1
         /\ HasLive(t, q) <=> Held(b, q) # 0
<1>1. Len(<<>>) = 0
  OBVIOUS
<1>2. \A M : Total(<<>>, M) = 0
  BY <1>1, CountZero, Zenon DEF Total
<1>3. Held(b, q) \in Nat
  BY HeldType
<1>4. Tokens(<<>>, b, q) = Held(b, q) /\ Tracked(<<>>, b, q) = Held(b, q)
  BY <1>2, <1>3 DEF Tokens, Tracked
<1>5. Debt(<<>>, q) = 0
  BY <1>2 DEF Debt
<1> QED
  BY <1>4, <1>5 DEF Sound

LEMMA HeldMembers ==
  ASSUME NEW b \in Seq(Subscriptions), NEW q
  PROVE  /\ Held(b, q) # 0 <=> \E i \in 1 .. Len(b) : b[i].reqno = q
         /\ Held(b, q) <= 1 =>
              \A i, j \in 1 .. Len(b) : b[i].reqno = q /\ b[j].reqno = q => i = j
<1>1. Len(b) \in Nat /\ \A i \in 1 .. Len(b) : b[i] \in SubsOf(q) <=> b[i].reqno = q
  BY DEF SubsOf
<1>2. Count(b, Len(b), SubsOf(q)) = 0 <=> \A i \in 1 .. Len(b) : b[i] \notin SubsOf(q)
  BY <1>1, CountNone
<1>3. ASSUME Held(b, q) <= 1, NEW i \in 1 .. Len(b), NEW j \in 1 .. Len(b),
             b[i].reqno = q, b[j].reqno = q
      PROVE  i = j
  <2>1. Count(b, Len(b), SubsOf(q)) <= 1 /\ b[i] \in SubsOf(q) /\ b[j] \in SubsOf(q)
    BY <1>1, <1>3 DEF Held
  <2> QED
    BY <1>1, <2>1, CountTwo
<1> QED
  BY <1>1, <1>2, <1>3 DEF Held

(* Subscriptions with different numbers are as many as their pairs of      *)
(* number and path.                                                        *)
LEMMA CountPairs ==
  ASSUME NEW b \in Seq(Subscriptions),
         \A i, j \in 1 .. Len(b) : b[i].reqno = b[j].reqno => i = j
  PROVE  Cardinality({<<x.reqno, x.path>> : x \in ToSet(b)}) = Len(b)
<1> DEFINE T == {<<x.reqno, x.path>> : x \in ToSet(b)}
           f == [i \in 1 .. Len(b) |-> <<b[i].reqno, b[i].path>>]
<1>1. /\ \A i \in 1 .. Len(b) : b[i] \in ToSet(b)
      /\ \A x \in ToSet(b) : \E i \in 1 .. Len(b) : x = b[i]
  BY ToSetFacts
<1>2. f \in [1 .. Len(b) -> T]
  BY <1>1
<1>3. ASSUME NEW i \in 1 .. Len(b), NEW j \in 1 .. Len(b), f[i] = f[j]
      PROVE  i = j
  BY <1>3
<1>4. ASSUME NEW y \in T
      PROVE  \E i \in 1 .. Len(b) : f[i] = y
  <2>1. PICK x \in ToSet(b) : y = <<x.reqno, x.path>>
    OBVIOUS
  <2>2. PICK i \in 1 .. Len(b) : x = b[i]
    BY <1>1, <2>1
  <2> QED
    BY <2>1, <2>2
<1> HIDE DEF f, T
<1>5. f \in Bijection(1 .. Len(b), T)
  BY <1>2, <1>3, <1>4 DEF Bijection, Injection, Surjection, IsInjective
<1>6. ExistsBijection(1 .. Len(b), T) /\ Len(b) \in Nat
  BY <1>5 DEF ExistsBijection
<1>7. Cardinality(T) = Len(b)
  BY <1>6, FS_CountingElements
<1> QED
  BY <1>7 DEF T

LEMMA AgreementOf ==
  ASSUME TypeOK, SortedUntilReset, Consistent, NEW c \in Clients, BooksOf(c),
         Settled(c), Healthy(c)
  PROVE  Monitored(c) = Expected(c) /\ Len(subs[fd[c]]) = Cardinality(Expected(c))
<1>1. PICK s \in Socks : s = fd[c]
  BY DEF TypeOK, ClientTypeOK, Settled, IsOpen
<1>2. PICK b, t, n : b = subs[s] /\ t = tab[c] /\ n = reqno[c]
  OBVIOUS
<1>3. /\ b \in Seq(Subscriptions) /\ t \in Seq(Entries) /\ n \in Nat
      /\ n <= SeqSpan /\ SeqSpan \in Nat /\ up[s] = <<>> /\ sOpen[s] /\ s # NoSock
  BY <1>1, <1>2, SeqSpanAssumption, NoSockAssumption
     DEF TypeOK, ClientTypeOK, ServerTypeOK, Healthy, Settled
<1>4. ASSUME NEW q \in Wire
      PROVE  Held(b, q) <= 1 /\ (HasLive(t, q) <=> Held(b, q) # 0)
  <2>1. Sound(<<>>, b, t, Acked(down[s], ready[c], q), n, q)
    BY <1>1, <1>2, <1>3 DEF BooksOf
  <2> QED
    BY <1>3, <2>1, SoundSettled
<1>5. ASSUME NEW j \in 1 .. Len(t)
      PROVE  t[j].reqno \in Wire /\ SeqOf16(t[j].reqno) = t[j].reqno /\ t[j] \in Entries
  <2>1. t[j] \in Entries
    BY <1>3
  <2>2. t[j].reqno \in Nat /\ t[j].reqno < n
    BY <1>2, <2>1 DEF Entries, SortedUntilReset, Healthy
  <2> QED
    BY <1>3, <2>1, <2>2, SeqOf16Small DEF Wire
<1>6. /\ \A i \in 1 .. Len(b) : b[i] \in ToSet(b)
      /\ \A x \in ToSet(b) : \E i \in 1 .. Len(b) : x = b[i]
      /\ \A j \in 1 .. Len(t) : t[j] \in ToSet(t)
      /\ \A e \in ToSet(t) : \E j \in 1 .. Len(t) : e = t[j]
  BY <1>3, ToSetFacts
<1>7. ASSUME NEW i \in 1 .. Len(b)
      PROVE  b[i] \in Subscriptions /\ b[i].reqno \in Wire /\ b[i].path \in Paths
  <2>1. b[i] \in Subscriptions
    BY <1>3
  <2> QED
    BY <2>1 DEF Subscriptions, Wire
<1>8. ASSUME NEW i \in 1 .. Len(b), NEW j \in 1 .. Len(t), b[i].reqno = t[j].reqno
      PROVE  b[i].path = t[j].path
  <2>1. InFlight(s, b[i].reqno, b[i].path)
    BY <1>2, <1>6 DEF InFlight
  <2>2. Knows(c, b[i].reqno, b[i].path)
    BY <1>1, <1>3, <1>7, <2>1 DEF Consistent, Wire
  <2> QED
    BY <1>2, <1>6, <1>8, <2>2 DEF Knows
<1>9. ASSUME NEW i \in 1 .. Len(b)
      PROVE  \E e \in ToSet(t) : /\ e.state # "CANCELLED" /\ e.path \notin NonePaths
                                 /\ e.reqno = b[i].reqno /\ e.path = b[i].path
  <2>1. Held(b, b[i].reqno) # 0
    BY <1>3, HeldMembers
  <2>2. HasLive(t, b[i].reqno)
    BY <1>4, <1>7, <2>1
  <2>3. PICK j \in 1 .. Len(t) : IsLive(t[j]) /\ SeqOf16(t[j].reqno) = b[i].reqno
    BY <2>2 DEF HasLive
  <2>4. t[j].reqno = b[i].reqno /\ t[j] \in ToSet(t)
    BY <1>5, <1>6, <2>3
  <2>5. t[j].path = b[i].path
    BY <1>8, <2>4
  <2> QED
    BY <2>3, <2>4, <2>5 DEF IsLive
<1>10. ASSUME NEW e \in ToSet(t), e.state # "CANCELLED", e.path \notin NonePaths
       PROVE  \E x \in ToSet(b) : x.reqno = e.reqno /\ x.path = e.path
  <2>1. PICK j \in 1 .. Len(t) : e = t[j]
    BY <1>6
  <2>2. HasLive(t, e.reqno) /\ e.reqno \in Wire
    BY <1>5, <1>10, <2>1 DEF HasLive, IsLive
  <2>3. Held(b, e.reqno) # 0
    BY <1>4, <2>2
  <2>4. PICK i \in 1 .. Len(b) : b[i].reqno = e.reqno
    BY <1>3, <2>3, HeldMembers
  <2>5. b[i].path = e.path
    BY <1>8, <2>1, <2>4
  <2> QED
    BY <1>6, <2>4, <2>5
<1>11. Monitored(c) = {<<x.reqno, x.path>> : x \in ToSet(b)}
  BY <1>1, <1>2 DEF Monitored
<1>12. Expected(c) = {<<e.reqno, e.path>> :
         e \in {y \in ToSet(t) : y.state # "CANCELLED" /\ y.path \notin NonePaths}}
  BY <1>2 DEF Expected
<1>13. Monitored(c) \subseteq Expected(c)
  <2>1. ASSUME NEW y \in Monitored(c)
        PROVE  y \in Expected(c)
    <3>1. PICK x \in ToSet(b) : y = <<x.reqno, x.path>>
      BY <1>11
    <3>2. PICK i \in 1 .. Len(b) : x = b[i]
      BY <1>6, <3>1
    <3>3. PICK e \in ToSet(t) : /\ e.state # "CANCELLED" /\ e.path \notin NonePaths
                                /\ e.reqno = b[i].reqno /\ e.path = b[i].path
      BY <1>9
    <3> QED
      BY <1>12, <3>1, <3>2, <3>3
  <2> QED
    BY <2>1
<1>14. Expected(c) \subseteq Monitored(c)
  <2>1. ASSUME NEW y \in Expected(c)
        PROVE  y \in Monitored(c)
    <3>1. PICK e \in ToSet(t) : /\ e.state # "CANCELLED" /\ e.path \notin NonePaths
                                /\ y = <<e.reqno, e.path>>
      BY <1>12
    <3>2. PICK x \in ToSet(b) : x.reqno = e.reqno /\ x.path = e.path
      BY <1>10, <3>1
    <3> QED
      BY <1>11, <3>1, <3>2
  <2> QED
    BY <2>1
<1>15. ASSUME NEW i \in 1 .. Len(b), NEW j \in 1 .. Len(b), b[i].reqno = b[j].reqno
       PROVE  i = j
  <2>1. Held(b, b[i].reqno) <= 1
    BY <1>4, <1>7
  <2> QED
    BY <1>3, <1>15, <2>1, HeldMembers
<1>16. Cardinality(Monitored(c)) = Len(b)
  BY <1>3, <1>11, <1>15, CountPairs
<1>17. Monitored(c) = Expected(c)
  BY <1>13, <1>14, Zenon
<1> QED
  BY <1>1, <1>2, <1>16, <1>17, Zenon

(* Once the server has read every request, its listener holds one          *)
(* subscription for each request that was not cancelled, and no other: for *)
(* any number of clients, sockets, paths and requests, on a connection     *)
(* that was not re-established and whose numbers fit the 16 bit field.     *)
THEOREM AgreementAlways == Spec => []Agreement
<1> DEFINE Inv == Handshake /\ Books
<1>1. Init => Inv
  <2> SUFFICES ASSUME Init PROVE Inv
    OBVIOUS
  <2>1. \A s \in Socks : ~sOpen[s]
    BY DEF Init, SockInit
  <2>2. \A c \in Clients : fd[c] = NoSock
    BY DEF Init, ClientInit
  <2> QED
    BY <2>1, <2>2 DEF Handshake, Books, BooksOf
<1>2. TypeOK /\ Ends /\ SortedUntilReset /\ Inv /\ [Next]_vars => Inv'
  <2> SUFFICES ASSUME TypeOK, Ends, SortedUntilReset, Inv, [Next]_vars
               PROVE  Inv'
    OBVIOUS
  <2>1. CASE ClientStep
    BY <2>1, HandshakeClient, BooksClient DEF ClientStep
  <2>2. CASE ServerStep
    BY <2>2, HandshakeServer, BooksServer DEF ServerStep
  <2>3. CASE UNCHANGED vars
    BY <2>3 DEF vars, sockVars, clientVars, dataVars, serverVars, connVars,
       Handshake, Books, BooksOf, Healthy
  <2> QED
    BY <2>1, <2>2, <2>3 DEF Next
<1>3. TypeOK /\ SortedUntilReset /\ Consistent /\ Inv => Agreement
  BY AgreementOf DEF Agreement, Books
<1> HIDE DEF Inv
<1> QED
  BY <1>1, <1>2, <1>3, TypeCorrect, EndsAlways, SortedAlways, InFlightAlways, PTL
     DEF Spec
=============================================================================
