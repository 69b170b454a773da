-------------------------- MODULE TimerListProofs --------------------------
(***************************************************************************)
(* The timer list of TimerList.tla, for every number of contexts and all   *)
(* times.  The nodes met from the head and from the cursor of the expiry   *)
(* loop are two disjoint chains, linked both ways or on their way out, and *)
(* every other context has no links (Ordered).  Each operation keeps that  *)
(* and does to the times left what a set of independent timers would; from *)
(* it follow TypeOK, WellLinked, SafeRemovalIsExact and that TimerList     *)
(* implements Timers.  What a walk of the list or a sum of deltas computes *)
(* is shown by the first node that would break the claim (Least).          *)
(***************************************************************************)
EXTENDS TimerList, FiniteSetTheorems, SequenceTheorems, TLAPS

-----------------------------------------------------------------------------
(* The nodes of a list *)

\* What the pointers and the deltas of a list hold
Lists == [head : Pointers, next : [Contexts -> Pointers], previous : [Contexts -> Pointers],
          timeout_left_ms : [Contexts -> Nat]]

\* No context is in s twice.
Once(s) == \A i, j \in 1..Len(s) : s[i] = s[j] => i = j

\* From h on, the next pointers of l lead through s and end.
Chain(l, h, s) ==
    /\ s \in Seq(Contexts) /\ Once(s)
    /\ h = IF Len(s) = 0 THEN NULL ELSE s[1]
    /\ \A i \in 1..Len(s) : l.next[s[i]] = IF i = Len(s) THEN NULL ELSE s[i + 1]

\* A set of numbers that has a member has a least one: induction over the nodes
\* of a list is by the first node that would break the claim.
LEMMA Least ==
    ASSUME NEW S \in SUBSET Nat, S # {}
    PROVE  \E x \in S : \A y \in S : x <= y
<1> DEFINE R == {ss \in Nat \X Nat : ss[1] < ss[2]}
<1>1. IsWellFoundedOn(R, Nat)
  BY NatLessThanWellFounded DEF OpToRel
<1>2. \A x, y \in Nat : y < x => <<y, x>> \in R
  OBVIOUS
<1> HIDE DEF R
<1>3. PICK x \in S : \A y \in S : ~ (<<y, x>> \in R)
  BY <1>1, WFMin
<1>4. ASSUME NEW y \in S PROVE x <= y
  <2>1. ~ (y < x)
    BY <1>2, <1>3
  <2> QED BY <2>1
<1> QED BY <1>4

\* The numbers 1..n and 0..n-1 are n each.
LEMMA Interval ==
    ASSUME NEW n \in Nat
    PROVE  /\ IsFiniteSet(1..n) /\ Cardinality(1..n) = n
           /\ IsFiniteSet(0..n - 1) /\ Cardinality(0..n - 1) = n
<1>1. \A a, b \in Int : /\ IsFiniteSet(a .. b)
                        /\ Cardinality(a .. b) = IF a > b THEN 0 ELSE b - a + 1
  BY FS_Interval
<1>2. n - 1 \in Int /\ 0 \in Int /\ 1 \in Int /\ n \in Int
  OBVIOUS
<1>3. /\ IsFiniteSet(1..n) /\ Cardinality(1..n) = IF 1 > n THEN 0 ELSE n - 1 + 1
      /\ IsFiniteSet(0..n - 1) /\ Cardinality(0..n - 1) = IF 0 > n - 1 THEN 0
           ELSE n - 1 - 0 + 1
  BY <1>1, <1>2
<1>4. (IF 1 > n THEN 0 ELSE n - 1 + 1) = n
  OBVIOUS
<1>5. (IF 0 > n - 1 THEN 0 ELSE n - 1 - 0 + 1) = n
  OBVIOUS
<1>6. /\ IsFiniteSet(1..n) /\ IsFiniteSet(0..n - 1)
  BY <1>3
<1>7. Cardinality(1..n) = n
  BY <1>3, <1>4
<1>8. Cardinality(0..n - 1) = n
  BY <1>3, <1>5
<1> QED BY <1>6, <1>7, <1>8

\* A chain is no longer than there are contexts, so a walk that gives up after
\* that many steps sees all of it.
LEMMA ChainLength ==
    ASSUME NEW s \in Seq(Contexts), Once(s)
    PROVE  Len(s) \in Nat /\ Len(s) <= Cardinality(Contexts)
             /\ Cardinality(Contexts) \in Nat
<1>1. Len(s) \in Nat /\ s \in [1 .. Len(s) -> Contexts]
  BY LenProperties
<1>2. IsFiniteSet(1 .. Len(s)) /\ Cardinality(1 .. Len(s)) = Len(s)
  BY <1>1, Interval
<1>3. s \in Injection(1 .. Len(s), Contexts)
  BY <1>1 DEF Injection, Once, IsInjective
<1> QED
  BY <1>1, <1>2, <1>3, ContextsAreFinite, FS_Injection, FS_CardinalityType

\* The walk of pubnub_timer_list_next from h sees the chain that starts there.
LEMMA NodesOf ==
    ASSUME NEW l \in Lists, NEW h, NEW s, Chain(l, h, s)
    PROVE  NodesFrom(l, h) = s
<1> DEFINE N == Cardinality(Contexts)
           step(f) == [k \in 0..N |-> IF k = 0 THEN h ELSE IF f[k - 1] = NULL THEN NULL
               ELSE l.next[f[k - 1]]]
           nth == CHOOSE f : f = step(f)
           g == [k \in 0..N |-> IF k < Len(s) THEN s[k + 1] ELSE NULL]
<1>1. Len(s) \in Nat /\ N \in Nat /\ Len(s) <= N /\ DOMAIN s = 1 .. Len(s)
      /\ \A i \in 1..Len(s) : s[i] \in Contexts /\ s[i] # NULL
  BY ChainLength, LenProperties, ElementOfSeq, NullIsNoContext DEF Chain
<1>2. /\ h = IF Len(s) = 0 THEN NULL ELSE s[1]
      /\ \A i \in 1..Len(s) : l.next[s[i]] = IF i = Len(s) THEN NULL ELSE s[i + 1]
  BY DEF Chain
<1>3. /\ DOMAIN g = 0..N
      /\ \A k \in 0..N : g[k] = IF k < Len(s) THEN s[k + 1] ELSE NULL
  OBVIOUS
<1>4. g = [k \in 0..N |-> g[k]]
  OBVIOUS
<1> HIDE DEF g
<1>5. g = step(g)
  <2>1. ASSUME NEW k \in 0..N
        PROVE  g[k] = IF k = 0 THEN h ELSE IF g[k - 1] = NULL THEN NULL
                 ELSE l.next[g[k - 1]]
    <3>1. CASE k = 0
      <4>1. g[0] = IF 0 < Len(s) THEN s[0 + 1] ELSE NULL
        BY <1>3, <3>1
      <4>2. 0 + 1 = 1 /\ (0 < Len(s) <=> ~ (Len(s) = 0))
        BY <1>1
      <4> QED BY <1>2, <3>1, <4>1, <4>2
    <3>2. CASE k # 0 /\ k - 1 < Len(s)
      <4>1. k \in 1..Len(s) /\ k - 1 \in 0..N /\ (k - 1) + 1 = k
        BY <1>1, <3>2
      <4>2. k < Len(s) <=> k # Len(s)
        <5>1. \A a, b \in Int : a <= b => (a < b <=> a # b)
          OBVIOUS
        <5>2. k \in Int /\ Len(s) \in Int /\ k <= Len(s)
          BY <1>1, <4>1
        <5> QED BY <5>1, <5>2
      <4>3. g[k - 1] = s[k] /\ s[k] # NULL
        BY <1>1, <1>3, <3>2, <4>1
      <4>4. l.next[s[k]] = IF k = Len(s) THEN NULL ELSE s[k + 1]
        BY <1>2, <4>1
      <4>5. g[k] = IF k < Len(s) THEN s[k + 1] ELSE NULL
        BY <1>3
      <4> QED BY <3>2, <4>1, <4>3, <4>4, <4>5, <4>2
    <3>3. CASE k # 0 /\ ~ (k - 1 < Len(s))
      <4>1. k - 1 \in 0..N /\ ~ (k < Len(s))
        BY <1>1, <3>3
      <4> QED BY <1>3, <3>3, <4>1
    <3> QED BY <3>1, <3>2, <3>3
  <2> QED BY <1>4, <2>1
<1>6. nth = step(nth)
  BY <1>5
<1> HIDE DEF nth
<1>7. \A k \in 0..N : nth[k] = g[k]
  <2> DEFINE S == {k \in 0..N : nth[k] # g[k]}
  <2>1. ASSUME S # {} PROVE FALSE
    <3>1. S \in SUBSET Nat /\ S # {}
      BY <1>1, <2>1
    <3>2. PICK k \in S : \A j \in S : k <= j
      <4> HIDE DEF S
      <4> QED BY <3>1, Least
    <3>3. k \in 0..N /\ nth[k] # g[k]
      BY <3>2
    <3>4. nth[k] = (IF k = 0 THEN h ELSE IF nth[k - 1] = NULL THEN NULL
            ELSE l.next[nth[k - 1]])
      BY <1>6, <3>3
    <3>5. g[k] = (IF k = 0 THEN h ELSE IF g[k - 1] = NULL THEN NULL ELSE l.next[g[k - 1]])
      BY <1>5, <3>3
    <3>6. k # 0 => nth[k - 1] = g[k - 1]
      <4>1. ASSUME k # 0 PROVE k - 1 \in 0..N /\ ~ (k <= k - 1)
        BY <1>1, <3>3, <4>1
      <4> QED BY <3>2, <4>1
    <3> QED BY <3>3, <3>4, <3>5, <3>6
  <2> QED BY <2>1
<1>8. DOMAIN nth = 0..N
  BY <1>6
<1>9. {i \in DOMAIN nth : nth[i] # NULL} = 0 .. Len(s) - 1
  <2>1. \A i \in 0..N : nth[i] # NULL <=> i < Len(s)
    BY <1>1, <1>7, <1>3
  <2> QED BY <1>1, <1>8, <2>1
<1>10. Cardinality(0 .. Len(s) - 1) = Len(s)
  BY <1>1, Interval
<1>11. NodesFrom(l, h) = [k \in 1..Len(s) |-> nth[k - 1]]
  BY <1>9, <1>10 DEF NodesFrom, nth
<1>12. \A k \in 1..Len(s) : nth[k - 1] = s[k]
  <2> SUFFICES ASSUME NEW k \in 1..Len(s) PROVE nth[k - 1] = s[k]
    OBVIOUS
  <2>1. k - 1 \in 0..N /\ k - 1 < Len(s) /\ (k - 1) + 1 = k
    BY <1>1
  <2> QED BY <1>7, <1>3, <2>1
<1>13. s = [k \in 1..Len(s) |-> s[k]]
  BY LenProperties DEF Chain
<1> QED BY <1>11, <1>12, <1>13

-----------------------------------------------------------------------------
(* The time a node is due *)

\* d[k] is the sum of the first n deltas of s, up to node k.
Sums(l, s, n, d) ==
    /\ d \in [0..n -> Nat] /\ d[0] = 0
    /\ \A k \in 1..n : d[k] = d[k - 1] + l.timeout_left_ms[s[k]]

\* Every sequence of nodes has its sums.
LEMMA SumsExist ==
    ASSUME NEW l \in Lists, NEW s \in Seq(Contexts)
    PROVE  \E d : Sums(l, s, Len(s), d)
<1> DEFINE S == {n \in 0..Len(s) : ~ \E d : Sums(l, s, n, d)}
<1>1. Len(s) \in Nat /\ \A k \in 1..Len(s) :
        s[k] \in Contexts /\ l.timeout_left_ms[s[k]] \in Nat
  BY LenProperties, ElementOfSeq DEF Lists
<1>2. ASSUME S # {} PROVE FALSE
  <2>1. S \in SUBSET Nat /\ S # {}
    BY <1>1, <1>2
  <2>2. PICK n \in S : \A j \in S : n <= j
    <3> HIDE DEF S
    <3> QED BY <2>1, Least
  <2>3. n \in 0..Len(s) /\ ~ \E d : Sums(l, s, n, d)
    OBVIOUS
  <2>4. CASE n = 0
    <3>1. Sums(l, s, 0, [k \in 0..0 |-> 0])
      BY DEF Sums
    <3> QED BY <2>3, <2>4, <3>1
  <2>5. CASE n # 0
    <3>1. n - 1 \in 0..Len(s) /\ n \in 1..Len(s) /\ ~ (n <= n - 1) /\ n \in Nat
      BY <1>1, <2>3, <2>5
    <3>2. n - 1 \notin S
      BY <2>2, <3>1
    <3>3. PICK d : Sums(l, s, n - 1, d)
      BY <3>1, <3>2
    <3> DEFINE e == [k \in 0..n |-> IF k = n THEN d[n - 1] + l.timeout_left_ms[s[n]]
          ELSE d[k]]
    <3>4. d[n - 1] \in Nat /\ l.timeout_left_ms[s[n]] \in Nat
      BY <1>1, <3>1, <3>3 DEF Sums
    <3>5. ASSUME NEW k \in 0..n, k # n PROVE d[k] \in Nat
      <4>1. k \in 0..n - 1
        BY <3>1, <3>5
      <4> QED BY <3>3, <4>1 DEF Sums
    <3>6. e \in [0..n -> Nat]
      BY <3>4, <3>5
    <3>7. e[0] = 0
      BY <2>5, <3>1, <3>3 DEF Sums
    <3>8. ASSUME NEW k \in 1..n PROVE e[k] = e[k - 1] + l.timeout_left_ms[s[k]]
      <4>1. k - 1 \in 0..n /\ k - 1 # n /\ k \in 0..n
        BY <3>1
      <4>2. e[k - 1] = d[k - 1]
        BY <4>1
      <4>3. CASE k = n
        BY <4>1, <4>2, <4>3
      <4>4. CASE k # n
        <5>1. k \in 1..n - 1
          BY <3>1, <4>4
        <5>2. d[k] = d[k - 1] + l.timeout_left_ms[s[k]]
          BY <3>3, <5>1 DEF Sums
        <5> QED BY <4>1, <4>2, <4>4, <5>2
      <4> QED BY <4>3, <4>4
    <3> HIDE DEF e
    <3>9. Sums(l, s, n, e)
      BY <3>6, <3>7, <3>8 DEF Sums
    <3> QED BY <2>3, <3>9
  <2> QED BY <2>4, <2>5
<1>3. Len(s) \in 0..Len(s)
  BY <1>1
<1> QED BY <1>2, <1>3

\* Due is any function that satisfies the equation of the sums.
LEMMA DueIs ==
    ASSUME NEW l, NEW s \in Seq(Contexts), NEW d, Sums(l, s, Len(s), d), NEW k \in 0..Len(s)
    PROVE  Due(l, s, k) = d[k]
<1> DEFINE step(f) == [i \in 0..Len(s) |-> IF i = 0 THEN 0
      ELSE f[i - 1] + l.timeout_left_ms[s[i]]]
           ms == CHOOSE f : f = step(f)
<1>1. Len(s) \in Nat
  BY LenProperties
<1>2. d = [i \in 0..Len(s) |-> d[i]]
  BY DEF Sums
<1>3. \A i \in 0..Len(s) : d[i] = IF i = 0 THEN 0 ELSE d[i - 1] + l.timeout_left_ms[s[i]]
  <2>1. ASSUME NEW i \in 0..Len(s), i # 0 PROVE i \in 1..Len(s)
    BY <1>1, <2>1
  <2> QED BY <2>1 DEF Sums
<1>4. d = step(d)
  BY <1>2, <1>3
<1>5. ms = step(ms)
  BY <1>4
<1> HIDE DEF ms
<1>6. \A i \in 0..Len(s) : ms[i] = IF i = 0 THEN 0 ELSE ms[i - 1] + l.timeout_left_ms[s[i]]
  BY <1>5
<1>7. \A i \in 0..Len(s) : ms[i] = d[i]
  <2> DEFINE S == {i \in 0..Len(s) : ms[i] # d[i]}
  <2>1. ASSUME S # {} PROVE FALSE
    <3>1. S \in SUBSET Nat /\ S # {}
      BY <1>1, <2>1
    <3>2. PICK i \in S : \A j \in S : i <= j
      <4> HIDE DEF S
      <4> QED BY <3>1, Least
    <3>3. i \in 0..Len(s) /\ ms[i] # d[i]
      OBVIOUS
    <3>4. i # 0 => ms[i - 1] = d[i - 1]
      <4>1. ASSUME i # 0 PROVE i - 1 \in 0..Len(s) /\ ~ (i <= i - 1)
        BY <1>1, <3>3, <4>1
      <4> QED BY <3>2, <4>1
    <3> QED BY <1>3, <1>6, <3>3, <3>4
  <2> QED BY <2>1
<1>8. Due(l, s, k) = ms[k]
  BY DEF Due, ms
<1> QED BY <1>7, <1>8

-----------------------------------------------------------------------------
(* The invariant of a list and of the contexts that expired *)

\* x is one of s.
In(s, x) == \E i \in 1..Len(s) : s[i] = x

\* q is the list of l, linked the same way in both directions.
Rooted(l, q) ==
    /\ Chain(l, l.head, q)
    /\ \A i \in 1..Len(q) : l.previous[q[i]] = IF i = 1 THEN NULL ELSE q[i - 1]

\* No context is both in q and in e.
Apart(q, e) == \A x \in Contexts : ~ (In(q, x) /\ In(e, x))

\* A context that is neither in q nor in e has no links.
Loose(l, q, e) ==
    \A x \in Contexts : ~ In(q, x) /\ ~ In(e, x) => l.next[x] = NULL /\ l.previous[x] = NULL

\* The invariant of a list l and a cursor x: q is the list, e are the contexts from
\* x on that expired and were not handled yet.
Ordered(l, x, q, e) ==
    /\ l \in Lists /\ Rooted(l, q) /\ Chain(l, x, e) /\ Apart(q, e) /\ Loose(l, q, e)

\* The time each context has left, -1 without a timer: remainingMs of a list
Left(l) ==
    [c \in Contexts |->
        IF c \in ToSet(Nodes(l)) THEN Due(l, Nodes(l), CHOOSE k \in DOMAIN Nodes(l) :
            Nodes(l)[k] = c)
        ELSE -1]

\* The elements of a sequence of contexts
LEMMA Elements ==
    ASSUME NEW s \in Seq(Contexts)
    PROVE  /\ Len(s) \in Nat /\ DOMAIN s = 1..Len(s)
           /\ \A i \in 1..Len(s) : s[i] \in Contexts /\ s[i] # NULL
  BY LenProperties, ElementOfSeq, NullIsNoContext

\* A context of the list has the time left that is due at its node.
LEMMA LeftIs ==
    ASSUME NEW l \in Lists, NEW q, Rooted(l, q)
    PROVE  /\ \A i \in 1..Len(q) : Left(l)[q[i]] = Due(l, q, i)
           /\ \A x \in Contexts : ~ In(q, x) => Left(l)[x] = -1
           /\ Left(l) = [x \in Contexts |-> Left(l)[x]]
<1>1. Nodes(l) = q /\ q \in Seq(Contexts) /\ Once(q)
  BY NodesOf DEF Nodes, Rooted, Chain
<1>2. \A i \in 1..Len(q) : q[i] \in Contexts
  BY <1>1, Elements
<1>3. DOMAIN q = 1..Len(q)
  BY <1>1, Elements
<1>4. ASSUME NEW i \in 1..Len(q) PROVE Left(l)[q[i]] = Due(l, q, i)
  <2>1. (CHOOSE k \in DOMAIN q : q[k] = q[i]) = i
    BY <1>1, <1>3 DEF Once
  <2>2. q[i] \in ToSet(q)
    BY <1>3 DEF ToSet
  <2> QED BY <1>1, <1>2, <2>1, <2>2 DEF Left
<1>5. ASSUME NEW x \in Contexts, ~ In(q, x) PROVE Left(l)[x] = -1
  <2>1. x \notin ToSet(q)
    BY <1>3, <1>5 DEF ToSet, In
  <2> QED BY <1>1, <2>1 DEF Left
<1>6. Left(l) = [x \in Contexts |-> Left(l)[x]]
  BY DEF Left
<1> QED BY <1>4, <1>5, <1>6

\* What is due at a node is what is due at the one before, and the node's delta.
LEMMA DueFacts ==
    ASSUME NEW l \in Lists, NEW q \in Seq(Contexts)
    PROVE  /\ Due(l, q, 0) = 0
           /\ \A k \in 0..Len(q) : Due(l, q, k) \in Nat
           /\ \A k \in 1..Len(q) : Due(l, q, k) = Due(l, q, k - 1) + l.timeout_left_ms[q[k]]
<1>1. PICK d : Sums(l, q, Len(q), d)
  BY SumsExist
<1>2. \A k \in 0..Len(q) : Due(l, q, k) = d[k]
  BY <1>1, DueIs
<1>3. Len(q) \in Nat /\ 0 \in 0..Len(q) /\ \A k \in 1..Len(q) :
        k \in 0..Len(q) /\ k - 1 \in 0..Len(q)
  BY Elements
<1>4. d[0] = 0 /\ \A k \in 0..Len(q) : d[k] \in Nat
  BY <1>1 DEF Sums
<1>5. \A k \in 1..Len(q) : d[k] = d[k - 1] + l.timeout_left_ms[q[k]]
  BY <1>1 DEF Sums
<1> QED BY <1>2, <1>3, <1>4, <1>5

\* Sums found for a list are its due times.
LEMMA DueFrom ==
    ASSUME NEW l, NEW q \in Seq(Contexts), NEW d \in [0..Len(q) -> Nat], d[0] = 0,
           \A k \in 1..Len(q) : d[k] = d[k - 1] + l.timeout_left_ms[q[k]]
    PROVE  \A k \in 0..Len(q) : Due(l, q, k) = d[k]
  BY DueIs DEF Sums

\* The place of a new timer is after all that are due with it or sooner.
LEMMA PlaceIs ==
    ASSUME NEW l \in Lists, NEW q, Rooted(l, q), NEW ms \in Nat
    PROVE  LET k == Place(l, ms)
           IN  /\ k \in 1..Len(q) + 1 /\ Due(l, q, k - 1) <= ms
               /\ k <= Len(q) => ms < Due(l, q, k)
<1>1. Nodes(l) = q /\ q \in Seq(Contexts) /\ Len(q) \in Nat
  BY NodesOf, Elements DEF Nodes, Rooted, Chain
<1> DEFINE S == {k \in 1..Len(q) + 1 : k > Len(q) \/ ms < Due(l, q, k)}
           P(k) == /\ k > Len(q) \/ ms < Due(l, q, k)
                   /\ \A j \in 1..k - 1 : ms >= Due(l, q, j)
<1>2. S \in SUBSET Nat
  BY <1>1
<1>3. Len(q) + 1 \in S
  BY <1>1
<1>4. PICK k \in S : \A j \in S : k <= j
  <2> HIDE DEF S
  <2> QED BY <1>2, <1>3, Least
<1>5. k \in 1..Len(q) + 1 /\ (k > Len(q) \/ ms < Due(l, q, k))
  OBVIOUS
<1>6. ASSUME NEW j \in 1..k - 1 PROVE ms >= Due(l, q, j)
  <2>1. j \in 1..Len(q) + 1 /\ ~ (k <= j) /\ j \in 0..Len(q)
    BY <1>1, <1>5
  <2>2. j \notin S
    BY <1>4, <2>1
  <2>3. ~ (ms < Due(l, q, j)) /\ Due(l, q, j) \in Nat
    BY <1>1, <2>1, <2>2, DueFacts
  <2> QED BY <2>3
<1>7. \E i \in 1..Len(q) + 1 : P(i)
  BY <1>5, <1>6
<1>8. Place(l, ms) = CHOOSE i \in 1..Len(q) + 1 : P(i)
  BY <1>1 DEF Place
<1> DEFINE p == Place(l, ms)
<1>9. p \in 1..Len(q) + 1 /\ P(p)
  <2> HIDE DEF P
  <2> QED BY <1>7, <1>8
<1> HIDE DEF p
<1>10. Due(l, q, p - 1) <= ms
  <2>1. CASE p = 1
    <3>1. p - 1 = 0
      BY <2>1
    <3> QED BY <1>1, <3>1, DueFacts
  <2>2. CASE p # 1
    <3>1. p - 1 \in 1..p - 1 /\ p - 1 \in 0..Len(q)
      BY <1>1, <1>9, <2>2
    <3>2. ms >= Due(l, q, p - 1) /\ Due(l, q, p - 1) \in Nat
      BY <1>1, <1>9, <3>1, DueFacts
    <3> QED BY <3>2
  <2> QED BY <2>1, <2>2
<1>11. p <= Len(q) => ms < Due(l, q, p)
  BY <1>1, <1>9
<1> QED BY <1>9, <1>10, <1>11 DEF p

-----------------------------------------------------------------------------
(* pubnub_timer_list_remove *)

\* The invariant when no context waits to be handled.
Sorted(l, q) == Ordered(l, NULL, q, <<>>)

\* What the invariant says of the head, the nodes and the contexts not listed
LEMMA SortedFacts ==
    ASSUME NEW l, NEW q, Sorted(l, q)
    PROVE  /\ l \in Lists /\ Rooted(l, q) /\ q \in Seq(Contexts) /\ Once(q)
           /\ Len(q) \in Nat /\ DOMAIN q = 1..Len(q)
           /\ \A i \in 1..Len(q) : q[i] \in Contexts /\ q[i] # NULL
           /\ l.head = IF Len(q) = 0 THEN NULL ELSE q[1]
           /\ \A i \in 1..Len(q) : l.next[q[i]] = IF i = Len(q) THEN NULL ELSE q[i + 1]
           /\ \A i \in 1..Len(q) : l.previous[q[i]] = IF i = 1 THEN NULL ELSE q[i - 1]
           /\ \A x \in Contexts : ~ In(q, x) => l.next[x] = NULL /\ l.previous[x] = NULL
<1>1. l \in Lists /\ Rooted(l, q) /\ q \in Seq(Contexts) /\ Once(q)
  BY DEF Sorted, Ordered, Rooted, Chain
<1>2. \A x : ~ In(<<>>, x)
  BY DEF In
<1>3. \A x \in Contexts : ~ In(q, x) => l.next[x] = NULL /\ l.previous[x] = NULL
  BY <1>2 DEF Sorted, Ordered, Loose
<1>4. /\ l.head = IF Len(q) = 0 THEN NULL ELSE q[1]
      /\ \A i \in 1..Len(q) : l.next[q[i]] = IF i = Len(q) THEN NULL ELSE q[i + 1]
  BY <1>1 DEF Rooted, Chain
<1>5. \A i \in 1..Len(q) : l.previous[q[i]] = IF i = 1 THEN NULL ELSE q[i - 1]
  BY <1>1 DEF Rooted
<1> QED BY <1>1, <1>3, <1>4, <1>5, Elements

\* ... and that is all it says.
LEMMA SortedFrom ==
    ASSUME NEW l \in Lists, NEW q \in Seq(Contexts), Once(q),
           l.head = IF Len(q) = 0 THEN NULL ELSE q[1],
           \A i \in 1..Len(q) : l.next[q[i]] = IF i = Len(q) THEN NULL ELSE q[i + 1],
           \A i \in 1..Len(q) : l.previous[q[i]] = IF i = 1 THEN NULL ELSE q[i - 1],
           \A x \in Contexts : ~ In(q, x) => l.next[x] = NULL /\ l.previous[x] = NULL
    PROVE  Sorted(l, q)
<1>1. Rooted(l, q)
  BY DEF Rooted, Chain
<1>2. <<>> \in Seq(Contexts) /\ Len(<<>>) = 0
  BY EmptySeq
<1>3. Chain(l, NULL, <<>>)
  BY <1>2 DEF Chain, Once
<1>4. \A x : ~ In(<<>>, x)
  BY <1>2 DEF In
<1> QED BY <1>1, <1>3, <1>4 DEF Sorted, Ordered, Apart, Loose

\* m is l with node k of q removed, and p its nodes.
Without(l, q, k, m, p) ==
    /\ Sorted(m, p)
    /\ Len(p) = Len(q) - 1
    /\ \A i \in 1..Len(p) : p[i] = IF i < k THEN q[i] ELSE q[i + 1]
    /\ \A i \in 1..Len(p) : Due(m, p, i) = IF i < k THEN Due(l, q, i) ELSE Due(l, q, i + 1)

\* pubnub_timer_list_remove of node k: the others keep their links, their order and
\* the time they are due.
LEMMA Taking ==
    ASSUME NEW l, NEW q, Sorted(l, q), NEW k \in 1..Len(q),
           NEW m, m = pubnub_timer_list_remove(l, q[k])
    PROVE  \E p : Without(l, q, k, m, p)
<1> DEFINE c == q[k]
           n == Len(q)
           prev == IF l.head = c THEN NULL ELSE l.previous[c]
           nxt == l.next[c]
           p == [i \in 1..n - 1 |-> IF i < k THEN q[i] ELSE q[i + 1]]
<1>1. n \in Nat /\ c \in Contexts /\ c # NULL /\ n >= 1
  BY SortedFacts
<1>2. nxt = IF k = n THEN NULL ELSE q[k + 1]
  BY SortedFacts
<1>3. prev = IF k = 1 THEN NULL ELSE q[k - 1]
  <2>1. l.head = q[1] /\ 1 \in 1..n
    BY <1>1, SortedFacts
  <2>2. l.head = c <=> k = 1
    BY <2>1, SortedFacts DEF Once
  <2> QED BY <2>2, SortedFacts
<1>4. /\ \A i \in 1..n : q[i] = prev <=> i = k - 1
      /\ \A i \in 1..n : q[i] = nxt <=> i = k + 1
      /\ \A i \in 1..n : q[i] = c <=> i = k
  <2>1. ASSUME NEW i \in 1..n PROVE q[i] = prev <=> i = k - 1
    <3>1. CASE k = 1
      BY <1>1, <1>3, <3>1, SortedFacts
    <3>2. CASE k # 1
      <4>1. k - 1 \in 1..n
        BY <1>1, <3>2
      <4> QED BY <1>3, <3>2, <4>1, SortedFacts DEF Once
    <3> QED BY <3>1, <3>2
  <2>2. ASSUME NEW i \in 1..n PROVE q[i] = nxt <=> i = k + 1
    <3>1. CASE k = n
      BY <1>1, <1>2, <3>1, SortedFacts
    <3>2. CASE k # n
      <4>1. k + 1 \in 1..n
        BY <1>1, <3>2
      <4> QED BY <1>2, <3>2, <4>1, SortedFacts DEF Once
    <3> QED BY <3>1, <3>2
  <2>3. ASSUME NEW i \in 1..n PROVE q[i] = c <=> i = k
    BY SortedFacts DEF Once
  <2> QED BY <2>1, <2>2, <2>3
<1>5. prev \in Pointers /\ nxt \in Pointers
  BY SortedFacts, <1>1 DEF Lists, Pointers
<1>6. /\ m.head = IF l.head = c THEN nxt ELSE l.head
      /\ m.next = Store([l.next EXCEPT ![c] = NULL], prev, nxt)
      /\ m.previous = Store([l.previous EXCEPT ![c] = NULL], nxt, prev)
      /\ m.timeout_left_ms = IF nxt = NULL THEN l.timeout_left_ms
                             ELSE [l.timeout_left_ms EXCEPT ![nxt]
                                 = @ + l.timeout_left_ms[c]]
      /\ m = [head |-> m.head, next |-> m.next, previous |-> m.previous,
              timeout_left_ms |-> m.timeout_left_ms]
  BY DEF pubnub_timer_list_remove
<1> HIDE DEF prev, nxt
<1>7. /\ l.head \in Pointers /\ l.next \in [Contexts -> Pointers]
           /\ l.previous \in [Contexts -> Pointers]
      /\ l.timeout_left_ms \in [Contexts -> Nat]
  BY SortedFacts DEF Lists
<1>8. /\ m.next \in [Contexts -> Pointers]
      /\ \A x \in Contexts : m.next[x] = IF x = prev THEN nxt ELSE IF x = c THEN NULL
           ELSE l.next[x]
  <2>1. m.next = Store([l.next EXCEPT ![c] = NULL], prev, nxt)
    BY <1>6
  <2> QED BY <2>1, <1>1, <1>5, <1>7, NullIsNoContext DEF Store, Pointers
<1>9. /\ m.previous \in [Contexts -> Pointers]
      /\ \A x \in Contexts : m.previous[x] = IF x = nxt THEN prev ELSE IF x = c THEN NULL
           ELSE l.previous[x]
  <2>1. m.previous = Store([l.previous EXCEPT ![c] = NULL], nxt, prev)
    BY <1>6
  <2> QED BY <2>1, <1>1, <1>5, <1>7, NullIsNoContext DEF Store, Pointers
<1>10. /\ m.timeout_left_ms \in [Contexts -> Nat]
       /\ \A x \in Contexts : m.timeout_left_ms[x] =
             IF x = nxt THEN l.timeout_left_ms[x] + l.timeout_left_ms[c]
                 ELSE l.timeout_left_ms[x]
  BY <1>1, <1>5, <1>6, <1>7, NullIsNoContext DEF Pointers
<1>11. m.head = IF k = 1 THEN nxt ELSE q[1]
  <2>1. 1 \in 1..n /\ l.head = q[1]
    BY <1>1, SortedFacts
  <2>2. l.head = c <=> k = 1
    BY <1>4, <2>1
  <2> QED BY <1>6, <2>1, <2>2
<1>12. m \in Lists
  BY <1>1, <1>5, <1>6, <1>7, <1>8, <1>9, <1>10, <1>11, SortedFacts DEF Lists, Pointers
<1>13. p \in Seq(Contexts) /\ Len(p) = n - 1
  <2>1. n - 1 \in Nat
    BY <1>1
  <2>2. ASSUME NEW i \in 1..n - 1 PROVE (IF i < k THEN q[i] ELSE q[i + 1]) \in Contexts
    <3>1. i \in 1..n /\ i + 1 \in 1..n
      BY <1>1, <2>2
    <3> QED BY <3>1, SortedFacts
  <2> QED BY <2>1, <2>2, IsASeq, LenProperties
<1>14. \A i \in 1..n - 1 : p[i] = IF i < k THEN q[i] ELSE q[i + 1]
  OBVIOUS
<1> HIDE DEF p
<1>15. Once(p)
  <2>1. ASSUME NEW i \in 1..n - 1, NEW j \in 1..n - 1, p[i] = p[j] PROVE i = j
    <3>1. i \in 1..n /\ i + 1 \in 1..n /\ j \in 1..n /\ j + 1 \in 1..n
      BY <1>1, <2>1
    <3>2. \A a, b \in 1..n : q[a] = q[b] => a = b
      BY SortedFacts DEF Once
    <3>3. p[i] = (IF i < k THEN q[i] ELSE q[i + 1])
            /\ p[j] = (IF j < k THEN q[j] ELSE q[j + 1])
      BY <1>14
    <3>4. CASE i < k /\ j < k
      <4>1. q[i] = q[j]
        BY <2>1, <3>3, <3>4
      <4> QED BY <3>1, <3>2, <4>1
    <3>5. CASE i < k /\ ~ (j < k)
      <4>1. q[i] = q[j + 1]
        BY <2>1, <3>3, <3>5
      <4>2. i # j + 1
        BY <1>1, <3>5
      <4> QED BY <3>1, <3>2, <4>1, <4>2
    <3>6. CASE ~ (i < k) /\ j < k
      <4>1. q[i + 1] = q[j]
        BY <2>1, <3>3, <3>6
      <4>2. i + 1 # j
        BY <1>1, <3>6
      <4> QED BY <3>1, <3>2, <4>1, <4>2
    <3>7. CASE ~ (i < k) /\ ~ (j < k)
      <4>1. q[i + 1] = q[j + 1]
        BY <2>1, <3>3, <3>7
      <4>2. i + 1 = j + 1
        BY <3>1, <3>2, <4>1
      <4> QED BY <3>1, <4>2
    <3> QED BY <3>4, <3>5, <3>6, <3>7
  <2> QED BY <1>13, <2>1 DEF Once
<1>16. m.head = IF Len(p) = 0 THEN NULL ELSE p[1]
  <2>1. CASE n = 1
    <3>1. k = 1 /\ k = n /\ Len(p) = 0
      BY <1>1, <1>13, <2>1
    <3> QED BY <1>2, <1>11, <3>1
  <2>2. CASE n # 1
    <3>1. 1 \in 1..n - 1 /\ Len(p) # 0 /\ (k = 1 <=> ~ (1 < k)) /\ (k = 1 => k # n)
            /\ 1 + 1 = k + 1 <=> k = 1
      BY <1>1, <1>13, <2>2
    <3>2. p[1] = IF 1 < k THEN q[1] ELSE q[1 + 1]
      BY <1>14, <3>1
    <3>3. n # 1 /\ 1 \in 1..n - 1 /\ Len(p) # 0
      BY <1>1, <1>13, <2>2
    <3>4. CASE k = 1
      <4>1. p[1] = q[1 + 1] /\ k # n /\ k + 1 = 1 + 1
        BY <1>1, <1>14, <3>3, <3>4
      <4> QED BY <1>2, <1>11, <3>3, <3>4, <4>1
    <3>5. CASE k # 1
      <4>1. 1 < k
        BY <1>1, <3>5
      <4> QED BY <1>14, <1>11, <3>3, <3>5, <4>1
    <3> QED BY <3>4, <3>5
  <2> QED BY <2>1, <2>2
<1>17. \A i \in 1..Len(p) : m.next[p[i]] = IF i = Len(p) THEN NULL ELSE p[i + 1]
  <2> SUFFICES ASSUME NEW i \in 1..n - 1
               PROVE  m.next[p[i]] = IF i = n - 1 THEN NULL ELSE p[i + 1]
    BY <1>13
  <2>1. i \in 1..n /\ i + 1 \in 1..n /\ i \in Int /\ k \in Int /\ n \in Int
    BY <1>1
  <2>2. CASE i + 1 < k
    <3>1. i < k /\ i + 1 # k /\ i # k - 1 /\ i # k /\ i + 1 \in 1..n - 1 /\ i # n - 1
            /\ i # n
      BY <1>1, <2>1, <2>2
    <3>2. p[i] = q[i] /\ p[i + 1] = q[i + 1]
      BY <1>14, <2>2, <3>1
    <3>3. m.next[q[i]] = l.next[q[i]] /\ l.next[q[i]] = q[i + 1]
      BY <1>4, <1>8, <2>1, <3>1, SortedFacts
    <3> QED BY <3>1, <3>2, <3>3
  <2>3. CASE i + 1 = k
    <3>1. i < k /\ i = k - 1 /\ (i = n - 1 <=> k = n)
      BY <1>1, <2>1, <2>3
    <3>2. p[i] = q[i] /\ q[i] = prev
      BY <1>14, <1>4, <2>1, <3>1
    <3>3. m.next[q[i]] = nxt
      BY <1>8, <2>1, <3>2, SortedFacts
    <3>4. i # n - 1 => p[i + 1] = q[k + 1]
      <4>1. ASSUME i # n - 1 PROVE i + 1 \in 1..n - 1 /\ ~ (i + 1 < k) /\ i + 1 + 1 = k + 1
        BY <1>1, <2>1, <2>3, <4>1
      <4> QED BY <1>14, <4>1
    <3> QED BY <1>2, <3>1, <3>2, <3>3, <3>4
  <2>4. CASE ~ (i < k)
    <3>1. i + 1 # k - 1 /\ i + 1 # k /\ (i = n - 1 <=> i + 1 = n)
      BY <1>1, <2>1, <2>4
    <3>2. p[i] = q[i + 1]
      BY <1>14, <2>4
    <3>3. m.next[q[i + 1]] = l.next[q[i + 1]]
      BY <1>4, <1>8, <2>1, <3>1, SortedFacts
    <3>4. l.next[q[i + 1]] = IF i + 1 = n THEN NULL ELSE q[i + 1 + 1]
      BY <2>1, SortedFacts
    <3>5. i # n - 1 => p[i + 1] = q[i + 1 + 1]
      <4>1. ASSUME i # n - 1 PROVE i + 1 \in 1..n - 1 /\ ~ (i + 1 < k)
        BY <1>1, <2>1, <2>4, <4>1
      <4> QED BY <1>14, <4>1
    <3> QED BY <3>1, <3>2, <3>3, <3>4, <3>5
  <2>5. i + 1 < k \/ i + 1 = k \/ ~ (i < k)
    BY <2>1
  <2> QED BY <2>2, <2>3, <2>4, <2>5
<1>18. \A i \in 1..Len(p) : m.previous[p[i]] = IF i = 1 THEN NULL ELSE p[i - 1]
  <2> SUFFICES ASSUME NEW i \in 1..n - 1
               PROVE  m.previous[p[i]] = IF i = 1 THEN NULL ELSE p[i - 1]
    BY <1>13
  <2>1. i \in 1..n /\ i + 1 \in 1..n /\ i \in Int /\ k \in Int /\ n \in Int
          /\ (i # 1 => i - 1 \in 1..n - 1)
    BY <1>1
  <2>2. CASE i < k
    <3>1. i # k + 1 /\ i # k /\ (i # 1 => i - 1 < k)
      BY <2>1, <2>2
    <3>2. p[i] = q[i] /\ (i # 1 => p[i - 1] = q[i - 1])
      BY <1>14, <2>1, <2>2, <3>1
    <3>3. m.previous[q[i]] = l.previous[q[i]] /\ l.previous[q[i]] = IF i = 1 THEN NULL
            ELSE q[i - 1]
      BY <1>4, <1>9, <2>1, <3>1, SortedFacts
    <3> QED BY <3>2, <3>3
  <2>3. CASE i = k
    <3>1. p[i] = q[i + 1] /\ q[i + 1] = nxt
      BY <1>14, <1>4, <2>1, <2>3
    <3>2. m.previous[q[i + 1]] = prev
      BY <1>9, <2>1, <3>1, SortedFacts
    <3>3. i # 1 => p[i - 1] = q[i - 1]
      <4>1. i - 1 < k
        BY <2>1, <2>3
      <4> QED BY <1>14, <2>1, <4>1
    <3> QED BY <1>3, <2>3, <3>1, <3>2, <3>3
  <2>4. CASE i > k
    <3>1. i + 1 # k + 1 /\ i + 1 # k /\ i + 1 # 1 /\ i # 1 /\ ~ (i < k) /\ ~ (i - 1 < k)
            /\ i - 1 + 1 = i /\ i + 1 - 1 = i
      BY <1>1, <2>1, <2>4
    <3>2. p[i] = q[i + 1] /\ p[i - 1] = q[i]
      BY <1>14, <2>1, <3>1
    <3>3. m.previous[q[i + 1]] = l.previous[q[i + 1]]
      BY <1>4, <1>9, <2>1, <3>1, SortedFacts
    <3>4. l.previous[q[i + 1]] = q[i]
      BY <2>1, <3>1, SortedFacts
    <3> QED BY <3>1, <3>2, <3>3, <3>4
  <2>5. i < k \/ i = k \/ i > k
    BY <2>1
  <2> QED BY <2>2, <2>3, <2>4, <2>5
<1>19. \A x \in Contexts : ~ In(p, x) => m.next[x] = NULL /\ m.previous[x] = NULL
  <2> SUFFICES ASSUME NEW x \in Contexts, ~ In(p, x)
               PROVE  m.next[x] = NULL /\ m.previous[x] = NULL
    OBVIOUS
  <2>1. ASSUME NEW i \in 1..n, i # k PROVE q[i] # x
    <3>1. CASE i < k
      <4>1. i \in 1..n - 1 /\ p[i] = q[i]
        BY <1>1, <1>14, <3>1
      <4> QED BY <1>13, <4>1 DEF In
    <3>2. CASE i > k
      <4>1. i - 1 \in 1..n - 1 /\ ~ (i - 1 < k) /\ i - 1 + 1 = i
        BY <1>1, <3>2
      <4>2. p[i - 1] = q[i]
        BY <1>14, <4>1
      <4> QED BY <1>13, <4>1, <4>2 DEF In
    <3> QED BY <1>1, <2>1, <3>1, <3>2
  <2>2. x # prev
    <3>1. CASE k = 1
      BY <1>3, <3>1, NullIsNoContext
    <3>2. CASE k # 1
      <4>1. k - 1 \in 1..n /\ k - 1 # k
        BY <1>1, <3>2
      <4> QED BY <1>3, <2>1, <3>2, <4>1
    <3> QED BY <3>1, <3>2
  <2>3. x # nxt
    <3>1. CASE k = n
      BY <1>2, <3>1, NullIsNoContext
    <3>2. CASE k # n
      <4>1. k + 1 \in 1..n /\ k + 1 # k
        BY <1>1, <3>2
      <4> QED BY <1>2, <2>1, <3>2, <4>1
    <3> QED BY <3>1, <3>2
  <2>4. CASE x = c
    BY <1>8, <1>9, <2>2, <2>3, <2>4
  <2>5. CASE x # c
    <3>1. ~ In(q, x)
      BY <2>1, <2>5 DEF In
    <3>2. l.next[x] = NULL /\ l.previous[x] = NULL
      BY <3>1, SortedFacts
    <3> QED BY <1>8, <1>9, <2>2, <2>3, <2>5, <3>2
  <2> QED BY <2>4, <2>5
<1>20. Sorted(m, p)
  BY <1>13, <1>12, <1>15, <1>16, <1>17, <1>18, <1>19, SortedFrom
<1>21. \A i \in 0..n - 1 : Due(m, p, i) = IF i < k THEN Due(l, q, i) ELSE Due(l, q, i + 1)
  <2> DEFINE d == [i \in 0..n - 1 |-> IF i < k THEN Due(l, q, i) ELSE Due(l, q, i + 1)]
  <2>1. /\ Due(l, q, 0) = 0
        /\ \A i \in 0..n : Due(l, q, i) \in Nat
        /\ \A i \in 1..n : Due(l, q, i) = Due(l, q, i - 1) + l.timeout_left_ms[q[i]]
    BY SortedFacts, DueFacts
  <2>2. DOMAIN d = 0..n - 1 /\ \A i \in 0..n - 1 : d[i] = IF i < k THEN Due(l, q, i)
          ELSE Due(l, q, i + 1)
    OBVIOUS
  <2>3. d \in [0..n - 1 -> Nat]
    <3>1. ASSUME NEW i \in 0..n - 1
          PROVE  (IF i < k THEN Due(l, q, i) ELSE Due(l, q, i + 1)) \in Nat
      <4>1. i \in 0..n /\ i + 1 \in 0..n
        BY <1>1
      <4> QED BY <2>1, <4>1
    <3> QED BY <3>1
  <2> HIDE DEF d
  <2>4. d[0] = 0
    <3>1. 0 \in 0..n - 1 /\ 0 < k
      BY <1>1
    <3> QED BY <2>1, <2>2, <3>1
  <2>5. ASSUME NEW i \in 1..n - 1 PROVE d[i] = d[i - 1] + m.timeout_left_ms[p[i]]
    <3>1. i \in 0..n - 1 /\ i - 1 \in 0..n - 1 /\ i \in 1..n /\ i + 1 \in 1..n
            /\ i + 1 - 1 = i /\ i - 1 + 1 = i
          /\ i \in Int /\ k \in Int
      BY <1>1
    <3>2. /\ Due(l, q, i) = Due(l, q, i - 1) + l.timeout_left_ms[q[i]]
          /\ Due(l, q, i + 1) = Due(l, q, i) + l.timeout_left_ms[q[i + 1]]
      BY <2>1, <3>1
    <3>3. q[i] \in Contexts /\ q[i + 1] \in Contexts
      BY <3>1, SortedFacts
    <3>4. CASE i < k
      <4>1. i - 1 < k /\ i # k + 1
        BY <3>1, <3>4
      <4>2. m.timeout_left_ms[q[i]] = l.timeout_left_ms[q[i]]
        BY <1>4, <1>10, <3>1, <3>3, <4>1
      <4>3. p[i] = q[i] /\ d[i] = Due(l, q, i) /\ d[i - 1] = Due(l, q, i - 1)
        BY <1>14, <2>2, <3>1, <3>4, <4>1
      <4> QED BY <3>2, <4>2, <4>3
    <3>5. CASE i = k
      <4>1. i - 1 < k /\ ~ (i < k) /\ i + 1 = k + 1
        BY <3>1, <3>5
      <4>2. m.timeout_left_ms[q[i + 1]]
              = l.timeout_left_ms[q[i + 1]] + l.timeout_left_ms[q[i]]
        BY <1>4, <1>10, <3>1, <3>3, <3>5, <4>1
      <4>3. p[i] = q[i + 1] /\ d[i] = Due(l, q, i + 1) /\ d[i - 1] = Due(l, q, i - 1)
        BY <1>14, <2>2, <3>1, <4>1
      <4>4. Due(l, q, i - 1) \in Nat /\ l.timeout_left_ms[q[i]] \in Nat
              /\ l.timeout_left_ms[q[i + 1]] \in Nat
        <5>1. i - 1 \in 0..n
          BY <3>1
        <5> QED BY <1>7, <2>1, <3>3, <5>1
      <4> QED BY <3>2, <4>2, <4>3, <4>4
    <3>6. CASE i > k
      <4>1. ~ (i - 1 < k) /\ ~ (i < k) /\ i + 1 # k + 1
        BY <3>1, <3>6
      <4>2. m.timeout_left_ms[q[i + 1]] = l.timeout_left_ms[q[i + 1]]
        BY <1>4, <1>10, <3>1, <3>3, <4>1
      <4>3. p[i] = q[i + 1] /\ d[i] = Due(l, q, i + 1) /\ d[i - 1] = Due(l, q, i - 1 + 1)
        BY <1>14, <2>2, <3>1, <4>1
      <4> QED BY <3>1, <3>2, <4>2, <4>3
    <3>7. i < k \/ i = k \/ i > k
      BY <3>1
    <3> QED BY <3>4, <3>5, <3>6, <3>7
  <2>6. \A i \in 0..n - 1 : Due(m, p, i) = d[i]
    <3>1. d \in [0..Len(p) -> Nat] /\ \A i \in 1..Len(p) :
            d[i] = d[i - 1] + m.timeout_left_ms[p[i]]
      BY <1>13, <2>3, <2>5
    <3>2. \A i \in 0..Len(p) : Due(m, p, i) = d[i]
      BY <1>13, <2>4, <3>1, DueFrom
    <3> QED BY <1>13, <3>2
  <2> QED BY <2>2, <2>6
<1> QED
  <2>1. \A i \in 1..Len(p) : i \in 0..n - 1
    BY <1>13
  <2>2. Without(l, q, k, m, p)
    BY <1>13, <1>14, <1>20, <1>21, <2>1 DEF Without
  <2> QED BY <2>2

\* The test of pbpal_remove_timer_safe on the links tells a listed context exactly.
LEMMA SafeTest ==
    ASSUME NEW l, NEW q, Sorted(l, q), NEW c \in Contexts
    PROVE  (l.previous[c] # NULL \/ l.next[c] # NULL \/ c = l.head) <=> In(q, c)
<1>1. ASSUME ~ In(q, c) PROVE l.previous[c] = NULL /\ l.next[c] = NULL /\ c # l.head
  <2>1. l.previous[c] = NULL /\ l.next[c] = NULL
    BY <1>1, SortedFacts
  <2>2. CASE Len(q) = 0
    BY <2>1, <2>2, NullIsNoContext, SortedFacts
  <2>3. CASE Len(q) # 0
    <3>1. 1 \in 1..Len(q) /\ l.head = q[1]
      BY <2>3, SortedFacts
    <3> QED BY <1>1, <2>1, <3>1 DEF In
  <2> QED BY <2>2, <2>3
<1>2. ASSUME In(q, c), l.previous[c] = NULL PROVE c = l.head
  <2>1. PICK i \in 1..Len(q) : q[i] = c
    BY <1>2 DEF In
  <2>2. i = 1
    <3>1. ASSUME i # 1 PROVE i - 1 \in 1..Len(q)
      BY <3>1, SortedFacts
    <3> QED BY <1>2, <2>1, <3>1, SortedFacts
  <2>3. Len(q) # 0
    BY <2>2, SortedFacts
  <2> QED BY <2>1, <2>2, <2>3, SortedFacts
<1> QED BY <1>1, <1>2

\* pbpal_remove_timer_safe takes the context's timer away and leaves the others be.
LEMMA Removed ==
    ASSUME NEW l, NEW q, Sorted(l, q), NEW c \in Contexts
    PROVE  \E p : /\ Sorted(pbpal_remove_timer_safe(l, c), p)
                  /\ ~ In(p, c)
                  /\ Left(pbpal_remove_timer_safe(l, c)) = [Left(l) EXCEPT ![c] = -1]
<1> DEFINE m == pbpal_remove_timer_safe(l, c)
<1>1. /\ \A i \in 1..Len(q) : Left(l)[q[i]] = Due(l, q, i)
      /\ \A x \in Contexts : ~ In(q, x) => Left(l)[x] = -1
      /\ Left(l) = [x \in Contexts |-> Left(l)[x]]
  BY SortedFacts, LeftIs
<1>2. CASE ~ In(q, c)
  <2>1. m = l
    BY <1>2, SafeTest DEF pbpal_remove_timer_safe
  <2>2. Left(l)[c] = -1
    BY <1>1, <1>2
  <2>3. Left(l) = [Left(l) EXCEPT ![c] = -1]
    BY <1>1, <2>2
  <2> QED BY <1>2, <2>1, <2>3
<1>3. CASE In(q, c)
  <2>1. m = pubnub_timer_list_remove(l, c)
    BY <1>3, SafeTest DEF pbpal_remove_timer_safe
  <2>2. PICK k \in 1..Len(q) : q[k] = c
    BY <1>3 DEF In
  <2> HIDE DEF m
  <2>3. m = pubnub_timer_list_remove(l, q[k])
    BY <2>1, <2>2
  <2>4. PICK p : Without(l, q, k, m, p)
    BY <2>3, Taking
  <2>5. /\ Sorted(m, p)
        /\ Len(p) = Len(q) - 1
        /\ \A i \in 1..Len(p) : p[i] = IF i < k THEN q[i] ELSE q[i + 1]
        /\ \A i \in 1..Len(p) : Due(m, p, i) = IF i < k THEN Due(l, q, i)
             ELSE Due(l, q, i + 1)
    BY <2>4 DEF Without
  <2>6. /\ \A i \in 1..Len(p) : Left(m)[p[i]] = Due(m, p, i)
        /\ \A x \in Contexts : ~ In(p, x) => Left(m)[x] = -1
        /\ Left(m) = [x \in Contexts |-> Left(m)[x]]
    BY <2>5, SortedFacts, LeftIs
  <2>7. Len(q) \in Nat /\ k \in Nat /\ \A i, j \in 1..Len(q) : q[i] = q[j] => i = j
    BY SortedFacts DEF Once
  <2>8. ASSUME NEW i \in 1..Len(p) PROVE /\ p[i] # c
                                         /\ In(q, p[i])
                                         /\ Left(m)[p[i]] = Left(l)[p[i]]
    <3>1. i \in 1..Len(q) /\ i + 1 \in 1..Len(q)
      BY <2>5, <2>7
    <3>2. CASE i < k
      <4>1. p[i] = q[i] /\ Due(m, p, i) = Due(l, q, i)
        BY <2>5, <3>2
      <4>2. i # k
        BY <2>7, <3>2
      <4> QED BY <1>1, <2>2, <2>6, <2>7, <3>1, <4>1, <4>2 DEF In
    <3>3. CASE ~ (i < k)
      <4>1. p[i] = q[i + 1] /\ Due(m, p, i) = Due(l, q, i + 1)
        BY <2>5, <3>3
      <4>2. i + 1 # k
        BY <2>7, <3>3
      <4> QED BY <1>1, <2>2, <2>6, <2>7, <3>1, <4>1, <4>2 DEF In
    <3> QED BY <3>2, <3>3
  <2>9. ~ In(p, c)
    BY <2>8 DEF In
  <2>10. ASSUME NEW x \in Contexts, In(q, x), x # c PROVE In(p, x)
    <3>1. PICK i \in 1..Len(q) : q[i] = x
      BY <2>10 DEF In
    <3>2. i # k
      BY <2>2, <2>10, <3>1
    <3>3. CASE i < k
      <4>1. i \in 1..Len(p) /\ p[i] = q[i]
        BY <2>5, <2>7, <3>3
      <4> QED BY <3>1, <4>1 DEF In
    <3>4. CASE ~ (i < k)
      <4>1. i - 1 \in 1..Len(p) /\ ~ (i - 1 < k) /\ i - 1 + 1 = i
        BY <2>5, <2>7, <3>2, <3>4
      <4>2. p[i - 1] = q[i]
        BY <2>5, <4>1
      <4> QED BY <3>1, <4>1, <4>2 DEF In
    <3> QED BY <3>3, <3>4
  <2>11. ASSUME NEW x \in Contexts PROVE Left(m)[x] = IF x = c THEN -1 ELSE Left(l)[x]
    <3>1. CASE x = c
      BY <2>6, <2>9, <3>1
    <3>2. CASE x # c /\ In(q, x)
      <4>1. In(p, x)
        BY <2>10, <3>2
      <4>2. PICK i \in 1..Len(p) : p[i] = x
        BY <4>1 DEF In
      <4> QED BY <2>8, <3>2, <4>2
    <3>3. CASE x # c /\ ~ In(q, x)
      <4>1. ~ In(p, x)
        BY <2>8, <3>3 DEF In
      <4> QED BY <1>1, <2>6, <3>3, <4>1
    <3> QED BY <3>1, <3>2, <3>3
  <2>12. Left(m) = [Left(l) EXCEPT ![c] = -1]
    BY <1>1, <2>6, <2>11
  <2> QED BY <2>5, <2>9, <2>12 DEF m
<1> QED BY <1>2, <1>3

-----------------------------------------------------------------------------
(* pubnub_timer_list_add *)

\* m is l with c, due after ms, put in as node at, and p its nodes.
With(l, q, at, c, ms, m, p) ==
    /\ Sorted(m, p)
    /\ Len(p) = Len(q) + 1
    /\ \A i \in 1..Len(p) :
          p[i] = IF i < at THEN q[i] ELSE IF i = at THEN c ELSE q[i - 1]
    /\ \A i \in 1..Len(p) :
          Due(m, p, i) = IF i < at THEN Due(l, q, i)
                         ELSE IF i = at THEN ms ELSE Due(l, q, i - 1)

\* pubnub_timer_list_add: the others keep their links, their order and the time they
\* are due, the new node is due after ms.
LEMMA Inserting ==
    ASSUME NEW l, NEW q, Sorted(l, q), NEW c \in Contexts, ~ In(q, c), NEW ms \in Nat,
           NEW m, m = pubnub_timer_list_add(l, c, ms)
    PROVE  \E p : \E at \in 1..Len(q) + 1 : With(l, q, at, c, ms, m, p)
<1> DEFINE n == Len(q)
           at == Place(l, ms)
           prev == IF at = 1 THEN NULL ELSE q[at - 1]
           nxt == IF at > n THEN NULL ELSE q[at]
           left == ms - Due(l, q, at - 1)
           p == [i \in 1..n + 1 |-> IF i < at THEN q[i] ELSE IF i = at THEN c ELSE q[i - 1]]
<1>1. n \in Nat /\ c # NULL /\ Nodes(l) = q
  BY SortedFacts, NodesOf, NullIsNoContext DEF Nodes, Rooted
<1>2. at \in 1..n + 1 /\ Due(l, q, at - 1) <= ms /\ (at <= n => ms < Due(l, q, at))
  BY SortedFacts, PlaceIs
<1>3. /\ Due(l, q, 0) = 0
      /\ \A i \in 0..n : Due(l, q, i) \in Nat
      /\ \A i \in 1..n : Due(l, q, i) = Due(l, q, i - 1) + l.timeout_left_ms[q[i]]
  BY SortedFacts, DueFacts
<1>4. /\ m.head = IF at = 1 THEN c ELSE l.head
      /\ m.next = Store([l.next EXCEPT ![c] = nxt], prev, c)
      /\ m.previous = Store([l.previous EXCEPT ![c] = prev], nxt, c)
      /\ m.timeout_left_ms = [d \in Contexts |-> CASE d = c   -> left
                                                   [] d = nxt -> l.timeout_left_ms[d] - left
                                                   [] OTHER   -> l.timeout_left_ms[d]]
      /\ m = [head |-> m.head, next |-> m.next, previous |-> m.previous,
              timeout_left_ms |-> m.timeout_left_ms]
  BY <1>1 DEF pubnub_timer_list_add, LinkAt
<1> HIDE DEF at
<1>5. /\ l.head \in Pointers /\ l.next \in [Contexts -> Pointers]
           /\ l.previous \in [Contexts -> Pointers]
      /\ l.timeout_left_ms \in [Contexts -> Nat]
  BY SortedFacts DEF Lists
<1>6. /\ \A i \in 1..n : q[i] = prev <=> i = at - 1
      /\ \A i \in 1..n : q[i] = nxt <=> i = at
      /\ \A i \in 1..n : q[i] # c
      /\ prev # c /\ nxt # c
  <2>1. \A i, j \in 1..n : q[i] = q[j] => i = j
    BY SortedFacts DEF Once
  <2>2. \A i \in 1..n : q[i] # c /\ q[i] # NULL
    BY SortedFacts DEF In
  <2>3. at # 1 => at - 1 \in 1..n
    BY <1>1, <1>2
  <2>4. ~ (at > n) => at \in 1..n
    BY <1>1, <1>2
  <2>5. ASSUME NEW i \in 1..n PROVE q[i] = prev <=> i = at - 1
    <3>1. CASE at = 1
      BY <1>1, <2>2, <3>1
    <3>2. CASE at # 1
      BY <2>1, <2>3, <3>2
    <3> QED BY <3>1, <3>2
  <2>6. ASSUME NEW i \in 1..n PROVE q[i] = nxt <=> i = at
    <3>1. CASE at > n
      BY <1>1, <1>2, <2>2, <3>1
    <3>2. CASE ~ (at > n)
      BY <2>1, <2>4, <3>2
    <3> QED BY <3>1, <3>2
  <2>7. prev # c /\ nxt # c
    BY <1>1, <2>2, <2>3, <2>4
  <2> QED BY <2>2, <2>5, <2>6, <2>7
<1>7. prev \in Pointers /\ nxt \in Pointers
  <2>1. at # 1 => at - 1 \in 1..n
    BY <1>1, <1>2
  <2>2. ~ (at > n) => at \in 1..n
    BY <1>1, <1>2
  <2> QED BY <2>1, <2>2, SortedFacts DEF Pointers
<1>8. left \in Nat /\ \A x \in Contexts : x = nxt => l.timeout_left_ms[x] - left \in Nat
  <2>1. at - 1 \in 0..n
    BY <1>1, <1>2
  <2>2. left \in Nat
    BY <1>2, <1>3, <2>1
  <2>3. ASSUME NEW x \in Contexts, x = nxt PROVE l.timeout_left_ms[x] - left \in Nat
    <3>1. at \in 1..n /\ x = q[at]
      BY <1>1, <1>2, <2>3, NullIsNoContext
    <3>2. /\ ms < Due(l, q, at) /\ Due(l, q, at) = Due(l, q, at - 1) + l.timeout_left_ms[x]
          /\ Due(l, q, at - 1) \in Nat /\ l.timeout_left_ms[x] \in Nat
      BY <1>2, <1>3, <1>5, <2>1, <3>1
    <3> QED BY <3>2
  <2> QED BY <2>2, <2>3
<1>9. /\ m.next \in [Contexts -> Pointers]
      /\ \A x \in Contexts : m.next[x] = IF x = prev THEN c ELSE IF x = c THEN nxt
           ELSE l.next[x]
  <2> HIDE DEF prev, nxt
  <2>1. m.next = Store([l.next EXCEPT ![c] = nxt], prev, c)
    BY <1>4
  <2> QED BY <2>1, <1>1, <1>5, <1>6, <1>7, NullIsNoContext DEF Store, Pointers
<1>10. /\ m.previous \in [Contexts -> Pointers]
       /\ \A x \in Contexts : m.previous[x] = IF x = nxt THEN c ELSE IF x = c THEN prev
            ELSE l.previous[x]
  <2> HIDE DEF prev, nxt
  <2>1. m.previous = Store([l.previous EXCEPT ![c] = prev], nxt, c)
    BY <1>4
  <2> QED BY <2>1, <1>1, <1>5, <1>6, <1>7, NullIsNoContext DEF Store, Pointers
<1>11. /\ m.timeout_left_ms \in [Contexts -> Nat]
       /\ \A x \in Contexts : m.timeout_left_ms[x] =
             IF x = c THEN left ELSE IF x = nxt THEN l.timeout_left_ms[x] - left
             ELSE l.timeout_left_ms[x]
  <2> HIDE DEF prev, nxt, left
  <2>1. \A x \in Contexts : m.timeout_left_ms[x] =
             IF x = c THEN left ELSE IF x = nxt THEN l.timeout_left_ms[x] - left
             ELSE l.timeout_left_ms[x]
    <3>1. m.timeout_left_ms = [d \in Contexts |-> CASE d = c   -> left
                                                    [] d = nxt -> l.timeout_left_ms[d] - left
                                                    [] OTHER   -> l.timeout_left_ms[d]]
      BY <1>4
    <3> QED BY <1>6, <3>1
  <2>2. \A x \in Contexts : m.timeout_left_ms[x] \in Nat
    BY <1>5, <1>8, <2>1
  <2>3. m.timeout_left_ms = [x \in Contexts |-> m.timeout_left_ms[x]]
    BY <1>4
  <2> QED BY <2>1, <2>2, <2>3
<1>12. m \in Lists
  <2>1. m.head \in Pointers
    BY <1>4, <1>5 DEF Pointers
  <2> QED BY <1>4, <1>9, <1>10, <1>11, <2>1 DEF Lists
<1> HIDE DEF prev, nxt, left
<1>13. p \in Seq(Contexts) /\ Len(p) = n + 1
  <2>1. n + 1 \in Nat
    BY <1>1
  <2>2. ASSUME NEW i \in 1..n + 1
        PROVE  (IF i < at THEN q[i] ELSE IF i = at THEN c ELSE q[i - 1]) \in Contexts
    <3>1. CASE i < at
      <4>1. i \in 1..n
        BY <1>1, <1>2, <3>1
      <4> QED BY <3>1, <4>1, SortedFacts
    <3>2. CASE i = at
      BY <1>2, <3>2
    <3>3. CASE i > at
      <4>1. i - 1 \in 1..n /\ ~ (i < at) /\ i # at
        BY <1>1, <1>2, <3>3
      <4> QED BY <4>1, SortedFacts
    <3> QED BY <1>2, <3>1, <3>2, <3>3
  <2> QED BY <2>1, <2>2, IsASeq, LenProperties
<1>14. \A i \in 1..n + 1 : p[i] = IF i < at THEN q[i] ELSE IF i = at THEN c ELSE q[i - 1]
  OBVIOUS
<1> HIDE DEF p
<1>15. /\ \A i \in 1..n : i < at => i \in 1..n + 1 /\ p[i] = q[i]
       /\ at \in 1..n + 1 /\ p[at] = c
       /\ \A i \in 1..n : ~ (i < at) => i + 1 \in 1..n + 1 /\ p[i + 1] = q[i]
  <2>1. ASSUME NEW i \in 1..n, i < at PROVE i \in 1..n + 1 /\ p[i] = q[i]
    BY <1>1, <1>14, <2>1
  <2>2. at \in 1..n + 1 /\ p[at] = c
    <3>1. ~ (at < at)
      BY <1>2
    <3> QED BY <1>2, <1>14, <3>1
  <2>3. ASSUME NEW i \in 1..n, ~ (i < at) PROVE i + 1 \in 1..n + 1 /\ p[i + 1] = q[i]
    <3>1. i + 1 \in 1..n + 1 /\ ~ (i + 1 < at) /\ i + 1 # at /\ i + 1 - 1 = i
      BY <1>1, <1>2, <2>3
    <3> QED BY <1>14, <3>1
  <2> QED BY <2>1, <2>2, <2>3
<1>16. Once(p)
  <2>1. ASSUME NEW i \in 1..n + 1, NEW j \in 1..n + 1, p[i] = p[j], i < j PROVE FALSE
    <3>1. i \in Int /\ j \in Int /\ at \in Int
      BY <1>1, <1>2
    <3>2. /\ i < at => i \in 1..n /\ p[i] = q[i]
          /\ i > at => i - 1 \in 1..n /\ p[i] = q[i - 1]
          /\ j < at => j \in 1..n /\ p[j] = q[j]
          /\ j > at => j - 1 \in 1..n /\ p[j] = q[j - 1]
      <4>1. ASSUME NEW a \in 1..n + 1, a < at PROVE a \in 1..n /\ p[a] = q[a]
        BY <1>1, <1>2, <1>14, <4>1
      <4>2. ASSUME NEW a \in 1..n + 1, a > at PROVE a - 1 \in 1..n /\ p[a] = q[a - 1]
        <5>1. a - 1 \in 1..n /\ ~ (a < at) /\ a # at
          BY <1>1, <1>2, <4>2
        <5> QED BY <1>14, <5>1
      <4> QED BY <4>1, <4>2
    <3>3. \A a, b \in 1..n : q[a] = q[b] => a = b
      BY SortedFacts DEF Once
    <3>4. CASE j < at
      <4>1. i < at
        BY <2>1, <3>1, <3>4
      <4>2. q[i] = q[j]
        BY <2>1, <3>2, <3>4, <4>1
      <4>3. i = j
        BY <3>2, <3>3, <3>4, <4>1, <4>2
      <4> QED BY <2>1, <3>1, <4>3
    <3>5. CASE j = at
      <4>1. i < at
        BY <2>1, <3>1, <3>5
      <4> QED BY <1>6, <1>15, <2>1, <3>2, <3>5, <4>1
    <3>6. CASE j > at /\ i < at
      <4>1. q[i] = q[j - 1]
        BY <2>1, <3>2, <3>6
      <4>2. i = j - 1
        BY <3>2, <3>3, <3>6, <4>1
      <4> QED BY <3>1, <3>6, <4>2
    <3>7. CASE j > at /\ i = at
      BY <1>6, <1>15, <2>1, <3>2, <3>7
    <3>8. CASE j > at /\ i > at
      <4>1. q[i - 1] = q[j - 1]
        BY <2>1, <3>2, <3>8
      <4>2. i - 1 = j - 1
        BY <3>2, <3>3, <3>8, <4>1
      <4> QED BY <2>1, <3>1, <4>2
    <3> QED BY <3>1, <3>4, <3>5, <3>6, <3>7, <3>8
  <2>2. ASSUME NEW i \in 1..n + 1, NEW j \in 1..n + 1, p[i] = p[j] PROVE i = j
    <3>1. ~ (i < j)
      BY <2>1, <2>2
    <3>2. ~ (j < i)
      BY <2>1, <2>2
    <3> QED BY <1>1, <3>1, <3>2
  <2> QED BY <1>13, <2>2 DEF Once
<1>17. m.head = IF Len(p) = 0 THEN NULL ELSE p[1]
  <2>1. Len(p) # 0 /\ 1 \in 1..n + 1
    BY <1>1, <1>13
  <2>2. CASE at = 1
    BY <1>4, <1>15, <2>1, <2>2
  <2>3. CASE at # 1
    <3>1. 1 < at /\ n # 0
      BY <1>1, <1>2, <2>3
    <3>2. l.head = q[1]
      BY <3>1, SortedFacts
    <3> QED BY <1>4, <1>14, <2>1, <2>3, <3>1, <3>2
  <2> QED BY <2>2, <2>3
<1>18. \A i \in 1..Len(p) : m.next[p[i]] = IF i = Len(p) THEN NULL ELSE p[i + 1]
  <2> SUFFICES ASSUME NEW i \in 1..n + 1
               PROVE  m.next[p[i]] = IF i = n + 1 THEN NULL ELSE p[i + 1]
    BY <1>13
  <2>1. i \in Int /\ at \in Int /\ n \in Int
    BY <1>1, <1>2
  <2>2. CASE i + 1 < at
    <3>1. i < at /\ i \in 1..n /\ i + 1 \in 1..n /\ i # at - 1 /\ i # n + 1 /\ i # n
      BY <1>1, <1>2, <2>1, <2>2
    <3>2. p[i] = q[i] /\ p[i + 1] = q[i + 1]
      BY <1>15, <2>2, <3>1
    <3>3. m.next[q[i]] = l.next[q[i]] /\ l.next[q[i]] = q[i + 1]
      BY <1>6, <1>9, <3>1, SortedFacts
    <3> QED BY <3>1, <3>2, <3>3
  <2>3. CASE i + 1 = at
    <3>1. i < at /\ i \in 1..n /\ i = at - 1 /\ i # n + 1
      BY <1>1, <1>2, <2>1, <2>3
    <3>2. p[i] = q[i] /\ q[i] = prev /\ p[i + 1] = c
      BY <1>6, <1>15, <2>3, <3>1
    <3>3. m.next[q[i]] = c
      BY <1>9, <3>1, <3>2, SortedFacts
    <3> QED BY <3>1, <3>2, <3>3
  <2>4. CASE i = at
    <3>1. p[i] = c /\ m.next[c] = nxt
      BY <1>6, <1>9, <1>15, <2>4
    <3>2. nxt = IF at = n + 1 THEN NULL ELSE p[at + 1]
      <4>1. CASE at > n
        <5>1. at = n + 1
          BY <1>1, <1>2, <4>1
        <5> QED BY <4>1, <5>1 DEF nxt
      <4>2. CASE ~ (at > n)
        <5>1. at \in 1..n /\ ~ (at < at) /\ at # n + 1
          BY <1>1, <1>2, <4>2
        <5>2. p[at + 1] = q[at]
          BY <1>15, <5>1
        <5> QED BY <4>2, <5>1, <5>2 DEF nxt
      <4> QED BY <4>1, <4>2
    <3> QED BY <2>4, <3>1, <3>2
  <2>5. CASE i > at
    <3>1. i - 1 \in 1..n /\ ~ (i - 1 < at) /\ i - 1 + 1 = i /\ i - 1 # at - 1
            /\ (i - 1 = n <=> i = n + 1)
          /\ (i # n + 1 => i \in 1..n /\ ~ (i < at))
      BY <1>1, <1>2, <2>1, <2>5
    <3>2. p[i] = q[i - 1]
      BY <1>15, <3>1
    <3>3. m.next[q[i - 1]] = l.next[q[i - 1]]
      BY <1>6, <1>9, <3>1, SortedFacts
    <3>4. l.next[q[i - 1]] = IF i - 1 = n THEN NULL ELSE q[i]
      BY <3>1, SortedFacts
    <3>5. i # n + 1 => p[i + 1] = q[i]
      BY <1>15, <3>1
    <3> QED BY <3>1, <3>2, <3>3, <3>4, <3>5
  <2>6. i + 1 < at \/ i + 1 = at \/ i = at \/ i > at
    BY <2>1
  <2> QED BY <2>2, <2>3, <2>4, <2>5, <2>6
<1>19. \A i \in 1..Len(p) : m.previous[p[i]] = IF i = 1 THEN NULL ELSE p[i - 1]
  <2> SUFFICES ASSUME NEW i \in 1..n + 1
               PROVE  m.previous[p[i]] = IF i = 1 THEN NULL ELSE p[i - 1]
    BY <1>13
  <2>1. i \in Int /\ at \in Int /\ n \in Int
    BY <1>1, <1>2
  <2>2. CASE i < at
    <3>1. i \in 1..n /\ i # at /\ (i # 1 => i - 1 \in 1..n /\ i - 1 < at)
      BY <1>1, <1>2, <2>1, <2>2
    <3>2. p[i] = q[i] /\ (i # 1 => p[i - 1] = q[i - 1])
      BY <1>15, <2>2, <3>1
    <3>3. m.previous[q[i]] = l.previous[q[i]] /\ l.previous[q[i]] = IF i = 1 THEN NULL
            ELSE q[i - 1]
      BY <1>6, <1>10, <3>1, SortedFacts
    <3> QED BY <3>2, <3>3
  <2>3. CASE i = at
    <3>1. p[i] = c /\ m.previous[c] = prev
      BY <1>6, <1>10, <1>15, <2>3
    <3>2. prev = IF i = 1 THEN NULL ELSE p[i - 1]
      <4>1. i # 1 => i - 1 \in 1..n /\ i - 1 < at
        BY <1>1, <1>2, <2>1, <2>3
      <4>2. i # 1 => p[i - 1] = q[i - 1]
        BY <1>15, <4>1
      <4> QED BY <2>3, <4>2 DEF prev
    <3> QED BY <3>1, <3>2
  <2>4. CASE i = at + 1
    <3>1. at \in 1..n /\ ~ (at < at) /\ i # 1 /\ i - 1 = at
      BY <1>1, <1>2, <2>1, <2>4
    <3>2. p[at + 1] = q[at] /\ q[at] = nxt /\ p[at] = c
      BY <1>6, <1>15, <3>1
    <3>3. m.previous[q[at]] = c
      BY <1>10, <3>1, <3>2, SortedFacts
    <3> QED BY <2>4, <3>1, <3>2, <3>3
  <2>5. CASE i > at + 1
    <3>1. i - 1 \in 1..n /\ ~ (i - 1 < at) /\ i - 1 + 1 = i /\ i - 1 # at /\ i - 1 # 1
            /\ i # 1
          /\ i - 1 - 1 \in 1..n /\ ~ (i - 1 - 1 < at) /\ i - 1 - 1 + 1 = i - 1
      BY <1>1, <1>2, <2>1, <2>5
    <3>2. p[i] = q[i - 1] /\ p[i - 1] = q[i - 1 - 1]
      BY <1>15, <3>1
    <3>3. m.previous[q[i - 1]] = l.previous[q[i - 1]] /\ l.previous[q[i - 1]] = q[i - 1 - 1]
      BY <1>6, <1>10, <3>1, SortedFacts
    <3> QED BY <3>1, <3>2, <3>3
  <2>6. i < at \/ i = at \/ i = at + 1 \/ i > at + 1
    BY <2>1
  <2> QED BY <2>2, <2>3, <2>4, <2>5, <2>6
<1>20. \A x \in Contexts : ~ In(p, x) => m.next[x] = NULL /\ m.previous[x] = NULL
  <2> SUFFICES ASSUME NEW x \in Contexts, ~ In(p, x)
               PROVE  m.next[x] = NULL /\ m.previous[x] = NULL
    OBVIOUS
  <2>1. ASSUME NEW i \in 1..n PROVE q[i] # x
    <3>1. CASE i < at
      BY <1>13, <1>15, <3>1 DEF In
    <3>2. CASE ~ (i < at)
      BY <1>13, <1>15, <3>2 DEF In
    <3> QED BY <3>1, <3>2
  <2>2. x # c
    BY <1>13, <1>15 DEF In
  <2>3. x # prev /\ x # nxt
    <3>1. at # 1 => at - 1 \in 1..n
      BY <1>1, <1>2
    <3>2. ~ (at > n) => at \in 1..n
      BY <1>1, <1>2
    <3> QED BY <2>1, <3>1, <3>2, NullIsNoContext DEF prev, nxt
  <2>4. l.next[x] = NULL /\ l.previous[x] = NULL
    BY <2>1, SortedFacts DEF In
  <2> QED BY <1>9, <1>10, <2>2, <2>3, <2>4
<1>21. Sorted(m, p)
  BY <1>12, <1>13, <1>16, <1>17, <1>18, <1>19, <1>20, SortedFrom
<1>22. \A i \in 0..n + 1 : Due(m, p, i) = IF i < at THEN Due(l, q, i)
         ELSE IF i = at THEN ms ELSE Due(l, q, i - 1)
  <2> DEFINE d == [i \in 0..n + 1 |-> IF i < at THEN Due(l, q, i) ELSE IF i = at THEN ms
        ELSE Due(l, q, i - 1)]
  <2>1. DOMAIN d = 0..n + 1 /\ \A i \in 0..n + 1 : d[i] = IF i < at THEN Due(l, q, i)
          ELSE IF i = at THEN ms ELSE Due(l, q, i - 1)
    OBVIOUS
  <2>2. d \in [0..n + 1 -> Nat]
    <3>1. ASSUME NEW i \in 0..n + 1
          PROVE  (IF i < at THEN Due(l, q, i) ELSE IF i = at THEN ms
                   ELSE Due(l, q, i - 1)) \in Nat
      <4>1. CASE i < at
        <5>1. i \in 0..n
          BY <1>1, <1>2, <4>1
        <5> QED BY <1>3, <4>1, <5>1
      <4>2. CASE i = at
        BY <1>2, <4>2
      <4>3. CASE i > at
        <5>1. i - 1 \in 0..n /\ ~ (i < at) /\ i # at
          BY <1>1, <1>2, <4>3
        <5> QED BY <1>3, <5>1
      <4> QED BY <1>2, <4>1, <4>2, <4>3
    <3> QED BY <3>1
  <2> HIDE DEF d
  <2>3. d[0] = 0
    <3>1. 0 \in 0..n + 1 /\ 0 < at
      BY <1>1, <1>2
    <3> QED BY <1>3, <2>1, <3>1
  <2>4. ASSUME NEW i \in 1..n + 1 PROVE d[i] = d[i - 1] + m.timeout_left_ms[p[i]]
    <3>1. i \in 0..n + 1 /\ i - 1 \in 0..n + 1 /\ i \in Int /\ at \in Int /\ i - 1 + 1 = i
            /\ at - 1 \in 0..n
      BY <1>1, <1>2
    <3>2. CASE i < at
      <4>1. i \in 1..n /\ i - 1 < at /\ i # at
        BY <1>1, <1>2, <3>1, <3>2
      <4>2. p[i] = q[i] /\ d[i] = Due(l, q, i) /\ d[i - 1] = Due(l, q, i - 1)
        BY <1>15, <2>1, <3>1, <3>2, <4>1
      <4>3. m.timeout_left_ms[q[i]] = l.timeout_left_ms[q[i]]
        BY <1>6, <1>11, <4>1, SortedFacts
      <4> QED BY <1>3, <4>1, <4>2, <4>3
    <3>3. CASE i = at
      <4>1. i - 1 < at /\ ~ (i < at)
        BY <3>1, <3>3
      <4>2. p[i] = c /\ d[i] = ms /\ d[i - 1] = Due(l, q, at - 1)
        BY <1>15, <2>1, <3>1, <3>3, <4>1
      <4>3. m.timeout_left_ms[c] = ms - Due(l, q, at - 1)
        BY <1>11 DEF left
      <4>4. Due(l, q, at - 1) \in Nat
        BY <1>3, <3>1
      <4> QED BY <4>2, <4>3, <4>4
    <3>4. CASE i = at + 1
      <4>1. at \in 1..n /\ ~ (at < at) /\ ~ (i < at) /\ i # at /\ i - 1 = at
              /\ ~ (i - 1 < at)
        BY <1>1, <1>2, <3>1, <3>4
      <4>2. p[i] = q[at] /\ q[at] = nxt
        BY <1>6, <1>15, <3>4, <4>1
      <4>3. d[i] = Due(l, q, at) /\ d[i - 1] = ms
        BY <2>1, <3>1, <4>1
      <4>4. m.timeout_left_ms[q[at]] = l.timeout_left_ms[q[at]] - left
        BY <1>6, <1>11, <4>1, <4>2, SortedFacts
      <4>5. Due(l, q, at) = Due(l, q, at - 1) + l.timeout_left_ms[q[at]]
        BY <1>3, <4>1
      <4>6. Due(l, q, at - 1) \in Nat /\ l.timeout_left_ms[q[at]] \in Nat
        BY <1>3, <1>5, <3>1, <4>1, SortedFacts
      <4>7. left = ms - Due(l, q, at - 1)
        BY DEF left
      <4>8. Due(l, q, at) = ms + (l.timeout_left_ms[q[at]] - left)
        BY <4>5, <4>6, <4>7
      <4> QED BY <4>2, <4>3, <4>4, <4>8
    <3>5. CASE i > at + 1
      <4>1. i - 1 \in 1..n /\ ~ (i - 1 < at) /\ i - 1 # at /\ ~ (i < at) /\ i # at
        BY <1>1, <1>2, <3>1, <3>5
      <4>2. p[i] = q[i - 1] /\ d[i] = Due(l, q, i - 1) /\ d[i - 1] = Due(l, q, i - 1 - 1)
        BY <1>15, <2>1, <3>1, <4>1
      <4>3. m.timeout_left_ms[q[i - 1]] = l.timeout_left_ms[q[i - 1]]
        BY <1>6, <1>11, <4>1, SortedFacts
      <4>4. Due(l, q, i - 1) = Due(l, q, i - 1 - 1) + l.timeout_left_ms[q[i - 1]]
        BY <1>3, <4>1
      <4> QED BY <4>2, <4>3, <4>4
    <3>6. i < at \/ i = at \/ i = at + 1 \/ i > at + 1
      BY <3>1
    <3> QED BY <3>2, <3>3, <3>4, <3>5, <3>6
  <2>5. \A i \in 0..n + 1 : Due(m, p, i) = d[i]
    <3>1. d \in [0..Len(p) -> Nat] /\ \A i \in 1..Len(p) :
            d[i] = d[i - 1] + m.timeout_left_ms[p[i]]
      BY <1>13, <2>2, <2>4
    <3>2. \A i \in 0..Len(p) : Due(m, p, i) = d[i]
      BY <1>13, <2>3, <3>1, DueFrom
    <3> QED BY <1>13, <3>2
  <2> QED BY <2>1, <2>5
<1> QED
  <2>1. \A i \in 1..Len(p) : i \in 0..n + 1
    BY <1>13
  <2>2. With(l, q, at, c, ms, m, p)
    BY <1>2, <1>13, <1>14, <1>21, <1>22, <2>1 DEF With
  <2> QED BY <1>2, <2>2

\* pubnub_timer_list_add gives the context ms and leaves the others be.
LEMMA Added ==
    ASSUME NEW l, NEW q, Sorted(l, q), NEW c \in Contexts, ~ In(q, c), NEW ms \in Nat,
           NEW m, m = pubnub_timer_list_add(l, c, ms)
    PROVE  \E p : Sorted(m, p) /\ Left(m) = [Left(l) EXCEPT ![c] = ms]
<1>1. /\ \A i \in 1..Len(q) : Left(l)[q[i]] = Due(l, q, i)
      /\ \A x \in Contexts : ~ In(q, x) => Left(l)[x] = -1
      /\ Left(l) = [x \in Contexts |-> Left(l)[x]]
  BY SortedFacts, LeftIs
<1>2. PICK p : \E at \in 1..Len(q) + 1 : With(l, q, at, c, ms, m, p)
  BY Inserting
<1>3. PICK at \in 1..Len(q) + 1 : With(l, q, at, c, ms, m, p)
  BY <1>2
<1>4. /\ Sorted(m, p)
      /\ Len(p) = Len(q) + 1
      /\ \A i \in 1..Len(p) :
            p[i] = IF i < at THEN q[i] ELSE IF i = at THEN c ELSE q[i - 1]
      /\ \A i \in 1..Len(p) :
            Due(m, p, i) = IF i < at THEN Due(l, q, i)
                           ELSE IF i = at THEN ms ELSE Due(l, q, i - 1)
  BY <1>3 DEF With
<1>5. /\ \A i \in 1..Len(p) : Left(m)[p[i]] = Due(m, p, i)
      /\ \A x \in Contexts : ~ In(p, x) => Left(m)[x] = -1
      /\ Left(m) = [x \in Contexts |-> Left(m)[x]]
  <2>1. Sorted(m, p)
    BY <1>4
  <2>2. m \in Lists /\ Rooted(m, p)
    BY <2>1, SortedFacts
  <2> QED BY <2>2, LeftIs
<1>6. Len(q) \in Nat /\ at \in Nat
  BY SortedFacts
<1>7. /\ at \in 1..Len(p) /\ p[at] = c /\ Due(m, p, at) = ms
  <2>1. at \in 1..Len(p) /\ ~ (at < at)
    BY <1>4, <1>6
  <2> QED BY <1>4, <2>1
<1>8. ASSUME NEW i \in 1..Len(q) PROVE Left(m)[q[i]] = Left(l)[q[i]]
  <2>1. CASE i < at
    <3>1. i \in 1..Len(p)
      BY <1>4, <1>6
    <3>2. p[i] = q[i] /\ Due(m, p, i) = Due(l, q, i)
      BY <1>4, <2>1, <3>1
    <3> QED BY <1>1, <1>5, <3>1, <3>2
  <2>2. CASE ~ (i < at)
    <3>1. i + 1 \in 1..Len(p) /\ ~ (i + 1 < at) /\ i + 1 # at /\ i + 1 - 1 = i
      BY <1>4, <1>6, <2>2
    <3>2. p[i + 1] = q[i] /\ Due(m, p, i + 1) = Due(l, q, i)
      BY <1>4, <3>1
    <3> QED BY <1>1, <1>5, <3>1, <3>2
  <2> QED BY <2>1, <2>2
<1>9. ASSUME NEW x \in Contexts, ~ In(q, x), x # c PROVE ~ In(p, x)
  <2>1. ASSUME NEW i \in 1..Len(p), p[i] = x PROVE FALSE
    <3>1. CASE i < at
      <4>1. i \in 1..Len(q) /\ p[i] = q[i]
        BY <1>4, <1>6, <3>1
      <4> QED BY <1>9, <2>1, <4>1 DEF In
    <3>2. CASE i = at
      BY <1>7, <1>9, <2>1, <3>2
    <3>3. CASE ~ (i < at) /\ i # at
      <4>1. i - 1 \in 1..Len(q)
        BY <1>4, <1>6, <3>3
      <4>2. p[i] = q[i - 1]
        BY <1>4, <3>3
      <4> QED BY <1>9, <2>1, <4>1, <4>2 DEF In
    <3> QED BY <3>1, <3>2, <3>3
  <2> QED BY <2>1 DEF In
<1>10. ASSUME NEW x \in Contexts PROVE Left(m)[x] = IF x = c THEN ms ELSE Left(l)[x]
  <2>1. CASE x = c
    BY <1>5, <1>7, <2>1
  <2>2. CASE x # c /\ In(q, x)
    <3>1. PICK i \in 1..Len(q) : q[i] = x
      BY <2>2 DEF In
    <3> QED BY <1>8, <2>2, <3>1
  <2>3. CASE x # c /\ ~ In(q, x)
    BY <1>1, <1>5, <1>9, <2>3
  <2> QED BY <2>1, <2>2, <2>3
<1>11. Left(m) = [Left(l) EXCEPT ![c] = ms]
  BY <1>1, <1>5, <1>10
<1> QED BY <1>4, <1>11

\* A later node is due no sooner.
LEMMA Later ==
    ASSUME NEW l \in Lists, NEW q \in Seq(Contexts), NEW i \in 0..Len(q),
           NEW j \in 0..Len(q), i <= j
    PROVE  Due(l, q, i) <= Due(l, q, j)
<1> DEFINE S == {k \in 0..Len(q) : i <= k /\ ~ (Due(l, q, i) <= Due(l, q, k))}
<1>1. Len(q) \in Nat /\ \A k \in 1..Len(q) : q[k] \in Contexts
  BY Elements
<1>2. ASSUME S # {} PROVE FALSE
  <2>1. S \in SUBSET Nat /\ S # {}
    BY <1>1, <1>2
  <2>2. PICK k \in S : \A a \in S : k <= a
    <3> HIDE DEF S
    <3> QED BY <2>1, Least
  <2>3. k \in 0..Len(q) /\ i <= k /\ ~ (Due(l, q, i) <= Due(l, q, k))
    OBVIOUS
  <2>4. Due(l, q, i) \in Nat /\ Due(l, q, k) \in Nat
    BY <2>3, DueFacts
  <2>5. k # i
    BY <2>3, <2>4
  <2>6. k - 1 \in 0..Len(q) /\ i <= k - 1 /\ ~ (k <= k - 1) /\ k \in 1..Len(q)
    BY <1>1, <2>3, <2>5
  <2>7. k - 1 \notin S
    BY <2>2, <2>6
  <2>8. Due(l, q, i) <= Due(l, q, k - 1)
    BY <2>6, <2>7
  <2>9. Due(l, q, k) = Due(l, q, k - 1) + l.timeout_left_ms[q[k]]
          /\ Due(l, q, k - 1) \in Nat
    BY <2>6, DueFacts
  <2>10. l.timeout_left_ms[q[k]] \in Nat
    BY <1>1, <2>6 DEF Lists
  <2> QED BY <2>3, <2>4, <2>8, <2>9, <2>10
<1> QED BY <1>2

\* The nodes that have run out after ms are the first ones of the list.
LEMMA Cut ==
    ASSUME NEW l, NEW q, Sorted(l, q), NEW ms \in Nat, NEW n, n = ExpiredCount(l, ms)
    PROVE  n \in 0..Len(q) /\ \A i \in 1..Len(q) : Due(l, q, i) <= ms <=> i <= n
<1>1. l \in Lists /\ q \in Seq(Contexts) /\ Len(q) \in Nat /\ Nodes(l) = q
  BY SortedFacts, NodesOf DEF Nodes, Rooted
<1> DEFINE S == {i \in 1..Len(q) + 1 : i > Len(q) \/ ~ (Due(l, q, i) <= ms)}
<1>2. S \in SUBSET Nat /\ Len(q) + 1 \in S
  BY <1>1
<1>3. PICK k \in S : \A j \in S : k <= j
  <2> HIDE DEF S
  <2> QED BY <1>2, Least
<1>4. k \in 1..Len(q) + 1 /\ (k > Len(q) \/ ~ (Due(l, q, k) <= ms))
  OBVIOUS
<1>5. ASSUME NEW i \in 1..Len(q) PROVE Due(l, q, i) <= ms <=> i <= k - 1
  <2>1. i \in 1..Len(q) + 1 /\ i \in 0..Len(q) /\ i \in Int /\ k \in Int
    BY <1>1, <1>4
  <2>2. ASSUME i <= k - 1 PROVE Due(l, q, i) <= ms
    <3>1. ~ (k <= i)
      BY <2>1, <2>2
    <3>2. i \notin S
      BY <1>3, <3>1
    <3> QED BY <2>1, <3>2
  <2>3. ASSUME ~ (i <= k - 1) PROVE ~ (Due(l, q, i) <= ms)
    <3>1. k <= i /\ k \in 0..Len(q) /\ ~ (k > Len(q))
      BY <1>1, <1>4, <2>1, <2>3
    <3>2. Due(l, q, k) <= Due(l, q, i) /\ Due(l, q, k) \in Nat /\ Due(l, q, i) \in Nat
      BY <1>1, <2>1, <3>1, Later, DueFacts
    <3> QED BY <1>4, <3>1, <3>2
  <2> QED BY <2>2, <2>3
<1>6. {i \in 1..Len(q) : Due(l, q, i) <= ms} = 1..k - 1
  <2> HIDE DEF S
  <2>1. \A i \in 1..k - 1 : i \in 1..Len(q) /\ i <= k - 1
    BY <1>1, <1>4
  <2>2. \A i \in 1..Len(q) : i <= k - 1 => i \in 1..k - 1
    BY <1>1, <1>4
  <2> DEFINE A == 1..k - 1
             B == 1..Len(q)
  <2>3. \A i \in A : i \in B /\ Due(l, q, i) <= ms
    BY <1>5, <2>1
  <2>4. \A i \in B : Due(l, q, i) <= ms => i \in A
    BY <1>5, <2>2
  <2> HIDE DEF A, B
  <2>5. {i \in B : Due(l, q, i) <= ms} = A
    BY <2>3, <2>4
  <2> QED BY <2>5 DEF A, B
<1>7. Cardinality(1..k - 1) = k - 1
  <2>1. k - 1 \in Nat
    BY <1>1, <1>4
  <2> QED BY <2>1, Interval
<1>8. n = k - 1
  BY <1>1, <1>6, <1>7 DEF ExpiredCount
<1>9. k - 1 \in 0..Len(q)
  BY <1>1, <1>4
<1> QED BY <1>5, <1>8, <1>9

-----------------------------------------------------------------------------
(* pubnub_timer_list_as_time_goes_by *)

\* q is e, its first n nodes, and then p.
Split(q, n, e, p) ==
    /\ e \in Seq(Contexts) /\ p \in Seq(Contexts)
    /\ Len(e) = n /\ Len(p) = Len(q) - n
    /\ \A i \in 1..n : e[i] = q[i]
    /\ \A i \in 1..Len(q) - n : p[i] = q[n + i]

\* Every sequence can be split.
LEMMA Splits ==
    ASSUME NEW q \in Seq(Contexts), NEW n \in 0..Len(q)
    PROVE  \E e, p : Split(q, n, e, p)
<1> DEFINE e == [i \in 1..n |-> q[i]]
           p == [i \in 1..Len(q) - n |-> q[n + i]]
<1>1. Len(q) \in Nat /\ n \in Nat /\ Len(q) - n \in Nat /\ \A i \in 1..Len(q) :
        q[i] \in Contexts
  BY Elements
<1>2. \A i \in 1..n : q[i] \in Contexts
  <2>1. \A i \in 1..n : i \in 1..Len(q)
    BY <1>1
  <2> QED BY <1>1, <2>1
<1>3. \A i \in 1..Len(q) - n : q[n + i] \in Contexts
  <2>1. \A i \in 1..Len(q) - n : n + i \in 1..Len(q)
    BY <1>1
  <2> QED BY <1>1, <2>1
<1>4. e \in Seq(Contexts) /\ Len(e) = n
  BY <1>1, <1>2, IsASeq, LenProperties
<1>5. p \in Seq(Contexts) /\ Len(p) = Len(q) - n
  BY <1>1, <1>3, IsASeq, LenProperties
<1>6. /\ \A i \in 1..n : e[i] = q[i]
      /\ \A i \in 1..Len(q) - n : p[i] = q[n + i]
  OBVIOUS
<1> HIDE DEF e, p
<1> QED BY <1>4, <1>5, <1>6 DEF Split

\* The two parts of a split have no context in common and lose none.
LEMMA SplitFacts ==
    ASSUME NEW q \in Seq(Contexts), Once(q), NEW n \in 0..Len(q), NEW e, NEW p,
           Split(q, n, e, p)
    PROVE  /\ Once(e) /\ Once(p)
           /\ \A x : In(q, x) <=> In(e, x) \/ In(p, x)
           /\ \A x : ~ (In(e, x) /\ In(p, x))
<1>1. Len(q) \in Nat /\ n \in Nat /\ Len(q) - n \in Nat
  BY Elements
<1>2. /\ Len(e) = n /\ Len(p) = Len(q) - n
      /\ \A i \in 1..n : i \in 1..Len(q) /\ e[i] = q[i]
      /\ \A i \in 1..Len(q) - n : n + i \in 1..Len(q) /\ p[i] = q[n + i]
  <2>1. \A i \in 1..n : i \in 1..Len(q)
    BY <1>1
  <2>2. \A i \in 1..Len(q) - n : n + i \in 1..Len(q)
    BY <1>1
  <2> QED BY <2>1, <2>2 DEF Split
<1>3. \A i, j \in 1..Len(q) : q[i] = q[j] => i = j
  BY DEF Once
<1>4. Once(e)
  BY <1>2, <1>3 DEF Once
<1>5. Once(p)
  <2>1. ASSUME NEW i \in 1..Len(q) - n, NEW j \in 1..Len(q) - n, p[i] = p[j] PROVE i = j
    <3>1. n + i = n + j
      BY <1>2, <1>3, <2>1
    <3> QED BY <1>1, <3>1
  <2> QED BY <1>2, <2>1 DEF Once
<1>6. ASSUME NEW x, In(q, x) PROVE In(e, x) \/ In(p, x)
  <2>1. PICK i \in 1..Len(q) : q[i] = x
    BY <1>6 DEF In
  <2>2. CASE i <= n
    <3>1. i \in 1..n
      BY <1>1, <2>2
    <3> QED BY <1>2, <2>1, <3>1 DEF In
  <2>3. CASE ~ (i <= n)
    <3>1. i - n \in 1..Len(q) - n /\ n + (i - n) = i
      BY <1>1, <2>3
    <3> QED BY <1>2, <2>1, <3>1 DEF In
  <2> QED BY <2>2, <2>3
<1>7. ASSUME NEW x, In(e, x) \/ In(p, x) PROVE In(q, x)
  BY <1>2, <1>7 DEF In
<1>8. ASSUME NEW x, In(e, x), In(p, x) PROVE FALSE
  <2>1. PICK i \in 1..n : e[i] = x
    BY <1>2, <1>8 DEF In
  <2>2. PICK j \in 1..Len(q) - n : p[j] = x
    BY <1>2, <1>8 DEF In
  <2>3. i = n + j
    BY <1>2, <1>3, <2>1, <2>2
  <2> QED BY <1>1, <2>3
<1> QED BY <1>4, <1>5, <1>6, <1>7, <1>8

\* pubnub_timer_list_as_time_goes_by: the expired nodes come off in their order, the
\* others are due ms sooner.
LEMMA Cutting ==
    ASSUME NEW l, NEW q, Sorted(l, q), NEW ms \in Nat, NEW n, n = ExpiredCount(l, ms),
           NEW m, m = pubnub_timer_list_as_time_goes_by(l, ms),
           NEW h, h = IF n > 0 THEN l.head ELSE NULL,
           NEW e, NEW p, Split(q, n, e, p)
    PROVE  /\ Ordered(m, h, p, e)
           /\ \A i \in 1..Len(p) : Due(m, p, i) = Due(l, q, n + i) - ms
<1> DEFINE rest == IF n = Len(q) THEN NULL ELSE q[n + 1]
<1>1. /\ n \in 0..Len(q) /\ n \in Nat /\ Len(q) \in Nat /\ q \in Seq(Contexts)
      /\ \A i \in 1..Len(q) : Due(l, q, i) <= ms <=> i <= n
  <2>1. Len(q) \in Nat /\ q \in Seq(Contexts)
    BY SortedFacts
  <2>2. n \in 0..Len(q) /\ \A i \in 1..Len(q) : Due(l, q, i) <= ms <=> i <= n
    BY Cut
  <2>3. n \in Nat
    BY <2>1, <2>2
  <2> QED BY <2>1, <2>2, <2>3
<1>2. Nodes(l) = q /\ \A i, j \in 1..Len(q) : q[i] = q[j] => i = j
  BY SortedFacts, NodesOf DEF Nodes, Rooted, Once
<1>3. /\ m.head = rest
      /\ m.next = IF n > 0 THEN [l.next EXCEPT ![q[n]] = NULL] ELSE l.next
      /\ m.previous = Store(l.previous, rest, NULL)
      /\ m.timeout_left_ms =
            IF rest = NULL THEN l.timeout_left_ms
            ELSE [l.timeout_left_ms EXCEPT ![rest] = @ - (ms - Due(l, q, n))]
      /\ m = [head |-> m.head, next |-> m.next, previous |-> m.previous,
              timeout_left_ms |-> m.timeout_left_ms]
  BY <1>2 DEF pubnub_timer_list_as_time_goes_by
<1>4. /\ Once(e) /\ Once(p)
      /\ \A x : In(q, x) <=> In(e, x) \/ In(p, x)
      /\ \A x : ~ (In(e, x) /\ In(p, x))
  BY <1>1, SortedFacts, SplitFacts
<1>5. /\ e \in Seq(Contexts) /\ p \in Seq(Contexts) /\ Len(e) = n /\ Len(p) = Len(q) - n
      /\ \A i \in 1..n : i \in 1..Len(q) /\ e[i] = q[i]
      /\ \A i \in 1..Len(q) - n : n + i \in 1..Len(q) /\ p[i] = q[n + i]
  <2>1. \A i \in 1..n : i \in 1..Len(q)
    BY <1>1
  <2>2. \A i \in 1..Len(q) - n : n + i \in 1..Len(q)
    BY <1>1
  <2> QED BY <2>1, <2>2 DEF Split
<1>6. /\ l.head \in Pointers /\ l.next \in [Contexts -> Pointers]
           /\ l.previous \in [Contexts -> Pointers]
      /\ l.timeout_left_ms \in [Contexts -> Nat]
  BY SortedFacts DEF Lists
<1>7. /\ \A i \in 1..Len(q) : q[i] = rest <=> i = n + 1
      /\ rest \in Pointers /\ (rest = NULL <=> n = Len(q))
  <2>1. n # Len(q) => n + 1 \in 1..Len(q)
    BY <1>1
  <2>2. \A i \in 1..Len(q) : q[i] \in Contexts /\ q[i] # NULL
    BY SortedFacts
  <2>3. rest \in Pointers /\ (rest = NULL <=> n = Len(q))
    BY <2>1, <2>2 DEF Pointers
  <2>4. ASSUME NEW i \in 1..Len(q) PROVE q[i] = rest <=> i = n + 1
    <3>1. CASE n = Len(q)
      <4>1. i # n + 1
        BY <1>1, <3>1
      <4> QED BY <2>2, <3>1, <4>1
    <3>2. CASE n # Len(q)
      BY <1>2, <2>1, <3>2
    <3> QED BY <3>1, <3>2
  <2> QED BY <2>3, <2>4
<1> HIDE DEF rest
<1>8. /\ m.next \in [Contexts -> Pointers]
      /\ \A i \in 1..Len(q) : m.next[q[i]] = IF i = n THEN NULL ELSE l.next[q[i]]
      /\ \A x \in Contexts : ~ In(q, x) => m.next[x] = l.next[x]
  <2>1. CASE n > 0
    <3>1. n \in 1..Len(q)
      BY <1>1, <2>1
    <3>2. m.next = [l.next EXCEPT ![q[n]] = NULL] /\ q[n] \in Contexts
      BY <1>3, <2>1, <3>1, SortedFacts
    <3>3. m.next \in [Contexts -> Pointers]
      BY <1>6, <3>2 DEF Pointers
    <3>4. \A i \in 1..Len(q) : m.next[q[i]] = IF i = n THEN NULL ELSE l.next[q[i]]
      <4>1. \A i \in 1..Len(q) : q[i] \in Contexts /\ (q[i] = q[n] => i = n)
        BY <1>2, <3>1, SortedFacts
      <4> QED BY <1>6, <3>2, <4>1
    <3>5. \A x \in Contexts : ~ In(q, x) => m.next[x] = l.next[x]
      BY <1>6, <3>1, <3>2 DEF In
    <3> QED BY <3>3, <3>4, <3>5
  <2>2. CASE ~ (n > 0)
    <3>1. m.next = l.next
      BY <1>3, <2>2
    <3>2. \A i \in 1..Len(q) : i # n
      BY <1>1, <2>2
    <3> QED BY <1>6, <3>1, <3>2
  <2> QED BY <2>1, <2>2
<1>9. /\ m.previous \in [Contexts -> Pointers]
      /\ \A i \in 1..Len(q) : m.previous[q[i]] = IF i = n + 1 THEN NULL
           ELSE l.previous[q[i]]
      /\ \A x \in Contexts : ~ In(q, x) => m.previous[x] = NULL
  <2>1. m.previous = Store(l.previous, rest, NULL)
    BY <1>3
  <2>2. m.previous \in [Contexts -> Pointers]
        /\ \A x \in Contexts : m.previous[x] = IF x = rest THEN NULL ELSE l.previous[x]
    BY <2>1, <1>6, <1>7, NullIsNoContext DEF Store, Pointers
  <2>3. \A i \in 1..Len(q) : q[i] \in Contexts
    BY SortedFacts
  <2>4. \A i \in 1..Len(q) : m.previous[q[i]] = IF i = n + 1 THEN NULL ELSE l.previous[q[i]]
    BY <1>7, <2>2, <2>3
  <2>5. \A x \in Contexts : ~ In(q, x) => l.previous[x] = NULL
    BY SortedFacts
  <2> QED BY <2>2, <2>4, <2>5
<1>10. /\ m.timeout_left_ms \in [Contexts -> Nat]
       /\ \A i \in 1..Len(q) : m.timeout_left_ms[q[i]] =
             IF i = n + 1 THEN l.timeout_left_ms[q[i]] - (ms - Due(l, q, n))
             ELSE l.timeout_left_ms[q[i]]
  <2>1. CASE n = Len(q)
    <3>1. m.timeout_left_ms = l.timeout_left_ms
      BY <1>3, <1>7, <2>1
    <3>2. \A i \in 1..Len(q) : i # n + 1
      BY <1>1, <2>1
    <3> QED BY <1>6, <3>1, <3>2
  <2>2. CASE n # Len(q)
    <3>1. n + 1 \in 1..Len(q) /\ n + 1 - 1 = n /\ n \in 0..Len(q) /\ ~ (n + 1 <= n)
      BY <1>1, <2>2
    <3>2. rest # NULL /\ rest \in Contexts /\ rest = q[n + 1]
      BY <1>7, <2>2, <3>1 DEF Pointers
    <3> DEFINE v == l.timeout_left_ms[rest] - (ms - Due(l, q, n))
    <3>3. m.timeout_left_ms = [l.timeout_left_ms EXCEPT ![rest] = v]
      BY <1>3, <3>2
    <3>4. /\ Due(l, q, n + 1) = Due(l, q, n) + l.timeout_left_ms[rest]
          /\ Due(l, q, n) \in Nat /\ l.timeout_left_ms[rest] \in Nat
      BY <1>1, <1>6, <3>1, <3>2, SortedFacts, DueFacts
    <3>5. ~ (Due(l, q, n + 1) <= ms)
      BY <1>1, <3>1
    <3>6. v \in Nat
      BY <3>4, <3>5
    <3>7. \A i \in 1..Len(q) : q[i] \in Contexts
      BY SortedFacts
    <3>8. \A i \in 1..Len(q) :
            i = n + 1 => v = l.timeout_left_ms[q[i]] - (ms - Due(l, q, n))
      BY <3>2
    <3> HIDE DEF v
    <3>9. m.timeout_left_ms \in [Contexts -> Nat]
      BY <1>6, <3>3, <3>6
    <3>10. \A i \in 1..Len(q) : m.timeout_left_ms[q[i]] = IF i = n + 1 THEN v
             ELSE l.timeout_left_ms[q[i]]
      BY <1>6, <1>7, <3>2, <3>3, <3>7
    <3> QED BY <3>8, <3>9, <3>10
  <2> QED BY <2>1, <2>2
<1>11. m \in Lists
  <2>1. m.head \in Pointers
    BY <1>3, <1>7
  <2> QED BY <1>3, <1>8, <1>9, <1>10, <2>1 DEF Lists
<1>12. Rooted(m, p)
  <2>1. m.head = IF Len(p) = 0 THEN NULL ELSE p[1]
    <3>1. CASE n = Len(q)
      <4>1. Len(p) = 0
        BY <1>1, <1>5, <3>1
      <4> QED BY <1>3, <1>7, <3>1, <4>1
    <3>2. CASE n # Len(q)
      <4>1. Len(p) # 0 /\ 1 \in 1..Len(q) - n /\ n + 1 \in 1..Len(q)
        BY <1>1, <1>5, <3>2
      <4>2. p[1] = q[n + 1] /\ q[n + 1] = rest
        BY <1>5, <1>7, <4>1
      <4> QED BY <1>3, <4>1, <4>2
    <3> QED BY <3>1, <3>2
  <2>2. ASSUME NEW i \in 1..Len(p)
        PROVE  m.next[p[i]] = IF i = Len(p) THEN NULL ELSE p[i + 1]
    <3>1. n + i \in 1..Len(q) /\ p[i] = q[n + i]
      BY <1>5
    <3>2. n + i # n /\ (i = Len(p) <=> n + i = Len(q))
            /\ (i # Len(p) => i + 1 \in 1..Len(q) - n)
          /\ n + (i + 1) = n + i + 1
      BY <1>1, <1>5
    <3>3. m.next[q[n + i]] = l.next[q[n + i]]
      BY <1>8, <3>1, <3>2
    <3>4. l.next[q[n + i]] = IF n + i = Len(q) THEN NULL ELSE q[n + i + 1]
      BY <3>1, SortedFacts
    <3>5. i # Len(p) => p[i + 1] = q[n + i + 1]
      BY <1>5, <3>2
    <3> QED BY <3>1, <3>2, <3>3, <3>4, <3>5
  <2>3. ASSUME NEW i \in 1..Len(p) PROVE m.previous[p[i]] = IF i = 1 THEN NULL ELSE p[i - 1]
    <3>1. n + i \in 1..Len(q) /\ p[i] = q[n + i]
      BY <1>5
    <3>2. (n + i = n + 1 <=> i = 1) /\ (i # 1 => i - 1 \in 1..Len(q) - n)
          /\ n + (i - 1) = n + i - 1 /\ (i # 1 => n + i # 1)
      BY <1>1, <1>5
    <3>3. m.previous[q[n + i]] = IF i = 1 THEN NULL ELSE l.previous[q[n + i]]
      BY <1>9, <3>1, <3>2
    <3>4. l.previous[q[n + i]] = IF n + i = 1 THEN NULL ELSE q[n + i - 1]
      <4>1. \A j \in 1..Len(q) : l.previous[q[j]] = IF j = 1 THEN NULL ELSE q[j - 1]
        BY SortedFacts
      <4> DEFINE j == n + i
      <4>2. j \in 1..Len(q) /\ j - 1 = n + i - 1
        BY <1>1, <3>1
      <4> HIDE DEF j
      <4>3. l.previous[q[j]] = IF j = 1 THEN NULL ELSE q[j - 1]
        BY <4>1, <4>2
      <4> QED BY <4>2, <4>3 DEF j
    <3>5. i # 1 => p[i - 1] = q[n + i - 1]
      BY <1>5, <3>2
    <3> QED BY <3>1, <3>2, <3>3, <3>4, <3>5
  <2> QED BY <1>4, <1>5, <2>1, <2>2, <2>3 DEF Rooted, Chain
<1>13. Chain(m, h, e)
  <2>1. h = IF Len(e) = 0 THEN NULL ELSE e[1]
    <3>1. CASE n = 0
      BY <1>5, <3>1
    <3>2. CASE n # 0
      <4>1. n > 0 /\ 1 \in 1..n /\ Len(q) # 0
        BY <1>1, <3>2
      <4> QED BY <1>5, <4>1, SortedFacts
    <3> QED BY <3>1, <3>2
  <2>2. ASSUME NEW i \in 1..Len(e)
        PROVE  m.next[e[i]] = IF i = Len(e) THEN NULL ELSE e[i + 1]
    <3>1. i \in 1..Len(q) /\ e[i] = q[i]
      BY <1>5
    <3>2. ASSUME i # n PROVE i + 1 \in 1..n /\ i # Len(q)
      <4>1. n \in Int /\ i \in Int /\ 1 <= i /\ i <= n /\ n <= Len(q) /\ Len(q) \in Int
        BY <1>1, <1>5
      <4>2. i < n
        BY <3>2, <4>1
      <4> QED BY <4>1, <4>2
    <3>3. m.next[q[i]] = IF i = n THEN NULL ELSE l.next[q[i]]
      BY <1>8, <3>1
    <3>4. l.next[q[i]] = IF i = Len(q) THEN NULL ELSE q[i + 1]
      BY <3>1, SortedFacts
    <3>5. i # n => e[i + 1] = q[i + 1] /\ i # Len(q)
      BY <1>5, <3>2
    <3>6. Len(e) = n
      BY <1>5
    <3> QED BY <3>1, <3>3, <3>4, <3>5, <3>6
  <2> QED BY <1>4, <1>5, <2>1, <2>2 DEF Chain
<1>14. Loose(m, p, e)
  <2>1. ASSUME NEW x \in Contexts, ~ In(p, x), ~ In(e, x)
        PROVE  m.next[x] = NULL /\ m.previous[x] = NULL
    <3>1. ~ In(q, x)
      BY <1>4, <2>1
    <3> QED BY <1>8, <1>9, <3>1, SortedFacts
  <2> QED BY <2>1 DEF Loose
<1>15. Apart(p, e)
  BY <1>4 DEF Apart
<1>16. \A i \in 1..Len(p) : Due(m, p, i) = Due(l, q, n + i) - ms
  <2> DEFINE d == [i \in 0..Len(p) |-> IF i = 0 THEN 0 ELSE Due(l, q, n + i) - ms]
  <2>1. /\ \A i \in 0..Len(q) : Due(l, q, i) \in Nat
        /\ \A i \in 1..Len(q) : Due(l, q, i) = Due(l, q, i - 1) + l.timeout_left_ms[q[i]]
    BY SortedFacts, DueFacts
  <2>2. DOMAIN d = 0..Len(p) /\ \A i \in 0..Len(p) : d[i] = IF i = 0 THEN 0
          ELSE Due(l, q, n + i) - ms
    OBVIOUS
  <2>3. d \in [0..Len(p) -> Nat]
    <3>1. ASSUME NEW i \in 0..Len(p)
          PROVE  (IF i = 0 THEN 0 ELSE Due(l, q, n + i) - ms) \in Nat
      <4>1. CASE i # 0
        <5>1. n + i \in 1..Len(q) /\ n + i \in 0..Len(q) /\ ~ (n + i <= n)
          BY <1>1, <1>5, <4>1
        <5>2. ~ (Due(l, q, n + i) <= ms) /\ Due(l, q, n + i) \in Nat
          BY <1>1, <2>1, <5>1
        <5> QED BY <4>1, <5>2
      <4> QED BY <4>1
    <3> QED BY <3>1
  <2> HIDE DEF d
  <2>4. 0 \in 0..Len(p) /\ \A i \in 1..Len(p) : i \in 0..Len(p) /\ i # 0
    BY <1>1, <1>5
  <2>5. d[0] = 0
    BY <2>2, <2>4
  <2>6. ASSUME NEW i \in 1..Len(p) PROVE d[i] = d[i - 1] + m.timeout_left_ms[p[i]]
    <3>1. i \in 0..Len(p) /\ i # 0 /\ i - 1 \in 0..Len(p) /\ n + i \in 1..Len(q)
            /\ p[i] = q[n + i]
          /\ n + i - 1 = n + (i - 1) /\ n + i - 1 \in 0..Len(q) /\ (n + i = n + 1 <=> i = 1)
          /\ n + i \in 0..Len(q) /\ (i - 1 = 0 <=> i = 1) /\ (i = 1 => n + i - 1 = n)
      BY <1>1, <1>5
    <3>2. Due(l, q, n + i) = Due(l, q, n + i - 1) + l.timeout_left_ms[q[n + i]]
      <4> DEFINE j == n + i
      <4>1. j \in 1..Len(q) /\ j - 1 = n + i - 1
        BY <1>1, <1>5, <3>1
      <4> HIDE DEF j
      <4>2. Due(l, q, j) = Due(l, q, j - 1) + l.timeout_left_ms[q[j]]
        BY <2>1, <4>1
      <4> QED BY <4>1, <4>2 DEF j
    <3>3. Due(l, q, n + i) \in Nat /\ Due(l, q, n + i - 1) \in Nat
            /\ l.timeout_left_ms[q[n + i]] \in Nat
      BY <1>6, <2>1, <3>1, SortedFacts
    <3>4. d[i] = Due(l, q, n + i) - ms
      BY <2>2, <3>1
    <3>5. CASE i = 1
      <4>1. d[i - 1] = 0
        BY <2>2, <3>1, <3>5
      <4>2. m.timeout_left_ms[p[i]] = l.timeout_left_ms[q[n + i]] - (ms - Due(l, q, n))
        BY <1>10, <3>1, <3>5
      <4>3. Due(l, q, n + i - 1) = Due(l, q, n)
        BY <3>1, <3>5
      <4> QED BY <3>2, <3>3, <3>4, <4>1, <4>2, <4>3
    <3>6. CASE i # 1
      <4>1. d[i - 1] = Due(l, q, n + i - 1) - ms
        BY <2>2, <3>1, <3>6
      <4>2. m.timeout_left_ms[p[i]] = l.timeout_left_ms[q[n + i]]
        BY <1>10, <3>1, <3>6
      <4> QED BY <3>2, <3>3, <3>4, <4>1, <4>2
    <3> QED BY <3>5, <3>6
  <2>7. \A i \in 0..Len(p) : Due(m, p, i) = d[i]
    BY <1>5, <2>3, <2>5, <2>6, DueFrom
  <2> QED BY <2>2, <2>4, <2>7
<1> QED BY <1>11, <1>12, <1>13, <1>14, <1>15, <1>16 DEF Ordered

\* Whose time is up after ms
DueOf(left, ms) == {c \in Contexts : left[c] # -1 /\ left[c] <= ms}

\* The nodes cut off are exactly the contexts whose time is up.
LEMMA ExpiredSet ==
    ASSUME NEW l, NEW q, Sorted(l, q), NEW ms \in Nat, NEW n, n = ExpiredCount(l, ms),
           NEW e, NEW p, Split(q, n, e, p)
    PROVE  /\ \A x : In(e, x) <=> x \in DueOf(Left(l), ms)
           /\ Cardinality(DueOf(Left(l), ms)) = n
<1> DEFINE D == DueOf(Left(l), ms)
<1>1. /\ \A i \in 1..Len(q) : Left(l)[q[i]] = Due(l, q, i)
      /\ \A x \in Contexts : ~ In(q, x) => Left(l)[x] = -1
  BY SortedFacts, LeftIs
<1>2. /\ n \in 0..Len(q) /\ n \in Nat /\ Len(q) \in Nat /\ q \in Seq(Contexts) /\ Once(q)
      /\ \A i \in 1..Len(q) : Due(l, q, i) <= ms <=> i <= n
  BY SortedFacts, Cut
<1>3. /\ \A i \in 1..Len(q) : q[i] \in Contexts /\ Due(l, q, i) \in Nat
      /\ \A i, j \in 1..Len(q) : q[i] = q[j] => i = j
  <2>1. \A i \in 1..Len(q) : i \in 0..Len(q)
    BY <1>2
  <2> QED BY <2>1, SortedFacts, DueFacts DEF Once
<1>4. /\ Len(e) = n /\ \A i \in 1..n : i \in 1..Len(q) /\ e[i] = q[i]
  <2>1. \A i \in 1..n : i \in 1..Len(q)
    BY <1>2
  <2> QED BY <2>1 DEF Split
<1>5. ASSUME NEW x, In(e, x) PROVE x \in D
  <2>1. PICK i \in 1..n : e[i] = x
    BY <1>4, <1>5 DEF In
  <2>2. i \in 1..Len(q) /\ x = q[i] /\ i <= n
    BY <1>2, <1>4, <2>1
  <2>3. Due(l, q, i) <= ms /\ Due(l, q, i) \in Nat /\ x \in Contexts
          /\ Left(l)[x] = Due(l, q, i)
    BY <1>1, <1>2, <1>3, <2>2
  <2> QED BY <2>3 DEF DueOf
<1>6. ASSUME NEW x \in D PROVE In(e, x)
  <2>1. x \in Contexts /\ Left(l)[x] # -1 /\ Left(l)[x] <= ms
    BY DEF DueOf
  <2>2. PICK i \in 1..Len(q) : q[i] = x
    BY <1>1, <2>1 DEF In
  <2>3. i <= n
    BY <1>1, <1>2, <2>1, <2>2
  <2>4. i \in 1..n
    BY <1>2, <2>3
  <2> QED BY <1>4, <2>2, <2>4 DEF In
<1>7. Cardinality(D) = n
  <2>1. e \in [1..n -> D]
    <3>1. \A i \in 1..n : e[i] \in D
      BY <1>4, <1>5 DEF In
    <3>2. e \in Seq(Contexts) /\ Len(e) = n
      BY <1>4 DEF Split
    <3>3. DOMAIN e = 1..n /\ e = [i \in 1..n |-> e[i]]
      BY <3>2, LenProperties
    <3> DEFINE A == 1..n
    <3>4. DOMAIN e = A /\ (\A i \in A : e[i] \in D) /\ e = [i \in A |-> e[i]]
      BY <3>1, <3>3
    <3> HIDE DEF A, D
    <3>5. e \in [A -> D]
      BY <3>4
    <3> QED BY <3>5 DEF A
  <2>2. \A i, j \in 1..n : e[i] = e[j] => i = j
    BY <1>3, <1>4
  <2>3. \A x \in D : \E i \in 1..n : e[i] = x
    BY <1>4, <1>6 DEF In
  <2>4. e \in Bijection(1..n, D)
    <3> DEFINE A == 1..n
    <3>1. e \in [A -> D] /\ (\A i, j \in A : e[i] = e[j] => i = j) /\ \A x \in D :
            \E i \in A : e[i] = x
      BY <2>1, <2>2, <2>3
    <3> HIDE DEF A, D
    <3>2. e \in Bijection(A, D)
      BY <3>1 DEF Bijection, Injection, Surjection, IsInjective
    <3> QED BY <3>2 DEF A
  <2>5. IsFiniteSet(1..n) /\ Cardinality(1..n) = n
    BY <1>2, Interval
  <2>6. ExistsBijection(1..n, D)
    BY <2>4 DEF ExistsBijection
  <2> HIDE DEF D
  <2> QED BY <2>5, <2>6, FS_Bijection
<1> QED BY <1>5, <1>6, <1>7

\* Time takes ms off every timer left, and the expired come off earliest first.
LEMMA Elapsed ==
    ASSUME NEW l, NEW q, Sorted(l, q), NEW ms \in Nat, NEW n, n = ExpiredCount(l, ms),
           NEW m, m = pubnub_timer_list_as_time_goes_by(l, ms),
           NEW h, h = IF n > 0 THEN l.head ELSE NULL,
           NEW e, NEW p, Split(q, n, e, p)
    PROVE  /\ Left(m) = [c \in Contexts |-> IF Left(l)[c] = -1 \/ c \in DueOf(Left(l), ms)
                THEN -1
                                            ELSE Left(l)[c] - ms]
           /\ \A i, j \in 1..n : i < j => Left(l)[e[i]] <= Left(l)[e[j]]
<1>1. /\ \A i \in 1..Len(q) : Left(l)[q[i]] = Due(l, q, i)
      /\ \A x \in Contexts : ~ In(q, x) => Left(l)[x] = -1
  BY SortedFacts, LeftIs
<1>2. /\ n \in 0..Len(q) /\ n \in Nat /\ Len(q) \in Nat /\ q \in Seq(Contexts)
           /\ l \in Lists /\ Once(q)
      /\ \A i \in 1..Len(q) : i \in 0..Len(q) /\ Due(l, q, i) \in Nat
  <2>1. n \in 0..Len(q) /\ q \in Seq(Contexts) /\ l \in Lists /\ Len(q) \in Nat /\ Once(q)
    BY SortedFacts, Cut
  <2>2. \A i \in 0..Len(q) : Due(l, q, i) \in Nat
    BY <2>1, DueFacts
  <2>3. \A i \in 1..Len(q) : i \in 0..Len(q)
    BY <2>1
  <2>4. n \in Nat
    BY <2>1
  <2> QED BY <2>1, <2>2, <2>3, <2>4
<1>3. /\ Ordered(m, h, p, e)
      /\ \A i \in 1..Len(p) : Due(m, p, i) = Due(l, q, n + i) - ms
  BY Cutting
<1>4. /\ \A i \in 1..Len(p) : Left(m)[p[i]] = Due(m, p, i)
      /\ \A x \in Contexts : ~ In(p, x) => Left(m)[x] = -1
      /\ Left(m) = [x \in Contexts |-> Left(m)[x]]
  <2>1. m \in Lists /\ Rooted(m, p)
    BY <1>3 DEF Ordered
  <2> QED BY <2>1, LeftIs
<1>5. /\ \A x : In(q, x) <=> In(e, x) \/ In(p, x)
      /\ \A x : ~ (In(e, x) /\ In(p, x))
  BY <1>2, SplitFacts
<1>6. \A x : In(e, x) <=> x \in DueOf(Left(l), ms)
  BY ExpiredSet
<1>7. /\ Len(e) = n /\ Len(p) = Len(q) - n
      /\ \A i \in 1..n : i \in 1..Len(q) /\ e[i] = q[i]
      /\ \A i \in 1..Len(q) - n : n + i \in 1..Len(q) /\ p[i] = q[n + i]
  <2>1. \A i \in 1..n : i \in 1..Len(q)
    BY <1>2
  <2>2. \A i \in 1..Len(q) - n : n + i \in 1..Len(q)
    BY <1>2
  <2> QED BY <2>1, <2>2 DEF Split
<1>8. ASSUME NEW c \in Contexts
      PROVE  Left(m)[c] = IF Left(l)[c] = -1 \/ c \in DueOf(Left(l), ms) THEN -1
                          ELSE Left(l)[c] - ms
  <2>1. CASE ~ In(q, c)
    <3>1. ~ In(p, c) /\ Left(l)[c] = -1
      BY <1>1, <1>5, <2>1
    <3> QED BY <1>4, <3>1
  <2>2. CASE In(e, c)
    <3>1. ~ In(p, c) /\ c \in DueOf(Left(l), ms)
      BY <1>5, <1>6, <2>2
    <3> QED BY <1>4, <3>1
  <2>3. CASE In(p, c)
    <3>1. PICK i \in 1..Len(p) : p[i] = c
      BY <2>3 DEF In
    <3>2. n + i \in 1..Len(q) /\ c = q[n + i]
      BY <1>7, <3>1
    <3>3. Left(l)[c] = Due(l, q, n + i) /\ Due(l, q, n + i) \in Nat
      BY <1>1, <1>2, <3>2
    <3>4. Left(m)[c] = Due(l, q, n + i) - ms
      BY <1>3, <1>4, <3>1
    <3>5. c \notin DueOf(Left(l), ms)
      BY <1>5, <1>6, <2>3
    <3>6. Left(l)[c] # -1
      BY <3>3
    <3> QED BY <3>3, <3>4, <3>5, <3>6
  <2> QED BY <1>5, <2>1, <2>2, <2>3
<1>9. ASSUME NEW i \in 1..n, NEW j \in 1..n, i < j PROVE Left(l)[e[i]] <= Left(l)[e[j]]
  <2>1. i \in 1..Len(q) /\ j \in 1..Len(q) /\ e[i] = q[i] /\ e[j] = q[j]
    BY <1>7
  <2>2. i <= j /\ i \in 0..Len(q) /\ j \in 0..Len(q)
    BY <1>2, <1>9, <2>1
  <2>3. Due(l, q, i) <= Due(l, q, j)
    BY <1>2, <2>2, Later
  <2> QED BY <1>1, <2>1, <2>3
<1>10. Left(m) = [c \in Contexts |-> IF Left(l)[c] = -1 \/ c \in DueOf(Left(l), ms) THEN -1
                                     ELSE Left(l)[c] - ms]
  BY <1>4, <1>8
<1> QED BY <1>9, <1>10

\* One turn of the loop over the expired contexts takes its context off, links and all.
LEMMA Handled ==
    ASSUME NEW l, NEW x, NEW q, NEW e, Ordered(l, x, q, e), x # NULL,
           NEW m, m = [l EXCEPT !.next[x] = NULL, !.previous[x] = NULL]
    PROVE  /\ e # <<>> /\ Ordered(m, l.next[x], q, Tail(e))
           /\ Left(m) = Left(l)
<1>1. /\ l \in Lists /\ Rooted(l, q) /\ Chain(l, x, e) /\ Apart(q, e) /\ Loose(l, q, e)
      /\ q \in Seq(Contexts) /\ e \in Seq(Contexts) /\ Once(e)
  BY DEF Ordered, Rooted, Chain
<1>2. /\ Len(e) \in Nat /\ Len(e) # 0 /\ 1 \in 1..Len(e) /\ x = e[1] /\ x \in Contexts
           /\ In(e, x)
      /\ \A i, j \in 1..Len(e) : e[i] = e[j] => i = j
      /\ \A i \in 1..Len(e) : e[i] \in Contexts /\ l.next[e[i]] = IF i = Len(e) THEN NULL
           ELSE e[i + 1]
  <2>1. Len(e) \in Nat /\ \A i \in 1..Len(e) : e[i] \in Contexts
    BY <1>1, Elements
  <2>2. Len(e) # 0 /\ x = e[1]
    BY <1>1 DEF Chain
  <2>3. 1 \in 1..Len(e)
    BY <2>1, <2>2
  <2> QED BY <1>1, <2>1, <2>2, <2>3 DEF Chain, Once, In
<1>3. /\ e # <<>> /\ Tail(e) \in Seq(Contexts) /\ Len(Tail(e)) = Len(e) - 1
      /\ \A i \in 1..Len(e) - 1 : i + 1 \in 1..Len(e) /\ Tail(e)[i] = e[i + 1]
  <2>1. e # <<>>
    BY <1>2, EmptySeq
  <2>2. \A i \in 1..Len(e) - 1 : i + 1 \in 1..Len(e)
    BY <1>2
  <2>3. Tail(e) \in Seq(Contexts) /\ Len(Tail(e)) = Len(e) - 1
          /\ \A i \in 1..Len(Tail(e)) : Tail(e)[i] = e[i + 1]
    BY <1>1, <2>1, HeadTailProperties
  <2> QED BY <2>1, <2>2, <2>3
<1> DEFINE f == Tail(e)
<1>4. /\ m.head = l.head /\ m.timeout_left_ms = l.timeout_left_ms
      /\ m.next = [l.next EXCEPT ![x] = NULL]
      /\ m.previous = [l.previous EXCEPT ![x] = NULL]
      /\ m \in Lists
  BY <1>1, <1>2 DEF Lists, Pointers
<1>5. /\ l.next \in [Contexts -> Pointers] /\ l.previous \in [Contexts -> Pointers]
  BY <1>1 DEF Lists
<1>6. \A c \in Contexts :
        m.next[c] = (IF c = x THEN NULL ELSE l.next[c]) /\ m.previous[c] = IF c = x
            THEN NULL ELSE l.previous[c]
  BY <1>4, <1>5
<1> HIDE DEF f
<1>7. /\ f \in Seq(Contexts) /\ Len(f) = Len(e) - 1
      /\ \A i \in 1..Len(e) - 1 : i + 1 \in 1..Len(e) /\ f[i] = e[i + 1]
  BY <1>3 DEF f
<1>8. Rooted(m, q)
  <2>1. Len(q) \in Nat /\ \A i \in 1..Len(q) : q[i] \in Contexts /\ q[i] # x
    <3>1. Len(q) \in Nat /\ \A i \in 1..Len(q) : q[i] \in Contexts
      BY <1>1, Elements
    <3> QED BY <1>1, <1>2, <3>1 DEF Apart, In
  <2> QED BY <1>1, <1>4, <1>6, <2>1 DEF Rooted, Chain
<1>9. Chain(m, l.next[x], f)
  <2>1. Once(f)
    <3>1. ASSUME NEW i \in 1..Len(e) - 1, NEW j \in 1..Len(e) - 1, f[i] = f[j] PROVE i = j
      <4>1. i + 1 = j + 1
        BY <1>2, <1>7, <3>1
      <4> QED BY <1>2, <4>1
    <3> QED BY <1>7, <3>1 DEF Once
  <2>2. l.next[x] = IF Len(f) = 0 THEN NULL ELSE f[1]
    <3>1. l.next[x] = IF 1 = Len(e) THEN NULL ELSE e[1 + 1]
      BY <1>2
    <3>2. 1 = Len(e) <=> Len(f) = 0
      BY <1>2, <1>7
    <3>3. Len(f) # 0 => f[1] = e[1 + 1]
      <4>1. Len(f) # 0 => 1 \in 1..Len(e) - 1
        BY <1>2, <1>7
      <4> QED BY <1>7, <4>1
    <3> QED BY <3>1, <3>2, <3>3
  <2>3. ASSUME NEW i \in 1..Len(f)
        PROVE  m.next[f[i]] = IF i = Len(f) THEN NULL ELSE f[i + 1]
    <3>1. i + 1 \in 1..Len(e) /\ f[i] = e[i + 1]
      BY <1>7
    <3>2. i + 1 # 1 /\ (i = Len(f) <=> i + 1 = Len(e))
            /\ (i # Len(f) => i + 1 \in 1..Len(e) - 1)
      BY <1>2, <1>7
    <3>3. e[i + 1] # x /\ e[i + 1] \in Contexts
      BY <1>2, <3>1, <3>2
    <3>4. l.next[e[i + 1]] = IF i + 1 = Len(e) THEN NULL ELSE e[i + 1 + 1]
      BY <1>2, <3>1
    <3>5. i # Len(f) => f[i + 1] = e[i + 1 + 1]
      BY <1>7, <3>2
    <3> QED BY <1>6, <3>1, <3>2, <3>3, <3>4, <3>5
  <2> QED BY <1>7, <2>1, <2>2, <2>3 DEF Chain
<1>10. \A c : In(e, c) <=> c = x \/ In(f, c)
  <2>1. ASSUME NEW c, In(e, c), c # x PROVE In(f, c)
    <3>1. PICK i \in 1..Len(e) : e[i] = c
      BY <2>1 DEF In
    <3>2. i # 1
      BY <1>2, <2>1, <3>1
    <3>3. i - 1 \in 1..Len(e) - 1 /\ i - 1 + 1 = i
      BY <1>2, <3>2
    <3> QED BY <1>7, <3>1, <3>3 DEF In
  <2>2. ASSUME NEW c, In(f, c) PROVE In(e, c)
    BY <1>7, <2>2 DEF In
  <2> QED BY <1>2, <2>1, <2>2
<1>11. Apart(q, f)
  BY <1>1, <1>10 DEF Apart
<1>12. Loose(m, q, f)
  BY <1>1, <1>6, <1>10 DEF Loose
<1>13. Ordered(m, l.next[x], q, Tail(e))
  BY <1>4, <1>8, <1>9, <1>11, <1>12 DEF Ordered, f
<1>14. \A k : Due(m, q, k) = Due(l, q, k)
  BY <1>4 DEF Due
<1>15. Left(m) = Left(l)
  <2>1. Nodes(m) = q /\ Nodes(l) = q
    BY <1>1, <1>4, <1>8, NodesOf DEF Nodes, Rooted
  <2> QED BY <1>14, <2>1 DEF Left
<1> QED BY <1>3, <1>13, <1>15

-----------------------------------------------------------------------------
(* The specification *)

\* The inductive invariant.
InOrder == \E q, e : Ordered(list, expired, q, e)

\* A cursor at the null pointer: no context waits to be handled.
LEMMA SortedIfFree ==
    ASSUME NEW l, NEW q, NEW e, Ordered(l, NULL, q, e)
    PROVE  e = <<>> /\ Sorted(l, q)
<1>1. e \in Seq(Contexts) /\ Chain(l, NULL, e)
  BY DEF Ordered, Chain
<1>2. Len(e) = 0
  <2>1. ASSUME Len(e) # 0 PROVE FALSE
    <3>1. Len(e) \in Nat /\ \A i \in 1..Len(e) : e[i] # NULL
      BY <1>1, Elements
    <3>2. 1 \in 1..Len(e)
      BY <2>1, <3>1
    <3> QED BY <1>1, <2>1, <3>1, <3>2 DEF Chain
  <2> QED BY <2>1
<1>3. e = <<>>
  BY <1>1, <1>2, EmptySeq
<1> QED BY <1>3 DEF Sorted

\* The walks from the head and from the cursor see the two lists.
LEMMA Orders ==
    ASSUME NEW l, NEW x, NEW q, NEW e, Ordered(l, x, q, e)
    PROVE  Nodes(l) = q /\ NodesFrom(l, x) = e
  BY NodesOf DEF Ordered, Rooted, Nodes

\* The list is empty at first.
LEMMA OrderedAtFirst == Init => Sorted(list, <<>>)
<1> SUFFICES ASSUME Init PROVE Sorted(list, <<>>)
  OBVIOUS
<1>1. /\ list.head = NULL
      /\ list.next = [c \in Contexts |-> NULL] /\ list.previous = [c \in Contexts |-> NULL]
      /\ list \in Lists
  BY DEF Init, Lists, Pointers
<1>2. <<>> \in Seq(Contexts) /\ Len(<<>>) = 0 /\ Once(<<>>)
  BY EmptySeq DEF Once
<1>3. \A i : i \notin 1..0
  BY SMT
<1> QED BY <1>1, <1>2, <1>3, SortedFrom

\* `timerlock` free: the list is all there is.
LEMMA FreeIsSorted ==
    ASSUME InOrder, Unlocked
    PROVE  \E q : Sorted(list, q)
  BY SortedIfFree DEF InOrder, Unlocked

\* pbntf_got_socket starts the context's timer.
LEMMA GotSocketStep ==
    ASSUME NEW q, Sorted(list, q), NEW c \in Contexts, NEW ms \in Timeouts, GotSocket(c, ms)
    PROVE  \E p : Sorted(list', p) /\ Left(list') = [Left(list) EXCEPT ![c] = ms]
<1>1. ms \in Nat
  BY TimesArePositive
<1>2. list' = pubnub_timer_list_add(list, c, ms) /\ c \notin ToSet(Nodes(list))
  BY DEF GotSocket
<1>3. Nodes(list) = q
  BY SortedFacts, NodesOf DEF Nodes, Rooted
<1>4. ~ In(q, c)
  BY <1>2, <1>3, SortedFacts DEF ToSet, In
<1> QED BY <1>1, <1>2, <1>4, Added

\* A timer started again counts from its new time, whether one ran or not.
LEMMA StartTimerStep ==
    ASSUME NEW q, Sorted(list, q), NEW c \in Contexts, NEW ms \in Timeouts,
           StartTimer(c, ms)
    PROVE  \E p : Sorted(list', p) /\ Left(list') = [Left(list) EXCEPT ![c] = ms]
<1>1. ms \in Nat
  BY TimesArePositive
<1> DEFINE m == pbpal_remove_timer_safe(list, c)
<1>2. list' = pubnub_timer_list_add(m, c, ms)
  BY DEF StartTimer
<1>3. PICK p : Sorted(m, p) /\ ~ In(p, c) /\ Left(m) = [Left(list) EXCEPT ![c] = -1]
  BY Removed
<1> HIDE DEF m
<1>4. PICK r : Sorted(list', r) /\ Left(list') = [Left(m) EXCEPT ![c] = ms]
  <2>1. \A s : Sorted(s, p) /\ list' = pubnub_timer_list_add(s, c, ms)
               => \E r : Sorted(list', r) /\ Left(list') = [Left(s) EXCEPT ![c] = ms]
    BY <1>1, <1>3, Added
  <2> QED BY <1>2, <1>3, <2>1
<1>5. Left(list') = [Left(list) EXCEPT ![c] = ms]
  <2>1. DOMAIN Left(list) = Contexts
    BY DEF Left
  <2> QED BY <1>3, <1>4, <2>1
<1> QED BY <1>4, <1>5

\* pbntf_lost_socket stops the context's timer, if one ran.
LEMMA LostSocketStep ==
    ASSUME NEW q, Sorted(list, q), NEW c \in Contexts, LostSocket(c)
    PROVE  \E p : Sorted(list', p) /\ Left(list') = [Left(list) EXCEPT ![c] = -1]
<1>1. list' = pbpal_remove_timer_safe(list, c)
  BY DEF LostSocket
<1>2. PICK p : Sorted(pbpal_remove_timer_safe(list, c), p) /\ ~ In(p, c)
               /\ Left(pbpal_remove_timer_safe(list, c)) = [Left(list) EXCEPT ![c] = -1]
  BY Removed
<1> QED BY <1>1, <1>2

\* The time the watcher measured is taken off all timers at once, and the expired are
\* handed over in the order they ran out.
LEMMA TimePassesStep ==
    ASSUME NEW q, Sorted(list, q), NEW ms \in Ticks, TimePasses(ms)
    PROVE  \E p, e :
              LET due == DueOf(Left(list), ms)
              IN  /\ Ordered(list', expired', p, e)
                  /\ Left(list') = [c \in Contexts |-> IF Left(list)[c] = -1 \/ c \in due
                       THEN -1
                                                       ELSE Left(list)[c] - ms]
                  /\ e \in [1..Cardinality(due) -> due]
                  /\ Len(e) = Cardinality(due)
                  /\ {e[i] : i \in DOMAIN e} = due
                  /\ \A i, j \in DOMAIN e : i < j => Left(list)[e[i]] <= Left(list)[e[j]]
<1>1. ms \in Nat
  BY TimesArePositive
<1> DEFINE n == ExpiredCount(list, ms)
           due == DueOf(Left(list), ms)
<1>2. /\ list' = pubnub_timer_list_as_time_goes_by(list, ms)
      /\ expired' = IF n > 0 THEN list.head ELSE NULL
  BY DEF TimePasses
<1> HIDE DEF n
<1>3. n \in 0..Len(q) /\ q \in Seq(Contexts) /\ Len(q) \in Nat /\ n \in Nat
  <2>1. n \in 0..Len(q) /\ q \in Seq(Contexts) /\ Len(q) \in Nat
    BY <1>1, Cut, SortedFacts DEF n
  <2> QED BY <2>1
<1>4. PICK e, p : Split(q, n, e, p)
  BY <1>3, Splits
<1>5. Ordered(list', expired', p, e)
  BY <1>1, <1>2, <1>4, Cutting DEF n
<1>6. /\ Left(list') = [c \in Contexts |-> IF Left(list)[c] = -1 \/ c \in due THEN -1
                                           ELSE Left(list)[c] - ms]
      /\ \A i, j \in 1..n : i < j => Left(list)[e[i]] <= Left(list)[e[j]]
  BY <1>1, <1>2, <1>4, Elapsed DEF n
<1>7. /\ \A x : In(e, x) <=> x \in due
      /\ Cardinality(due) = n
  BY <1>1, <1>4, ExpiredSet DEF n
<1>8. Len(e) = n /\ DOMAIN e = 1..n /\ e = [i \in 1..n |-> e[i]]
  <2>1. e \in Seq(Contexts) /\ Len(e) = n
    BY <1>4 DEF Split
  <2> QED BY <2>1, LenProperties
<1> HIDE DEF due
<1>9. \A i \in DOMAIN e : e[i] \in due
  BY <1>7, <1>8 DEF In
<1>10. {e[i] : i \in DOMAIN e} = due
  BY <1>7, <1>8, <1>9 DEF In
<1>11. e \in [1..Cardinality(due) -> due]
  <2> DEFINE A == 1..n
  <2>1. e = [i \in A |-> e[i]] /\ \A i \in A : e[i] \in due
    BY <1>8, <1>9
  <2> HIDE DEF A
  <2>2. e \in [A -> due]
    BY <2>1
  <2> QED BY <1>7, <2>2 DEF A
<1>12. \A i, j \in DOMAIN e : i < j => Left(list)[e[i]] <= Left(list)[e[j]]
  BY <1>6, <1>8
<1> QED BY <1>5, <1>6, <1>7, <1>8, <1>10, <1>11, <1>12 DEF due

\* A turn of the loop handles the expired context that ran out first.
LEMMA HandleExpiredStep ==
    ASSUME NEW q, NEW e, Ordered(list, expired, q, e), HandleExpired
    PROVE  e # <<>> /\ Ordered(list', expired', q, Tail(e)) /\ Left(list') = Left(list)
<1>1. /\ expired # NULL /\ expired' = list.next[expired]
      /\ list' = [list EXCEPT !.next[expired] = NULL, !.previous[expired] = NULL]
  BY DEF HandleExpired
<1> QED BY <1>1, Handled

\* Every operation keeps the list in order.
LEMMA InOrderStep == InOrder /\ [Next]_vars => InOrder'
<1> SUFFICES ASSUME InOrder, [Next]_vars PROVE InOrder'
  OBVIOUS
<1>1. ASSUME Unlocked, UNCHANGED expired, NEW p, Sorted(list', p) PROVE InOrder'
  BY <1>1 DEF Unlocked, InOrder, Sorted
<1>2. ASSUME NEW c \in Contexts, NEW ms \in Timeouts, GotSocket(c, ms) PROVE InOrder'
  <2>1. Unlocked /\ UNCHANGED expired
    BY <1>2 DEF GotSocket
  <2>2. PICK q : Sorted(list, q)
    BY <2>1, FreeIsSorted
  <2> QED BY <1>1, <1>2, <2>1, <2>2, GotSocketStep
<1>3. ASSUME NEW c \in Contexts, NEW ms \in Timeouts, StartTimer(c, ms) PROVE InOrder'
  <2>1. Unlocked /\ UNCHANGED expired
    BY <1>3 DEF StartTimer
  <2>2. PICK q : Sorted(list, q)
    BY <2>1, FreeIsSorted
  <2> QED BY <1>1, <1>3, <2>1, <2>2, StartTimerStep
<1>4. ASSUME NEW c \in Contexts, LostSocket(c) PROVE InOrder'
  <2>1. Unlocked /\ UNCHANGED expired
    BY <1>4 DEF LostSocket
  <2>2. PICK q : Sorted(list, q)
    BY <2>1, FreeIsSorted
  <2> QED BY <1>1, <1>4, <2>1, <2>2, LostSocketStep
<1>5. ASSUME NEW ms \in Ticks, TimePasses(ms) PROVE InOrder'
  <2>1. Unlocked
    BY <1>5 DEF TimePasses
  <2>2. PICK q : Sorted(list, q)
    BY <2>1, FreeIsSorted
  <2>3. \E p, e : Ordered(list', expired', p, e)
    BY <1>5, <2>2, TimePassesStep
  <2> QED BY <2>3 DEF InOrder
<1>6. ASSUME HandleExpired PROVE InOrder'
  <2>1. PICK q, e : Ordered(list, expired, q, e)
    BY DEF InOrder
  <2>2. Ordered(list', expired', q, Tail(e))
    BY <1>6, <2>1, HandleExpiredStep
  <2> QED BY <2>2 DEF InOrder
<1>7. CASE UNCHANGED vars
  BY <1>7 DEF vars, InOrder
<1> QED BY <1>2, <1>3, <1>4, <1>5, <1>6, <1>7 DEF Next

\* The list and the expired contexts stay in order through every operation of
\* core/pubnub_timer_list.c and core/pbpal_ntf_callback_handle_timer_list.c.
THEOREM AlwaysInOrder == Spec => []InOrder
<1>1. Init => InOrder
  BY OrderedAtFirst DEF Init, InOrder, Sorted
<1>2. InOrder /\ [Next]_vars => InOrder'
  BY InOrderStep
<1> QED BY <1>1, <1>2, PTL DEF Spec

\* Pointers point to contexts and no delta gets negative, for any number of contexts
\* and all times: pubnub_timer_list_add and _as_time_goes_by subtract deltas from times.
THEOREM TypeCorrect == Spec => []TypeOK
<1>1. InOrder => TypeOK
  <2> SUFFICES ASSUME InOrder PROVE TypeOK
    OBVIOUS
  <2>1. PICK q, e : Ordered(list, expired, q, e)
    BY DEF InOrder
  <2>2. list \in Lists /\ Chain(list, expired, e) /\ e \in Seq(Contexts)
    BY <2>1 DEF Ordered, Chain
  <2>3. expired \in Pointers
    <3>1. CASE Len(e) = 0
      BY <2>2, <3>1 DEF Chain, Pointers
    <3>2. CASE Len(e) # 0
      <4>1. Len(e) \in Nat /\ \A i \in 1..Len(e) : e[i] \in Contexts
        BY <2>2, Elements
      <4>2. 1 \in 1..Len(e)
        BY <3>2, <4>1
      <4> QED BY <2>2, <3>2, <4>1, <4>2 DEF Chain, Pointers
    <3> QED BY <3>1, <3>2
  <2> QED BY <2>2, <2>3 DEF Lists, TypeOK
<1> QED BY <1>1, AlwaysInOrder, PTL

\* The list and the expired contexts are acyclic and disjoint and the list is linked
\* both ways: no operation leaves a stale link behind.
THEOREM AlwaysWellLinked == Spec => []WellLinked
<1>1. InOrder => WellLinked
  <2> SUFFICES ASSUME InOrder PROVE WellLinked
    OBVIOUS
  <2>1. PICK q, e : Ordered(list, expired, q, e)
    BY DEF InOrder
  <2>2. Nodes(list) = q /\ NodesFrom(list, expired) = e
    BY <2>1, Orders
  <2>3. /\ Rooted(list, q) /\ Apart(q, e) /\ q \in Seq(Contexts) /\ e \in Seq(Contexts)
        /\ Once(q) /\ Once(e)
    BY <2>1 DEF Ordered, Rooted, Chain
  <2>4. Linked(q)
    BY <2>3 DEF Rooted, Linked
  <2>5. /\ Len(q) \in Nat /\ Len(e) \in Nat
        /\ \A i \in 1..Len(q) : q[i] \in Contexts
    BY <2>3, Elements
  <2> DEFINE s == q \o e
  <2>6. /\ s \in Seq(Contexts) /\ Len(s) = Len(q) + Len(e)
        /\ \A i \in 1..Len(q) + Len(e) : s[i] = IF i <= Len(q) THEN q[i] ELSE e[i - Len(q)]
    BY <2>3, ConcatProperties
  <2> HIDE DEF s
  <2>7. DOMAIN s = 1..Len(q) + Len(e)
    BY <2>6, LenProperties
  <2>8. ASSUME NEW i \in 1..Len(q) + Len(e), NEW j \in 1..Len(q) + Len(e), s[i] = s[j]
        PROVE  i = j
    <3>1. /\ i <= Len(q) => i \in 1..Len(q) /\ s[i] = q[i]
          /\ ~ (i <= Len(q)) => i - Len(q) \in 1..Len(e) /\ s[i] = e[i - Len(q)]
      BY <2>5, <2>6
    <3>2. /\ j <= Len(q) => j \in 1..Len(q) /\ s[j] = q[j]
          /\ ~ (j <= Len(q)) => j - Len(q) \in 1..Len(e) /\ s[j] = e[j - Len(q)]
      BY <2>5, <2>6
    <3>3. \A a \in 1..Len(q), b \in 1..Len(e) : q[a] # e[b]
      BY <2>3, <2>5 DEF Apart, In
    <3>4. CASE i <= Len(q) /\ j <= Len(q)
      BY <2>3, <2>8, <3>1, <3>2, <3>4 DEF Once
    <3>5. CASE i <= Len(q) /\ ~ (j <= Len(q))
      BY <2>8, <3>1, <3>2, <3>3, <3>5
    <3>6. CASE ~ (i <= Len(q)) /\ j <= Len(q)
      BY <2>8, <3>1, <3>2, <3>3, <3>6
    <3>7. CASE ~ (i <= Len(q)) /\ ~ (j <= Len(q))
      <4>1. i - Len(q) = j - Len(q)
        BY <2>3, <2>8, <3>1, <3>2, <3>7 DEF Once
      <4> QED BY <2>5, <4>1
    <3> QED BY <3>4, <3>5, <3>6, <3>7
  <2>9. IsInjective(s)
    BY <2>7, <2>8 DEF IsInjective
  <2> QED BY <2>2, <2>4, <2>9 DEF WellLinked, s
<1> QED BY <1>1, AlwaysInOrder, PTL

\* pbpal_remove_timer_safe never takes an unlisted context for a listed one, or the
\* other way round, whenever `timerlock` is free.
THEOREM RemovalAlwaysExact == Spec => []SafeRemovalIsExact
<1>1. InOrder => SafeRemovalIsExact
  <2> SUFFICES ASSUME InOrder, Unlocked, NEW c \in Contexts
               PROVE  (list.previous[c] # NULL \/ list.next[c] # NULL \/ c = list.head)
                         <=> c \in ToSet(Nodes(list))
    BY DEF SafeRemovalIsExact
  <2>1. PICK q : Sorted(list, q)
    BY FreeIsSorted
  <2>2. Nodes(list) = q /\ DOMAIN q = 1..Len(q)
    BY <2>1, SortedFacts, NodesOf DEF Nodes, Rooted
  <2>3. c \in ToSet(q) <=> In(q, c)
    BY <2>2 DEF ToSet, In
  <2> QED BY <2>1, <2>2, <2>3, SafeTest
<1> QED BY <1>1, AlwaysInOrder, PTL

\* The Cardinality of Timers.tla is the one of this module.
LEMMA CountdownCounts ==
    ASSUME NEW S
    PROVE  Countdown!Cardinality(S) = Cardinality(S)
  BY DEF Countdown!Cardinality, Cardinality

\* The refinement mapping is the time left on the list.
LEMMA RemainingIs == remainingMs = Left(list) /\ remainingMs' = Left(list')
  BY DEF remainingMs, Left

\* The delta list implements independent countdown timers: every operation on it is
\* the one of Timers.tla that starts, stops, elapses or expires.
THEOREM CountsDown == Spec => IsCountdown
<1> DEFINE exp == NodesFrom(list, expired)
<1>1. exp' = NodesFrom(list', expired')
  BY DEF NodesFrom
<1>2. Init => Countdown!Init
  <2> SUFFICES ASSUME Init PROVE Countdown!Init
    OBVIOUS
  <2>1. Sorted(list, <<>>) /\ expired = NULL
    BY OrderedAtFirst DEF Init
  <2>2. exp = <<>>
    BY <2>1, Orders DEF Sorted
  <2>3. \A x : ~ In(<<>>, x)
    BY EmptySeq DEF In
  <2>4. Left(list) = [c \in Contexts |-> -1]
    BY <2>1, <2>3, SortedFacts, LeftIs
  <2> QED BY <2>2, <2>4, RemainingIs DEF Countdown!Init, Countdown!Off
<1>3. InOrder /\ [Next]_vars => [Countdown!Next]_(Countdown!timerVars)
  <2> SUFFICES ASSUME InOrder, [Next]_vars PROVE [Countdown!Next]_(Countdown!timerVars)
    OBVIOUS
  <2>1. ASSUME Unlocked PROVE exp = <<>>
    <3>1. PICK q : Sorted(list, q)
      BY <2>1, FreeIsSorted
    <3> QED BY <2>1, <3>1, Orders DEF Sorted, Unlocked
  <2>2. ASSUME Unlocked, UNCHANGED expired, NEW p, Sorted(list', p) PROVE exp' = <<>>
    BY <1>1, <2>2, Orders DEF Sorted, Unlocked
  <2>3. ASSUME NEW c \in Contexts, NEW ms \in Timeouts,
               GotSocket(c, ms) \/ StartTimer(c, ms)
        PROVE  Countdown!Start(c, ms)
    <3>1. Unlocked /\ UNCHANGED expired
      BY <2>3 DEF GotSocket, StartTimer
    <3>2. PICK q : Sorted(list, q)
      BY <3>1, FreeIsSorted
    <3>3. PICK p : Sorted(list', p) /\ Left(list') = [Left(list) EXCEPT ![c] = ms]
      BY <2>3, <3>2, GotSocketStep, StartTimerStep
    <3>4. exp = <<>> /\ exp' = <<>>
      BY <2>1, <2>2, <3>1, <3>3
    <3> QED BY <3>3, <3>4, RemainingIs DEF Countdown!Start, Countdown!Unlocked
  <2>4. ASSUME NEW c \in Contexts, LostSocket(c) PROVE Countdown!Stop(c)
    <3>1. Unlocked /\ UNCHANGED expired
      BY <2>4 DEF LostSocket
    <3>2. PICK q : Sorted(list, q)
      BY <3>1, FreeIsSorted
    <3>3. PICK p : Sorted(list', p) /\ Left(list') = [Left(list) EXCEPT ![c] = -1]
      BY <2>4, <3>2, LostSocketStep
    <3>4. exp = <<>> /\ exp' = <<>>
      BY <2>1, <2>2, <3>1, <3>3
    <3> QED BY <3>3, <3>4, RemainingIs DEF Countdown!Stop, Countdown!Unlocked, Countdown!Off
  <2>5. ASSUME NEW ms \in Ticks, TimePasses(ms) PROVE Countdown!Elapse(ms)
    <3> DEFINE due == DueOf(Left(list), ms)
    <3>1. Unlocked
      BY <2>5 DEF TimePasses
    <3>2. PICK q : Sorted(list, q)
      BY <3>1, FreeIsSorted
    <3>3. PICK p, e :
              /\ Ordered(list', expired', p, e)
              /\ Left(list') = [c \in Contexts |-> IF Left(list)[c] = -1 \/ c \in due
                   THEN -1
                                                   ELSE Left(list)[c] - ms]
              /\ e \in [1..Cardinality(due) -> due]
              /\ Len(e) = Cardinality(due)
              /\ {e[i] : i \in DOMAIN e} = due
              /\ \A i, j \in DOMAIN e : i < j => Left(list)[e[i]] <= Left(list)[e[j]]
      BY <2>5, <3>2, TimePassesStep
    <3>4. exp = <<>> /\ exp' = e
      BY <1>1, <2>1, <3>1, <3>3, Orders
    <3>5. due = {c \in Contexts : remainingMs[c] # Countdown!Off /\ remainingMs[c] <= ms}
      BY RemainingIs DEF DueOf, Countdown!Off
    <3> HIDE DEF due
    <3>6. Countdown!InExpiryOrder(e, due)
      <4>1. remainingMs = Left(list)
        BY RemainingIs
      <4>2. Len(e) = Cardinality(due) /\ {e[i] : i \in DOMAIN e} = due
        BY <3>3
      <4>3. \A i, j \in DOMAIN e : i < j => remainingMs[e[i]] <= remainingMs[e[j]]
        BY <3>3, <4>1
      <4> QED BY <4>2, <4>3, CountdownCounts DEF Countdown!InExpiryOrder
    <3>7. e \in UNION {[1..k -> due] : k \in {Countdown!Cardinality(due)}}
      BY <3>3, CountdownCounts
    <3>8. remainingMs' = [c \in Contexts |-> IF remainingMs[c] = Countdown!Off \/ c \in due
                                             THEN Countdown!Off ELSE remainingMs[c] - ms]
      BY <3>3, RemainingIs DEF Countdown!Off
    <3>9. Countdown!Unlocked
      BY <2>1, <3>1 DEF Countdown!Unlocked
    <3> QED BY <3>4, <3>5, <3>6, <3>7, <3>8, <3>9 DEF Countdown!Elapse
  <2>6. ASSUME HandleExpired PROVE Countdown!Expire
    <3>1. PICK q, e : Ordered(list, expired, q, e)
      BY DEF InOrder
    <3>2. e # <<>> /\ Ordered(list', expired', q, Tail(e)) /\ Left(list') = Left(list)
      BY <2>6, <3>1, HandleExpiredStep
    <3>3. exp = e /\ exp' = Tail(e)
      BY <1>1, <3>1, <3>2, Orders
    <3> QED BY <3>2, <3>3, RemainingIs DEF Countdown!Expire
  <2>7. CASE UNCHANGED vars
    <3>1. exp' = exp /\ remainingMs' = remainingMs
      BY <1>1, <2>7, RemainingIs DEF vars
    <3> QED BY <3>1 DEF Countdown!timerVars
  <2> QED BY <2>3, <2>4, <2>5, <2>6, <2>7 DEF Next, Countdown!Next
<1> QED BY <1>2, <1>3, AlwaysInOrder, PTL DEF Spec, IsCountdown, Countdown!Spec
==============================================================================
