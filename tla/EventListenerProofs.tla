------------------------- MODULE EventListenerProofs -------------------------
(***************************************************************************)
(* The listeners of EventListener are told, kept and freed right, for any  *)
(* number of names, subscriptions, listeners and calls, and whatever a     *)
(* listener that is being called adds or removes.                          *)
(*                                                                         *)
(* IInv is the inductive invariant.  Its heart are the counters: what a    *)
(* listener's counter says depends on how it was added (StatusCounts,      *)
(* EventCounts, OneCounts, TwoCounts) and on the arrays it is in at the    *)
(* moment, and nothing is said of one that was added under more than two   *)
(* names, which pbcc_remove_listener_ frees too early.  Telling says of an *)
(* emission which listeners were told, which are ahead of the walk and which*)
(* are in the walk to come.                                                *)
(*                                                                         *)
(* The loops of lib/pbarray.c and of pbcc_remove_listener_ are recursive   *)
(* functions; what they compute follows from the values their turns meet   *)
(* (Iterates, Sifted, Thinned), by the first turn that would break it.     *)
(***************************************************************************)
EXTENDS EventListener, FiniteSetTheorems, SequenceTheorems, NaturalsInduction,
        WellFoundedInduction, TLAPS

-----------------------------------------------------------------------------
(* Sequences without some elements *)

\* A set of numbers that has a member has a least one: induction over the turns of a
\* loop is by the first turn that would break the claim.
LEMMA Least ==
    ASSUME NEW S \in SUBSET Nat, S # {}
    PROVE  \E x \in S : \A y \in S : x <= y
<1> DEFINE R == {ss \in Nat \X Nat : ss[1] < ss[2]}
<1>1. IsWellFoundedOn(R, Nat)
  BY NatLessThanWellFounded DEF OpToRel
<1>2. \A x, y \in Nat : y < x => <<y, x>> \in R
  OBVIOUS
<1> HIDE DEF R
<1>3. PICK x \in S : \A y \in S : ~ (<<y, x>> \in R)
  BY <1>1, WFMin
<1>4. ASSUME NEW y \in S PROVE x <= y
  <2>1. ~ (y < x)
    BY <1>2, <1>3
  <2> QED BY <2>1
<1> QED BY <1>4

\* g are the values met when F is applied n times, the k-th time with k.
Iterates(n, b, F, V, g) ==
    /\ g \in [0..n -> V] /\ g[0] = b
    /\ \A k \in 1..n : g[k] = F[<<k, g[k - 1]>>]

\* A loop of n turns meets some values.
LEMMA IteratesExist ==
    ASSUME NEW n \in Nat, NEW V, NEW b \in V, NEW F \in [(1..n) \X V -> V]
    PROVE  \E g : Iterates(n, b, F, V, g)
<1> DEFINE S == {m \in 0..n : ~ \E g : Iterates(m, b, F, V, g)}
<1>1. ASSUME S # {} PROVE FALSE
  <2>1. S \in SUBSET Nat /\ S # {}
    BY <1>1
  <2>2. PICK m \in S : \A j \in S : m <= j
    <3> HIDE DEF S
    <3> QED BY <2>1, Least
  <2>3. m \in 0..n /\ ~ \E g : Iterates(m, b, F, V, g)
    OBVIOUS
  <2>4. CASE m = 0
    <3> DEFINE g == [k \in 0..0 |-> b]
    <3>1. g \in [0..0 -> V] /\ g[0] = b
      OBVIOUS
    <3>2. \A k \in 1..0 : FALSE
      OBVIOUS
    <3> HIDE DEF g
    <3>3. Iterates(0, b, F, V, g)
      BY <3>1, <3>2 DEF Iterates
    <3> QED BY <2>3, <2>4, <3>3
  <2>5. CASE m # 0
    <3>1. m - 1 \in 0..n /\ m \in 1..n /\ ~ (m <= m - 1) /\ m \in Nat
      BY <2>3, <2>5
    <3>2. m - 1 \notin S
      BY <2>2, <3>1
    <3>3. PICK g : Iterates(m - 1, b, F, V, g)
      BY <3>1, <3>2
    <3>4. g \in [0..m - 1 -> V] /\ g[0] = b /\ \A k \in 1..m - 1 : g[k] = F[<<k, g[k - 1]>>]
      BY <3>3 DEF Iterates
    <3> DEFINE v == F[<<m, g[m - 1]>>]
               e == [k \in 0..m |-> IF k = m THEN v ELSE g[k]]
    <3>5. v \in V
      <4>1. m - 1 \in 0..m - 1
        BY <3>1
      <4>2. g[m - 1] \in V
        BY <3>4, <4>1
      <4>3. <<m, g[m - 1]>> \in (1..n) \X V
        BY <3>1, <4>2
      <4> HIDE DEF v
      <4> QED BY <4>3 DEF v
    <3>6. ASSUME NEW k \in 0..m PROVE k # m => g[k] \in V
      <4>1. k # m => k \in 0..m - 1
        BY <3>1
      <4> QED BY <3>4, <4>1
    <3>7. DOMAIN e = 0..m /\ \A k \in 0..m : e[k] = IF k = m THEN v ELSE g[k]
      OBVIOUS
    <3>8. e \in [0..m -> V]
      <4> HIDE DEF v
      <4> QED BY <3>5, <3>6
    <3> HIDE DEF e
    <3>9. e[0] = b
      BY <2>5, <3>1, <3>4, <3>7
    <3>10. ASSUME NEW k \in 1..m PROVE e[k] = F[<<k, e[k - 1]>>]
      <4>1. k - 1 \in 0..m /\ k - 1 # m /\ k \in 0..m
        BY <3>1
      <4>2. e[k - 1] = g[k - 1]
        BY <3>7, <4>1
      <4>3. CASE k = m
        <5>1. e[k] = v
          BY <3>7, <4>1, <4>3
        <5> QED BY <4>2, <4>3, <5>1
      <4>4. CASE k # m
        <5>1. k \in 1..m - 1
          BY <3>1, <4>4
        <5>2. e[k] = g[k]
          BY <3>7, <4>1, <4>4
        <5>3. g[k] = F[<<k, g[k - 1]>>]
          BY <3>4, <5>1
        <5> QED BY <4>2, <5>2, <5>3
      <4> QED BY <4>3, <4>4
    <3> HIDE DEF v
    <3>11. Iterates(m, b, F, V, e)
      BY <3>8, <3>9, <3>10 DEF Iterates
    <3> QED BY <2>3, <3>11
  <2> QED BY <2>4, <2>5
<1>2. n \in 0..n
  OBVIOUS
<1> QED BY <1>1, <1>2

\* What s without S is made of, element by element
Sifted(s, S, g) ==
    /\ g \in [0..Len(s) -> Seq({s[i] : i \in 1..Len(s)})] /\ g[0] = <<>>
    /\ \A k \in 1..Len(s) : g[k] = IF s[k] \in S THEN g[k - 1] ELSE Append(g[k - 1], s[k])

\* Every sequence is sifted in some way.
LEMMA SiftedExists ==
    ASSUME NEW D, NEW s \in Seq(D), NEW S
    PROVE  \E g : Sifted(s, S, g)
<1> DEFINE V == Seq({s[i] : i \in 1..Len(s)})
           F == [p \in (1..Len(s)) \X V |-> IF s[p[1]] \in S THEN p[2] ELSE Append(p[2], s[p[1]])]
<1>1. Len(s) \in Nat
  BY LenProperties
<1>2. ASSUME NEW k \in 1..Len(s), NEW v \in V
      PROVE  (IF s[k] \in S THEN v ELSE Append(v, s[k])) \in V
  <2> DEFINE R == {s[i] : i \in 1..Len(s)}
  <2>1. s[k] \in R /\ v \in Seq(R)
    OBVIOUS
  <2> HIDE DEF R
  <2>2. Append(v, s[k]) \in Seq(R)
    BY <2>1, AppendProperties
  <2> QED BY <2>2 DEF R
<1>3. <<>> \in V
  BY EmptySeq
<1> HIDE DEF V
<1>4. F \in [(1..Len(s)) \X V -> V]
  <2>1. ASSUME NEW p \in (1..Len(s)) \X V
        PROVE  (IF s[p[1]] \in S THEN p[2] ELSE Append(p[2], s[p[1]])) \in V
    <3>1. p[1] \in 1..Len(s) /\ p[2] \in V
      OBVIOUS
    <3> QED BY <1>2, <3>1
  <2> QED BY <2>1
<1>5. \A k \in 1..Len(s), v \in V : F[<<k, v>>] = IF s[k] \in S THEN v ELSE Append(v, s[k])
  OBVIOUS
<1> HIDE DEF F
<1>6. PICK g : Iterates(Len(s), <<>>, F, V, g)
  BY <1>1, <1>3, <1>4, IteratesExist
<1>7. g \in [0..Len(s) -> V] /\ g[0] = <<>> /\ \A k \in 1..Len(s) : g[k] = F[<<k, g[k - 1]>>]
  BY <1>6 DEF Iterates
<1>8. ASSUME NEW k \in 1..Len(s)
      PROVE  g[k] = IF s[k] \in S THEN g[k - 1] ELSE Append(g[k - 1], s[k])
  <2>1. k - 1 \in 0..Len(s)
    BY <1>1
  <2>2. g[k - 1] \in V
    BY <1>7, <2>1
  <2> QED BY <1>5, <1>7, <2>2
<1>9. Sifted(s, S, g)
  BY <1>7, <1>8 DEF Sifted, V
<1> QED BY <1>9

\* Without is any function that satisfies its equation.
LEMMA WithoutIs ==
    ASSUME NEW D, NEW s \in Seq(D), NEW S, NEW g, Sifted(s, S, g)
    PROVE  Without(s, S) = g[Len(s)]
<1> DEFINE step(f) == [k \in 0..Len(s) |->
                          IF k = 0 THEN <<>>
                          ELSE IF s[k] \in S THEN f[k - 1] ELSE Append(f[k - 1], s[k])]
           up == CHOOSE f : f = step(f)
<1>1. Len(s) \in Nat
  BY LenProperties
<1>2. g = [k \in 0..Len(s) |-> g[k]] /\ g[0] = <<>>
  BY DEF Sifted
<1>3. \A k \in 0..Len(s) :
         g[k] = IF k = 0 THEN <<>>
                ELSE IF s[k] \in S THEN g[k - 1] ELSE Append(g[k - 1], s[k])
  <2>1. ASSUME NEW k \in 0..Len(s), k # 0 PROVE k \in 1..Len(s)
    BY <1>1, <2>1
  <2> QED BY <1>2, <2>1 DEF Sifted
<1>4. g = step(g)
  BY <1>2, <1>3
<1>5. up = step(up)
  BY <1>4
<1> HIDE DEF up
<1>6. \A k \in 0..Len(s) :
         up[k] = IF k = 0 THEN <<>>
                 ELSE IF s[k] \in S THEN up[k - 1] ELSE Append(up[k - 1], s[k])
  BY <1>5
<1>7. \A k \in 0..Len(s) : up[k] = g[k]
  <2> DEFINE T == {k \in 0..Len(s) : up[k] # g[k]}
  <2>1. ASSUME T # {} PROVE FALSE
    <3>1. T \in SUBSET Nat /\ T # {}
      BY <1>1, <2>1
    <3>2. PICK k \in T : \A j \in T : k <= j
      <4> HIDE DEF T
      <4> QED BY <3>1, Least
    <3>3. k \in 0..Len(s) /\ up[k] # g[k]
      OBVIOUS
    <3>4. k # 0 => up[k - 1] = g[k - 1]
      <4>1. ASSUME k # 0 PROVE k - 1 \in 0..Len(s) /\ ~ (k <= k - 1)
        BY <1>1, <3>3, <4>1
      <4> QED BY <3>2, <4>1
    <3>5. up[k] = IF k = 0 THEN <<>> ELSE IF s[k] \in S THEN up[k - 1] ELSE Append(up[k - 1], s[k])
      BY <1>6, <3>3
    <3>6. g[k] = IF k = 0 THEN <<>> ELSE IF s[k] \in S THEN g[k - 1] ELSE Append(g[k - 1], s[k])
      BY <1>3, <3>3
    <3> QED BY <3>3, <3>4, <3>5, <3>6
  <2> QED BY <2>1
<1>8. Len(s) \in 0..Len(s)
  BY <1>1
<1>9. Without(s, S) = up[Len(s)]
  BY DEF Without, up
<1> QED BY <1>7, <1>8, <1>9

\* No element is in s twice.
Once(s) == \A i, j \in 1..Len(s) : s[i] = s[j] => i = j

\* pbarray_remove_: what is left are the other elements, once if they were there once.
LEMMA WithoutFacts ==
    ASSUME NEW D, NEW s \in Seq(D), NEW S
    PROVE  /\ Without(s, S) \in Seq(D)
           /\ Len(Without(s, S)) <= Len(s)
           /\ ToSet(Without(s, S)) = ToSet(s) \ S
           /\ Once(s) => Once(Without(s, S))
<1>1. Len(s) \in Nat /\ DOMAIN s = 1..Len(s) /\ \A i \in 1..Len(s) : s[i] \in D
  BY LenProperties, ElementOfSeq
<1>2. PICK g : Sifted(s, S, g)
  BY SiftedExists
<1>3. Without(s, S) = g[Len(s)]
  BY <1>2, WithoutIs
<1>4. /\ g[0] = <<>>
      /\ \A k \in 1..Len(s) : g[k] = IF s[k] \in S THEN g[k - 1] ELSE Append(g[k - 1], s[k])
  BY <1>2 DEF Sifted
<1> DEFINE Ok(k) == /\ g[k] \in Seq(D) /\ Len(g[k]) <= k
                    /\ \A j \in 1..Len(g[k]) : \E i \in 1..k : g[k][j] = s[i] /\ s[i] \notin S
                    /\ \A i \in 1..k : s[i] \notin S => \E j \in 1..Len(g[k]) : g[k][j] = s[i]
                    /\ Once(s) => Once(g[k])
           T == {k \in 0..Len(s) : ~ Ok(k)}
<1>5. ASSUME T # {} PROVE FALSE
  <2>1. T \in SUBSET Nat /\ T # {}
    <3> HIDE DEF Ok
    <3> QED BY <1>1, <1>5
  <2>2. PICK k \in T : \A j \in T : k <= j
    <3> HIDE DEF T
    <3> QED BY <2>1, Least
  <2>3. k \in 0..Len(s) /\ ~ Ok(k)
    OBVIOUS
  <2>4. CASE k = 0
    <3>1. <<>> \in Seq(D) /\ Len(<<>>) = 0
      BY EmptySeq
    <3>2. g[0] \in Seq(D) /\ Len(g[0]) = 0
      BY <1>4, <3>1
    <3>3. \A i \in 1..0 : FALSE
      OBVIOUS
    <3>4. Once(g[0])
      BY <3>2 DEF Once
    <3>5. Ok(0)
      BY <3>2, <3>3, <3>4
    <3> QED BY <2>3, <2>4, <3>5
  <2>5. CASE k # 0
    <3>1. k \in 1..Len(s) /\ k - 1 \in 0..Len(s) /\ ~ (k <= k - 1) /\ k \in Nat
      BY <1>1, <2>3, <2>5
    <3>2. Ok(k - 1)
      BY <2>2, <3>1
    <3> DEFINE a == g[k - 1]
    <3>3. /\ a \in Seq(D) /\ Len(a) <= k - 1
          /\ \A j \in 1..Len(a) : \E i \in 1..k - 1 : a[j] = s[i] /\ s[i] \notin S
          /\ \A i \in 1..k - 1 : s[i] \notin S => \E j \in 1..Len(a) : a[j] = s[i]
          /\ Once(s) => Once(a)
      BY <3>2
    <3>4. g[k] = IF s[k] \in S THEN a ELSE Append(a, s[k])
      BY <1>4, <3>1
    <3> HIDE DEF a
    <3>5. \A i \in 1..k : i \in 1..k - 1 \/ i = k
      BY <3>1
    <3>6. 1..k - 1 \subseteq 1..k /\ k \in 1..k
      BY <3>1
    <3>7. CASE s[k] \in S
      <4>1. g[k] = a
        BY <3>4, <3>7
      <4>2. \A j \in 1..Len(a) : \E i \in 1..k : a[j] = s[i] /\ s[i] \notin S
        BY <3>3, <3>6
      <4>3. \A i \in 1..k : s[i] \notin S => \E j \in 1..Len(a) : a[j] = s[i]
        BY <3>3, <3>5, <3>7
      <4>4. Len(a) <= k
        <5>1. Len(a) \in Nat
          BY <3>3, LenProperties
        <5> QED BY <3>1, <3>3, <5>1
      <4>5. Ok(k)
        BY <3>3, <4>1, <4>2, <4>3, <4>4
      <4> QED BY <2>3, <4>5
    <3>8. CASE s[k] \notin S
      <4> DEFINE b == Append(a, s[k])
      <4>1. Len(a) \in Nat
        BY <3>3, LenProperties
      <4>2. b \in Seq(D) /\ Len(b) = Len(a) + 1 /\ (\A i \in 1..Len(a) : b[i] = a[i])
              /\ b[Len(a) + 1] = s[k]
        BY <1>1, <3>1, <3>3, AppendProperties
      <4>3. g[k] = b
        BY <3>4, <3>8
      <4> HIDE DEF b
      <4>4. \A j \in 1..Len(b) : j \in 1..Len(a) \/ j = Len(a) + 1
        BY <4>1, <4>2
      <4>5. 1..Len(a) \subseteq 1..Len(b) /\ Len(a) + 1 \in 1..Len(b)
        BY <4>1, <4>2
      <4>6. \A j \in 1..Len(b) : \E i \in 1..k : b[j] = s[i] /\ s[i] \notin S
        <5>1. ASSUME NEW j \in 1..Len(b) PROVE \E i \in 1..k : b[j] = s[i] /\ s[i] \notin S
          <6>1. CASE j \in 1..Len(a)
            BY <3>3, <3>6, <4>2, <6>1
          <6>2. CASE j = Len(a) + 1
            BY <3>6, <3>8, <4>2, <6>2
          <6> QED BY <4>4, <6>1, <6>2
        <5> QED BY <5>1
      <4>7. \A i \in 1..k : s[i] \notin S => \E j \in 1..Len(b) : b[j] = s[i]
        <5>1. ASSUME NEW i \in 1..k, s[i] \notin S PROVE \E j \in 1..Len(b) : b[j] = s[i]
          <6>1. CASE i \in 1..k - 1
            <7>1. PICK j \in 1..Len(a) : a[j] = s[i]
              BY <3>3, <5>1, <6>1
            <7>2. j \in 1..Len(b) /\ b[j] = s[i]
              BY <4>2, <4>5, <7>1
            <7> QED BY <7>2
          <6>2. CASE i = k
            BY <4>2, <4>5, <6>2
          <6> QED BY <3>5, <6>1, <6>2
        <5> QED BY <5>1
      <4>8. ASSUME Once(s) PROVE Once(b)
        <5>1. ASSUME NEW i \in 1..Len(a) PROVE b[i] # s[k]
          <6>1. PICK j \in 1..k - 1 : a[i] = s[j]
            BY <3>3
          <6>2. j # k /\ j \in 1..Len(s)
            BY <1>1, <3>1
          <6>3. s[j] # s[k]
            BY <3>1, <4>8, <6>2 DEF Once
          <6> QED BY <4>2, <6>1, <6>3
        <5>2. ASSUME NEW i \in 1..Len(b), NEW j \in 1..Len(b), b[i] = b[j] PROVE i = j
          <6>1. CASE i \in 1..Len(a) /\ j \in 1..Len(a)
            BY <3>3, <4>2, <4>8, <5>2, <6>1 DEF Once
          <6>2. CASE i = Len(a) + 1 \/ j = Len(a) + 1
            <7>1. i = Len(a) + 1 => b[i] = s[k] /\ j \notin 1..Len(a)
              BY <4>2, <5>1, <5>2
            <7>2. j = Len(a) + 1 => b[j] = s[k] /\ i \notin 1..Len(a)
              BY <4>2, <5>1, <5>2
            <7> QED BY <4>4, <6>2, <7>1, <7>2
          <6> QED BY <4>4, <6>1, <6>2
        <5> QED BY <5>2 DEF Once
      <4>9. Len(b) <= k
        BY <3>1, <3>3, <4>1, <4>2
      <4>10. Ok(k)
        BY <4>2, <4>3, <4>6, <4>7, <4>8, <4>9
      <4> QED BY <2>3, <4>10
    <3> QED BY <3>7, <3>8
  <2> QED BY <2>4, <2>5
<1>6. Len(s) \in 0..Len(s)
  BY <1>1
<1>7. Ok(Len(s))
  BY <1>5, <1>6
<1> DEFINE w == Without(s, S)
           n == Len(s)
<1>8. /\ w \in Seq(D) /\ Len(w) <= n
      /\ \A j \in 1..Len(w) : \E i \in 1..n : w[j] = s[i] /\ s[i] \notin S
      /\ \A i \in 1..n : s[i] \notin S => \E j \in 1..Len(w) : w[j] = s[i]
      /\ Once(s) => Once(w)
  BY <1>3, <1>7
<1> HIDE DEF w, n
<1>9. ToSet(w) = ToSet(s) \ S
  <2>1. DOMAIN w = 1..Len(w)
    BY <1>8, LenProperties
  <2>2. DOMAIN s = 1..n
    BY <1>1 DEF n
  <2>3. \A x : x \in ToSet(w) <=> \E j \in 1..Len(w) : w[j] = x
    BY <2>1 DEF ToSet
  <2>4. \A x : x \in ToSet(s) <=> \E j \in 1..n : s[j] = x
    BY <2>2 DEF ToSet
  <2>5. ASSUME NEW x \in ToSet(w) PROVE x \in ToSet(s) \ S
    <3>1. PICK j \in 1..Len(w) : w[j] = x
      BY <2>3
    <3>2. PICK i \in 1..n : w[j] = s[i] /\ s[i] \notin S
      BY <1>8
    <3> QED BY <2>4, <3>1, <3>2
  <2>6. ASSUME NEW x \in ToSet(s) \ S PROVE x \in ToSet(w)
    <3>1. PICK i \in 1..n : s[i] = x
      BY <2>4
    <3>2. PICK j \in 1..Len(w) : w[j] = s[i]
      BY <1>8, <3>1
    <3> QED BY <2>3, <3>1, <3>2
  <2> QED BY <2>5, <2>6
<1> QED BY <1>8, <1>9 DEF w, n

-----------------------------------------------------------------------------
(* Arrays (lib/pbarray.c) *)

\* An array there is, of elements of D
Sound(array, D) ==
    /\ array \in [elements : Seq(D), length : Nat \ {0}]
    /\ Len(array.elements) <= array.length
    /\ Once(array.elements)

\* An array is resized by at least one place: InitialLength is 2 or more.
LEMMA StepFacts ==
    InitialLength \div 2 \in Nat \ {0}
<1>1. InitialLength \in Nat /\ InitialLength >= 2
  BY LengthAssumption
<1> QED BY <1>1

\* pbarray_resize_ before an element is added: there is room for it.
LEMMA GrowFacts ==
    ASSUME NEW D, NEW a, Sound(a, D), NEW r, r = pbarray_resize_(a, TRUE)
    PROVE  /\ r \in [elements : Seq(D), length : Nat \ {0}]
           /\ r.elements = a.elements /\ Len(r.elements) < r.length
<1> DEFINE n == Len(a.elements)
           step == InitialLength \div 2
           m == a.length
           to == pbarray_target_length_(a, TRUE)
<1>1. n \in Nat /\ m \in Nat \ {0} /\ n <= m /\ a.elements \in Seq(D)
  BY LenProperties DEF Sound
<1>2. step \in Nat \ {0}
  BY StepFacts
<1>3. to = IF n < m THEN m ELSE m + step
  <2>1. TRUE \in BOOLEAN /\ ~ FALSE
    OBVIOUS
  <2>2. to = CASE TRUE /\ n < m -> m
               [] TRUE /\ n >= m -> m + step
               [] ~TRUE /\ m - n < step -> m
               [] ~TRUE /\ m - n >= step -> m - step
    BY DEF pbarray_target_length_
  <2> HIDE DEF to, n, m, step
  <2> QED BY <1>1, <2>2
<1>4. r = IF to = 0 THEN a ELSE [a EXCEPT !.length = to]
  BY DEF pbarray_resize_
<1>5. a = [elements |-> a.elements, length |-> a.length]
  BY DEF Sound
<1> HIDE DEF to, n, m, step
<1>6. to \in Nat \ {0} /\ n < to
  BY <1>1, <1>2, <1>3
<1>7. r = [a EXCEPT !.length = to]
  BY <1>4, <1>6
<1>8. a \in [elements : Seq(D), length : Nat \ {0}] /\ to \in Nat \ {0}
  BY <1>6 DEF Sound
<1>9. r \in [elements : Seq(D), length : Nat \ {0}] /\ r.elements = a.elements /\ r.length = to
  BY <1>7, <1>8
<1> QED BY <1>1, <1>6, <1>9 DEF n

\* pbarray_resize_ after elements were removed: those that are left fit, at the
\* boundary of count and length too.
LEMMA ShrinkFacts ==
    ASSUME NEW D, NEW a, Sound(a, D), NEW r, r = pbarray_resize_(a, FALSE)
    PROVE  Sound(r, D) /\ r.elements = a.elements
<1> DEFINE n == Len(a.elements)
           step == InitialLength \div 2
           m == a.length
           to == pbarray_target_length_(a, FALSE)
<1>1. n \in Nat /\ m \in Nat \ {0} /\ n <= m /\ a.elements \in Seq(D)
  BY LenProperties DEF Sound
<1>2. step \in Nat \ {0}
  BY StepFacts
<1>3. to = IF m - n < step THEN m ELSE m - step
  <2>1. to = CASE FALSE /\ n < m -> m
               [] FALSE /\ n >= m -> m + step
               [] ~FALSE /\ m - n < step -> m
               [] ~FALSE /\ m - n >= step -> m - step
    BY DEF pbarray_target_length_
  <2> HIDE DEF to, n, m, step
  <2> QED BY <1>1, <1>2, <2>1
<1>4. r = IF to = 0 THEN a ELSE [a EXCEPT !.length = to]
  BY DEF pbarray_resize_
<1>5. a = [elements |-> a.elements, length |-> a.length]
  BY DEF Sound
<1> HIDE DEF to, n, m, step
<1>6. to \in Nat /\ n <= to
  BY <1>1, <1>2, <1>3
<1>7. CASE to = 0
  BY <1>4, <1>7
<1>8. CASE to # 0
  <2>1. r = [a EXCEPT !.length = to]
    BY <1>4, <1>8
  <2>2. a \in [elements : Seq(D), length : Nat \ {0}] /\ to \in Nat \ {0}
    BY <1>6, <1>8 DEF Sound
  <2>3. r \in [elements : Seq(D), length : Nat \ {0}] /\ r.elements = a.elements /\ r.length = to
    BY <2>1, <2>2
  <2> QED BY <1>1, <1>6, <1>8, <2>3 DEF Sound, n
<1> QED BY <1>7, <1>8

\* A new element at the end is there once.
LEMMA OnceAppend ==
    ASSUME NEW D, NEW s \in Seq(D), NEW x, x \notin ToSet(s), Once(s)
    PROVE  Once(Append(s, x))
<1> DEFINE b == Append(s, x)
<1>1. Len(s) \in Nat /\ DOMAIN s = 1..Len(s)
  BY LenProperties
<1>2. Len(b) = Len(s) + 1 /\ (\A i \in 1..Len(s) : b[i] = s[i]) /\ b[Len(s) + 1] = x
  <2>1. s \in Seq(D \cup {x}) /\ x \in D \cup {x}
    <3>1. D \subseteq D \cup {x}
      OBVIOUS
    <3> QED BY <1>1, <3>1, ElementOfSeq, SeqDef
  <2> QED BY <2>1, AppendProperties
<1> HIDE DEF b
<1>3. \A i \in 1..Len(s) : s[i] # x
  BY <1>1 DEF ToSet
<1>4. ASSUME NEW i \in 1..Len(b), NEW j \in 1..Len(b), b[i] = b[j] PROVE i = j
  <2>1. \A k \in 1..Len(b) : k \in 1..Len(s) \/ k = Len(s) + 1
    BY <1>1, <1>2
  <2>2. CASE i \in 1..Len(s) /\ j \in 1..Len(s)
    BY <1>2, <1>4, <2>2 DEF Once
  <2>3. CASE i = Len(s) + 1
    <3>1. j \notin 1..Len(s)
      BY <1>2, <1>3, <1>4, <2>3
    <3> QED BY <2>1, <2>3, <3>1
  <2>4. CASE j = Len(s) + 1
    <3>1. i \notin 1..Len(s)
      BY <1>2, <1>3, <1>4, <2>4
    <3> QED BY <2>1, <2>4, <3>1
  <2> QED BY <2>1, <2>2, <2>3, <2>4
<1> QED BY <1>4 DEF Once, b

\* A sequence of elements of D is one of elements of a larger set.
LEMMA SeqOfMore ==
    ASSUME NEW D, NEW E, D \subseteq E
    PROVE  Seq(D) \subseteq Seq(E)
BY SeqDef

\* What appending x to s adds.
LEMMA ToSetAppend ==
    ASSUME NEW D, NEW s \in Seq(D), NEW x \in D
    PROVE  /\ ToSet(Append(s, x)) = ToSet(s) \cup {x}
           /\ Len(Append(s, x)) = Len(s) + 1 /\ Append(s, x)[Len(s) + 1] = x
           /\ \A i \in 1..Len(s) : Append(s, x)[i] = s[i]
<1> DEFINE b == Append(s, x)
<1>1. Len(s) \in Nat /\ DOMAIN s = 1..Len(s)
  BY LenProperties
<1>2. b \in Seq(D) /\ Len(b) = Len(s) + 1 /\ (\A i \in 1..Len(s) : b[i] = s[i]) /\ b[Len(s) + 1] = x
  BY AppendProperties
<1> HIDE DEF b
<1>3. DOMAIN b = 1..Len(b)
  BY <1>2, LenProperties
<1>4. \A k : k \in 1..Len(b) <=> k \in 1..Len(s) \/ k = Len(s) + 1
  BY <1>1, <1>2
<1>5. ToSet(b) = ToSet(s) \cup {x}
  <2>1. \A y : y \in ToSet(b) <=> \E k \in 1..Len(b) : b[k] = y
    BY <1>3 DEF ToSet
  <2>2. \A y : y \in ToSet(s) <=> \E k \in 1..Len(s) : s[k] = y
    BY <1>1 DEF ToSet
  <2>3. ASSUME NEW y \in ToSet(b) PROVE y \in ToSet(s) \cup {x}
    BY <1>2, <1>4, <2>1, <2>2, <2>3
  <2>4. ASSUME NEW y \in ToSet(s) \cup {x} PROVE y \in ToSet(b)
    BY <1>2, <1>4, <2>1, <2>2, <2>4
  <2> QED BY <2>3, <2>4
<1> QED BY <1>2, <1>5 DEF b

\* t is s with l at its end.
Appended(s, l, t) == t = Append(s, l)

\* pbarray_add_entry_at_: a new listener at the end, and room for it.
LEMMA AddFacts ==
    ASSUME NEW D, NEW E, NEW a, NEW l, NEW r,
           Sound(a, D), D \subseteq E, l \in E, l \notin D, r = pbarray_add(a, l)
    PROVE  Sound(r, E) /\ Appended(a.elements, l, r.elements)
<1> DEFINE g == pbarray_resize_(a, TRUE)
           s == a.elements
<1>1. g \in [elements : Seq(D), length : Nat \ {0}] /\ g.elements = s /\ Len(s) < g.length
  BY GrowFacts
<1>2. s \in Seq(D) /\ Once(s)
  BY DEF Sound
<1>3. r = [g EXCEPT !.elements = Append(@, l)]
  BY DEF pbarray_add
<1> HIDE DEF g
<1>4. r = [elements |-> Append(s, l), length |-> g.length]
  BY <1>1, <1>3
<1>5. s \in Seq(E) /\ l \in E
  BY <1>2, SeqOfMore
<1>6. l \notin ToSet(s)
  <2>1. Len(s) \in Nat /\ DOMAIN s = 1..Len(s) /\ \A i \in 1..Len(s) : s[i] \in D
    BY <1>2, LenProperties, ElementOfSeq
  <2> QED BY <2>1 DEF ToSet
<1>7. Append(s, l) \in Seq(E) /\ Len(Append(s, l)) = Len(s) + 1
  BY <1>5, AppendProperties
<1>8. Once(Append(s, l))
  BY <1>2, <1>6, OnceAppend
<1>9. Len(s) + 1 <= g.length /\ g.length \in Nat \ {0}
  <2>1. Len(s) \in Nat
    BY <1>2, LenProperties
  <2> QED BY <1>1, <2>1
<1> HIDE DEF s
<1>10. r.elements = Append(s, l) /\ r.length = g.length /\ r \in [elements : Seq(E), length : Nat \ {0}]
  BY <1>4, <1>7, <1>9
<1> QED BY <1>7, <1>8, <1>9, <1>10 DEF Sound, s, Appended

\* A new array is empty.
LEMMA AllocFacts ==
    ASSUME NEW D
    PROVE  Sound(pbarray_alloc, D) /\ pbarray_alloc.elements = <<>>
<1>1. <<>> \in Seq(D) /\ Len(<<>>) = 0
  BY EmptySeq
<1>2. InitialLength \in Nat \ {0}
  BY LengthAssumption
<1> DEFINE e == <<>>
<1>3. pbarray_alloc = [elements |-> e, length |-> InitialLength]
  BY DEF pbarray_alloc
<1>4. e \in Seq(D) /\ Len(e) = 0
  BY <1>1
<1>5. Once(e)
  BY <1>4 DEF Once
<1> HIDE DEF e
<1>6. Sound(pbarray_alloc, D) /\ pbarray_alloc.elements = e
  BY <1>2, <1>3, <1>4, <1>5 DEF Sound
<1> QED BY <1>6 DEF e

\* pbarray_remove_: the array has one listener less and still fits.
LEMMA RemoveFacts ==
    ASSUME NEW D, NEW a, Sound(a, D), NEW l, NEW r, r = pbarray_remove(a, l)
    PROVE  Sound(r, D) /\ ToSet(r.elements) = ToSet(a.elements) \ {l}
<1> DEFINE s == a.elements
           w == Without(s, {l})
           g == [a EXCEPT !.elements = Without(@, {l})]
<1>1. s \in Seq(D) /\ Once(s) /\ Len(s) <= a.length /\ a.length \in Nat \ {0} /\ Len(s) \in Nat
  BY LenProperties DEF Sound
<1>2. w \in Seq(D) /\ Len(w) <= Len(s) /\ ToSet(w) = ToSet(s) \ {l} /\ Once(w)
  BY <1>1, WithoutFacts
<1>3. g = [elements |-> w, length |-> a.length]
  BY DEF Sound
<1>4. r = pbarray_resize_(g, FALSE)
  BY DEF pbarray_remove
<1> HIDE DEF w, g
<1>5. Len(w) \in Nat
  BY <1>2, LenProperties
<1>6. Len(w) <= a.length
  BY <1>1, <1>2, <1>5
<1>7. Sound(g, D) /\ g.elements = w
  BY <1>1, <1>2, <1>3, <1>6 DEF Sound
<1>8. Sound(r, D) /\ r.elements = w
  BY <1>4, <1>7, ShrinkFacts
<1> QED BY <1>2, <1>8

-----------------------------------------------------------------------------
(* pbcc_remove_listener_ *)

\* The arrays met when the elements of array that are in M are removed in turn
Thinned(array, M, D, g) ==
    /\ g \in [0..Len(array.elements) -> {a \in [elements : Seq(D), length : Nat \ {0}] : Sound(a, D)}]
    /\ g[0] = array
    /\ \A k \in 1..Len(array.elements) :
          g[k] = IF array.elements[k] \in M THEN pbarray_remove(g[k - 1], array.elements[k])
                 ELSE g[k - 1]

\* The loop of pbcc_remove_listener_ meets some arrays.
LEMMA ThinnedExists ==
    ASSUME NEW D, NEW array, Sound(array, D), NEW M
    PROVE  \E g : Thinned(array, M, D, g)
<1> DEFINE s == array.elements
           n == Len(s)
           V == {a \in [elements : Seq(D), length : Nat \ {0}] : Sound(a, D)}
           F == [p \in (1..n) \X V |-> IF s[p[1]] \in M THEN pbarray_remove(p[2], s[p[1]]) ELSE p[2]]
<1>1. n \in Nat /\ array \in V
  BY LenProperties DEF Sound
<1>2. \A v \in V : Sound(v, D)
  OBVIOUS
<1>3. \A v : Sound(v, D) => v \in V
  BY DEF Sound
<1> HIDE DEF V
<1>4. ASSUME NEW v \in V, NEW l PROVE pbarray_remove(v, l) \in V
  BY <1>2, <1>3, RemoveFacts
<1> HIDE DEF n
<1>5. F \in [(1..n) \X V -> V]
  <2>1. ASSUME NEW p \in (1..n) \X V
        PROVE  (IF s[p[1]] \in M THEN pbarray_remove(p[2], s[p[1]]) ELSE p[2]) \in V
    <3>1. p[2] \in V
      OBVIOUS
    <3> QED BY <1>4, <3>1
  <2> QED BY <2>1
<1>6. \A k \in 1..n, v \in V : F[<<k, v>>] = IF s[k] \in M THEN pbarray_remove(v, s[k]) ELSE v
  OBVIOUS
<1> HIDE DEF F
<1>7. PICK g : Iterates(n, array, F, V, g)
  BY <1>1, <1>5, IteratesExist
<1>8. g \in [0..n -> V] /\ g[0] = array /\ \A k \in 1..n : g[k] = F[<<k, g[k - 1]>>]
  BY <1>7 DEF Iterates
<1>9. ASSUME NEW k \in 1..n
      PROVE  g[k] = IF s[k] \in M THEN pbarray_remove(g[k - 1], s[k]) ELSE g[k - 1]
  <2>1. k - 1 \in 0..n
    BY <1>1
  <2>2. g[k - 1] \in V
    BY <1>8, <2>1
  <2> QED BY <1>6, <1>8, <2>2
<1>10. Thinned(array, M, D, g)
  <2>1. n = Len(array.elements) /\ V = {a \in [elements : Seq(D), length : Nat \ {0}] : Sound(a, D)}
    BY DEF n, V
  <2>2. \A k \in 1..Len(array.elements) :
          g[k] = IF array.elements[k] \in M THEN pbarray_remove(g[k - 1], array.elements[k])
                 ELSE g[k - 1]
    BY <1>9, <2>1
  <2> QED BY <1>8, <2>1, <2>2 DEF Thinned
<1> QED BY <1>10

\* pbcc_remove_listener_ returns the last of them.
LEMMA ThinnedIs ==
    ASSUME NEW D, NEW array, Sound(array, D), NEW key, NEW g, Thinned(array, Matching(array, key), D, g)
    PROVE  pbcc_remove_listener_(array, key) = g[Len(array.elements)]
<1> DEFINE s == array.elements
           n == Len(s)
           M == Matching(array, key)
           next(k, f) == IF k = 0 THEN array
                         ELSE IF s[k] \in M THEN pbarray_remove(f[k - 1], s[k]) ELSE f[k - 1]
           step(f) == [k \in 0..n |-> next(k, f)]
           up == CHOOSE f : f = step(f)
<1>1. n \in Nat
  BY LenProperties DEF Sound
<1>2. pbcc_remove_listener_(array, key) = up[n]
  BY DEF pbcc_remove_listener_
<1> HIDE DEF M
<1>3. Thinned(array, M, D, g)
  BY DEF M
<1>4. DOMAIN g = 0..n /\ g = [k \in 0..n |-> g[k]] /\ g[0] = array
  BY <1>3 DEF Thinned
<1>5. \A k \in 0..n : g[k] = next(k, g)
  <2>1. ASSUME NEW k \in 0..n, k # 0 PROVE k \in 1..n
    BY <1>1, <2>1
  <2> QED BY <1>3, <1>4, <2>1 DEF Thinned
<1>6. g = step(g)
  <2> HIDE DEF n
  <2> QED BY <1>4, <1>5
<1>7. up = step(up)
  <2> HIDE DEF n
  <2> QED BY <1>6
<1> HIDE DEF up, n
<1>8. \A k \in 0..n : up[k] = next(k, up)
  BY <1>7
<1>9. \A k \in 0..n : up[k] = g[k]
  <2> DEFINE T == {k \in 0..n : up[k] # g[k]}
  <2>1. ASSUME T # {} PROVE FALSE
    <3>1. T \in SUBSET Nat /\ T # {}
      BY <1>1, <2>1
    <3>2. PICK k \in T : \A j \in T : k <= j
      <4> HIDE DEF T
      <4> QED BY <3>1, Least
    <3>3. k \in 0..n /\ up[k] # g[k]
      OBVIOUS
    <3>4. k # 0 => up[k - 1] = g[k - 1]
      <4>1. ASSUME k # 0 PROVE k - 1 \in 0..n /\ ~ (k <= k - 1)
        BY <1>1, <3>3, <4>1
      <4> QED BY <3>2, <4>1
    <3>5. up[k] = next(k, up)
      BY <1>8, <3>3
    <3>6. g[k] = next(k, g)
      BY <1>5, <3>3
    <3> QED BY <3>3, <3>4, <3>5, <3>6
  <2> QED BY <2>1
<1>10. n \in 0..n
  BY <1>1
<1> QED BY <1>2, <1>9, <1>10 DEF n

\* pbcc_remove_listener_ takes out every listener with the key, also those that moved
\* up to the place of one that was removed, and the array fits.
LEMMA RemoveListenerFacts ==
    ASSUME NEW D, NEW array, Sound(array, D), NEW key, NEW M, M = Matching(array, key),
           NEW r, r = pbcc_remove_listener_(array, key)
    PROVE  Sound(r, D) /\ ToSet(r.elements) = ToSet(array.elements) \ M
<1> DEFINE s == array.elements
           n == Len(s)
           gone_(k) == {s[i] : i \in {j \in 1..k : s[j] \in M}}
<1>1. n \in Nat /\ DOMAIN s = 1..n
  BY LenProperties DEF Sound
<1>2. PICK g : Thinned(array, M, D, g)
  BY ThinnedExists
<1>3. r = g[n]
  BY <1>2, ThinnedIs
<1>4. /\ g[0] = array
      /\ \A k \in 0..n : Sound(g[k], D)
      /\ \A k \in 1..n : g[k] = IF s[k] \in M THEN pbarray_remove(g[k - 1], s[k]) ELSE g[k - 1]
  BY <1>2 DEF Thinned
<1> HIDE DEF n
<1> DEFINE Ok(k) == ToSet(g[k].elements) = ToSet(s) \ gone_(k)
           T == {k \in 0..n : ~ Ok(k)}
<1>5. ASSUME T # {} PROVE FALSE
  <2>1. T \in SUBSET Nat /\ T # {}
    <3> HIDE DEF Ok
    <3> QED BY <1>1, <1>5
  <2>2. PICK k \in T : \A j \in T : k <= j
    <3> HIDE DEF T
    <3> QED BY <2>1, Least
  <2>3. k \in 0..n /\ ~ Ok(k)
    OBVIOUS
  <2>4. CASE k = 0
    <3>1. \A i \in 1..0 : FALSE
      OBVIOUS
    <3>2. gone_(0) = {}
      BY <3>1
    <3>3. Ok(0)
      BY <1>4, <3>2
    <3> QED BY <2>3, <2>4, <3>3
  <2>5. CASE k # 0
    <3>1. k \in 1..n /\ k - 1 \in 0..n /\ ~ (k <= k - 1) /\ k \in Nat
      BY <1>1, <2>3, <2>5
    <3>2. Ok(k - 1)
      BY <2>2, <3>1
    <3>3. \A i : i \in 1..k <=> i \in 1..k - 1 \/ i = k
      BY <3>1
    <3>4. g[k] = IF s[k] \in M THEN pbarray_remove(g[k - 1], s[k]) ELSE g[k - 1]
      BY <1>4, <3>1
    <3>5. gone_(k) = gone_(k - 1) \cup (IF s[k] \in M THEN {s[k]} ELSE {})
      <4>1. ASSUME NEW x PROVE x \in gone_(k) <=> \E i \in 1..k : s[i] \in M /\ x = s[i]
        OBVIOUS
      <4>2. ASSUME NEW x PROVE x \in gone_(k - 1) <=> \E i \in 1..k - 1 : s[i] \in M /\ x = s[i]
        OBVIOUS
      <4> HIDE DEF gone_
      <4>3. ASSUME NEW x PROVE x \in gone_(k) <=> x \in gone_(k - 1) \/ (s[k] \in M /\ x = s[k])
        BY <3>3, <4>1, <4>2
      <4> QED BY <4>3
    <3>6. CASE s[k] \in M
      <4>1. ToSet(g[k].elements) = ToSet(g[k - 1].elements) \ {s[k]}
        BY <1>4, <3>1, <3>4, <3>6, RemoveFacts
      <4> HIDE DEF gone_
      <4>2. Ok(k)
        BY <3>2, <3>5, <3>6, <4>1
      <4> QED BY <2>3, <4>2
    <3>7. CASE s[k] \notin M
      <4> HIDE DEF gone_
      <4>1. Ok(k)
        BY <3>2, <3>4, <3>5, <3>7
      <4> QED BY <2>3, <4>1
    <3> QED BY <3>6, <3>7
  <2> QED BY <2>4, <2>5
<1>6. n \in 0..n
  BY <1>1
<1>7. ToSet(r.elements) = ToSet(s) \ gone_(n) /\ Sound(r, D)
  <2>1. Ok(n)
    <3> HIDE DEF Ok
    <3> QED BY <1>5, <1>6
  <2> QED BY <1>3, <1>4, <1>6, <2>1
<1>8. gone_(n) = ToSet(s) \cap M
  BY <1>1 DEF ToSet
<1> QED BY <1>7, <1>8

\* An array is not the null pointer.
LEMMA NullFacts ==
    ASSUME NEW D, D \subseteq Nat, NEW a, Sound(a, D)
    PROVE  a # NULL
<1>1. a \in PossibleArrays
  <2>1. Seq(D) \subseteq Seq(Nat)
    BY SeqOfMore
  <2> QED BY <2>1 DEF Sound, PossibleArrays
<1> QED BY <1>1, NullAssumption

-----------------------------------------------------------------------------
(* The inductive invariant *)

\* The status listeners
Status == ToSet(Elements(global_status))

\* The context's listeners
Events == ToSet(Elements(global_events))

\* The listeners of the name n
Listed(n) == ToSet(Elements(ArrayOf(n)))

\* The names in whose arrays listener l is
Places(l) == {n \in Names : l \in Listed(n)}

\* The subscription l was added for, NULL for those of the context
Owner(l) == heap[l].key.subscription

\* l was added as a status listener.
IsStatus(l) == heap[l].key.type = "STATUS"

\* No array, or one of listeners that were allocated
IsArray(array) == array = NULL \/ Sound(array, DOMAIN heap)

\* A listener
Records == [key : Keys, added : Nat, count : Nat, freed : BOOLEAN]

\* No hash set, or one of arrays
HashSet == listeners = NULL \/ /\ DOMAIN listeners \in SUBSET Names
                               /\ listeners = [n \in DOMAIN listeners |-> listeners[n]]
                               /\ listeners # NULL
                               /\ \A n \in DOMAIN listeners : Sound(listeners[n], DOMAIN heap)

\* What the state is made of. No array has a listener twice, and each has room.
Typed ==
    /\ heap \in Seq(Records)
    /\ IsArray(global_status) /\ IsArray(global_events) /\ HashSet
    /\ names \in [Subscriptions -> SUBSET Names]
    /\ emitting \in Emissions \cup {NULL}
    /\ process \in {"runs", "freed", "crashed"}
    /\ removed \in BOOLEAN /\ gone \subseteq Keys /\ shrunk \subseteq Subscriptions
    /\ due \subseteq DOMAIN heap /\ told \in Seq(DOMAIN heap)

\* Which listeners are in which arrays. A listener of a subscription is under names
\* the subscription has, or had before it lost some.
Kinds ==
    /\ \A l \in Status : Owner(l) = NULL /\ IsStatus(l)
    /\ \A l \in Events : Owner(l) = NULL /\ ~ IsStatus(l)
    /\ \A n \in Names : \A l \in Listed(n) :
          Owner(l) # NULL /\ (n \in names[Owner(l)] \/ Owner(l) \in shrunk)

\* How many arrays of names l is in
Count(l) == Cardinality(Places(l))

\* What the counter of listener l says
StatusCounts(l) == heap[l].freed <=> l \notin Status

\* Allocated with one reference of its own and one of its array
EventCounts(l) == (heap[l].freed <=> l \notin Events) /\ (l \in Events => heap[l].count = 2)

\* Added under one name
OneCounts(l) == /\ heap[l].freed <=> Places(l) = {}
                /\ Places(l) # {} => heap[l].count = 2 /\ Count(l) = 1

\* Added under two names: out of the first array the counter goes from three to one.
TwoCounts(l) == /\ heap[l].freed <=> Places(l) = {}
                /\ Places(l) # {} => \/ heap[l].count = 3 /\ Count(l) = 2
                                     \/ heap[l].count = 1 /\ Count(l) = 1

\* A listener added under more than two names is freed too early, and no more is said
\* of it; one added under none is never freed.
Counts(l) ==
    /\ Owner(l) = NULL /\ IsStatus(l) => StatusCounts(l)
    /\ Owner(l) = NULL /\ ~ IsStatus(l) => EventCounts(l)
    /\ Owner(l) # NULL /\ heap[l].added = 0 => Places(l) = {}
    /\ Owner(l) # NULL /\ heap[l].added = 1 => OneCounts(l)
    /\ Owner(l) # NULL /\ heap[l].added = 2 => TwoCounts(l)

\* What the counters say of all listeners
Counted == \A l \in DOMAIN heap : Counts(l)

\* l is called in a later turn of the walk.
Ahead(l) == \E k \in emitting.index .. emitting.count : l = Walked[k]

\* An earlier turn came by l.
Behind(l) == \E k \in 1 .. emitting.index - 1 : l = Walked[k]

\* An emission without removals: those told are the ones the walk came by, and those
\* due were told, are ahead, or are next after the context's listeners.
Telling ==
    /\ emitting.count <= Len(Walked)
    /\ Once(told)
    /\ \A l \in ToSet(told) :
          /\ Wants(l, emitting.type)
          /\ Behind(l) \/ (emitting.where = "object" /\ Owner(l) = NULL)
    /\ \A l \in due : Wants(l, emitting.type)
    /\ \A l \in due : \/ l \in ToSet(told) \/ Ahead(l)
                      \/ emitting.where = "global" /\ l \in Listed(emitting.name)

\* What is known of the emission in progress
Emission ==
    /\ emitting = NULL => told = <<>> /\ ~ removed
    /\ emitting # NULL =>
          /\ emitting \in Emissions /\ emitting.index <= emitting.count + 1
          /\ emitting.where # "status" => emitting.name \in Names
          /\ ~ removed => Telling

\* When freed memory was read, or NULL, it had one of three causes.
CrashExplained ==
    process = "crashed" =>
        removed \/ listeners = NULL \/ \E l \in DOMAIN heap : heap[l].added > 2

\* The inductive invariant.
IInv ==
    /\ Typed
    /\ process = "runs" => Kinds /\ Counted /\ Emission /\ RemovedIsGone
    /\ CrashExplained

-----------------------------------------------------------------------------
(* What is in the arrays *)

\* The listeners are numbered from 1.
LEMMA HeapFacts ==
    ASSUME Typed
    PROVE  /\ Len(heap) \in Nat /\ DOMAIN heap = 1..Len(heap) /\ DOMAIN heap \subseteq Nat
           /\ \A l \in DOMAIN heap : heap[l] \in Records
<1>1. Len(heap) \in Nat /\ DOMAIN heap = 1..Len(heap)
  BY LenProperties DEF Typed
<1> QED BY <1>1, ElementOfSeq DEF Typed

\* What is in an array that may be the null pointer
LEMMA ArrayFacts ==
    ASSUME NEW D, D \subseteq Nat, NEW a, a = NULL \/ Sound(a, D)
    PROVE  /\ Elements(a) \in Seq(D) /\ Once(Elements(a)) /\ ToSet(Elements(a)) \subseteq D
           /\ Len(Elements(a)) \in Nat /\ DOMAIN Elements(a) = 1..Len(Elements(a))
           /\ Sound(a, D) => a # NULL /\ Elements(a) = a.elements
<1>1. CASE a = NULL
  <2>1. Elements(a) = <<>>
    BY <1>1 DEF Elements
  <2>2. <<>> \in Seq(D) /\ Len(<<>>) = 0 /\ DOMAIN <<>> = {}
    BY EmptySeq
  <2>3. Elements(a) \in Seq(D) /\ Len(Elements(a)) = 0 /\ DOMAIN Elements(a) = {}
    BY <2>1, <2>2
  <2>4. 1..0 = {}
    OBVIOUS
  <2>5. ToSet(Elements(a)) = {}
    BY <2>3 DEF ToSet
  <2>6. ~ Sound(a, D)
    BY <1>1, NullFacts
  <2>7. Once(Elements(a))
    BY <2>3 DEF Once
  <2> QED BY <2>3, <2>4, <2>5, <2>6, <2>7
<1>2. CASE Sound(a, D)
  <2>1. a # NULL
    BY <1>2, NullFacts
  <2>2. Elements(a) = a.elements
    BY <2>1 DEF Elements
  <2>3. a.elements \in Seq(D) /\ Once(a.elements)
    BY <1>2 DEF Sound
  <2> DEFINE s == a.elements
  <2>4. s \in Seq(D)
    BY <2>3
  <2> HIDE DEF s
  <2>5. Len(s) \in Nat /\ DOMAIN s = 1..Len(s) /\ \A i \in 1..Len(s) : s[i] \in D
    BY <2>4, LenProperties, ElementOfSeq
  <2>6. ToSet(s) \subseteq D
    BY <2>5 DEF ToSet
  <2> QED BY <2>1, <2>2, <2>3, <2>5, <2>6 DEF s
<1> QED BY <1>1, <1>2

\* What is in an array was allocated.
LEMMA ListedFacts ==
    ASSUME Typed
    PROVE  /\ \A n : IsArray(ArrayOf(n))
           /\ Status \subseteq DOMAIN heap /\ Events \subseteq DOMAIN heap
           /\ \A n : Listed(n) \subseteq DOMAIN heap
<1>1. \A n : IsArray(ArrayOf(n))
  BY DEF ArrayOf, Typed, HashSet, IsArray
<1>2. DOMAIN heap \subseteq Nat
  BY HeapFacts
<1>3. IsArray(global_status) /\ IsArray(global_events)
  BY DEF Typed
<1>4. Status \subseteq DOMAIN heap /\ Events \subseteq DOMAIN heap
  BY <1>2, <1>3, ArrayFacts DEF IsArray, Status, Events
<1>5. ASSUME NEW n PROVE Listed(n) \subseteq DOMAIN heap
  <2>1. IsArray(ArrayOf(n))
    BY <1>1
  <2> QED BY <1>2, <2>1, ArrayFacts DEF IsArray, Listed
<1> QED BY <1>1, <1>4, <1>5

\* Who is registered, and where
LEMMA RegisteredIs ==
    \A l : l \in Registered <=> l \in Status \/ l \in Events \/ \E n \in Names : l \in Listed(n)
BY DEF Registered, Status, Events, Listed

\* A listener is under finitely many names.
LEMMA PlacesFinite ==
    ASSUME NEW l PROVE IsFiniteSet(Places(l)) /\ Count(l) \in Nat
<1>1. IsFiniteSet(Names) /\ Places(l) \subseteq Names
  BY NamesAssumption DEF Places
<1> QED BY <1>1, FS_Subset, FS_CardinalityType DEF Count

\* pbcc_initialize_array_ allocates an array or leaves it.
LEMMA InitializedFacts ==
    ASSUME NEW D, NEW a, a = NULL \/ Sound(a, D), NEW b, b = pbcc_initialize_array_(a)
    PROVE  Sound(b, D) /\ b.elements = Elements(a)
<1>1. CASE a = NULL
  <2>1. b = pbarray_alloc /\ Elements(a) = <<>>
    BY <1>1 DEF pbcc_initialize_array_, Elements
  <2> QED BY <2>1, AllocFacts
<1>2. CASE a # NULL
  <2>1. b = a /\ Elements(a) = a.elements /\ Sound(a, D)
    BY <1>2 DEF pbcc_initialize_array_, Elements
  <2> QED BY <2>1
<1> QED BY <1>1, <1>2

\* A new listener l in array a
LEMMA AddedFacts ==
    ASSUME NEW D, NEW E, NEW l, NEW a, NEW r, D \subseteq E, E \subseteq Nat, l \in E, l \notin D,
           a = NULL \/ Sound(a, D), r = pbarray_add(pbcc_initialize_array_(a), l)
    PROVE  /\ Sound(r, E) /\ r # NULL
           /\ Appended(Elements(a), l, Elements(r))
           /\ l \in ToSet(Elements(r))
<1> DEFINE b == pbcc_initialize_array_(a)
<1>1. Sound(b, D) /\ b.elements = Elements(a)
  BY InitializedFacts
<1>2. Sound(r, E) /\ Appended(b.elements, l, r.elements)
  BY <1>1, AddFacts
<1>3. r # NULL /\ Elements(r) = r.elements
  BY <1>2, NullFacts DEF Elements
<1> DEFINE s == Elements(a)
<1>4. s \in Seq(E)
  <2>1. s \in Seq(D)
    BY <1>1 DEF Sound
  <2> QED BY <2>1, SeqOfMore
<1> HIDE DEF s
<1>5. ToSet(Append(s, l)) = ToSet(s) \cup {l}
  BY <1>4, ToSetAppend
<1>6. l \in ToSet(Append(s, l))
  BY <1>5
<1> QED BY <1>1, <1>2, <1>3, <1>6 DEF s, Appended

\* An array stays one when listeners are allocated.
LEMMA SoundMore ==
    ASSUME NEW D, NEW E, D \subseteq E, NEW a, Sound(a, D)
    PROVE  Sound(a, E)
<1>1. Seq(D) \subseteq Seq(E)
  BY SeqOfMore
<1> QED BY <1>1 DEF Sound

\* What a new listener changes of the heap
Grown(key, added) ==
    /\ Len(heap') = Len(heap) + 1
    /\ DOMAIN heap' = 1..Len(heap) + 1
    /\ \A l \in DOMAIN heap : heap'[l] = heap[l]
    /\ heap'[Len(heap) + 1] = Allocated(key, added)
    /\ heap' \in Seq(Records)

\* An allocation adds one listener and leaves the others.
LEMMA GrownFacts ==
    ASSUME Typed, NEW key \in Keys, NEW added \in Nat, heap' = Append(heap, Allocated(key, added))
    PROVE  Grown(key, added)
<1>1. Allocated(key, added) \in Records
  <2>1. FALSE \in BOOLEAN /\ 1 + added \in Nat
    OBVIOUS
  <2> QED BY <2>1 DEF Allocated, Records
<1> DEFINE r == Allocated(key, added)
<1>2. heap \in Seq(Records) /\ r \in Records
  BY <1>1 DEF Typed
<1> HIDE DEF r
<1>3. heap' = Append(heap, r)
  BY DEF r
<1>4. heap' \in Seq(Records) /\ Len(heap') = Len(heap) + 1 /\ heap'[Len(heap) + 1] = r
      /\ \A l \in 1..Len(heap) : heap'[l] = heap[l]
  BY <1>2, <1>3, AppendProperties
<1>5. DOMAIN heap' = 1..Len(heap')
  BY <1>4, LenProperties
<1> QED BY <1>4, <1>5, HeapFacts DEF Grown, r

\* t is s, or s with the new listener at its end.
Extended(s, t) == t = s \/ t = Append(s, Len(heap) + 1)

\* An array that got the new listener has the others at their places.
LEMMA ExtendedFacts ==
    ASSUME Typed, NEW a, IsArray(a), NEW t, Extended(Elements(a), t)
    PROVE  /\ \A l \in DOMAIN heap : l \in ToSet(t) <=> l \in ToSet(Elements(a))
           /\ \A l \in ToSet(t) : l \in DOMAIN heap \/ l = Len(heap) + 1
           /\ Len(Elements(a)) <= Len(t)
           /\ \A k \in 1..Len(Elements(a)) : t[k] = Elements(a)[k]
<1> DEFINE s == Elements(a)
           D == DOMAIN heap
           n == Len(heap) + 1
           E == DOMAIN heap \cup {n}
<1>1. D \subseteq Nat /\ n \notin D /\ n \in E /\ D \subseteq E
  BY HeapFacts
<1>2. s \in Seq(D) /\ ToSet(s) \subseteq D /\ Len(s) \in Nat
  BY <1>1, ArrayFacts DEF IsArray
<1>3. t = s \/ t = Append(s, n)
  BY DEF Extended
<1>4. s \in Seq(E)
  BY <1>1, <1>2, SeqOfMore
<1>5. \A l \in E : l \in D \/ l = n
  OBVIOUS
<1> HIDE DEF s, n, D, E
<1>6. CASE t = s
  BY <1>2, <1>6 DEF s, D, n
<1>7. CASE t = Append(s, n)
  <2>1. ToSet(t) = ToSet(s) \cup {n} /\ Len(t) = Len(s) + 1 /\ \A i \in 1..Len(s) : t[i] = s[i]
    BY <1>1, <1>4, <1>7, ToSetAppend
  <2>2. Len(s) <= Len(t)
    BY <1>2, <2>1
  <2>3. \A l \in D : l \in ToSet(t) <=> l \in ToSet(s)
    BY <1>1, <2>1
  <2>4. \A l \in ToSet(t) : l \in D \/ l = n
    BY <1>2, <2>1
  <2> QED BY <2>1, <2>2, <2>3, <2>4 DEF s, D, n
<1> QED BY <1>3, <1>6, <1>7

\* What a call leaves as it is
LEMMA CallFacts ==
    ASSUME IInv, NEW isRemoval \in BOOLEAN, Calls, Called(isRemoval)
    PROVE  /\ process = "runs" /\ Typed /\ Kinds /\ Counted /\ Emission /\ RemovedIsGone
           /\ names' = names /\ due' = due /\ told' = told /\ shrunk' = shrunk
           /\ removed' \in BOOLEAN
           /\ emitting = NULL => emitting' = NULL /\ removed' = removed
           /\ emitting # NULL => /\ emitting' = [emitting EXCEPT !.called = FALSE]
                                 /\ isRemoval => removed'
           /\ ~ isRemoval => removed' = removed
<1>1. process = "runs" /\ Typed /\ Kinds /\ Counted /\ Emission /\ RemovedIsGone
  BY DEF IInv, Calls
<1>2. names' = names /\ due' = due /\ told' = told /\ shrunk' = shrunk
  BY DEF Called
<1>3. emitting' = IF emitting = NULL THEN NULL ELSE [emitting EXCEPT !.called = FALSE]
  BY DEF Called
<1>4. removed \in BOOLEAN
  BY <1>1 DEF Typed
<1>5. removed' = (removed \/ (isRemoval /\ emitting # NULL))
  BY DEF Called
<1>6. removed' \in BOOLEAN /\ (emitting = NULL \/ ~ isRemoval => removed' = removed)
      /\ (emitting # NULL /\ isRemoval => removed')
  BY <1>4, <1>5
<1> QED BY <1>1, <1>2, <1>3, <1>6

\* The emission in progress after a call: only called changes.
LEMMA CalledEmission ==
    ASSUME emitting \in Emissions, NEW e, e = [emitting EXCEPT !.called = FALSE]
    PROVE  /\ e \in Emissions /\ e # NULL
           /\ e.where = emitting.where /\ e.type = emitting.type /\ e.name = emitting.name
           /\ e.index = emitting.index /\ e.count = emitting.count
<1>1. FALSE \in BOOLEAN
  OBVIOUS
<1>2. e \in Emissions
  BY <1>1 DEF Emissions
<1>3. e # NULL
  BY <1>2, NullAssumption
<1>4. /\ e.where = emitting.where /\ e.type = emitting.type /\ e.name = emitting.name
      /\ e.index = emitting.index /\ e.count = emitting.count
  BY DEF Emissions
<1> QED BY <1>2, <1>3, <1>4

-----------------------------------------------------------------------------
(* Additions *)

\* What a call that adds a listener does, as far as the invariant goes
Addition(key, added, new) ==
    /\ new = Len(heap) + 1
    /\ Calls /\ Called(FALSE) /\ process' = process
    /\ Grown(key, added)
    /\ gone' = gone \ {key}
    /\ IsArray(global_status)' /\ IsArray(global_events)' /\ HashSet'
    /\ Extended(Elements(global_status), Elements(global_status)')
    /\ Extended(Elements(global_events), Elements(global_events)')
    /\ \A n \in Names : Extended(Elements(ArrayOf(n)), Elements(ArrayOf(n))')
    /\ new \in Status' => key.subscription = NULL /\ key.type = "STATUS"
    /\ new \in Events' => key.subscription = NULL /\ key.type # "STATUS"
    /\ \A n \in Names : new \in Listed(n)' =>
           key.subscription # NULL /\ n \in names[key.subscription]
    /\ Counts(new)'

\* The places of the listeners there were
LEMMA AdditionPlaces ==
    ASSUME IInv, NEW key, NEW added, NEW new, Addition(key, added, new)
    PROVE  /\ \A l \in DOMAIN heap : /\ l \in Status' <=> l \in Status
                                     /\ l \in Events' <=> l \in Events
                                     /\ \A n \in Names : l \in Listed(n)' <=> l \in Listed(n)
           /\ \A l \in Status' : l \in DOMAIN heap \/ l = new
           /\ \A l \in Events' : l \in DOMAIN heap \/ l = new
           /\ \A n \in Names : \A l \in Listed(n)' : l \in DOMAIN heap \/ l = new
<1>1. Typed
  BY DEF IInv
<1>2. IsArray(global_status) /\ IsArray(global_events)
  BY <1>1 DEF Typed
<1>3. /\ \A l \in DOMAIN heap : l \in Status' <=> l \in Status
      /\ \A l \in Status' : l \in DOMAIN heap \/ l = new
  BY <1>1, <1>2, ExtendedFacts DEF Addition, Status
<1>4. /\ \A l \in DOMAIN heap : l \in Events' <=> l \in Events
      /\ \A l \in Events' : l \in DOMAIN heap \/ l = new
  BY <1>1, <1>2, ExtendedFacts DEF Addition, Events
<1>5. ASSUME NEW n \in Names
      PROVE  /\ \A l \in DOMAIN heap : l \in Listed(n)' <=> l \in Listed(n)
             /\ \A l \in Listed(n)' : l \in DOMAIN heap \/ l = new
  <2>1. IsArray(ArrayOf(n))
    BY <1>1, ListedFacts
  <2> QED BY <1>1, <2>1, ExtendedFacts DEF Addition, Listed
<1> QED BY <1>3, <1>4, <1>5

\* The types after an addition
LEMMA AdditionTyped ==
    ASSUME IInv, NEW key \in Keys, NEW added \in Nat, NEW new, Addition(key, added, new)
    PROVE  Typed' /\ DOMAIN heap \subseteq DOMAIN heap'
<1>1. Typed /\ process = "runs" /\ removed' \in BOOLEAN /\ names' = names /\ due' = due /\ told' = told
      /\ shrunk' = shrunk
  BY CallFacts DEF Addition
<1>2. DOMAIN heap \subseteq DOMAIN heap' /\ heap' \in Seq(Records)
  BY <1>1, HeapFacts DEF Addition, Grown
<1>3. due' \subseteq DOMAIN heap'
  BY <1>1, <1>2 DEF Typed
<1>4. told' \in Seq(DOMAIN heap')
  BY <1>1, <1>2, SeqOfMore DEF Typed
<1>5. emitting' \in Emissions \cup {NULL}
  <2>1. emitting \in Emissions \cup {NULL}
    BY <1>1 DEF Typed
  <2>2. emitting = NULL => emitting' = NULL
    BY CallFacts DEF Addition
  <2>3. emitting # NULL => emitting' = [emitting EXCEPT !.called = FALSE]
    BY CallFacts DEF Addition
  <2> QED BY <2>1, <2>2, <2>3, CalledEmission
<1>6. gone' \subseteq Keys /\ process' = "runs"
  BY <1>1 DEF Typed, Addition
<1>7. names' \in [Subscriptions -> SUBSET Names] /\ shrunk' \subseteq Subscriptions
  BY <1>1 DEF Typed
<1>8. IsArray(global_status)' /\ IsArray(global_events)' /\ HashSet'
  BY DEF Addition
<1> QED BY <1>1, <1>2, <1>3, <1>4, <1>5, <1>6, <1>7, <1>8 DEF Typed

\* The new listener is in the arrays it belongs to.
LEMMA AdditionKinds ==
    ASSUME IInv, NEW key \in Keys, NEW added \in Nat, NEW new, Addition(key, added, new)
    PROVE  Kinds'
<1>1. Kinds /\ names' = names /\ shrunk' = shrunk /\ Typed
  BY CallFacts DEF Addition
<1>2. /\ \A l \in DOMAIN heap : Owner(l)' = Owner(l) /\ (IsStatus(l)' <=> IsStatus(l))
      /\ Owner(new)' = key.subscription
      /\ IsStatus(new)' <=> key.type = "STATUS"
  BY DEF Addition, Grown, Owner, IsStatus, Allocated
<1>3. ASSUME NEW l \in Status' PROVE Owner(l)' = NULL /\ IsStatus(l)'
  <2>1. CASE l \in DOMAIN heap
    BY <1>1, <1>2, <1>3, <2>1, AdditionPlaces DEF Kinds
  <2>2. CASE l = new
    BY <1>2, <1>3, <2>2 DEF Addition
  <2> QED BY <1>3, <2>1, <2>2, AdditionPlaces
<1>4. ASSUME NEW l \in Events' PROVE Owner(l)' = NULL /\ ~ IsStatus(l)'
  <2>1. CASE l \in DOMAIN heap
    BY <1>1, <1>2, <1>4, <2>1, AdditionPlaces DEF Kinds
  <2>2. CASE l = new
    BY <1>2, <1>4, <2>2 DEF Addition
  <2> QED BY <1>4, <2>1, <2>2, AdditionPlaces
<1>5. ASSUME NEW n \in Names, NEW l \in Listed(n)'
      PROVE  Owner(l)' # NULL /\ (n \in names'[Owner(l)'] \/ Owner(l)' \in shrunk')
  <2>1. CASE l \in DOMAIN heap
    BY <1>1, <1>2, <1>5, <2>1, AdditionPlaces DEF Kinds
  <2>2. CASE l = new
    BY <1>1, <1>2, <1>5, <2>2 DEF Addition
  <2> QED BY <1>5, <2>1, <2>2, AdditionPlaces
<1> QED BY <1>3, <1>4, <1>5 DEF Kinds

\* A listener whose record and places stay counts right.
LEMMA CountsAlike ==
    ASSUME NEW l, heap'[l] = heap[l], l \in Status' <=> l \in Status, l \in Events' <=> l \in Events,
           Places(l)' = Places(l), Counts(l)
    PROVE  Counts(l)'
<1>1. Count(l)' = Count(l) /\ Owner(l)' = Owner(l) /\ (IsStatus(l)' <=> IsStatus(l))
  BY DEF Count, Owner, IsStatus
<1>2. /\ StatusCounts(l)' <=> StatusCounts(l)
      /\ EventCounts(l)' <=> EventCounts(l)
  BY DEF StatusCounts, EventCounts
<1>3. /\ OneCounts(l)' <=> OneCounts(l)
      /\ TwoCounts(l)' <=> TwoCounts(l)
  BY <1>1 DEF OneCounts, TwoCounts
<1> QED BY <1>1, <1>2, <1>3 DEF Counts

\* The counters are right after an addition, the new one's too.
LEMMA AdditionCounted ==
    ASSUME IInv, NEW key \in Keys, NEW added \in Nat, NEW new, Addition(key, added, new)
    PROVE  Counted'
<1>1. Counted /\ Typed
  BY CallFacts DEF Addition
<1>2. ASSUME NEW l \in DOMAIN heap PROVE Counts(l)'
  <2>1. Places(l)' = Places(l)
    BY AdditionPlaces DEF Places
  <2>2. heap'[l] = heap[l]
    BY DEF Addition, Grown
  <2>3. (l \in Status' <=> l \in Status) /\ (l \in Events' <=> l \in Events)
    BY AdditionPlaces
  <2>4. Counts(l)
    BY <1>1 DEF Counted
  <2> QED BY <2>1, <2>2, <2>3, <2>4, CountsAlike
<1>3. \A l \in DOMAIN heap' : l \in DOMAIN heap \/ l = new
  BY <1>1, HeapFacts DEF Addition, Grown
<1>4. Counts(new)'
  BY DEF Addition
<1> QED BY <1>2, <1>3, <1>4 DEF Counted

\* What is added again is not gone any more.
LEMMA AdditionGone ==
    ASSUME IInv, NEW key \in Keys, NEW added \in Nat, NEW new, Addition(key, added, new)
    PROVE  RemovedIsGone'
<1>1. RemovedIsGone /\ process = "runs" /\ shrunk' = shrunk
  BY CallFacts DEF Addition
<1>2. \A l \in Registered : heap[l].key \in gone => heap[l].key.subscription \in shrunk
  BY <1>1 DEF RemovedIsGone
<1>3. gone' = gone \ {key}
  BY DEF Addition
<1>4. ASSUME NEW l \in Registered', heap'[l].key \in gone'
      PROVE  heap'[l].key.subscription \in shrunk'
  <2>1. l \in Status' \/ l \in Events' \/ \E n \in Names : l \in Listed(n)'
    <3>1. (l \in Registered <=> l \in Status \/ l \in Events \/ \E n \in Names : l \in Listed(n))'
      BY DEF Registered, Status, Events, Listed
    <3> QED BY <1>4, <3>1
  <2>2. l \in DOMAIN heap \/ l = new
    BY <2>1, AdditionPlaces
  <2>3. CASE l \in DOMAIN heap
    <3>1. l \in Status \/ l \in Events \/ \E n \in Names : l \in Listed(n)
      BY <2>1, <2>3, AdditionPlaces
    <3>2. l \in Registered
      BY <3>1, RegisteredIs
    <3>3. heap'[l] = heap[l]
      BY <2>3 DEF Addition, Grown
    <3> QED BY <1>1, <1>2, <1>3, <1>4, <3>2, <3>3
  <2>4. CASE l = new
    <3>1. heap'[l].key = key
      BY <2>4 DEF Addition, Grown, Allocated
    <3> QED BY <1>3, <1>4, <3>1
  <2> QED BY <2>2, <2>3, <2>4
<1> QED BY <1>4 DEF RemovedIsGone

\* The listeners told and the one to tell next
LEMMA WalkedFacts ==
    ASSUME Typed, emitting \in Emissions
    PROVE  Walked \in Seq(DOMAIN heap) /\ Len(Walked) \in Nat /\ Once(Walked)
<1>1. DOMAIN heap \subseteq Nat /\ IsArray(global_status) /\ IsArray(global_events)
        /\ IsArray(ArrayOf(emitting.name))
  BY HeapFacts, ListedFacts DEF Typed
<1>2. /\ Elements(global_status) \in Seq(DOMAIN heap) /\ Once(Elements(global_status))
      /\ Elements(global_events) \in Seq(DOMAIN heap) /\ Once(Elements(global_events))
      /\ Elements(ArrayOf(emitting.name)) \in Seq(DOMAIN heap) /\ Once(Elements(ArrayOf(emitting.name)))
  BY <1>1, ArrayFacts DEF IsArray
<1>3. emitting.where = "status" \/ emitting.where = "global" \/ emitting.where = "object"
  BY DEF Emissions
<1>4. Walked \in Seq(DOMAIN heap) /\ Once(Walked)
  BY <1>2, <1>3 DEF Walked
<1> QED BY <1>4, LenProperties

\* A listener that adds another leaves the turns to come as they were.
LEMMA WalkedExtended ==
    ASSUME Typed, emitting \in Emissions, emitting.where # "status" => emitting.name \in Names,
           emitting' = [emitting EXCEPT !.called = FALSE],
           Extended(Elements(global_status), Elements(global_status)'),
           Extended(Elements(global_events), Elements(global_events)'),
           \A n \in Names : Extended(Elements(ArrayOf(n)), Elements(ArrayOf(n))')
    PROVE  /\ Len(Walked) <= Len(Walked')
           /\ \A k \in 1..Len(Walked) : Walked'[k] = Walked[k]
<1>1. emitting'.where = emitting.where /\ emitting'.name = emitting.name
  BY CalledEmission
<1>2. IsArray(global_status) /\ IsArray(global_events) /\ IsArray(ArrayOf(emitting.name))
  BY ListedFacts DEF Typed
<1>3. CASE emitting.where = "status"
  <2>1. Walked = Elements(global_status)
    BY <1>3 DEF Walked
  <2>2. Walked' = Elements(global_status)'
    BY <1>1, <1>3 DEF Walked
  <2> QED BY <1>2, <2>1, <2>2, ExtendedFacts
<1>4. CASE emitting.where = "global"
  <2>1. Walked = Elements(global_events)
    BY <1>4 DEF Walked
  <2>2. Walked' = Elements(global_events)'
    BY <1>1, <1>4 DEF Walked
  <2> QED BY <1>2, <2>1, <2>2, ExtendedFacts
<1>5. CASE emitting.where = "object"
  <2>1. PICK n \in Names : n = emitting.name
    BY <1>5
  <2>2. Walked = Elements(ArrayOf(n))
    BY <1>5, <2>1 DEF Walked
  <2>3. Walked' = Elements(ArrayOf(n))'
    BY <1>1, <1>5, <2>1 DEF Walked
  <2>4. Extended(Elements(ArrayOf(n)), Elements(ArrayOf(n))') /\ IsArray(ArrayOf(n))
    BY <1>2, <2>1
  <2> QED BY <2>2, <2>3, <2>4, ExtendedFacts
<1>6. emitting.where = "status" \/ emitting.where = "global" \/ emitting.where = "object"
  BY DEF Emissions
<1> QED BY <1>3, <1>4, <1>5, <1>6

\* An addition by a listener that is called leaves those due and those told.
LEMMA AdditionTelling ==
    ASSUME IInv, NEW key \in Keys, NEW added \in Nat, NEW new, Addition(key, added, new),
           emitting # NULL, ~ removed
    PROVE  Telling'
<1>1. /\ Typed /\ Emission /\ due' = due /\ told' = told
      /\ emitting' = [emitting EXCEPT !.called = FALSE]
  BY CallFacts DEF Addition
<1>2. /\ emitting \in Emissions /\ emitting.index <= emitting.count + 1 /\ Telling
      /\ emitting.where # "status" => emitting.name \in Names
  BY <1>1 DEF Emission
<1>3. /\ emitting' \in Emissions /\ emitting' # NULL
      /\ emitting'.where = emitting.where /\ emitting'.type = emitting.type
      /\ emitting'.name = emitting.name
      /\ emitting'.index = emitting.index /\ emitting'.count = emitting.count
  BY <1>1, <1>2, CalledEmission
<1>4. Len(Walked) <= Len(Walked') /\ \A k \in 1..Len(Walked) : Walked'[k] = Walked[k]
  BY <1>1, <1>2, WalkedExtended DEF Addition
<1>5. Typed' /\ DOMAIN heap \subseteq DOMAIN heap'
  BY AdditionTyped
<1>6. Len(Walked) \in Nat /\ Len(Walked') \in Nat
  <2>1. (Typed /\ emitting \in Emissions => Len(Walked) \in Nat)'
    BY WalkedFacts, PTL
  <2> QED BY <1>1, <1>2, <1>3, <1>5, <2>1, WalkedFacts
<1>7. emitting.count \in Nat /\ emitting.index \in Nat \ {0}
  BY <1>2 DEF Emissions
<1>8. emitting.count <= Len(Walked)
  BY <1>2 DEF Telling
<1>9. emitting'.count <= Len(Walked')
  BY <1>3, <1>4, <1>6, <1>7, <1>8
<1>10. \A l \in DOMAIN heap : heap'[l] = heap[l]
  BY DEF Addition, Grown
<1>11. told \in Seq(DOMAIN heap) /\ due \subseteq DOMAIN heap /\ ToSet(told) \subseteq DOMAIN heap
  <2>1. told \in Seq(DOMAIN heap) /\ due \subseteq DOMAIN heap
    BY <1>1 DEF Typed
  <2>2. DOMAIN told = 1..Len(told) /\ \A i \in 1..Len(told) : told[i] \in DOMAIN heap
    BY <2>1, LenProperties, ElementOfSeq
  <2> QED BY <2>1, <2>2 DEF ToSet
<1>12. ASSUME NEW l, Behind(l) PROVE Behind(l)'
  <2>1. PICK k \in 1 .. emitting.index - 1 : l = Walked[k]
    BY <1>12 DEF Behind
  <2>2. k \in 1..Len(Walked)
    BY <1>2, <1>6, <1>7, <1>8
  <2> QED BY <1>3, <1>4, <2>1, <2>2 DEF Behind
<1>13. ASSUME NEW l, Ahead(l) PROVE Ahead(l)'
  <2>1. PICK k \in emitting.index .. emitting.count : l = Walked[k]
    BY <1>13 DEF Ahead
  <2>2. k \in 1..Len(Walked)
    BY <1>2, <1>6, <1>7, <1>8
  <2> QED BY <1>3, <1>4, <2>1, <2>2 DEF Ahead
<1>14. Once(told')
  BY <1>1, <1>2 DEF Telling
<1>15. ASSUME NEW l \in ToSet(told')
       PROVE  /\ Wants(l, emitting.type)'
              /\ Behind(l)' \/ (emitting'.where = "object" /\ Owner(l)' = NULL)
  <2>1. l \in ToSet(told) /\ l \in DOMAIN heap
    BY <1>1, <1>11
  <2>2. /\ Wants(l, emitting.type)
        /\ Behind(l) \/ (emitting.where = "object" /\ Owner(l) = NULL)
    BY <1>2, <2>1 DEF Telling
  <2>3. Owner(l)' = Owner(l) /\ Wants(l, emitting.type)'
    BY <1>3, <1>10, <2>1, <2>2 DEF Owner, Wants
  <2> QED BY <1>3, <1>12, <2>2, <2>3
<1>16. ASSUME NEW l \in due'
       PROVE  /\ Wants(l, emitting.type)'
              /\ \/ l \in ToSet(told') \/ Ahead(l)'
                 \/ emitting'.where = "global" /\ l \in Listed(emitting.name)'
  <2>1. l \in due /\ l \in DOMAIN heap
    BY <1>1, <1>11
  <2>2. /\ Wants(l, emitting.type)
        /\ l \in ToSet(told) \/ Ahead(l) \/ (emitting.where = "global" /\ l \in Listed(emitting.name))
    BY <1>2, <2>1 DEF Telling
  <2>3. Wants(l, emitting.type)'
    BY <1>3, <1>10, <2>1, <2>2 DEF Wants
  <2>4. ASSUME emitting.where = "global", l \in Listed(emitting.name) PROVE l \in Listed(emitting.name)'
    <3>1. PICK n \in Names : n = emitting.name
      BY <1>2, <2>4
    <3>2. l \in Listed(n)'
      BY <2>1, <2>4, <3>1, AdditionPlaces
    <3>3. n = emitting'.name
      BY <1>3, <3>1
    <3> QED BY <3>2, <3>3 DEF Listed
  <2> QED BY <1>1, <1>3, <1>13, <2>2, <2>3, <2>4
<1> QED BY <1>9, <1>14, <1>15, <1>16 DEF Telling

\* The invariant after an addition.
LEMMA AdditionKeeps ==
    ASSUME IInv, NEW key \in Keys, NEW added \in Nat, NEW new, Addition(key, added, new)
    PROVE  IInv'
<1>1. /\ Typed /\ Emission /\ due' = due /\ told' = told /\ process = "runs" /\ removed' = removed
      /\ emitting = NULL => emitting' = NULL
      /\ emitting # NULL => emitting' = [emitting EXCEPT !.called = FALSE]
  BY CallFacts DEF Addition
<1>2. Typed' /\ Kinds' /\ Counted' /\ RemovedIsGone'
  BY AdditionTyped, AdditionKinds, AdditionCounted, AdditionGone
<1>3. Emission'
  <2>1. CASE emitting = NULL
    BY <1>1, <2>1 DEF Emission
  <2>2. CASE emitting # NULL
    <3>1. /\ emitting \in Emissions /\ emitting.index <= emitting.count + 1
          /\ emitting.where # "status" => emitting.name \in Names
      BY <1>1, <2>2 DEF Emission
    <3>2. /\ emitting' \in Emissions /\ emitting' # NULL
          /\ emitting'.where = emitting.where /\ emitting'.name = emitting.name
          /\ emitting'.index = emitting.index /\ emitting'.count = emitting.count
      BY <1>1, <2>2, <3>1, CalledEmission
    <3>3. ~ removed' => Telling'
      BY <1>1, <2>2, AdditionTelling
    <3> QED BY <3>1, <3>2, <3>3 DEF Emission
  <2> QED BY <2>1, <2>2
<1>4. CrashExplained'
  <2>1. process' = "runs"
    BY <1>1 DEF Addition
  <2> QED BY <2>1 DEF CrashExplained
<1> QED BY <1>2, <1>3, <1>4 DEF IInv

\* The keys of the API are keys.
LEMMA KeyFacts ==
    ASSUME NEW s \in Subscriptions \cup {NULL}, NEW t \in Types \cup {"STATUS"}, NEW c \in Callbacks
    PROVE  /\ Key(s, t, c) \in Keys
           /\ Key(s, t, c).subscription = s /\ Key(s, t, c).type = t
BY DEF Key, Keys

\* What every function that adds a listener has in common
LEMMA AddsFacts ==
    ASSUME IInv, NEW key \in Keys, NEW added \in Nat, Adds(key, added), NEW new, new = Len(heap) + 1
    PROVE  /\ Calls /\ Called(FALSE) /\ process' = process /\ gone' = gone \ {key}
           /\ Grown(key, added) /\ Len(heap') = new /\ Typed
           /\ DOMAIN heap' = DOMAIN heap \cup {new} /\ new \notin DOMAIN heap
           /\ DOMAIN heap \subseteq Nat /\ DOMAIN heap' \subseteq Nat
           /\ heap'[new] = Allocated(key, added)
           /\ Owner(new)' = key.subscription /\ (IsStatus(new)' <=> key.type = "STATUS")
           /\ new \notin Status /\ new \notin Events /\ \A n \in Names : new \notin Listed(n)
<1>1. Typed
  BY DEF IInv
<1>2. Calls /\ Called(FALSE) /\ process' = process /\ gone' = gone \ {key}
      /\ heap' = Append(heap, Allocated(key, added))
  BY DEF Adds
<1>3. Grown(key, added)
  BY <1>1, <1>2, GrownFacts
<1>4. Len(heap) \in Nat /\ DOMAIN heap = 1..Len(heap)
  BY <1>1, HeapFacts
<1>5. Len(heap') = new /\ DOMAIN heap' = 1..new /\ heap'[new] = Allocated(key, added)
  BY <1>3 DEF Grown
<1>6. DOMAIN heap' = DOMAIN heap \cup {new} /\ new \notin DOMAIN heap
  BY <1>4, <1>5
<1>7. DOMAIN heap \subseteq Nat /\ DOMAIN heap' \subseteq Nat
  BY <1>4, <1>5
<1>8. Owner(new)' = key.subscription /\ (IsStatus(new)' <=> key.type = "STATUS")
  BY <1>5 DEF Owner, IsStatus, Allocated
<1>9. new \notin Status /\ new \notin Events /\ \A n \in Names : new \notin Listed(n)
  BY <1>1, <1>6, ListedFacts
<1> QED BY <1>1, <1>2, <1>3, <1>5, <1>6, <1>7, <1>8, <1>9

\* The arrays that did not change
LEMMA UnchangedArray ==
    ASSUME NEW a, IsArray(a), DOMAIN heap \subseteq DOMAIN heap'
    PROVE  a = NULL \/ Sound(a, DOMAIN heap')
BY SoundMore DEF IsArray

\* The hash set that did not change
LEMMA UnchangedSet ==
    ASSUME HashSet, DOMAIN heap \subseteq DOMAIN heap', listeners' = listeners
    PROVE  /\ HashSet'
           /\ \A n \in Names : ArrayOf(n)' = ArrayOf(n) /\ Listed(n)' = Listed(n)
<1>1. HashSet'
  <2>1. CASE listeners = NULL
    BY <2>1 DEF HashSet
  <2>2. CASE listeners # NULL
    <3>1. \A n \in DOMAIN listeners : Sound(listeners[n], DOMAIN heap')
      BY <2>2, SoundMore DEF HashSet
    <3> QED BY <2>2, <3>1 DEF HashSet
  <2> QED BY <2>1, <2>2
<1> QED BY <1>1 DEF ArrayOf, Listed

\* pbcc_event_listener_add_status_listener keeps the invariant.
LEMMA AddStatusKeeps ==
    ASSUME IInv, NEW c \in Callbacks, pbcc_event_listener_add_status_listener(c)
    PROVE  IInv'
<1> DEFINE key == Key(NULL, "STATUS", c)
<1>1. key \in Keys /\ key.subscription = NULL /\ key.type = "STATUS"
  BY KeyFacts
<1>2. PICK new : new = Len(heap) + 1
  OBVIOUS
<1>3. Adds(key, 0) /\ UNCHANGED <<global_events, listeners>>
      /\ global_status' = pbarray_add(pbcc_initialize_array_(global_status), Len(heap'))
  BY DEF pbcc_event_listener_add_status_listener
<1> HIDE DEF key
<1>4. 0 \in Nat
  OBVIOUS
<1>5. /\ Calls /\ Called(FALSE) /\ process' = process /\ gone' = gone \ {key}
      /\ Grown(key, 0) /\ Len(heap') = new /\ Typed
      /\ DOMAIN heap' = DOMAIN heap \cup {new} /\ new \notin DOMAIN heap
      /\ DOMAIN heap \subseteq Nat /\ DOMAIN heap' \subseteq Nat
      /\ heap'[new] = Allocated(key, 0)
      /\ Owner(new)' = key.subscription /\ (IsStatus(new)' <=> key.type = "STATUS")
      /\ new \notin Status /\ new \notin Events /\ \A n \in Names : new \notin Listed(n)
  BY <1>1, <1>2, <1>3, <1>4, AddsFacts
<1>6. IsArray(global_status) /\ IsArray(global_events) /\ HashSet
  BY <1>5 DEF Typed
<1>7. /\ Sound(global_status', DOMAIN heap')
      /\ Appended(Elements(global_status), new, Elements(global_status'))
      /\ new \in ToSet(Elements(global_status'))
  <2>1. global_status = NULL \/ Sound(global_status, DOMAIN heap)
    BY <1>6 DEF IsArray
  <2>2. global_status' = pbarray_add(pbcc_initialize_array_(global_status), new)
    <3>1. Len(heap') = new
      BY <1>5
    <3> QED BY <1>3, <3>1
  <2>3. /\ DOMAIN heap \subseteq DOMAIN heap' /\ DOMAIN heap' \subseteq Nat
        /\ new \in DOMAIN heap' /\ new \notin DOMAIN heap
    BY <1>5
  <2> QED BY <2>1, <2>2, <2>3, AddedFacts
<1>8. IsArray(global_status)' /\ IsArray(global_events)' /\ HashSet'
  <2>1. DOMAIN heap \subseteq DOMAIN heap'
    BY <1>5
  <2>2. global_events = NULL \/ Sound(global_events, DOMAIN heap')
    BY <1>6, <2>1, UnchangedArray
  <2>3. HashSet'
    BY <1>3, <1>6, <2>1, UnchangedSet
  <2> QED BY <1>3, <1>7, <2>2, <2>3 DEF IsArray
<1>9. new \in Status' /\ Events' = Events
  BY <1>3, <1>7 DEF Status, Events
<1>10. \A n \in Names : ArrayOf(n)' = ArrayOf(n) /\ Listed(n)' = Listed(n)
  BY <1>3 DEF ArrayOf, Listed
<1>11. heap'[new].freed = FALSE
  BY <1>5 DEF Allocated
<1>12. Counts(new)'
  <2>1. StatusCounts(new)'
    BY <1>9, <1>11 DEF StatusCounts
  <2> QED BY <1>1, <1>5, <2>1 DEF Counts
<1>13. Addition(key, 0, new)
  <2>1. /\ Extended(Elements(global_status), Elements(global_status)')
        /\ Extended(Elements(global_events), Elements(global_events)')
        /\ \A n \in Names : Extended(Elements(ArrayOf(n)), Elements(ArrayOf(n))')
    BY <1>2, <1>3, <1>7, <1>10 DEF Extended, Elements, Appended
  <2> QED BY <1>1, <1>2, <1>5, <1>8, <1>9, <1>10, <1>12, <2>1 DEF Addition
<1> QED BY <1>1, <1>4, <1>13, AdditionKeeps

\* pbcc_event_listener_add_message_listener keeps the invariant.
LEMMA AddMessageKeeps ==
    ASSUME IInv, NEW t \in Types, NEW c \in Callbacks, pbcc_event_listener_add_message_listener(t, c)
    PROVE  IInv'
<1> DEFINE key == Key(NULL, t, c)
<1>1. key \in Keys /\ key.subscription = NULL /\ key.type # "STATUS"
  BY KeyFacts, TypesAssumption
<1>2. PICK new : new = Len(heap) + 1
  OBVIOUS
<1>3. Adds(key, 1) /\ UNCHANGED <<global_status, listeners>>
      /\ global_events' = pbarray_add(pbcc_initialize_array_(global_events), Len(heap'))
  BY DEF pbcc_event_listener_add_message_listener
<1> HIDE DEF key
<1>4. 1 \in Nat
  OBVIOUS
<1>5. /\ Calls /\ Called(FALSE) /\ process' = process /\ gone' = gone \ {key}
      /\ Grown(key, 1) /\ Len(heap') = new /\ Typed
      /\ DOMAIN heap' = DOMAIN heap \cup {new} /\ new \notin DOMAIN heap
      /\ DOMAIN heap \subseteq Nat /\ DOMAIN heap' \subseteq Nat
      /\ heap'[new] = Allocated(key, 1)
      /\ Owner(new)' = key.subscription /\ (IsStatus(new)' <=> key.type = "STATUS")
      /\ new \notin Status /\ new \notin Events /\ \A n \in Names : new \notin Listed(n)
  BY <1>1, <1>2, <1>3, <1>4, AddsFacts
<1>6. IsArray(global_status) /\ IsArray(global_events) /\ HashSet
  BY <1>5 DEF Typed
<1>7. /\ Sound(global_events', DOMAIN heap')
      /\ Appended(Elements(global_events), new, Elements(global_events'))
      /\ new \in ToSet(Elements(global_events'))
  <2>1. global_events = NULL \/ Sound(global_events, DOMAIN heap)
    BY <1>6 DEF IsArray
  <2>2. global_events' = pbarray_add(pbcc_initialize_array_(global_events), new)
    <3>1. Len(heap') = new
      BY <1>5
    <3> QED BY <1>3, <3>1
  <2>3. /\ DOMAIN heap \subseteq DOMAIN heap' /\ DOMAIN heap' \subseteq Nat
        /\ new \in DOMAIN heap' /\ new \notin DOMAIN heap
    BY <1>5
  <2> QED BY <2>1, <2>2, <2>3, AddedFacts
<1>8. IsArray(global_status)' /\ IsArray(global_events)' /\ HashSet'
  <2>1. DOMAIN heap \subseteq DOMAIN heap'
    BY <1>5
  <2>2. global_status = NULL \/ Sound(global_status, DOMAIN heap')
    BY <1>6, <2>1, UnchangedArray
  <2>3. HashSet'
    BY <1>3, <1>6, <2>1, UnchangedSet
  <2> QED BY <1>3, <1>7, <2>2, <2>3 DEF IsArray
<1>9. new \in Events' /\ Status' = Status
  BY <1>3, <1>7 DEF Status, Events
<1>10. \A n \in Names : ArrayOf(n)' = ArrayOf(n) /\ Listed(n)' = Listed(n)
  BY <1>3 DEF ArrayOf, Listed
<1>11. heap'[new].freed = FALSE /\ heap'[new].count = 2
  BY <1>5 DEF Allocated
<1>12. Counts(new)'
  <2>1. EventCounts(new)'
    BY <1>9, <1>11 DEF EventCounts
  <2> QED BY <1>1, <1>5, <2>1 DEF Counts
<1>13. Addition(key, 1, new)
  <2>1. /\ Extended(Elements(global_status), Elements(global_status)')
        /\ Extended(Elements(global_events), Elements(global_events)')
        /\ \A n \in Names : Extended(Elements(ArrayOf(n)), Elements(ArrayOf(n))')
    BY <1>2, <1>3, <1>7, <1>10 DEF Extended, Elements, Appended
  <2> QED BY <1>1, <1>2, <1>5, <1>8, <1>9, <1>10, <1>12, <2>1 DEF Addition
<1> QED BY <1>1, <1>4, <1>13, AdditionKeeps

\* The hash set is not the null pointer.
LEMMA FunctionNotNull ==
    ASSUME NEW M \in SUBSET Names, NEW D \in SUBSET Nat, NEW f, f = [n \in M |-> f[n]],
           \A n \in M : Sound(f[n], D)
    PROVE  f # NULL
<1>1. ASSUME NEW n \in M PROVE f[n] \in PossibleArrays
  <2>1. Seq(D) \subseteq Seq(Nat)
    BY SeqOfMore
  <2>2. Sound(f[n], D)
    OBVIOUS
  <2> QED BY <2>1, <2>2 DEF Sound, PossibleArrays
<1>2. f \in [M -> PossibleArrays]
  BY <1>1
<1> QED BY <1>2, NullAssumption

\* The arrays of names to which listener new of subscription s was added
LEMMA SetExtended ==
    ASSUME Typed, NEW s \in Subscriptions, NEW new, new \notin DOMAIN heap,
           DOMAIN heap \subseteq DOMAIN heap', DOMAIN heap' \subseteq Nat, new \in DOMAIN heap',
           listeners' =
               [n \in names[s] \cup (IF listeners = NULL THEN {} ELSE DOMAIN listeners) |->
                   IF n \in names[s]
                   THEN pbarray_add(pbcc_initialize_array_(ArrayOf(n)), new)
                   ELSE ArrayOf(n)]
    PROVE  /\ HashSet'
           /\ \A n \in Names : n \in names[s] =>
                  new \in Listed(n)' /\ Appended(Elements(ArrayOf(n)), new, Elements(ArrayOf(n))')
           /\ \A n \in Names : n \notin names[s] => ArrayOf(n)' = ArrayOf(n)
<1> DEFINE M == names[s] \cup (IF listeners = NULL THEN {} ELSE DOMAIN listeners)
           Added(n) == pbarray_add(pbcc_initialize_array_(ArrayOf(n)), new)
<1>1. names[s] \subseteq Names /\ HashSet
  BY DEF Typed
<1>2. M \in SUBSET Names
  BY <1>1 DEF HashSet
<1>3. DOMAIN listeners' = M /\ listeners' = [n \in M |-> listeners'[n]]
  OBVIOUS
<1>4. \A n \in M : listeners'[n] = IF n \in names[s] THEN Added(n) ELSE ArrayOf(n)
  OBVIOUS
<1>5. \A n : n \in M <=> n \in names[s] \/ (listeners # NULL /\ n \in DOMAIN listeners)
  OBVIOUS
<1> HIDE DEF M
<1>6. ASSUME NEW n
      PROVE  /\ Sound(Added(n), DOMAIN heap') /\ Added(n) # NULL
             /\ Appended(Elements(ArrayOf(n)), new, Elements(Added(n)))
             /\ new \in ToSet(Elements(Added(n)))
  <2>1. ArrayOf(n) = NULL \/ Sound(ArrayOf(n), DOMAIN heap)
    BY ListedFacts DEF IsArray
  <2> QED BY <2>1, AddedFacts
<1> HIDE DEF Added
<1>7. ASSUME NEW n \in M PROVE Sound(listeners'[n], DOMAIN heap')
  <2>1. CASE n \in names[s]
    BY <1>4, <1>6, <2>1
  <2>2. CASE n \notin names[s]
    <3>1. listeners # NULL /\ n \in DOMAIN listeners
      BY <1>5, <2>2
    <3>2. listeners'[n] = listeners[n]
      BY <1>4, <2>2, <3>1 DEF ArrayOf
    <3>3. Sound(listeners[n], DOMAIN heap)
      BY <1>1, <3>1 DEF HashSet
    <3> QED BY <3>2, <3>3, SoundMore
  <2> QED BY <2>1, <2>2
<1>8. listeners' # NULL
  <2> DEFINE f == listeners'
  <2>1. f = [n \in M |-> f[n]] /\ \A n \in M : Sound(f[n], DOMAIN heap')
    BY <1>3, <1>7
  <2> HIDE DEF f
  <2>2. f # NULL
    BY <1>2, <2>1, FunctionNotNull
  <2> QED BY <2>2 DEF f
<1>9. HashSet'
  BY <1>2, <1>3, <1>7, <1>8 DEF HashSet
<1>10. ASSUME NEW n \in Names, n \in names[s]
       PROVE  new \in Listed(n)' /\ Appended(Elements(ArrayOf(n)), new, Elements(ArrayOf(n))')
  <2>1. ArrayOf(n)' = Added(n)
    BY <1>3, <1>4, <1>5, <1>8, <1>10 DEF ArrayOf
  <2>2. Elements(ArrayOf(n))' = Elements(Added(n))
    BY <2>1 DEF Elements
  <2>3. Listed(n)' = ToSet(Elements(Added(n)))
    BY <2>2 DEF Listed
  <2> QED BY <1>6, <2>2, <2>3
<1>11. ASSUME NEW n \in Names, n \notin names[s] PROVE ArrayOf(n)' = ArrayOf(n)
  BY <1>3, <1>4, <1>5, <1>8, <1>11 DEF ArrayOf
<1> QED BY <1>9, <1>10, <1>11

\* pbcc_event_listener_add_subscription_object_listener keeps the invariant: one array
\* per name, and a reference for each.
LEMMA AddSubscriptionKeeps ==
    ASSUME IInv, NEW s \in Subscriptions, NEW t \in Types, NEW c \in Callbacks,
           pbcc_event_listener_add_subscription_object_listener(s, t, c)
    PROVE  IInv'
<1> DEFINE key == Key(s, t, c)
<1>1. key \in Keys /\ key.subscription = s /\ key.type = t
  BY KeyFacts
<1>2. s # NULL /\ t # "STATUS"
  BY NullAssumption, TypesAssumption
<1>3. PICK new : new = Len(heap) + 1
  OBVIOUS
<1>4. Typed
  BY DEF IInv
<1>5. names[s] \subseteq Names
  BY <1>4 DEF Typed
<1>6. PICK added : added = Cardinality(names[s])
  OBVIOUS
<1>7. added \in Nat
  BY <1>5, <1>6, NamesAssumption, FS_Subset, FS_CardinalityType
<1>8. Adds(key, added) /\ UNCHANGED <<global_status, global_events>>
  BY <1>6 DEF pbcc_event_listener_add_subscription_object_listener
<1>9. listeners' =
          [n \in names[s] \cup (IF listeners = NULL THEN {} ELSE DOMAIN listeners) |->
              IF n \in names[s]
              THEN pbarray_add(pbcc_initialize_array_(ArrayOf(n)), Len(heap'))
              ELSE ArrayOf(n)]
  BY DEF pbcc_event_listener_add_subscription_object_listener
<1> HIDE DEF key
<1>10. /\ Calls /\ Called(FALSE) /\ process' = process /\ gone' = gone \ {key}
       /\ Grown(key, added) /\ Len(heap') = new
       /\ DOMAIN heap' = DOMAIN heap \cup {new} /\ new \notin DOMAIN heap
       /\ DOMAIN heap \subseteq Nat /\ DOMAIN heap' \subseteq Nat
       /\ heap'[new] = Allocated(key, added)
       /\ Owner(new)' = key.subscription /\ (IsStatus(new)' <=> key.type = "STATUS")
       /\ new \notin Status /\ new \notin Events /\ \A n \in Names : new \notin Listed(n)
  BY <1>1, <1>3, <1>7, <1>8, AddsFacts
<1>11. DOMAIN heap \subseteq DOMAIN heap' /\ new \in DOMAIN heap'
  BY <1>10
<1>12. /\ HashSet'
       /\ \A n \in Names : n \in names[s] =>
              new \in Listed(n)' /\ Appended(Elements(ArrayOf(n)), new, Elements(ArrayOf(n))')
       /\ \A n \in Names : n \notin names[s] => ArrayOf(n)' = ArrayOf(n)
  <2>1. Len(heap') = new
    BY <1>10
  <2>2. listeners' =
          [n \in names[s] \cup (IF listeners = NULL THEN {} ELSE DOMAIN listeners) |->
              IF n \in names[s]
              THEN pbarray_add(pbcc_initialize_array_(ArrayOf(n)), new)
              ELSE ArrayOf(n)]
    BY <1>9, <2>1
  <2> QED BY <1>4, <1>10, <1>11, <2>2, SetExtended
<1>13. IsArray(global_status)' /\ IsArray(global_events)'
  <2>1. IsArray(global_status) /\ IsArray(global_events)
    BY <1>4 DEF Typed
  <2>2. /\ global_status = NULL \/ Sound(global_status, DOMAIN heap')
        /\ global_events = NULL \/ Sound(global_events, DOMAIN heap')
    BY <1>11, <2>1, UnchangedArray
  <2> QED BY <1>8, <2>2 DEF IsArray
<1>14. Status' = Status /\ Events' = Events
  BY <1>8 DEF Status, Events
<1>15. \A n \in Names : new \in Listed(n)' <=> n \in names[s]
  <2>1. \A n \in Names : n \notin names[s] => Listed(n)' = Listed(n)
    BY <1>12 DEF Listed
  <2> QED BY <1>10, <1>12, <2>1
<1>16. Places(new)' = names[s] /\ Count(new)' = added
  <2>1. Places(new)' = names[s]
    BY <1>5, <1>15 DEF Places
  <2> QED BY <1>6, <2>1 DEF Count
<1>17. heap'[new].freed = FALSE /\ heap'[new].count = 1 + added /\ heap'[new].added = added
  BY <1>10 DEF Allocated
<1>18. added = 0 <=> names[s] = {}
  <2>1. IsFiniteSet(names[s])
    BY <1>5, NamesAssumption, FS_Subset
  <2> QED BY <1>6, <2>1, FS_EmptySet
<1>19. Counts(new)'
  <2>1. Owner(new)' # NULL
    BY <1>1, <1>2, <1>10
  <2>2. added = 0 => Places(new)' = {}
    BY <1>16, <1>18
  <2>3. added = 1 => OneCounts(new)'
    BY <1>16, <1>17, <1>18 DEF OneCounts
  <2>4. added = 2 => TwoCounts(new)'
    BY <1>16, <1>17, <1>18 DEF TwoCounts
  <2> QED BY <1>17, <2>1, <2>2, <2>3, <2>4 DEF Counts
<1>20. Addition(key, added, new)
  <2>1. \A n \in Names : Extended(Elements(ArrayOf(n)), Elements(ArrayOf(n))')
    <3>1. ASSUME NEW n \in Names PROVE Extended(Elements(ArrayOf(n)), Elements(ArrayOf(n))')
      <4>1. CASE n \in names[s]
        BY <1>3, <1>12, <4>1 DEF Extended, Appended
      <4>2. CASE n \notin names[s]
        BY <1>12, <4>2 DEF Extended, Elements
      <4> QED BY <4>1, <4>2
    <3> QED BY <3>1
  <2>2. /\ Extended(Elements(global_status), Elements(global_status)')
        /\ Extended(Elements(global_events), Elements(global_events)')
    BY <1>8 DEF Extended, Elements
  <2>3. new \notin Status' /\ new \notin Events'
    BY <1>10, <1>14
  <2>4. \A n \in Names : new \in Listed(n)' => key.subscription # NULL /\ n \in names[key.subscription]
    BY <1>1, <1>2, <1>15
  <2> QED BY <1>3, <1>10, <1>12, <1>13, <1>19, <2>1, <2>2, <2>3, <2>4 DEF Addition
<1> QED BY <1>1, <1>7, <1>20, AdditionKeeps

-----------------------------------------------------------------------------
(* Removals *)

\* What a call that removes listeners does, as far as the invariant goes
Removal(key) ==
    /\ Calls /\ Called(TRUE) /\ process' = process
    /\ heap' \in Seq(Records) /\ DOMAIN heap' = DOMAIN heap
    /\ \A l \in DOMAIN heap : heap'[l].key = heap[l].key /\ heap'[l].added = heap[l].added
    /\ gone' \subseteq gone \cup {key}
    /\ IsArray(global_status)' /\ IsArray(global_events)' /\ HashSet'
    /\ Status' \subseteq Status /\ Events' \subseteq Events
    /\ \A n \in Names : Listed(n)' \subseteq Listed(n)
    /\ \A l \in Status' \cup Events' : heap[l].key # key
    /\ \A n \in Names : \A l \in Listed(n)' : heap[l].key # key \/ Owner(l) \in shrunk
    /\ Counted'

\* The invariant after a removal. The emission in progress is of interest no more.
LEMMA RemovalKeeps ==
    ASSUME IInv, NEW key \in Keys, Removal(key)
    PROVE  IInv'
<1>1. TRUE \in BOOLEAN
  OBVIOUS
<1>2. /\ process = "runs" /\ Typed /\ Kinds /\ Emission /\ RemovedIsGone
      /\ names' = names /\ due' = due /\ told' = told /\ shrunk' = shrunk
      /\ removed' \in BOOLEAN
      /\ emitting = NULL => emitting' = NULL /\ removed' = removed
      /\ emitting # NULL => emitting' = [emitting EXCEPT !.called = FALSE] /\ removed'
  BY <1>1, CallFacts DEF Removal
<1>3. /\ DOMAIN heap' = DOMAIN heap /\ heap' \in Seq(Records)
      /\ \A l \in DOMAIN heap : Owner(l)' = Owner(l) /\ (IsStatus(l)' <=> IsStatus(l))
                                /\ heap'[l].key = heap[l].key
  BY DEF Removal, Owner, IsStatus
<1>4. Status \subseteq DOMAIN heap /\ Events \subseteq DOMAIN heap
      /\ \A n \in Names : Listed(n) \subseteq DOMAIN heap
  BY <1>2, ListedFacts
<1>5. Status' \subseteq Status /\ Events' \subseteq Events
      /\ \A n \in Names : Listed(n)' \subseteq Listed(n)
  BY DEF Removal
<1>6. Typed'
  <2>1. due' \subseteq DOMAIN heap' /\ told' \in Seq(DOMAIN heap')
    BY <1>2, <1>3 DEF Typed
  <2>2. gone' \subseteq Keys
    BY <1>2 DEF Typed, Removal
  <2>3. emitting' \in Emissions \cup {NULL}
    <3>1. emitting \in Emissions \cup {NULL}
      BY <1>2 DEF Typed
    <3> QED BY <1>2, <3>1, CalledEmission
  <2>4. names' \in [Subscriptions -> SUBSET Names] /\ shrunk' \subseteq Subscriptions
    BY <1>2 DEF Typed
  <2>5. process' = "runs" /\ IsArray(global_status)' /\ IsArray(global_events)' /\ HashSet'
    BY <1>2 DEF Removal
  <2> QED BY <1>2, <1>3, <2>1, <2>2, <2>3, <2>4, <2>5 DEF Typed
<1>7. Kinds'
  <2>1. \A l \in Status' : Owner(l)' = NULL /\ IsStatus(l)'
    BY <1>2, <1>3, <1>4, <1>5 DEF Kinds
  <2>2. \A l \in Events' : Owner(l)' = NULL /\ ~ IsStatus(l)'
    BY <1>2, <1>3, <1>4, <1>5 DEF Kinds
  <2>3. ASSUME NEW n \in Names, NEW l \in Listed(n)'
        PROVE  Owner(l)' # NULL /\ (n \in names'[Owner(l)'] \/ Owner(l)' \in shrunk')
    <3>1. l \in Listed(n) /\ l \in DOMAIN heap
      BY <1>4, <1>5, <2>3
    <3> QED BY <1>2, <1>3, <3>1 DEF Kinds
  <2> QED BY <2>1, <2>2, <2>3 DEF Kinds
<1>8. Emission'
  <2>1. CASE emitting = NULL
    BY <1>2, <2>1 DEF Emission
  <2>2. CASE emitting # NULL
    <3>1. /\ emitting \in Emissions /\ emitting.index <= emitting.count + 1
          /\ emitting.where # "status" => emitting.name \in Names
      BY <1>2, <2>2 DEF Emission
    <3>2. /\ emitting' \in Emissions /\ emitting' # NULL
          /\ emitting'.where = emitting.where /\ emitting'.name = emitting.name
          /\ emitting'.index = emitting.index /\ emitting'.count = emitting.count
      BY <1>2, <2>2, <3>1, CalledEmission
    <3> QED BY <1>2, <2>2, <3>1, <3>2 DEF Emission
  <2> QED BY <2>1, <2>2
<1>9. RemovedIsGone'
  <2>1. \A l \in Registered : heap[l].key \in gone => heap[l].key.subscription \in shrunk
    BY <1>2 DEF RemovedIsGone
  <2>2. ASSUME NEW l \in Registered', heap'[l].key \in gone'
        PROVE  heap'[l].key.subscription \in shrunk'
    <3>1. l \in Status' \/ l \in Events' \/ \E n \in Names : l \in Listed(n)'
      <4>1. (l \in Registered <=> l \in Status \/ l \in Events \/ \E n \in Names : l \in Listed(n))'
        BY DEF Registered, Status, Events, Listed
      <4> QED BY <2>2, <4>1
    <3>2. l \in Registered /\ l \in DOMAIN heap
      BY <1>4, <1>5, <3>1, RegisteredIs
    <3>3. heap[l].key # key \/ heap[l].key.subscription \in shrunk
      BY <3>1 DEF Removal, Owner
    <3>4. heap'[l].key = heap[l].key
      BY <1>3, <3>2
    <3>5. gone' \subseteq gone \cup {key}
      BY DEF Removal
    <3> QED BY <1>2, <2>1, <2>2, <3>2, <3>3, <3>4, <3>5
  <2> QED BY <2>2 DEF RemovedIsGone
<1>10. CrashExplained' /\ Counted'
  <2>1. process' = "runs" /\ Counted'
    BY <1>2 DEF Removal
  <2> QED BY <2>1 DEF CrashExplained
<1> QED BY <1>6, <1>7, <1>8, <1>9, <1>10 DEF IInv

\* A heap whose listeners are the same but for their counters
LEMMA HeapUpdated ==
    ASSUME Typed, heap' = [l \in DOMAIN heap |-> heap'[l]],
           \A l \in DOMAIN heap : heap'[l] \in Records
    PROVE  heap' \in Seq(Records) /\ DOMAIN heap' = DOMAIN heap
<1>1. DOMAIN heap = 1..Len(heap) /\ Len(heap) \in Nat
  BY HeapFacts
<1>2. heap' \in [1..Len(heap) -> Records]
  BY <1>1
<1> QED BY <1>1, <1>2, SeqDef

\* What every function that removes listeners has in common
LEMMA RemovesFacts ==
    ASSUME IInv, NEW key \in Keys, Removes(key)
    PROVE  /\ Calls /\ Called(TRUE) /\ gone' \subseteq gone \cup {key}
           /\ process = "runs" /\ Typed /\ Kinds /\ Counted /\ Emission /\ RemovedIsGone
           /\ shrunk' = shrunk /\ names' = names
BY CallFacts DEF Removes

\* Which listeners of an array have the key
LEMMA MatchingFacts ==
    ASSUME NEW a, NEW key
    PROVE  \A l : l \in Matching(a, key) <=> l \in ToSet(Elements(a)) /\ heap[l].key = key
BY DEF Matching

\* pbcc_event_listener_remove_status_listener keeps the invariant: the listener is
\* freed, whatever its counter says.
LEMMA RemoveStatusKeeps ==
    ASSUME IInv, NEW c \in Callbacks, pbcc_event_listener_remove_status_listener(c)
    PROVE  IInv'
<1> DEFINE key == Key(NULL, "STATUS", c)
           M == Matching(global_status, key)
<1>1. key \in Keys /\ key.subscription = NULL /\ key.type = "STATUS"
  BY KeyFacts
<1>2. /\ Removes(key) /\ global_status # NULL
      /\ heap' = [l \in DOMAIN heap |->
                     IF l \in M THEN [heap[l] EXCEPT !.count = 0, !.freed = TRUE]
                     ELSE heap[l]]
      /\ global_status' = [global_status EXCEPT !.elements = Without(@, M)]
      /\ UNCHANGED <<global_events, listeners, process>>
  BY DEF pbcc_event_listener_remove_status_listener
<1>3. \A l : l \in M <=> l \in Status /\ heap[l].key = key
  BY MatchingFacts DEF Status
<1> HIDE DEF key, M
<1>4. /\ Calls /\ Called(TRUE) /\ gone' \subseteq gone \cup {key}
      /\ process = "runs" /\ Typed /\ Kinds /\ Counted /\ Emission /\ RemovedIsGone
      /\ shrunk' = shrunk /\ names' = names
  BY <1>1, <1>2, RemovesFacts
<1>5. \A l \in DOMAIN heap : heap[l] \in Records
  BY <1>4, HeapFacts
<1>6. TRUE \in BOOLEAN /\ 0 \in Nat
  OBVIOUS
<1>7. ASSUME NEW l \in DOMAIN heap
      PROVE  /\ heap'[l] \in Records /\ heap'[l].key = heap[l].key /\ heap'[l].added = heap[l].added
             /\ l \in M => heap'[l].freed
             /\ l \notin M => heap'[l] = heap[l]
  <2>1. CASE l \in M
    <3>1. heap'[l] = [heap[l] EXCEPT !.count = 0, !.freed = TRUE]
      BY <1>2, <2>1
    <3> QED BY <1>5, <1>6, <2>1, <3>1 DEF Records
  <2>2. CASE l \notin M
    BY <1>2, <1>5, <2>2
  <2> QED BY <2>1, <2>2
<1>8. heap' \in Seq(Records) /\ DOMAIN heap' = DOMAIN heap
  <2>1. heap' = [l \in DOMAIN heap |-> heap'[l]]
    BY <1>2
  <2> QED BY <1>4, <1>7, <2>1, HeapUpdated
<1>9. Sound(global_status, DOMAIN heap) /\ HashSet /\ IsArray(global_events)
  BY <1>2, <1>4 DEF Typed, IsArray
<1> DEFINE s == global_status.elements
           w == Without(s, M)
<1>10. s \in Seq(DOMAIN heap) /\ Once(s) /\ Len(s) <= global_status.length
       /\ global_status.length \in Nat \ {0} /\ Len(s) \in Nat
  BY <1>9, LenProperties DEF Sound
<1>11. w \in Seq(DOMAIN heap) /\ Len(w) <= Len(s) /\ ToSet(w) = ToSet(s) \ M /\ Once(w)
  BY <1>10, WithoutFacts
<1>12. global_status' = [elements |-> w, length |-> global_status.length]
  BY <1>2, <1>9 DEF Sound
<1> HIDE DEF w
<1>13. Len(w) <= global_status.length
  <2>1. Len(w) \in Nat
    BY <1>11, LenProperties
  <2> QED BY <1>10, <1>11, <2>1
<1>14. Sound(global_status', DOMAIN heap) /\ global_status'.elements = w
  BY <1>10, <1>11, <1>12, <1>13 DEF Sound
<1>15. DOMAIN heap \subseteq Nat
  BY <1>4, HeapFacts
<1>16. Status' = Status \ M
  <2>1. Elements(global_status) = s
    BY <1>2 DEF Elements
  <2>2. global_status' # NULL
    BY <1>14, <1>15, NullFacts
  <2>3. Elements(global_status)' = w
    BY <1>14, <2>2 DEF Elements
  <2> QED BY <1>11, <2>1, <2>3 DEF Status
<1>17. IsArray(global_status)' /\ IsArray(global_events)' /\ HashSet'
  <2>1. IsArray(global_status)'
    BY <1>8, <1>14 DEF IsArray
  <2>2. IsArray(global_events)'
    BY <1>2, <1>8, <1>9 DEF IsArray
  <2>3. HashSet'
    BY <1>2, <1>8, <1>9 DEF HashSet
  <2> QED BY <2>1, <2>2, <2>3
<1>18. Events' = Events /\ \A n \in Names : Listed(n)' = Listed(n)
  BY <1>2 DEF Events, Listed, ArrayOf
<1>19. \A l \in DOMAIN heap : Owner(l)' = Owner(l) /\ (IsStatus(l)' <=> IsStatus(l))
  BY <1>7 DEF Owner, IsStatus
<1>20. Counted'
  <2>1. ASSUME NEW l \in DOMAIN heap' PROVE Counts(l)'
    <3>1. l \in DOMAIN heap
      BY <1>8
    <3>2. Counts(l)
      BY <1>4, <3>1 DEF Counted
    <3>3. CASE l \in M
      <4>1. Owner(l) = NULL /\ IsStatus(l)
        BY <1>3, <1>4, <3>3 DEF Kinds
      <4>2. heap'[l].freed /\ l \notin Status'
        BY <1>7, <1>16, <3>1, <3>3
      <4>3. heap'[l].freed = TRUE
        BY <1>7, <3>1, <4>2 DEF Records
      <4>4. StatusCounts(l)'
        BY <4>2, <4>3 DEF StatusCounts
      <4> QED BY <1>19, <3>1, <4>1, <4>4 DEF Counts
    <3>4. CASE l \notin M
      <4>1. heap'[l] = heap[l] /\ (l \in Status' <=> l \in Status) /\ (l \in Events' <=> l \in Events)
        BY <1>7, <1>16, <1>18, <3>1, <3>4
      <4>2. Places(l)' = Places(l)
        BY <1>18 DEF Places
      <4> QED BY <3>2, <4>1, <4>2, CountsAlike
    <3> QED BY <3>3, <3>4
  <2> QED BY <2>1 DEF Counted
<1>21. Removal(key)
  <2>1. Status' \subseteq Status /\ Events' \subseteq Events /\ \A n \in Names :
          Listed(n)' \subseteq Listed(n)
    BY <1>16, <1>18
  <2>2. \A l \in Status' \cup Events' : heap[l].key # key
    <3>1. \A l \in Status' : heap[l].key # key
      BY <1>3, <1>16
    <3>2. \A l \in Events : heap[l].key # key
      BY <1>1, <1>4 DEF Kinds, IsStatus
    <3> QED BY <1>18, <3>1, <3>2
  <2>3. \A n \in Names : \A l \in Listed(n)' : heap[l].key # key \/ Owner(l) \in shrunk
    BY <1>1, <1>4, <1>18 DEF Kinds, Owner
  <2>4. process' = process
    BY <1>2
  <2> QED BY <1>4, <1>7, <1>8, <1>17, <1>20, <2>1, <2>2, <2>3, <2>4 DEF Removal
<1> QED BY <1>1, <1>21, RemovalKeeps

\* The counter of a listener taken out of k arrays, down to zero at most
LEMMA ReleasedFacts ==
    ASSUME NEW l, heap[l] \in Records, NEW times \in Nat
    PROVE  /\ Released(l, times) \in Records
           /\ Released(l, times).key = heap[l].key /\ Released(l, times).added = heap[l].added
           /\ heap[l].count <= 2 * times
                => Released(l, times).count = 0 /\ Released(l, times).freed = TRUE
           /\ heap[l].count > 2 * times => /\ Released(l, times).count = heap[l].count - 2 * times
                                           /\ Released(l, times).freed = FALSE
<1> DEFINE c == IF heap[l].count > 2 * times THEN heap[l].count - 2 * times ELSE 0
           f == (c = 0)
<1>1. heap[l].count \in Nat
  BY DEF Records
<1>2. c \in Nat /\ (heap[l].count <= 2 * times => c = 0)
      /\ (heap[l].count > 2 * times => c = heap[l].count - 2 * times /\ c # 0)
  BY <1>1
<1>3. Released(l, times) = [heap[l] EXCEPT !.count = c, !.freed = f]
  BY DEF Released
<1> HIDE DEF c
<1>4. f \in BOOLEAN /\ (c = 0 => f = TRUE) /\ (c # 0 => f = FALSE)
  OBVIOUS
<1> HIDE DEF f
<1>5. /\ Released(l, times) \in Records
      /\ Released(l, times).key = heap[l].key /\ Released(l, times).added = heap[l].added
      /\ Released(l, times).count = c /\ Released(l, times).freed = f
  BY <1>2, <1>3, <1>4 DEF Records
<1> QED BY <1>1, <1>2, <1>4, <1>5

\* pbcc_event_listener_remove_message_listener keeps the invariant: two references are
\* given back, the one of the listener and the one of its array.
LEMMA RemoveMessageKeeps ==
    ASSUME IInv, NEW t \in Types, NEW c \in Callbacks, pbcc_event_listener_remove_message_listener(t, c)
    PROVE  IInv'
<1> DEFINE key == Key(NULL, t, c)
           M == Matching(global_events, key)
           after == pbcc_remove_listener_(global_events, key)
<1>1. key \in Keys /\ key.subscription = NULL /\ key.type # "STATUS"
  BY KeyFacts, TypesAssumption
<1>2. /\ Removes(key) /\ global_events # NULL
      /\ heap' = [l \in DOMAIN heap |->
                     IF Left(l, global_events, after) THEN Released(l, 1) ELSE heap[l]]
      /\ global_events' = after
      /\ UNCHANGED <<global_status, listeners, process>>
  BY DEF pbcc_event_listener_remove_message_listener
<1>3. \A l : l \in M <=> l \in Events /\ heap[l].key = key
  BY MatchingFacts DEF Events
<1> HIDE DEF key
<1>4. /\ Calls /\ Called(TRUE) /\ gone' \subseteq gone \cup {key}
      /\ process = "runs" /\ Typed /\ Kinds /\ Counted /\ Emission /\ RemovedIsGone
      /\ shrunk' = shrunk /\ names' = names
  BY <1>1, <1>2, RemovesFacts
<1>5. \A l \in DOMAIN heap : heap[l] \in Records
  BY <1>4, HeapFacts
<1>6. Sound(global_events, DOMAIN heap) /\ HashSet /\ IsArray(global_status)
  BY <1>2, <1>4 DEF Typed, IsArray
<1>7. DOMAIN heap \subseteq Nat
  BY <1>4, HeapFacts
<1>8. Sound(after, DOMAIN heap) /\ ToSet(after.elements) = ToSet(global_events.elements) \ M
  BY <1>6, RemoveListenerFacts
<1> HIDE DEF M, after
<1>9. ToSet(Elements(after)) = Events \ M
  <2>1. after # NULL
    BY <1>7, <1>8, NullFacts
  <2>2. Elements(after) = after.elements /\ Elements(global_events) = global_events.elements
    BY <1>2, <2>1 DEF Elements
  <2> QED BY <1>8, <2>2 DEF Events
<1>10. Events' = Events \ M
  BY <1>2, <1>9 DEF Events
<1>11. \A l : Left(l, global_events, after) <=> l \in M
  BY <1>3, <1>9 DEF Left, Events
<1>12. ASSUME NEW l \in M
       PROVE  heap[l].count = 2 /\ Owner(l) = NULL /\ ~ IsStatus(l) /\ l \in DOMAIN heap
  <2>1. l \in Events
    BY <1>3
  <2>2. l \in DOMAIN heap /\ Owner(l) = NULL /\ ~ IsStatus(l)
    BY <1>4, <2>1, ListedFacts DEF Kinds
  <2>3. EventCounts(l)
    BY <1>4, <2>2 DEF Counted, Counts
  <2> QED BY <2>1, <2>2, <2>3 DEF EventCounts
<1>13. ASSUME NEW l \in DOMAIN heap
       PROVE  /\ heap'[l] \in Records /\ heap'[l].key = heap[l].key /\ heap'[l].added = heap[l].added
              /\ l \in M => heap'[l].freed = TRUE
              /\ l \notin M => heap'[l] = heap[l]
  <2>1. CASE l \in M
    <3>1. heap'[l] = Released(l, 1) /\ heap[l].count = 2
      BY <1>2, <1>11, <1>12, <2>1
    <3>2. 1 \in Nat /\ 2 <= 2 * 1
      OBVIOUS
    <3> QED BY <1>5, <2>1, <3>1, <3>2, ReleasedFacts
  <2>2. CASE l \notin M
    BY <1>2, <1>5, <1>11, <2>2
  <2> QED BY <2>1, <2>2
<1>14. heap' \in Seq(Records) /\ DOMAIN heap' = DOMAIN heap
  <2>1. heap' = [l \in DOMAIN heap |-> heap'[l]]
    BY <1>2
  <2> QED BY <1>4, <1>13, <2>1, HeapUpdated
<1>15. IsArray(global_status)' /\ IsArray(global_events)' /\ HashSet'
  <2>1. IsArray(global_events)'
    BY <1>2, <1>8, <1>14 DEF IsArray
  <2>2. IsArray(global_status)'
    BY <1>2, <1>6, <1>14 DEF IsArray
  <2>3. HashSet'
    BY <1>2, <1>6, <1>14 DEF HashSet
  <2> QED BY <2>1, <2>2, <2>3
<1>16. Status' = Status /\ \A n \in Names : Listed(n)' = Listed(n)
  BY <1>2 DEF Status, Listed, ArrayOf
<1>17. \A l \in DOMAIN heap : Owner(l)' = Owner(l) /\ (IsStatus(l)' <=> IsStatus(l))
  BY <1>13 DEF Owner, IsStatus
<1>18. Counted'
  <2>1. ASSUME NEW l \in DOMAIN heap' PROVE Counts(l)'
    <3>1. l \in DOMAIN heap
      BY <1>14
    <3>2. Counts(l)
      BY <1>4, <3>1 DEF Counted
    <3>3. CASE l \in M
      <4>1. EventCounts(l)'
        BY <1>10, <1>13, <3>1, <3>3 DEF EventCounts
      <4>2. Owner(l)' = NULL /\ ~ IsStatus(l)'
        BY <1>12, <1>17, <3>3
      <4> QED BY <4>1, <4>2 DEF Counts
    <3>4. CASE l \notin M
      <4>1. heap'[l] = heap[l] /\ (l \in Status' <=> l \in Status) /\ (l \in Events' <=> l \in Events)
        BY <1>10, <1>13, <1>16, <3>1, <3>4
      <4>2. Places(l)' = Places(l)
        BY <1>16 DEF Places
      <4> QED BY <3>2, <4>1, <4>2, CountsAlike
    <3> QED BY <3>3, <3>4
  <2> QED BY <2>1 DEF Counted
<1>19. Removal(key)
  <2>1. Status' \subseteq Status /\ Events' \subseteq Events /\ \A n \in Names :
          Listed(n)' \subseteq Listed(n)
    BY <1>10, <1>16
  <2>2. \A l \in Status' \cup Events' : heap[l].key # key
    <3>1. \A l \in Events' : heap[l].key # key
      BY <1>3, <1>10
    <3>2. \A l \in Status : heap[l].key # key
      BY <1>1, <1>4 DEF Kinds, IsStatus
    <3> QED BY <1>16, <3>1, <3>2
  <2>3. \A n \in Names : \A l \in Listed(n)' : heap[l].key # key \/ Owner(l) \in shrunk
    BY <1>1, <1>4, <1>16 DEF Kinds, Owner
  <2>4. process' = process
    BY <1>2
  <2> QED BY <1>4, <1>13, <1>14, <1>15, <1>18, <2>1, <2>2, <2>3, <2>4 DEF Removal
<1> QED BY <1>1, <1>19, RemovalKeeps

-----------------------------------------------------------------------------
(* Removals from the arrays of names *)

\* The listeners with this key that leave the arrays of the names of s
Taken(s, key, l) == {n \in Places(l) : n \in names[s] /\ heap[l].key = key}

\* The arrays after a removal
After(s, key) ==
    [n \in DOMAIN listeners |->
        IF n \in names[s] THEN pbcc_remove_listener_(listeners[n], key) ELSE listeners[n]]

\* The array of a name that s has loses the listeners with the key, others none.
LEMMA AfterFacts ==
    ASSUME Typed, listeners # NULL, NEW s, NEW key, NEW n \in DOMAIN listeners
    PROVE  /\ n \in Names /\ ArrayOf(n) = listeners[n] /\ n \in DOMAIN After(s, key)
           /\ Sound(After(s, key)[n], DOMAIN heap)
           /\ \A l : l \in ToSet(Elements(After(s, key)[n])) <=>
                        l \in Listed(n) /\ ~ (n \in names[s] /\ heap[l].key = key)
           /\ \A l : Left(l, listeners[n], After(s, key)[n]) <=>
                        l \in Listed(n) /\ n \in names[s] /\ heap[l].key = key
<1> DEFINE a == listeners[n]
           b == After(s, key)[n]
<1>1. n \in Names /\ ArrayOf(n) = a /\ Sound(a, DOMAIN heap)
  BY DEF Typed, HashSet, ArrayOf
<1>2. DOMAIN heap \subseteq Nat
  BY HeapFacts
<1>3. b = (IF n \in names[s] THEN pbcc_remove_listener_(a, key) ELSE a) /\ n \in DOMAIN After(s, key)
  BY DEF After
<1>4. a # NULL /\ Elements(a) = a.elements /\ Listed(n) = ToSet(a.elements)
  BY <1>1, <1>2, NullFacts DEF Elements, Listed
<1> HIDE DEF a, b
<1>5. Sound(b, DOMAIN heap) /\ \A l : l \in ToSet(b.elements) <=>
                        l \in Listed(n) /\ ~ (n \in names[s] /\ heap[l].key = key)
  <2>1. CASE n \in names[s]
    <3> DEFINE M == Matching(a, key)
    <3>1. b = pbcc_remove_listener_(a, key)
      BY <1>3, <2>1
    <3>2. Sound(b, DOMAIN heap) /\ ToSet(b.elements) = ToSet(a.elements) \ M
      BY <1>1, <3>1, RemoveListenerFacts
    <3>3. \A l : l \in M <=> l \in Listed(n) /\ heap[l].key = key
      BY <1>4, MatchingFacts
    <3> HIDE DEF M
    <3> QED BY <1>4, <2>1, <3>2, <3>3
  <2>2. CASE n \notin names[s]
    BY <1>1, <1>3, <1>4, <2>2
  <2> QED BY <2>1, <2>2
<1>6. b # NULL /\ Elements(b) = b.elements
  BY <1>2, <1>5, NullFacts DEF Elements
<1>7. \A l : Left(l, a, b) <=> l \in Listed(n) /\ n \in names[s] /\ heap[l].key = key
  BY <1>4, <1>5, <1>6 DEF Left
<1> QED BY <1>1, <1>3, <1>5, <1>6, <1>7 DEF a, b

\* The arrays a listener leaves are those of the names s has now.
LEMMA TakenIs ==
    ASSUME Typed, listeners # NULL, NEW s, NEW key, NEW l
    PROVE  /\ {n \in DOMAIN After(s, key) : Left(l, listeners[n], After(s, key)[n])} = Taken(s, key, l)
           /\ Taken(s, key, l) \subseteq Places(l)
           /\ IsFiniteSet(Taken(s, key, l)) /\ Cardinality(Taken(s, key, l)) \in Nat
<1>1. DOMAIN After(s, key) = DOMAIN listeners
  BY DEF After
<1>2. \A n \in DOMAIN listeners : /\ n \in Names
                                  /\ Left(l, listeners[n], After(s, key)[n]) <=>
                                        l \in Listed(n) /\ n \in names[s] /\ heap[l].key = key
  BY AfterFacts
<1>3. \A n : l \in Listed(n) => n \in DOMAIN listeners
  <2>1. Elements(NULL) = <<>> /\ ToSet(<<>>) = {}
    BY DEF Elements, ToSet
  <2> QED BY <2>1 DEF Listed, ArrayOf
<1>4. ASSUME NEW n
      PROVE  n \in {m \in DOMAIN After(s, key) : Left(l, listeners[m], After(s, key)[m])}
                <=> n \in Taken(s, key, l)
  BY <1>1, <1>2, <1>3 DEF Taken, Places
<1>5. Taken(s, key, l) \subseteq Places(l)
  BY DEF Taken
<1> QED BY <1>4, <1>5, PlacesFinite, FS_Subset, FS_CardinalityType

\* The counter goes on to say the truth when a listener leaves the arrays of K.
LEMMA CountsReleased ==
    ASSUME NEW l, heap[l] \in Records, Counts(l), NEW K, K \subseteq Places(l), NEW k,
           k = Cardinality(K),
           heap'[l] = IF k > 0 THEN Released(l, k) ELSE heap[l],
           Places(l)' = Places(l) \ K,
           l \in Status' <=> l \in Status, l \in Events' <=> l \in Events,
           Owner(l) = NULL => Places(l) = {}
    PROVE  Counts(l)'
<1>1. IsFiniteSet(Places(l)) /\ IsFiniteSet(K) /\ k \in Nat /\ Count(l) \in Nat
  BY PlacesFinite, FS_Subset, FS_CardinalityType
<1>2. k = 0 <=> K = {}
  BY <1>1, FS_EmptySet
<1>3. k <= Count(l) /\ (k = Count(l) => K = Places(l))
  BY <1>1, FS_Subset DEF Count
<1>4. Count(l)' = Count(l) - k
  <2>1. Places(l) \cap K = K
    OBVIOUS
  <2>2. Cardinality(Places(l) \ K) = Cardinality(Places(l)) - Cardinality(Places(l) \cap K)
    BY <1>1, FS_Difference
  <2> QED BY <2>1, <2>2 DEF Count
<1>5. CASE K = {}
  <2>1. heap'[l] = heap[l] /\ Places(l)' = Places(l)
    BY <1>1, <1>2, <1>5
  <2> QED BY <2>1, CountsAlike
<1>6. CASE K # {}
  <2>1. k \in Nat \ {0} /\ heap'[l] = Released(l, k)
    BY <1>1, <1>2, <1>6
  <2>2. Owner(l) # NULL /\ Places(l) # {}
    BY <1>6
  <2>3. /\ heap'[l].key = heap[l].key /\ heap'[l].added = heap[l].added
        /\ heap[l].count <= 2 * k => heap'[l].count = 0 /\ heap'[l].freed = TRUE
        /\ heap[l].count > 2 * k => heap'[l].count = heap[l].count - 2 * k /\ heap'[l].freed = FALSE
    <3>1. k \in Nat /\ heap[l] \in Records
      BY <1>1
    <3> DEFINE r == Released(l, k)
    <3>2. /\ r.key = heap[l].key /\ r.added = heap[l].added
          /\ heap[l].count <= 2 * k => r.count = 0 /\ r.freed = TRUE
          /\ heap[l].count > 2 * k => r.count = heap[l].count - 2 * k /\ r.freed = FALSE
      BY <3>1, ReleasedFacts
    <3> HIDE DEF r
    <3> QED BY <2>1, <3>2 DEF r
  <2>4. Owner(l)' # NULL
    BY <2>2, <2>3 DEF Owner
  <2>5. heap'[l].added = 0 => Places(l)' = {}
    BY <2>2, <2>3 DEF Counts
  <2>6. ASSUME heap'[l].added = 1 PROVE OneCounts(l)'
    <3>1. OneCounts(l)
      BY <2>2, <2>3, <2>6 DEF Counts
    <3>2. heap[l].count = 2 /\ Count(l) = 1
      BY <2>2, <3>1 DEF OneCounts
    <3>3. k = 1
      BY <1>3, <2>1, <3>2
    <3>4. Places(l)' = {} /\ heap'[l].freed = TRUE
      BY <1>3, <2>3, <3>2, <3>3
    <3> QED BY <3>4 DEF OneCounts
  <2>7. ASSUME heap'[l].added = 2 PROVE TwoCounts(l)'
    <3>1. TwoCounts(l)
      BY <2>2, <2>3, <2>7 DEF Counts
    <3>2. (heap[l].count = 3 /\ Count(l) = 2) \/ (heap[l].count = 1 /\ Count(l) = 1)
      BY <2>2, <3>1 DEF TwoCounts
    <3>3. CASE k = Count(l)
      <4>1. Places(l)' = {} /\ heap'[l].freed = TRUE
        BY <1>3, <2>3, <3>2, <3>3
      <4> QED BY <4>1 DEF TwoCounts
    <3>4. CASE k # Count(l)
      <4>1. heap[l].count = 3 /\ Count(l) = 2 /\ k = 1
        BY <1>3, <2>1, <3>2, <3>4
      <4>2. heap'[l].count = 1 /\ heap'[l].freed = FALSE /\ Count(l)' = 1
        BY <1>4, <2>3, <4>1
      <4>3. Places(l)' # {}
        <5>1. K # Places(l)
          BY <3>4 DEF Count
        <5> QED BY <5>1
      <4> QED BY <4>2, <4>3 DEF TwoCounts
    <3> QED BY <3>3, <3>4
  <2> QED BY <2>4, <2>5, <2>6, <2>7 DEF Counts
<1> QED BY <1>5, <1>6

\* A freed listener is looked at only after one with more than two names.
LEMMA CrashNeedsMany ==
    ASSUME Typed, Kinds, Counted, NEW l \in DOMAIN heap, heap[l].added <= 2, Places(l) # {}
    PROVE  /\ heap[l].freed = FALSE
           /\ \A times \in Nat : times <= Count(l) => ~ Dangling(l, times)
           /\ heap[l].count >= Count(l)
<1>1. heap[l] \in Records /\ heap[l].added \in 0..2
  <2>1. heap[l] \in Records
    BY HeapFacts
  <2> QED BY <2>1 DEF Records
<1>2. PICK n \in Names : l \in Listed(n)
  BY DEF Places
<1>3. Owner(l) # NULL
  BY <1>2 DEF Kinds
<1>4. Counts(l)
  BY DEF Counted
<1>5. Count(l) \in Nat /\ heap[l].count \in Nat /\ heap[l].freed \in BOOLEAN
  BY <1>1, PlacesFinite DEF Records
<1>6. heap[l].added # 0
  BY <1>3, <1>4 DEF Counts
<1>7. (heap[l].freed <=> Places(l) = {}) /\ \/ heap[l].count = 2 /\ Count(l) = 1
                                            \/ heap[l].count = 3 /\ Count(l) = 2
                                            \/ heap[l].count = 1 /\ Count(l) = 1
  <2>1. CASE heap[l].added = 1
    BY <1>3, <1>4, <2>1 DEF Counts, OneCounts
  <2>2. CASE heap[l].added = 2
    BY <1>3, <1>4, <2>2 DEF Counts, TwoCounts
  <2> QED BY <1>1, <1>6, <2>1, <2>2
<1>8. heap[l].freed = FALSE
  BY <1>5, <1>7
<1>9. ASSUME NEW times \in Nat, times <= Count(l) PROVE ~ Dangling(l, times)
  BY <1>7, <1>9 DEF Dangling
<1> QED BY <1>7, <1>8, <1>9

\* How often l leaves an array when s removes key, and whether that reads freed memory
Times(s, key, l) == Cardinality(Taken(s, key, l))

\* ... and whether freed memory is read in it
Crashes(s, key) == \/ \E l \in DOMAIN heap : Dangling(l, Times(s, key, l))
                   \/ \E n \in names[s] : HoldsFreed(ArrayOf(n))

\* The removal in these terms
LEMMA RemoveSubscriptionIs ==
    ASSUME IInv, NEW s \in Subscriptions, NEW t \in Types, NEW c \in Callbacks,
           pbcc_event_listener_remove_subscription_object_listener(s, t, c),
           NEW key, key = Key(s, t, c)
    PROVE  /\ Removes(key) /\ listeners # NULL
           /\ Crashes(s, key) => process' = "crashed" /\ UNCHANGED arrays
           /\ ~ Crashes(s, key) =>
                 /\ heap' = [l \in DOMAIN heap |->
                                IF Times(s, key, l) > 0 THEN Released(l, Times(s, key, l))
                                ELSE heap[l]]
                 /\ listeners' =
                        [n \in {m \in DOMAIN After(s, key) : After(s, key)[m].elements # <<>>} |->
                            After(s, key)[n]]
                 /\ UNCHANGED <<global_status, global_events, process>>
<1> DEFINE after == After(s, key)
           T(l) == Cardinality({n \in DOMAIN after : Left(l, listeners[n], after[n])})
           crash == \/ \E l \in DOMAIN heap : Dangling(l, T(l))
                    \/ \E n \in names[s] : HoldsFreed(ArrayOf(n))
<1>1. /\ Removes(key) /\ listeners # NULL
      /\ IF crash THEN process' = "crashed" /\ UNCHANGED arrays
         ELSE /\ heap' = [l \in DOMAIN heap |-> IF T(l) > 0 THEN Released(l, T(l)) ELSE heap[l]]
              /\ listeners' = [n \in {m \in DOMAIN after : after[m].elements # <<>>} |-> after[n]]
              /\ UNCHANGED <<global_status, global_events, process>>
  BY DEF pbcc_event_listener_remove_subscription_object_listener, After
<1>2. Typed
  BY DEF IInv
<1>3. \A l : T(l) = Times(s, key, l)
  <2>1. ASSUME NEW l PROVE {n \in DOMAIN after : Left(l, listeners[n], after[n])} = Taken(s, key, l)
    <3>1. listeners # NULL
      BY <1>1
    <3> QED BY <1>2, <3>1, TakenIs, Zenon
  <2> QED BY <2>1 DEF Times
<1> HIDE DEF after, T
<1>4. crash <=> Crashes(s, key)
  BY <1>3 DEF Crashes
<1> HIDE DEF crash
<1>5. ~ crash => heap' = [l \in DOMAIN heap |->
                             IF Times(s, key, l) > 0 THEN Released(l, Times(s, key, l))
                             ELSE heap[l]]
  BY <1>1, <1>3
<1>6. ~ crash => listeners' = [n \in {m \in DOMAIN after : after[m].elements # <<>>} |-> after[n]]
  BY <1>1
<1> QED BY <1>1, <1>4, <1>5, <1>6 DEF after

\* A removal that reads freed memory meets a listener of more than two names.
LEMMA CrashKeeps ==
    ASSUME IInv, NEW s \in Subscriptions, NEW key \in Keys, Removes(key), listeners # NULL,
           Crashes(s, key), process' = "crashed", UNCHANGED arrays
    PROVE  IInv'
<1>1. /\ Calls /\ Called(TRUE) /\ gone' \subseteq gone \cup {key}
      /\ Typed /\ Kinds /\ Counted /\ Emission
      /\ shrunk' = shrunk /\ names' = names
  BY RemovesFacts
<1>2. TRUE \in BOOLEAN
  OBVIOUS
<1>3. /\ due' = due /\ told' = told /\ removed' \in BOOLEAN
      /\ emitting = NULL => emitting' = NULL
      /\ emitting # NULL => emitting' = [emitting EXCEPT !.called = FALSE]
  BY <1>1, <1>2, CallFacts
<1>4. heap' = heap /\ global_status' = global_status /\ global_events' = global_events
        /\ listeners' = listeners
  BY DEF arrays
<1>5. Typed'
  <2>1. emitting' \in Emissions \cup {NULL}
    <3>1. emitting \in Emissions \cup {NULL}
      BY <1>1 DEF Typed
    <3> QED BY <1>3, <3>1, CalledEmission
  <2>2. gone' \subseteq Keys
    BY <1>1 DEF Typed
  <2>3. IsArray(global_status)' /\ IsArray(global_events)' /\ HashSet'
    BY <1>1, <1>4 DEF Typed, IsArray, HashSet
  <2>4. heap' \in Seq(Records) /\ due' \subseteq DOMAIN heap' /\ told' \in Seq(DOMAIN heap')
    BY <1>1, <1>3, <1>4 DEF Typed
  <2>5. names' \in [Subscriptions -> SUBSET Names] /\ shrunk' \subseteq Subscriptions
    BY <1>1 DEF Typed
  <2> QED BY <1>3, <2>1, <2>2, <2>3, <2>4, <2>5 DEF Typed
<1>6. \E l \in DOMAIN heap : heap[l].added > 2
  <2>1. SUFFICES ASSUME \A l \in DOMAIN heap : ~ (heap[l].added > 2) PROVE FALSE
    OBVIOUS
  <2>2. ASSUME NEW l \in DOMAIN heap PROVE heap[l].added <= 2
    <3>1. heap[l].added \in Nat
      BY <1>1, HeapFacts DEF Records
    <3> QED BY <2>1, <3>1
  <2>3. ASSUME NEW l \in DOMAIN heap PROVE ~ Dangling(l, Times(s, key, l))
    <3> DEFINE k == Times(s, key, l)
    <3>1. k \in Nat /\ Taken(s, key, l) \subseteq Places(l)
      BY <1>1, TakenIs DEF Times
    <3>2. k <= Count(l)
      BY <3>1, PlacesFinite, FS_Subset DEF Times, Count
    <3> HIDE DEF k
    <3>3. CASE Places(l) = {}
      <4>1. Count(l) = 0
        BY <3>3, FS_EmptySet DEF Count
      <4>2. k = 0
        BY <3>1, <3>2, <4>1
      <4> QED BY <4>2 DEF Dangling, k
    <3>4. CASE Places(l) # {}
      BY <1>1, <2>2, <3>1, <3>2, <3>4, CrashNeedsMany DEF k
    <3> QED BY <3>3, <3>4
  <2>4. ASSUME NEW n \in names[s] PROVE ~ HoldsFreed(ArrayOf(n))
    <3>1. n \in Names
      BY <1>1 DEF Typed
    <3>2. ASSUME NEW l \in ToSet(Elements(ArrayOf(n))) PROVE heap[l].freed = FALSE
      <4>1. l \in Listed(n) /\ l \in DOMAIN heap
        BY <1>1, ListedFacts DEF Listed
      <4>2. Places(l) # {}
        BY <3>1, <4>1 DEF Places
      <4> QED BY <1>1, <2>2, <4>1, <4>2, CrashNeedsMany
    <3> QED BY <3>2 DEF HoldsFreed
  <2> QED BY <2>3, <2>4 DEF Crashes
<1>7. CrashExplained'
  BY <1>4, <1>6 DEF CrashExplained
<1> QED BY <1>5, <1>7 DEF IInv

\* pbcc_event_listener_remove_subscription_object_listener keeps the invariant: names
\* whose last listener goes leave the hash set, names s has lost are not searched.
LEMMA RemoveSubscriptionKeeps ==
    ASSUME IInv, NEW s \in Subscriptions, NEW t \in Types, NEW c \in Callbacks,
           pbcc_event_listener_remove_subscription_object_listener(s, t, c)
    PROVE  IInv'
<1> DEFINE key == Key(s, t, c)
           after == After(s, key)
           T(l) == Times(s, key, l)
<1>1. key \in Keys /\ key.subscription = s /\ key.type = t
  BY KeyFacts
<1>2. s # NULL
  BY NullAssumption
<1>3. /\ Removes(key) /\ listeners # NULL
      /\ Crashes(s, key) => process' = "crashed" /\ UNCHANGED arrays
      /\ ~ Crashes(s, key) =>
            /\ heap' = [l \in DOMAIN heap |-> IF T(l) > 0 THEN Released(l, T(l)) ELSE heap[l]]
            /\ listeners' = [n \in {m \in DOMAIN after : after[m].elements # <<>>} |-> after[n]]
            /\ UNCHANGED <<global_status, global_events, process>>
  BY RemoveSubscriptionIs
<1> HIDE DEF key
<1>4. CASE Crashes(s, key)
  BY <1>1, <1>3, <1>4, CrashKeeps
<1>5. CASE ~ Crashes(s, key)
  <2>1. /\ Calls /\ Called(TRUE) /\ gone' \subseteq gone \cup {key}
        /\ process = "runs" /\ Typed /\ Kinds /\ Counted /\ Emission /\ RemovedIsGone
        /\ shrunk' = shrunk /\ names' = names
    BY <1>1, <1>3, RemovesFacts
  <2>2. /\ heap' = [l \in DOMAIN heap |-> IF T(l) > 0 THEN Released(l, T(l)) ELSE heap[l]]
        /\ listeners' = [n \in {m \in DOMAIN after : after[m].elements # <<>>} |-> after[n]]
        /\ UNCHANGED <<global_status, global_events, process>>
    BY <1>3, <1>5
  <2>3. \A l \in DOMAIN heap : heap[l] \in Records
    BY <2>1, HeapFacts
  <2>4. ASSUME NEW l
        PROVE  T(l) \in Nat /\ T(l) = Cardinality(Taken(s, key, l))
                 /\ Taken(s, key, l) \subseteq Places(l)
    BY <1>3, <2>1, TakenIs DEF Times
  <2> HIDE DEF T
  <2>5. ASSUME NEW l \in DOMAIN heap
        PROVE  /\ heap'[l] \in Records /\ heap'[l].key = heap[l].key /\ heap'[l].added = heap[l].added
               /\ heap'[l] = IF T(l) > 0 THEN Released(l, T(l)) ELSE heap[l]
    <3>1. heap'[l] = IF T(l) > 0 THEN Released(l, T(l)) ELSE heap[l]
      BY <2>2
    <3>2. CASE T(l) > 0
      BY <2>3, <2>4, <3>1, <3>2, ReleasedFacts
    <3>3. CASE ~ (T(l) > 0)
      BY <2>3, <3>1, <3>3
    <3> QED BY <3>1, <3>2, <3>3
  <2>6. heap' \in Seq(Records) /\ DOMAIN heap' = DOMAIN heap
    <3>1. heap' = [l \in DOMAIN heap |-> heap'[l]]
      BY <2>2
    <3> QED BY <2>1, <2>5, <3>1, HeapUpdated
  <2>7. DOMAIN after = DOMAIN listeners /\ DOMAIN listeners \subseteq Names
    BY <1>3, <2>1 DEF After, Typed, HashSet
  <2>8. ASSUME NEW n \in DOMAIN listeners
        PROVE  /\ Sound(after[n], DOMAIN heap)
               /\ \A l : l \in ToSet(Elements(after[n])) <=>
                            l \in Listed(n) /\ ~ (n \in names[s] /\ heap[l].key = key)
    BY <1>3, <2>1, AfterFacts
  <2> HIDE DEF after
  <2> DEFINE M == {m \in DOMAIN after : after[m].elements # <<>>}
  <2>9. DOMAIN heap \subseteq Nat
    BY <2>1, HeapFacts
  <2>10. DOMAIN listeners' = M /\ listeners' = [n \in M |-> listeners'[n]] /\ M \in SUBSET Names
         /\ \A n \in M : listeners'[n] = after[n]
    BY <2>2, <2>7
  <2>11. \A n : n \in M <=> n \in DOMAIN listeners /\ after[n].elements # <<>>
    BY <2>7
  <2> HIDE DEF M
  <2>12. \A n \in M : Sound(listeners'[n], DOMAIN heap)
    BY <2>8, <2>10, <2>11
  <2>13. listeners' # NULL
    <3> DEFINE f == listeners'
               D == DOMAIN heap
    <3>1. f = [n \in M |-> f[n]] /\ (\A n \in M : Sound(f[n], D)) /\ D \in SUBSET Nat
      BY <2>9, <2>10, <2>12
    <3> HIDE DEF f, D
    <3>2. f # NULL
      BY <2>10, <3>1, FunctionNotNull
    <3> QED BY <3>2 DEF f
  <2>14. HashSet'
    BY <2>6, <2>10, <2>12, <2>13 DEF HashSet
  <2>15. \A l, n : l \in Listed(n)' <=> l \in Listed(n) /\ ~ (n \in names[s] /\ heap[l].key = key)
    <3>1. Elements(NULL) = <<>> /\ ToSet(<<>>) = {}
      BY DEF Elements, ToSet
    <3>2. ASSUME NEW n \in M, NEW l
          PROVE  l \in Listed(n)' <=> l \in Listed(n) /\ ~ (n \in names[s] /\ heap[l].key = key)
      <4>1. ArrayOf(n)' = after[n] /\ n \in DOMAIN listeners
        BY <2>10, <2>11, <2>13 DEF ArrayOf
      <4>2. Listed(n)' = ToSet(Elements(after[n]))
        BY <4>1 DEF Listed, Elements
      <4> QED BY <2>8, <4>1, <4>2
    <3>3. ASSUME NEW n, n \notin M, NEW l
          PROVE  l \in Listed(n)' <=> l \in Listed(n) /\ ~ (n \in names[s] /\ heap[l].key = key)
      <4>1. ArrayOf(n)' = NULL
        BY <2>10, <3>3 DEF ArrayOf
      <4>2. l \notin Listed(n)'
        BY <3>1, <4>1 DEF Listed, Elements
      <4>3. CASE n \notin DOMAIN listeners
        <5>1. ArrayOf(n) = NULL
          BY <4>3 DEF ArrayOf
        <5> QED BY <3>1, <4>2, <5>1 DEF Listed, Elements
      <4>4. CASE n \in DOMAIN listeners
        <5>1. after[n].elements = <<>> /\ Sound(after[n], DOMAIN heap)
          BY <2>8, <2>11, <3>3, <4>4
        <5>2. after[n] # NULL
          BY <2>9, <5>1, NullFacts
        <5>3. ToSet(Elements(after[n])) = {}
          BY <3>1, <5>1, <5>2 DEF Elements
        <5> QED BY <2>8, <4>2, <4>4, <5>3
      <4> QED BY <4>3, <4>4
    <3> QED BY <3>2, <3>3
  <2>16. Status' = Status /\ Events' = Events
    BY <2>2 DEF Status, Events
  <2>17. IsArray(global_status)' /\ IsArray(global_events)'
    <3>1. IsArray(global_status) /\ IsArray(global_events)
      BY <2>1 DEF Typed
    <3> QED BY <2>2, <2>6, <3>1 DEF IsArray
  <2>18. Counted'
    <3>1. ASSUME NEW l \in DOMAIN heap' PROVE Counts(l)'
      <4>1. l \in DOMAIN heap /\ Counts(l)
        BY <2>1, <2>6, <3>1 DEF Counted
      <4>2. Places(l)' = Places(l) \ Taken(s, key, l)
        <5>1. ASSUME NEW n PROVE n \in Places(l)' <=> n \in Places(l) /\ n \notin Taken(s, key, l)
          BY <2>15 DEF Places, Taken
        <5> QED BY <5>1
      <4>3. Owner(l) = NULL => Places(l) = {}
        BY <2>1 DEF Kinds, Places
      <4>4. heap'[l] = (IF T(l) > 0 THEN Released(l, T(l)) ELSE heap[l]) /\ heap[l] \in Records
        BY <2>3, <2>5, <4>1
      <4>5. T(l) = Cardinality(Taken(s, key, l)) /\ Taken(s, key, l) \subseteq Places(l)
        BY <2>4
      <4>6. (l \in Status' <=> l \in Status) /\ (l \in Events' <=> l \in Events)
        BY <2>16
      <4> DEFINE K == Taken(s, key, l)
                 k == T(l)
      <4>7. PICK J : J = K
        OBVIOUS
      <4>8. PICK j : j = k
        OBVIOUS
      <4>9. J \subseteq Places(l) /\ j = Cardinality(J) /\ Places(l)' = Places(l) \ J
            /\ heap'[l] = IF j > 0 THEN Released(l, j) ELSE heap[l]
        BY <4>2, <4>4, <4>5, <4>7, <4>8
      <4> QED BY <4>1, <4>3, <4>4, <4>6, <4>9, CountsReleased
    <3> QED BY <3>1 DEF Counted
  <2>19. Removal(key)
    <3>1. Status' \subseteq Status /\ Events' \subseteq Events /\ \A n \in Names :
            Listed(n)' \subseteq Listed(n)
      BY <2>15, <2>16
    <3>2. \A l \in Status' \cup Events' : heap[l].key # key
      BY <1>1, <1>2, <2>1, <2>16 DEF Kinds, Owner
    <3>3. ASSUME NEW n \in Names, NEW l \in Listed(n)', heap[l].key = key PROVE Owner(l) \in shrunk
      <4>1. l \in Listed(n) /\ n \notin names[s]
        BY <2>15, <3>3
      <4>2. Owner(l) = s
        BY <1>1, <3>3 DEF Owner
      <4> QED BY <2>1, <4>1, <4>2 DEF Kinds
    <3>4. process' = process
      BY <2>2
    <3> QED BY <2>1, <2>5, <2>6, <2>14, <2>17, <2>18, <3>1, <3>2, <3>3, <3>4 DEF Removal
  <2> QED BY <1>1, <2>19, RemovalKeeps
<1> QED BY <1>4, <1>5

-----------------------------------------------------------------------------
(* Set changes and emissions *)

\* What holds as long as the arrays, the names and what was removed stay
LEMMA StillFacts ==
    ASSUME UNCHANGED <<arrays, names, gone, shrunk>>
    PROVE  /\ heap' = heap /\ listeners' = listeners
           /\ Status' = Status /\ Events' = Events /\ \A n :
                ArrayOf(n)' = ArrayOf(n) /\ Listed(n)' = Listed(n)
           /\ \A l : Owner(l)' = Owner(l)
           /\ Kinds => Kinds'
           /\ Counted => Counted'
           /\ Registered' = Registered /\ (RemovedIsGone /\ process = "runs" => RemovedIsGone')
<1>1. heap' = heap /\ global_status' = global_status /\ global_events' = global_events
        /\ listeners' = listeners
      /\ names' = names /\ gone' = gone /\ shrunk' = shrunk
  BY DEF arrays
<1>2. \A n : ArrayOf(n)' = ArrayOf(n)
  BY <1>1 DEF ArrayOf
<1>3. Status' = Status /\ Events' = Events /\ \A n : Listed(n)' = Listed(n)
  BY <1>1, <1>2 DEF Status, Events, Listed, Elements
<1>4. \A l : Owner(l)' = Owner(l) /\ (IsStatus(l)' <=> IsStatus(l))
  BY <1>1 DEF Owner, IsStatus
<1>5. Kinds => Kinds'
  BY <1>1, <1>3, <1>4 DEF Kinds
<1>6. ASSUME Counted PROVE Counted'
  <2>1. ASSUME NEW l \in DOMAIN heap' PROVE Counts(l)'
    <3>1. l \in DOMAIN heap /\ Counts(l)
      BY <1>1, <1>6, <2>1 DEF Counted
    <3>2. Places(l)' = Places(l)
      BY <1>3 DEF Places
    <3>3. heap'[l] = heap[l] /\ (l \in Status' <=> l \in Status) /\ (l \in Events' <=> l \in Events)
      BY <1>1, <1>3
    <3> QED BY <3>1, <3>2, <3>3, CountsAlike
  <2> QED BY <2>1 DEF Counted
<1>7. Registered' = Registered
  <2>1. \A l : l \in Registered' <=> l \in Status' \/ l \in Events' \/ \E n \in Names : l \in Listed(n)'
    BY DEF Registered, Status, Events, Listed
  <2>2. \A l : l \in Registered' <=> l \in Registered
    BY <1>3, <2>1, RegisteredIs
  <2> QED BY <2>2
<1>8. RemovedIsGone /\ process = "runs" => RemovedIsGone'
  BY <1>1, <1>7 DEF RemovedIsGone
<1> QED BY <1>1, <1>2, <1>3, <1>4, <1>5, <1>6, <1>7, <1>8

\* The types, when the arrays stay
LEMMA StillTyped ==
    ASSUME Typed, UNCHANGED arrays,
           names' \in [Subscriptions -> SUBSET Names], gone' = gone, shrunk' \subseteq Subscriptions,
           process' \in {"runs", "freed", "crashed"}, removed' \in BOOLEAN,
           due' \subseteq DOMAIN heap, told' \in Seq(DOMAIN heap), emitting' \in Emissions \cup {NULL}
    PROVE  Typed'
<1>1. heap' = heap /\ global_status' = global_status /\ global_events' = global_events
        /\ listeners' = listeners
  BY DEF arrays
<1>2. IsArray(global_status)' /\ IsArray(global_events)' /\ HashSet'
  BY <1>1 DEF Typed, IsArray, HashSet
<1> QED BY <1>1, <1>2 DEF Typed

\* pubnub_subscription_set_add and _remove keep the invariant: a name that s loses may
\* keep listeners of s.
LEMMA SetChangesKeeps ==
    ASSUME IInv, NEW s \in Subscriptions, NEW N \in NamesOf[s], subscription_set_changes(s, N)
    PROVE  IInv'
<1>1. /\ process = "runs" /\ emitting = NULL /\ names' = [names EXCEPT ![s] = N]
      /\ shrunk' = (IF names[s] \subseteq N THEN shrunk ELSE shrunk \cup {s})
      /\ UNCHANGED <<arrays, emitting, process, due, told, removed, gone>>
  BY DEF subscription_set_changes
<1>2. Typed /\ Kinds /\ Counted /\ Emission /\ RemovedIsGone
  BY <1>1 DEF IInv
<1>3. N \in SUBSET Names
  BY NamesAssumption
<1>4. names \in [Subscriptions -> SUBSET Names] /\ names' \in [Subscriptions -> SUBSET Names]
        /\ shrunk' \subseteq Subscriptions
  BY <1>1, <1>2, <1>3 DEF Typed
<1>5. Typed'
  <2>1. process' \in {"runs", "freed", "crashed"} /\ removed' \in BOOLEAN
        /\ due' \subseteq DOMAIN heap /\ told' \in Seq(DOMAIN heap)
        /\ emitting' \in Emissions \cup {NULL}
    BY <1>1, <1>2 DEF Typed
  <2> QED BY <1>1, <1>2, <1>4, <2>1, StillTyped
<1>6. heap' = heap /\ global_status' = global_status /\ global_events' = global_events
        /\ listeners' = listeners
  BY <1>1 DEF arrays
<1>7. Status' = Status /\ Events' = Events /\ \A n : Listed(n)' = Listed(n)
  BY <1>6 DEF Status, Events, Listed, ArrayOf, Elements
<1>8. \A l : Owner(l)' = Owner(l) /\ (IsStatus(l)' <=> IsStatus(l))
  BY <1>6 DEF Owner, IsStatus
<1>9. Kinds'
  <2>1. ASSUME NEW n \in Names, NEW l \in Listed(n)
        PROVE  Owner(l) # NULL /\ (n \in names'[Owner(l)] \/ Owner(l) \in shrunk')
    <3>1. Owner(l) # NULL /\ (n \in names[Owner(l)] \/ Owner(l) \in shrunk)
      BY <1>2 DEF Kinds
    <3>2. Owner(l) \in Subscriptions
      <4>1. heap[l] \in Records
        BY <1>2, ListedFacts, HeapFacts
      <4> QED BY <3>1, <4>1 DEF Records, Keys, Owner
    <3>3. CASE Owner(l) = s
      <4>1. names'[s] = N
        BY <1>1, <1>4
      <4> QED BY <1>1, <3>1, <3>3, <4>1
    <3>4. CASE Owner(l) # s
      BY <1>1, <1>4, <3>1, <3>2, <3>4
    <3> QED BY <3>3, <3>4
  <2> QED BY <1>2, <1>7, <1>8, <2>1 DEF Kinds
<1>10. Counted'
  <2>1. ASSUME NEW l \in DOMAIN heap' PROVE Counts(l)'
    <3>1. l \in DOMAIN heap /\ Counts(l)
      BY <1>2, <1>6, <2>1 DEF Counted
    <3>2. Places(l)' = Places(l)
      BY <1>7 DEF Places
    <3>3. heap'[l] = heap[l] /\ (l \in Status' <=> l \in Status) /\ (l \in Events' <=> l \in Events)
      BY <1>6, <1>7
    <3> QED BY <3>1, <3>2, <3>3, CountsAlike
  <2> QED BY <2>1 DEF Counted
<1>11. RemovedIsGone'
  <2>1. Registered' = Registered
    BY <1>6 DEF Registered, Elements, ArrayOf
  <2>2. shrunk \subseteq shrunk' /\ gone' = gone /\ process' = "runs"
    BY <1>1
  <2> QED BY <1>1, <1>2, <1>6, <2>1, <2>2 DEF RemovedIsGone
<1>12. Emission' /\ CrashExplained'
  BY <1>1, <1>2 DEF Emission, CrashExplained
<1> QED BY <1>5, <1>9, <1>10, <1>11, <1>12 DEF IInv

\* The beginning of an emission, and of the walk that follows another
LEMMA WalkFacts ==
    ASSUME NEW where \in {"status", "global", "object"}, NEW t \in Types \cup {"STATUS"},
           NEW n \in Names \cup {NULL}, NEW a, Len(Elements(a)) \in Nat, NEW e, e = Walk(where, t, n, a)
    PROVE  /\ e \in Emissions /\ e # NULL
           /\ e.where = where /\ e.type = t /\ e.name = n /\ e.index = 1 /\ e.count = Len(Elements(a))
<1>1. FALSE \in BOOLEAN
  OBVIOUS
<1>2. e \in Emissions
  BY <1>1 DEF Walk, Emissions
<1>3. e # NULL
  BY <1>2, NullAssumption
<1>4. e.where = where /\ e.type = t /\ e.name = n /\ e.index = 1 /\ e.count = Len(Elements(a))
  BY DEF Walk
<1> QED BY <1>2, <1>3, <1>4

\* What stays of the invariant when an emission begins or goes on
LEMMA EmissionKeeps ==
    ASSUME IInv, process = "runs", UNCHANGED <<arrays, names, gone, shrunk>>, process' = "runs",
           removed' \in BOOLEAN, due' \subseteq DOMAIN heap, told' \in Seq(DOMAIN heap),
           emitting' \in Emissions \cup {NULL}, Emission'
    PROVE  IInv'
<1>1. Typed /\ Kinds /\ Counted /\ RemovedIsGone
  BY DEF IInv
<1>2. Typed'
  <2>1. /\ names' \in [Subscriptions -> SUBSET Names] /\ gone' = gone /\ shrunk' \subseteq Subscriptions
        /\ UNCHANGED arrays
    BY <1>1 DEF Typed
  <2> QED BY <1>1, <2>1, StillTyped
<1>3. Kinds' /\ Counted' /\ RemovedIsGone'
  BY <1>1, StillFacts
<1>4. CrashExplained'
  BY DEF CrashExplained
<1> QED BY <1>2, <1>3, <1>4 DEF IInv

\* At the beginning of an emission nobody was told.
LEMMA NothingTold ==
    ASSUME told = <<>>
    PROVE  Once(told) /\ ToSet(told) = {} /\ \A D : told \in Seq(D)
<1>1. Len(<<>>) = 0 /\ DOMAIN <<>> = {} /\ \A D : <<>> \in Seq(D)
  BY EmptySeq
<1>2. \A i \in 1..0 : FALSE
  OBVIOUS
<1> QED BY <1>1, <1>2 DEF Once, ToSet

\* pbcc_event_listener_emit_status begins with all status listeners ahead.
LEMMA EmitStatusKeeps ==
    ASSUME IInv, pbcc_event_listener_emit_status
    PROVE  IInv'
<1> DEFINE a == global_status
           n == Len(Elements(a))
<1>1. /\ process = "runs" /\ emitting = NULL
      /\ emitting' = Walk("status", "STATUS", NULL, a)
      /\ due' = {l \in Status : heap[l].key.type = "STATUS"}
      /\ UNCHANGED <<arrays, names, process, told, removed, gone, shrunk>>
  BY DEF pbcc_event_listener_emit_status, Begins, Walk, Status
<1>2. Typed /\ Kinds /\ Counted /\ Emission /\ told = <<>> /\ ~ removed
  BY <1>1 DEF IInv, Emission
<1>3. IsArray(a) /\ DOMAIN heap \subseteq Nat
  BY <1>2, HeapFacts DEF Typed
<1>4. n \in Nat /\ DOMAIN Elements(a) = 1..n /\ Status \subseteq DOMAIN heap
  BY <1>2, <1>3, ArrayFacts, ListedFacts DEF IsArray
<1>5. "status" \in {"status", "global", "object"} /\ "STATUS" \in Types \cup {"STATUS"}
        /\ NULL \in Names \cup {NULL}
  OBVIOUS
<1>6. /\ emitting' \in Emissions /\ emitting' # NULL
      /\ emitting'.where = "status" /\ emitting'.type = "STATUS" /\ emitting'.index = 1
      /\ emitting'.count = n
  <2>1. emitting' = Walk("status", "STATUS", NULL, a)
    BY <1>1
  <2>2. n \in Nat
    BY <1>4
  <2> QED BY <1>5, <2>1, <2>2, WalkFacts
<1>7. heap' = heap /\ Elements(global_status)' = Elements(a)
  BY <1>1 DEF arrays, Elements
<1>8. Walked' = Elements(a)
  BY <1>6, <1>7 DEF Walked
<1>9. told' = <<>> /\ ~ removed'
  BY <1>1, <1>2
<1>10. Once(told') /\ ToSet(told') = {} /\ told' \in Seq(DOMAIN heap)
  BY <1>1, <1>2, NothingTold
<1>11. ASSUME NEW l \in due' PROVE Wants(l, emitting.type)' /\ Ahead(l)'
  <2>1. l \in Status
    BY <1>1, <1>11
  <2>2. Owner(l) = NULL
    BY <1>2, <2>1 DEF Kinds
  <2>3. Wants(l, emitting.type)'
    BY <1>7, <2>2 DEF Wants, Owner
  <2>4. PICK k \in 1..n : Elements(a)[k] = l
    BY <1>4, <2>1 DEF Status, ToSet
  <2>5. Ahead(l)'
    BY <1>6, <1>8, <2>4 DEF Ahead
  <2> QED BY <2>3, <2>5
<1> HIDE DEF n, a
<1>12. Telling'
  <2>1. emitting'.count <= Len(Walked')
    BY <1>4, <1>6, <1>8 DEF n
  <2> QED BY <1>10, <1>11, <2>1 DEF Telling
<1>13. Emission'
  <2>1. emitting'.index <= emitting'.count + 1
    BY <1>4, <1>6
  <2> QED BY <1>6, <1>12, <2>1 DEF Emission
<1>14. removed' \in BOOLEAN /\ due' \subseteq DOMAIN heap /\ process' = "runs"
  BY <1>1, <1>2, <1>4 DEF Typed
<1> QED BY <1>1, <1>6, <1>10, <1>13, <1>14, EmissionKeeps

\* pbcc_event_listener_emit_message begins with the context's listeners ahead and
\* those of the name to come.
LEMMA EmitMessageKeeps ==
    ASSUME IInv, NEW m \in Names, NEW t \in Types, pbcc_event_listener_emit_message(m, t)
    PROVE  IInv'
<1> DEFINE a == global_events
           n == Len(Elements(a))
<1>1. /\ process = "runs" /\ emitting = NULL
      /\ emitting' = Walk("global", t, m, a) 
      /\ due' = {l \in Events \cup Listed(m) : heap[l].key.type = t}
      /\ UNCHANGED <<arrays, names, process, told, removed, gone, shrunk>>
  BY DEF pbcc_event_listener_emit_message, Begins, Walk, Events, Listed
<1>2. Typed /\ Kinds /\ Counted /\ Emission /\ told = <<>> /\ ~ removed
  BY <1>1 DEF IInv, Emission
<1>3. IsArray(a) /\ DOMAIN heap \subseteq Nat
  BY <1>2, HeapFacts DEF Typed
<1>4. n \in Nat /\ DOMAIN Elements(a) = 1..n /\ Events \subseteq DOMAIN heap
        /\ Listed(m) \subseteq DOMAIN heap
  BY <1>2, <1>3, ArrayFacts, ListedFacts DEF IsArray
<1>5. "global" \in {"status", "global", "object"} /\ t \in Types \cup {"STATUS"}
        /\ m \in Names \cup {NULL}
  OBVIOUS
<1>6. /\ emitting' \in Emissions /\ emitting' # NULL
      /\ emitting'.where = "global" /\ emitting'.type = t /\ emitting'.name = m
      /\ emitting'.index = 1 /\ emitting'.count = n
  BY <1>1, <1>4, <1>5, WalkFacts
<1>7. heap' = heap /\ Elements(global_events)' = Elements(a)
  BY <1>1 DEF arrays, Elements
<1>8. Walked' = Elements(a)
  BY <1>6, <1>7 DEF Walked
<1>9. told' = <<>> /\ ~ removed'
  BY <1>1, <1>2
<1>10. Once(told') /\ ToSet(told') = {} /\ told' \in Seq(DOMAIN heap)
  BY <1>1, <1>2, NothingTold
<1>11. ASSUME NEW l \in due'
       PROVE  Wants(l, emitting.type)' /\ (Ahead(l)' \/ l \in Listed(emitting.name)')
  <2>1. CASE l \in Events
    <3>1. Owner(l) = NULL
      BY <1>2, <2>1 DEF Kinds
    <3>2. Wants(l, emitting.type)'
      BY <1>7, <3>1 DEF Wants, Owner
    <3>3. PICK k \in 1..n : Elements(a)[k] = l
      BY <1>4, <2>1 DEF Events, ToSet
    <3>4. Ahead(l)'
      BY <1>6, <1>8, <3>3 DEF Ahead
    <3> QED BY <3>2, <3>4
  <2>2. CASE l \in Listed(m)
    <3>1. Wants(l, emitting.type)'
      BY <1>1, <1>6, <1>7, <1>11 DEF Wants
    <3>2. Listed(m)' = Listed(m)
      BY <1>1, StillFacts
    <3>3. l \in Listed(emitting.name)'
      BY <1>6, <2>2, <3>2 DEF Listed
    <3> QED BY <3>1, <3>3
  <2> QED BY <1>1, <1>11, <2>1, <2>2
<1> HIDE DEF n, a
<1>12. Telling'
  <2>1. emitting'.count <= Len(Walked')
    BY <1>4, <1>6, <1>8 DEF n
  <2> QED BY <1>6, <1>10, <1>11, <2>1 DEF Telling
<1>13. Emission'
  <2>1. emitting'.index <= emitting'.count + 1
    BY <1>4, <1>6
  <2> QED BY <1>6, <1>12, <2>1 DEF Emission
<1>14. removed' \in BOOLEAN /\ due' \subseteq DOMAIN heap /\ process' = "runs"
  BY <1>1, <1>2, <1>4 DEF Typed
<1> QED BY <1>1, <1>6, <1>10, <1>13, <1>14, EmissionKeeps

\* The end of an emission
LEMMA EmitEndsKeeps ==
    ASSUME IInv, emit_ends
    PROVE  IInv'
<1>1. /\ process = "runs" /\ emitting' = NULL /\ due' = {} /\ told' = <<>> /\ removed' = FALSE
      /\ UNCHANGED <<arrays, names, process, gone, shrunk>>
  BY DEF emit_ends, WalkEnds, Walks
<1>2. told' \in Seq(DOMAIN heap)
  BY <1>1, EmptySeq
<1>3. Emission'
  BY <1>1 DEF Emission
<1>4. removed' \in BOOLEAN /\ due' \subseteq DOMAIN heap /\ emitting' \in Emissions \cup {NULL}
  BY <1>1
<1> QED BY <1>1, <1>2, <1>3, <1>4, EmissionKeeps

\* What is walked is not freed, unless a listener has more than two names.
LEMMA WalkedAllocated ==
    ASSUME Typed, Kinds, Counted, emitting \in Emissions,
           emitting.where # "status" => emitting.name \in Names,
           NEW l \in ToSet(Walked), heap[l].freed
    PROVE  l \in DOMAIN heap /\ heap[l].added > 2
<1>1. l \in DOMAIN heap
  <2>1. DOMAIN Walked = 1..Len(Walked) /\ \A i \in 1..Len(Walked) : Walked[i] \in DOMAIN heap
    BY WalkedFacts, LenProperties, ElementOfSeq
  <2> QED BY <2>1 DEF ToSet
<1>2. heap[l] \in Records /\ Counts(l)
  BY <1>1, HeapFacts DEF Counted
<1>3. l \notin Status
  BY <1>2 DEF Kinds, Counts, StatusCounts
<1>4. l \notin Events
  BY <1>2 DEF Kinds, Counts, EventCounts
<1>5. emitting.where = "status" \/ emitting.where = "global" \/ emitting.where = "object"
  BY DEF Emissions
<1>6. PICK n \in Names : l \in Listed(n)
  <2>1. emitting.where # "status" /\ emitting.where # "global"
    BY <1>3, <1>4 DEF Walked, Status, Events
  <2>2. emitting.where = "object" /\ emitting.name \in Names
    BY <1>5, <2>1
  <2>3. Walked = Elements(ArrayOf(emitting.name))
    BY <2>2 DEF Walked
  <2> QED BY <2>2, <2>3 DEF Listed
<1>7. Places(l) # {}
  BY <1>6 DEF Places
<1>8. heap[l].added \in Nat
  BY <1>2 DEF Records
<1>9. ~ (heap[l].added <= 2)
  BY <1>1, <1>7, CrashNeedsMany
<1> QED BY <1>1, <1>8, <1>9

\* The invariant after a turn that reads freed memory or through NULL
LEMMA CrashedKeeps ==
    ASSUME IInv, process = "runs", process' = "crashed", UNCHANGED arrays,
           UNCHANGED <<names, removed, gone, shrunk, due, told, emitting>>,
           removed \/ listeners = NULL \/ \E l \in DOMAIN heap : heap[l].added > 2
    PROVE  IInv'
<1>1. Typed
  BY DEF IInv
<1>2. /\ names' \in [Subscriptions -> SUBSET Names] /\ gone' = gone /\ shrunk' \subseteq Subscriptions
      /\ removed' \in BOOLEAN /\ due' \subseteq DOMAIN heap /\ told' \in Seq(DOMAIN heap)
      /\ emitting' \in Emissions \cup {NULL} /\ process' \in {"runs", "freed", "crashed"}
  BY <1>1 DEF Typed
<1>3. Typed'
  BY <1>1, <1>2, StillTyped
<1>4. CrashExplained'
  BY DEF CrashExplained, arrays
<1> QED BY <1>3, <1>4 DEF IInv

\* A turn leaves what it walks as it is.
LEMMA WalkedStays ==
    ASSUME UNCHANGED arrays, emitting'.where = emitting.where, emitting'.name = emitting.name
    PROVE  Walked' = Walked
BY DEF Walked, Elements, ArrayOf, arrays

\* What a turn changes of the emission
NextTurn(e) ==
    /\ e \in Emissions /\ e # NULL
    /\ e.where = emitting.where /\ e.type = emitting.type /\ e.name = emitting.name
    /\ e.index = emitting.index + 1 /\ e.count = emitting.count

\* The loop counter goes up, the number of turns stays.
LEMMA NextTurnFacts ==
    ASSUME emitting \in Emissions, NEW b \in BOOLEAN, NEW e,
           e = [emitting EXCEPT !.index = @ + 1, !.called = b]
    PROVE  NextTurn(e)
<1>1. emitting.index + 1 \in Nat \ {0}
  BY DEF Emissions
<1>2. e \in Emissions
  BY <1>1 DEF Emissions
<1>3. e # NULL
  BY <1>2, NullAssumption
<1>4. /\ e.where = emitting.where /\ e.type = emitting.type /\ e.name = emitting.name
      /\ e.index = emitting.index + 1 /\ e.count = emitting.count
  BY DEF Emissions
<1> QED BY <1>2, <1>3, <1>4 DEF NextTurn

\* A turn calls a listener that was not told yet, or one that does not want the update.
LEMMA TurnTelling ==
    ASSUME Typed, Kinds, Telling, emitting \in Emissions, UNCHANGED <<arrays, due>>,
           emitting.where # "status" => emitting.name \in Names,
           emitting.index <= emitting.count, NextTurn(emitting'),
           NEW l, l = Walked[emitting.index], l \in DOMAIN heap,
           told' = IF Wants(l, emitting.type) THEN Append(told, l) ELSE told
    PROVE  Telling' /\ told' \in Seq(DOMAIN heap)
<1>1. PICK i \in Nat \ {0} : i = emitting.index
  BY DEF Emissions
<1>2. PICK m \in Nat : m = emitting.count
  BY DEF Emissions
<1>3. i <= m /\ m <= Len(Walked) /\ Len(Walked) \in Nat /\ Once(Walked) /\ told \in Seq(DOMAIN heap)
        /\ Once(told)
  BY <1>1, <1>2, WalkedFacts DEF Telling, Typed
<1>4. emitting'.index = i + 1 /\ emitting'.count = m /\ emitting'.type = emitting.type
      /\ emitting'.where = emitting.where /\ emitting'.name = emitting.name
  BY <1>1, <1>2 DEF NextTurn
<1>5. Walked' = Walked
  BY <1>4, WalkedStays
<1>6. heap' = heap /\ due' = due
  BY DEF arrays
<1>7. \A x : Behind(x) <=> \E k \in 1..i - 1 : x = Walked[k]
  BY <1>1 DEF Behind
<1>8. \A x : Behind(x)' <=> \E k \in 1..i : x = Walked[k]
  <2>1. i + 1 - 1 = i
    OBVIOUS
  <2> QED BY <1>4, <1>5, <2>1 DEF Behind
<1>9. \A x : Ahead(x) <=> \E k \in i..m : x = Walked[k]
  BY <1>1, <1>2 DEF Ahead
<1>10. \A x : Ahead(x)' <=> \E k \in i + 1..m : x = Walked[k]
  BY <1>4, <1>5 DEF Ahead
<1>11. \A x, t : Wants(x, t)' <=> Wants(x, t)
  BY <1>6 DEF Wants
<1>12. ASSUME Wants(l, emitting.type) PROVE l \notin ToSet(told)
  <2>1. ~ Behind(l)
    <3>1. ASSUME NEW k \in 1..i - 1 PROVE l # Walked[k]
      <4>1. k \in 1..Len(Walked) /\ i \in 1..Len(Walked) /\ k # i
        BY <1>3
      <4>2. l = Walked[i]
        BY <1>1
      <4> QED BY <1>3, <4>1, <4>2 DEF Once
    <3> QED BY <1>7, <3>1
  <2>2. ~ (emitting.where = "object" /\ Owner(l) = NULL)
    <3>1. ASSUME emitting.where = "object" PROVE Owner(l) # NULL
      <4>1. Walked = Elements(ArrayOf(emitting.name)) /\ emitting.name \in Names
        BY <3>1 DEF Walked
      <4>2. i \in DOMAIN Walked
        <5>1. DOMAIN Walked = 1..Len(Walked)
          BY WalkedFacts, LenProperties
        <5> QED BY <1>3, <5>1
      <4>3. l \in Listed(emitting.name)
        BY <1>1, <4>1, <4>2 DEF Listed, ToSet
      <4> QED BY <4>1, <4>3 DEF Kinds
    <3> QED BY <3>1
  <2> QED BY <2>1, <2>2 DEF Telling
<1>13. \A x : x \in ToSet(told') <=> x \in ToSet(told) \/ (x = l /\ Wants(l, emitting.type))
  <2>1. CASE Wants(l, emitting.type)
    <3>1. told' = Append(told, l)
      BY <2>1
    <3>2. ToSet(Append(told, l)) = ToSet(told) \cup {l}
      BY <1>3, ToSetAppend
    <3> QED BY <2>1, <3>1, <3>2
  <2>2. CASE ~ Wants(l, emitting.type)
    BY <2>2
  <2> QED BY <2>1, <2>2
<1>14. Once(told') /\ told' \in Seq(DOMAIN heap)
  <2>1. CASE Wants(l, emitting.type)
    <3>1. told' = Append(told, l)
      BY <2>1
    <3>2. Once(Append(told, l))
      BY <1>3, <1>12, <2>1, OnceAppend
    <3>3. Append(told, l) \in Seq(DOMAIN heap)
      BY <1>3, AppendProperties
    <3> QED BY <3>1, <3>2, <3>3
  <2>2. CASE ~ Wants(l, emitting.type)
    BY <1>3, <2>2
  <2> QED BY <2>1, <2>2
<1>15. ASSUME NEW x \in ToSet(told')
       PROVE  /\ Wants(x, emitting.type)'
              /\ Behind(x)' \/ (emitting'.where = "object" /\ Owner(x)' = NULL)
  <2>1. Owner(x)' = Owner(x) /\ Wants(x, emitting.type)'
    <3>1. Wants(x, emitting.type)
      BY <1>13, <1>15 DEF Telling
    <3> QED BY <1>4, <1>6, <3>1 DEF Owner, Wants
  <2>2. CASE x = l
    <3>1. i \in 1..i /\ l = Walked[i]
      BY <1>1
    <3> QED BY <1>8, <2>1, <2>2, <3>1
  <2>3. CASE x \in ToSet(told)
    <3>1. Behind(x) \/ (emitting.where = "object" /\ Owner(x) = NULL)
      BY <2>3 DEF Telling
    <3>2. Behind(x) => Behind(x)'
      <4>1. \A k \in 1..i - 1 : k \in 1..i
        OBVIOUS
      <4> QED BY <1>7, <1>8, <4>1
    <3> QED BY <1>4, <2>1, <3>1, <3>2
  <2> QED BY <1>13, <1>15, <2>2, <2>3
<1>16. ASSUME NEW x \in due'
       PROVE  /\ Wants(x, emitting.type)'
              /\ \/ x \in ToSet(told') \/ Ahead(x)'
                 \/ emitting'.where = "global" /\ x \in Listed(emitting.name)'
  <2>1. x \in due /\ Wants(x, emitting.type)
    BY <1>6, <1>16 DEF Telling
  <2>2. Wants(x, emitting.type)'
    BY <1>4, <1>6, <2>1 DEF Wants
  <2>3. CASE x \in ToSet(told)
    BY <1>13, <2>2, <2>3
  <2>4. CASE Ahead(x)
    <3>1. PICK k \in i..m : x = Walked[k]
      BY <1>9, <2>4
    <3>2. CASE k = i
      <4>1. x = l
        BY <1>1, <3>1, <3>2
      <4> QED BY <1>13, <2>1, <2>2, <4>1
    <3>3. CASE k # i
      <4>1. k \in i + 1..m
        BY <3>3
      <4> QED BY <1>10, <2>2, <3>1, <4>1
    <3> QED BY <3>2, <3>3
  <2>5. CASE emitting.where = "global" /\ x \in Listed(emitting.name)
    <3>1. x \in Listed(emitting.name)'
      BY <1>4, <2>5 DEF Listed, Elements, ArrayOf, arrays
    <3> QED BY <1>4, <2>2, <2>5, <3>1
  <2> QED BY <2>1, <2>3, <2>4, <2>5 DEF Telling
<1>17. emitting'.count <= Len(Walked')
  BY <1>3, <1>4, <1>5
<1> QED BY <1>14, <1>15, <1>16, <1>17 DEF Telling

\* A turn of pbcc_event_listener_emit_message_ keeps the invariant.
LEMMA TurnKeeps ==
    ASSUME IInv, pbcc_event_listener_emit_message_
    PROVE  IInv'
<1> DEFINE i == emitting.index
           l == Walked[i]
           crash == i > Len(Walked) \/ heap[l].freed
<1>1. /\ process = "runs" /\ emitting # NULL /\ ~ (i > emitting.count)
      /\ UNCHANGED <<arrays, names, due, removed, gone, shrunk>>
      /\ crash => process' = "crashed" /\ UNCHANGED <<emitting, told>>
      /\ ~ crash => /\ emitting' = [emitting EXCEPT !.index = @ + 1, !.called = Wants(l, emitting.type)]
                    /\ told' = IF Wants(l, emitting.type) THEN Append(told, l) ELSE told
                    /\ process' = process
  BY DEF pbcc_event_listener_emit_message_, Walks, WalkEnds
<1>2. Typed /\ Kinds /\ Counted /\ Emission /\ emitting \in Emissions
      /\ (emitting.where # "status" => emitting.name \in Names) /\ (~ removed => Telling)
  BY <1>1 DEF IInv, Emission
<1>3. Walked \in Seq(DOMAIN heap) /\ Len(Walked) \in Nat /\ DOMAIN Walked = 1..Len(Walked)
      /\ \A k \in 1..Len(Walked) : Walked[k] \in DOMAIN heap
  BY <1>2, WalkedFacts, LenProperties, ElementOfSeq
<1>4. i \in Nat \ {0} /\ emitting.count \in Nat /\ i <= emitting.count
  BY <1>1, <1>2 DEF Emissions
<1>5. i <= Len(Walked) => l \in DOMAIN heap /\ l \in ToSet(Walked)
  <2>1. i <= Len(Walked) => i \in 1..Len(Walked)
    BY <1>3, <1>4
  <2> QED BY <1>3, <2>1 DEF ToSet
<1>6. CASE crash
  <2>1. removed \/ listeners = NULL \/ \E x \in DOMAIN heap : heap[x].added > 2
    <3>1. CASE i > Len(Walked)
      <4>1. ~ removed => emitting.count <= Len(Walked)
        BY <1>2 DEF Telling
      <4> QED BY <1>3, <1>4, <3>1, <4>1
    <3>2. CASE ~ (i > Len(Walked)) /\ heap[l].freed
      <4>1. l \in ToSet(Walked)
        BY <1>3, <1>4, <1>5, <3>2
      <4> QED BY <1>2, <3>2, <4>1, WalkedAllocated
    <3> QED BY <1>6, <3>1, <3>2
  <2> QED BY <1>1, <1>6, <2>1, CrashedKeeps
<1>7. CASE ~ crash
  <2>1. l \in DOMAIN heap
    BY <1>3, <1>4, <1>5, <1>7
  <2>2. PICK w \in BOOLEAN : w = Wants(l, emitting.type)
    BY DEF Wants
  <2>3. NextTurn(emitting')
    <3> DEFINE e == emitting'
    <3>1. e = [emitting EXCEPT !.index = @ + 1, !.called = w]
      BY <1>1, <1>7, <2>2
    <3> HIDE DEF e
    <3>2. NextTurn(e)
      BY <1>2, <3>1, NextTurnFacts
    <3> QED BY <3>2 DEF e
  <2>4. told' = IF Wants(l, emitting.type) THEN Append(told, l) ELSE told
    BY <1>1, <1>7
  <2>5. told' \in Seq(DOMAIN heap)
    <3>1. told \in Seq(DOMAIN heap) /\ Append(told, l) \in Seq(DOMAIN heap)
      BY <1>2, <2>1, AppendProperties DEF Typed
    <3> QED BY <2>4, <3>1
  <2>6. ~ removed => Telling'
    <3>1. ASSUME ~ removed PROVE Telling'
      <4>1. PICK x : x = l
        OBVIOUS
      <4>2. x = Walked[emitting.index] /\ x \in DOMAIN heap
            /\ told' = IF Wants(x, emitting.type) THEN Append(told, x) ELSE told
        BY <2>1, <2>4, <4>1
      <4>3. UNCHANGED <<arrays, due>>
        BY <1>1
      <4> QED BY <1>2, <1>4, <2>3, <3>1, <4>2, <4>3, TurnTelling
    <3> QED BY <3>1
  <2>7. Emission'
    <3>1. emitting' # NULL /\ emitting' \in Emissions /\ emitting'.index <= emitting'.count + 1
      BY <1>4, <2>3 DEF NextTurn
    <3>2. emitting'.where # "status" => emitting'.name \in Names
      BY <1>2, <2>3 DEF NextTurn
    <3>3. removed' = removed
      BY <1>1
    <3> QED BY <2>6, <3>1, <3>2, <3>3 DEF Emission
  <2>8. removed' \in BOOLEAN /\ due' \subseteq DOMAIN heap /\ process' = "runs"
          /\ emitting' \in Emissions \cup {NULL}
    BY <1>1, <1>2, <1>7, <2>3 DEF Typed, NextTurn
  <2>9. UNCHANGED <<arrays, names, gone, shrunk>>
    BY <1>1
  <2> QED BY <1>1, <2>5, <2>7, <2>8, <2>9, EmissionKeeps
<1> QED BY <1>6, <1>7

\* After the context's listeners nobody but those of the name is due.
LEMMA ObjectTelling ==
    ASSUME Typed, Kinds, Telling, emitting \in Emissions, UNCHANGED <<arrays, due, told>>,
           emitting.where = "global", emitting.name \in Names, emitting.index > emitting.count,
           emitting.index <= emitting.count + 1,
           NEW n, n = Len(Elements(ArrayOf(emitting.name))), n \in Nat,
           DOMAIN Elements(ArrayOf(emitting.name)) = 1..n,
           emitting' \in Emissions, emitting'.where = "object", emitting'.type = emitting.type,
           emitting'.name = emitting.name, emitting'.index = 1, emitting'.count = n
    PROVE  Telling'
<1>1. PICK m \in Names : m = emitting.name
  OBVIOUS
<1>2. PICK s : s = Elements(ArrayOf(m))
  OBVIOUS
<1>3. n = Len(s) /\ DOMAIN s = 1..n /\ Listed(m) = ToSet(s)
  BY <1>1, <1>2 DEF Listed
<1>4. heap' = heap /\ due' = due /\ told' = told
  BY DEF arrays
<1>5. Walked' = s
  <2>1. ArrayOf(m)' = ArrayOf(m)
    BY DEF ArrayOf, arrays
  <2>2. Elements(ArrayOf(m))' = s
    BY <1>2, <2>1 DEF Elements
  <2>3. emitting'.where = "object" /\ emitting'.name = m
    BY <1>1
  <2> QED BY <2>2, <2>3 DEF Walked
<1>6. ASSUME NEW x \in ToSet(told')
      PROVE  Wants(x, emitting.type)' /\ emitting'.where = "object" /\ Owner(x)' = NULL
  <2>1. Behind(x)
    BY <1>4, <1>6 DEF Telling
  <2>2. PICK j \in Nat : j = emitting.index
    BY DEF Emissions
  <2>3. PICK k \in 1..j - 1 : x = Walked[k]
    BY <2>1, <2>2 DEF Behind
  <2>4. k \in 1..Len(Walked)
    <3>1. PICK c \in Nat : c = emitting.count
      BY DEF Emissions
    <3>2. c <= Len(Walked) /\ Len(Walked) \in Nat /\ j <= c + 1
      BY <2>2, <3>1, WalkedFacts DEF Telling
    <3> QED BY <2>3, <3>2
  <2>5. DOMAIN Walked = 1..Len(Walked)
    BY WalkedFacts, LenProperties
  <2>6. x \in ToSet(Walked)
    BY <2>3, <2>4, <2>5 DEF ToSet
  <2>7. Walked = Elements(global_events)
    BY DEF Walked
  <2>8. Owner(x) = NULL
    BY <2>6, <2>7 DEF Events, Kinds
  <2> QED BY <1>4, <2>8 DEF Owner, Wants
<1>7. ASSUME NEW x \in due' PROVE Wants(x, emitting.type)' /\ (x \in ToSet(told') \/ Ahead(x)')
  <2>1. x \in due /\ Wants(x, emitting.type)
    BY <1>4, <1>7 DEF Telling
  <2>2. Wants(x, emitting.type)'
    BY <1>4, <2>1 DEF Wants
  <2>3. ~ Ahead(x)
    <3>1. emitting.index \in Nat /\ emitting.count \in Nat
      BY DEF Emissions
    <3>2. \A k \in emitting.index..emitting.count : FALSE
      BY <3>1
    <3> QED BY <3>2 DEF Ahead
  <2>4. CASE x \in ToSet(told)
    BY <1>4, <2>2, <2>4
  <2>5. CASE x \in Listed(m)
    <3>1. PICK k \in 1..n : s[k] = x
      BY <1>3, <2>5 DEF ToSet
    <3>2. Ahead(x)'
      BY <1>5, <3>1 DEF Ahead
    <3> QED BY <2>2, <3>2
  <2> QED BY <1>1, <2>1, <2>3, <2>4, <2>5 DEF Telling
<1>8. Once(told') /\ emitting'.count <= Len(Walked')
  BY <1>3, <1>4, <1>5 DEF Telling
<1> QED BY <1>6, <1>7, <1>8 DEF Telling

\* The walk over the name's listeners begins, or the hash set is not there.
LEMMA EmitObjectKeeps ==
    ASSUME IInv, emit_object
    PROVE  IInv'
<1>1. /\ process = "runs" /\ emitting # NULL /\ emitting.index > emitting.count
           /\ emitting.where = "global"
      /\ listeners = NULL => process' = "crashed" /\ emitting' = emitting
      /\ listeners # NULL =>
            /\ emitting' = Walk("object", emitting.type, emitting.name, ArrayOf(emitting.name))
            /\ process' = process
      /\ UNCHANGED <<arrays, names, due, told, removed, gone, shrunk>>
  BY DEF emit_object, WalkEnds, Walks
<1>2. CASE listeners = NULL
  BY <1>1, <1>2, CrashedKeeps
<1>3. CASE listeners # NULL
  <2>1. Typed /\ Kinds /\ Counted /\ Emission /\ emitting \in Emissions
        /\ emitting.name \in Names /\ (~ removed => Telling) /\ emitting.index <= emitting.count + 1
    <3>1. "global" # "status"
      OBVIOUS
    <3> QED BY <1>1, <3>1 DEF IInv, Emission
  <2>2. PICK m \in Names : m = emitting.name
    BY <2>1
  <2>3. PICK t \in Types \cup {"STATUS"} : t = emitting.type
    BY <2>1 DEF Emissions
  <2> DEFINE a == ArrayOf(m)
             n == Len(Elements(a))
  <2>4. n \in Nat /\ DOMAIN Elements(a) = 1..n
    <3>1. IsArray(a) /\ DOMAIN heap \subseteq Nat
      BY <2>1, HeapFacts, ListedFacts
    <3> QED BY <3>1, ArrayFacts DEF IsArray
  <2>5. "object" \in {"status", "global", "object"} /\ m \in Names \cup {NULL}
    OBVIOUS
  <2>6. /\ emitting' \in Emissions /\ emitting' # NULL
        /\ emitting'.where = "object" /\ emitting'.type = t /\ emitting'.name = m
        /\ emitting'.index = 1 /\ emitting'.count = n
    <3>1. emitting' = Walk("object", t, m, a)
      BY <1>1, <1>3, <2>2, <2>3
    <3> QED BY <2>4, <2>5, <3>1, WalkFacts
  <2>7. ~ removed => Telling'
    <3>1. PICK k : k = n
      OBVIOUS
    <3>2. /\ k = Len(Elements(ArrayOf(emitting.name))) /\ k \in Nat
          /\ DOMAIN Elements(ArrayOf(emitting.name)) = 1..k
          /\ emitting'.type = emitting.type /\ emitting'.name = emitting.name /\ emitting'.count = k
      BY <2>2, <2>3, <2>4, <2>6, <3>1
    <3>3. UNCHANGED <<arrays, due, told>>
      BY <1>1
    <3> QED BY <1>1, <2>1, <2>6, <3>2, <3>3, ObjectTelling
  <2> HIDE DEF n
  <2>8. Emission'
    <3>1. emitting'.index <= emitting'.count + 1 /\ removed' = removed
      BY <1>1, <2>4, <2>6
    <3> QED BY <2>6, <2>7, <3>1 DEF Emission
  <2>9. removed' \in BOOLEAN /\ due' \subseteq DOMAIN heap /\ told' \in Seq(DOMAIN heap)
          /\ process' = "runs"
        /\ emitting' \in Emissions \cup {NULL}
    BY <1>1, <1>3, <2>1, <2>6 DEF Typed
  <2>10. UNCHANGED <<arrays, names, gone, shrunk>>
    BY <1>1
  <2> QED BY <1>1, <2>8, <2>9, <2>10, EmissionKeeps
<1> QED BY <1>2, <1>3

-----------------------------------------------------------------------------
(* The end of the event listener *)

\* How often listener l is freed with the event listener
Frees(l) == Count(l) + (IF l \in Events THEN 1 ELSE 0)

\* pbcc_event_listener_free in these terms
LEMMA FreeIs ==
    ASSUME pbcc_event_listener_free
    PROVE  /\ process = "runs" /\ UNCHANGED <<names, emitting, due, told, removed, gone, shrunk>>
           /\ \/ /\ \E l \in DOMAIN heap : Frees(l) > 0 /\ (heap[l].freed \/ heap[l].count < Frees(l))
                 /\ process' = "crashed" /\ UNCHANGED arrays
              \/ /\ \A l \in DOMAIN heap : Frees(l) > 0 => ~ (heap[l].count < Frees(l))
                 /\ process' = "freed" /\ global_events' = NULL /\ listeners' = NULL
                 /\ global_status' = global_status
                 /\ heap' = [l \in DOMAIN heap |->
                                IF ~ (Frees(l) > 0) THEN heap[l]
                                ELSE [heap[l] EXCEPT !.count = @ - Frees(l),
                                                     !.freed = heap[l].count = Frees(l)]]
<1> DEFINE T(l) == Cardinality({n \in Names : l \in ToSet(Elements(ArrayOf(n)))})
                    + (IF l \in ToSet(Elements(global_events)) THEN 1 ELSE 0)
           registered == {l \in DOMAIN heap : T(l) > 0}
<1>1. \A l : T(l) = Frees(l)
  BY DEF Frees, Count, Places, Listed, Events
<1>2. /\ process = "runs" /\ UNCHANGED <<names, emitting, due, told, removed, gone, shrunk>>
      /\ IF \E l \in registered : heap[l].freed \/ heap[l].count < T(l)
         THEN process' = "crashed" /\ UNCHANGED arrays
         ELSE /\ process' = "freed"
              /\ heap' = [l \in DOMAIN heap |->
                             IF l \notin registered THEN heap[l]
                             ELSE [heap[l] EXCEPT !.count = @ - T(l), !.freed = heap[l].count = T(l)]]
              /\ global_events' = NULL /\ listeners' = NULL
              /\ UNCHANGED global_status
  BY DEF pbcc_event_listener_free
<1> HIDE DEF T
<1>3. \A l \in DOMAIN heap : l \in registered <=> Frees(l) > 0
  BY <1>1
<1>4. \A l : l \in registered => l \in DOMAIN heap
  OBVIOUS
<1> HIDE DEF registered
<1>5. CASE \E l \in registered : heap[l].freed \/ heap[l].count < T(l)
  BY <1>1, <1>2, <1>3, <1>4, <1>5
<1>6. CASE ~ \E l \in registered : heap[l].freed \/ heap[l].count < T(l)
  <2>1. \A l \in DOMAIN heap : Frees(l) > 0 => ~ (heap[l].count < Frees(l))
    BY <1>1, <1>3, <1>6
  <2>2. heap' = [l \in DOMAIN heap |->
                   IF l \notin registered THEN heap[l]
                   ELSE [heap[l] EXCEPT !.count = @ - T(l), !.freed = heap[l].count = T(l)]]
    BY <1>2, <1>6
  <2>3. heap' = [l \in DOMAIN heap |->
                   IF ~ (Frees(l) > 0) THEN heap[l]
                   ELSE [heap[l] EXCEPT !.count = @ - Frees(l), !.freed = heap[l].count = Frees(l)]]
    BY <1>1, <1>3, <2>2
  <2> QED BY <1>2, <1>6, <2>1, <2>3
<1> QED BY <1>5, <1>6

\* The context's listeners are freed once, the others once per name.
LEMMA FreesFacts ==
    ASSUME Typed, Kinds, NEW l
    PROVE  /\ Frees(l) \in Nat
           /\ l \in Events => Frees(l) = 1
           /\ l \notin Events => Frees(l) = Count(l) /\ (Frees(l) > 0 => Places(l) # {})
<1>1. Count(l) \in Nat /\ (Count(l) = 0 <=> Places(l) = {})
  BY PlacesFinite, FS_EmptySet DEF Count
<1>2. l \in Events => Places(l) = {}
  BY DEF Kinds, Places
<1> QED BY <1>1, <1>2 DEF Frees

\* pbcc_event_listener_free keeps the invariant: no counter is below the number of
\* arrays the listener is in, unless it had more than two names.
LEMMA FreeKeeps ==
    ASSUME IInv, pbcc_event_listener_free
    PROVE  IInv'
<1>1. process = "runs" /\ UNCHANGED <<names, emitting, due, told, removed, gone, shrunk>>
  BY FreeIs
<1>2. Typed /\ Kinds /\ Counted
  BY <1>1 DEF IInv
<1>3. CASE /\ \E l \in DOMAIN heap : Frees(l) > 0 /\ (heap[l].freed \/ heap[l].count < Frees(l))
           /\ process' = "crashed" /\ UNCHANGED arrays
  <2>1. PICK l \in DOMAIN heap : Frees(l) > 0 /\ (heap[l].freed \/ heap[l].count < Frees(l))
    BY <1>3
  <2>2. heap[l] \in Records /\ Counts(l)
    BY <1>2, HeapFacts DEF Counted
  <2>3. heap[l].count \in Nat /\ heap[l].added \in Nat /\ Frees(l) \in Nat
    BY <1>2, <2>2, FreesFacts DEF Records
  <2>4. l \notin Events
    <3>1. SUFFICES ASSUME l \in Events PROVE FALSE
      OBVIOUS
    <3>2. EventCounts(l)
      BY <1>2, <2>2, <3>1 DEF Kinds, Counts
    <3>3. ~ heap[l].freed /\ heap[l].count = 2
      BY <3>1, <3>2 DEF EventCounts
    <3>4. Frees(l) = 1
      BY <1>2, <3>1, FreesFacts
    <3> QED BY <2>1, <3>3, <3>4
  <2>5. Places(l) # {} /\ Frees(l) = Count(l)
    BY <1>2, <2>1, <2>4, FreesFacts
  <2>6. ~ (heap[l].added <= 2)
    <3>1. SUFFICES ASSUME heap[l].added <= 2 PROVE FALSE
      OBVIOUS
    <3>2. heap[l].freed = FALSE /\ heap[l].count >= Count(l)
      BY <1>2, <2>5, <3>1, CrashNeedsMany
    <3> QED BY <2>1, <2>3, <2>5, <3>2
  <2>7. \E x \in DOMAIN heap : heap[x].added > 2
    BY <2>3, <2>6
  <2> QED BY <1>1, <1>3, <2>7, CrashedKeeps
<1>4. CASE /\ \A l \in DOMAIN heap : Frees(l) > 0 => ~ (heap[l].count < Frees(l))
           /\ process' = "freed" /\ global_events' = NULL /\ listeners' = NULL
           /\ global_status' = global_status
           /\ heap' = [l \in DOMAIN heap |->
                          IF ~ (Frees(l) > 0) THEN heap[l]
                          ELSE [heap[l] EXCEPT !.count = @ - Frees(l),
                                             !.freed = heap[l].count = Frees(l)]]
  <2>1. ASSUME NEW l \in DOMAIN heap PROVE heap'[l] \in Records
    <3>1. heap[l] \in Records /\ Frees(l) \in Nat
      BY <1>2, HeapFacts, FreesFacts
    <3>2. CASE ~ (Frees(l) > 0)
      BY <1>4, <3>1, <3>2
    <3>3. CASE Frees(l) > 0
      <4> DEFINE r == heap[l]
      <4>1. PICK k \in Nat : k = Frees(l)
        BY <3>1
      <4>2. PICK b \in BOOLEAN : b = (r.count = k)
        OBVIOUS
      <4>3. r.count \in Nat /\ ~ (r.count < k)
        BY <1>4, <3>1, <3>3, <4>1 DEF Records
      <4>4. r.count - k \in Nat
        BY <4>3
      <4>5. heap'[l] = [r EXCEPT !.count = @ - k, !.freed = b]
        BY <1>4, <3>3, <4>1, <4>2
      <4> HIDE DEF r
      <4>6. r \in Records
        BY <3>1 DEF r
      <4> QED BY <4>4, <4>5, <4>6 DEF Records
    <3> QED BY <3>2, <3>3
  <2>2. heap' \in Seq(Records) /\ DOMAIN heap' = DOMAIN heap
    <3>1. heap' = [l \in DOMAIN heap |-> heap'[l]]
      BY <1>4
    <3> QED BY <1>2, <2>1, <3>1, HeapUpdated
  <2>3. IsArray(global_status)' /\ IsArray(global_events)' /\ HashSet'
    BY <1>2, <1>4, <2>2 DEF Typed, IsArray, HashSet
  <2>4. Typed'
    BY <1>1, <1>2, <1>4, <2>2, <2>3 DEF Typed
  <2>5. process' # "runs" /\ process' # "crashed"
    BY <1>4
  <2> QED BY <2>4, <2>5 DEF IInv, CrashExplained
<1> QED BY <1>3, <1>4, FreeIs

-----------------------------------------------------------------------------
(* The theorems *)

\* No arrays are there at first.
LEMMA InitIInv ==
    ASSUME Init
    PROVE  IInv
<1>1. /\ heap = <<>> /\ global_status = NULL /\ global_events = NULL /\ listeners = NULL
      /\ names \in [Subscriptions -> SUBSET Names] /\ emitting = NULL /\ process = "runs"
      /\ due = {} /\ told = <<>> /\ removed = FALSE /\ gone = {} /\ shrunk = {}
  BY DEF Init
<1>2. \A D : <<>> \in Seq(D)
  BY EmptySeq
<1>3. DOMAIN <<>> = {} /\ Elements(NULL) = <<>>
  BY DEF Elements
<1>4. ToSet(<<>>) = {}
  BY <1>3 DEF ToSet
<1>5. Status = {} /\ Events = {} /\ \A n : Listed(n) = {}
  <2>1. \A n : ArrayOf(n) = NULL
    BY <1>1 DEF ArrayOf
  <2> QED BY <1>1, <1>3, <1>4, <2>1 DEF Status, Events, Listed
<1>6. Typed
  <2>1. FALSE \in BOOLEAN /\ "runs" \in {"runs", "freed", "crashed"} /\ NULL \in Emissions \cup {NULL}
    OBVIOUS
  <2>2. heap \in Seq(Records) /\ told \in Seq(DOMAIN heap)
    BY <1>1, <1>2
  <2>3. due \subseteq DOMAIN heap /\ gone \subseteq Keys /\ shrunk \subseteq Subscriptions
    BY <1>1
  <2> QED BY <1>1, <2>1, <2>2, <2>3 DEF Typed, IsArray, HashSet
<1>7. Kinds
  BY <1>5 DEF Kinds
<1>8. Counted
  BY <1>1, <1>3 DEF Counted
<1>9. Emission /\ CrashExplained
  BY <1>1 DEF Emission, CrashExplained
<1>10. RemovedIsGone
  <2>1. \A l : l \notin Registered
    BY <1>5, RegisteredIs
  <2> QED BY <2>1 DEF RemovedIsGone
<1> QED BY <1>6, <1>7, <1>8, <1>9, <1>10 DEF IInv

\* The invariant is about the variables.
LEMMA StutterIInv ==
    ASSUME IInv, UNCHANGED vars
    PROVE  IInv'
<1>1. /\ UNCHANGED <<heap, global_status, global_events, listeners, names, emitting, process>>
      /\ UNCHANGED <<due, told, removed, gone, shrunk>>
  BY DEF vars, arrays
<1>2. Typed'
  BY <1>1 DEF IInv, Typed, IsArray, HashSet
<1>3. UNCHANGED <<arrays, names, gone, shrunk>>
  BY <1>1 DEF arrays
<1>4. ASSUME process = "runs" PROVE Kinds' /\ Counted' /\ RemovedIsGone'
  BY <1>3, <1>4, StillFacts DEF IInv
<1>5. ASSUME process = "runs" PROVE Emission'
  <2>1. Emission
    BY <1>5 DEF IInv
  <2>2. (\A l : Owner(l)' = Owner(l)) /\ \A n : Listed(n)' = Listed(n)
    BY <1>3, StillFacts
  <2>3. Walked' = Walked
    BY <1>1, <1>3, WalkedStays
  <2>4. (\A l : Ahead(l)' <=> Ahead(l)) /\ (\A l : Behind(l)' <=> Behind(l)) /\ \A l, t :
          Wants(l, t)' <=> Wants(l, t)
    BY <1>1, <2>3 DEF Ahead, Behind, Wants
  <2>5. Listed(emitting.name)' = Listed(emitting.name)
    BY <1>1 DEF Listed, Elements, ArrayOf
  <2>6. Telling => Telling'
    BY <1>1, <2>2, <2>3, <2>4, <2>5 DEF Telling
  <2> QED BY <1>1, <2>1, <2>6 DEF Emission
<1>6. CrashExplained'
  BY <1>1 DEF IInv, CrashExplained
<1> QED BY <1>1, <1>2, <1>4, <1>5, <1>6 DEF IInv

\* Every call and every turn keeps the invariant.
LEMMA NextIInv ==
    ASSUME IInv, [Next]_vars
    PROVE  IInv'
<1>1. ASSUME NEW c \in Callbacks, pbcc_event_listener_add_status_listener(c) PROVE IInv'
  BY <1>1, AddStatusKeeps
<1>2. ASSUME NEW c \in Callbacks, pbcc_event_listener_remove_status_listener(c) PROVE IInv'
  BY <1>2, RemoveStatusKeeps
<1>3. ASSUME NEW c \in Callbacks, NEW t \in Types, pbcc_event_listener_add_message_listener(t, c)
      PROVE  IInv'
  BY <1>3, AddMessageKeeps
<1>4. ASSUME NEW c \in Callbacks, NEW t \in Types, pbcc_event_listener_remove_message_listener(t, c)
      PROVE  IInv'
  BY <1>4, RemoveMessageKeeps
<1>5. ASSUME NEW c \in Callbacks, NEW t \in Types, NEW s \in Subscriptions,
             pbcc_event_listener_add_subscription_object_listener(s, t, c) PROVE IInv'
  BY <1>5, AddSubscriptionKeeps
<1>6. ASSUME NEW c \in Callbacks, NEW t \in Types, NEW s \in Subscriptions,
             pbcc_event_listener_remove_subscription_object_listener(s, t, c) PROVE IInv'
  BY <1>6, RemoveSubscriptionKeeps
<1>7. ASSUME NEW s \in Subscriptions, NEW N \in NamesOf[s], subscription_set_changes(s, N) PROVE IInv'
  BY <1>7, SetChangesKeeps
<1>8. CASE pbcc_event_listener_emit_status
  BY <1>8, EmitStatusKeeps
<1>9. ASSUME NEW n \in Names, NEW t \in Types, pbcc_event_listener_emit_message(n, t) PROVE IInv'
  BY <1>9, EmitMessageKeeps
<1>10. CASE pbcc_event_listener_emit_message_
  BY <1>10, TurnKeeps
<1>11. CASE emit_object
  BY <1>11, EmitObjectKeeps
<1>12. CASE emit_ends
  BY <1>12, EmitEndsKeeps
<1>13. CASE pbcc_event_listener_free
  BY <1>13, FreeKeeps
<1>14. CASE UNCHANGED vars
  BY <1>14, StutterIInv
<1>15. CASE Next
  BY <1>1, <1>2, <1>3, <1>4, <1>5, <1>6, <1>7, <1>8, <1>9, <1>10, <1>11, <1>12, <1>13, <1>15 DEF Next
<1> QED BY <1>14, <1>15

\* What IInv says holds through all calls, emissions and set changes, for any number
\* of names, subscriptions and listeners (core/pbcc_subscribe_event_listener.c).
THEOREM Invariance == Spec => []IInv
<1>1. Init => IInv
  BY InitIInv
<1>2. IInv /\ [Next]_vars => IInv'
  BY NextIInv
<1> QED BY <1>1, <1>2, PTL DEF Spec

\* What is in an array has room in it.
LEMMA FitsFacts ==
    ASSUME NEW a, IsArray(a)
    PROVE  Fits(a)
<1>1. a # NULL => Sound(a, DOMAIN heap)
  BY DEF IsArray
<1> QED BY <1>1 DEF Sound, Fits, Arrays

\* No array of lib/pbarray.c ever holds more listeners than it has room for, however
\* it is resized up and down, for every first length of two or more.
THEOREM TypeCorrect == Spec => []TypeOK
<1>1. IInv => TypeOK
  <2>1. SUFFICES ASSUME IInv PROVE TypeOK
    OBVIOUS
  <2>2. Typed
    BY <2>1 DEF IInv
  <2>3. Fits(global_status) /\ Fits(global_events) /\ \A n \in Names : Fits(ArrayOf(n))
    BY <2>2, ListedFacts, FitsFacts DEF Typed
  <2> QED BY <2>2, <2>3 DEF Typed, TypeOK, Records
<1> QED BY <1>1, Invariance, PTL

\* A listener is freed when it leaves its last array and not earlier, as long as it was
\* added under one or two names; freed memory is read, or NULL, only for the three
\* reasons given (pbcc_remove_listener_ and the counters of lib/pbref_counter.c).
THEOREM Allocation == Spec => []AllocatedWhileRegistered
<1>1. IInv => AllocatedWhileRegistered
  <2>1. SUFFICES ASSUME IInv PROVE AllocatedWhileRegistered
    OBVIOUS
  <2>2. ASSUME process = "runs", NEW l \in DOMAIN heap, Owner(l) = NULL \/ heap[l].added \in {1, 2}
        PROVE  heap[l].freed <=> l \notin Registered
    <3>1. Kinds /\ Counts(l)
      BY <2>1, <2>2 DEF IInv, Counted
    <3>2. l \in Registered <=> l \in Status \/ l \in Events \/ Places(l) # {}
      BY RegisteredIs DEF Places
    <3>3. CASE Owner(l) = NULL
      <4>1. Places(l) = {}
        BY <3>1, <3>3 DEF Kinds, Places
      <4>2. CASE IsStatus(l)
        <5>1. l \notin Events /\ StatusCounts(l)
          BY <3>1, <3>3, <4>2 DEF Kinds, Counts
        <5> QED BY <3>2, <4>1, <5>1 DEF StatusCounts
      <4>3. CASE ~ IsStatus(l)
        <5>1. l \notin Status /\ EventCounts(l)
          BY <3>1, <3>3, <4>3 DEF Kinds, Counts
        <5> QED BY <3>2, <4>1, <5>1 DEF EventCounts
      <4> QED BY <4>2, <4>3
    <3>4. CASE Owner(l) # NULL
      <4>1. l \notin Status /\ l \notin Events
        BY <3>1, <3>4 DEF Kinds
      <4>2. heap[l].freed <=> Places(l) = {}
        BY <2>2, <3>1, <3>4 DEF Counts, OneCounts, TwoCounts
      <4> QED BY <3>2, <4>1, <4>2
    <3> QED BY <3>3, <3>4
  <2>3. CrashExplained
    BY <2>1 DEF IInv
  <2> QED BY <2>2, <2>3 DEF AllocatedWhileRegistered, CrashExplained, Owner
<1> QED BY <1>1, Invariance, PTL

\* An emission without removals tells every listener that was registered for the update
\* and its type exactly once, whatever listeners add meanwhile, and no subscription's
\* listener of another type (pbcc_event_listener_emit_message_).
THEOREM Tells == Spec => []ToldAsRegistered
<1>1. IInv => ToldAsRegistered
  <2>1. SUFFICES ASSUME IInv, WalkEnds, emitting.where # "global", ~ removed
                 PROVE  /\ due \subseteq ToSet(told) /\ IsInjective(told)
                        /\ \A l \in ToSet(told) : Wants(l, emitting.type)
    BY DEF ToldAsRegistered, Wants
  <2>2. Typed /\ Telling /\ emitting \in Emissions /\ emitting.index > emitting.count
    BY <2>1 DEF IInv, WalkEnds, Walks, Emission
  <2>3. \A l : ~ Ahead(l)
    <3>1. emitting.index \in Nat /\ emitting.count \in Nat
      BY <2>2 DEF Emissions
    <3>2. \A k \in emitting.index..emitting.count : FALSE
      BY <2>2, <3>1
    <3> QED BY <3>2 DEF Ahead
  <2>4. due \subseteq ToSet(told)
    BY <2>1, <2>2, <2>3 DEF Telling
  <2>5. IsInjective(told)
    <3>1. DOMAIN told = 1..Len(told)
      BY <2>2, LenProperties DEF Typed
    <3>2. Once(told)
      BY <2>2 DEF Telling
    <3> QED BY <3>1, <3>2 DEF Once, IsInjective
  <2>6. \A l \in ToSet(told) : Wants(l, emitting.type)
    BY <2>2 DEF Telling
  <2> QED BY <2>4, <2>5, <2>6
<1> QED BY <1>1, Invariance, PTL

\* What was removed is in no array any more, unless its set has lost a name
\* (pbcc_remove_listener_).
THEOREM Removals == Spec => []RemovedIsGone
<1>1. IInv => RemovedIsGone
  BY DEF IInv, RemovedIsGone
<1> QED BY <1>1, Invariance, PTL
==============================================================================
