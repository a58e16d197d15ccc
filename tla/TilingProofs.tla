---------------------------- MODULE TilingProofs ----------------------------
(***************************************************************************)
(* Proofs about the tiler: that it never takes back a float of the user,    *)
(* that what is on screen becomes the layout, that the tiles of a layout    *)
(* partition their area and that the tiler comes to rest, for every set of  *)
(* windows and displays, every number of tiles, ratio and gap; the last for *)
(* a limit of at least 3 strikes, the others for any.                       *)
(***************************************************************************)
EXTENDS TilingProperties, SequenceTheorems, FiniteSetTheorems, TLAPS

-----------------------------------------------------------------------------
(* Induction and recursion on a natural number *)

\* A set with a natural number in it has a least one.  This is the induction
\* of every proof below: what fails somewhere fails first somewhere.
LEMMA LeastNatural ==
  ASSUME NEW P, NEW n \in Nat, n \in P
  PROVE  \E k \in Nat : k \in P /\ \A j \in Nat : j < k => j \notin P
  <1>1. IsWellFoundedOn(OpToRel(<, Nat), Nat)
    BY NatLessThanWellFounded
  <1>2. \E k \in P \cap Nat : \A j \in P \cap Nat : ~(<<j, k>> \in OpToRel(<, Nat))
    BY <1>1, WFMin
  <1>3. QED
    BY <1>2 DEF OpToRel

\* A function can be defined by what its first value is and what the next one
\* is, given the last.
Follows(f, x0, n, next) == f[0] = x0 /\ \A i \in 1..n : f[i] = next[<<i, f[i - 1]>>]

LEMMA Recursion ==
  ASSUME NEW X, NEW x0 \in X, NEW n \in Nat, NEW next \in [(1..n) \X X -> X]
  PROVE  \E f \in [0..n -> X] : Follows(f, x0, n, next)
  <1> DEFINE Good(k) == \E f \in [0..k -> X] :
                          f[0] = x0 /\ \A i \in 1..k : f[i] = next[<<i, f[i - 1]>>]
             Bad == {k \in 0..n : ~Good(k)}
  <1>1. Good(0)
    <2>1. [i \in 0..0 |-> x0] \in [0..0 -> X] /\ [i \in 0..0 |-> x0][0] = x0 /\ 1..0 = {}
      OBVIOUS
    <2>2. QED
      BY <2>1
  <1>2. ASSUME NEW k \in 1..n, Good(k - 1) PROVE Good(k)
    <2>1. PICK f \in [0..(k - 1) -> X] :
                 f[0] = x0 /\ \A i \in 1..(k - 1) : f[i] = next[<<i, f[i - 1]>>]
      BY <1>2
    <2>2. f[k - 1] \in X /\ next[<<k, f[k - 1]>>] \in X
      OBVIOUS
    <2> DEFINE g == [i \in 0..k |-> IF i = k THEN next[<<k, f[k - 1]>>] ELSE f[i]]
    <2>3. g \in [0..k -> X]
      BY <2>2
    <2>4. g[0] = x0
      BY <2>1
    <2>5. ASSUME NEW i \in 1..k PROVE g[i] = next[<<i, g[i - 1]>>]
      <3>1. g[i - 1] = f[i - 1]
        OBVIOUS
      <3>2. CASE i = k
        <4>1. g[i] = next[<<k, f[k - 1]>>]
          BY <3>2
        <4>2. QED
          BY <3>1, <3>2, <4>1
      <3>3. CASE i # k
        BY <3>1, <3>3, <2>1
      <3>4. QED
        BY <3>2, <3>3
    <2> HIDE DEF g
    <2>6. QED
      BY <2>3, <2>4, <2>5
  <1> HIDE DEF Good
  <1>3. ASSUME ~Good(n) PROVE FALSE
    <2>1. n \in Bad
      BY <1>3
    <2>2. PICK k \in Nat : k \in Bad /\ \A j \in Nat : j < k => j \notin Bad
      BY <2>1, LeastNatural
    <2>3. k # 0
      BY <2>2, <1>1
    <2>4. Good(k - 1)
      BY <2>2, <2>3
    <2>5. QED
      BY <2>2, <2>3, <2>4, <1>2
  <1>4. QED
    BY <1>3 DEF Good, Follows

-----------------------------------------------------------------------------
(* Sequences *)

\* The prefix functions of Selected: what is selected of the first i elements.
Picking(f, seq, W) ==
  f = [i \in 0..Len(seq) |->
         IF i = 0 THEN <<>>
         ELSE IF seq[i] \in W THEN Append(f[i - 1], seq[i]) ELSE f[i - 1]]

LEMMA PickingExists ==
  ASSUME NEW S, NEW seq \in Seq(S), NEW W
  PROVE  \E f : Picking(f, seq, W)
  <1> DEFINE n == Len(seq)
             X == Seq(S)
             next == [p \in (1..n) \X X |->
                        IF seq[p[1]] \in W THEN Append(p[2], seq[p[1]]) ELSE p[2]]
  <1>1. n \in Nat /\ <<>> \in X
    OBVIOUS
  <1>2. next \in [(1..n) \X X -> X]
    OBVIOUS
  <1>3. \A i \in 1..n, x \in X :
          next[<<i, x>>] = IF seq[i] \in W THEN Append(x, seq[i]) ELSE x
    OBVIOUS
  <1> HIDE DEF next, X
  <1>4. PICK f \in [0..n -> X] :
               f[0] = <<>> /\ \A i \in 1..n : f[i] = next[<<i, f[i - 1]>>]
    <2> HIDE DEF n
    <2>1. \E f \in [0..n -> X] : Follows(f, <<>>, n, next)
      BY <1>1, <1>2, Recursion
    <2>2. QED
      BY <2>1 DEF Follows
  <1>5. \A i \in 1..n : f[i - 1] \in X
    OBVIOUS
  <1>6. \A i \in 1..n : f[i] = IF seq[i] \in W THEN Append(f[i - 1], seq[i]) ELSE f[i - 1]
    BY <1>3, <1>4, <1>5
  <1>7. f = [i \in 0..n |->
              IF i = 0 THEN <<>>
              ELSE IF seq[i] \in W THEN Append(f[i - 1], seq[i]) ELSE f[i - 1]]
    <2> HIDE DEF n
    <2>1. \A i \in 0..n : i = 0 \/ i \in 1..n
      BY <1>1
    <2>2. QED
      BY <1>4, <1>6, <2>1
  <1>8. QED
    BY <1>7 DEF Picking

\* What Selected returns: a sequence of the elements that are in the set, as
\* long as the given one at most, and without repetitions if it had none.
LEMMA SelectedIs ==
  ASSUME NEW S, NEW seq \in Seq(S), NEW W
  PROVE  /\ Selected(seq, W) \in Seq(S)
         /\ ToSet(Selected(seq, W)) = ToSet(seq) \cap W
         /\ Len(Selected(seq, W)) <= Len(seq)
         /\ IsInjective(seq) => IsInjective(Selected(seq, W))
  <1> DEFINE f == CHOOSE g : Picking(g, seq, W)
             n == Len(seq)
             Sound(i) == /\ f[i] \in Seq(S)
                         /\ ToSet(f[i]) = {seq[j] : j \in 1..i} \cap W
                         /\ Len(f[i]) <= i
                         /\ IsInjective(seq) => IsInjective(f[i])
             Bad == {i \in 0..n : ~Sound(i)}
  <1>1. Selected(seq, W) = f[n]
    BY DEF Selected, Picking
  <1>2. Picking(f, seq, W)
    BY PickingExists
  <1> HIDE DEF f
  <1>3. /\ f[0] = <<>>
        /\ \A i \in 1..n : f[i] = IF seq[i] \in W THEN Append(f[i - 1], seq[i]) ELSE f[i - 1]
    <2>1. /\ n \in Nat /\ 0 \in 0..n /\ \A i \in 1..n : i \in 0..n /\ i # 0
      OBVIOUS
    <2> HIDE DEF n
    <2>2. f = [i \in 0..n |->
                 IF i = 0 THEN <<>>
                 ELSE IF seq[i] \in W THEN Append(f[i - 1], seq[i]) ELSE f[i - 1]]
      BY <1>2 DEF Picking, n
    <2>3. \A i \in 0..n :
            f[i] = IF i = 0 THEN <<>>
                   ELSE IF seq[i] \in W THEN Append(f[i - 1], seq[i]) ELSE f[i - 1]
      BY <2>2
    <2>4. QED
      BY <2>1, <2>3
  <1>4. Sound(0)
    BY <1>3 DEF ToSet, IsInjective
  <1>5. ASSUME NEW i \in 1..n, Sound(i - 1) PROVE Sound(i)
    <2> DEFINE t == f[i - 1]
    <2>0. /\ t \in Seq(S) /\ ToSet(t) = {seq[j] : j \in 1..(i - 1)} \cap W
          /\ Len(t) <= i - 1 /\ (IsInjective(seq) => IsInjective(t))
      BY <1>5
    <2>1. seq[i] \in S /\ {seq[j] : j \in 1..i} = {seq[j] : j \in 1..(i - 1)} \cup {seq[i]}
      OBVIOUS
    <2>2. CASE seq[i] \notin W
      <3>1. f[i] = t
        BY <2>2, <1>3
      <3>2. QED
        BY <3>1, <2>0, <2>1, <2>2
    <2>3. CASE seq[i] \in W
      <3>1. f[i] = Append(t, seq[i])
        BY <2>3, <1>3
      <3> HIDE DEF t
      <3>2. /\ Append(t, seq[i]) \in Seq(S) /\ Len(Append(t, seq[i])) = Len(t) + 1
            /\ \A j \in 1..Len(t) : Append(t, seq[i])[j] = t[j]
            /\ Append(t, seq[i])[Len(t) + 1] = seq[i]
            /\ Len(t) \in Nat
        BY <2>0, <2>1
      <3>3. ToSet(Append(t, seq[i])) = ToSet(t) \cup {seq[i]}
        BY <2>0, <3>2 DEF ToSet
      <3>4. ToSet(Append(t, seq[i])) = {seq[j] : j \in 1..i} \cap W
        BY <3>3, <2>0, <2>1, <2>3
      <3>5. ASSUME IsInjective(seq) PROVE IsInjective(Append(t, seq[i]))
        <4>1. seq[i] \notin {seq[j] : j \in 1..(i - 1)}
          BY <3>5 DEF IsInjective
        <4>2. \A j \in 1..Len(t) : t[j] # seq[i]
          <5>1. seq[i] \notin ToSet(t)
            BY <4>1, <2>0
          <5>2. QED
            BY <5>1, <2>0 DEF ToSet
        <4>3. IsInjective(t)
          BY <3>5, <2>0
        <4>4. \A j \in DOMAIN Append(t, seq[i]) : j \in 1..Len(t) \/ j = Len(t) + 1
          BY <3>2
        <4>5. DOMAIN t = 1..Len(t)
          BY <2>0
        <4>6. QED
          BY <3>2, <4>2, <4>3, <4>4, <4>5 DEF IsInjective
      <3>6. QED
        BY <3>1, <3>2, <3>4, <3>5, <2>0
    <2>4. QED
      BY <2>2, <2>3
  <1>6. ASSUME ~Sound(n) PROVE FALSE
    <2> HIDE DEF Sound
    <2>1. n \in Bad /\ n \in Nat
      BY <1>6
    <2>2. PICK k \in Nat : k \in Bad /\ \A j \in Nat : j < k => j \notin Bad
      BY <2>1, LeastNatural
    <2>3. k # 0
      BY <2>2, <1>4
    <2>4. Sound(k - 1)
      BY <2>2, <2>3
    <2>5. QED
      BY <2>2, <2>3, <2>4, <1>5
  <1>7. {seq[j] : j \in 1..n} = ToSet(seq)
    BY DEF ToSet
  <1>8. QED
    BY <1>1, <1>6, <1>7

\* The elements of a finite set, in some order.
LEMMA SetToSeqIs ==
  ASSUME NEW S, IsFiniteSet(S)
  PROVE  SetToSeq(S) \in Seq(S) /\ ToSet(SetToSeq(S)) = S /\ IsInjective(SetToSeq(S))
  <1> DEFINE n == Cardinality(S)
             q == SetToSeq(S)
  <1>1. n \in Nat /\ ExistsBijection(1..n, S)
    BY FS_CardinalityType
  <1>2. \E f \in [1..n -> S] : IsInjective(f)
    BY <1>1 DEF ExistsBijection, Bijection, Injection, IsInjective
  <1>3. q \in [1..n -> S] /\ IsInjective(q)
    BY <1>2 DEF SetToSeq
  <1>4. q \in Injection(1..n, S)
    BY <1>3 DEF Injection, IsInjective
  <1>5. IsFiniteSet(1..n) /\ Cardinality(1..n) = n
    BY <1>1, FS_Interval
  <1>6. q \in Surjection(1..n, S)
    BY <1>4, <1>5, FS_Injection
  <1> HIDE DEF q, n
  <1>7. q \in Seq(S)
    BY <1>1, <1>3, SeqDef
  <1>8. ToSet(q) = S
    BY <1>3, <1>6 DEF ToSet, Surjection
  <1>9. QED
    BY <1>3, <1>7, <1>8 DEF q

\* A sequence with another one put in after its p-th element.
LEMMA Spliced ==
  ASSUME NEW S, NEW t \in Seq(S), NEW u \in Seq(S), NEW p \in 0..Len(t)
  PROVE  LET v == SubSeq(t, 1, p) \o u \o SubSeq(t, p + 1, Len(t))
         IN  /\ v \in Seq(S)
             /\ ToSet(v) = ToSet(t) \cup ToSet(u)
             /\ IsInjective(t) /\ IsInjective(u) /\ ToSet(t) \cap ToSet(u) = {}
                  => IsInjective(v)
  <1> DEFINE a == SubSeq(t, 1, p)
             c == SubSeq(t, p + 1, Len(t))
             v == a \o u \o c
             m == Len(t)
             n == Len(u)
  <1>1. m \in Nat /\ n \in Nat /\ p \in Nat /\ p <= m
    OBVIOUS
  <1>2. a \in Seq(S) /\ Len(a) = p /\ \A i \in 1..p : a[i] = t[i]
    BY SubSeqProperties
  <1>3. c \in Seq(S) /\ Len(c) = m - p /\ \A i \in 1..(m - p) : c[i] = t[p + i]
    BY SubSeqProperties
  <1> HIDE DEF a, c
  <1>4. /\ a \o u \in Seq(S) /\ Len(a \o u) = p + n
        /\ \A i \in 1..(p + n) : (a \o u)[i] = IF i <= p THEN t[i] ELSE u[i - p]
    <2>1. /\ a \o u \in Seq(S) /\ Len(a \o u) = p + n
          /\ \A i \in 1..(p + n) : (a \o u)[i] = IF i <= p THEN a[i] ELSE u[i - p]
      BY <1>2, ConcatProperties
    <2>2. \A i \in 1..(p + n) : i <= p => a[i] = t[i]
      BY <1>1, <1>2
    <2>3. QED
      BY <2>1, <2>2
  <1>5. /\ v \in Seq(S) /\ Len(v) = m + n
        /\ \A i \in 1..(m + n) : v[i] = IF i <= p THEN t[i]
                                        ELSE IF i <= p + n THEN u[i - p] ELSE t[i - n]
    <2> DEFINE b == a \o u
    <2> HIDE DEF b
    <2>1. /\ b \o c \in Seq(S) /\ Len(b \o c) = Len(b) + Len(c)
          /\ \A i \in 1..(Len(b) + Len(c)) :
               (b \o c)[i] = IF i <= Len(b) THEN b[i] ELSE c[i - Len(b)]
      BY <1>3, <1>4, ConcatProperties DEF b
    <2>2. /\ v \in Seq(S) /\ Len(v) = m + n
          /\ \A i \in 1..(m + n) : v[i] = IF i <= p + n THEN b[i] ELSE c[i - (p + n)]
      <3>1. v = b \o c
        BY DEF b
      <3>2. Len(b) = p + n /\ Len(c) = m - p /\ (p + n) + (m - p) = m + n
        BY <1>1, <1>3, <1>4 DEF b
      <3> HIDE DEF v
      <3>3. QED
        BY <2>1, <3>1, <3>2
    <2>3. \A i \in 1..(m + n) : i > p + n => c[i - (p + n)] = t[i - n]
      <3>1. \A i \in 1..(m + n) : i > p + n => i - (p + n) \in 1..(m - p) /\ p + (i - (p + n)) = i - n
        BY <1>1
      <3>2. QED
        BY <1>3, <3>1
    <2> HIDE DEF v
    <2>4. QED
      <3>1. ASSUME NEW i \in 1..(m + n)
            PROVE  v[i] = IF i <= p THEN t[i] ELSE IF i <= p + n THEN u[i - p] ELSE t[i - n]
        <4>1. CASE i <= p + n
          <5>1. i \in 1..(p + n)
            BY <1>1, <4>1
          <5>2. v[i] = b[i]
            BY <2>2, <4>1
          <5>3. b[i] = IF i <= p THEN t[i] ELSE u[i - p]
            BY <1>4, <5>1 DEF b
          <5>4. QED
            BY <5>2, <5>3, <4>1
        <4>2. CASE ~(i <= p + n)
          <5>1. i > p + n /\ ~(i <= p)
            BY <1>1, <4>2
          <5>2. QED
            BY <2>2, <2>3, <4>2, <5>1
        <4>3. QED
          BY <4>1, <4>2
      <3>2. QED
        BY <2>2, <3>1
  <1> HIDE DEF v
  <1>6. /\ DOMAIN v = 1..(m + n) /\ DOMAIN t = 1..m /\ DOMAIN u = 1..n
    BY <1>5
  <1>7. ToSet(v) = ToSet(t) \cup ToSet(u)
    <2>1. ASSUME NEW i \in 1..(m + n) PROVE v[i] \in ToSet(t) \cup ToSet(u)
      <3>1. \/ i \in DOMAIN t /\ v[i] = t[i]
            \/ i - p \in DOMAIN u /\ v[i] = u[i - p]
            \/ i - n \in DOMAIN t /\ v[i] = t[i - n]
        BY <1>1, <1>5, <1>6
      <3>2. QED
        BY <3>1 DEF ToSet
    <2>2. \A i \in 1..m : \E j \in 1..(m + n) : v[j] = t[i]
      <3>1. ASSUME NEW i \in 1..m, i <= p PROVE i \in 1..(m + n) /\ v[i] = t[i]
        BY <1>1, <1>5, <3>1
      <3>2. ASSUME NEW i \in 1..m, i > p PROVE i + n \in 1..(m + n) /\ v[i + n] = t[i]
        <4>1. i + n \in 1..(m + n) /\ i + n > p + n /\ (i + n) - n = i
          BY <1>1, <3>2
        <4>2. v[i + n] = t[(i + n) - n]
          BY <1>1, <1>5, <4>1
        <4>3. QED
          BY <4>1, <4>2
      <3>3. QED
        BY <1>1, <3>1, <3>2
    <2>3. \A i \in 1..n : i + p \in 1..(m + n) /\ v[i + p] = u[i]
      <3>1. ASSUME NEW i \in 1..n
            PROVE  i + p \in 1..(m + n) /\ ~(i + p <= p) /\ i + p <= p + n /\ (i + p) - p = i
        BY <1>1
      <3>2. ASSUME NEW i \in 1..n PROVE v[i + p] = u[(i + p) - p]
        BY <3>1, <1>5
      <3>3. QED
        BY <3>1, <3>2
    <2>4. ToSet(t) \subseteq ToSet(v)
      BY <2>2, <1>6 DEF ToSet
    <2>5. ToSet(u) \subseteq ToSet(v)
      BY <2>3, <1>6 DEF ToSet
    <2>6. ToSet(v) \subseteq ToSet(t) \cup ToSet(u)
      BY <2>1, <1>6 DEF ToSet
    <2>7. QED
      BY <2>4, <2>5, <2>6
  <1>8. ASSUME IsInjective(t), IsInjective(u), ToSet(t) \cap ToSet(u) = {}
        PROVE  IsInjective(v)
    <2>1. \A i, j \in 1..m : t[i] = t[j] => i = j
      BY <1>6, <1>8 DEF IsInjective
    <2>2. \A i, j \in 1..n : u[i] = u[j] => i = j
      BY <1>6, <1>8 DEF IsInjective
    <2>3. \A i \in 1..m, j \in 1..n : t[i] # u[j]
      BY <1>6, <1>8 DEF ToSet
    <2>4. ASSUME NEW i \in 1..(m + n), NEW j \in 1..(m + n), v[i] = v[j] PROVE i = j
      <3> DEFINE Low(k) == k <= p
                 Mid(k) == k > p /\ k <= p + n
                 High(k) == k > p + n
      <3>1. \A k \in 1..(m + n) :
              \/ Low(k) /\ k \in 1..m /\ v[k] = t[k]
              \/ Mid(k) /\ k - p \in 1..n /\ v[k] = u[k - p]
              \/ High(k) /\ k - n \in 1..m /\ k - n > p /\ v[k] = t[k - n]
        BY <1>1, <1>5
      <3>2. CASE Mid(i) /\ Mid(j)
        <4>1. i - p \in 1..n /\ j - p \in 1..n /\ u[i - p] = u[j - p]
          BY <1>1, <3>1, <3>2, <2>4
        <4>2. i - p = j - p
          BY <4>1, <2>2
        <4>3. QED
          BY <4>2, <1>1
      <3>5. CASE Mid(i) /\ ~Mid(j)
        <4>1. i - p \in 1..n /\ v[i] = u[i - p] /\ \E k \in 1..m : v[j] = t[k]
          BY <1>1, <3>1, <3>5
        <4>2. QED
          BY <4>1, <2>3, <2>4
      <3>6. CASE ~Mid(i) /\ Mid(j)
        <4>1. j - p \in 1..n /\ v[j] = u[j - p] /\ \E k \in 1..m : v[i] = t[k]
          BY <1>1, <3>1, <3>6
        <4>2. QED
          BY <4>1, <2>3, <2>4
      <3>3. CASE ~Mid(i) /\ ~Mid(j)
        BY <1>1, <3>1, <3>3, <2>1, <2>4
      <3>4. QED
        BY <3>2, <3>3, <3>5, <3>6
    <2>5. QED
      BY <2>4, <1>6 DEF IsInjective
  <1>9. QED
    BY <1>5, <1>7, <1>8 DEF v, a, c

\* reconcile_order: the slots are held by exactly the windows that are ready,
\* each by one, whoever held them before and whatever has the focus.
LEMMA ReconcileOrderIs ==
  ASSUME NEW S, IsFiniteSet(S), NEW order \in Seq(S), NEW R \in SUBSET S, NEW f
  PROVE  LET new == ReconcileOrder(order, SetToSeq(R), f)
         IN  /\ new \in Seq(S)
             /\ ToSet(new) = R
             /\ IsInjective(order) => IsInjective(new)
  <1> DEFINE q == SetToSeq(R)
             kept == Selected(order, ToSet(q))
             fresh == Selected(q, ToSet(q) \ ToSet(kept))
             pos == IF f \in ToSet(kept) THEN CHOOSE i \in DOMAIN kept : kept[i] = f ELSE Len(kept)
  <1>1. IsFiniteSet(R)
    BY FS_Subset
  <1>2. q \in Seq(R) /\ ToSet(q) = R /\ IsInjective(q)
    BY <1>1, SetToSeqIs
  <1> HIDE DEF q
  <1>3. q \in Seq(S)
    BY <1>2, SeqMonotonic
  <1>4. /\ kept \in Seq(S) /\ ToSet(kept) = ToSet(order) \cap R
        /\ IsInjective(order) => IsInjective(kept)
    BY <1>2, SelectedIs
  <1> HIDE DEF kept
  <1>5. fresh \in Seq(S) /\ ToSet(fresh) = R \ ToSet(kept) /\ IsInjective(fresh)
    BY <1>2, <1>3, SelectedIs
  <1> HIDE DEF fresh
  <1>6. pos \in 0..Len(kept)
    <2>1. DOMAIN kept = 1..Len(kept) /\ Len(kept) \in Nat
      BY <1>4
    <2>2. CASE f \in ToSet(kept)
      <3>1. \E i \in DOMAIN kept : kept[i] = f
        BY <2>2 DEF ToSet
      <3>2. pos \in DOMAIN kept
        BY <2>2, <3>1
      <3>3. QED
        BY <2>1, <3>2
    <2>3. QED
      BY <2>1, <2>2
  <1> DEFINE v == SubSeq(kept, 1, pos) \o fresh \o SubSeq(kept, pos + 1, Len(kept))
  <1>7. v = ReconcileOrder(order, q, f)
    BY DEF ReconcileOrder, kept, fresh
  <1> HIDE DEF pos
  <1>8. /\ v \in Seq(S)
        /\ ToSet(v) = ToSet(kept) \cup ToSet(fresh)
        /\ IsInjective(kept) /\ IsInjective(fresh) /\ ToSet(kept) \cap ToSet(fresh) = {}
             => IsInjective(v)
    BY <1>4, <1>5, <1>6, Spliced
  <1> HIDE DEF v
  <1>9. QED
    BY <1>4, <1>5, <1>7, <1>8 DEF q

-----------------------------------------------------------------------------
(* One cut of a rectangle *)

Inside(x, y) == y.l <= x.l /\ x.r <= y.r /\ y.t <= x.t /\ x.b <= y.b

Solid(x) == x.l < x.r /\ x.t < x.b

\* A cut that is as it should be: two parts that are not empty and do not
\* overlap, of which the second keeps the right and bottom edges.
Parted(x, c) ==
  /\ c.tile \in Rect /\ c.rest \in Rect
  /\ Solid(c.tile) /\ Solid(c.rest)
  /\ Inside(c.tile, x) /\ Inside(c.rest, x)
  /\ Disjoint(c.tile, c.rest)
  /\ c.rest.r = x.r /\ c.rest.b = x.b

LEMMA ShareType ==
  ASSUME NEW n \in Int, NEW ratio \in Int
  PROVE  Share(n, ratio) \in Int
  BY DEF Share

\* A length that is shared out at an admitted ratio.
LEMMA ShareBounds ==
  ASSUME NEW n \in Nat, NEW ratio \in MinRatio..MaxRatio, NEW d \in Nat \ {0},
         n >= 10 * d
  PROVE  /\ Share(n, ratio) \in Int
         /\ Share(n, ratio) >= 1 /\ n - Share(n, ratio) >= d
  <1>1. ratio \in {1, 2, 3, 4, 5, 6, 7, 8, 9}
    BY DEF MinRatio, MaxRatio
  <1>2. QED
    BY <1>1 DEF Share

LEMMA ShareHalf ==
  ASSUME NEW n \in Nat, NEW d \in Nat \ {0}, n >= 2 * d
  PROVE  /\ Share(n, DefaultRatio) \in Int
         /\ Share(n, DefaultRatio) >= 1 /\ n - Share(n, DefaultRatio) >= d
  BY DEF Share, DefaultRatio

LEMMA CutType ==
  ASSUME NEW x \in Rect, NEW ratio \in Int, NEW inner \in Int, NEW split
  PROVE  Cut(x, ratio, inner, split).tile \in Rect /\ Cut(x, ratio, inner, split).rest \in Rect
  <1>1. /\ Share(Larger(Width(x) - inner, 0), ratio) \in Int
        /\ Share(Larger(Height(x) - inner, 0), ratio) \in Int
    <2>1. Larger(Width(x) - inner, 0) \in Int /\ Larger(Height(x) - inner, 0) \in Int
      BY DEF Rect, Width, Height, Larger
    <2>2. QED
      BY <2>1, ShareType
  <1>2. QED
    BY <1>1 DEF Cut, Rect

\* The two ways to cut a rectangle after w of its width, or h of its height.
CutBeside(x, w, inner) ==
  [tile |-> [x EXCEPT !.r = x.l + w], rest |-> [x EXCEPT !.l = x.l + w + inner]]

CutBelow(x, h, inner) ==
  [tile |-> [x EXCEPT !.b = x.t + h], rest |-> [x EXCEPT !.t = x.t + h + inner]]

LEMMA CutSide ==
  ASSUME NEW x \in Rect, NEW inner \in Nat, NEW w \in Int,
         Height(x) >= 1, w >= 1, Width(x) - inner - w >= 1
  PROVE  /\ Parted(x, CutBeside(x, w, inner))
         /\ Width(CutBeside(x, w, inner).rest) = Width(x) - inner - w
         /\ Height(CutBeside(x, w, inner).rest) = Height(x)
  BY DEF CutBeside, Parted, Rect, Solid, Inside, Disjoint, Width, Height

LEMMA CutStacked ==
  ASSUME NEW x \in Rect, NEW inner \in Nat, NEW h \in Int,
         Width(x) >= 1, h >= 1, Height(x) - inner - h >= 1
  PROVE  /\ Parted(x, CutBelow(x, h, inner))
         /\ Height(CutBelow(x, h, inner).rest) = Height(x) - inner - h
         /\ Width(CutBelow(x, h, inner).rest) = Width(x)
  BY DEF CutBelow, Parted, Rect, Solid, Inside, Disjoint, Width, Height

\* The first cut, at any ratio and in any direction, of a rectangle whose sides
\* are ten times as long as what is to remain of them.
LEMMA FirstCut ==
  ASSUME NEW x \in Rect, NEW ratio \in MinRatio..MaxRatio, NEW inner \in Nat, NEW split,
         NEW d \in Nat \ {0},
         Width(x) >= 10 * d + inner, Height(x) >= 10 * d + inner,
         NEW c, c = Cut(x, ratio, inner, split)
  PROVE  Parted(x, c) /\ Width(c.rest) >= d /\ Height(c.rest) >= d
  <1>1. ratio \in Int
    BY DEF MinRatio, MaxRatio
  <1>2. Width(x) \in Int /\ Height(x) \in Int /\ Width(x) >= 1 /\ Height(x) >= 1
    BY DEF Rect, Width, Height
  <1>3. /\ Larger(Width(x) - inner, 0) = Width(x) - inner
        /\ Larger(Height(x) - inner, 0) = Height(x) - inner
    BY <1>2 DEF Larger
  <1>4. CASE Effective(split, x) = "side"
    <2> DEFINE n == Width(x) - inner
    <2>1. n \in Nat /\ n >= 10 * d
      BY <1>2
    <2> DEFINE w == Share(n, ratio)
    <2>2. w \in Int /\ w >= 1 /\ n - w >= d /\ Width(x) - inner - w >= 1
      BY <2>1, ShareBounds
    <2>3. c = CutBeside(x, w, inner)
      BY <1>3, <1>4 DEF Cut, CutBeside
    <2>4. Width(x) - inner - w >= d /\ Width(x) - inner - w >= 1
      BY <2>2
    <2> HIDE DEF w, n
    <2>5. /\ Parted(x, c) /\ Height(c.rest) = Height(x)
          /\ Width(c.rest) = Width(x) - inner - w
      BY <1>2, <2>2, <2>3, <2>4, CutSide
    <2>6. QED
      BY <1>2, <2>4, <2>5
  <1>5. CASE Effective(split, x) # "side"
    <2> DEFINE n == Height(x) - inner
    <2>1. n \in Nat /\ n >= 10 * d
      BY <1>2
    <2> DEFINE h == Share(n, ratio)
    <2>2. h \in Int /\ h >= 1 /\ n - h >= d /\ Height(x) - inner - h >= 1
      BY <2>1, ShareBounds
    <2>3. c = CutBelow(x, h, inner)
      BY <1>3, <1>5 DEF Cut, CutBelow
    <2>4. Height(x) - inner - h >= d /\ Height(x) - inner - h >= 1
      BY <2>2
    <2> HIDE DEF h, n
    <2>5. /\ Parted(x, c) /\ Width(c.rest) = Width(x)
          /\ Height(c.rest) = Height(x) - inner - h
      BY <1>2, <2>2, <2>3, <2>4, CutStacked
    <2>6. QED
      BY <1>2, <2>4, <2>5
  <1>6. QED
    BY <1>4, <1>5

\* A later cut halves the longer side.
LEMMA LaterCut ==
  ASSUME NEW x \in Rect, NEW inner \in Nat, NEW d \in Nat \ {0}, NEW e \in Nat, e >= d,
         Width(x) >= e, Height(x) >= e,
         Width(x) >= 2 * d + inner \/ Height(x) >= 2 * d + inner,
         NEW c, c = Cut(x, DefaultRatio, inner, "auto")
  PROVE  /\ Parted(x, c) /\ Width(c.rest) >= d /\ Height(c.rest) >= d
         /\ Width(c.rest) >= e \/ Height(c.rest) >= e
  <1>1. DefaultRatio \in Int
    BY DEF DefaultRatio
  <1>2. Width(x) \in Int /\ Height(x) \in Int /\ Width(x) >= 1 /\ Height(x) >= 1
    BY DEF Rect, Width, Height
  <1>3. CASE Effective("auto", x) = "side"
    <2>1. Width(x) >= 2 * d + inner
      BY <1>2, <1>3 DEF Effective
    <2> DEFINE n == Width(x) - inner
    <2>2. n \in Nat /\ n >= 2 * d /\ Larger(n, 0) = n
      BY <1>2, <2>1 DEF Larger
    <2> DEFINE w == Share(n, DefaultRatio)
    <2>3. w \in Int /\ w >= 1 /\ n - w >= d /\ Width(x) - inner - w >= 1
      BY <2>2, ShareHalf
    <2>4. c = CutBeside(x, w, inner)
      BY <2>2, <1>3 DEF Cut, CutBeside
    <2>5. Width(x) - inner - w >= d /\ Width(x) - inner - w >= 1
      BY <2>3
    <2> HIDE DEF w, n
    <2>6. /\ Parted(x, c) /\ Height(c.rest) = Height(x)
          /\ Width(c.rest) = Width(x) - inner - w
      BY <1>2, <2>3, <2>4, <2>5, CutSide
    <2>7. QED
      BY <1>2, <2>5, <2>6
  <1>4. CASE Effective("auto", x) # "side"
    <2>1. Height(x) >= 2 * d + inner
      BY <1>2, <1>4 DEF Effective
    <2> DEFINE n == Height(x) - inner
    <2>2. n \in Nat /\ n >= 2 * d /\ Larger(n, 0) = n
      BY <1>2, <2>1 DEF Larger
    <2> DEFINE h == Share(n, DefaultRatio)
    <2>3. h \in Int /\ h >= 1 /\ n - h >= d /\ Height(x) - inner - h >= 1
      BY <2>2, ShareHalf
    <2>4. c = CutBelow(x, h, inner)
      BY <2>2, <1>4 DEF Cut, CutBelow
    <2>5. Height(x) - inner - h >= d /\ Height(x) - inner - h >= 1
      BY <2>3
    <2> HIDE DEF h, n
    <2>6. /\ Parted(x, c) /\ Width(c.rest) = Width(x)
          /\ Height(c.rest) = Height(x) - inner - h
      BY <1>2, <2>3, <2>4, <2>5, CutStacked
    <2>7. QED
      BY <1>2, <2>5, <2>6
  <1>5. QED
    BY <1>3, <1>4


-----------------------------------------------------------------------------
(* The tiles of a layout *)

CutAt(x, i, ratio, inner, split) ==
  IF i = 1 THEN Cut(x, ratio, inner, split) ELSE Cut(x, DefaultRatio, inner, "auto")

\* left are what the cuts leave of an area, one after the other.
Left(left, area, n, ratio, inner, split) ==
  left = [i \in 0..n |-> IF i = 0 THEN area
                         ELSE CutAt(left[i - 1], i, ratio, inner, split).rest]

\* xs are the tiles that these cuts yield.
Laid(left, xs, area, n, ratio, inner, split) ==
  /\ left[0] = area
  /\ \A i \in 1..n : left[i] = CutAt(left[i - 1], i, ratio, inner, split).rest
  /\ xs = [i \in 1..n |-> IF i = n THEN left[n - 1]
                          ELSE CutAt(left[i - 1], i, ratio, inner, split).tile]

\* Dwindle, told by what each cut leaves to the next one.
LEMMA DwindleIs ==
  ASSUME NEW area \in Rect, NEW n \in Nat, NEW ratio \in Int, NEW inner \in Int, NEW split
  PROVE  \E left \in [0..n -> Rect] :
           Laid(left, Dwindle(area, n, ratio, inner, split), area, n, ratio, inner, split)
  <1> DEFINE next == [p \in (1..n) \X Rect |-> CutAt(p[2], p[1], ratio, inner, split).rest]
             good(f) == Left(f, area, n, ratio, inner, split)
             left == CHOOSE f : good(f)
  <1>1. DefaultRatio \in Int
    BY DEF DefaultRatio
  <1>2. \A i \in 1..n, x \in Rect : CutAt(x, i, ratio, inner, split).rest \in Rect
    BY <1>1, CutType DEF CutAt
  <1>3. next \in [(1..n) \X Rect -> Rect]
    BY <1>2
  <1>4. \A i \in 1..n, x \in Rect : next[<<i, x>>] = CutAt(x, i, ratio, inner, split).rest
    OBVIOUS
  <1> HIDE DEF next
  <1>5. PICK f \in [0..n -> Rect] : Follows(f, area, n, next)
    BY <1>3, Recursion
  <1>6. /\ f[0] = area
        /\ \A i \in 1..n : f[i] = CutAt(f[i - 1], i, ratio, inner, split).rest
    <2>1. \A i \in 1..n : f[i - 1] \in Rect
      OBVIOUS
    <2>2. QED
      BY <2>1, <1>4, <1>5 DEF Follows
  <1>7. good(f)
    <2>1. \A i \in 0..n : i = 0 \/ i \in 1..n
      OBVIOUS
    <2>2. QED
      BY <1>6, <2>1 DEF Left
  <1>8. good(left)
    BY <1>7
  <1>9. Dwindle(area, n, ratio, inner, split) =
                [i \in 1..n |-> IF i = n THEN left[n - 1]
                                ELSE CutAt(left[i - 1], i, ratio, inner, split).tile]
    BY DEF Dwindle, Left, CutAt
  <1> HIDE DEF left
  <1>10. /\ left[0] = area
         /\ \A i \in 1..n : left[i] = CutAt(left[i - 1], i, ratio, inner, split).rest
         /\ DOMAIN left = 0..n
    <2>1. \A i \in 0..n : left[i] = IF i = 0 THEN area
                                    ELSE CutAt(left[i - 1], i, ratio, inner, split).rest
      BY <1>8 DEF Left
    <2>2. 0 \in 0..n /\ \A i \in 1..n : i \in 0..n /\ i # 0
      OBVIOUS
    <2>3. DOMAIN left = 0..n
      BY <1>8 DEF Left
    <2>4. QED
      BY <2>1, <2>2, <2>3
  <1>11. left \in [0..n -> Rect]
    <2> DEFINE Bad == {i \in 0..n : left[i] \notin Rect}
    <2>1. ASSUME NEW j \in Bad PROVE FALSE
      <3>1. j \in Nat
        OBVIOUS
      <3> HIDE DEF Bad
      <3>2. PICK k \in Nat : k \in Bad /\ \A i \in Nat : i < k => i \notin Bad
        BY <3>1, LeastNatural
      <3>3. k \in 1..n /\ left[k - 1] \in Rect
        BY <3>2, <1>10 DEF Bad
      <3>4. QED
        BY <3>2, <3>3, <1>2, <1>10 DEF Bad
    <2>2. \A i \in 0..n : left[i] \in Rect
      BY <2>1
    <2>3. left = [i \in 0..n |-> left[i]]
      BY <1>8 DEF Left
    <2>4. QED
      BY <2>2, <2>3
  <1>12. QED
    BY <1>9, <1>10, <1>11 DEF Laid

LEMMA DwindleType ==
  ASSUME NEW area \in Rect, NEW n \in Nat, NEW ratio \in Int, NEW inner \in Int, NEW split
  PROVE  Dwindle(area, n, ratio, inner, split) \in [1..n -> Rect]
  <1>1. PICK left \in [0..n -> Rect] :
           Laid(left, Dwindle(area, n, ratio, inner, split), area, n, ratio, inner, split)
    BY DwindleIs
  <1>2. DefaultRatio \in Int
    BY DEF DefaultRatio
  <1>3. \A i \in 1..n : left[i - 1] \in Rect
    OBVIOUS
  <1>4. \A i \in 1..n : CutAt(left[i - 1], i, ratio, inner, split).tile \in Rect
    BY <1>2, <1>3, CutType DEF CutAt
  <1>5. QED
    BY <1>1, <1>3, <1>4 DEF Laid

LEMMA InsideInside ==
  ASSUME NEW x \in Rect, NEW y \in Rect, NEW z \in Rect, Inside(x, y), Inside(y, z)
  PROVE  Inside(x, z)
  BY DEF Rect, Inside

\* What lies in the part of an area that a rectangle does not touch, it does
\* not touch either.
LEMMA InsideDisjoint ==
  ASSUME NEW x \in Rect, NEW y \in Rect, NEW z \in Rect, Inside(x, y), Disjoint(z, y)
  PROVE  Disjoint(z, x) /\ Disjoint(x, z)
  BY DEF Rect, Inside, Disjoint

\* The tiles xs of an area.
Partition(area, xs) ==
  /\ \A k \in DOMAIN xs : Inside(xs[k], area) /\ Solid(xs[k])
  /\ \A j, k \in DOMAIN xs : j # k => Disjoint(xs[j], xs[k])
  /\ xs # <<>> => xs[Len(xs)].r = area.r /\ xs[Len(xs)].b = area.b

\* If every cut is as it should be, so is the layout.
LEMMA CutsTile ==
  ASSUME NEW area \in Rect, Solid(area), NEW n \in Nat, NEW left \in [0..n -> Rect],
         NEW ratio, NEW inner, NEW split, NEW xs,
         Laid(left, xs, area, n, ratio, inner, split),
         \A i \in 1..(n - 1) : Parted(left[i - 1], CutAt(left[i - 1], i, ratio, inner, split))
  PROVE  Partition(area, xs)
  <1> DEFINE c(i) == CutAt(left[i - 1], i, ratio, inner, split)
             Bad(i) == {j \in i..(n - 1) : ~Inside(left[j], left[i])}
             Edge == {j \in 0..(n - 1) : ~(/\ Solid(left[j])
                                           /\ left[j].r = area.r /\ left[j].b = area.b)}
  <1>0. /\ left[0] = area
        /\ \A i \in 1..n : left[i] = CutAt(left[i - 1], i, ratio, inner, split).rest
        /\ xs = [i \in 1..n |-> IF i = n THEN left[n - 1]
                                ELSE CutAt(left[i - 1], i, ratio, inner, split).tile]
    BY DEF Laid
  <1>1. ASSUME NEW i \in 1..(n - 1)
        PROVE  /\ i \in 1..n /\ i \in 0..n /\ i - 1 \in 0..n
               /\ left[i - 1] \in Rect /\ left[i] = c(i).rest
               /\ Parted(left[i - 1], c(i))
    BY <1>0
  <1>2. \A i \in 1..(n - 1) :
          /\ c(i).tile \in Rect /\ left[i] \in Rect
          /\ Solid(c(i).tile) /\ Solid(left[i])
          /\ Inside(c(i).tile, left[i - 1]) /\ Inside(left[i], left[i - 1])
          /\ Disjoint(c(i).tile, left[i])
          /\ left[i].r = left[i - 1].r /\ left[i].b = left[i - 1].b
    BY <1>1 DEF Parted
  <1> HIDE DEF c
  <1>3. ASSUME NEW i \in 0..(n - 1), NEW j \in i..(n - 1)
        PROVE  Inside(left[j], left[i])
    <2>1. ASSUME j \in Bad(i) PROVE FALSE
      <3>1. j \in Nat
        OBVIOUS
      <3> HIDE DEF Bad
      <3>2. PICK k \in Nat : k \in Bad(i) /\ \A h \in Nat : h < k => h \notin Bad(i)
        BY <2>1, <3>1, LeastNatural
      <3>3. k \in i..(n - 1) /\ ~Inside(left[k], left[i])
        BY <3>2 DEF Bad
      <3>4. k # i
        BY <3>3 DEF Inside, Rect
      <3>5. k \in 1..(n - 1) /\ k - 1 \in i..(n - 1) /\ k - 1 \in Nat /\ k - 1 < k
            /\ k - 1 \in 0..n /\ i \in 0..n
        BY <3>3, <3>4
      <3>6. Inside(left[k - 1], left[i])
        BY <3>2, <3>5 DEF Bad
      <3>7. Inside(left[k], left[k - 1]) /\ left[k] \in Rect /\ left[k - 1] \in Rect /\ left[i] \in Rect
        BY <1>2, <3>5
      <3>8. QED
        BY <3>3, <3>6, <3>7, InsideInside
    <2>2. QED
      BY <2>1
  <1>4. ASSUME NEW j \in 0..(n - 1)
        PROVE  Solid(left[j]) /\ left[j].r = area.r /\ left[j].b = area.b
    <2>1. ASSUME j \in Edge PROVE FALSE
      <3>1. j \in Nat
        OBVIOUS
      <3> HIDE DEF Edge
      <3>2. PICK k \in Nat : k \in Edge /\ \A h \in Nat : h < k => h \notin Edge
        BY <2>1, <3>1, LeastNatural
      <3>3. k # 0
        BY <3>2, <1>0 DEF Edge
      <3>4. k \in 1..(n - 1) /\ k - 1 \in 0..(n - 1) /\ k - 1 \in Nat /\ k - 1 < k
        BY <3>2, <3>3 DEF Edge
      <3>5. left[k - 1].r = area.r /\ left[k - 1].b = area.b
        BY <3>2, <3>4 DEF Edge
      <3>6. QED
        BY <3>2, <3>4, <3>5, <1>2 DEF Edge
    <2>2. QED
      BY <2>1
  <1>5. DOMAIN xs = 1..n
    BY <1>0
  <1>6. ASSUME NEW k \in 1..n
        PROVE  xs[k] \in Rect /\ Inside(xs[k], left[k - 1]) /\ Solid(xs[k])
    <2>1. k - 1 \in 0..(n - 1) /\ k - 1 \in 0..n
      OBVIOUS
    <2>2. CASE k = n
      <3>1. xs[k] = left[n - 1]
        BY <2>2, <1>0
      <3>2. QED
        BY <3>1, <2>1, <2>2, <1>4 DEF Inside, Rect
    <2>3. CASE k # n
      <3>1. xs[k] = c(k).tile /\ k \in 1..(n - 1)
        BY <2>3, <1>0 DEF c
      <3>2. QED
        BY <3>1, <1>2
    <2>4. QED
      BY <2>2, <2>3
  <1>7. ASSUME NEW k \in 1..n PROVE Inside(xs[k], area) /\ Solid(xs[k])
    <2>1. k - 1 \in 0..(n - 1) /\ 0 \in 0..(n - 1) /\ k - 1 \in 0..n
      OBVIOUS
    <2>2. Inside(left[k - 1], left[0])
      BY <2>1, <1>3
    <2>3. QED
      BY <2>1, <2>2, <1>0, <1>6, InsideInside
  <1>8. ASSUME NEW j \in 1..n, NEW k \in 1..n, j < k
        PROVE  Disjoint(xs[j], xs[k]) /\ Disjoint(xs[k], xs[j])
    <2>1. j \in 1..(n - 1) /\ k - 1 \in j..(n - 1) /\ j \in 0..(n - 1) /\ k - 1 \in 0..n
      BY <1>8
    <2>2. xs[j] = c(j).tile
      BY <2>1, <1>0 DEF c
    <2>3. Inside(left[k - 1], left[j])
      BY <2>1, <1>3
    <2>4. left[k - 1] \in Rect /\ left[j] \in Rect
      BY <2>1, <1>2
    <2>5. Inside(xs[k], left[j])
      BY <2>3, <2>4, <1>6, InsideInside
    <2>6. Disjoint(xs[j], left[j])
      BY <2>1, <2>2, <1>2
    <2>7. QED
      BY <2>4, <2>5, <2>6, <1>6, InsideDisjoint
  <1>9. ASSUME xs # <<>> PROVE xs[Len(xs)].r = area.r /\ xs[Len(xs)].b = area.b
    <2>1. xs \in Seq(Rect) /\ Len(xs) = n
      BY <1>0, <1>6
    <2>2. n # 0
      BY <1>9, <2>1
    <2>3. xs[n] = left[n - 1] /\ n - 1 \in 0..(n - 1)
      BY <2>2, <1>0
    <2>4. QED
      BY <2>1, <2>3, <1>4
  <1>10. \A j, k \in 1..n : j # k => j < k \/ k < j
    OBVIOUS
  <1>11. QED
    BY <1>5, <1>7, <1>8, <1>9, <1>10 DEF Partition

-----------------------------------------------------------------------------
(* The room that tiles need *)

\* The sides of Room, up to n.
Doubled(f, gap, n) == f = [i \in 0..n |-> IF i = 0 THEN 1 ELSE 2 * f[i - 1] + gap]

LEMMA DoubledIs ==
  ASSUME NEW gap \in Nat, NEW n \in Nat
  PROVE  \E f \in [0..n -> Nat] :
           /\ f[0] = 1 /\ \A i \in 1..n : f[i] = 2 * f[i - 1] + gap
           /\ Room(gap, n) = f[n]
  <1> DEFINE next == [p \in (1..n) \X Nat |-> 2 * p[2] + gap]
             left == CHOOSE f : Doubled(f, gap, n)
  <1>1. next \in [(1..n) \X Nat -> Nat]
    OBVIOUS
  <1>2. \A i \in 1..n, x \in Nat : next[<<i, x>>] = 2 * x + gap
    OBVIOUS
  <1> HIDE DEF next
  <1>3. PICK f \in [0..n -> Nat] : Follows(f, 1, n, next)
    BY <1>1, Recursion
  <1>4. f[0] = 1 /\ \A i \in 1..n : f[i] = 2 * f[i - 1] + gap
    <2>1. \A i \in 1..n : f[i - 1] \in Nat
      OBVIOUS
    <2>2. QED
      BY <2>1, <1>2, <1>3 DEF Follows
  <1>5. Doubled(f, gap, n)
    <2>1. \A i \in 0..n : i = 0 \/ i \in 1..n
      OBVIOUS
    <2>2. \A i \in 0..n : f[i] = IF i = 0 THEN 1 ELSE 2 * f[i - 1] + gap
      BY <1>4, <2>1
    <2>3. QED
      BY <2>2 DEF Doubled
  <1>6. Doubled(left, gap, n)
    BY <1>5
  <1>7. Room(gap, n) = left[n]
    BY DEF Room, Doubled
  <1> HIDE DEF left
  <1>8. /\ left[0] = 1 /\ \A i \in 1..n : left[i] = 2 * left[i - 1] + gap
    <2>1. \A i \in 0..n : left[i] = IF i = 0 THEN 1 ELSE 2 * left[i - 1] + gap
      BY <1>6 DEF Doubled
    <2>2. 0 \in 0..n /\ \A i \in 1..n : i \in 0..n /\ i # 0
      OBVIOUS
    <2>3. QED
      BY <2>1, <2>2
  <1>9. ASSUME NEW j \in 0..n PROVE left[j] \in Nat
    <2> DEFINE Bad == {i \in 0..n : left[i] \notin Nat}
    <2>1. ASSUME j \in Bad PROVE FALSE
      <3>1. j \in Nat
        OBVIOUS
      <3> HIDE DEF Bad
      <3>2. PICK k \in Nat : k \in Bad /\ \A i \in Nat : i < k => i \notin Bad
        BY <2>1, <3>1, LeastNatural
      <3>3. k \in 1..n /\ left[k - 1] \in Nat
        BY <3>2, <1>8 DEF Bad
      <3>4. left[k] = 2 * left[k - 1] + gap
        BY <3>3, <1>8
      <3>5. QED
        BY <3>2, <3>3, <3>4 DEF Bad
    <2>2. QED
      BY <2>1
  <1>10. left \in [0..n -> Nat]
    <2>1. left = [i \in 0..n |-> left[i]]
      BY <1>6 DEF Doubled
    <2>2. QED
      BY <2>1, <1>9
  <1>11. QED
    BY <1>7, <1>8, <1>10

Doubles(f, gap, n) == f[0] = 1 /\ \A i \in 1..n : f[i] = 2 * f[i - 1] + gap

\* Two recursions from the same value agree as far as both go.
LEMMA DoubledOnce ==
  ASSUME NEW gap \in Nat, NEW n \in Nat, NEW f, NEW g,
         Doubles(f, gap, n), Doubles(g, gap, n), NEW j \in 0..n
  PROVE  f[j] = g[j]
  <1> DEFINE Bad == {i \in 0..n : f[i] # g[i]}
  <1>1. ASSUME j \in Bad PROVE FALSE
    <2>1. j \in Nat
      OBVIOUS
    <2> HIDE DEF Bad
    <2>2. PICK k \in Nat : k \in Bad /\ \A i \in Nat : i < k => i \notin Bad
      BY <1>1, <2>1, LeastNatural
    <2>3. k \in 1..n /\ f[k - 1] = g[k - 1]
      BY <2>2 DEF Bad, Doubles
    <2>4. QED
      BY <2>2, <2>3 DEF Bad, Doubles
  <1>2. QED
    BY <1>1

LEMMA RoomIs ==
  ASSUME NEW gap \in Nat, NEW n \in Nat
  PROVE  /\ Room(gap, n) \in Nat \ {0} /\ Room(gap, 0) = 1
         /\ Room(gap, n + 1) = 2 * Room(gap, n) + gap
  <1>1. ASSUME NEW k \in Nat
        PROVE  Room(gap, k) \in Nat /\ (k = 0 => Room(gap, k) = 1)
    <2>1. PICK f \in [0..k -> Nat] : f[0] = 1 /\ Room(gap, k) = f[k]
      BY DoubledIs
    <2>2. k \in 0..k
      OBVIOUS
    <2>3. QED
      BY <2>1, <2>2
  <1>2. PICK f \in [0..n -> Nat] :
           /\ f[0] = 1 /\ \A i \in 1..n : f[i] = 2 * f[i - 1] + gap
           /\ Room(gap, n) = f[n]
    BY DoubledIs
  <1>3. n + 1 \in Nat
    OBVIOUS
  <1>4. PICK g \in [0..(n + 1) -> Nat] :
           /\ g[0] = 1 /\ \A i \in 1..(n + 1) : g[i] = 2 * g[i - 1] + gap
           /\ Room(gap, n + 1) = g[n + 1]
    BY <1>3, DoubledIs
  <1>5. \A i \in 1..n : i \in 1..(n + 1)
    OBVIOUS
  <1>6. f[n] = g[n]
    <2>1. Doubles(f, gap, n) /\ Doubles(g, gap, n)
      BY <1>2, <1>4, <1>5 DEF Doubles
    <2>2. n \in 0..n
      OBVIOUS
    <2>3. QED
      BY <2>1, <2>2, DoubledOnce
  <1>7. Room(gap, n + 1) = 2 * Room(gap, n) + gap
    <2>1. n + 1 \in 1..(n + 1) /\ (n + 1) - 1 = n
      OBVIOUS
    <2>2. QED
      BY <1>2, <1>4, <1>6, <2>1
  <1>8. Room(gap, n) # 0
    <2>1. CASE n = 0
      BY <2>1, <1>1
    <2>2. CASE n # 0
      <3>1. PICK k \in Nat : n = k + 1
        <4>1. n - 1 \in Nat /\ n = (n - 1) + 1
          BY <2>2
        <4>2. QED
          BY <4>1
      <3>2. f[n] = 2 * f[k] + gap /\ n \in 1..n /\ f[k] \in Nat
        <4>1. n \in 1..n /\ n - 1 = k /\ k \in 0..n
          BY <3>1
        <4>2. QED
          BY <1>2, <4>1
      <3>3. f[k] # 0
        <4>1. ASSUME f[k] = 0 PROVE FALSE
          <5> DEFINE Zero == {i \in 0..n : f[i] = 0}
          <5>1. k \in Zero
            BY <3>1, <4>1
          <5> HIDE DEF Zero
          <5>2. PICK h \in Nat : h \in Zero /\ \A i \in Nat : i < h => i \notin Zero
            BY <5>1, LeastNatural
          <5>3. h \in 1..n /\ f[h - 1] # 0
            BY <5>2, <1>2 DEF Zero
          <5>4. f[h] = 2 * f[h - 1] + gap /\ f[h - 1] \in Nat
            BY <5>3, <1>2
          <5>5. QED
            BY <5>2, <5>3, <5>4 DEF Zero
        <4>2. QED
          BY <4>1
      <3>4. f[n] # 0
        BY <3>2, <3>3
      <3>5. QED
        BY <1>2, <3>4
    <2>3. QED
      BY <2>1, <2>2
  <1>9. QED
    BY <1>1, <1>7, <1>8

LEMMA RoomGrows ==
  ASSUME NEW gap \in Nat, NEW n \in Nat, NEW k \in 0..n
  PROVE  Room(gap, k) <= Room(gap, n)
  <1> DEFINE Bad == {i \in k..n : ~(Room(gap, k) <= Room(gap, i))}
  <1>1. ASSUME n \in Bad PROVE FALSE
    <2> HIDE DEF Bad
    <2>1. PICK h \in Nat : h \in Bad /\ \A i \in Nat : i < h => i \notin Bad
      BY <1>1, LeastNatural
    <2>2. h \in k..n /\ ~(Room(gap, k) <= Room(gap, h)) /\ k \in Nat
      BY <2>1 DEF Bad
    <2>3. Room(gap, k) \in Nat /\ Room(gap, h) \in Nat
      BY <2>2, RoomIs
    <2>4. h # k
      BY <2>2, <2>3
    <2>5. PICK i \in Nat : h = i + 1
      <3>1. h - 1 \in Nat /\ h = (h - 1) + 1
        BY <2>2, <2>4
      <3>2. QED
        BY <3>1
    <2>6. i \in k..n /\ i < h
      BY <2>2, <2>4, <2>5
    <2>7. Room(gap, k) <= Room(gap, i)
      BY <2>1, <2>6 DEF Bad
    <2>8. Room(gap, i) \in Nat /\ Room(gap, h) = 2 * Room(gap, i) + gap
      BY <2>5, RoomIs
    <2>9. QED
      BY <2>2, <2>3, <2>7, <2>8
  <1>2. QED
    BY <1>1

-----------------------------------------------------------------------------
(* Enough room for every cut *)

\* x can be cut k more times, the longer side being halved.
Fits(x, k, gap) ==
  /\ Width(x) >= Room(gap, k \div 2) /\ Height(x) >= Room(gap, k \div 2)
  /\ Width(x) >= Room(gap, (k + 1) \div 2) \/ Height(x) >= Room(gap, (k + 1) \div 2)

LEMMA SolidIs ==
  ASSUME NEW x \in Rect, Width(x) >= 1, Height(x) >= 1
  PROVE  Solid(x)
  BY DEF Solid, Rect, Width, Height

LEMMA FitsAfterFirst ==
  ASSUME NEW x \in Rect, NEW gap \in Nat, NEW n \in Nat, n >= 2,
         Width(x) >= 10 * Room(gap, (n - 1) \div 2) + gap,
         Height(x) >= 10 * Room(gap, (n - 1) \div 2) + gap,
         NEW ratio \in MinRatio..MaxRatio, NEW split, NEW c, c = Cut(x, ratio, gap, split)
  PROVE  Parted(x, c) /\ Fits(c.rest, n - 2, gap)
  <1> DEFINE h == (n - 1) \div 2
             d == Room(gap, h)
  <1>1. h \in Nat /\ ((n - 2) + 1) \div 2 = h /\ (n - 2) \div 2 \in 0..h
    OBVIOUS
  <1> HIDE DEF h
  <1>2. d \in Nat \ {0}
    BY <1>1, RoomIs
  <1>3. Width(x) >= 10 * d + gap /\ Height(x) >= 10 * d + gap
    BY DEF h
  <1>4. Room(gap, (n - 2) \div 2) <= d
    BY <1>1, RoomGrows
  <1>5. Room(gap, (n - 2) \div 2) \in Nat
    <2>1. (n - 2) \div 2 \in Nat
      BY <1>1
    <2>2. QED
      BY <2>1, RoomIs
  <1> HIDE DEF d
  <1>6. Parted(x, c) /\ Width(c.rest) >= d /\ Height(c.rest) >= d
    BY <1>2, <1>3, FirstCut
  <1>7. Width(c.rest) \in Int /\ Height(c.rest) \in Int
    BY <1>6 DEF Parted, Rect, Width, Height
  <1>8. Room(gap, ((n - 2) + 1) \div 2) = d
    BY <1>1 DEF d
  <1>9. QED
    BY <1>2, <1>4, <1>5, <1>6, <1>7, <1>8 DEF Fits

LEMMA FitsAfterLater ==
  ASSUME NEW x \in Rect, NEW gap \in Nat, NEW k \in Nat, Fits(x, k + 1, gap),
         NEW c, c = Cut(x, DefaultRatio, gap, "auto")
  PROVE  Parted(x, c) /\ Fits(c.rest, k, gap)
  <1> DEFINE g == k \div 2
             h == (k + 1) \div 2
             d == Room(gap, g)
             e == Room(gap, h)
  <1>1. g \in Nat /\ h \in Nat /\ g \in 0..h /\ ((k + 1) + 1) \div 2 = g + 1
    OBVIOUS
  <1> HIDE DEF g, h
  <1>2. d \in Nat \ {0} /\ e \in Nat \ {0} /\ Room(gap, g + 1) = 2 * d + gap
    BY <1>1, RoomIs
  <1>3. e >= d
    BY <1>1, <1>2, RoomGrows
  <1>4. Room(gap, ((k + 1) + 1) \div 2) = 2 * d + gap
    BY <1>1, <1>2
  <1> HIDE DEF d
  <1>5. /\ Width(x) >= e /\ Height(x) >= e
        /\ Width(x) >= 2 * d + gap \/ Height(x) >= 2 * d + gap
    BY <1>4 DEF Fits, h
  <1> HIDE DEF e
  <1>6. /\ Parted(x, c) /\ Width(c.rest) >= d /\ Height(c.rest) >= d
        /\ Width(c.rest) >= e \/ Height(c.rest) >= e
    <2>1. e \in Nat
      BY <1>2
    <2>2. QED
      BY <2>1, <1>2, <1>3, <1>5, LaterCut
  <1>7. QED
    BY <1>6 DEF Fits, d, e, g, h

\* With room for n tiles, the layout of n tiles partitions the area.
LEMMA DwindlePartitions ==
  ASSUME NEW area \in Rect, NEW gap \in Nat, NEW n \in Nat, n >= 1,
         Width(area) >= 10 * Room(gap, (n - 1) \div 2) + gap,
         Height(area) >= 10 * Room(gap, (n - 1) \div 2) + gap,
         NEW ratio \in MinRatio..MaxRatio, NEW split
  PROVE  Partition(area, Dwindle(area, n, ratio, gap, split))
  <1> DEFINE xs == Dwindle(area, n, ratio, gap, split)
  <1>0. ratio \in Int /\ DefaultRatio \in Int /\ gap \in Int
    BY DEF MinRatio, MaxRatio, DefaultRatio
  <1>1. PICK left \in [0..n -> Rect] : Laid(left, xs, area, n, ratio, gap, split)
    BY <1>0, DwindleIs
  <1> DEFINE c(i) == CutAt(left[i - 1], i, ratio, gap, split)
             Good(i) == Parted(left[i - 1], c(i)) /\ Fits(left[i], (n - 1) - i, gap)
             Bad == {i \in 1..(n - 1) : ~Good(i)}
  <1>2. left[0] = area /\ \A i \in 1..n : left[i] = c(i).rest /\ left[i - 1] \in Rect
    BY <1>1 DEF Laid
  <1> HIDE DEF xs
  <1>3. Solid(area)
    <2>1. (n - 1) \div 2 \in Nat
      OBVIOUS
    <2>2. Room(gap, (n - 1) \div 2) \in Nat \ {0}
      BY <2>1, RoomIs
    <2> DEFINE r == Room(gap, (n - 1) \div 2)
    <2>3. r \in Nat \ {0} /\ Width(area) >= 10 * r + gap /\ Height(area) >= 10 * r + gap
      BY <2>2
    <2> HIDE DEF r
    <2>4. Width(area) >= 1 /\ Height(area) >= 1
      <3>1. Width(area) \in Int /\ Height(area) \in Int
        BY DEF Rect, Width, Height
      <3>2. 10 * r + gap >= 1 /\ 10 * r + gap \in Int
        BY <2>3
      <3>3. QED
        BY <2>3, <3>1, <3>2
    <2>5. QED
      BY <2>4, SolidIs
  <1>4. ASSUME n >= 2 PROVE Good(1)
    <2>1. c(1) = Cut(area, ratio, gap, split) /\ left[1] = c(1).rest
      BY <1>2 DEF CutAt
    <2>2. Parted(area, c(1)) /\ Fits(c(1).rest, n - 2, gap)
      BY <1>4, <2>1, FitsAfterFirst
    <2>3. (n - 1) - 1 = n - 2
      OBVIOUS
    <2> HIDE DEF c
    <2>4. QED
      BY <2>1, <2>2, <2>3, <1>2
  <1>5. ASSUME NEW i \in 2..(n - 1), Good(i - 1) PROVE Good(i)
    <2>1. c(i) = Cut(left[i - 1], DefaultRatio, gap, "auto") /\ left[i] = c(i).rest
          /\ left[i - 1] \in Rect
      BY <1>2 DEF CutAt
    <2>2. (n - 1) - i \in Nat /\ (n - 1) - (i - 1) = ((n - 1) - i) + 1
      OBVIOUS
    <2>3. Fits(left[i - 1], ((n - 1) - i) + 1, gap)
      BY <1>5, <2>2
    <2> HIDE DEF c
    <2>4. Parted(left[i - 1], c(i)) /\ Fits(c(i).rest, (n - 1) - i, gap)
      BY <2>1, <2>2, <2>3, FitsAfterLater
    <2>5. QED
      BY <2>1, <2>4
  <1>6. ASSUME NEW i \in 1..(n - 1) PROVE Good(i)
    <2>1. ASSUME i \in Bad PROVE FALSE
      <3>1. i \in Nat
        OBVIOUS
      <3> HIDE DEF Bad
      <3>2. PICK k \in Nat : k \in Bad /\ \A h \in Nat : h < k => h \notin Bad
        BY <2>1, <3>1, LeastNatural
      <3>3. k \in 1..(n - 1) /\ ~Good(k)
        BY <3>2 DEF Bad
      <3>4. k # 1
        BY <3>3, <1>4
      <3>5. k \in 2..(n - 1) /\ k - 1 \in 1..(n - 1) /\ k - 1 \in Nat /\ k - 1 < k
        BY <3>3, <3>4
      <3>6. Good(k - 1)
        BY <3>2, <3>5 DEF Bad
      <3>7. QED
        BY <3>3, <3>5, <3>6, <1>5
    <2>2. QED
      BY <2>1
  <1>7. \A i \in 1..(n - 1) : Parted(left[i - 1], CutAt(left[i - 1], i, ratio, gap, split))
    BY <1>6
  <1> HIDE DEF Good, c
  <1>8. Partition(area, xs)
    BY <1>1, <1>3, <1>7, CutsTile
  <1>9. QED
    BY <1>8 DEF xs

-----------------------------------------------------------------------------
(* Areas *)

LEMMA ScaledType ==
  ASSUME NEW gap \in Nat, NEW dpi \in Nat
  PROVE  Scaled(gap, dpi) \in Nat
  <1>1. gap * dpi \in Nat
    OBVIOUS
  <1> DEFINE p == gap * dpi
  <1> HIDE DEF p
  <1>2. p \in Nat => (p + 48) \div 96 \in Nat
    OBVIOUS
  <1>3. QED
    BY <1>1, <1>2 DEF Scaled, p

LEMMA AreaType ==
  ASSUME NEW m \in Monitors
  PROVE  Area(m) \in Rect /\ Scaled(InnerGap, Dpi[m]) \in Nat
  <1>1. Work[m] \in Rect /\ Dpi[m] \in Nat /\ InnerGap \in Nat /\ OuterGap \in Nat
    BY TilingAssumption DEF Monitors
  <1>2. Scaled(InnerGap, Dpi[m]) \in Nat /\ Scaled(OuterGap, Dpi[m]) \in Nat
    BY <1>1, ScaledType
  <1> DEFINE g == Scaled(OuterGap, Dpi[m])
  <1> HIDE DEF g
  <1>3. g \in Nat => Inset(Work[m], g) \in Rect
    BY <1>1 DEF Inset, Rect, Larger
  <1>4. QED
    BY <1>2, <1>3 DEF Area, g

\* The tiles of a TileSpace are rectangles, as many as it has slots.
LEMMA RectsType ==
  ASSUME NEW m \in Monitors, NEW t, t.order \in Seq(Windows), t.ratio \in MinRatio..MaxRatio
  PROVE  Rects(m, t) \in [1..Len(t.order) -> Rect]
  <1>1. t.ratio \in Int /\ Len(t.order) \in Nat
    BY DEF MinRatio, MaxRatio
  <1>2. Area(m) \in Rect /\ Scaled(InnerGap, Dpi[m]) \in Int
    BY AreaType
  <1>3. QED
    BY <1>1, <1>2, DwindleType DEF Rects

\* A display with room for n tiles has room for fewer.
LEMMA RoomForFewer ==
  ASSUME NEW m \in Monitors, NEW n \in Nat, HasRoom(m, n), NEW k \in 1..n
  PROVE  LET gap == Scaled(InnerGap, Dpi[m])
         IN  /\ Width(Area(m)) >= 10 * Room(gap, (k - 1) \div 2) + gap
             /\ Height(Area(m)) >= 10 * Room(gap, (k - 1) \div 2) + gap
  <1> DEFINE gap == Scaled(InnerGap, Dpi[m])
             i == (k - 1) \div 2
             j == (n - 1) \div 2
  <1>1. i \in 0..j /\ i \in Nat /\ j \in Nat /\ n >= 1
    OBVIOUS
  <1>2. gap \in Nat /\ Area(m) \in Rect
    BY AreaType
  <1>3. Width(Area(m)) >= 10 * Room(gap, j) + gap /\ Height(Area(m)) >= 10 * Room(gap, j) + gap
    BY <1>1 DEF HasRoom
  <1> HIDE DEF i, j, gap
  <1>4. Room(gap, i) <= Room(gap, j)
    BY <1>1, <1>2, RoomGrows
  <1>5. Room(gap, i) \in Nat /\ Room(gap, j) \in Nat
    BY <1>1, <1>2, RoomIs
  <1>6. Width(Area(m)) \in Int /\ Height(Area(m)) \in Int
    BY <1>2 DEF Rect, Width, Height
  <1>7. Width(Area(m)) >= 10 * Room(gap, i) + gap /\ Height(Area(m)) >= 10 * Room(gap, i) + gap
    BY <1>2, <1>3, <1>4, <1>5, <1>6
  <1>8. QED
    BY <1>7 DEF i, gap

\* A sequence of windows without repetitions is no longer than there are windows.
LEMMA OrderFits ==
  ASSUME NEW q \in Seq(Windows), IsInjective(q)
  PROVE  Len(q) \in 0..Cardinality(Windows) /\ Cardinality(Windows) \in Nat
  <1>1. IsFiniteSet(Windows)
    BY TilingAssumption
  <1>2. Cardinality(Windows) \in Nat
    BY <1>1, FS_CardinalityType
  <1>3. Len(q) \in Nat /\ q \in [1..Len(q) -> Windows]
    OBVIOUS
  <1> DEFINE n == Len(q)
  <1>4. IsFiniteSet(1..n) /\ Cardinality(1..n) = n
    BY <1>3, FS_Interval
  <1>5. q \in Injection(1..n, Windows)
    BY <1>3 DEF Injection, IsInjective
  <1>6. Cardinality(1..n) <= Cardinality(Windows)
    BY <1>1, <1>4, <1>5, FS_Injection
  <1>7. QED
    BY <1>2, <1>3, <1>4, <1>6

\* The layout of a TileSpace of a display with room for every window.
LEMMA RectsPartition ==
  ASSUME Roomy, NEW m \in Monitors, NEW t, t.order \in Seq(Windows), IsInjective(t.order),
         t.ratio \in MinRatio..MaxRatio
  PROVE  Partition(Area(m), Rects(m, t))
  <1> DEFINE n == Len(t.order)
             gap == Scaled(InnerGap, Dpi[m])
  <1>1. n \in 0..Cardinality(Windows) /\ Cardinality(Windows) \in Nat /\ n \in Nat
    BY OrderFits
  <1>2. Area(m) \in Rect /\ gap \in Nat
    BY AreaType
  <1>3. HasRoom(m, Cardinality(Windows))
    BY DEF Roomy
  <1>4. CASE n = 0
    <2>1. Rects(m, t) \in [1..0 -> Rect]
      BY <1>4, RectsType
    <2>2. DOMAIN Rects(m, t) = {} /\ Rects(m, t) = <<>>
      BY <2>1
    <2>3. QED
      BY <2>2 DEF Partition
  <1>5. CASE n # 0
    <2>1. n \in 1..Cardinality(Windows) /\ n >= 1
      BY <1>1, <1>5
    <2>2. /\ Width(Area(m)) >= 10 * Room(gap, (n - 1) \div 2) + gap
          /\ Height(Area(m)) >= 10 * Room(gap, (n - 1) \div 2) + gap
      BY <1>1, <1>3, <2>1, RoomForFewer
    <2> HIDE DEF gap, n
    <2>3. Partition(Area(m), Dwindle(Area(m), n, t.ratio, gap, t.split))
      BY <1>1, <1>2, <2>1, <2>2, DwindlePartitions
    <2>4. QED
      BY <2>3 DEF Rects, gap, n
  <1>6. QED
    BY <1>4, <1>5

-----------------------------------------------------------------------------
(* Types *)

LEMMA TileFields ==
  ASSUME NEW t
  PROVE  t \in TileSpace <=>
           /\ t = [order |-> t.order, ratio |-> t.ratio, split |-> t.split,
                   expected |-> t.expected, strikes |-> t.strikes, flat |-> t.flat,
                   max |-> t.max, dirty |-> t.dirty]
           /\ t.order \in Seq(Windows) /\ t.ratio \in MinRatio..MaxRatio
           /\ t.split \in {"auto", "side", "stacked"}
           /\ t.expected \in [Windows -> {None} \cup Rect]
           /\ t.strikes \in [Windows -> 0..(StrikeLimit - 1)]
           /\ t.flat \in [Windows -> 0..(StrikeLimit - 1)]
           /\ t.max \subseteq Windows /\ t.dirty \in BOOLEAN
  BY DEF TileSpace

\* A TileSpace no window of which has two slots, and all of them.
Tidy(t) == t \in TileSpace /\ IsInjective(t.order)

AllTidy(T) == T = [s \in Spaces |-> T[s]] /\ \A s \in Spaces : Tidy(T[s])

LEMMA SpaceIs ==
  ASSUME NEW s \in Spaces
  PROVE  s[1] \in Monitors /\ s[2] \in Nat /\ s = <<s[1], s[2]>>
  BY TilingAssumption DEF Spaces, Monitors

LEMMA DirtiedTidy ==
  ASSUME NEW T, AllTidy(T), NEW s \in Spaces
  PROVE  /\ AllTidy(Dirtied(T, s))
         /\ \A z \in Spaces : Dirtied(T, s)[z] = IF z = s THEN [T[z] EXCEPT !.dirty = TRUE] ELSE T[z]
  <1>1. \A z \in Spaces : Dirtied(T, s)[z] = IF z = s THEN [T[z] EXCEPT !.dirty = TRUE] ELSE T[z]
    BY DEF AllTidy, Dirtied
  <1>2. Dirtied(T, s) = [z \in Spaces |-> Dirtied(T, s)[z]]
    BY DEF AllTidy, Dirtied
  <1>3. Tidy([T[s] EXCEPT !.dirty = TRUE])
    BY DEF AllTidy, Tidy, TileSpace
  <1>4. QED
    BY <1>1, <1>2, <1>3 DEF AllTidy

LEMMA DetachedTidy ==
  ASSUME NEW T, AllTidy(T), NEW w \in Windows
  PROVE  AllTidy(Detached(T, w))
  <1>1. ASSUME NEW t, Tidy(t)
        PROVE  Tidy([t EXCEPT !.dirty = TRUE, !.expected[w] = None, !.strikes[w] = 0, !.flat[w] = 0])
    <2>1. 0 \in 0..(StrikeLimit - 1)
      BY TilingAssumption
    <2>2. QED
      BY <1>1, <2>1 DEF Tidy, TileSpace
  <1>2. QED
    BY <1>1 DEF Detached, AllTidy

-----------------------------------------------------------------------------
(* The operators of the commands and the drags *)

LEMMA IndexIs ==
  ASSUME NEW S, NEW q \in Seq(S), NEW w
  PROVE  /\ Index(q, w) \in 0..Len(q)
         /\ w \in ToSet(q) => Index(q, w) \in DOMAIN q /\ q[Index(q, w)] = w
         /\ w \notin ToSet(q) => Index(q, w) = 0
  <1>1. DOMAIN q = 1..Len(q) /\ Len(q) \in Nat
    OBVIOUS
  <1>2. CASE w \in ToSet(q)
    <2>1. \E k \in DOMAIN q : q[k] = w
      BY <1>2 DEF ToSet
    <2>2. Index(q, w) \in DOMAIN q /\ q[Index(q, w)] = w
      BY <1>2, <2>1 DEF Index
    <2>3. QED
      BY <1>1, <1>2, <2>2
  <1>3. CASE w \notin ToSet(q)
    BY <1>1, <1>3 DEF Index
  <1>4. QED
    BY <1>2, <1>3

LEMMA SwappedIs ==
  ASSUME NEW S, NEW q \in Seq(S), NEW i \in DOMAIN q, NEW j \in DOMAIN q
  PROVE  /\ Swapped(q, i, j) \in Seq(S) /\ Len(Swapped(q, i, j)) = Len(q)
         /\ IsInjective(q) => IsInjective(Swapped(q, i, j))
  <1> DEFINE v == Swapped(q, i, j)
  <1>1. q \in [1..Len(q) -> S] /\ Len(q) \in Nat /\ DOMAIN q = 1..Len(q)
    OBVIOUS
  <1>2. v \in [1..Len(q) -> S]
    BY <1>1 DEF Swapped
  <1>3. \A k \in DOMAIN q : v[k] = IF k = j THEN q[i] ELSE IF k = i THEN q[j] ELSE q[k]
    BY <1>1 DEF Swapped
  <1> HIDE DEF v
  <1>4. v \in Seq(S) /\ Len(v) = Len(q) /\ DOMAIN v = DOMAIN q
    <2>1. v \in Seq(S)
      BY <1>1, <1>2, SeqDef
    <2>2. QED
      BY <1>1, <1>2, <2>1
  <1>5. ASSUME IsInjective(q) PROVE IsInjective(v)
    BY <1>3, <1>4, <1>5 DEF IsInjective
  <1>6. QED
    BY <1>4, <1>5 DEF v

LEMMA ShownIs ==
  ASSUME NEW t, Tidy(t)
  PROVE  /\ Shown(t) \in Seq(Windows) /\ Len(Shown(t)) <= Len(t.order)
         /\ \A w \in ToSet(Shown(t)) : w \in ToSet(t.order) /\ t.expected[w] \in Rect
  <1> DEFINE W == {w \in Windows : t.expected[w] # None}
  <1>1. t.order \in Seq(Windows) /\ t.expected \in [Windows -> {None} \cup Rect]
    BY DEF Tidy, TileSpace
  <1>2. Shown(t) = Selected(t.order, W)
    BY DEF Shown
  <1> HIDE DEF W
  <1>3. /\ Shown(t) \in Seq(Windows) /\ Len(Shown(t)) <= Len(t.order)
        /\ ToSet(Shown(t)) = ToSet(t.order) \cap W
    BY <1>1, <1>2, SelectedIs
  <1>4. QED
    BY <1>1, <1>3 DEF W

\* A finite set of rectangles has one that goes before all the others: the
\* nearest tile exists, faces the window that looks for it, and is a tile.
LEMMA NeighborIs ==
  ASSUME NEW S, NEW tiles \in Seq(S), NEW at, \A w \in ToSet(tiles) : at[w] \in Rect,
         NEW w, NEW dir \in Dirs
  PROVE  Neighbor(w, dir, tiles, at) \in {None} \cup ToSet(tiles)
  <1> DEFINE Ks == {k \in DOMAIN tiles : tiles[k] # w /\ Ahead(at[tiles[k]], at[w], dir) >= 0}
             far(k)  == Ahead(at[tiles[k]], at[w], dir)
             face(k) == Facing(at[tiles[k]], at[w], dir)
             before(j, k) == \/ far(j) < far(k)
                             \/ far(j) = far(k) /\ face(j) > face(k)
                             \/ far(j) = far(k) /\ face(j) = face(k) /\ j <= k
             size == Larger(0, Larger(Width(at[w]), Height(at[w])))
  <1>1. CASE w \notin ToSet(tiles) \/ Ks = {}
    BY <1>1 DEF Neighbor
  <1>2. CASE w \in ToSet(tiles) /\ Ks # {}
    <2>1. at[w] \in Rect /\ \A k \in DOMAIN tiles : at[tiles[k]] \in Rect /\ k \in Nat
      BY <1>2 DEF ToSet
    <2>2. \A x, y \in Rect : Ahead(x, y, dir) \in Int /\ Facing(x, y, dir) \in Nat
      <3>1. ASSUME NEW x \in Rect, NEW y \in Rect PROVE Facing(x, y, dir) \in Nat
        BY DEF Facing, Rect, Larger, Smaller
      <3>2. ASSUME NEW x \in Rect, NEW y \in Rect PROVE Ahead(x, y, dir) \in Int
        <4>1. CASE dir = "left"
          BY <4>1 DEF Ahead, Rect
        <4>2. CASE dir = "right"
          BY <4>2 DEF Ahead, Rect
        <4>3. CASE dir = "up"
          BY <4>3 DEF Ahead, Rect
        <4>4. CASE dir = "down"
          BY <4>4 DEF Ahead, Rect
        <4>5. QED
          BY <4>1, <4>2, <4>3, <4>4 DEF Dirs
      <3>3. QED
        BY <3>1, <3>2
    <2>3. \A x, y \in Rect :
            Facing(x, y, dir) <= Larger(0, Larger(Width(y), Height(y)))
      BY DEF Facing, Rect, Larger, Smaller, Width, Height
    <2>4. size \in Nat
      BY <2>1 DEF Rect, Larger, Width, Height
    <2>5. \A k \in Ks : k \in Nat /\ far(k) \in Nat /\ face(k) \in Nat /\ size - face(k) \in Nat
      <3>1. ASSUME NEW k \in Ks
            PROVE  k \in Nat /\ far(k) \in Nat /\ face(k) \in Nat /\ face(k) <= size
        BY <2>1, <2>2, <2>3
      <3>2. QED
        BY <2>4, <3>1
    <2> HIDE DEF far, face, size
    <2> DEFINE A == {far(k) : k \in Ks}
    <2>6. PICK a \in Nat : a \in A /\ \A i \in Nat : i < a => i \notin A
      <3>1. PICK k \in Ks : TRUE
        BY <1>2
      <3>2. far(k) \in Nat /\ far(k) \in A
        BY <2>5
      <3> HIDE DEF A
      <3>3. QED
        BY <3>2, LeastNatural
    <2> DEFINE B == {size - face(k) : k \in {i \in Ks : far(i) = a}}
    <2>7. PICK b \in Nat : b \in B /\ \A i \in Nat : i < b => i \notin B
      <3>1. PICK k \in Ks : far(k) = a
        BY <2>6
      <3>2. size - face(k) \in Nat /\ size - face(k) \in B
        BY <2>5, <3>1
      <3> HIDE DEF B
      <3>3. QED
        BY <3>2, LeastNatural
    <2> DEFINE C == {k \in Ks : far(k) = a /\ size - face(k) = b}
    <2>8. PICK c \in Nat : c \in C /\ \A i \in Nat : i < c => i \notin C
      <3>1. PICK k \in Ks : far(k) = a /\ size - face(k) = b
        BY <2>7
      <3>2. k \in Nat /\ k \in C
        BY <2>5, <3>1
      <3> HIDE DEF C
      <3>3. QED
        BY <3>2, LeastNatural
    <2>9. ASSUME NEW k \in Ks PROVE before(c, k)
      <3>1. /\ k \in Nat /\ far(k) \in Nat /\ face(k) \in Nat /\ size - face(k) \in Nat
            /\ face(c) \in Nat
        BY <2>5, <2>8
      <3>2. far(c) = a /\ size - face(c) = b
        BY <2>8
      <3>3. ~(far(k) < a)
        <4>1. far(k) \in A
          OBVIOUS
        <4> HIDE DEF A
        <4>2. QED
          BY <3>1, <4>1, <2>6
      <3>4. CASE far(k) # a
        BY <3>1, <3>2, <3>3, <3>4
      <3>5. CASE far(k) = a
        <4>1. ~(size - face(k) < b)
          <5>1. size - face(k) \in B
            BY <3>5
          <5> HIDE DEF B
          <5>2. QED
            BY <3>1, <5>1, <2>7
        <4>2. CASE size - face(k) # b
          <5>1. face(c) > face(k)
            BY <2>4, <3>1, <3>2, <4>1, <4>2
          <5>2. QED
            BY <3>2, <3>5, <5>1
        <4>3. CASE size - face(k) = b
          <5>1. face(c) = face(k)
            BY <2>4, <3>1, <3>2, <4>3
          <5>2. ~(k < c)
            <6>1. k \in C
              BY <3>5, <4>3
            <6> HIDE DEF C
            <6>2. QED
              BY <3>1, <6>1, <2>8
          <5>3. QED
            BY <3>1, <3>2, <3>5, <5>1, <5>2
        <4>4. QED
          BY <4>2, <4>3
      <3>6. QED
        BY <3>4, <3>5
    <2>10. c \in Ks
      BY <2>8
    <2> HIDE DEF A, B, C
    <2> DEFINE j == CHOOSE i \in Ks : \A k \in Ks : before(i, k)
    <2>11. j \in Ks
      BY <2>9, <2>10
    <2>12. Neighbor(w, dir, tiles, at) = tiles[j]
      BY <1>2 DEF Neighbor, far, face
    <2> HIDE DEF j
    <2>13. QED
      BY <2>11, <2>12 DEF ToSet
  <1>3. QED
    BY <1>1, <1>2

\* What a drag does to the layout is within bounds.
LEMMA ClassifyIs ==
  ASSUME NEW xs \in Seq(Rect), NEW k \in 0..Len(xs), NEW to \in 0..Len(xs),
         NEW old \in Rect, NEW new \in Rect, NEW shift \in BOOLEAN, NEW fromMax \in BOOLEAN,
         NEW slack \in Nat
  PROVE  LET does == Classify(k, old, new, xs, to, shift, fromMax, slack)
         IN  /\ does.does = "ratio" => does.ratio \in MinRatio..MaxRatio
             /\ does.does = "swap" => does.from \in 1..Len(xs) /\ does.to \in 1..Len(xs)
  <1> DEFINE does == Classify(k, old, new, xs, to, shift, fromMax, slack)
             wide == Width(xs[1]) + Width(xs[2])
             high == Height(xs[1]) + Height(xs[2])
  <1>1. \A i \in Int : ClampedRatio(i) \in MinRatio..MaxRatio
    BY DEF ClampedRatio, Larger, Smaller, MinRatio, MaxRatio
  <1>2. \A i \in {1, 2}, n, total \in Int : total > 0 => Wanted(i, n, total) \in MinRatio..MaxRatio
    <2>1. ASSUME NEW i \in {1, 2}, NEW n \in Int, NEW total \in Int, total > 0
          PROVE  Wanted(i, n, total) \in MinRatio..MaxRatio
      <3>1. (20 * (IF i = 1 THEN n ELSE total - n) + total) \div (2 * total) \in Int
        <4> DEFINE p == 20 * (IF i = 1 THEN n ELSE total - n) + total
                   q == 2 * total
        <4>1. p \in Int /\ q \in Int /\ q > 0
          BY <2>1
        <4> HIDE DEF p, q
        <4>2. p \div q \in Int
          BY <4>1
        <4>3. QED
          BY <4>2 DEF p, q
      <3>2. QED
        BY <3>1, <1>1 DEF Wanted
    <2>2. QED
      BY <2>1
  <1>3. Width(new) \in Int /\ Height(new) \in Int
    BY DEF Rect, Width, Height
  <1>4. Len(xs) >= 2 => wide \in Int /\ high \in Int
    <2>1. ASSUME Len(xs) >= 2 PROVE xs[1] \in Rect /\ xs[2] \in Rect
      <3>1. 1 \in 1..Len(xs) /\ 2 \in 1..Len(xs) /\ DOMAIN xs = 1..Len(xs)
        BY <2>1
      <3>2. QED
        BY <3>1
    <2>2. \A x \in Rect : Width(x) \in Int /\ Height(x) \in Int
      BY DEF Rect, Width, Height
    <2>3. QED
      BY <2>1, <2>2
  <1> HIDE DEF wide, high
  <1>5. \/ does = [does |-> "snap"]
        \/ /\ k \in {1, 2} /\ Len(xs) >= 2 /\ wide > 0
           /\ does = [does |-> "ratio", ratio |-> Wanted(k, Width(new), wide)]
        \/ /\ k \in {1, 2} /\ Len(xs) >= 2 /\ high > 0
           /\ does = [does |-> "ratio", ratio |-> Wanted(k, Height(new), high)]
        \/ does = [does |-> "toggle"]
        \/ k # 0 /\ to # 0 /\ does = [does |-> "swap", from |-> k, to |-> to]
    BY DEF Classify, wide, high
  <1> HIDE DEF does
  <1>6. k \in {1, 2} /\ Len(xs) >= 2 /\ wide > 0 => Wanted(k, Width(new), wide) \in MinRatio..MaxRatio
    BY <1>2, <1>3, <1>4
  <1>7. k \in {1, 2} /\ Len(xs) >= 2 /\ high > 0 => Wanted(k, Height(new), high) \in MinRatio..MaxRatio
    BY <1>2, <1>3, <1>4
  <1>8. Len(xs) \in Nat
    OBVIOUS
  <1>9. CASE does.does = "ratio"
    BY <1>5, <1>6, <1>7, <1>9 DEF does
  <1>10. CASE does.does = "swap"
    BY <1>5, <1>8, <1>10 DEF does
  <1>11. QED
    BY <1>9, <1>10 DEF does

-----------------------------------------------------------------------------
(* The operators of the timers *)

\* What a layout makes of a space: who holds its slots, and where.
LEMMA LayoutIs ==
  ASSUME NEW s \in Spaces, Tidy(ts[s])
  PROVE  LET out   == Layout(s)
             t     == out.tile
             cands == Candidates(s, floating \ Readmits(s))
         IN  /\ Tidy(t)
             /\ out.struck \subseteq cands /\ out.flattened \subseteq cands
             /\ ToSet(t.order) \subseteq cands
             /\ ~t.dirty => ToSet(t.order) = cands \ out.struck
             /\ t.max \subseteq zoomed \ out.flattened
             /\ out.pushed = ToSet(t.order) \ t.max
             /\ \A w \in Windows :
                  t.expected[w] = IF w \in ToSet(t.order)
                                  THEN Rects(s[1], t)[Index(t.order, w)] ELSE None
             /\ \A w \in ToSet(t.order) : t.expected[w] \in Rect
  <1> DEFINE cands  == Candidates(s, floating \ Readmits(s))
             kept   == {w \in cands \cap zoomed : w \in ToSet(ts[s].order)}
             stuck  == {w \in (cands \cap zoomed) \ kept : kind[w] = "elevated"}
             struck == {w \in stuck : StruckOut(ts[s].flat[w])}
             ready  == cands \ stuck
             order  == ReconcileOrder(ts[s].order, SetToSeq(ready), fg)
             strikes == [w \in Windows |-> IF w \in struck THEN 0 ELSE ts[s].strikes[w]]
             flat   == [w \in Windows |-> IF w \in ready \cup struck THEN 0
                                          ELSE IF w \in stuck THEN ts[s].flat[w] + 1
                                          ELSE ts[s].flat[w]]
             t0     == [ts[s] EXCEPT !.order = order, !.strikes = strikes, !.flat = flat,
                          !.max = kept, !.dirty = (stuck \ struck # {})]
             expected == [w \in Windows |-> IF w \in ToSet(order)
                                            THEN Rects(s[1], t0)[Index(order, w)] ELSE None]
             t      == [t0 EXCEPT !.expected = expected]
             out    == Layout(s)
  <1>1. /\ out.tile = t /\ out.struck = struck
        /\ out.flattened = (cands \cap zoomed) \ (kept \cup stuck)
        /\ out.pushed = ToSet(order) \ kept
    BY DEF Layout
  <1>2. /\ cands \subseteq Windows /\ ready \subseteq cands /\ struck \subseteq stuck
        /\ stuck \subseteq cands /\ kept \subseteq cands \cap zoomed
        /\ IsFiniteSet(Windows) /\ s[1] \in Monitors
    BY TilingAssumption, SpaceIs DEF Candidates
  <1>3. /\ ts[s].order \in Seq(Windows) /\ IsInjective(ts[s].order)
        /\ ts[s].ratio \in MinRatio..MaxRatio
        /\ ts[s].strikes \in [Windows -> 0..(StrikeLimit - 1)]
        /\ ts[s].flat \in [Windows -> 0..(StrikeLimit - 1)]
    BY TileFields DEF Tidy
  <1>4. strikes \in [Windows -> 0..(StrikeLimit - 1)] /\ flat \in [Windows -> 0..(StrikeLimit - 1)]
    <2>1. StrikeLimit \in Nat \ {0}
      BY TilingAssumption
    <2>2. ASSUME NEW w \in Windows PROVE strikes[w] \in 0..(StrikeLimit - 1)
      BY <1>3, <2>1
    <2>3. ASSUME NEW w \in Windows PROVE flat[w] \in 0..(StrikeLimit - 1)
      <3>1. ts[s].flat[w] \in 0..(StrikeLimit - 1)
        BY <1>3
      <3>2. CASE w \in ready \cup struck
        BY <2>1, <3>2
      <3>3. CASE w \notin ready \cup struck /\ w \in stuck
        <4>1. ~StruckOut(ts[s].flat[w]) /\ flat[w] = ts[s].flat[w] + 1
          BY <3>3
        <4>2. QED
          BY <2>1, <3>1, <4>1 DEF StruckOut
      <3>4. CASE w \notin ready \cup struck /\ w \notin stuck
        BY <3>1, <3>4
      <3>5. QED
        BY <3>2, <3>3, <3>4
    <2> HIDE DEF strikes, flat
    <2>4. strikes = [w \in Windows |-> strikes[w]] /\ flat = [w \in Windows |-> flat[w]]
      BY DEF strikes, flat
    <2>5. QED
      BY <2>2, <2>3, <2>4
  <1> HIDE DEF strikes, flat
  <1>5. order \in Seq(Windows) /\ ToSet(order) = ready /\ IsInjective(order)
    <2>1. ready \in SUBSET Windows
      BY <1>2
    <2>2. IsFiniteSet(Windows) /\ ts[s].order \in Seq(Windows) /\ IsInjective(ts[s].order)
      BY <1>2, <1>3
    <2> HIDE DEF cands, kept, stuck, struck, ready
    <2>3. QED
      BY <2>1, <2>2, ReconcileOrderIs
  <1> HIDE DEF order
  <1>6. /\ t0.order = order /\ t0.ratio = ts[s].ratio /\ t0.split = ts[s].split
        /\ t.order = order /\ t.ratio = ts[s].ratio /\ t.split = ts[s].split
        /\ t.max = kept /\ t.dirty = (stuck \ struck # {}) /\ t.expected = expected
    <2>1. ts[s] \in TileSpace
      BY DEF Tidy
    <2> HIDE DEF cands, kept, stuck, struck, expected
    <2>2. QED
      BY <2>1 DEF TileSpace
  <1>7. Rects(s[1], t) = Rects(s[1], t0)
    BY <1>6 DEF Rects
  <1>8. \A w \in ToSet(order) : expected[w] \in Rect
    <2>1. Rects(s[1], t0) \in [1..Len(order) -> Rect]
      <3>1. s[1] \in Monitors /\ t0.order \in Seq(Windows) /\ t0.ratio \in MinRatio..MaxRatio
        BY <1>2, <1>3, <1>5, <1>6
      <3>2. Len(t0.order) = Len(order)
        BY <1>6
      <3> HIDE DEF t0
      <3>3. QED
        BY <3>1, <3>2, RectsType
    <2>2. \A w \in ToSet(order) : Index(order, w) \in DOMAIN order
      BY <1>5, IndexIs
    <2>3. DOMAIN order = 1..Len(order)
      BY <1>5
    <2>4. QED
      BY <1>2, <1>5, <2>1, <2>2, <2>3
  <1>9. expected \in [Windows -> {None} \cup Rect]
    BY <1>8
  <1>10. Tidy(t)
    <2>1. ts[s] \in TileSpace /\ kept \subseteq Windows /\ (stuck \ struck # {}) \in BOOLEAN
      BY <1>2 DEF Tidy
    <2> HIDE DEF cands, kept, stuck, struck, expected
    <2>2. t \in TileSpace
      BY <2>1, <1>4, <1>5, <1>9 DEF TileSpace
    <2> HIDE DEF t, t0
    <2>3. QED
      BY <2>2, <1>5, <1>6 DEF Tidy
  <1>11. \A w \in Windows :
            t.expected[w] = IF w \in ToSet(t.order) THEN Rects(s[1], t)[Index(t.order, w)] ELSE None
    BY <1>6, <1>7
  <1>12. \A w \in ToSet(t.order) : t.expected[w] \in Rect
    BY <1>6, <1>8
  <1>13. t.max \subseteq zoomed \ out.flattened
    BY <1>1, <1>2, <1>6
  <1>14. ~t.dirty => ToSet(t.order) = cands \ out.struck
    BY <1>1, <1>2, <1>5, <1>6
  <1>15. QED
    <2> HIDE DEF t, out, kept, stuck, struck, ready
    <2>1. out.struck \subseteq cands /\ out.flattened \subseteq cands
      BY <1>1, <1>2
    <2>2. ToSet(t.order) \subseteq cands /\ out.pushed = ToSet(t.order) \ t.max
      BY <1>1, <1>2, <1>5, <1>6
    <2>3. QED
      BY <1>1, <1>10, <1>11, <1>12, <1>13, <1>14, <2>1, <2>2 DEF out

\* What a verification makes of a space: a window that strikes out leaves the
\* tiles for the floating ones, and the space stays clean only if none struck.
LEMMA SweepIs ==
  ASSUME NEW s \in Spaces, Tidy(ts[s])
  PROVE  LET out == Sweep(s)
         IN  /\ Tidy(out.tile)
             /\ \A w \in out.out : w \in Windows /\ ts[s].expected[w] # None
             /\ out.tile.order = ts[s].order /\ out.tile.ratio = ts[s].ratio
             /\ out.tile.split = ts[s].split /\ out.tile.max = ts[s].max \ out.out
             /\ \A w \in Windows : out.tile.expected[w] # None => ts[s].expected[w] # None
             /\ out.tile.dirty <=> ts[s].dirty \/ out.again
             /\ out.out # {} => out.again
             /\ out.again \in BOOLEAN
  <1> DEFINE t == ts[s]
             wrong  == {w \in Checked(s) : ~InPlace(w, t.expected[w])}
             resist == {w \in wrong : Mismatch(w, t.expected[w], t) = "resisting"}
             big    == {w \in wrong : Mismatch(w, t.expected[w], t) = "zoomed"}
             clear  == Checked(s) \ (resist \cup big)
             gone   == {w \in resist : StruckOut(t.strikes[w])}
                         \cup {w \in big : StruckOut(t.flat[w])}
             strikes == [w \in Windows |-> IF w \in clear \cup gone THEN 0
                                           ELSE IF w \in resist THEN t.strikes[w] + 1
                                           ELSE t.strikes[w]]
             flat   == [w \in Windows |-> IF w \in clear \cup gone THEN 0
                                          ELSE IF w \in big THEN t.flat[w] + 1 ELSE t.flat[w]]
             expected == [w \in Windows |-> IF w \in gone THEN None ELSE t.expected[w]]
             next   == [t EXCEPT !.strikes = strikes, !.flat = flat, !.expected = expected,
                          !.max = @ \ gone, !.dirty = @ \/ resist \cup big # {}]
             out    == Sweep(s)
  <1>1. out.tile = next /\ out.out = gone /\ out.again = (resist \cup big # {})
    BY DEF Sweep
  <1>2. \A w \in gone : w \in Windows /\ t.expected[w] # None /\ w \in resist \cup big
    BY DEF Checked
  <1>3. /\ t \in TileSpace /\ IsInjective(t.order)
        /\ t.strikes \in [Windows -> 0..(StrikeLimit - 1)]
        /\ t.flat \in [Windows -> 0..(StrikeLimit - 1)]
        /\ t.expected \in [Windows -> {None} \cup Rect]
        /\ t.max \subseteq Windows /\ t.dirty \in BOOLEAN
    BY TileFields DEF Tidy
  <1>4. \A w \in resist : w \notin gone => ~StruckOut(t.strikes[w])
    OBVIOUS
  <1>5. \A w \in big : w \notin gone => ~StruckOut(t.flat[w])
    OBVIOUS
  <1> HIDE DEF t, wrong, resist, big, clear, gone
  <1>6. strikes \in [Windows -> 0..(StrikeLimit - 1)] /\ flat \in [Windows -> 0..(StrikeLimit - 1)]
    <2>1. StrikeLimit \in Nat \ {0}
      BY TilingAssumption
    <2>2. ASSUME NEW w \in Windows PROVE strikes[w] \in 0..(StrikeLimit - 1)
      BY <1>3, <1>4, <2>1 DEF StruckOut
    <2>3. ASSUME NEW w \in Windows PROVE flat[w] \in 0..(StrikeLimit - 1)
      BY <1>3, <1>5, <2>1 DEF StruckOut
    <2> HIDE DEF strikes, flat
    <2>4. strikes = [w \in Windows |-> strikes[w]] /\ flat = [w \in Windows |-> flat[w]]
      BY DEF strikes, flat
    <2>5. QED
      BY <2>2, <2>3, <2>4
  <1> HIDE DEF strikes, flat
  <1>7. expected \in [Windows -> {None} \cup Rect]
    BY <1>3
  <1>8. \A w \in Windows : expected[w] # None => t.expected[w] # None
    OBVIOUS
  <1> HIDE DEF expected
  <1>9. /\ next.order = t.order /\ next.ratio = t.ratio /\ next.split = t.split
        /\ next.max = t.max \ gone /\ next.expected = expected
        /\ next.dirty = (t.dirty \/ resist \cup big # {})
    BY <1>3 DEF TileSpace
  <1>10. Tidy(next)
    <2>1. next \in TileSpace
      BY <1>3, <1>6, <1>7 DEF TileSpace
    <2> HIDE DEF next
    <2>2. QED
      BY <2>1, <1>3, <1>9 DEF Tidy
  <1> HIDE DEF next, out
  <1>11. QED
    BY <1>1, <1>2, <1>8, <1>9, <1>10 DEF out, t

-----------------------------------------------------------------------------
(* What no action breaks *)

Others ==
  /\ kind \in Kinds
  /\ home \in [Windows -> Spaces \cup {None}]
  /\ dead \subseteq Windows /\ iconic \subseteq Windows /\ zoomed \subseteq Windows
  /\ sticky \subseteq Windows /\ floating \subseteq Windows /\ auto \subseteq Windows
  /\ untold \subseteq Windows
  /\ current \in [Monitors -> Nat] /\ \A m \in Monitors : <<m, current[m]>> \in Spaces
  /\ frame \in [Windows -> Rect]
  /\ drag # None => drag \in Drag
  /\ fg \in Windows \cup {None}
  /\ enabled \in BOOLEAN /\ retile \in BOOLEAN /\ verify \in BOOLEAN
  /\ budget \in 0..Budget

\* A window has its place on the space it is tracked on, and on no other.
Tracked == \A s \in Spaces, w \in Windows : ts[s].expected[w] # None => home[w] = s

\* What is dragged is a tracked window, and the tiler is on.
Dragging == drag # None => enabled /\ home[drag.w] # None

Sound == Others /\ AllTidy(ts) /\ Tracked /\ Dragging

\* Whatever changes a space while the tiler is on leaves it dirty.
Marked == \A s \in Spaces : ts'[s] = ts[s] \/ ts'[s].dirty

LEMMA SoundTypeOK ==
  ASSUME Sound, rounds \in Nat
  PROVE  TypeOK
  <1>1. ts \in [Spaces -> TileSpace]
    BY DEF Sound, AllTidy, Tidy
  <1>2. QED
    BY <1>1 DEF Sound, Others, TypeOK

\* One space is given another TileSpace, with no new places.
LEMMA OneTile ==
  ASSUME Sound, NEW s \in Spaces, NEW t, Tidy(t), ts' = [ts EXCEPT ![s] = t],
         \A w \in Windows : t.expected[w] # None => ts[s].expected[w] # None,
         t.dirty, home' = home
  PROVE  AllTidy(ts') /\ Tracked' /\ Marked
  <1>1. \A z \in Spaces : ts'[z] = IF z = s THEN t ELSE ts[z]
    BY DEF Sound, AllTidy
  <1>2. ts' = [z \in Spaces |-> ts'[z]]
    BY DEF Sound, AllTidy
  <1>3. AllTidy(ts')
    BY <1>1, <1>2 DEF Sound, AllTidy
  <1>4. Tracked'
    BY <1>1 DEF Sound, Tracked
  <1>5. Marked
    BY <1>1 DEF Marked
  <1>6. QED
    BY <1>3, <1>4, <1>5

\* The same, with only the flag and fields that say nothing about places.
LEMMA DirtyTile ==
  ASSUME Sound, NEW s \in Spaces, ts' = Dirtied(ts, s), home' = home
  PROVE  AllTidy(ts') /\ Tracked' /\ Marked /\ ts'[s].dirty
  <1> DEFINE t == [ts[s] EXCEPT !.dirty = TRUE]
  <1>1. Tidy(t) /\ t.dirty /\ t.expected = ts[s].expected
    BY DEF Sound, AllTidy, Tidy, TileSpace
  <1>2. ts' = [ts EXCEPT ![s] = t]
    BY DEF Dirtied, Sound, AllTidy
  <1> HIDE DEF t
  <1>3. AllTidy(ts') /\ Tracked' /\ Marked
    BY <1>1, <1>2, OneTile
  <1>4. QED
    BY <1>1, <1>2, <1>3 DEF Sound, AllTidy

LEMMA DirtyFields ==
  ASSUME NEW t, Tidy(t), NEW u, u = [t EXCEPT !.dirty = TRUE]
  PROVE  u.dirty /\ u.expected = t.expected
  BY DEF Tidy, TileSpace

DetachedTile(t, w) ==
  [t EXCEPT !.dirty = TRUE, !.expected[w] = None, !.strikes[w] = 0, !.flat[w] = 0]

LEMMA DetachedFields ==
  ASSUME NEW t, Tidy(t), NEW w
  PROVE  /\ DetachedTile(t, w).dirty
         /\ DetachedTile(t, w).expected = [t.expected EXCEPT ![w] = None]
  BY DEF Tidy, TileSpace, DetachedTile

\* track_window leaves both spaces dirty.
LEMMA TrackIs ==
  ASSUME Sound, NEW w \in Windows, NEW s \in Spaces, Track(w, s)
  PROVE  /\ AllTidy(ts') /\ Tracked' /\ Marked
         /\ ts'[s].dirty /\ (home[w] # None => ts'[home[w]].dirty)
         /\ home' = [home EXCEPT ![w] = s] /\ home' \in [Windows -> Spaces \cup {None}]
         /\ floating' \subseteq floating /\ auto' \subseteq auto
         /\ \A x \in Windows \ {w} : x \in floating' <=> x \in floating
         /\ \A x \in Windows : home'[x] = IF x = w THEN s ELSE home[x]
         /\ retile' = (retile \/ enabled)
  <1>1. AllTidy(ts) /\ AllTidy(Detached(ts, w))
    BY DetachedTidy DEF Sound
  <1> DEFINE D == Detached(ts, w)
  <1>2. ts' = Dirtied(D, s)
    BY DEF Track
  <1> HIDE DEF D
  <1>3. AllTidy(D)
    BY <1>1 DEF D
  <1>4. /\ AllTidy(ts')
        /\ \A z \in Spaces : ts'[z] = IF z = s THEN [D[z] EXCEPT !.dirty = TRUE] ELSE D[z]
    BY <1>2, <1>3, DirtiedTidy
  <1>5. \A z \in Spaces : D[z] = IF z # home[w] THEN ts[z]
           ELSE [ts[z] EXCEPT !.dirty = TRUE, !.expected[w] = None, !.strikes[w] = 0, !.flat[w] = 0]
    BY DEF D, Detached
  <1>6. ASSUME NEW z \in Spaces
        PROVE  /\ ts'[z] = ts[z] \/ ts'[z].dirty
               /\ z = s => ts'[z].dirty
               /\ z = home[w] => ts'[z].dirty /\ ts'[z].expected[w] = None
               /\ \A x \in Windows : ts'[z].expected[x] # None => ts[z].expected[x] # None
    <2>1. Tidy(ts[z]) /\ Tidy(D[z])
      BY <1>1, <1>3 DEF AllTidy
    <2>2. /\ z # home[w] => D[z] = ts[z]
          /\ z = home[w] => D[z].dirty /\ D[z].expected = [ts[z].expected EXCEPT ![w] = None]
      <3>1. CASE z # home[w]
        BY <3>1, <1>5
      <3>2. CASE z = home[w]
        <4>1. D[z] = DetachedTile(ts[z], w)
          BY <3>2, <1>5 DEF DetachedTile
        <4>2. QED
          BY <3>2, <4>1, <2>1, DetachedFields
      <3>3. QED
        BY <3>1, <3>2
    <2>3. /\ z # s => ts'[z] = D[z]
          /\ z = s => ts'[z].dirty /\ ts'[z].expected = D[z].expected
      <3>1. CASE z # s
        BY <3>1, <1>4
      <3>2. CASE z = s
        <4>1. ts'[z] = [D[z] EXCEPT !.dirty = TRUE]
          BY <3>2, <1>4
        <4>2. QED
          BY <3>2, <4>1, <2>1, DirtyFields
      <3>3. QED
        BY <3>1, <3>2
    <2>4. ts[z].expected \in [Windows -> {None} \cup Rect]
      BY <2>1 DEF Tidy, TileSpace
    <2>5. QED
      BY <2>2, <2>3, <2>4
  <1>7. /\ home' = [home EXCEPT ![w] = s] /\ home' \in [Windows -> Spaces \cup {None}]
        /\ \A x \in Windows : home'[x] = IF x = w THEN s ELSE home[x]
    BY DEF Track, Sound, Others
  <1>8. Tracked'
    <2>1. ASSUME NEW z \in Spaces, NEW x \in Windows, ts'[z].expected[x] # None
          PROVE  home'[x] = z
      <3>1. ts[z].expected[x] # None
        BY <1>6, <2>1
      <3>2. home[x] = z
        BY <3>1 DEF Sound, Tracked
      <3>3. x # w
        BY <3>2, <1>6, <2>1
      <3>4. QED
        BY <3>2, <3>3, <1>7
    <2>2. QED
      BY <2>1 DEF Tracked
  <1>9. home[w] # None => home[w] \in Spaces
    BY DEF Sound, Others
  <1>10. /\ floating' \subseteq floating /\ auto' \subseteq auto
         /\ \A x \in Windows \ {w} : x \in floating' <=> x \in floating
         /\ retile' = (retile \/ enabled)
    BY DEF Track, Readmitted, Schedule
  <1>11. QED
    BY <1>4, <1>6, <1>7, <1>8, <1>9, <1>10 DEF Marked

-----------------------------------------------------------------------------
(* The actions of the user *)

LEMMA SameTiles ==
  ASSUME Sound, ts' = ts, home' = home
  PROVE  AllTidy(ts') /\ Tracked' /\ Marked
  BY DEF Sound, Tracked, Marked

LEMMA SpendIs ==
  ASSUME Sound, Spend
  PROVE  budget' \in 0..Budget
  BY TilingAssumption DEF Spend, Sound, Others

LEMMA SoundOpen ==
  ASSUME Sound, NEW w \in Windows, NEW m \in Monitors, NEW big \in BOOLEAN, Open(w, m, big)
  PROVE  Sound' /\ Marked
  <1>1. <<m, current[m]>> \in Spaces
    BY DEF Sound, Others
  <1>2. Track(w, <<m, current[m]>>)
    BY DEF Open
  <1>3. /\ AllTidy(ts') /\ Tracked' /\ Marked
        /\ home' \in [Windows -> Spaces \cup {None}]
        /\ floating' \subseteq floating /\ auto' \subseteq auto
        /\ \A x \in Windows : home'[x] = IF x = w THEN <<m, current[m]>> ELSE home[x]
        /\ retile' = (retile \/ enabled)
    BY <1>1, <1>2, TrackIs
  <1>4. Others'
    <2>1. Loose \in Rect
      BY DEF Loose, Rect
    <2>2. frame' \in [Windows -> Rect]
      BY <2>1 DEF Open, Sound, Others
    <2>3. zoomed' \subseteq Windows /\ iconic' \subseteq Windows
      BY DEF Open, Sound, Others
    <2>4. budget' \in 0..Budget
      BY SpendIs DEF Open
    <2>5. retile' \in BOOLEAN
      BY <1>3
    <2>6. QED
      BY <1>3, <2>2, <2>3, <2>4, <2>5 DEF Open, Sound, Others
  <1>5. Dragging'
    <2>1. drag' = drag /\ enabled' = enabled /\ (drag # None => drag.w \in Windows)
      BY DEF Open, Sound, Others, Drag
    <2>2. None \notin Spaces
      BY NoneAssumption
    <2>3. QED
      BY <1>1, <1>3, <2>1, <2>2 DEF Sound, Dragging
  <1>6. QED
    BY <1>3, <1>4, <1>5 DEF Sound

LEMMA SoundClose ==
  ASSUME Sound, NEW w \in Windows, Close(w)
  PROVE  Sound' /\ Marked
  <1>1. Others' /\ Dragging'
    BY TilingAssumption DEF Close, Spend, world, Sound, Others, Dragging
  <1>2. ts' = ts /\ home' = home
    BY DEF Close
  <1>3. QED
    BY <1>1, <1>2, SameTiles DEF Sound

LEMMA SoundMinimize ==
  ASSUME Sound, NEW w \in Windows, Minimize(w)
  PROVE  Sound' /\ (enabled' => Marked /\ ts'[home[w]].dirty)
  <1>1. Others' /\ Dragging'
    <2>1. iconic' \subseteq Windows /\ retile' \in BOOLEAN
      BY DEF Minimize, Sound, Others
    <2>2. budget' \in 0..Budget
      BY SpendIs DEF Minimize
    <2>3. QED
      BY <2>1, <2>2 DEF Minimize, Sound, Others, Dragging
  <1>2. home[w] \in Spaces /\ home' = home
    BY DEF Minimize, Sound, Others
  <1>3. AllTidy(ts') /\ Tracked' /\ Marked /\ (enabled' => ts'[home[w]].dirty)
    <2>1. CASE ~enabled
      <3>1. ts' = ts /\ ~enabled'
        BY <2>1 DEF Minimize
      <3>2. QED
        BY <1>2, <3>1, SameTiles
    <2>2. CASE enabled
      <3>1. ts' = Dirtied(ts, home[w])
        BY <2>2 DEF Minimize
      <3>2. QED
        BY <1>2, <3>1, DirtyTile
    <2>3. QED
      BY <2>1, <2>2
  <1>4. QED
    BY <1>1, <1>3 DEF Sound

LEMMA SoundMaximize ==
  ASSUME Sound, NEW w \in Windows, Maximize(w)
  PROVE  Sound' /\ Marked
  <1>1. Others' /\ Dragging'
    BY TilingAssumption DEF Maximize, Spend, Sound, Others, Dragging
  <1>2. ts' = ts /\ home' = home
    BY DEF Maximize
  <1>3. QED
    BY <1>1, <1>2, SameTiles DEF Sound

\* What a window that leaves its maximized state does to its space.
RestoredTile(t, w) == [t EXCEPT !.max = @ \ {w}, !.dirty = TRUE]

LEMMA RestoredFields ==
  ASSUME NEW t, Tidy(t), NEW w
  PROVE  /\ Tidy(RestoredTile(t, w)) /\ RestoredTile(t, w).dirty
         /\ RestoredTile(t, w).expected = t.expected
  BY DEF Tidy, TileSpace, RestoredTile

LEMMA OnRestoredIs ==
  ASSUME Sound, NEW w \in Windows, home[w] # None, OnRestored(w), home' = home
  PROVE  /\ AllTidy(ts') /\ Tracked' /\ Marked
         /\ retile' \in BOOLEAN /\ (retile => retile')
         /\ (ts' # ts => retile')
  <1>1. home[w] \in Spaces
    BY DEF Sound, Others
  <1>2. CASE ts' = ts /\ retile' = retile
    BY <1>2, SameTiles DEF Sound, Others
  <1>3. CASE /\ ts' = [ts EXCEPT ![home[w]].max = @ \ {w}, ![home[w]].dirty = TRUE]
             /\ retile' = TRUE
    <2> DEFINE t == RestoredTile(ts[home[w]], w)
    <2>1. Tidy(t) /\ t.dirty /\ t.expected = ts[home[w]].expected
      BY <1>1, RestoredFields DEF Sound, AllTidy
    <2>2. ts' = [ts EXCEPT ![home[w]] = t]
      BY <1>1, <1>3 DEF Sound, AllTidy, RestoredTile
    <2> HIDE DEF t
    <2>3. AllTidy(ts') /\ Tracked' /\ Marked
      BY <1>1, <2>1, <2>2, OneTile
    <2>4. QED
      BY <1>3, <2>3
  <1>4. QED
    BY <1>2, <1>3 DEF OnRestored

LEMMA SoundUnmaximize ==
  ASSUME Sound, NEW w \in Windows, Unmaximize(w)
  PROVE  Sound' /\ Marked
  <1>1. home[w] # None /\ OnRestored(w) /\ home' = home
    BY DEF Unmaximize, Shows
  <1>2. AllTidy(ts') /\ Tracked' /\ Marked /\ retile' \in BOOLEAN
    BY <1>1, OnRestoredIs
  <1>3. Others' /\ Dragging'
    BY <1>2, TilingAssumption DEF Unmaximize, Spend, Sound, Others, Dragging
  <1>4. QED
    BY <1>2, <1>3 DEF Sound

LEMMA SoundTogglePin ==
  ASSUME Sound, NEW w \in Windows, TogglePin(w)
  PROVE  Sound' /\ Marked
  <1> DEFINE here == <<home[w][1], current[home[w][1]]>>
  <1>1. home[w] \in Spaces
    BY DEF TogglePin, Sound, Others
  <1>2. home[w][1] \in Monitors
    BY <1>1, SpaceIs
  <1>3. here \in Spaces
    BY <1>2 DEF Sound, Others
  <1>4. None \notin Spaces /\ (drag # None => drag.w \in Windows)
    BY NoneAssumption DEF Sound, Others, Drag
  <1>5. CASE Track(w, here)
    <2> HIDE DEF here
    <2>1. /\ AllTidy(ts') /\ Tracked' /\ Marked
          /\ home' \in [Windows -> Spaces \cup {None}]
          /\ floating' \subseteq floating /\ auto' \subseteq auto
          /\ \A x \in Windows : home'[x] = IF x = w THEN here ELSE home[x]
          /\ retile' = (retile \/ enabled)
      BY <1>3, <1>5, TrackIs
    <2>2. Others'
      BY <2>1, TilingAssumption DEF TogglePin, Spend, world, Sound, Others
    <2>3. Dragging'
      BY <1>3, <1>4, <2>1 DEF TogglePin, Sound, Dragging
    <2>4. QED
      BY <2>1, <2>2, <2>3 DEF Sound
  <1>6. CASE UNCHANGED <<home, ts, floating, auto, retile>>
    <2>1. Others' /\ Dragging'
      BY <1>6, TilingAssumption DEF TogglePin, Spend, world, Sound, Others, Dragging
    <2>2. QED
      BY <1>6, <2>1, SameTiles DEF Sound
  <1>7. QED
    BY <1>5, <1>6 DEF TogglePin

LEMMA SoundSend ==
  ASSUME Sound, NEW w \in Windows, NEW s \in Spaces, Send(w, s)
  PROVE  Sound' /\ Marked
  <1>1. Track(w, s)
    BY DEF Send
  <1>2. /\ AllTidy(ts') /\ Tracked' /\ Marked
        /\ home' \in [Windows -> Spaces \cup {None}]
        /\ floating' \subseteq floating /\ auto' \subseteq auto
        /\ \A x \in Windows : home'[x] = IF x = w THEN s ELSE home[x]
        /\ retile' = (retile \/ enabled)
    BY <1>1, TrackIs
  <1>3. None \notin Spaces /\ (drag # None => drag.w \in Windows)
    BY NoneAssumption DEF Sound, Others, Drag
  <1>4. Others'
    BY <1>2, TilingAssumption DEF Send, Spend, world, Sound, Others
  <1>5. Dragging'
    BY <1>2, <1>3 DEF Send, Sound, Dragging
  <1>6. QED
    BY <1>2, <1>4, <1>5 DEF Sound

LEMMA SoundSwitchSpace ==
  ASSUME Sound, NEW s \in Spaces, SwitchSpace(s[1], s[2])
  PROVE  Sound' /\ Marked
  <1>1. s[1] \in Monitors /\ s[2] \in Nat /\ s = <<s[1], s[2]>>
    BY SpaceIs
  <1>2. ts' = Dirtied(ts, s) /\ home' = home
    BY <1>1 DEF SwitchSpace
  <1>3. AllTidy(ts') /\ Tracked' /\ Marked
    BY <1>2, DirtyTile
  <1>4. current' \in [Monitors -> Nat] /\ \A m \in Monitors : <<m, current'[m]>> \in Spaces
    BY <1>1 DEF SwitchSpace, Sound, Others
  <1>5. Others' /\ Dragging'
    BY <1>4, TilingAssumption DEF SwitchSpace, Spend, Schedule, world, Sound, Others, Dragging
  <1>6. QED
    BY <1>3, <1>5 DEF Sound

LEMMA SoundActivate ==
  ASSUME Sound, NEW w \in Windows, Activate(w)
  PROVE  Sound' /\ Marked
  <1>1. Others' /\ Dragging'
    BY TilingAssumption DEF Activate, Spend, world, Sound, Others, Dragging
  <1>2. ts' = ts /\ home' = home
    BY DEF Activate
  <1>3. QED
    BY <1>1, <1>2, SameTiles DEF Sound

-----------------------------------------------------------------------------
(* Commands *)

LEMMA SoundToggleTiling ==
  ASSUME Sound, ToggleTiling
  PROVE  Sound' /\ (enabled' => Marked)
  <1> DEFINE on(t)  == [t EXCEPT !.dirty = TRUE]
             off(t) == [t EXCEPT !.dirty = FALSE, !.expected = NoFrames, !.strikes = NoStrikes,
                                 !.flat = NoStrikes, !.max = {}]
  <1>1. NoFrames \in [Windows -> {None} \cup Rect] /\ NoStrikes \in [Windows -> 0..(StrikeLimit - 1)]
    BY TilingAssumption DEF NoFrames, NoStrikes
  <1>2. ASSUME NEW t, Tidy(t)
        PROVE  Tidy(on(t)) /\ on(t).dirty /\ on(t).expected = t.expected
    BY <1>2 DEF Tidy, TileSpace
  <1>3. ASSUME NEW t, Tidy(t)
        PROVE  Tidy(off(t)) /\ off(t).expected = NoFrames
    BY <1>1, <1>3 DEF Tidy, TileSpace
  <1>4. Others' /\ Dragging'
    <2>1. budget' \in 0..Budget
      BY SpendIs DEF ToggleTiling
    <2>2. enabled' \in BOOLEAN /\ retile' \in BOOLEAN /\ (drag' # None => drag' = drag /\ enabled')
      BY DEF ToggleTiling, Sound, Others
    <2>3. QED
      BY <2>1, <2>2 DEF ToggleTiling, world, Sound, Others, Dragging
  <1>5. CASE enabled'
    <2>1. ts' = [s \in Spaces |-> on(ts[s])] /\ home' = home
      BY <1>5 DEF ToggleTiling
    <2> HIDE DEF on
    <2>2. AllTidy(ts') /\ Tracked' /\ Marked
      BY <1>2, <2>1 DEF Sound, AllTidy, Tracked, Marked
    <2>3. QED
      BY <1>4, <2>2 DEF Sound
  <1>6. CASE ~enabled'
    <2>1. ts' = [s \in Spaces |-> off(ts[s])] /\ home' = home
      BY <1>6 DEF ToggleTiling
    <2> HIDE DEF off
    <2>2. AllTidy(ts') /\ Tracked'
      BY <1>3, <2>1 DEF Sound, AllTidy, Tracked, NoFrames
    <2>3. QED
      BY <1>4, <1>6, <2>2 DEF Sound
  <1>7. QED
    BY <1>5, <1>6

FloatTile(t, w, F) == [(IF w \in F THEN t ELSE Forgotten(t, w)) EXCEPT !.dirty = TRUE]

LEMMA FloatFields ==
  ASSUME NEW t, Tidy(t), NEW w \in Windows, NEW F
  PROVE  /\ Tidy(FloatTile(t, w, F)) /\ FloatTile(t, w, F).dirty
         /\ \A x \in Windows : FloatTile(t, w, F).expected[x] # None => t.expected[x] # None
  <1>1. 0 \in 0..(StrikeLimit - 1)
    BY TilingAssumption
  <1>2. CASE w \in F
    BY <1>2 DEF Tidy, TileSpace, FloatTile
  <1>3. CASE w \notin F
    <2> DEFINE u == Forgotten(t, w)
    <2>1. Tidy(u) /\ u.expected = [t.expected EXCEPT ![w] = None]
      BY <1>1 DEF Tidy, TileSpace, Forgotten
    <2>2. FloatTile(t, w, F) = [u EXCEPT !.dirty = TRUE]
      BY <1>3 DEF FloatTile
    <2> HIDE DEF u
    <2>3. Tidy([u EXCEPT !.dirty = TRUE])
      BY <2>1 DEF Tidy, TileSpace
    <2>4. FloatTile(t, w, F).dirty /\ FloatTile(t, w, F).expected = u.expected
      BY <2>1, <2>2, DirtyFields
    <2>5. t.expected \in [Windows -> {None} \cup Rect]
      BY DEF Tidy, TileSpace
    <2>6. QED
      BY <2>1, <2>2, <2>3, <2>4, <2>5
  <1>4. QED
    BY <1>2, <1>3

LEMMA SoundToggleFloat ==
  ASSUME Sound, NEW w \in Windows, ToggleFloat(w)
  PROVE  Sound' /\ Marked /\ ts'[home[w]].dirty
  <1>1. home[w] \in Spaces /\ home' = home
    BY DEF ToggleFloat, Sound, Others
  <1> DEFINE t == FloatTile(ts[home[w]], w, floating)
  <1>2. /\ Tidy(t) /\ t.dirty
        /\ \A x \in Windows : t.expected[x] # None => ts[home[w]].expected[x] # None
    BY <1>1, FloatFields DEF Sound, AllTidy
  <1>3. ts' = [ts EXCEPT ![home[w]] = t]
    BY DEF ToggleFloat, FloatTile
  <1> HIDE DEF t
  <1>4. AllTidy(ts') /\ Tracked' /\ Marked /\ ts'[home[w]].dirty
    <2>1. AllTidy(ts') /\ Tracked' /\ Marked
      BY <1>1, <1>2, <1>3, OneTile
    <2>2. ts'[home[w]] = t
      BY <1>1, <1>3 DEF Sound, AllTidy
    <2>3. QED
      BY <1>2, <2>1, <2>2
  <1>5. budget' \in 0..Budget
    BY SpendIs DEF ToggleFloat
  <1>6. Others' /\ Dragging'
    BY <1>5 DEF ToggleFloat, world, Sound, Others, Dragging
  <1>7. QED
    BY <1>4, <1>6 DEF Sound

LEMMA HereIs ==
  ASSUME Sound, Commanded
  PROVE  Here \in Spaces /\ fg \in Windows
  <1>1. fg \in Windows /\ home[fg] \in Spaces
    BY DEF Sound, Others, Commanded
  <1>2. home[fg][1] \in Monitors
    BY <1>1, SpaceIs
  <1>3. QED
    BY <1>1, <1>2 DEF Here, Sound, Others

\* A command on the tiles of the space in front.
LEMMA SoundCommand ==
  ASSUME Sound, Spend, Commanded, NEW t, Tidy(t), t.dirty, t.expected = ts[Here].expected,
         ts' = [ts EXCEPT ![Here] = t], retile' = TRUE, OnlyTiles
  PROVE  Sound' /\ Marked
  <1>1. Here \in Spaces /\ home' = home
    BY HereIs DEF OnlyTiles
  <1> DEFINE s == Here
  <1> HIDE DEF s
  <1>2. s \in Spaces /\ ts' = [ts EXCEPT ![s] = t] /\ t.expected = ts[s].expected
    BY <1>1 DEF s
  <1>3. AllTidy(ts') /\ Tracked' /\ Marked
    BY <1>1, <1>2, OneTile
  <1>4. budget' \in 0..Budget
    BY SpendIs
  <1>5. Others' /\ Dragging'
    BY <1>4 DEF OnlyTiles, world, Sound, Others, Dragging
  <1>6. QED
    BY <1>3, <1>5 DEF Sound

SplitTile(t, area) == [t EXCEPT !.split = Flipped(@, area), !.dirty = TRUE]

LEMMA SplitFields ==
  ASSUME NEW t, Tidy(t), NEW area
  PROVE  /\ Tidy(SplitTile(t, area)) /\ SplitTile(t, area).dirty
         /\ SplitTile(t, area).expected = t.expected
  <1>1. Flipped(t.split, area) \in {"auto", "side", "stacked"}
    BY DEF Flipped
  <1>2. QED
    BY <1>1 DEF Tidy, TileSpace, SplitTile

LEMMA SoundToggleSplit ==
  ASSUME Sound, ToggleSplit
  PROVE  Sound' /\ Marked
  <1> DEFINE s == Here
             t == SplitTile(ts[s], Area(s[1]))
  <1>1. s \in Spaces /\ Commanded
    BY HereIs DEF ToggleSplit
  <1>2. ts' = SplitToggled(s)
    BY DEF ToggleSplit
  <1> HIDE DEF s
  <1>3. ts' = [ts EXCEPT ![s] = t]
    BY <1>1, <1>2 DEF SplitToggled, SplitTile, Sound, AllTidy
  <1>4. Tidy(t) /\ t.dirty /\ t.expected = ts[s].expected
    BY <1>1, SplitFields DEF Sound, AllTidy
  <1> HIDE DEF t
  <1>5. Spend /\ retile' = TRUE /\ OnlyTiles
    BY DEF ToggleSplit
  <1>6. ts' = [ts EXCEPT ![Here] = t] /\ t.expected = ts[Here].expected
    BY <1>3, <1>4 DEF s
  <1>7. QED
    BY <1>1, <1>4, <1>5, <1>6, SoundCommand

RatioTile(t, delta) == [t EXCEPT !.ratio = ClampedRatio(@ + delta), !.dirty = TRUE]

LEMMA RatioFields ==
  ASSUME NEW t, Tidy(t), NEW delta \in Int
  PROVE  /\ Tidy(RatioTile(t, delta)) /\ RatioTile(t, delta).dirty
         /\ RatioTile(t, delta).expected = t.expected
  <1>1. ClampedRatio(t.ratio + delta) \in MinRatio..MaxRatio
    <2>1. t.ratio \in MinRatio..MaxRatio
      BY DEF Tidy, TileSpace
    <2>2. t.ratio + delta \in Int
      BY <2>1 DEF MinRatio, MaxRatio
    <2>3. \A i \in Int : ClampedRatio(i) \in MinRatio..MaxRatio
      BY DEF ClampedRatio, Larger, Smaller, MinRatio, MaxRatio
    <2>4. QED
      BY <2>2, <2>3
  <1>2. QED
    BY <1>1 DEF Tidy, TileSpace, RatioTile

LEMMA SoundAdjustRatio ==
  ASSUME Sound, NEW delta \in Int, AdjustRatio(delta)
  PROVE  Sound' /\ Marked
  <1> DEFINE s == Here
             t == RatioTile(ts[s], delta)
  <1>1. s \in Spaces /\ Commanded
    BY HereIs DEF AdjustRatio
  <1>2. ts' = [ts EXCEPT ![s].ratio = ClampedRatio(@ + delta), ![s].dirty = TRUE]
    BY DEF AdjustRatio
  <1> HIDE DEF s
  <1>3. ts' = [ts EXCEPT ![s] = t]
    BY <1>1, <1>2 DEF RatioTile, Sound, AllTidy
  <1>4. Tidy(t) /\ t.dirty /\ t.expected = ts[s].expected
    BY <1>1, RatioFields DEF Sound, AllTidy
  <1> HIDE DEF t
  <1>5. Spend /\ retile' = TRUE /\ OnlyTiles
    BY DEF AdjustRatio
  <1>6. ts' = [ts EXCEPT ![Here] = t] /\ t.expected = ts[Here].expected
    BY <1>3, <1>4 DEF s
  <1>7. QED
    BY <1>1, <1>4, <1>5, <1>6, SoundCommand

LEMMA BesideIs ==
  ASSUME Sound, NEW dir \in Dirs, Beside(dir) # None
  PROVE  /\ Commanded /\ Here \in Spaces
         /\ fg \in ToSet(ts[Here].order) /\ Beside(dir) \in ToSet(ts[Here].order)
         /\ Beside(dir) \in Windows
  <1> DEFINE t == ts[Here]
             tiles == Shown(t)
  <1>1. Commanded /\ home[fg] = Here /\ Beside(dir) = Neighbor(fg, dir, tiles, t.expected)
    BY DEF Beside
  <1>2. Here \in Spaces
    BY <1>1, HereIs
  <1>3. Tidy(t)
    BY <1>2 DEF Sound, AllTidy
  <1> HIDE DEF t
  <1>4. /\ tiles \in Seq(Windows)
        /\ \A w \in ToSet(tiles) : w \in ToSet(t.order) /\ t.expected[w] \in Rect
    BY <1>3, ShownIs
  <1> HIDE DEF tiles
  <1>5. fg \in ToSet(tiles)
    BY <1>1 DEF Neighbor
  <1>6. Beside(dir) \in ToSet(tiles)
    <2>1. \A w \in ToSet(tiles) : t.expected[w] \in Rect
      BY <1>4
    <2>2. Neighbor(fg, dir, tiles, t.expected) \in {None} \cup ToSet(tiles)
      BY <1>4, <2>1, NeighborIs
    <2>3. QED
      BY <1>1, <2>2
  <1>7. \A w \in ToSet(tiles) : w \in Windows
    BY <1>4 DEF ToSet
  <1>8. QED
    BY <1>1, <1>2, <1>4, <1>5, <1>6, <1>7 DEF t

SwapTile(t, i, j) == [t EXCEPT !.order = Swapped(@, i, j), !.dirty = TRUE]

LEMMA SwapFields ==
  ASSUME NEW t, Tidy(t), NEW i \in DOMAIN t.order, NEW j \in DOMAIN t.order
  PROVE  /\ Tidy(SwapTile(t, i, j)) /\ SwapTile(t, i, j).dirty
         /\ SwapTile(t, i, j).expected = t.expected
  <1>1. t.order \in Seq(Windows) /\ IsInjective(t.order) /\ t \in TileSpace
    BY DEF Tidy, TileSpace
  <1> DEFINE q == Swapped(t.order, i, j)
  <1>2. q \in Seq(Windows) /\ IsInjective(q)
    BY <1>1, SwappedIs
  <1>3. SwapTile(t, i, j) = [t EXCEPT !.order = q, !.dirty = TRUE]
    BY DEF SwapTile
  <1> HIDE DEF q
  <1> DEFINE u == [t EXCEPT !.order = q, !.dirty = TRUE]
  <1>4. u \in TileSpace /\ u.order = q /\ u.dirty /\ u.expected = t.expected
    BY <1>1, <1>2 DEF TileSpace
  <1> HIDE DEF u
  <1>5. QED
    BY <1>2, <1>3, <1>4 DEF Tidy, u

LEMMA SoundSwap ==
  ASSUME Sound, NEW dir \in Dirs, Swap(dir)
  PROVE  Sound' /\ Marked
  <1> DEFINE s == Here
             i == Index(ts[s].order, fg)
             j == Index(ts[s].order, Beside(dir))
             t == SwapTile(ts[s], i, j)
  <1>1. /\ s \in Spaces /\ Commanded
        /\ fg \in ToSet(ts[s].order) /\ Beside(dir) \in ToSet(ts[s].order)
    BY BesideIs DEF Swap
  <1>2. ts' = [ts EXCEPT ![s].order = Swapped(@, i, j), ![s].dirty = TRUE]
    BY DEF Swap
  <1> HIDE DEF s
  <1>3. ts' = [ts EXCEPT ![s] = t]
    <2> HIDE DEF i, j
    <2>1. QED
      BY <1>1, <1>2 DEF SwapTile, Sound, AllTidy
  <1>4. Tidy(ts[s]) /\ ts[s].order \in Seq(Windows)
    BY <1>1 DEF Sound, AllTidy, Tidy, TileSpace
  <1>5. i \in DOMAIN ts[s].order /\ j \in DOMAIN ts[s].order
    BY <1>1, <1>4, IndexIs
  <1> HIDE DEF i, j
  <1>6. Tidy(t) /\ t.dirty /\ t.expected = ts[s].expected
    BY <1>4, <1>5, SwapFields
  <1> HIDE DEF t
  <1>7. Spend /\ retile' = TRUE /\ OnlyTiles
    BY DEF Swap
  <1>8. ts' = [ts EXCEPT ![Here] = t] /\ t.expected = ts[Here].expected
    BY <1>3, <1>6 DEF s
  <1>9. QED
    BY <1>1, <1>6, <1>7, <1>8, SoundCommand

LEMMA SoundFocusTile ==
  ASSUME Sound, NEW dir \in Dirs, FocusTile(dir)
  PROVE  Sound' /\ Marked
  <1>1. fg' \in Windows
    BY BesideIs DEF FocusTile
  <1>2. Others' /\ Dragging'
    BY <1>1 DEF FocusTile, world, Sound, Others, Dragging
  <1>3. ts' = ts /\ home' = home
    BY DEF FocusTile
  <1>4. QED
    BY <1>2, <1>3, SameTiles DEF Sound

-----------------------------------------------------------------------------
(* Drags *)

LEMMA SoundDragStart ==
  ASSUME Sound, NEW w \in Windows, DragStart(w)
  PROVE  Sound' /\ Marked
  <1>1. home[w] \in Spaces /\ enabled
    BY DEF DragStart, Owned, Sound, Others
  <1>2. ts[home[w]].expected \in [Windows -> {None} \cup Rect] /\ frame[w] \in Rect
    BY <1>1 DEF Sound, AllTidy, Tidy, TileSpace, Others
  <1>3. drag' \in Drag /\ drag'.w = w
    BY <1>1, <1>2 DEF DragStart, Drag
  <1>4. budget' \in 0..Budget
    BY SpendIs DEF DragStart
  <1>5. None \notin Spaces
    BY NoneAssumption
  <1>6. Others' /\ Dragging'
    BY <1>1, <1>3, <1>4, <1>5 DEF DragStart, world, Sound, Others, Dragging
  <1>7. ts' = ts /\ home' = home
    BY DEF DragStart
  <1>8. QED
    BY <1>6, <1>7, SameTiles DEF Sound

LEMMA SoundDragMove ==
  ASSUME Sound, DragMove
  PROVE  Sound' /\ Marked
  <1>1. drag # None /\ drag \in Drag /\ drag.w \in Windows /\ home[drag.w] # None
    BY DEF DragMove, Sound, Others, Dragging, Drag
  <1>2. home' = home /\ (OnRestored(drag.w) \/ UNCHANGED <<ts, retile>>)
    BY DEF DragMove
  <1>3. AllTidy(ts') /\ Tracked' /\ Marked /\ retile' \in BOOLEAN
    <2>1. CASE OnRestored(drag.w)
      BY <1>1, <1>2, <2>1, OnRestoredIs
    <2>2. CASE UNCHANGED <<ts, retile>>
      BY <1>2, <2>2, SameTiles DEF Sound, Others
    <2>3. QED
      BY <1>2, <2>1, <2>2
  <1>4. Loose \in Rect
    BY DEF Loose, Rect
  <1>5. Others' /\ Dragging'
    BY <1>3, <1>4 DEF DragMove, Sound, Others, Dragging
  <1>6. QED
    BY <1>3, <1>5 DEF Sound

\* The tile is settled on anew, whatever the drop meant.
LEMMA ResolvedIs ==
  ASSUME NEW t, Tidy(t), NEW m, NEW does,
         does.does = "ratio" => does.ratio \in MinRatio..MaxRatio,
         does.does = "swap" => does.from \in DOMAIN t.order /\ does.to \in DOMAIN t.order
  PROVE  /\ Tidy(Resolved(t, m, does)) /\ Resolved(t, m, does).dirty
         /\ Resolved(t, m, does).expected = t.expected
  <1>1. ASSUME NEW u, Tidy(u), u.expected = t.expected, Resolved(t, m, does) = [u EXCEPT !.dirty = TRUE]
        PROVE  /\ Tidy(Resolved(t, m, does)) /\ Resolved(t, m, does).dirty
               /\ Resolved(t, m, does).expected = t.expected
    BY <1>1 DEF Tidy, TileSpace
  <1>2. t.order \in Seq(Windows) /\ IsInjective(t.order) /\ t \in TileSpace
    BY DEF Tidy, TileSpace
  <1>3. CASE does.does = "ratio"
    <2> DEFINE u == [t EXCEPT !.ratio = does.ratio]
    <2>1. Tidy(u) /\ u.expected = t.expected
      BY <1>3 DEF Tidy, TileSpace
    <2>2. Resolved(t, m, does) = [u EXCEPT !.dirty = TRUE]
      BY <1>3 DEF Resolved
    <2> HIDE DEF u
    <2>3. QED
      BY <2>1, <2>2, <1>1
  <1>4. CASE does.does = "swap"
    <2> DEFINE q == Swapped(t.order, does.from, does.to)
    <2>1. q \in Seq(Windows) /\ IsInjective(q)
      BY <1>2, <1>4, SwappedIs
    <2> HIDE DEF q
    <2> DEFINE u == [t EXCEPT !.order = q]
    <2>2. u \in TileSpace /\ u.order = q /\ u.expected = t.expected
      BY <1>2, <2>1 DEF TileSpace
    <2>3. Resolved(t, m, does) = [u EXCEPT !.dirty = TRUE]
      BY <1>4 DEF Resolved, q
    <2> HIDE DEF u
    <2>4. Tidy(u)
      BY <2>1, <2>2 DEF Tidy
    <2>5. QED
      BY <2>2, <2>3, <2>4, <1>1
  <1>5. CASE does.does = "toggle" /\ Len(t.order) >= 2
    <2> DEFINE u == [t EXCEPT !.split = Flipped(@, Area(m))]
    <2>1. Flipped(t.split, Area(m)) \in {"auto", "side", "stacked"}
      BY DEF Flipped
    <2>2. Tidy(u) /\ u.expected = t.expected
      BY <2>1 DEF Tidy, TileSpace
    <2>3. Resolved(t, m, does) = [u EXCEPT !.dirty = TRUE]
      BY <1>5 DEF Resolved
    <2> HIDE DEF u
    <2>4. QED
      BY <2>2, <2>3, <1>1
  <1>6. CASE does.does \notin {"ratio", "swap"} /\ ~(does.does = "toggle" /\ Len(t.order) >= 2)
    <2>1. Resolved(t, m, does) = [t EXCEPT !.dirty = TRUE]
      BY <1>6 DEF Resolved
    <2>2. QED
      BY <2>1, <1>1
  <1>7. QED
    BY <1>3, <1>4, <1>5, <1>6

LEMMA SoundDragEnd ==
  ASSUME Sound, NEW new \in Rect, NEW over, NEW shift \in BOOLEAN, DragEnd(new, over, shift)
  PROVE  Sound' /\ Marked /\ ts'[drag.at].dirty
  <1> DEFINE s     == drag.at
             tiles == Shown(ts[s])
             xs    == [k \in DOMAIN tiles |-> ts[s].expected[tiles[k]]]
             does  == Classify(Index(tiles, drag.w), drag.start, new, xs,
                               Index(tiles, over), shift, drag.fromMax, DragSlack)
             kept  == IF drag.fromMax THEN [ts[s] EXCEPT !.max = @ \ {drag.w}] ELSE ts[s]
  <1>1. /\ drag # None /\ drag \in Drag /\ drag.w \in Windows /\ s \in Spaces
        /\ drag.start \in Rect /\ drag.fromMax \in BOOLEAN /\ home[drag.w] # None /\ enabled
    BY DEF DragEnd, Sound, Others, Dragging, Drag
  <1>2. ts' = [ts EXCEPT ![s] = Resolved(kept, s[1], does)] /\ retile' = TRUE /\ home' = home
    BY <1>1 DEF DragEnd
  <1>3. Others' /\ Dragging'
    BY <1>1 DEF DragEnd, Sound, Others, Dragging
  <1> HIDE DEF s
  <1>4. Tidy(ts[s])
    BY <1>1 DEF Sound, AllTidy
  <1>5. Tidy(kept) /\ kept.expected = ts[s].expected /\ kept.order = ts[s].order
    BY <1>4 DEF Tidy, TileSpace
  <1> HIDE DEF kept
  <1>6. /\ tiles \in Seq(Windows) /\ Len(tiles) <= Len(ts[s].order)
        /\ \A w \in ToSet(tiles) : ts[s].expected[w] \in Rect
    BY <1>4, ShownIs
  <1> HIDE DEF tiles
  <1>7. xs \in Seq(Rect) /\ Len(xs) = Len(tiles)
    <2>1. DOMAIN tiles = 1..Len(tiles) /\ Len(tiles) \in Nat
      BY <1>6
    <2>2. \A k \in DOMAIN tiles : ts[s].expected[tiles[k]] \in Rect
      BY <1>6 DEF ToSet
    <2>3. xs \in [1..Len(tiles) -> Rect]
      BY <2>1, <2>2
    <2> HIDE DEF xs
    <2>4. xs \in Seq(Rect)
      BY <2>1, <2>3, SeqDef
    <2>5. QED
      BY <2>1, <2>3, <2>4
  <1> HIDE DEF xs
  <1>8. Index(tiles, drag.w) \in 0..Len(xs) /\ Index(tiles, over) \in 0..Len(xs)
    BY <1>6, <1>7, IndexIs
  <1>9. DragSlack \in Nat
    BY TilingAssumption
  <1>10. /\ does.does = "ratio" => does.ratio \in MinRatio..MaxRatio
         /\ does.does = "swap" => does.from \in 1..Len(xs) /\ does.to \in 1..Len(xs)
    BY <1>1, <1>7, <1>8, <1>9, ClassifyIs
  <1> HIDE DEF does
  <1>11. DOMAIN kept.order = 1..Len(kept.order) /\ Len(kept.order) \in Nat /\ Len(tiles) \in Nat
    BY <1>5, <1>6 DEF Tidy, TileSpace
  <1>12. does.does = "swap" => does.from \in DOMAIN kept.order /\ does.to \in DOMAIN kept.order
    BY <1>5, <1>6, <1>7, <1>10, <1>11
  <1> DEFINE t == Resolved(kept, s[1], does)
  <1>13. Tidy(t) /\ t.dirty /\ t.expected = ts[s].expected
    BY <1>5, <1>10, <1>12, ResolvedIs
  <1>14. ts' = [ts EXCEPT ![s] = t]
    BY <1>2
  <1> HIDE DEF t
  <1>15. AllTidy(ts') /\ Tracked' /\ Marked
    BY <1>1, <1>2, <1>13, <1>14, OneTile
  <1>16. ts'[s].dirty
    BY <1>1, <1>13, <1>14 DEF Sound, AllTidy
  <1>17. QED
    BY <1>3, <1>15, <1>16 DEF Sound, s

LEMMA MovedRect ==
  ASSUME NEW x \in Rect, NEW i \in Int, NEW j \in Int
  PROVE  [x EXCEPT !.l = i, !.r = j] \in Rect /\ [x EXCEPT !.r = i, !.b = j] \in Rect
  BY DEF Rect

\* A drop on a tile, on none, or of a window that was resized.
LEMMA DropIs ==
  ASSUME Sound,
         \/ \E over \in Windows \cup {None}, shift \in BOOLEAN : DropMoved(over, shift)
         \/ \E d \in Deltas : DropResized(d, 0) \/ DropResized(0, d)
  PROVE  \E new \in Rect, shift \in BOOLEAN : \E over : DragEnd(new, over, shift)
  <1> DEFINE x == drag.start
  <1>1. ASSUME NEW over, NEW shift \in BOOLEAN, DropMoved(over, shift)
        PROVE  \E y \in Rect, h \in BOOLEAN : \E o : DragEnd(y, o, h)
    <2>1. x \in Rect
      BY <1>1 DEF DropMoved, Sound, Others, Drag
    <2> DEFINE new == [x EXCEPT !.l = @ - 1, !.r = @ - 1]
    <2>2. DragEnd(new, over, shift)
      BY <1>1 DEF DropMoved
    <2> HIDE DEF x
    <2>3. new = [x EXCEPT !.l = x.l - 1, !.r = x.r - 1] /\ x.l - 1 \in Int /\ x.r - 1 \in Int
      BY <2>1 DEF Rect
    <2>4. new \in Rect
      BY <2>1, <2>3, MovedRect
    <2> HIDE DEF new
    <2>5. QED
      BY <1>1, <2>2, <2>4
  <1>2. ASSUME NEW dw \in Int, NEW dh \in Int, DropResized(dw, dh)
        PROVE  \E y \in Rect, h \in BOOLEAN : \E o : DragEnd(y, o, h)
    <2>1. x \in Rect
      BY <1>2 DEF DropResized, Sound, Others, Drag
    <2> DEFINE new == [x EXCEPT !.r = @ + dw, !.b = @ + dh]
    <2>2. DragEnd(new, None, FALSE) /\ FALSE \in BOOLEAN
      BY <1>2 DEF DropResized
    <2> HIDE DEF x
    <2>3. new = [x EXCEPT !.r = x.r + dw, !.b = x.b + dh] /\ x.r + dw \in Int /\ x.b + dh \in Int
      BY <2>1 DEF Rect
    <2>4. new \in Rect
      BY <2>1, <2>3, MovedRect
    <2> HIDE DEF new
    <2>5. QED
      BY <2>2, <2>4
  <1>3. Deltas \subseteq Int /\ 0 \in Int
    BY TilingAssumption
  <1>4. QED
    BY <1>1, <1>2, <1>3

LEMMA SoundDrop ==
  ASSUME Sound,
         \/ \E over \in Windows \cup {None}, shift \in BOOLEAN : DropMoved(over, shift)
         \/ \E d \in Deltas : DropResized(d, 0) \/ DropResized(0, d)
  PROVE  Sound' /\ Marked
  <1>1. PICK new \in Rect, shift \in BOOLEAN : \E over : DragEnd(new, over, shift)
    BY DropIs
  <1>2. QED
    BY <1>1, SoundDragEnd

LEMMA SoundDropElsewhere ==
  ASSUME Sound, NEW m \in Monitors, DropElsewhere(m)
  PROVE  Sound' /\ Marked
  <1> DEFINE s == <<m, current[m]>>
             w == drag.w
  <1>1. s \in Spaces /\ w \in Windows
    BY DEF DropElsewhere, Sound, Others, Drag
  <1>2. Track(w, s)
    BY DEF DropElsewhere
  <1> HIDE DEF s, w
  <1>3. /\ AllTidy(ts') /\ Tracked' /\ Marked
        /\ home' \in [Windows -> Spaces \cup {None}]
        /\ floating' \subseteq floating /\ auto' \subseteq auto
        /\ retile' = (retile \/ enabled)
    BY <1>1, <1>2, TrackIs
  <1>4. Others' /\ Dragging'
    BY <1>3 DEF DropElsewhere, world, Sound, Others, Dragging
  <1>5. QED
    BY <1>3, <1>4 DEF Sound

-----------------------------------------------------------------------------
(* The timers and the departed *)

LEMMA SoundPrune ==
  ASSUME Sound, Prune
  PROVE  Sound' /\ Marked /\ \A s \in Spaces : (\E w \in dead : home[w] = s) => ts'[s].dirty
  <1> DEFINE lost == {s \in Spaces : \E w \in dead : home[w] = s}
             only(f, none) == [w \in Windows |-> IF w \in dead THEN none ELSE f[w]]
             gone(t) == [t EXCEPT !.dirty = TRUE, !.expected = only(@, None),
                                  !.strikes = only(@, 0), !.flat = only(@, 0)]
  <1>1. /\ home' = only(home, None)
        /\ ts' = [s \in Spaces |-> IF s \notin lost THEN ts[s] ELSE gone(ts[s])]
    BY DEF Prune
  <1>2. ASSUME NEW t, Tidy(t)
        PROVE  /\ Tidy(gone(t)) /\ gone(t).dirty
               /\ gone(t).expected = only(t.expected, None)
    <2>1. /\ t.strikes \in [Windows -> 0..(StrikeLimit - 1)]
          /\ t.flat \in [Windows -> 0..(StrikeLimit - 1)]
          /\ t.expected \in [Windows -> {None} \cup Rect]
          /\ t \in TileSpace /\ IsInjective(t.order)
      BY <1>2 DEF Tidy, TileSpace
    <2>2. 0 \in 0..(StrikeLimit - 1)
      BY TilingAssumption
    <2> DEFINE e == only(t.expected, None)
               k == only(t.strikes, 0)
               f == only(t.flat, 0)
    <2>3. /\ e \in [Windows -> {None} \cup Rect]
          /\ k \in [Windows -> 0..(StrikeLimit - 1)]
          /\ f \in [Windows -> 0..(StrikeLimit - 1)]
      BY <2>1, <2>2
    <2>4. gone(t) = [t EXCEPT !.dirty = TRUE, !.expected = e, !.strikes = k, !.flat = f]
      BY <2>1 DEF TileSpace
    <2> HIDE DEF e, k, f, gone
    <2>5. gone(t) \in TileSpace /\ gone(t).order = t.order
      BY <2>1, <2>3, <2>4 DEF TileSpace
    <2>6. gone(t).dirty /\ gone(t).expected = e
      BY <2>1, <2>4 DEF TileSpace
    <2>7. QED
      BY <2>1, <2>5, <2>6 DEF Tidy, e
  <1> HIDE DEF gone
  <1>3. \A s \in Spaces : Tidy(ts[s])
    BY DEF Sound, AllTidy
  <1>4. AllTidy(ts') /\ Marked
    BY <1>1, <1>2, <1>3 DEF AllTidy, Marked
  <1>5. Tracked'
    <2>1. ASSUME NEW s \in Spaces, NEW w \in Windows, ts'[s].expected[w] # None
          PROVE  home'[w] = s
      <3>1. CASE s \notin lost
        <4>1. ts'[s] = ts[s]
          BY <1>1, <3>1
        <4>2. home[w] = s
          BY <2>1, <4>1 DEF Sound, Tracked
        <4>3. w \notin dead
          BY <3>1, <4>2
        <4>4. QED
          BY <1>1, <4>2, <4>3
      <3>2. CASE s \in lost
        <4>1. ts'[s].expected = only(ts[s].expected, None)
          BY <1>1, <1>2, <1>3, <3>2
        <4>2. w \notin dead /\ ts[s].expected[w] # None
          BY <2>1, <4>1
        <4>3. QED
          BY <1>1, <4>2 DEF Sound, Tracked
      <3>3. QED
        BY <3>1, <3>2
    <2>2. QED
      BY <2>1 DEF Tracked
  <1>6. Others'
    <2>1. home' \in [Windows -> Spaces \cup {None}]
      BY <1>1 DEF Sound, Others
    <2>2. QED
      BY <2>1 DEF Prune, Schedule, world, Sound, Others
  <1>7. Dragging'
    <2>1. drag' # None => drag' = drag /\ drag.w \notin dead /\ drag.w \in Windows
      BY DEF Prune, Sound, Others, Drag
    <2>2. drag' # None => home'[drag'.w] = home[drag.w]
      BY <1>1, <2>1
    <2>3. enabled' = enabled
      BY DEF Prune
    <2>4. QED
      BY <2>1, <2>2, <2>3 DEF Sound, Dragging
  <1>8. \A s \in lost : ts'[s].dirty
    BY <1>1, <1>2, <1>3
  <1>9. QED
    BY <1>4, <1>5, <1>6, <1>7, <1>8 DEF Sound

\* TIMER_RETILE, told space by space.
Laying ==
  /\ ts' = [s \in Spaces |-> IF s \in Due THEN Layout(s).tile ELSE ts[s]]
  /\ frame' = [w \in Windows |->
       IF \E s \in Due : w \in Layout(s).pushed
       THEN Lands(w, Layout(home[w]).tile.expected[w]) ELSE frame[w]]
  /\ zoomed' = zoomed \ UNION {Layout(s).flattened : s \in Due}
  /\ floating' = (floating \ UNION {Readmits(s) : s \in Due}) \cup UNION {Layout(s).struck : s \in Due}
  /\ auto' = (auto \ UNION {Readmits(s) : s \in Due}) \cup UNION {Layout(s).struck : s \in Due}
  /\ retile' = (UNION {Readmits(s) : s \in Due} # {} \/ \E s \in Due : Layout(s).tile.dirty)
  /\ untold' = {w \in untold : home[w] \notin Due}

Resting == retile' = FALSE /\ UNCHANGED <<ts, frame, zoomed, floating, auto, untold>>

LEMMA DueIs ==
  ASSUME NEW s \in Due
  PROVE  s \in Spaces /\ Visible(s) /\ ts[s].dirty /\ ~Held(s)
  BY DEF Due

LEMMA PushedHome ==
  ASSUME Sound, NEW s \in Due, NEW w \in Layout(s).pushed
  PROVE  /\ home[w] = s /\ w \in Windows /\ Layout(s).tile.expected[w] \in Rect
         /\ w \in Candidates(s, floating \ Readmits(s))
  <1>1. s \in Spaces /\ Tidy(ts[s])
    BY DueIs DEF Sound, AllTidy
  <1> DEFINE out == Layout(s)
             cands == Candidates(s, floating \ Readmits(s))
  <1>2. /\ ToSet(out.tile.order) \subseteq cands
        /\ out.pushed = ToSet(out.tile.order) \ out.tile.max
        /\ \A x \in ToSet(out.tile.order) : out.tile.expected[x] \in Rect
    BY <1>1, LayoutIs
  <1>3. \A x \in cands : home[x] = s /\ x \in Windows
    BY DEF Candidates
  <1> HIDE DEF out, cands
  <1>4. w \in out.pushed
    BY DEF out
  <1>5. QED
    BY <1>2, <1>3, <1>4 DEF out, cands

LEMMA RetileIs ==
  ASSUME Sound, Retile
  PROVE  /\ retile /\ verify' = TRUE
         /\ UNCHANGED <<kind, home, dead, iconic, sticky, current, fg, drag, enabled, budget>>
         /\ enabled => Laying
         /\ ~enabled => Resting
  <1>1. /\ retile /\ verify' = TRUE
        /\ UNCHANGED <<kind, home, dead, iconic, sticky, current, fg, drag, enabled, budget>>
    BY DEF Retile
  <1> DEFINE out == [s \in Due |-> Layout(s)]
             back   == UNION {Readmits(s) : s \in Due}
             struck == UNION {out[s].struck : s \in Due}
  <1>2. IF enabled
        THEN /\ ts' = [s \in Spaces |-> IF s \in Due THEN out[s].tile ELSE ts[s]]
             /\ frame' = [w \in Windows |->
                  IF \E s \in Due : w \in out[s].pushed
                  THEN Lands(w, out[home[w]].tile.expected[w]) ELSE frame[w]]
             /\ zoomed' = zoomed \ UNION {out[s].flattened : s \in Due}
             /\ floating' = (floating \ back) \cup struck
             /\ auto' = (auto \ back) \cup struck
             /\ retile' = (back # {} \/ \E s \in Due : out[s].tile.dirty)
             /\ untold' = {w \in untold : home[w] \notin Due}
        ELSE retile' = FALSE /\ UNCHANGED <<ts, frame, zoomed, floating, auto, untold>>
    BY DEF Retile
  <1>3. \A s \in Due : out[s] = Layout(s)
    OBVIOUS
  <1> HIDE DEF out
  <1>4. CASE enabled
    <2>1. struck = UNION {Layout(s).struck : s \in Due}
      BY <1>3
    <2>2. UNION {out[s].flattened : s \in Due} = UNION {Layout(s).flattened : s \in Due}
      BY <1>3
    <2>3. (\E s \in Due : out[s].tile.dirty) <=> (\E s \in Due : Layout(s).tile.dirty)
      BY <1>3
    <2>4. ts' = [s \in Spaces |-> IF s \in Due THEN Layout(s).tile ELSE ts[s]]
      BY <1>2, <1>3, <1>4
    <2>5. frame' = [w \in Windows |->
                  IF \E s \in Due : w \in Layout(s).pushed
                  THEN Lands(w, Layout(home[w]).tile.expected[w]) ELSE frame[w]]
      <3>1. \A w \in Windows :
              (\E s \in Due : w \in out[s].pushed) <=> (\E s \in Due : w \in Layout(s).pushed)
        BY <1>3
      <3>2. \A w \in Windows : (\E s \in Due : w \in Layout(s).pushed) =>
              out[home[w]] = Layout(home[w])
        BY <1>3, PushedHome
      <3>3. QED
        BY <1>2, <1>4, <3>1, <3>2
    <2> HIDE DEF struck, back
    <2>6. /\ zoomed' = zoomed \ UNION {Layout(s).flattened : s \in Due}
          /\ floating' = (floating \ back) \cup UNION {Layout(s).struck : s \in Due}
          /\ auto' = (auto \ back) \cup UNION {Layout(s).struck : s \in Due}
          /\ retile' = (back # {} \/ \E s \in Due : Layout(s).tile.dirty)
          /\ untold' = {w \in untold : home[w] \notin Due}
      BY <1>2, <1>4, <2>1, <2>2, <2>3
    <2>7. QED
      BY <1>1, <1>4, <2>4, <2>5, <2>6 DEF Laying, back
  <1>5. CASE ~enabled
    BY <1>1, <1>2, <1>5 DEF Resting
  <1>6. QED
    BY <1>4, <1>5

LEMMA LandsType ==
  ASSUME Sound, NEW w \in Windows, NEW x \in Rect
  PROVE  Lands(w, x) \in Rect
  <1>1. kind[w] \in {"yields", "clamps", "elevated"} /\ frame[w] \in Rect /\ MinSize \in Nat
    BY TilingAssumption DEF Sound, Others
  <1>2. Larger(x.r, x.l + MinSize) \in Int /\ Larger(x.b, x.t + MinSize) \in Int
    BY <1>1 DEF Rect, Larger
  <1>3. [x EXCEPT !.r = Larger(@, x.l + MinSize), !.b = Larger(@, x.t + MinSize)] =
          [x EXCEPT !.r = Larger(x.r, x.l + MinSize), !.b = Larger(x.b, x.t + MinSize)]
    BY DEF Rect
  <1>4. [x EXCEPT !.r = Larger(x.r, x.l + MinSize), !.b = Larger(x.b, x.t + MinSize)] \in Rect
    BY <1>2, MovedRect
  <1>5. QED
    BY <1>1, <1>3, <1>4 DEF Lands

LEMMA SoundRetile ==
  ASSUME Sound, Retile
  PROVE  Sound'
  <1>1. /\ retile /\ verify' = TRUE
        /\ UNCHANGED <<kind, home, dead, iconic, sticky, current, fg, drag, enabled, budget>>
    BY RetileIs
  <1>2. Dragging'
    BY <1>1 DEF Sound, Dragging
  <1>3. CASE enabled
    <2>1. Laying
      BY <1>3, RetileIs
    <2>2. \A s \in Spaces : ts'[s] = IF s \in Due THEN Layout(s).tile ELSE ts[s]
      BY <2>1 DEF Laying
    <2>3. ASSUME NEW s \in Due
          PROVE  /\ s \in Spaces /\ Tidy(Layout(s).tile)
                 /\ Layout(s).struck \subseteq Windows
                 /\ Layout(s).tile.dirty \in BOOLEAN
                 /\ \A w \in Windows : Layout(s).tile.expected[w] # None => home[w] = s
      <3>1. s \in Spaces /\ Tidy(ts[s])
        BY DueIs DEF Sound, AllTidy
      <3> DEFINE out == Layout(s)
                 cands == Candidates(s, floating \ Readmits(s))
      <3>2. /\ Tidy(out.tile) /\ out.struck \subseteq cands
            /\ ToSet(out.tile.order) \subseteq cands
            /\ \A w \in Windows : out.tile.expected[w] # None => w \in ToSet(out.tile.order)
        BY <3>1, LayoutIs
      <3>3. \A x \in cands : home[x] = s /\ x \in Windows
        BY DEF Candidates
      <3> HIDE DEF out, cands
      <3>4. out.tile.dirty \in BOOLEAN
        BY <3>2 DEF Tidy, TileSpace
      <3>5. QED
        BY <3>1, <3>2, <3>3, <3>4 DEF out
    <2>4. AllTidy(ts')
      <3>1. ts' = [s \in Spaces |-> ts'[s]]
        BY <2>1 DEF Laying
      <3>2. \A s \in Spaces : Tidy(ts'[s])
        BY <2>2, <2>3 DEF Sound, AllTidy
      <3>3. QED
        BY <3>1, <3>2 DEF AllTidy
    <2>5. Tracked'
      BY <1>1, <2>2, <2>3 DEF Sound, Tracked
    <2>6. frame' \in [Windows -> Rect]
      <3>1. ASSUME NEW w \in Windows, \E s \in Due : w \in Layout(s).pushed
            PROVE  Lands(w, Layout(home[w]).tile.expected[w]) \in Rect
        <4>1. Layout(home[w]).tile.expected[w] \in Rect
          BY <3>1, PushedHome
        <4>2. QED
          BY <4>1, LandsType
      <3>2. QED
        BY <2>1, <3>1 DEF Laying, Sound, Others
    <2>7. zoomed' \subseteq Windows /\ floating' \subseteq Windows /\ auto' \subseteq Windows
          /\ untold' \subseteq Windows
      BY <2>1, <2>3 DEF Laying, Sound, Others
    <2>8. retile' \in BOOLEAN
      BY <2>1, <2>3 DEF Laying
    <2>9. Others'
      BY <1>1, <2>6, <2>7, <2>8 DEF Sound, Others
    <2>10. QED
      BY <1>2, <2>4, <2>5, <2>9 DEF Sound
  <1>4. CASE ~enabled
    <2>1. Resting
      BY <1>4, RetileIs
    <2>2. AllTidy(ts') /\ Tracked' /\ Marked
      BY <1>1, <2>1, SameTiles DEF Resting
    <2>3. Others'
      BY <1>1, <2>1 DEF Resting, Sound, Others
    <2>4. QED
      BY <1>2, <2>2, <2>3 DEF Sound
  <1>5. QED
    BY <1>3, <1>4 DEF Sound, Others

Swept ==
  /\ ts' = [s \in Spaces |-> Sweep(s).tile]
  /\ floating' = floating \cup UNION {Sweep(s).out : s \in Spaces}
  /\ auto' = auto \cup UNION {Sweep(s).out : s \in Spaces}
  /\ retile' = (retile \/ \E s \in Spaces : Sweep(s).again)

LEMMA VerifyIs ==
  ASSUME Verify
  PROVE  /\ verify' = FALSE
         /\ UNCHANGED <<kind, home, dead, world, sticky, current, fg, drag, enabled, untold, budget>>
         /\ enabled => Swept
         /\ ~enabled => UNCHANGED <<ts, floating, auto, retile>>
  <1> DEFINE sweep == [s \in Spaces |-> Sweep(s)]
  <1>1. /\ verify' = FALSE
        /\ UNCHANGED <<kind, home, dead, world, sticky, current, fg, drag, enabled, untold, budget>>
    BY DEF Verify
  <1>2. IF enabled
        THEN /\ ts' = [s \in Spaces |-> sweep[s].tile]
             /\ floating' = floating \cup UNION {sweep[s].out : s \in Spaces}
             /\ auto' = auto \cup UNION {sweep[s].out : s \in Spaces}
             /\ retile' = (retile \/ \E s \in Spaces : sweep[s].again)
        ELSE UNCHANGED <<ts, floating, auto, retile>>
    BY DEF Verify
  <1>3. \A s \in Spaces : sweep[s] = Sweep(s)
    OBVIOUS
  <1> HIDE DEF sweep
  <1>4. UNION {sweep[s].out : s \in Spaces} = UNION {Sweep(s).out : s \in Spaces}
    BY <1>3
  <1>5. (\E s \in Spaces : sweep[s].again) <=> (\E s \in Spaces : Sweep(s).again)
    BY <1>3
  <1>6. [s \in Spaces |-> sweep[s].tile] = [s \in Spaces |-> Sweep(s).tile]
    BY <1>3
  <1>7. QED
    BY <1>1, <1>2, <1>4, <1>5, <1>6 DEF Swept

LEMMA SoundVerify ==
  ASSUME Sound, Verify
  PROVE  Sound'
  <1>1. /\ verify' = FALSE
        /\ UNCHANGED <<kind, home, dead, world, sticky, current, fg, drag, enabled, untold, budget>>
    BY VerifyIs
  <1>2. Dragging'
    BY <1>1 DEF Sound, Dragging
  <1>3. CASE enabled
    <2>1. Swept
      BY <1>3, VerifyIs
    <2>2. ASSUME NEW s \in Spaces
          PROVE  /\ Tidy(Sweep(s).tile) /\ Sweep(s).out \subseteq Windows
                 /\ Sweep(s).again \in BOOLEAN
                 /\ \A w \in Windows : Sweep(s).tile.expected[w] # None => ts[s].expected[w] # None
      <3>1. Tidy(ts[s])
        BY DEF Sound, AllTidy
      <3> DEFINE out == Sweep(s)
      <3>2. /\ Tidy(out.tile) /\ (\A w \in out.out : w \in Windows)
            /\ out.again \in BOOLEAN
            /\ \A w \in Windows : out.tile.expected[w] # None => ts[s].expected[w] # None
        BY <3>1, SweepIs
      <3> HIDE DEF out
      <3>3. QED
        BY <3>2 DEF out
    <2>3. AllTidy(ts')
      BY <2>1, <2>2 DEF Swept, AllTidy
    <2>4. Tracked'
      BY <1>1, <2>1, <2>2 DEF Swept, Sound, Tracked
    <2>5. floating' \subseteq Windows /\ auto' \subseteq Windows /\ retile' \in BOOLEAN
      BY <2>1, <2>2 DEF Swept, Sound, Others
    <2>6. Others'
      BY <1>1, <2>5 DEF world, Sound, Others
    <2>7. QED
      BY <1>2, <2>3, <2>4, <2>6 DEF Sound
  <1>4. CASE ~enabled
    <2>1. ts' = ts /\ floating' = floating /\ auto' = auto /\ retile' = retile
      BY <1>4, VerifyIs
    <2>2. AllTidy(ts') /\ Tracked' /\ Marked
      BY <1>1, <2>1, SameTiles
    <2>3. Others'
      BY <1>1, <2>1 DEF world, Sound, Others
    <2>4. QED
      BY <1>2, <2>2, <2>3 DEF Sound
  <1>5. QED
    BY <1>3, <1>4 DEF Sound, Others

-----------------------------------------------------------------------------
(* Types, places and tiles *)

LEMMA SoundUser ==
  ASSUME Sound, User
  PROVE  Sound' /\ (enabled' => Marked)
  <1>1. ASSUME NEW w \in Windows, NEW m \in Monitors, NEW big \in BOOLEAN, Open(w, m, big)
        PROVE  Sound' /\ Marked
    BY <1>1, SoundOpen
  <1>2. ASSUME NEW w \in Windows,
               \/ Close(w) \/ Minimize(w) \/ Maximize(w) \/ Unmaximize(w)
               \/ TogglePin(w) \/ Activate(w) \/ ToggleFloat(w) \/ DragStart(w)
        PROVE  Sound' /\ (enabled' => Marked)
    BY <1>2, SoundClose, SoundMinimize, SoundMaximize, SoundUnmaximize, SoundTogglePin,
       SoundActivate, SoundToggleFloat, SoundDragStart
  <1>3. ASSUME NEW w \in Windows, NEW s \in Spaces, Send(w, s) PROVE Sound' /\ Marked
    BY <1>3, SoundSend
  <1>4. ASSUME NEW s \in Spaces, SwitchSpace(s[1], s[2]) PROVE Sound' /\ Marked
    BY <1>4, SoundSwitchSpace
  <1>5. ASSUME ToggleTiling \/ ToggleSplit PROVE Sound' /\ (enabled' => Marked)
    BY <1>5, SoundToggleTiling, SoundToggleSplit
  <1>6. ASSUME NEW delta \in {-1, 1}, AdjustRatio(delta) PROVE Sound' /\ Marked
    <2>1. delta \in Int
      OBVIOUS
    <2>2. QED
      BY <1>6, <2>1, SoundAdjustRatio
  <1>7. ASSUME NEW dir \in Dirs, Swap(dir) \/ FocusTile(dir) PROVE Sound' /\ Marked
    BY <1>7, SoundSwap, SoundFocusTile
  <1>8. ASSUME DragMove PROVE Sound' /\ Marked
    BY <1>8, SoundDragMove
  <1>9. CASE \/ \E over \in Windows \cup {None}, shift \in BOOLEAN : DropMoved(over, shift)
             \/ \E d \in Deltas : DropResized(d, 0) \/ DropResized(0, d)
    BY <1>9, SoundDrop
  <1>10. ASSUME NEW m \in Monitors, DropElsewhere(m) PROVE Sound' /\ Marked
    BY <1>10, SoundDropElsewhere
  <1>11. QED
    BY <1>1, <1>2, <1>3, <1>4, <1>5, <1>6, <1>7, <1>8, <1>9, <1>10 DEF User

LEMMA SoundInit ==
  ASSUME Init
  PROVE  Sound
  <1> DEFINE t == [NewTileSpace EXCEPT !.dirty = TRUE]
  <1>1. NoFrames \in [Windows -> {None} \cup Rect] /\ NoStrikes \in [Windows -> 0..(StrikeLimit - 1)]
        /\ DefaultRatio \in MinRatio..MaxRatio /\ <<>> \in Seq(Windows)
    BY TilingAssumption DEF NoFrames, NoStrikes, DefaultRatio, MinRatio, MaxRatio
  <1>2. t \in TileSpace /\ t.order = <<>> /\ t.expected = NoFrames
    BY <1>1 DEF TileSpace, NewTileSpace
  <1>3. ts = [s \in Spaces |-> t]
    BY DEF Init
  <1> HIDE DEF t
  <1>4. Tidy(t)
    BY <1>2 DEF Tidy, IsInjective
  <1>5. AllTidy(ts) /\ Tracked
    BY <1>2, <1>3, <1>4 DEF AllTidy, Tracked, NoFrames
  <1>6. \A m \in Monitors : <<m, 1>> \in Spaces
    BY TilingAssumption DEF Spaces, Monitors
  <1>7. home \in [Windows -> Spaces \cup {None}]
    BY <1>6 DEF Init
  <1>8. zoomed \subseteq Windows /\ fg \in Windows \cup {None} /\ budget \in 0..Budget
    BY TilingAssumption DEF Init
  <1>9. current \in [Monitors -> Nat] /\ \A m \in Monitors : <<m, current[m]>> \in Spaces
    BY <1>6 DEF Init
  <1>10. frame \in [Windows -> Rect]
    BY DEF Init, Loose, Rect
  <1>11. Others /\ Dragging
    BY <1>7, <1>8, <1>9, <1>10 DEF Init, Others, Dragging
  <1>12. QED
    BY <1>5, <1>11 DEF Sound

LEMMA SoundNext ==
  ASSUME Sound, [Next]_vars
  PROVE  Sound'
  <1>1. CASE User
    BY <1>1, SoundUser
  <1>2. CASE Prune
    BY <1>2, SoundPrune
  <1>3. CASE Verify
    BY <1>3, SoundVerify
  <1>4. CASE Retile
    BY <1>4, SoundRetile
  <1>5. CASE UNCHANGED vars
    BY <1>5 DEF vars, world, Sound, Others, Tracked, Dragging
  <1>6. QED
    BY <1>1, <1>2, <1>3, <1>4, <1>5 DEF Next

Counted == rounds \in Nat

LEMMA RoundsNext ==
  ASSUME Counted, [Next]_vars
  PROVE  Counted'
  BY DEF Next, vars, Counted

\* Every variable keeps its type, strikes stay below the limit, no window has
\* two slots of a space, a window has its place only on the space that tracks
\* it, and only a tracked window is ever dragged, with the tiler on (TileSpace,
\* reconcile_order, detach_window, tiling_on_movesize_start).
THEOREM TypeCorrect == Spec => [](TypeOK /\ Sound)
  <1>1. Init => Sound /\ Counted
    <2>1. Init => Counted
      BY DEF Init, Counted
    <2>2. QED
      BY <2>1, SoundInit
  <1>2. Sound /\ Counted /\ [Next]_vars => Sound' /\ Counted'
    BY SoundNext, RoundsNext
  <1>3. Sound /\ Counted => TypeOK /\ Sound
    BY SoundTypeOK DEF Counted
  <1>4. QED
    BY <1>1, <1>2, <1>3, PTL DEF Spec

\* With room for all the windows there are, whatever the number of tiles of a
\* space, their order, its ratio, direction and display, the tiles lie in the
\* area, do not overlap, and the last one ends at its right and bottom edges
\* (compute_dwindle).
THEOREM TilesPartitionCorrect ==
  ASSUME Roomy
  PROVE  Spec => []TilesPartition
  <1>1. ASSUME Sound PROVE TilesPartition
    <2>1. ASSUME NEW s \in Spaces
          PROVE  LET area == Area(s[1])
                     xs   == Rects(s[1], ts[s])
                 IN  /\ \A k \in DOMAIN xs : /\ area.l <= xs[k].l /\ xs[k].r <= area.r
                                             /\ area.t <= xs[k].t /\ xs[k].b <= area.b
                                             /\ xs[k].l < xs[k].r /\ xs[k].t < xs[k].b
                     /\ \A j, k \in DOMAIN xs : j # k => Disjoint(xs[j], xs[k])
                     /\ xs # <<>> => xs[Len(xs)].r = area.r /\ xs[Len(xs)].b = area.b
      <3>1. s[1] \in Monitors /\ Tidy(ts[s])
        BY <1>1, SpaceIs DEF Sound, AllTidy
      <3>2. /\ ts[s].order \in Seq(Windows) /\ IsInjective(ts[s].order)
            /\ ts[s].ratio \in MinRatio..MaxRatio
        BY <3>1 DEF Tidy, TileSpace
      <3>3. Partition(Area(s[1]), Rects(s[1], ts[s]))
        BY <1>1, <3>1, <3>2, RectsPartition
      <3>4. QED
        BY <3>3 DEF Partition, Inside, Solid
    <2>2. QED
      BY <2>1 DEF TilesPartition
  <1>2. Init => Sound
    BY SoundInit
  <1>3. Sound /\ [Next]_vars => Sound'
    BY SoundNext
  <1>4. Sound => TilesPartition
    BY <1>1
  <1>5. QED
    BY <1>2, <1>3, <1>4, PTL DEF Spec

-----------------------------------------------------------------------------
(* Floats *)

LEMMA TrackKeepsFloats ==
  ASSUME NEW w, NEW s, Track(w, s)
  PROVE  floating \ auto \subseteq floating'
  BY DEF Track, Readmitted

LEMMA UserKeepsFloats ==
  ASSUME User, NEW w \in floating \ auto
  PROVE  w \in floating' \/ ToggleFloat(w)
  <1>1. ASSUME NEW v, NEW m, NEW big, Open(v, m, big) PROVE w \in floating'
    BY <1>1, TrackKeepsFloats DEF Open
  <1>2. ASSUME NEW v,
               \/ Close(v) \/ Minimize(v) \/ Maximize(v) \/ Unmaximize(v)
               \/ Activate(v) \/ DragStart(v)
        PROVE  w \in floating'
    BY <1>2 DEF Close, Minimize, Maximize, Unmaximize, Activate, DragStart
  <1>3. ASSUME NEW v, TogglePin(v) PROVE w \in floating'
    BY <1>3, TrackKeepsFloats DEF TogglePin
  <1>4. ASSUME NEW v, ToggleFloat(v) PROVE w \in floating' \/ ToggleFloat(w)
    BY <1>4 DEF ToggleFloat
  <1>5. ASSUME NEW v, NEW s, Send(v, s) PROVE w \in floating'
    BY <1>5, TrackKeepsFloats DEF Send
  <1>6. ASSUME \/ ToggleTiling \/ ToggleSplit \/ DragMove
               \/ \E m, i : SwitchSpace(m, i)
               \/ \E delta : AdjustRatio(delta)
               \/ \E dir : Swap(dir) \/ FocusTile(dir)
        PROVE  w \in floating'
    BY <1>6 DEF ToggleTiling, ToggleSplit, DragMove, SwitchSpace, AdjustRatio, Swap, FocusTile,
                OnlyTiles
  <1>7. ASSUME \E new, over, shift : DragEnd(new, over, shift) PROVE w \in floating'
    BY <1>7 DEF DragEnd
  <1>8. (\E over, shift : DropMoved(over, shift)) \/ (\E dw, dh : DropResized(dw, dh))
          => \E new, over, shift : DragEnd(new, over, shift)
    BY DEF DropMoved, DropResized
  <1>9. ASSUME NEW m, DropElsewhere(m) PROVE w \in floating'
    BY <1>9, TrackKeepsFloats DEF DropElsewhere
  <1>10. QED
    BY <1>1, <1>2, <1>3, <1>4, <1>5, <1>6, <1>7, <1>8, <1>9 DEF User

\* What the user has floated stays afloat until the user says otherwise, or
\* the window is gone: neither a move nor a retile nor a verification takes
\* that back (readmit_auto_floated, readmit_if_space_grew).
THEOREM FloatDecisionStandsCorrect == Spec => FloatDecisionStands
  <1>1. ASSUME Sound, Next, NEW w \in (floating \ auto) \ dead
        PROVE  w \in floating' \/ ToggleFloat(w)
    <2>1. CASE User
      BY <2>1, UserKeepsFloats
    <2>2. CASE Prune
      BY <2>2 DEF Prune
    <2>3. CASE Verify
      BY <2>3, VerifyIs DEF Swept
    <2>4. CASE Retile
      <3>1. CASE enabled
        <4>1. \A s \in Due : Readmits(s) \subseteq auto
          BY DEF Readmits
        <4>2. QED
          BY <1>1, <2>4, <3>1, <4>1, RetileIs DEF Laying
      <3>2. CASE ~enabled
        BY <1>1, <2>4, <3>2, RetileIs DEF Resting
      <3>3. QED
        BY <3>1, <3>2
    <2>5. QED
      BY <1>1, <2>1, <2>2, <2>3, <2>4 DEF Next
  <1>2. Sound /\ [Next]_vars =>
          [\A w \in (floating \ auto) \ dead : w \in floating' \/ ToggleFloat(w)]_vars
    BY <1>1
  <1>3. Init => Sound
    BY SoundInit
  <1>4. Sound /\ [Next]_vars => Sound'
    BY SoundNext
  <1>5. QED
    BY <1>2, <1>3, <1>4, PTL DEF Spec, FloatDecisionStands

-----------------------------------------------------------------------------
(* What settles *)

\* A visible space that is dirty is going to be laid out, unless it is held.
Asked == enabled => \A s \in Spaces : Visible(s) /\ ts[s].dirty => retile \/ Held(s)

\* Nothing has changed on a space that the tiler has not been told of.
Known(s) == ~ts[s].dirty /\ \A w \in dead \cup untold : home[w] # s

InHand(w) == drag # None /\ drag.w = w

\* The slots of a space are held by those that can hold one, and they are in
\* their places, maximized, or in the hand of the user.
Settled(s) ==
  /\ ToSet(ts[s].order) = Candidates(s, floating)
  /\ \A w \in Candidates(s, floating) : ~InHand(w) =>
       /\ w \in ts[s].max => w \in zoomed
       /\ kind[w] = "yields" /\ w \notin ts[s].max =>
            frame[w] = Rects(s[1], ts[s])[Index(ts[s].order, w)]

KnownSettled == enabled => \A s \in Spaces : Known(s) => Settled(s)

LEMMA RectsSame ==
  ASSUME NEW m, NEW t, NEW u, t.order = u.order, t.ratio = u.ratio, t.split = u.split
  PROVE  Rects(m, t) = Rects(m, u)
  BY DEF Rects

\* A step that has to do with other windows only.
Away(s) ==
  /\ \A w \in Windows : home[w] = s /\ w \in dead \cup untold
                          => home'[w] = s /\ w \in dead' \cup untold'
  /\ \A w \in Windows :
       home'[w] = s /\ w \notin dead' =>
         /\ home[w] = s /\ w \notin dead
         /\ w \in sticky' <=> w \in sticky
         /\ w \in iconic' <=> w \in iconic
         /\ w \in floating' <=> w \in floating
  /\ \A w \in Windows :
       home[w] = s /\ w \notin dead => home'[w] = s /\ w \notin dead'
  /\ \A w \in Candidates(s, floating) : ~InHand(w)' =>
       ~InHand(w) /\ frame'[w] = frame[w] /\ (w \in ts[s].max /\ w \in zoomed => w \in zoomed')

LEMMA AwayKnown ==
  ASSUME Sound, NEW s \in Spaces, ts'[s] = ts[s], Known(s)', Away(s)
  PROVE  Known(s)
  <1>1. dead \subseteq Windows /\ untold \subseteq Windows /\ ~ts[s].dirty
    BY DEF Sound, Others, Known
  <1>2. ASSUME NEW w \in dead \cup untold, home[w] = s PROVE FALSE
    <2>1. home'[w] = s /\ w \in dead' \cup untold'
      BY <1>1, <1>2 DEF Away
    <2>2. QED
      BY <2>1 DEF Known
  <1>3. QED
    BY <1>1, <1>2 DEF Known

LEMMA AwayCandidates ==
  ASSUME NEW s \in Spaces, Away(s)
  PROVE  Candidates(s, floating)' = Candidates(s, floating)
  <1>1. ASSUME NEW w \in Windows, w \in Candidates(s, floating)'
        PROVE  w \in Candidates(s, floating)
    <2>1. home'[w] = s /\ w \notin dead' /\ w \notin sticky' /\ w \notin iconic'
          /\ w \notin floating' /\ w \notin FloatRuled
      BY <1>1 DEF Candidates, Floating
    <2>2. QED
      BY <2>1 DEF Away, Candidates, Floating
  <1>2. ASSUME NEW w \in Windows, w \in Candidates(s, floating)
        PROVE  w \in Candidates(s, floating)'
    <2>1. home[w] = s /\ w \notin dead /\ w \notin sticky /\ w \notin iconic
          /\ w \notin floating /\ w \notin FloatRuled
      BY <1>2 DEF Candidates, Floating
    <2>2. home'[w] = s /\ w \notin dead'
      BY <2>1 DEF Away
    <2>3. w \notin sticky' /\ w \notin iconic' /\ w \notin floating'
      BY <2>1, <2>2 DEF Away
    <2>4. QED
      BY <2>1, <2>2, <2>3 DEF Candidates, Floating
  <1>3. Candidates(s, floating) \subseteq Windows /\ Candidates(s, floating)' \subseteq Windows
    BY DEF Candidates
  <1>4. QED
    BY <1>1, <1>2, <1>3

LEMMA StaysSettled ==
  ASSUME Sound, KnownSettled, enabled, NEW s \in Spaces, ts'[s] = ts[s], Known(s)', Away(s),
         kind' = kind
  PROVE  Settled(s)'
  <1>1. Known(s)
    BY AwayKnown
  <1>2. Settled(s)
    BY <1>1 DEF KnownSettled
  <1>3. Candidates(s, floating)' = Candidates(s, floating)
    BY AwayCandidates
  <1>4. Rects(s[1], ts[s])' = Rects(s[1], ts[s])
    BY DEF Rects
  <1>5. ASSUME NEW w \in Candidates(s, floating), ~InHand(w)'
        PROVE  /\ w \in ts[s].max => w \in zoomed'
               /\ kind[w] = "yields" /\ w \notin ts[s].max =>
                    frame'[w] = Rects(s[1], ts[s])[Index(ts[s].order, w)]
    BY <1>2, <1>5 DEF Settled, Away
  <1>6. QED
    BY <1>2, <1>3, <1>4, <1>5 DEF Settled

\* What a user's action does to the request and to the spaces that stay clean.
Heeded ==
  /\ retile => retile'
  /\ enabled' => \/ retile'
                 \/ enabled /\ ts' = ts /\ current' = current /\ (drag' = drag \/ drag = None)
  /\ enabled' => \A s \in Spaces : Known(s)' => enabled /\ ts'[s] = ts[s] /\ Away(s)

LEMMA HeededAsked ==
  ASSUME Asked, Heeded
  PROVE  Asked'
  <1>1. ASSUME enabled', ~retile', NEW s \in Spaces, Visible(s)', ts'[s].dirty
        PROVE  Held(s)'
    <2>1. enabled /\ ts' = ts /\ current' = current /\ (drag' = drag \/ drag = None) /\ ~retile
      BY <1>1 DEF Heeded
    <2>2. Visible(s) /\ ts[s].dirty
      BY <1>1, <2>1 DEF Visible
    <2>3. Held(s)
      BY <2>1, <2>2 DEF Asked
    <2>4. QED
      BY <2>1, <2>3 DEF Held
  <1>2. QED
    BY <1>1 DEF Asked

LEMMA HeededSettled ==
  ASSUME Sound, KnownSettled, Heeded, kind' = kind
  PROVE  KnownSettled'
  <1>1. ASSUME enabled', NEW s \in Spaces, Known(s)' PROVE Settled(s)'
    <2>1. enabled /\ ts'[s] = ts[s] /\ Away(s)
      BY <1>1 DEF Heeded
    <2>2. QED
      BY <1>1, <2>1, StaysSettled
  <1>2. QED
    BY <1>1 DEF KnownSettled

\* Away from the window that a step is about.
LEMMA AwayFrom ==
  ASSUME Sound, NEW s \in Spaces, NEW v,
         \A w \in Windows : w # v =>
           /\ home'[w] = home[w] /\ (w \in dead' <=> w \in dead) /\ (w \in untold' <=> w \in untold)
           /\ (w \in sticky' <=> w \in sticky) /\ (w \in iconic' <=> w \in iconic)
           /\ (w \in floating' <=> w \in floating)
           /\ frame'[w] = frame[w] /\ (w \in zoomed => w \in zoomed')
           /\ (InHand(w) => InHand(w)'),
         v \in Windows => home[v] # s /\ home'[v] # s
  PROVE  Away(s)
  <1>1. \A w \in Windows : home[w] = s \/ home'[w] = s => w # v
    OBVIOUS
  <1>2. \A w \in Candidates(s, floating) : w \in Windows /\ home[w] = s
    BY DEF Candidates
  <1>3. QED
    BY <1>1, <1>2 DEF Away

\* No window is elsewhere, and none is let go.
LEMMA AwayStill ==
  ASSUME NEW s \in Spaces, UNCHANGED <<home, dead, sticky, iconic, floating, untold>>,
         \A w \in Candidates(s, floating) : ~InHand(w)' =>
           ~InHand(w) /\ frame'[w] = frame[w] /\ (w \in ts[s].max /\ w \in zoomed => w \in zoomed')
  PROVE  Away(s)
  BY DEF Away

LEMMA HeededIf ==
  ASSUME Marked, enabled' = enabled, retile => retile',
         enabled => \/ retile'
                    \/ ts' = ts /\ current' = current /\ (drag' = drag \/ drag = None),
         \A s \in Spaces : enabled /\ Known(s)' => Away(s)
  PROVE  Heeded
  <1>1. \A s \in Spaces : Known(s)' => ts'[s] = ts[s]
    BY DEF Marked, Known
  <1>2. QED
    BY <1>1 DEF Heeded

LEMMA TrackHeeded ==
  ASSUME Sound, NEW w \in Windows, NEW t \in Spaces, Track(w, t), enabled' = enabled,
         dead' = dead,
         \A x \in Windows : x # w =>
           /\ (x \in iconic' <=> x \in iconic)
           /\ (x \in untold' <=> x \in untold) /\ (x \in sticky' <=> x \in sticky)
           /\ frame'[x] = frame[x] /\ (x \in zoomed => x \in zoomed')
           /\ (InHand(x) => InHand(x)')
  PROVE  Heeded
  <1>1. /\ Marked /\ ts'[t].dirty /\ (home[w] # None => ts'[home[w]].dirty)
        /\ \A x \in Windows \ {w} : x \in floating' <=> x \in floating
        /\ \A x \in Windows : home'[x] = IF x = w THEN t ELSE home[x]
        /\ retile' = (retile \/ enabled)
    BY TrackIs
  <1>2. ASSUME NEW s \in Spaces, Known(s)' PROVE Away(s)
    <2>1. home[w] # s /\ home'[w] # s
      <3>1. ~ts'[s].dirty /\ s # None
        BY <1>2, NoneAssumption DEF Known
      <3>2. QED
        BY <1>1, <3>1
    <2>2. \A x \in Windows : x # w =>
            /\ home'[x] = home[x] /\ (x \in dead' <=> x \in dead) /\ (x \in untold' <=> x \in untold)
            /\ (x \in sticky' <=> x \in sticky) /\ (x \in iconic' <=> x \in iconic)
            /\ (x \in floating' <=> x \in floating)
            /\ frame'[x] = frame[x] /\ (x \in zoomed => x \in zoomed')
            /\ (InHand(x) => InHand(x)')
      BY <1>1
    <2>3. QED
      BY <2>1, <2>2, AwayFrom
  <1>3. QED
    BY <1>1, <1>2, HeededIf

LEMMA HeededOpen ==
  ASSUME Sound, NEW w \in Windows, NEW m \in Monitors, NEW big \in BOOLEAN, Open(w, m, big)
  PROVE  Heeded
  <1>1. <<m, current[m]>> \in Spaces /\ frame \in [Windows -> Rect]
    BY DEF Sound, Others
  <1>2. Track(w, <<m, current[m]>>) /\ UNCHANGED <<dead, sticky, drag, enabled, untold>>
    BY DEF Open
  <1>3. \A x \in Windows : x # w =>
          /\ (x \in iconic' <=> x \in iconic) /\ frame'[x] = frame[x]
          /\ (x \in zoomed => x \in zoomed')
    BY <1>1 DEF Open
  <1>4. QED
    BY <1>1, <1>2, <1>3, TrackHeeded DEF InHand

LEMMA HeededClose ==
  ASSUME Sound, NEW w \in Windows, Close(w)
  PROVE  Heeded
  <1>1. Marked
    BY SoundClose
  <1>2. /\ dead' = dead \cup {w} /\ ts' = ts
        /\ UNCHANGED <<home, frame, zoomed, iconic, sticky, floating, current, drag, enabled,
                       retile, untold>>
    BY DEF Close, world
  <1>3. ASSUME NEW s \in Spaces, Known(s)' PROVE Away(s)
    <2>1. home[w] # s /\ home'[w] # s
      BY <1>2, <1>3 DEF Known
    <2>2. QED
      BY <1>2, <2>1, AwayFrom DEF InHand
  <1>4. QED
    BY <1>1, <1>2, <1>3, HeededIf

LEMMA HeededMinimize ==
  ASSUME Sound, NEW w \in Windows, Minimize(w)
  PROVE  Heeded
  <1>1. enabled' => Marked /\ ts'[home[w]].dirty
    BY SoundMinimize
  <1>2. /\ UNCHANGED <<home, dead, zoomed, frame, sticky, floating, drag, enabled, untold>>
        /\ \A x \in Windows : x # w => (x \in iconic' <=> x \in iconic)
        /\ retile => retile'
        /\ enabled => retile'
    BY DEF Minimize
  <1>3. ASSUME NEW s \in Spaces, enabled, Known(s)' PROVE Away(s)
    <2>1. home[w] # s /\ home'[w] # s
      BY <1>1, <1>2, <1>3 DEF Known
    <2>2. QED
      BY <1>2, <2>1, AwayFrom DEF InHand
  <1>4. CASE enabled
    BY <1>1, <1>2, <1>3, <1>4, HeededIf
  <1>5. CASE ~enabled
    BY <1>2, <1>5 DEF Heeded, Sound, Others
  <1>6. QED
    BY <1>4, <1>5

LEMMA HeededMaximize ==
  ASSUME Sound, NEW w \in Windows, Maximize(w)
  PROVE  Heeded
  <1>1. Marked
    BY SoundMaximize
  <1>2. /\ zoomed \subseteq zoomed'
        /\ UNCHANGED <<home, dead, iconic, frame, sticky, floating, current, ts, drag, enabled,
                       retile, untold>>
    BY DEF Maximize
  <1>3. ASSUME NEW s \in Spaces PROVE Away(s)
    BY <1>2, AwayStill DEF InHand
  <1>4. QED
    BY <1>1, <1>2, <1>3, HeededIf

LEMMA HeededUnmaximize ==
  ASSUME Sound, NEW w \in Windows, Unmaximize(w)
  PROVE  Heeded
  <1>1. Marked
    BY SoundUnmaximize
  <1>2. /\ home[w] # None /\ OnRestored(w) /\ zoomed' = zoomed \ {w}
        /\ UNCHANGED <<home, dead, iconic, frame, sticky, floating, current, drag, enabled, untold>>
        /\ Visible(home[w]) \/ w \in sticky
    BY DEF Unmaximize, Shows
  <1>3. (retile => retile') /\ (ts' # ts => retile')
    BY <1>2, OnRestoredIs
  <1>4. ASSUME NEW s \in Spaces, enabled, Known(s)', w \in Candidates(s, floating), w \in ts[s].max
        PROVE  FALSE
    <2>1. home[w] = s /\ w \notin sticky
      BY <1>4 DEF Candidates
    <2>2. Visible(s)
      BY <1>2, <2>1
    <2>3. s[1] \in Monitors /\ s = <<s[1], current[s[1]]>>
      BY <2>2, SpaceIs DEF Visible
    <2>4. \E m \in Monitors : ts[<<m, current[m]>>].max # {}
      BY <1>4, <2>3
    <2>5. ts' = [ts EXCEPT ![s].max = @ \ {w}, ![s].dirty = TRUE]
      BY <1>2, <1>4, <2>1, <2>4 DEF OnRestored
    <2>6. Tidy(ts[s])
      BY DEF Sound, AllTidy
    <2>7. ts'[s] = RestoredTile(ts[s], w)
      BY <2>5 DEF Sound, AllTidy, RestoredTile
    <2>8. QED
      BY <1>4, <2>6, <2>7, RestoredFields DEF Known
  <1>5. ASSUME NEW s \in Spaces, enabled, Known(s)' PROVE Away(s)
    <2>1. \A x \in Candidates(s, floating) :
            x \in ts[s].max /\ x \in zoomed => x \in zoomed'
      BY <1>2, <1>4, <1>5
    <2>2. QED
      BY <1>2, <2>1, AwayStill DEF InHand
  <1>6. QED
    BY <1>1, <1>2, <1>3, <1>5, HeededIf

LEMMA HeededTogglePin ==
  ASSUME Sound, NEW w \in Windows, TogglePin(w)
  PROVE  Heeded
  <1> DEFINE here == <<home[w][1], current[home[w][1]]>>
  <1>1. here \in Spaces /\ Marked
    <2>1. home[w] \in Spaces
      BY DEF TogglePin, Sound, Others
    <2>2. home[w][1] \in Monitors
      BY <2>1, SpaceIs
    <2>3. QED
      BY <2>2, SoundTogglePin DEF Sound, Others
  <1>2. /\ \/ Track(w, here)
           \/ UNCHANGED <<home, ts, floating, auto, retile>>
        /\ UNCHANGED <<dead, zoomed, iconic, frame, current, drag, enabled>>
        /\ untold' = untold \cup {w}
        /\ \A x \in Windows : x # w => (x \in sticky' <=> x \in sticky)
    BY DEF TogglePin, world
  <1> HIDE DEF here
  <1>3. CASE Track(w, here)
    BY <1>1, <1>2, <1>3, TrackHeeded DEF InHand
  <1>4. CASE UNCHANGED <<home, ts, floating, auto, retile>>
    <2>1. ASSUME NEW s \in Spaces, Known(s)' PROVE Away(s)
      <3>1. home[w] # s /\ home'[w] # s
        BY <1>2, <1>4, <2>1 DEF Known
      <3>2. QED
        BY <1>2, <1>4, <3>1, AwayFrom DEF InHand
    <2>2. QED
      BY <1>1, <1>2, <1>4, <2>1, HeededIf
  <1>5. QED
    BY <1>2, <1>3, <1>4

LEMMA HeededSend ==
  ASSUME Sound, NEW w \in Windows, NEW s \in Spaces, Send(w, s)
  PROVE  Heeded
  <1>1. Track(w, s) /\ UNCHANGED <<dead, zoomed, iconic, frame, sticky, drag, enabled, untold>>
    BY DEF Send, world
  <1>2. QED
    BY <1>1, TrackHeeded DEF InHand

LEMMA HeededSwitchSpace ==
  ASSUME Sound, NEW s \in Spaces, SwitchSpace(s[1], s[2])
  PROVE  Heeded
  <1>1. Marked
    BY SoundSwitchSpace
  <1>2. /\ UNCHANGED <<home, dead, zoomed, iconic, frame, sticky, floating, drag, enabled, untold>>
        /\ retile' = (retile \/ enabled)
    BY DEF SwitchSpace, Schedule, world
  <1>3. ASSUME NEW z \in Spaces PROVE Away(z)
    BY <1>2, AwayStill DEF InHand
  <1>4. QED
    BY <1>1, <1>2, <1>3, HeededIf

\* An action that leaves the windows as they are.
LEMMA HeededTiles ==
  ASSUME Sound, Marked, retile => retile', retile' \/ ts' = ts,
         UNCHANGED <<home, dead, world, sticky, floating, current, drag, enabled, untold>>
  PROVE  Heeded
  <1>1. ASSUME NEW s \in Spaces PROVE Away(s)
    BY AwayStill DEF InHand, world
  <1>2. QED
    BY <1>1, HeededIf

LEMMA HeededActivate ==
  ASSUME Sound, NEW w \in Windows, Activate(w)
  PROVE  Heeded
  BY SoundActivate, HeededTiles DEF Activate

LEMMA HeededToggleFloat ==
  ASSUME Sound, NEW w \in Windows, ToggleFloat(w)
  PROVE  Heeded
  <1>1. Marked /\ ts'[home[w]].dirty
    BY SoundToggleFloat
  <1>2. /\ UNCHANGED <<home, dead, zoomed, iconic, frame, sticky, drag, enabled, untold>>
        /\ \A x \in Windows : x # w => (x \in floating' <=> x \in floating)
        /\ retile'
    BY DEF ToggleFloat, world
  <1>3. ASSUME NEW s \in Spaces, Known(s)' PROVE Away(s)
    <2>1. home[w] # s /\ home'[w] # s
      BY <1>1, <1>2, <1>3 DEF Known
    <2>2. QED
      BY <1>2, <2>1, AwayFrom DEF InHand
  <1>4. QED
    BY <1>1, <1>2, <1>3, HeededIf

LEMMA HeededToggleTiling ==
  ASSUME Sound, ToggleTiling
  PROVE  Heeded
  <1>1. /\ enabled' = ~enabled /\ retile' = (retile \/ enabled')
        /\ enabled' => ts' = [s \in Spaces |-> [ts[s] EXCEPT !.dirty = TRUE]]
    BY DEF ToggleTiling
  <1>2. ASSUME NEW t, Tidy(t) PROVE [t EXCEPT !.dirty = TRUE].dirty
    BY <1>2 DEF Tidy, TileSpace
  <1>3. ASSUME enabled', NEW s \in Spaces PROVE ts'[s].dirty
    <2>1. Tidy(ts[s])
      BY DEF Sound, AllTidy
    <2>2. ts'[s] = [ts[s] EXCEPT !.dirty = TRUE]
      BY <1>1, <1>3
    <2>3. QED
      BY <1>2, <2>1, <2>2
  <1>4. QED
    BY <1>1, <1>3 DEF Heeded, Known

LEMMA HeededCommands ==
  ASSUME Sound, \/ ToggleSplit
                \/ \E delta \in {-1, 1} : AdjustRatio(delta)
                \/ \E dir \in Dirs : Swap(dir) \/ FocusTile(dir)
  PROVE  Heeded
  <1>1. CASE ToggleSplit
    BY <1>1, SoundToggleSplit, HeededTiles DEF ToggleSplit, OnlyTiles
  <1>2. ASSUME NEW delta \in {-1, 1}, AdjustRatio(delta) PROVE Heeded
    <2>1. delta \in Int
      OBVIOUS
    <2>2. Marked
      BY <1>2, <2>1, SoundAdjustRatio
    <2>3. QED
      BY <1>2, <2>2, HeededTiles DEF AdjustRatio, OnlyTiles
  <1>3. ASSUME NEW dir \in Dirs, Swap(dir) PROVE Heeded
    BY <1>3, SoundSwap, HeededTiles DEF Swap, OnlyTiles
  <1>4. ASSUME NEW dir \in Dirs, FocusTile(dir) PROVE Heeded
    BY <1>4, SoundFocusTile, HeededTiles DEF FocusTile, world
  <1>5. QED
    BY <1>1, <1>2, <1>3, <1>4

-----------------------------------------------------------------------------
(* Drags and departures settle too *)

LEMMA HeededDragStart ==
  ASSUME Sound, NEW w \in Windows, DragStart(w)
  PROVE  Heeded
  <1>1. Marked
    BY SoundDragStart
  <1>2. /\ drag = None
        /\ UNCHANGED <<home, dead, zoomed, iconic, frame, sticky, floating, current, ts, enabled,
                       retile, untold>>
    BY DEF DragStart, world
  <1>3. ASSUME NEW s \in Spaces PROVE Away(s)
    BY <1>2, AwayStill DEF InHand
  <1>4. QED
    BY <1>1, <1>2, <1>3, HeededIf

LEMMA HeededDragMove ==
  ASSUME Sound, DragMove
  PROVE  Heeded
  <1>1. Marked
    BY SoundDragMove
  <1>2. /\ drag # None /\ frame' = [frame EXCEPT ![drag.w] = Loose] /\ zoomed' = zoomed \ {drag.w}
        /\ OnRestored(drag.w) \/ UNCHANGED <<ts, retile>>
        /\ UNCHANGED <<home, dead, iconic, sticky, floating, current, drag, enabled, untold>>
    BY DEF DragMove
  <1>3. drag.w \in Windows /\ home[drag.w] # None /\ frame \in [Windows -> Rect]
    BY <1>2 DEF Sound, Others, Dragging, Drag
  <1>4. (retile => retile') /\ (ts' # ts => retile')
    BY <1>2, <1>3, OnRestoredIs
  <1>5. \A x \in Windows : x # drag.w => frame'[x] = frame[x] /\ (x \in zoomed => x \in zoomed')
    BY <1>2, <1>3
  <1>6. ASSUME NEW s \in Spaces PROVE Away(s)
    <2>1. \A x \in Candidates(s, floating) : x \in Windows
      BY DEF Candidates
    <2>2. QED
      BY <1>2, <1>5, <2>1, AwayStill DEF InHand
  <1>7. QED
    BY <1>1, <1>2, <1>4, <1>6, HeededIf

LEMMA HeededDragEnd ==
  ASSUME Sound, NEW new \in Rect, NEW over, NEW shift \in BOOLEAN, DragEnd(new, over, shift)
  PROVE  Heeded
  <1>1. Marked /\ ts'[drag.at].dirty
    BY SoundDragEnd
  <1>2. /\ drag # None /\ frame' = [frame EXCEPT ![drag.w] = new]
        /\ untold' = IF home[drag.w] = drag.at THEN untold ELSE untold \cup {drag.w}
        /\ enabled => retile'
        /\ retile => retile'
        /\ UNCHANGED <<home, dead, iconic, zoomed, sticky, floating, enabled>>
    BY DEF DragEnd
  <1>3. enabled /\ drag.w \in Windows /\ frame \in [Windows -> Rect]
    BY <1>2 DEF Sound, Others, Dragging, Drag
  <1>4. ASSUME NEW s \in Spaces, Known(s)' PROVE Away(s)
    <2>1. home[drag.w] # s /\ home'[drag.w] # s
      BY <1>1, <1>2, <1>4 DEF Known
    <2>2. \A x \in Windows : x # drag.w => frame'[x] = frame[x] /\ ~InHand(x)
      BY <1>2, <1>3 DEF InHand
    <2>3. \A x \in Windows : x # drag.w => (x \in untold' <=> x \in untold)
      BY <1>2
    <2>4. QED
      BY <1>2, <2>1, <2>2, <2>3, AwayFrom
  <1>5. QED
    BY <1>1, <1>2, <1>3, <1>4, HeededIf

LEMMA HeededDropElsewhere ==
  ASSUME Sound, NEW m \in Monitors, DropElsewhere(m)
  PROVE  Heeded
  <1> DEFINE w == drag.w
  <1>1. <<m, current[m]>> \in Spaces /\ w \in Windows
    BY DEF DropElsewhere, Sound, Others, Drag
  <1>2. /\ Track(w, <<m, current[m]>>)
        /\ UNCHANGED <<dead, zoomed, iconic, frame, sticky, enabled, untold>>
        /\ \A x \in Windows : x # w => ~InHand(x)
    BY DEF DropElsewhere, world, InHand
  <1> HIDE DEF w
  <1>3. QED
    BY <1>1, <1>2, TrackHeeded

LEMMA HeededPrune ==
  ASSUME Sound, Prune
  PROVE  Heeded
  <1>1. Marked /\ \A s \in Spaces : (\E w \in dead : home[w] = s) => ts'[s].dirty
    BY SoundPrune
  <1>2. /\ home' = [w \in Windows |-> IF w \in dead THEN None ELSE home[w]]
        /\ sticky' = sticky \ dead /\ floating' = floating \ dead
        /\ drag' = IF drag # None /\ drag.w \in dead THEN None ELSE drag
        /\ retile' = (retile \/ enabled)
        /\ dead' = {} /\ untold' = untold \ dead
        /\ UNCHANGED <<zoomed, iconic, frame, enabled>>
    BY DEF Prune, Schedule, world
  <1>3. ASSUME NEW s \in Spaces, Known(s)' PROVE Away(s)
    <2>1. \A w \in Windows : home[w] = s => w \notin dead
      BY <1>1, <1>3 DEF Known
    <2>2. None # s
      BY NoneAssumption
    <2>3. \A w \in Windows : home[w] = s <=> home'[w] = s
      BY <1>2, <2>1, <2>2
    <2>4. \A w \in Windows : home[w] = s =>
            /\ w \notin dead' /\ (w \in untold' <=> w \in untold)
            /\ (w \in sticky' <=> w \in sticky) /\ (w \in floating' <=> w \in floating)
            /\ (InHand(w) => InHand(w)')
      BY <1>2, <2>1 DEF InHand
    <2>5. \A w \in Candidates(s, floating) : w \in Windows /\ home[w] = s
      BY DEF Candidates
    <2>6. /\ \A w \in Windows : home[w] = s /\ w \in dead \cup untold
                                  => home'[w] = s /\ w \in dead' \cup untold'
          /\ \A w \in Windows :
               home'[w] = s /\ w \notin dead' => home[w] = s /\ w \notin dead
          /\ \A w \in Windows :
               home[w] = s /\ w \notin dead => home'[w] = s /\ w \notin dead'
      BY <2>1, <2>3, <2>4
    <2>7. \A w \in Windows : home'[w] = s =>
            /\ w \in sticky' <=> w \in sticky
            /\ w \in iconic' <=> w \in iconic
            /\ w \in floating' <=> w \in floating
      BY <1>2, <2>3, <2>4
    <2>8. \A w \in Candidates(s, floating) : ~InHand(w)' =>
            ~InHand(w) /\ frame'[w] = frame[w] /\ (w \in zoomed => w \in zoomed')
      BY <1>2, <2>4, <2>5
    <2>9. QED
      BY <2>6, <2>7, <2>8 DEF Away
  <1>4. QED
    BY <1>1, <1>2, <1>3, HeededIf

LEMMA HeededUser ==
  ASSUME Sound, User
  PROVE  Heeded
  <1>1. ASSUME NEW w \in Windows, NEW m \in Monitors, NEW big \in BOOLEAN, Open(w, m, big)
        PROVE  Heeded
    BY <1>1, HeededOpen
  <1>2. ASSUME NEW w \in Windows,
               \/ Close(w) \/ Minimize(w) \/ Maximize(w) \/ Unmaximize(w)
               \/ TogglePin(w) \/ Activate(w) \/ ToggleFloat(w) \/ DragStart(w)
        PROVE  Heeded
    BY <1>2, HeededClose, HeededMinimize, HeededMaximize, HeededUnmaximize, HeededTogglePin,
       HeededActivate, HeededToggleFloat, HeededDragStart
  <1>3. ASSUME NEW w \in Windows, NEW s \in Spaces, Send(w, s) PROVE Heeded
    BY <1>3, HeededSend
  <1>4. ASSUME NEW s \in Spaces, SwitchSpace(s[1], s[2]) PROVE Heeded
    BY <1>4, HeededSwitchSpace
  <1>5. CASE ToggleTiling
    BY <1>5, HeededToggleTiling
  <1>6. CASE \/ ToggleSplit
             \/ \E delta \in {-1, 1} : AdjustRatio(delta)
             \/ \E dir \in Dirs : Swap(dir) \/ FocusTile(dir)
    BY <1>6, HeededCommands
  <1>7. CASE DragMove
    BY <1>7, HeededDragMove
  <1>8. CASE \/ \E over \in Windows \cup {None}, shift \in BOOLEAN : DropMoved(over, shift)
             \/ \E d \in Deltas : DropResized(d, 0) \/ DropResized(0, d)
    <2>1. PICK new \in Rect, shift \in BOOLEAN : \E over : DragEnd(new, over, shift)
      BY <1>8, DropIs
    <2>2. QED
      BY <2>1, HeededDragEnd
  <1>9. ASSUME NEW m \in Monitors, DropElsewhere(m) PROVE Heeded
    BY <1>9, HeededDropElsewhere
  <1>10. QED
    BY <1>1, <1>2, <1>3, <1>4, <1>5, <1>6, <1>7, <1>8, <1>9 DEF User

LEMMA UserKind ==
  ASSUME User \/ Prune
  PROVE  kind' = kind
  <1>1. ASSUME NEW v,
               \/ Close(v) \/ Minimize(v) \/ Maximize(v) \/ Unmaximize(v) \/ TogglePin(v)
               \/ Activate(v) \/ ToggleFloat(v) \/ DragStart(v)
               \/ \E m, big : Open(v, m, big)
               \/ \E s : Send(v, s)
        PROVE  kind' = kind
    BY <1>1 DEF Open, Close, Minimize, Maximize, Unmaximize, TogglePin, Activate, ToggleFloat,
                DragStart, Send
  <1>2. ASSUME \/ ToggleTiling \/ ToggleSplit \/ DragMove \/ Prune
               \/ \E m, i : SwitchSpace(m, i)
               \/ \E delta : AdjustRatio(delta)
               \/ \E dir : Swap(dir) \/ FocusTile(dir)
               \/ \E m : DropElsewhere(m)
        PROVE  kind' = kind
    BY <1>2 DEF ToggleTiling, ToggleSplit, DragMove, Prune, SwitchSpace, AdjustRatio, Swap,
                FocusTile, OnlyTiles, DropElsewhere
  <1>3. ASSUME \/ \E over, shift : DropMoved(over, shift)
               \/ \E dw, dh : DropResized(dw, dh)
        PROVE  kind' = kind
    BY <1>3 DEF DropMoved, DropResized, DragEnd
  <1>4. QED
    BY <1>1, <1>2, <1>3 DEF User

-----------------------------------------------------------------------------
(* The timers settle what they lay out *)

\* Whom a layout of a space has to do with is on that space.
LEMMA LaidHome ==
  ASSUME Sound, NEW s \in Due, NEW w \in Windows,
         w \in Readmits(s) \cup Layout(s).struck \cup Layout(s).flattened \cup Layout(s).pushed
  PROVE  home[w] = s
  <1>1. s \in Spaces /\ Tidy(ts[s])
    BY DueIs DEF Sound, AllTidy
  <1> DEFINE out == Layout(s)
             cands == Candidates(s, floating \ Readmits(s))
  <1>2. out.struck \subseteq cands /\ out.flattened \subseteq cands
    BY <1>1, LayoutIs
  <1>3. \A x \in cands : home[x] = s
    BY DEF Candidates
  <1> HIDE DEF out, cands
  <1>4. CASE w \in out.struck \cup out.flattened
    BY <1>2, <1>3, <1>4
  <1>5. CASE w \in Layout(s).pushed
    BY <1>5, PushedHome
  <1>6. CASE w \in Readmits(s)
    BY <1>6 DEF Readmits
  <1>7. QED
    BY <1>4, <1>5, <1>6 DEF out

\* A space that is not due is left alone.
LEMMA NotDueAway ==
  ASSUME Sound, NEW s \in Spaces, s \notin Due, Laying,
         UNCHANGED <<home, dead, iconic, sticky, drag>>
  PROVE  Away(s)
  <1>1. /\ frame' = [w \in Windows |->
             IF \E z \in Due : w \in Layout(z).pushed
             THEN Lands(w, Layout(home[w]).tile.expected[w]) ELSE frame[w]]
        /\ zoomed' = zoomed \ UNION {Layout(z).flattened : z \in Due}
        /\ floating' = (floating \ UNION {Readmits(z) : z \in Due})
                          \cup UNION {Layout(z).struck : z \in Due}
        /\ untold' = {w \in untold : home[w] \notin Due}
    BY DEF Laying
  <1>2. ASSUME NEW w \in Windows, home[w] = s
        PROVE  /\ w \in floating' <=> w \in floating
               /\ frame'[w] = frame[w] /\ (w \in zoomed => w \in zoomed')
               /\ w \in untold => w \in untold'
    <2>1. \A z \in Due : w \notin Readmits(z) /\ w \notin Layout(z).struck
                         /\ w \notin Layout(z).flattened /\ w \notin Layout(z).pushed
      BY <1>2, LaidHome
    <2>2. QED
      BY <1>1, <1>2, <2>1
  <1>3. \A w \in Candidates(s, floating) : w \in Windows /\ home[w] = s
    BY DEF Candidates
  <1>4. QED
    BY <1>2, <1>3 DEF Away, InHand

\* A space that is due and comes out clean is settled.
LEMMA DueSettled ==
  ASSUME Sound, NEW s \in Due, Laying, ~ts'[s].dirty,
         UNCHANGED <<kind, home, dead, iconic, sticky, drag>>
  PROVE  Settled(s)'
  <1>1. s \in Spaces /\ Tidy(ts[s])
    BY DueIs DEF Sound, AllTidy
  <1> DEFINE out   == Layout(s)
             t     == out.tile
             cands == Candidates(s, floating \ Readmits(s))
  <1>2. /\ ~t.dirty => ToSet(t.order) = cands \ out.struck
        /\ t.max \subseteq zoomed \ out.flattened
        /\ out.pushed = ToSet(t.order) \ t.max
        /\ \A w \in Windows : t.expected[w] = IF w \in ToSet(t.order)
                                              THEN Rects(s[1], t)[Index(t.order, w)] ELSE None
    BY <1>1, LayoutIs
  <1>3. ts'[s] = t
    BY <1>1 DEF Laying
  <1>4. /\ frame' = [w \in Windows |->
             IF \E z \in Due : w \in Layout(z).pushed
             THEN Lands(w, Layout(home[w]).tile.expected[w]) ELSE frame[w]]
        /\ zoomed' = zoomed \ UNION {Layout(z).flattened : z \in Due}
        /\ floating' = (floating \ UNION {Readmits(z) : z \in Due})
                          \cup UNION {Layout(z).struck : z \in Due}
    BY DEF Laying
  <1>5. ASSUME NEW w \in Windows, home[w] = s
        PROVE  /\ w \in floating' <=> w \in floating \ Readmits(s) \/ w \in out.struck
               /\ w \in zoomed /\ w \notin out.flattened => w \in zoomed'
               /\ w \in out.pushed => frame'[w] = Lands(w, t.expected[w])
    <2>1. \A z \in Due : z # s =>
            /\ w \notin Readmits(z) /\ w \notin Layout(z).struck /\ w \notin Layout(z).flattened
      BY <1>5, LaidHome
    <2>2. w \in floating' <=> w \in floating \ Readmits(s) \/ w \in out.struck
      BY <1>4, <2>1
    <2>3. w \in zoomed /\ w \notin out.flattened => w \in zoomed'
      BY <1>4, <2>1
    <2>4. w \in out.pushed => frame'[w] = Lands(w, t.expected[w])
      BY <1>4, <1>5
    <2>5. QED
      BY <2>2, <2>3, <2>4
  <1>6. \A w \in out.struck : w \in cands
    BY <1>1, LayoutIs
  <1> HIDE DEF out, t
  <1>7. Candidates(s, floating)' = cands \ out.struck
    <2>1. Candidates(s, floating)' =
            {w \in Windows : home[w] = s /\ w \notin dead \cup sticky \cup iconic
                              /\ ~Floating(w, floating')}
      BY DEF Candidates, Floating
    <2>2. \A w \in Windows : home[w] = s =>
            (~Floating(w, floating') <=> ~Floating(w, floating \ Readmits(s)) /\ w \notin out.struck)
      <3>1. \A w \in out.struck : w \notin FloatRuled
        BY <1>6 DEF Candidates, Floating
      <3>2. QED
        BY <1>5, <3>1 DEF Floating
    <2>3. QED
      BY <2>1, <2>2 DEF Candidates
  <1>8. ToSet(t.order) = Candidates(s, floating)'
    BY <1>2, <1>3, <1>7
  <1>9. \A w \in Candidates(s, floating)' : w \in Windows /\ home[w] = s
    BY <1>7 DEF Candidates
  <1>10. ASSUME NEW w \in Candidates(s, floating)', kind[w] = "yields", w \notin t.max
         PROVE  frame'[w] = Rects(s[1], t)[Index(t.order, w)]
    <2>1. w \in out.pushed /\ w \in ToSet(t.order)
      BY <1>2, <1>8, <1>10
    <2>2. frame'[w] = Lands(w, t.expected[w])
      BY <1>5, <1>9, <2>1
    <2>3. Lands(w, t.expected[w]) = t.expected[w]
      BY <1>10 DEF Lands
    <2>4. QED
      BY <1>2, <1>9, <2>1, <2>2, <2>3
  <1>11. \A w \in Candidates(s, floating)' : w \in t.max => w \in zoomed'
    BY <1>2, <1>5, <1>9
  <1>12. Rects(s[1], ts[s])' = Rects(s[1], t)
    BY <1>3 DEF Rects
  <1>13. QED
    BY <1>3, <1>8, <1>10, <1>11, <1>12 DEF Settled

LEMMA RetileSettles ==
  ASSUME Sound, Asked, KnownSettled, Retile
  PROVE  Asked' /\ KnownSettled'
  <1>1. UNCHANGED <<kind, home, dead, iconic, sticky, current, drag, enabled>>
    BY RetileIs
  <1>2. CASE ~enabled
    BY <1>1, <1>2 DEF Asked, KnownSettled
  <1>3. CASE enabled
    <2>1. Laying
      BY <1>3, RetileIs
    <2>2. \A s \in Spaces : ts'[s] = IF s \in Due THEN Layout(s).tile ELSE ts[s]
      BY <2>1 DEF Laying
    <2>3. ASSUME NEW s \in Spaces, Visible(s)', ts'[s].dirty PROVE retile' \/ Held(s)'
      <3>1. CASE s \in Due
        BY <2>1, <2>2, <2>3, <3>1 DEF Laying
      <3>2. CASE s \notin Due
        <4>1. Visible(s) /\ ts[s].dirty
          BY <1>1, <2>2, <2>3, <3>2 DEF Visible
        <4>2. Held(s)
          BY <3>2, <4>1 DEF Due
        <4>3. QED
          BY <1>1, <4>2 DEF Held
      <3>3. QED
        BY <3>1, <3>2
    <2>4. ASSUME NEW s \in Spaces, Known(s)' PROVE Settled(s)'
      <3>1. CASE s \in Due
        BY <1>1, <2>1, <2>4, <3>1, DueSettled DEF Known
      <3>2. CASE s \notin Due
        <4>1. Away(s)
          BY <1>1, <2>1, <3>2, NotDueAway
        <4>2. ts'[s] = ts[s]
          BY <2>2, <3>2
        <4>3. QED
          BY <1>1, <1>3, <2>4, <4>1, <4>2, StaysSettled
      <3>3. QED
        BY <3>1, <3>2
    <2>5. QED
      BY <2>3, <2>4 DEF Asked, KnownSettled
  <1>4. QED
    BY <1>2, <1>3 DEF Sound, Others

LEMMA VerifySettles ==
  ASSUME Sound, Asked, KnownSettled, Verify
  PROVE  Asked' /\ KnownSettled'
  <1>1. UNCHANGED <<kind, home, dead, zoomed, iconic, frame, sticky, current, drag, enabled, untold>>
    BY VerifyIs DEF world
  <1>2. CASE ~enabled
    BY <1>1, <1>2 DEF Asked, KnownSettled
  <1>3. CASE enabled
    <2>1. Swept
      BY <1>3, VerifyIs
    <2>2. ASSUME NEW s \in Spaces
          PROVE  /\ ts'[s] = Sweep(s).tile
                 /\ \A w \in Sweep(s).out : home[w] = s
                 /\ ts'[s].order = ts[s].order /\ ts'[s].ratio = ts[s].ratio
                 /\ ts'[s].split = ts[s].split /\ ts'[s].max = ts[s].max \ Sweep(s).out
                 /\ ts'[s].dirty <=> ts[s].dirty \/ Sweep(s).again
                 /\ Sweep(s).out # {} => Sweep(s).again
      <3>1. ts'[s] = Sweep(s).tile
        BY <2>1 DEF Swept
      <3>2. Tidy(ts[s])
        BY DEF Sound, AllTidy
      <3> DEFINE out == Sweep(s)
      <3>3. /\ \A w \in out.out : w \in Windows /\ ts[s].expected[w] # None
            /\ out.tile.order = ts[s].order /\ out.tile.ratio = ts[s].ratio
            /\ out.tile.split = ts[s].split /\ out.tile.max = ts[s].max \ out.out
            /\ out.tile.dirty <=> ts[s].dirty \/ out.again
            /\ out.out # {} => out.again
        BY <3>2, SweepIs
      <3> HIDE DEF out
      <3>4. \A w \in out.out : home[w] = s
        BY <3>3 DEF Sound, Tracked
      <3>5. QED
        BY <3>1, <3>3, <3>4 DEF out
    <2>3. ASSUME NEW s \in Spaces, Visible(s)', ts'[s].dirty PROVE retile' \/ Held(s)'
      <3>1. CASE Sweep(s).again
        BY <2>1, <3>1 DEF Swept
      <3>2. CASE ~Sweep(s).again
        <4>1. Visible(s) /\ ts[s].dirty
          BY <1>1, <2>2, <2>3, <3>2 DEF Visible
        <4>2. retile \/ Held(s)
          BY <1>3, <4>1 DEF Asked
        <4>3. QED
          BY <1>1, <2>1, <4>2 DEF Swept, Held
      <3>3. QED
        BY <3>1, <3>2
    <2>4. ASSUME NEW s \in Spaces, Known(s)' PROVE Settled(s)'
      <3>1. ~ts[s].dirty /\ Sweep(s).out = {}
        BY <2>2, <2>4 DEF Known
      <3>2. Settled(s)
        BY <1>1, <1>3, <2>4, <3>1 DEF Known, KnownSettled
      <3>3. \A w \in Windows : home[w] = s => (w \in floating' <=> w \in floating)
        BY <2>1, <2>2, <3>1 DEF Swept
      <3>4. Candidates(s, floating)' = Candidates(s, floating)
        BY <1>1, <3>3 DEF Candidates, Floating
      <3>5. ts'[s].order = ts[s].order /\ ts'[s].max = ts[s].max
        BY <2>2, <3>1
      <3>6. Rects(s[1], ts[s])' = Rects(s[1], ts[s])
        <4>1. Rects(s[1], ts[s])' = Rects(s[1], ts'[s])
          BY DEF Rects
        <4>2. QED
          BY <2>2, <4>1, RectsSame
      <3>7. QED
        BY <1>1, <3>2, <3>4, <3>5, <3>6 DEF Settled, InHand
    <2>5. QED
      BY <2>3, <2>4 DEF Asked, KnownSettled
  <1>4. QED
    BY <1>2, <1>3 DEF Sound, Others

LEMMA SettlesInit ==
  ASSUME Init
  PROVE  Asked /\ KnownSettled
  <1>1. \A s \in Spaces : ts[s] = [NewTileSpace EXCEPT !.dirty = TRUE]
    BY DEF Init
  <1>2. [NewTileSpace EXCEPT !.dirty = TRUE].dirty
    BY DEF NewTileSpace
  <1>3. QED
    BY <1>1, <1>2 DEF Init, Asked, KnownSettled, Known

LEMMA SettlesNext ==
  ASSUME Sound, Asked, KnownSettled, [Next]_vars
  PROVE  Asked' /\ KnownSettled'
  <1>1. CASE User \/ Prune
    <2>1. Heeded /\ kind' = kind
      BY <1>1, HeededUser, HeededPrune, UserKind
    <2>2. QED
      BY <2>1, HeededAsked, HeededSettled
  <1>2. CASE Verify
    BY <1>2, VerifySettles
  <1>3. CASE Retile
    BY <1>3, RetileSettles
  <1>4. CASE UNCHANGED vars
    <2>1. UNCHANGED <<kind, home, dead, zoomed, iconic, frame, sticky, floating, current, ts, drag,
                      enabled, retile, untold>>
      BY <1>4 DEF vars, world
    <2>2. Asked'
      BY <2>1 DEF Asked, Visible, Held
    <2>3. \A s \in Spaces : (Known(s)' <=> Known(s)) /\ (Settled(s)' <=> Settled(s))
      BY <2>1 DEF Known, Settled, Candidates, Floating, InHand, Rects
    <2>4. QED
      BY <2>1, <2>2, <2>3 DEF KnownSettled
  <1>5. QED
    BY <1>1, <1>2, <1>3, <1>4 DEF Next

\* Once no timer is armed, what is on screen is the layout: whatever the windows,
\* displays and areas, and however the user, the timers and the departed
\* interleave, no change to a space that is shown is lost between the flag, the
\* posted message and the timer (mark_tiling_dirty, flush_retile, verify_retile).
THEOREM LayoutSettlesCorrect == Spec => []LayoutSettles
  <1>1. ASSUME Sound, Asked, KnownSettled PROVE LayoutSettles
    <2>1. ASSUME Quiet, NEW m \in Monitors, \A w \in dead \cup untold : home[w] # <<m, current[m]>>
          PROVE  LET s == <<m, current[m]>>
                 IN  /\ ~ts[s].dirty
                     /\ ToSet(ts[s].order) = Candidates(s, floating)
                     /\ \A w \in Candidates(s, floating) \ zoomed :
                          kind[w] = "yields" => frame[w] = Rects(m, ts[s])[Index(ts[s].order, w)]
      <3> DEFINE s == <<m, current[m]>>
      <3>1. s \in Spaces /\ s[1] = m /\ Visible(s)
        BY <1>1 DEF Sound, Others, Visible
      <3> HIDE DEF s
      <3>2. ~ts[s].dirty
        BY <1>1, <2>1, <3>1 DEF Quiet, Asked, Held
      <3>3. Settled(s)
        BY <1>1, <2>1, <3>1, <3>2 DEF Quiet, KnownSettled, Known, s
      <3>4. \A w : ~InHand(w)
        BY <2>1 DEF Quiet, InHand
      <3>5. QED
        BY <3>1, <3>2, <3>3, <3>4 DEF Settled, s
    <2>2. QED
      BY <2>1 DEF LayoutSettles
  <1>2. Init => Sound /\ Asked /\ KnownSettled
    BY SoundInit, SettlesInit
  <1>3. Sound /\ Asked /\ KnownSettled /\ [Next]_vars => Sound' /\ Asked' /\ KnownSettled'
    BY SoundNext, SettlesNext
  <1>4. Sound /\ Asked /\ KnownSettled => LayoutSettles
    BY <1>1
  <1>5. QED
    BY <1>2, <1>3, <1>4, PTL DEF Spec
-----------------------------------------------------------------------------
(* How a layout and a verification count *)

\* A selection that leaves nothing out.
LEMMA SelectedAll ==
  ASSUME NEW S, NEW seq \in Seq(S), NEW W, ToSet(seq) \subseteq W
  PROVE  Selected(seq, W) = seq
  <1> DEFINE f == CHOOSE g : Picking(g, seq, W)
             n == Len(seq)
             Same(i) == /\ f[i] \in Seq(S) /\ Len(f[i]) = i
                        /\ \A j \in 1..i : f[i][j] = seq[j]
             Bad == {i \in 0..n : ~Same(i)}
  <1>1. Selected(seq, W) = f[n]
    BY DEF Selected, Picking
  <1>2. Picking(f, seq, W)
    BY PickingExists
  <1> HIDE DEF f
  <1>3. f[0] = <<>> /\ \A i \in 1..n : f[i] = Append(f[i - 1], seq[i])
    <2>1. /\ n \in Nat /\ 0 \in 0..n /\ \A i \in 1..n : i \in 0..n /\ i # 0 /\ seq[i] \in W
      BY DEF ToSet
    <2> HIDE DEF n
    <2>2. f = [i \in 0..n |->
                 IF i = 0 THEN <<>>
                 ELSE IF seq[i] \in W THEN Append(f[i - 1], seq[i]) ELSE f[i - 1]]
      BY <1>2 DEF Picking, n
    <2>3. \A i \in 0..n :
            f[i] = IF i = 0 THEN <<>>
                   ELSE IF seq[i] \in W THEN Append(f[i - 1], seq[i]) ELSE f[i - 1]
      BY <2>2
    <2>4. QED
      BY <2>1, <2>3
  <1>4. Same(0)
    BY <1>3
  <1>5. ASSUME NEW i \in 1..n, Same(i - 1) PROVE Same(i)
    <2> DEFINE t == f[i - 1]
    <2>1. t \in Seq(S) /\ Len(t) = i - 1 /\ \A j \in 1..(i - 1) : t[j] = seq[j]
      BY <1>5
    <2>2. f[i] = Append(t, seq[i]) /\ seq[i] \in S
      BY <1>3
    <2> HIDE DEF t
    <2>3. QED
      BY <2>1, <2>2
  <1>6. ASSUME ~Same(n) PROVE FALSE
    <2> HIDE DEF Same
    <2>1. n \in Bad /\ n \in Nat
      BY <1>6
    <2>2. PICK k \in Nat : k \in Bad /\ \A j \in Nat : j < k => j \notin Bad
      BY <2>1, LeastNatural
    <2>3. k # 0
      BY <2>2, <1>4
    <2>4. Same(k - 1)
      BY <2>2, <2>3
    <2>5. QED
      BY <2>2, <2>3, <2>4, <1>5
  <1> DEFINE t == f[n]
  <1>7. t \in Seq(S) /\ Len(t) = Len(seq) /\ \A j \in 1..Len(seq) : t[j] = seq[j]
    BY <1>6
  <1> HIDE DEF t
  <1>8. t = seq
    BY <1>7
  <1>9. QED
    BY <1>1, <1>8 DEF t

\* A sequence that is taken apart and put together again.
LEMMA Rejoined ==
  ASSUME NEW S, NEW q \in Seq(S), NEW p \in 0..Len(q)
  PROVE  SubSeq(q, 1, p) \o <<>> \o SubSeq(q, p + 1, Len(q)) = q
  <1> DEFINE u == SubSeq(q, 1, p)
             v == SubSeq(q, p + 1, Len(q))
             n == Len(q)
  <1>1. u \in Seq(S) /\ Len(u) = p /\ \A i \in 1..p : u[i] = q[i]
    BY SubSeqProperties
  <1>2. v \in Seq(S) /\ Len(v) = n - p /\ \A i \in 1..(n - p) : v[i] = q[p + i]
    BY SubSeqProperties
  <1> HIDE DEF u, v
  <1>3. u \o <<>> = u
    BY <1>1
  <1>4. /\ u \o v \in Seq(S) /\ Len(u \o v) = Len(u) + Len(v)
        /\ \A i \in 1..(Len(u) + Len(v)) :
             (u \o v)[i] = IF i <= Len(u) THEN u[i] ELSE v[i - Len(u)]
    BY <1>1, <1>2, ConcatProperties
  <1> DEFINE z == u \o v
  <1>5. n \in Nat /\ p \in Nat /\ p <= n /\ p + (n - p) = n
    OBVIOUS
  <1>6. z \in Seq(S) /\ Len(z) = n /\ \A i \in 1..n : z[i] = IF i <= p THEN u[i] ELSE v[i - p]
    BY <1>1, <1>2, <1>4, <1>5
  <1> HIDE DEF z
  <1>7. ASSUME NEW i \in 1..n PROVE z[i] = q[i]
    <2>1. CASE i <= p
      <3>1. i \in 1..p
        BY <1>5, <2>1
      <3>2. QED
        BY <1>1, <1>6, <2>1, <3>1
    <2>2. CASE ~(i <= p)
      <3>1. i - p \in 1..(n - p) /\ p + (i - p) = i
        BY <1>5, <2>2
      <3>2. QED
        BY <1>2, <1>6, <2>2, <3>1
    <2>3. QED
      BY <2>1, <2>2
  <1>8. z = q
    <2>1. Len(z) = Len(q) /\ \A i \in 1..Len(q) : z[i] = q[i]
      BY <1>6, <1>7
    <2>2. z \in Seq(S) /\ q \in Seq(S)
      BY <1>6
    <2>3. QED
      BY <2>1, <2>2
  <1>9. QED
    BY <1>3, <1>8 DEF u, v, z

\* Slots keep their order when their windows are those that are ready.
LEMMA ReconcileSame ==
  ASSUME NEW S, NEW order \in Seq(S), NEW q \in Seq(S), ToSet(q) = ToSet(order), NEW f
  PROVE  ReconcileOrder(order, q, f) = order
  <1> DEFINE none == Selected(q, ToSet(q) \ ToSet(order))
             pos == IF f \in ToSet(order) THEN CHOOSE i \in DOMAIN order : order[i] = f
                    ELSE Len(order)
  <1>1. Selected(order, ToSet(q)) = order
    BY SelectedAll
  <1>2. none = <<>>
    <2>1. none \in Seq(S) /\ ToSet(none) = {}
      BY SelectedIs
    <2> HIDE DEF none
    <2>2. Len(none) \in Nat /\ DOMAIN none = 1..Len(none)
      BY <2>1
    <2>3. \A i \in 1..Len(none) : FALSE
      BY <2>1, <2>2 DEF ToSet
    <2>4. Len(none) = 0
      <3>1. Len(none) # 0 => 1 \in 1..Len(none)
        BY <2>2
      <3>2. QED
        BY <2>3, <3>1
    <2>5. QED
      BY <2>1, <2>4, EmptySeq
  <1>3. ReconcileOrder(order, q, f) = SubSeq(order, 1, pos) \o none \o SubSeq(order, pos + 1, Len(order))
    BY <1>1 DEF ReconcileOrder
  <1>4. pos \in 0..Len(order)
    <2>1. f \in ToSet(order) => \E i \in DOMAIN order : order[i] = f
      BY DEF ToSet
    <2>2. f \in ToSet(order) => pos \in DOMAIN order
      BY <2>1
    <2>3. QED
      BY <2>2
  <1> HIDE DEF pos, none
  <1>5. QED
    BY <1>2, <1>3, <1>4, Rejoined

\* Those that a layout takes for the windows of a space, and of these the ones
\* that came maximized and cannot be restored.
Cands(s) == Candidates(s, floating \ Readmits(s))

Barred(s) == {w \in Cands(s) \cap zoomed : w \notin ToSet(ts[s].order) /\ kind[w] = "elevated"}

\* A layout gives slots to all but these, strikes these or counts one more
\* against them, and leaves a space as it is when its slots are the right ones.
LEMMA LayoutCounts ==
  ASSUME NEW s \in Spaces, Tidy(ts[s])
  PROVE  LET out == Layout(s)
             t   == out.tile
         IN  /\ ToSet(t.order) = Cands(s) \ Barred(s)
             /\ out.struck = {w \in Barred(s) : StruckOut(ts[s].flat[w])}
             /\ t.max = {w \in Cands(s) \cap zoomed : w \in ToSet(ts[s].order)}
             /\ out.flattened = (Cands(s) \cap zoomed) \ (t.max \cup Barred(s))
             /\ t.dirty <=> Barred(s) \ out.struck # {}
             /\ \A w \in Windows : w \notin Barred(s) => t.strikes[w] = ts[s].strikes[w]
             /\ \A w \in Barred(s) \ out.struck : t.flat[w] = ts[s].flat[w] + 1
             /\ ToSet(ts[s].order) = Cands(s) \ Barred(s) => t.order = ts[s].order
             /\ t.ratio = ts[s].ratio /\ t.split = ts[s].split
  <1> DEFINE cands  == Candidates(s, floating \ Readmits(s))
             kept   == {w \in cands \cap zoomed : w \in ToSet(ts[s].order)}
             stuck  == {w \in (cands \cap zoomed) \ kept : kind[w] = "elevated"}
             struck == {w \in stuck : StruckOut(ts[s].flat[w])}
             ready  == cands \ stuck
             order  == ReconcileOrder(ts[s].order, SetToSeq(ready), fg)
             strikes == [w \in Windows |-> IF w \in struck THEN 0 ELSE ts[s].strikes[w]]
             flat   == [w \in Windows |-> IF w \in ready \cup struck THEN 0
                                          ELSE IF w \in stuck THEN ts[s].flat[w] + 1
                                          ELSE ts[s].flat[w]]
             t0     == [ts[s] EXCEPT !.order = order, !.strikes = strikes, !.flat = flat,
                          !.max = kept, !.dirty = (stuck \ struck # {})]
             expected == [w \in Windows |-> IF w \in ToSet(order)
                                            THEN Rects(s[1], t0)[Index(order, w)] ELSE None]
             t      == [t0 EXCEPT !.expected = expected]
             out    == Layout(s)
  <1>1. /\ out.tile = t /\ out.struck = struck
        /\ out.flattened = (cands \cap zoomed) \ (kept \cup stuck)
    BY DEF Layout
  <1>2. cands = Cands(s) /\ stuck = Barred(s)
    BY DEF Cands, Barred
  <1>3. /\ cands \subseteq Windows /\ stuck \subseteq cands /\ ready \in SUBSET Windows
        /\ IsFiniteSet(Windows)
    BY TilingAssumption DEF Candidates
  <1>4. ts[s] \in TileSpace /\ ts[s].order \in Seq(Windows) /\ IsInjective(ts[s].order)
    BY TileFields DEF Tidy
  <1> HIDE DEF cands, kept, stuck, struck
  <1>5. \A w \in Windows : w \notin struck => strikes[w] = ts[s].strikes[w]
    OBVIOUS
  <1>6. \A w \in stuck \ struck : flat[w] = ts[s].flat[w] + 1
    BY <1>3
  <1> HIDE DEF strikes, flat
  <1>7. ToSet(order) = ready
    <2> HIDE DEF ready
    <2>1. QED
      BY <1>3, <1>4, ReconcileOrderIs
  <1>8. ASSUME ToSet(ts[s].order) = ready PROVE order = ts[s].order
    <2> DEFINE q == SetToSeq(ready)
    <2>1. IsFiniteSet(ready)
      <3> HIDE DEF ready
      <3>1. QED
        BY <1>3, FS_Subset
    <2>2. q \in Seq(ready) /\ ToSet(q) = ready
      <3> HIDE DEF ready
      <3>1. QED
        BY <2>1, SetToSeqIs
    <2> HIDE DEF q
    <2>3. q \in Seq(Windows)
      <3> HIDE DEF ready
      <3>1. QED
        BY <1>3, <2>2, SeqMonotonic
    <2>4. ToSet(q) = ToSet(ts[s].order)
      BY <1>8, <2>2
    <2>5. ReconcileOrder(ts[s].order, q, fg) = ts[s].order
      BY <1>4, <2>3, <2>4, ReconcileSame
    <2>6. QED
      BY <2>5 DEF q
  <1> HIDE DEF ready, order, expected
  <1>9. /\ t.order = order /\ t.ratio = ts[s].ratio /\ t.split = ts[s].split
        /\ t.max = kept /\ t.dirty = (stuck \ struck # {})
        /\ t.strikes = strikes /\ t.flat = flat
    BY <1>4 DEF TileSpace
  <1> HIDE DEF t, t0, out
  <1>10. ToSet(t.order) = Cands(s) \ Barred(s)
    BY <1>2, <1>7, <1>9 DEF ready
  <1>11. out.struck = {w \in Barred(s) : StruckOut(ts[s].flat[w])} /\ struck \subseteq stuck
    BY <1>1, <1>2 DEF struck
  <1>12. t.max = {w \in Cands(s) \cap zoomed : w \in ToSet(ts[s].order)}
    BY <1>2, <1>9 DEF kept
  <1>13. out.flattened = (Cands(s) \cap zoomed) \ (t.max \cup Barred(s))
    BY <1>1, <1>2, <1>9
  <1>14. ToSet(ts[s].order) = Cands(s) \ Barred(s) => t.order = ts[s].order
    BY <1>2, <1>8, <1>9 DEF ready
  <1>15. /\ t.dirty <=> Barred(s) \ out.struck # {}
         /\ \A w \in Windows : w \notin Barred(s) => t.strikes[w] = ts[s].strikes[w]
         /\ \A w \in Barred(s) \ out.struck : t.flat[w] = ts[s].flat[w] + 1
    BY <1>1, <1>2, <1>5, <1>6, <1>9, <1>11
  <1>16. QED
    BY <1>1, <1>9, <1>10, <1>11, <1>12, <1>13, <1>14, <1>15 DEF out

\* A verification finds w out of its place on s, in a way that counts.
Fails(s, w) ==
  /\ w \in Checked(s) /\ ~InPlace(w, ts[s].expected[w])
  /\ Mismatch(w, ts[s].expected[w], ts[s]) \in {"resisting", "zoomed"}

\* The strikes that it then has one more of.
Count(s, w) == IF IsZoomed(w) THEN ts[s].flat[w] ELSE ts[s].strikes[w]

LEMMA SweepCounts ==
  ASSUME NEW s \in Spaces, Tidy(ts[s])
  PROVE  LET out == Sweep(s)
         IN  /\ out.again <=> \E w \in Windows : Fails(s, w)
             /\ out.out = {w \in Windows : Fails(s, w) /\ StruckOut(Count(s, w))}
             /\ \A w \in Windows : out.tile.expected[w] =
                  IF w \in out.out THEN None ELSE ts[s].expected[w]
             /\ \A w \in Windows : Fails(s, w) /\ w \notin out.out =>
                  (IF IsZoomed(w) THEN out.tile.flat[w] ELSE out.tile.strikes[w]) = Count(s, w) + 1
             /\ \A w \in Windows : ts[s].expected[w] = None => out.tile.flat[w] = ts[s].flat[w]
  <1> DEFINE t == ts[s]
             wrong  == {w \in Checked(s) : ~InPlace(w, t.expected[w])}
             resist == {w \in wrong : Mismatch(w, t.expected[w], t) = "resisting"}
             big    == {w \in wrong : Mismatch(w, t.expected[w], t) = "zoomed"}
             clear  == Checked(s) \ (resist \cup big)
             gone   == {w \in resist : StruckOut(t.strikes[w])}
                         \cup {w \in big : StruckOut(t.flat[w])}
             strikes == [w \in Windows |-> IF w \in clear \cup gone THEN 0
                                           ELSE IF w \in resist THEN t.strikes[w] + 1
                                           ELSE t.strikes[w]]
             flat   == [w \in Windows |-> IF w \in clear \cup gone THEN 0
                                          ELSE IF w \in big THEN t.flat[w] + 1 ELSE t.flat[w]]
             expected == [w \in Windows |-> IF w \in gone THEN None ELSE t.expected[w]]
             next   == [t EXCEPT !.strikes = strikes, !.flat = flat, !.expected = expected,
                          !.max = @ \ gone, !.dirty = @ \/ resist \cup big # {}]
             out    == Sweep(s)
  <1>1. out.tile = next /\ out.out = gone /\ out.again = (resist \cup big # {})
    BY DEF Sweep
  <1>2. t \in TileSpace
    BY DEF Tidy
  <1>3. \A w : Fails(s, w) <=> w \in resist \cup big
    BY DEF Fails
  <1>4. \A w \in resist : ~IsZoomed(w)
    BY DEF Mismatch
  <1>5. \A w \in big : IsZoomed(w)
    BY DEF Mismatch
  <1>6. Checked(s) \subseteq Windows /\ \A w \in Checked(s) : t.expected[w] # None
    BY DEF Checked
  <1>7. resist \cup big \subseteq Checked(s) /\ gone \subseteq resist \cup big
    OBVIOUS
  <1>8. \A w \in resist \cup big : w \in gone <=> StruckOut(Count(s, w))
    BY <1>4, <1>5 DEF Count
  <1>9. \A w \in resist : t.strikes[w] = Count(s, w)
    BY <1>4 DEF Count
  <1>10. \A w \in big : t.flat[w] = Count(s, w)
    BY <1>5 DEF Count
  <1>16. clear \cap (resist \cup big) = {} /\ clear \subseteq Checked(s)
    OBVIOUS
  <1> HIDE DEF t, wrong, resist, big, clear, gone
  <1>11. \A w \in resist \ gone : strikes[w] = Count(s, w) + 1 /\ ~IsZoomed(w)
    BY <1>4, <1>6, <1>7, <1>9, <1>16
  <1>12. \A w \in big \ gone : flat[w] = Count(s, w) + 1 /\ IsZoomed(w)
    BY <1>5, <1>6, <1>7, <1>10, <1>16
  <1>13. \A w \in Windows : t.expected[w] = None => flat[w] = t.flat[w]
    BY <1>6, <1>7, <1>16
  <1>14. \A w \in Windows : expected[w] = IF w \in gone THEN None ELSE t.expected[w]
    OBVIOUS
  <1> HIDE DEF strikes, flat, expected
  <1>15. next.strikes = strikes /\ next.flat = flat /\ next.expected = expected
    BY <1>2 DEF TileSpace
  <1> HIDE DEF next, out
  <1>17. out.again <=> \E w \in Windows : Fails(s, w)
    BY <1>1, <1>3, <1>6, <1>7
  <1>18. out.out = {w \in Windows : Fails(s, w) /\ StruckOut(Count(s, w))}
    BY <1>1, <1>3, <1>6, <1>7, <1>8
  <1>19. \A w \in Windows : out.tile.expected[w] = IF w \in out.out THEN None ELSE ts[s].expected[w]
    BY <1>1, <1>14, <1>15 DEF t
  <1>20. ASSUME NEW w \in Windows, Fails(s, w), w \notin out.out
         PROVE (IF IsZoomed(w) THEN out.tile.flat[w] ELSE out.tile.strikes[w]) = Count(s, w) + 1
    BY <1>1, <1>3, <1>11, <1>12, <1>15, <1>20
  <1>21. \A w \in Windows : ts[s].expected[w] = None => out.tile.flat[w] = ts[s].flat[w]
    BY <1>1, <1>13, <1>15 DEF t
  <1>22. QED
    BY <1>17, <1>18, <1>19, <1>20, <1>21 DEF out

-----------------------------------------------------------------------------
(* The tiler comes to rest *)

\* A space that the timer may lay out.
Settling(s) == Visible(s) /\ ~Held(s)

\* No slot is held by a window that can hold none any more.
Whole(s) == ToSet(ts[s].order) \subseteq Candidates(s, floating)

\* A window that came maximized and cannot be restored.
Stuck(s, w) ==
  w \in Candidates(s, floating) \cap zoomed /\ kind[w] = "elevated" /\ w \notin ToSet(ts[s].order)

\* A space as a layout leaves it: only slots have places, all that can hold a
\* slot do but for the stuck ones, whom the space is dirty for, a slot is lost
\* only to a float of the tiler, and if none was the windows are where they
\* come to rest.
Arranged(s) ==
  LET t     == ts[s]
      cands == Candidates(s, floating)
  IN  /\ \A w \in Windows : t.expected[w] # None => w \in ToSet(t.order)
      /\ \A w \in cands : w \in ToSet(t.order) \/ Stuck(s, w)
      /\ \A w \in ToSet(t.order) : home[w] = s /\ (w \in cands \/ w \in auto)
      /\ \A w \in ToSet(t.order) \cap cands : w \in zoomed <=> w \in t.max
      /\ ((\E w \in Windows : Stuck(s, w)) \/ ~Whole(s)) => t.dirty
      /\ Whole(s) => \A w \in ToSet(t.order) :
           /\ t.expected[w] = Rects(s[1], t)[Index(t.order, w)]
           /\ w \notin t.max => frame[w] = Lands(w, t.expected[w])

StepOfTimer == UNCHANGED <<kind, home, dead, iconic, sticky, current, drag, enabled>>

\* What a layout does to the windows of a space that is due.
LEMMA DueBecomes ==
  ASSUME Sound, NEW s \in Due, Laying, StepOfTimer
  PROVE  /\ ts'[s] = Layout(s).tile
         /\ \A w \in Windows : home[w] = s =>
              /\ w \in floating' <=> w \in floating \ Readmits(s) \/ w \in Layout(s).struck
              /\ w \in zoomed' <=> w \in zoomed \ Layout(s).flattened
              /\ frame'[w] = IF w \in Layout(s).pushed
                             THEN Lands(w, Layout(s).tile.expected[w]) ELSE frame[w]
         /\ Candidates(s, floating)' = Cands(s) \ Layout(s).struck
  <1>1. s \in Spaces /\ Tidy(ts[s])
    BY DueIs DEF Sound, AllTidy
  <1> DEFINE out == Layout(s)
  <1>2. /\ frame' = [w \in Windows |->
             IF \E z \in Due : w \in Layout(z).pushed
             THEN Lands(w, Layout(home[w]).tile.expected[w]) ELSE frame[w]]
        /\ zoomed' = zoomed \ UNION {Layout(z).flattened : z \in Due}
        /\ floating' = (floating \ UNION {Readmits(z) : z \in Due})
                          \cup UNION {Layout(z).struck : z \in Due}
        /\ ts'[s] = out.tile
    BY <1>1 DEF Laying
  <1> HIDE DEF out
  <1>3. ASSUME NEW w \in Windows, home[w] = s
        PROVE  /\ w \in floating' <=> w \in floating \ Readmits(s) \/ w \in out.struck
               /\ w \in zoomed' <=> w \in zoomed \ out.flattened
               /\ frame'[w] = IF w \in out.pushed
                              THEN Lands(w, out.tile.expected[w]) ELSE frame[w]
    <2>1. \A z \in Due : z # s =>
            /\ w \notin Readmits(z) /\ w \notin Layout(z).struck
            /\ w \notin Layout(z).flattened /\ w \notin Layout(z).pushed
      BY <1>3, LaidHome
    <2>2. w \in floating' <=> w \in floating \ Readmits(s) \/ w \in out.struck
      BY <1>2, <2>1 DEF out
    <2>3. w \in zoomed' <=> w \in zoomed \ out.flattened
      BY <1>2, <2>1 DEF out
    <2>4. (\E z \in Due : w \in Layout(z).pushed) <=> w \in out.pushed
      BY <2>1 DEF out
    <2>5. frame'[w] = IF w \in out.pushed THEN Lands(w, out.tile.expected[w]) ELSE frame[w]
      BY <1>2, <1>3, <2>4 DEF out
    <2>6. QED
      BY <2>2, <2>3, <2>5
  <1>4. out.struck \subseteq Cands(s)
    BY <1>1, LayoutIs DEF Cands, out
  <1>5. Candidates(s, floating)' = Cands(s) \ out.struck
    <2>1. Candidates(s, floating)' =
            {w \in Windows : home[w] = s /\ w \notin dead \cup sticky \cup iconic
                              /\ ~Floating(w, floating')}
      BY DEF Candidates, Floating, StepOfTimer
    <2>2. \A w \in Windows : home[w] = s =>
            (~Floating(w, floating') <=> ~Floating(w, floating \ Readmits(s)) /\ w \notin out.struck)
      <3>1. \A w \in out.struck : w \notin FloatRuled
        BY <1>4 DEF Cands, Candidates, Floating
      <3>2. QED
        BY <1>3, <3>1 DEF Floating
    <2>3. QED
      BY <2>1, <2>2 DEF Candidates, Cands
  <1>6. QED
    BY <1>2, <1>3, <1>5 DEF out

\* A layout leaves the spaces that were due laid.
LEMMA DueArranged ==
  ASSUME Sound, NEW s \in Due, Laying, StepOfTimer
  PROVE  Arranged(s)' /\ Whole(s)'
  <1>1. s \in Spaces /\ Tidy(ts[s])
    BY DueIs DEF Sound, AllTidy
  <1> DEFINE out == Layout(s)
             t   == out.tile
  <1>2. /\ out.pushed = ToSet(t.order) \ t.max
        /\ \A w \in Windows : t.expected[w] = IF w \in ToSet(t.order)
                                              THEN Rects(s[1], t)[Index(t.order, w)] ELSE None
    BY <1>1, LayoutIs
  <1>3. /\ ToSet(t.order) = Cands(s) \ Barred(s)
        /\ out.struck = {w \in Barred(s) : StruckOut(ts[s].flat[w])}
        /\ t.max = {w \in Cands(s) \cap zoomed : w \in ToSet(ts[s].order)}
        /\ out.flattened = (Cands(s) \cap zoomed) \ (t.max \cup Barred(s))
        /\ t.dirty <=> Barred(s) \ out.struck # {}
    BY <1>1, LayoutCounts
  <1>4. /\ ts'[s] = t
        /\ \A w \in Windows : home[w] = s =>
             /\ w \in zoomed' <=> w \in zoomed \ out.flattened
             /\ frame'[w] = IF w \in out.pushed THEN Lands(w, t.expected[w]) ELSE frame[w]
        /\ Candidates(s, floating)' = Cands(s) \ out.struck
    BY DueBecomes
  <1> HIDE DEF out, t
  <1>5. /\ Cands(s) \subseteq Windows /\ \A w \in Cands(s) : home[w] = s
        /\ Barred(s) \subseteq Cands(s) \cap zoomed
        /\ \A w \in Barred(s) : kind[w] = "elevated" /\ w \notin ToSet(ts[s].order)
    BY DEF Cands, Candidates, Barred
  <1>6. kind' = kind /\ home' = home
    BY DEF StepOfTimer
  <1>7. Whole(s)'
    BY <1>3, <1>4 DEF Whole
  <1>8. \A w \in Windows : t.expected[w] # None => w \in ToSet(t.order)
    BY <1>2
  <1>9. \A w \in Windows : Stuck(s, w)' <=> w \in Barred(s) \ out.struck
    <2>1. \A w \in Windows : Stuck(s, w)' <=>
            w \in Cands(s) \ out.struck /\ w \in zoomed' /\ kind[w] = "elevated" /\ w \notin ToSet(t.order)
      BY <1>4, <1>6 DEF Stuck
    <2>2. ASSUME NEW w \in Barred(s) PROVE w \in zoomed'
      <3>1. w \in Windows /\ home[w] = s /\ w \in zoomed /\ w \notin out.flattened
        BY <1>3, <1>5
      <3>2. QED
        BY <1>4, <3>1
    <2>3. QED
      BY <2>1, <2>2, <1>3, <1>5
  <1>10. \A w \in Cands(s) \ out.struck : w \in ToSet(t.order) \/ w \in Barred(s) \ out.struck
    BY <1>3
  <1>11. ASSUME NEW w \in ToSet(t.order) PROVE w \in zoomed' <=> w \in t.max
    <2>1. w \in Windows /\ home[w] = s /\ w \in Cands(s) \ Barred(s)
      BY <1>3, <1>5, <1>11
    <2>2. w \in zoomed' <=> w \in zoomed \ out.flattened
      BY <1>4, <2>1
    <2>3. QED
      BY <1>3, <2>1, <2>2
  <1>12. \A w \in ToSet(t.order) : home[w] = s /\ w \in Cands(s) \ out.struck /\ w \in Windows
    BY <1>3, <1>5
  <1>13. \A w \in Windows : kind[w] \in {"yields", "clamps", "elevated"}
    BY TilingAssumption DEF Sound, Others
  <1>14. ASSUME NEW w \in ToSet(t.order)
         PROVE  /\ t.expected[w] = Rects(s[1], t)[Index(t.order, w)]
                /\ w \notin t.max => frame'[w] = Lands(w, ts[s].expected[w])'
    <2>1. t.expected[w] = Rects(s[1], t)[Index(t.order, w)]
      BY <1>2, <1>12
    <2>2. ASSUME w \notin t.max PROVE frame'[w] = Lands(w, ts[s].expected[w])'
      <3> DEFINE x == t.expected[w]
      <3>1. frame'[w] = Lands(w, x) /\ ts'[s].expected[w] = x
        BY <1>2, <1>4, <1>12, <2>2
      <3> HIDE DEF x
      <3>2. CASE kind[w] = "elevated"
        BY <3>1, <3>2, <1>6 DEF Lands
      <3>3. CASE kind[w] = "clamps"
        BY <3>1, <3>3, <1>6 DEF Lands
      <3>4. CASE kind[w] = "yields"
        BY <3>1, <3>4, <1>6 DEF Lands
      <3>5. QED
        BY <3>2, <3>3, <3>4, <1>12, <1>13
    <2>3. QED
      BY <2>1, <2>2
  <1>15. Rects(s[1], ts[s])' = Rects(s[1], t)
    BY <1>4 DEF Rects
  <1>16. \A w \in Candidates(s, floating)' : w \in ToSet(ts'[s].order) \/ Stuck(s, w)'
    BY <1>4, <1>5, <1>9, <1>10
  <1>17. \A w \in ToSet(ts'[s].order) : home'[w] = s /\ (w \in Candidates(s, floating)' \/ w \in auto')
    BY <1>4, <1>6, <1>12
  <1>18. \A w \in ToSet(ts'[s].order) : w \in zoomed' <=> w \in ts'[s].max
    BY <1>4, <1>11
  <1>19. (\E w \in Windows : Stuck(s, w)') \/ ~Whole(s)' => ts'[s].dirty
    BY <1>3, <1>4, <1>7, <1>9
  <1>20. \A w \in ToSet(ts'[s].order) :
            /\ ts'[s].expected[w] = Rects(s[1], ts[s])'[Index(ts'[s].order, w)]
            /\ w \notin ts'[s].max => frame'[w] = Lands(w, ts[s].expected[w])'
    BY <1>4, <1>14, <1>15
  <1>21. \A w \in Windows : ts'[s].expected[w] # None => w \in ToSet(ts'[s].order)
    BY <1>4, <1>8
  <1>22. QED
    BY <1>7, <1>16, <1>17, <1>18, <1>19, <1>20, <1>21 DEF Arranged

\* Strikes are counted where the windows have the places a layout gave them,
\* or the user has one of them in the hand.
Measured(s) == Visible(s) /\ (Held(s) \/ (Arranged(s) /\ Whole(s)))

\* A space that has not been laid out since the user last changed it.
Raw(s) == Settling(s) /\ ~Arranged(s)

\* The windows that can still strike out.
Alive == {w \in Windows :
  /\ home[w] # None /\ Visible(home[w])
  /\ IF Held(home[w]) THEN ts[home[w]].expected[w] # None
     ELSE /\ w \notin dead \cup sticky \cup iconic \cup FloatRuled
          /\ w \in floating => ~Arranged(home[w])}

\* A space that is not due is as it was in every respect.
LEMMA UndueSame ==
  ASSUME Sound, NEW s \in Spaces, s \notin Due, Laying, StepOfTimer
  PROVE  /\ ts'[s] = ts[s]
         /\ \A w \in Windows : home[w] = s =>
              /\ w \in floating' <=> w \in floating
              /\ w \in auto' <=> w \in auto
              /\ w \in zoomed' <=> w \in zoomed
              /\ frame'[w] = frame[w]
  <1>1. /\ ts' = [z \in Spaces |-> IF z \in Due THEN Layout(z).tile ELSE ts[z]]
        /\ frame' = [w \in Windows |->
             IF \E z \in Due : w \in Layout(z).pushed
             THEN Lands(w, Layout(home[w]).tile.expected[w]) ELSE frame[w]]
        /\ zoomed' = zoomed \ UNION {Layout(z).flattened : z \in Due}
        /\ floating' = (floating \ UNION {Readmits(z) : z \in Due})
                          \cup UNION {Layout(z).struck : z \in Due}
        /\ auto' = (auto \ UNION {Readmits(z) : z \in Due})
                          \cup UNION {Layout(z).struck : z \in Due}
    BY DEF Laying
  <1>2. ASSUME NEW w \in Windows, home[w] = s
        PROVE  /\ w \in floating' <=> w \in floating
               /\ w \in auto' <=> w \in auto
               /\ w \in zoomed' <=> w \in zoomed
               /\ frame'[w] = frame[w]
    <2>1. \A z \in Due : w \notin Readmits(z) /\ w \notin Layout(z).struck
                         /\ w \notin Layout(z).flattened /\ w \notin Layout(z).pushed
      BY <1>2, LaidHome
    <2>2. w \in floating' <=> w \in floating
      BY <1>1, <2>1
    <2>3. w \in auto' <=> w \in auto
      BY <1>1, <2>1
    <2>4. w \in zoomed' <=> w \in zoomed
      BY <1>1, <2>1
    <2>5. frame'[w] = frame[w]
      BY <1>1, <2>1
    <2>6. QED
      BY <2>2, <2>3, <2>4, <2>5
  <1>3. QED
    BY <1>1, <1>2

\* Nothing about such a space changes.
LEMMA SpaceSame ==
  ASSUME Sound, NEW s \in Spaces, StepOfTimer, ts'[s] = ts[s],
         \A w \in Windows : home[w] = s =>
              /\ w \in floating' <=> w \in floating
              /\ w \in auto' <=> w \in auto
              /\ w \in zoomed' <=> w \in zoomed
              /\ frame'[w] = frame[w]
  PROVE  /\ Visible(s)' <=> Visible(s)
         /\ Held(s)' <=> Held(s)
         /\ Candidates(s, floating)' = Candidates(s, floating)
         /\ Arranged(s)' <=> Arranged(s)
         /\ Whole(s)' <=> Whole(s)
         /\ \A w \in Windows : /\ Stuck(s, w)' <=> Stuck(s, w)
                               /\ Fails(s, w)' <=> Fails(s, w)
                               /\ Fails(s, w) => Count(s, w)' = Count(s, w)
  <1>1. (Visible(s)' <=> Visible(s)) /\ (Held(s)' <=> Held(s))
    BY DEF StepOfTimer, Visible, Held
  <1>2. Candidates(s, floating)' = Candidates(s, floating)
    BY DEF StepOfTimer, Candidates, Floating
  <1>3. \A w \in Candidates(s, floating) : w \in Windows /\ home[w] = s
    BY DEF Candidates
  <1>4. Whole(s)' <=> Whole(s)
    BY <1>2 DEF Whole
  <1>5. \A w \in Windows : Stuck(s, w)' <=> Stuck(s, w)
    BY <1>2, <1>3 DEF Stuck, StepOfTimer
  <1>6. Rects(s[1], ts[s])' = Rects(s[1], ts[s])
    BY DEF Rects
  <1>7. \A w \in ToSet(ts[s].order) : w \in Windows
    <2>1. Tidy(ts[s])
      BY DEF Sound, AllTidy
    <2>2. ts[s].order \in Seq(Windows)
      BY <2>1, TileFields DEF Tidy
    <2>3. QED
      BY <2>2 DEF ToSet
  <1>8. \A w \in Windows : home[w] = s => Lands(w, ts[s].expected[w])' = Lands(w, ts[s].expected[w])
    <2>1. ASSUME NEW w \in Windows, home[w] = s
          PROVE  Lands(w, ts[s].expected[w])' = Lands(w, ts[s].expected[w])
      BY <2>1 DEF Lands, StepOfTimer
    <2>2. QED
      BY <2>1
  <1>9. Arranged(s)' <=> Arranged(s)
    BY <1>2, <1>3, <1>4, <1>5, <1>6, <1>7, <1>8 DEF Arranged, StepOfTimer
  <1>10. ASSUME NEW w \in Windows, ts[s].expected[w] # None
         PROVE  /\ Actual(w)' = Actual(w) /\ (IsZoomed(w)' <=> IsZoomed(w))
    <2>1. home[w] = s
      BY <1>10 DEF Sound, Tracked
    <2>2. QED
      BY <2>1 DEF Actual, IsZoomed, StepOfTimer
  <1>11. Checked(s)' = Checked(s) /\ \A w \in Checked(s) : w \in Windows /\ ts[s].expected[w] # None
    BY <1>1 DEF Checked, StepOfTimer
  <1>12. \A w \in Checked(s) :
            /\ InPlace(w, ts[s].expected[w])' <=> InPlace(w, ts[s].expected[w])
            /\ Mismatch(w, ts[s].expected[w], ts[s])' = Mismatch(w, ts[s].expected[w], ts[s])
    BY <1>10, <1>11 DEF InPlace, Mismatch
  <1>13. \A w \in Windows : Fails(s, w)' <=> Fails(s, w)
    BY <1>11, <1>12 DEF Fails
  <1>14. \A w \in Windows : Fails(s, w) => Count(s, w)' = Count(s, w)
    BY <1>10, <1>11 DEF Fails, Count
  <1>15. QED
    BY <1>1, <1>2, <1>4, <1>5, <1>9, <1>13, <1>14

\* On a space that is laid no window is readmitted.
LEMMA ArrangedReadmits ==
  ASSUME Sound, NEW s \in Spaces, Arranged(s)
  PROVE  /\ Readmits(s) = {} /\ Cands(s) = Candidates(s, floating)
         /\ \A w : w \in Barred(s) <=> Stuck(s, w)
  <1> DEFINE cands == Candidates(s, floating)
             tiles == ToSet(ts[s].order) \ auto
  <1>1. tiles \subseteq cands
    BY DEF Arranged
  <1>2. IsFiniteSet(cands)
    <2>1. cands \in SUBSET Windows /\ IsFiniteSet(Windows)
      BY TilingAssumption DEF Candidates
    <2> HIDE DEF cands
    <2>2. QED
      BY <2>1, FS_Subset
  <1>3. /\ Cardinality(tiles) \in Nat /\ Cardinality(cands) \in Nat
        /\ Cardinality(tiles) <= Cardinality(cands)
    <2>1. tiles \in SUBSET cands
      BY <1>1
    <2> HIDE DEF cands, tiles
    <2>2. QED
      BY <1>2, <2>1, FS_Subset, FS_CardinalityType
  <1>4. Readmits(s) = {}
    <2>1. ~(Cardinality(cands) < Cardinality(tiles))
      <3> HIDE DEF cands, tiles
      <3>1. QED
        BY <1>3
    <2>2. QED
      BY <2>1 DEF Readmits, PreviousTiles
  <1>5. Cands(s) = cands
    <2>1. floating \ Readmits(s) = floating
      BY <1>4
    <2>2. QED
      BY <2>1 DEF Cands
  <1>6. \A w : w \in Barred(s) <=> Stuck(s, w)
    BY <1>5 DEF Barred, Stuck
  <1>7. QED
    BY <1>4, <1>5, <1>6

\* A layout of such a space lets a window be as far out of place as it was, and
\* keeps its strikes.
LEMMA FailureStays ==
  ASSUME Sound, NEW s \in Due, Arranged(s), Whole(s), Laying, StepOfTimer,
         NEW w \in Windows, Fails(s, w)
  PROVE  Fails(s, w)' /\ Count(s, w)' = Count(s, w)
  <1>1. s \in Spaces /\ Tidy(ts[s])
    BY DueIs DEF Sound, AllTidy
  <1> DEFINE out == Layout(s)
             t   == out.tile
             x   == ts[s].expected[w]
  <1>2. /\ Cands(s) = Candidates(s, floating)
        /\ \A v : v \in Barred(s) <=> Stuck(s, v)
    BY <1>1, ArrangedReadmits
  <1>3. /\ out.pushed = ToSet(t.order) \ t.max
        /\ \A v \in Windows : t.expected[v] = IF v \in ToSet(t.order)
                                              THEN Rects(s[1], t)[Index(t.order, v)] ELSE None
    BY <1>1, LayoutIs
  <1>4. /\ ToSet(t.order) = Cands(s) \ Barred(s)
        /\ t.max = {v \in Cands(s) \cap zoomed : v \in ToSet(ts[s].order)}
        /\ \A v \in Windows : v \notin Barred(s) => t.strikes[v] = ts[s].strikes[v]
        /\ ToSet(ts[s].order) = Cands(s) \ Barred(s) => t.order = ts[s].order
        /\ t.ratio = ts[s].ratio /\ t.split = ts[s].split
    BY <1>1, LayoutCounts
  <1>5. /\ ts'[s] = t
        /\ \A v \in Windows : home[v] = s =>
             /\ v \in zoomed' <=> v \in zoomed \ out.flattened
             /\ frame'[v] = IF v \in out.pushed THEN Lands(v, t.expected[v]) ELSE frame[v]
    BY DueBecomes
  <1> HIDE DEF out, t
  <1>6. w \in Checked(s) /\ x # None /\ w \notin dead
    BY DEF Fails, Checked
  <1> HIDE DEF x
  <1>7. w \in ToSet(ts[s].order) /\ home[w] = s /\ w \in Candidates(s, floating)
    BY <1>6 DEF Arranged, Whole, x
  <1>8. ToSet(ts[s].order) = Cands(s) \ Barred(s)
    BY <1>2 DEF Arranged, Whole, Stuck
  <1>9. t.order = ts[s].order /\ Rects(s[1], t) = Rects(s[1], ts[s])
    BY <1>4, <1>8, RectsSame
  <1>10. t.expected[w] = x
    <2>1. x = Rects(s[1], ts[s])[Index(ts[s].order, w)]
      BY <1>7 DEF Arranged, x
    <2>2. QED
      BY <1>3, <1>7, <1>9, <2>1
  <1>11. w \notin zoomed
    <2>1. w \in zoomed => w \in ts[s].max
      BY <1>7 DEF Arranged
    <2>2. w \notin iconic
      BY <1>7 DEF Candidates
    <2>3. QED
      BY <2>1, <2>2 DEF Fails, Mismatch, IsZoomed
  <1>12. w \notin zoomed' /\ w \notin ts[s].max /\ w \notin t.max
    BY <1>4, <1>5, <1>7, <1>11 DEF Arranged
  <1>13. frame'[w] = frame[w]
    <2>1. frame'[w] = Lands(w, x)
      BY <1>3, <1>5, <1>7, <1>9, <1>10, <1>12
    <2>2. frame[w] = Lands(w, x)
      BY <1>7, <1>12 DEF Arranged, x
    <2>3. QED
      BY <2>1, <2>2
  <1>14. Actual(w)' = Actual(w)
    BY <1>11, <1>12, <1>13 DEF Actual, StepOfTimer
  <1>15. ts'[s].expected[w] = x /\ ts'[s].strikes[w] = ts[s].strikes[w]
    BY <1>2, <1>4, <1>5, <1>7, <1>8, <1>10
  <1>16. w \in Checked(s)'
    BY <1>6, <1>15 DEF Checked, Visible, StepOfTimer
  <1>17. /\ ~InPlace(w, ts[s].expected[w])'
         /\ Mismatch(w, ts[s].expected[w], ts[s])' = Mismatch(w, ts[s].expected[w], ts[s])
    <2>1. ts[s].expected[w] = x
      BY DEF x
    <2>2. ~InPlace(w, x)
      BY <2>1 DEF Fails
    <2>3. ~InPlace(w, ts[s].expected[w])'
      BY <1>14, <1>15, <2>2 DEF InPlace
    <2>4. Mismatch(w, ts[s].expected[w], ts[s])' = Mismatch(w, ts[s].expected[w], ts[s])
      BY <1>11, <1>12, <1>14, <1>15, <2>1 DEF Mismatch, IsZoomed
    <2>5. QED
      BY <2>3, <2>4
  <1>18. QED
    BY <1>11, <1>12, <1>15, <1>16, <1>17 DEF Fails, Count, IsZoomed

\* A window that is stuck on such a space strikes out, or is one strike nearer
\* to it and keeps the space dirty.
LEMMA StuckStays ==
  ASSUME Sound, NEW s \in Due, Arranged(s), Laying, StepOfTimer,
         NEW w \in Windows, Stuck(s, w)
  PROVE  \/ w \in Layout(s).struck
         \/ Stuck(s, w)' /\ ts'[s].flat[w] = ts[s].flat[w] + 1
  <1>1. s \in Spaces /\ Tidy(ts[s])
    BY DueIs DEF Sound, AllTidy
  <1> DEFINE out == Layout(s)
             t   == out.tile
  <1>2. Cands(s) = Candidates(s, floating) /\ \A v : v \in Barred(s) <=> Stuck(s, v)
    BY <1>1, ArrangedReadmits
  <1>3. /\ ToSet(t.order) = Cands(s) \ Barred(s)
        /\ t.max = {v \in Cands(s) \cap zoomed : v \in ToSet(ts[s].order)}
        /\ out.flattened = (Cands(s) \cap zoomed) \ (t.max \cup Barred(s))
        /\ \A v \in Barred(s) \ out.struck : t.flat[v] = ts[s].flat[v] + 1
    BY <1>1, LayoutCounts
  <1>4. /\ ts'[s] = t
        /\ \A v \in Windows : home[v] = s => (v \in zoomed' <=> v \in zoomed \ out.flattened)
        /\ Candidates(s, floating)' = Cands(s) \ out.struck
    BY DueBecomes
  <1> HIDE DEF out, t
  <1>5. w \in Barred(s) /\ w \in Cands(s) /\ w \in zoomed /\ kind[w] = "elevated" /\ home[w] = s
    BY <1>2 DEF Stuck, Candidates
  <1>6. w \in zoomed'
    BY <1>3, <1>4, <1>5
  <1>7. ASSUME w \notin out.struck PROVE Stuck(s, w)' /\ ts'[s].flat[w] = ts[s].flat[w] + 1
    BY <1>3, <1>4, <1>5, <1>6, <1>7 DEF Stuck, StepOfTimer
  <1>8. QED
    BY <1>7 DEF out

\* A space that a layout leaves dirty has a window with a strike that is stuck.
LEMMA DirtyStuck ==
  ASSUME Sound, NEW s \in Due, Laying, StepOfTimer, Layout(s).tile.dirty
  PROVE  \E w \in Windows : Stuck(s, w)' /\ ts'[s].flat[w] >= 1
  <1>1. s \in Spaces /\ Tidy(ts[s])
    BY DueIs DEF Sound, AllTidy
  <1> DEFINE out == Layout(s)
             t   == out.tile
  <1>2. /\ ToSet(t.order) = Cands(s) \ Barred(s)
        /\ t.max = {v \in Cands(s) \cap zoomed : v \in ToSet(ts[s].order)}
        /\ out.flattened = (Cands(s) \cap zoomed) \ (t.max \cup Barred(s))
        /\ t.dirty <=> Barred(s) \ out.struck # {}
        /\ \A v \in Barred(s) \ out.struck : t.flat[v] = ts[s].flat[v] + 1
    BY <1>1, LayoutCounts
  <1>3. /\ ts'[s] = t
        /\ \A v \in Windows : home[v] = s => (v \in zoomed' <=> v \in zoomed \ out.flattened)
        /\ Candidates(s, floating)' = Cands(s) \ out.struck
    BY DueBecomes
  <1>4. out.tile.dirty
    OBVIOUS
  <1> HIDE DEF out, t
  <1>5. PICK w \in Barred(s) \ out.struck : TRUE
    BY <1>2, <1>4 DEF t
  <1>6. w \in Cands(s) /\ w \in zoomed /\ kind[w] = "elevated" /\ home[w] = s /\ w \in Windows
    BY DEF Barred, Cands, Candidates
  <1>7. w \in zoomed'
    BY <1>2, <1>3, <1>5, <1>6
  <1>8. Stuck(s, w)'
    BY <1>2, <1>3, <1>5, <1>6, <1>7 DEF Stuck, StepOfTimer
  <1>9. ts[s].flat[w] \in Nat
    <2>1. ts[s].flat \in [Windows -> 0..(StrikeLimit - 1)] /\ StrikeLimit \in Nat
      BY <1>1, TileFields, TilingAssumption DEF Tidy
    <2>2. QED
      BY <1>6, <2>1
  <1>10. QED
    BY <1>2, <1>3, <1>5, <1>6, <1>8, <1>9

\* A layout makes no window one that can strike out, and one that strikes out
\* on a space that is laid is none any more.
LEMMA LayingAlive ==
  ASSUME Sound, Laying, StepOfTimer
  PROVE  /\ Alive' \subseteq Alive
         /\ \A s \in Due : Arranged(s) => \A w \in Layout(s).struck : w \in Alive /\ w \notin Alive'
  <1>1. /\ home' = home /\ dead' = dead /\ sticky' = sticky /\ iconic' = iconic
        /\ \A s \in Spaces : (Visible(s)' <=> Visible(s)) /\ (Held(s)' <=> Held(s))
    BY DEF StepOfTimer, Visible, Held
  <1>2. ASSUME NEW w \in Windows, w \in Alive' PROVE w \in Alive
    <2>0. home[w] \in Spaces /\ Visible(home[w])'
      BY <1>1, <1>2 DEF Alive, Sound, Others
    <2> PICK s \in Spaces : s = home[w]
      BY <2>0
    <2>1. Visible(s) /\ home'[w] = s /\ s # None
      BY <1>1, <2>0, NoneAssumption
    <2>2. IF Held(s) THEN ts'[s].expected[w] # None
          ELSE /\ w \notin dead \cup sticky \cup iconic \cup FloatRuled
               /\ w \in floating' => ~Arranged(s)'
      BY <1>1, <1>2, <2>1 DEF Alive
    <2>3. CASE s \in Due
      <3>1. ~Held(s) /\ Arranged(s)'
        BY <2>3, DueIs, DueArranged
      <3>2. w \notin floating' /\ w \notin dead \cup sticky \cup iconic \cup FloatRuled
        BY <2>2, <3>1
      <3>3. w \notin floating \/ w \in Readmits(s)
        BY <2>3, <3>2, DueBecomes
      <3>4. Arranged(s) => w \notin floating
        BY <2>1, <3>3, ArrangedReadmits
      <3>5. QED
        BY <1>2, <2>1, <3>1, <3>2, <3>4 DEF Alive
    <2>4. CASE s \notin Due
      <3>1. /\ ts'[s] = ts[s]
            /\ \A v \in Windows : home[v] = s =>
                 /\ v \in floating' <=> v \in floating
                 /\ v \in auto' <=> v \in auto
                 /\ v \in zoomed' <=> v \in zoomed
                 /\ frame'[v] = frame[v]
        BY <2>1, <2>4, UndueSame
      <3>2. Arranged(s)' <=> Arranged(s)
        BY <2>1, <3>1, SpaceSame
      <3>3. QED
        BY <1>2, <2>1, <2>2, <3>1, <3>2 DEF Alive
    <2>5. QED
      BY <2>3, <2>4
  <1>3. ASSUME NEW s \in Due, Arranged(s), NEW w \in Layout(s).struck
        PROVE  w \in Alive /\ w \notin Alive'
    <2>1. s \in Spaces /\ Visible(s) /\ ~Held(s) /\ Tidy(ts[s])
      BY DueIs DEF Sound, AllTidy
    <2>2. w \in Cands(s)
      <3>1. Layout(s).struck \subseteq Candidates(s, floating \ Readmits(s))
        BY <2>1, LayoutIs
      <3>2. QED
        BY <3>1 DEF Cands
    <2>3. Cands(s) = Candidates(s, floating)
      BY <1>3, <2>1, ArrangedReadmits
    <2>4. /\ w \in Windows /\ home[w] = s /\ w \notin floating
          /\ w \notin dead \cup sticky \cup iconic \cup FloatRuled
      BY <2>2, <2>3 DEF Candidates, Floating
    <2>5. s # None
      BY <2>1, NoneAssumption
    <2>6. w \in Alive
      BY <2>1, <2>4, <2>5 DEF Alive
    <2>7. w \in floating' /\ Arranged(s)'
      BY <2>4, DueBecomes, DueArranged
    <2>8. w \notin Alive'
      BY <1>1, <2>1, <2>4, <2>7 DEF Alive
    <2>9. QED
      BY <2>6, <2>8
  <1>4. QED
    BY <1>2, <1>3 DEF Alive

\* What a verification does to a space.
LEMMA SweptBecomes ==
  ASSUME Sound, NEW s \in Spaces, Swept, StepOfTimer
  PROVE  LET out == Sweep(s).out
         IN  /\ ts'[s].order = ts[s].order /\ ts'[s].ratio = ts[s].ratio /\ ts'[s].split = ts[s].split
             /\ ts'[s].max = ts[s].max \ out
             /\ ts'[s].dirty <=> ts[s].dirty \/ \E w \in Windows : Fails(s, w)
             /\ out = {w \in Windows : Fails(s, w) /\ StruckOut(Count(s, w))}
             /\ \A w \in Windows : ts'[s].expected[w] = IF w \in out THEN None ELSE ts[s].expected[w]
             /\ \A w \in Windows : Fails(s, w) /\ w \notin out =>
                  (IF IsZoomed(w) THEN ts'[s].flat[w] ELSE ts'[s].strikes[w]) = Count(s, w) + 1
             /\ \A w \in Windows : ts[s].expected[w] = None => ts'[s].flat[w] = ts[s].flat[w]
             /\ \A w \in Windows : home[w] = s =>
                  /\ w \in floating' <=> w \in floating \/ w \in out
                  /\ w \in auto' <=> w \in auto \/ w \in out
             /\ Candidates(s, floating)' = Candidates(s, floating) \ out
             /\ \A w \in out : home[w] = s /\ ts[s].expected[w] # None
  <1> DEFINE sweep == Sweep(s)
             out   == sweep.out
  <1>1. Tidy(ts[s])
    BY DEF Sound, AllTidy
  <1>2. /\ sweep.tile.order = ts[s].order /\ sweep.tile.ratio = ts[s].ratio
        /\ sweep.tile.split = ts[s].split /\ sweep.tile.max = ts[s].max \ out
        /\ sweep.tile.dirty <=> ts[s].dirty \/ sweep.again
    BY <1>1, SweepIs
  <1>3. /\ sweep.again <=> \E w \in Windows : Fails(s, w)
        /\ out = {w \in Windows : Fails(s, w) /\ StruckOut(Count(s, w))}
        /\ \A w \in Windows : sweep.tile.expected[w] = IF w \in out THEN None ELSE ts[s].expected[w]
        /\ \A w \in Windows : Fails(s, w) /\ w \notin out =>
             (IF IsZoomed(w) THEN sweep.tile.flat[w] ELSE sweep.tile.strikes[w]) = Count(s, w) + 1
        /\ \A w \in Windows : ts[s].expected[w] = None => sweep.tile.flat[w] = ts[s].flat[w]
    BY <1>1, SweepCounts
  <1>4. /\ ts'[s] = sweep.tile
        /\ floating' = floating \cup UNION {Sweep(z).out : z \in Spaces}
        /\ auto' = auto \cup UNION {Sweep(z).out : z \in Spaces}
    BY DEF Swept
  <1>5. ASSUME NEW z \in Spaces, NEW w \in Sweep(z).out PROVE home[w] = z /\ ts[z].expected[w] # None
    <2> DEFINE o == Sweep(z)
    <2>1. Tidy(ts[z])
      BY DEF Sound, AllTidy
    <2>2. \A v \in o.out : v \in Windows /\ ts[z].expected[v] # None
      BY <2>1, SweepIs
    <2> HIDE DEF o
    <2>3. w \in o.out
      BY <1>5 DEF o
    <2>4. QED
      BY <2>2, <2>3 DEF Sound, Tracked
  <1>6. \A w \in out : home[w] = s /\ ts[s].expected[w] # None
    BY <1>5
  <1>7. ASSUME NEW w \in Windows, home[w] = s
        PROVE  /\ w \in floating' <=> w \in floating \/ w \in out
               /\ w \in auto' <=> w \in auto \/ w \in out
    <2>1. \A z \in Spaces : w \in Sweep(z).out => z = s
      BY <1>5, <1>7
    <2>2. w \in UNION {Sweep(z).out : z \in Spaces} <=> w \in out
      BY <2>1
    <2>3. QED
      BY <1>4, <2>2
  <1> HIDE DEF out, sweep
  <1>8. Candidates(s, floating)' = Candidates(s, floating) \ out
    <2>1. Candidates(s, floating)' =
            {w \in Windows : home[w] = s /\ w \notin dead \cup sticky \cup iconic
                              /\ ~Floating(w, floating')}
      BY DEF Candidates, Floating, StepOfTimer
    <2>2. \A w \in Windows : home[w] = s =>
            (~Floating(w, floating') <=> ~Floating(w, floating) /\ w \notin out)
      BY <1>7 DEF Floating
    <2>3. QED
      BY <2>1, <2>2 DEF Candidates
  <1>9. QED
    BY <1>2, <1>3, <1>4, <1>6, <1>7, <1>8 DEF out, sweep

StepOfSweep == StepOfTimer /\ UNCHANGED <<zoomed, frame>>

\* A verification finds no failure where there was none, and what fails and
\* does not strike out goes on failing with one strike more.
LEMMA SweptFails ==
  ASSUME Sound, NEW s \in Spaces, Swept, StepOfSweep, NEW w \in Windows
  PROVE  /\ Fails(s, w)' => Fails(s, w)
         /\ Fails(s, w) => \/ w \in Sweep(s).out
                           \/ Fails(s, w)' /\ Count(s, w)' = Count(s, w) + 1
  <1> DEFINE out == Sweep(s).out
  <1>1. StepOfTimer
    BY DEF StepOfSweep
  <1>2. /\ ts'[s].max = ts[s].max \ out
        /\ ts'[s].expected[w] = IF w \in out THEN None ELSE ts[s].expected[w]
        /\ Fails(s, w) /\ w \notin out =>
             (IF IsZoomed(w) THEN ts'[s].flat[w] ELSE ts'[s].strikes[w]) = Count(s, w) + 1
    BY <1>1, SweptBecomes
  <1> HIDE DEF out
  <1>3. Actual(w)' = Actual(w) /\ zoomed' = zoomed /\ dead' = dead /\ (Visible(s)' <=> Visible(s))
    BY DEF StepOfSweep, StepOfTimer, Actual, Visible
  <1>4. CASE w \in out
    <2>1. ~Fails(s, w)'
      BY <1>2, <1>4 DEF Fails, Checked
    <2>2. QED
      BY <1>4, <2>1 DEF out
  <1>5. CASE w \notin out
    <2>1. ts'[s].expected[w] = ts[s].expected[w] /\ (w \in ts'[s].max <=> w \in ts[s].max)
      BY <1>2, <1>5
    <2>2. w \in Checked(s)' <=> w \in Checked(s)
      BY <1>3, <2>1 DEF Checked
    <2>3. /\ InPlace(w, ts[s].expected[w])' <=> InPlace(w, ts[s].expected[w])
          /\ Mismatch(w, ts[s].expected[w], ts[s])' = Mismatch(w, ts[s].expected[w], ts[s])
      BY <1>1, <1>3, <2>1 DEF InPlace, Mismatch, IsZoomed, StepOfTimer
    <2>4. Fails(s, w)' <=> Fails(s, w)
      BY <2>2, <2>3 DEF Fails
    <2>5. Fails(s, w) => Count(s, w)' = Count(s, w) + 1
      BY <1>1, <1>2, <1>3, <1>5 DEF Count, IsZoomed, StepOfTimer
    <2>6. QED
      BY <2>4, <2>5
  <1>6. QED
    BY <1>4, <1>5

\* A verification leaves a space that was laid laid, and whole if nothing
\* strikes out there; what is stuck there stays so, with its strikes.
LEMMA SweptArranged ==
  ASSUME Sound, NEW s \in Spaces, Swept, StepOfSweep, Arranged(s)
  PROVE  /\ Arranged(s)'
         /\ Sweep(s).out = {} => (Whole(s)' <=> Whole(s))
         /\ \A w \in Windows : Stuck(s, w) => Stuck(s, w)' /\ ts'[s].flat[w] = ts[s].flat[w]
  <1> DEFINE out == Sweep(s).out
  <1>1. StepOfTimer /\ zoomed' = zoomed /\ frame' = frame /\ kind' = kind /\ home' = home
    BY DEF StepOfSweep, StepOfTimer
  <1>2. /\ ts'[s].order = ts[s].order /\ ts'[s].ratio = ts[s].ratio /\ ts'[s].split = ts[s].split
        /\ ts'[s].max = ts[s].max \ out
        /\ ts'[s].dirty <=> ts[s].dirty \/ \E w \in Windows : Fails(s, w)
        /\ out = {w \in Windows : Fails(s, w) /\ StruckOut(Count(s, w))}
        /\ \A w \in Windows : ts'[s].expected[w] = IF w \in out THEN None ELSE ts[s].expected[w]
        /\ \A w \in Windows : ts[s].expected[w] = None => ts'[s].flat[w] = ts[s].flat[w]
        /\ \A w \in Windows : home[w] = s => (w \in auto' <=> w \in auto \/ w \in out)
        /\ Candidates(s, floating)' = Candidates(s, floating) \ out
        /\ \A w \in out : ts[s].expected[w] # None
    BY <1>1, SweptBecomes
  <1> HIDE DEF out
  <1>3. \A w \in out : w \in Windows /\ w \in ToSet(ts[s].order)
    BY <1>2 DEF Arranged
  <1>4. Tidy(ts[s]) /\ \A w \in ToSet(ts[s].order) : w \in Windows
    <2>1. Tidy(ts[s])
      BY DEF Sound, AllTidy
    <2>2. ts[s].order \in Seq(Windows)
      BY <2>1, TileFields DEF Tidy
    <2>3. QED
      BY <2>1, <2>2 DEF ToSet
  <1>5. \A w \in Windows : Stuck(s, w)' <=> Stuck(s, w)
    BY <1>1, <1>2, <1>3 DEF Stuck
  <1>6. Whole(s)' <=> Whole(s) /\ out = {}
    BY <1>2, <1>3 DEF Whole
  <1>7. Rects(s[1], ts[s])' = Rects(s[1], ts[s])
    BY <1>2 DEF Rects
  <1>8. \A w \in Windows : ts'[s].expected[w] # None => w \in ToSet(ts'[s].order)
    BY <1>2 DEF Arranged
  <1>9. \A w \in Candidates(s, floating)' : w \in ToSet(ts'[s].order) \/ Stuck(s, w)'
    <2>1. \A w \in Candidates(s, floating) : w \in Windows
      BY DEF Candidates
    <2>2. QED
      BY <1>2, <1>5, <2>1 DEF Arranged
  <1>10. \A w \in ToSet(ts'[s].order) : home'[w] = s /\ (w \in Candidates(s, floating)' \/ w \in auto')
    BY <1>1, <1>2, <1>4 DEF Arranged
  <1>11. \A w \in ToSet(ts'[s].order) \cap Candidates(s, floating)' : w \in zoomed' <=> w \in ts'[s].max
    BY <1>1, <1>2 DEF Arranged
  <1>12. (\E w \in Windows : Stuck(s, w)') \/ ~Whole(s)' => ts'[s].dirty
    <2>1. out # {} => ts'[s].dirty
      BY <1>2
    <2>2. QED
      BY <1>2, <1>5, <1>6, <2>1 DEF Arranged
  <1>13. ASSUME Whole(s)', NEW w \in ToSet(ts'[s].order)
         PROVE  /\ ts'[s].expected[w] = Rects(s[1], ts[s])'[Index(ts'[s].order, w)]
                /\ w \notin ts'[s].max => frame'[w] = Lands(w, ts[s].expected[w])'
    <2>1. Whole(s) /\ out = {} /\ w \in Windows /\ w \in ToSet(ts[s].order)
      BY <1>2, <1>4, <1>6, <1>13
    <2>2. ts'[s].expected[w] = ts[s].expected[w] /\ ts'[s].max = ts[s].max
      BY <1>2, <2>1
    <2>3. Lands(w, ts[s].expected[w])' = Lands(w, ts[s].expected[w])
      BY <1>1, <2>2 DEF Lands
    <2>4. QED
      BY <1>1, <1>2, <1>7, <2>1, <2>2, <2>3 DEF Arranged
  <1>14. Arranged(s)'
    BY <1>8, <1>9, <1>10, <1>11, <1>12, <1>13 DEF Arranged
  <1>15. ASSUME NEW w \in Windows, Stuck(s, w) PROVE Stuck(s, w)' /\ ts'[s].flat[w] = ts[s].flat[w]
    <2>1. ts[s].expected[w] = None
      BY <1>15 DEF Stuck, Arranged
    <2>2. QED
      BY <1>2, <1>5, <1>15, <2>1
  <1>16. QED
    BY <1>6, <1>14, <1>15 DEF out

\* A verification makes no window one that can strike out, and one that strikes
\* out where strikes are counted is none any more.
LEMMA SweptAlive ==
  ASSUME Sound, Swept, StepOfSweep
  PROVE  /\ Alive' \subseteq Alive
         /\ \A s \in Spaces : Measured(s) =>
              \A w \in Windows : Fails(s, w) =>
                w \in Alive /\ (w \in Sweep(s).out => w \notin Alive')
  <1>1. /\ home' = home /\ dead' = dead /\ sticky' = sticky /\ iconic' = iconic /\ StepOfTimer
        /\ \A s \in Spaces : (Visible(s)' <=> Visible(s)) /\ (Held(s)' <=> Held(s))
    BY DEF StepOfSweep, StepOfTimer, Visible, Held
  <1>2. ASSUME NEW w \in Windows, w \in Alive' PROVE w \in Alive
    <2>0. home[w] \in Spaces /\ Visible(home[w])'
      BY <1>1, <1>2 DEF Alive, Sound, Others
    <2> PICK s \in Spaces : s = home[w]
      BY <2>0
    <2>1. Visible(s) /\ home'[w] = s /\ s # None
      BY <1>1, <2>0, NoneAssumption
    <2>2. IF Held(s) THEN ts'[s].expected[w] # None
          ELSE /\ w \notin dead \cup sticky \cup iconic \cup FloatRuled
               /\ w \in floating' => ~Arranged(s)'
      BY <1>1, <1>2, <2>1 DEF Alive
    <2>3. ts'[s].expected[w] # None => ts[s].expected[w] # None
      BY <1>1, SweptBecomes
    <2>4. w \in floating => w \in floating'
      BY DEF Swept
    <2>5. Arranged(s) => Arranged(s)'
      BY SweptArranged
    <2>6. QED
      BY <1>2, <2>1, <2>2, <2>3, <2>4, <2>5 DEF Alive
  <1>3. ASSUME NEW s \in Spaces, Measured(s), NEW w \in Windows, Fails(s, w)
        PROVE  w \in Alive /\ (w \in Sweep(s).out => w \notin Alive')
    <2>1. ts[s].expected[w] # None /\ Visible(s) /\ s # None
      BY <1>3, NoneAssumption DEF Fails, Checked
    <2>2. home[w] = s
      BY <2>1 DEF Sound, Tracked
    <2>3. w \in Sweep(s).out => ts'[s].expected[w] = None /\ w \in floating'
      BY <1>1, <2>2, SweptBecomes
    <2>4. CASE Held(s)
      BY <1>1, <2>1, <2>2, <2>3, <2>4 DEF Alive
    <2>5. CASE ~Held(s)
      <3>1. Arranged(s) /\ Whole(s)
        BY <1>3, <2>5 DEF Measured
      <3>2. w \in Candidates(s, floating)
        BY <2>1, <3>1 DEF Arranged, Whole
      <3>3. w \in Alive
        BY <2>1, <2>2, <2>5, <3>2 DEF Alive, Candidates, Floating
      <3>4. Arranged(s)'
        BY <3>1, SweptArranged
      <3>5. QED
        BY <1>1, <2>2, <2>3, <2>5, <3>3, <3>4 DEF Alive
    <2>6. QED
      BY <2>4, <2>5
  <1>4. QED
    BY <1>2, <1>3 DEF Alive


-----------------------------------------------------------------------------
(* The retiles are paid for *)

LEMMA Times ==
  ASSUME NEW l \in Nat, NEW i \in Nat, NEW j \in Nat
  PROVE  /\ l * i \in Nat
         /\ i <= j => l * i <= l * j
         /\ i < j => l * i <= l * j - l
  <1>1. l * i \in Nat /\ l * j \in Nat
    OBVIOUS
  <1>2. i <= j => l * i <= l * j
    OBVIOUS
  <1>3. i + 1 <= j => l * (i + 1) <= l * j
    OBVIOUS
  <1>4. l * (i + 1) = l * i + l
    OBVIOUS
  <1>5. QED
    BY <1>1, <1>2, <1>3, <1>4

\* The strikes that the windows that are alive can still take.
Allowance == StrikeLimit * Cardinality(Alive)

\* What the tiler may have laid out in the end: the retiles there were, the one asked for, and
\* one for each strike that is left.
Debt == rounds + (IF retile THEN 1 ELSE 0) + Allowance

Limit == StrikeLimit * (Cardinality(Windows) + 1) + 1

LEMMA AllowanceIs ==
  /\ Allowance \in Nat /\ IsFiniteSet(Alive)
  /\ Allowance + StrikeLimit + 1 <= Limit /\ Limit \in Nat
  <1>1. IsFiniteSet(Windows) /\ StrikeLimit \in Nat
    BY TilingAssumption
  <1>2. Alive \in SUBSET Windows
    BY DEF Alive
  <1> DEFINE a == Cardinality(Alive)
             n == Cardinality(Windows)
  <1>3. IsFiniteSet(Alive) /\ a \in Nat /\ n \in Nat /\ a <= n
    BY <1>1, <1>2, FS_Subset, FS_CardinalityType
  <1>4. /\ Allowance = StrikeLimit * a /\ Limit = StrikeLimit * (n + 1) + 1
    BY DEF Allowance, Limit
  <1> HIDE DEF a, n
  <1>5. n + 1 \in Nat /\ a < n + 1
    BY <1>3
  <1>6. StrikeLimit * a <= StrikeLimit * (n + 1) - StrikeLimit
    BY <1>1, <1>3, <1>5, Times
  <1>7. StrikeLimit * a \in Nat /\ StrikeLimit * (n + 1) \in Nat
    BY <1>1, <1>3, <1>5, Times
  <1>8. QED
    BY <1>1, <1>3, <1>4, <1>6, <1>7

LEMMA AllowanceDrops ==
  ASSUME Alive' \subseteq Alive
  PROVE  /\ Allowance' \in Nat /\ Allowance' <= Allowance
         /\ \A w \in Alive : w \notin Alive' => Allowance' <= Allowance - StrikeLimit
  <1> DEFINE S == Alive
             T == Alive'
             i == Cardinality(T)
             j == Cardinality(S)
  <1>1. IsFiniteSet(S) /\ T \in SUBSET S
    BY AllowanceIs
  <1>2. Allowance = StrikeLimit * j /\ Allowance' = StrikeLimit * i /\ StrikeLimit \in Nat
    BY TilingAssumption DEF Allowance
  <1> HIDE DEF S, T
  <1>3. i \in Nat /\ j \in Nat /\ i <= j /\ (i = j => S = T)
    BY <1>1, FS_Subset, FS_CardinalityType
  <1> HIDE DEF i, j
  <1>4. Allowance' \in Nat /\ Allowance' <= Allowance
    BY <1>2, <1>3, Times
  <1>5. ASSUME NEW w \in S, w \notin T PROVE Allowance' <= Allowance - StrikeLimit
    <2>1. i # j
      BY <1>3, <1>5
    <2>2. i < j
      BY <1>3, <2>1
    <2>3. QED
      BY <1>2, <1>3, <2>2, Times
  <1>6. QED
    BY <1>4, <1>5 DEF S, T

\* Some window has M strikes of the one kind, where strikes are counted, and
\* some other K of the other.
Resisted(M) ==
  M > 0 => \E s \in Spaces, w \in Windows : Measured(s) /\ Fails(s, w) /\ Count(s, w) >= M

Unrestored(K) ==
  K > 0 => \E s \in Spaces, w \in Windows :
             Settling(s) /\ Arranged(s) /\ Stuck(s, w) /\ ts[s].flat[w] >= K

\* What is left to do for spaces nobody has laid out yet: 2 when one that is
\* clean may be found out of place, 1 when one may be due, 0 when none is.
Pending(e) ==
  /\ e # 1 => \A s \in Spaces : Raw(s) => ~ts[s].dirty
  /\ e # 2 => \A s \in Spaces : Raw(s) /\ ~ts[s].dirty => \A w \in Windows : ~Fails(s, w)

Strikes == 0..(StrikeLimit - 1)

\* The retiles there have been are paid for by windows that have struck out, by
\* the strikes of two windows that are alive and by the spaces laid out first.
Paid(M, K, e) ==
  /\ Resisted(M) /\ Unrestored(K) /\ Pending(e)
  /\ Debt + e <= Limit + M + K

\* When a verification is due, what is dirty is so for what is stuck there.
Ready == verify => \A s \in Spaces : Settling(s) /\ ts[s].dirty => Arranged(s) /\ Whole(s)

Period ==
  rounds >= 1 =>
    IF enabled THEN Ready /\ \E M, K \in Strikes, e \in 0..2 : Paid(M, K, e)
    ELSE rounds + (IF retile THEN 1 ELSE 0) <= 1

\* After a layout.
LEMMA AfterLaying ==
  ASSUME Sound, Laying, StepOfTimer
  PROVE  /\ \A s \in Spaces : Raw(s)' =>
              /\ Raw(s) /\ s \notin Due /\ ~ts[s].dirty /\ ~ts'[s].dirty
              /\ \A w \in Windows : Fails(s, w)' <=> Fails(s, w)
         /\ \A s \in Spaces : Settling(s)' /\ ts'[s].dirty => Arranged(s)' /\ Whole(s)'
  <1>1. ASSUME NEW s \in Spaces, s \in Due
        PROVE  Arranged(s)' /\ Whole(s)'
    BY <1>1, DueArranged
  <1>2. ASSUME NEW s \in Spaces, s \notin Due
        PROVE  /\ ts'[s] = ts[s] /\ (Settling(s)' <=> Settling(s)) /\ (Arranged(s)' <=> Arranged(s))
               /\ \A w \in Windows : Fails(s, w)' <=> Fails(s, w)
    <2>1. /\ ts'[s] = ts[s]
          /\ \A v \in Windows : home[v] = s =>
               /\ v \in floating' <=> v \in floating
               /\ v \in auto' <=> v \in auto
               /\ v \in zoomed' <=> v \in zoomed
               /\ frame'[v] = frame[v]
      BY <1>2, UndueSame
    <2>2. /\ (Visible(s)' <=> Visible(s)) /\ (Held(s)' <=> Held(s)) /\ (Arranged(s)' <=> Arranged(s))
          /\ \A w \in Windows : Fails(s, w)' <=> Fails(s, w)
      BY <2>1, SpaceSame
    <2>3. QED
      BY <2>1, <2>2 DEF Settling
  <1>3. \A s \in Spaces : s \notin Due /\ Settling(s) => ~ts[s].dirty
    BY DEF Due, Settling
  <1>4. ASSUME NEW s \in Spaces, Raw(s)'
        PROVE  /\ Raw(s) /\ s \notin Due /\ ~ts[s].dirty /\ ~ts'[s].dirty
               /\ \A w \in Windows : Fails(s, w)' <=> Fails(s, w)
    <2>1. Settling(s)' /\ ~Arranged(s)'
      BY <1>4 DEF Raw
    <2>2. s \notin Due
      BY <1>1, <2>1
    <2>3. QED
      BY <1>2, <1>3, <2>1, <2>2 DEF Raw
  <1>5. ASSUME NEW s \in Spaces, Settling(s)', ts'[s].dirty PROVE Arranged(s)' /\ Whole(s)'
    BY <1>1, <1>2, <1>3, <1>5
  <1>6. QED
    BY <1>4, <1>5

\* The resistance that is counted outlasts a layout.
LEMMA LayingResisted ==
  ASSUME Sound, Laying, StepOfTimer, NEW M, Resisted(M)
  PROVE  Resisted(M)'
  <1>1. ASSUME NEW s \in Spaces, NEW w \in Windows, Measured(s), Fails(s, w)
        PROVE  Measured(s)' /\ Fails(s, w)' /\ Count(s, w)' = Count(s, w)
    <2>1. CASE s \in Due
      <3>1. Visible(s) /\ ~Held(s) /\ Arranged(s) /\ Whole(s)
        BY <1>1, <2>1, DueIs DEF Measured
      <3>2. Arranged(s)' /\ Whole(s)' /\ Visible(s)'
        BY <2>1, <3>1, DueArranged DEF Visible, StepOfTimer
      <3>3. Fails(s, w)' /\ Count(s, w)' = Count(s, w)
        BY <1>1, <2>1, <3>1, FailureStays
      <3>4. QED
        BY <3>2, <3>3 DEF Measured
    <2>2. CASE s \notin Due
      <3>1. /\ ts'[s] = ts[s]
            /\ \A v \in Windows : home[v] = s =>
                 /\ v \in floating' <=> v \in floating
                 /\ v \in auto' <=> v \in auto
                 /\ v \in zoomed' <=> v \in zoomed
                 /\ frame'[v] = frame[v]
        BY <2>2, UndueSame
      <3>2. /\ (Visible(s)' <=> Visible(s)) /\ (Held(s)' <=> Held(s))
            /\ (Arranged(s)' <=> Arranged(s)) /\ (Whole(s)' <=> Whole(s))
            /\ (Fails(s, w)' <=> Fails(s, w)) /\ (Fails(s, w) => Count(s, w)' = Count(s, w))
        BY <3>1, SpaceSame
      <3>3. QED
        BY <1>1, <3>2 DEF Measured
    <2>3. QED
      BY <2>1, <2>2
  <1>2. QED
    BY <1>1 DEF Resisted


\* Strikes stay below the limit.
LEMMA StrikesType ==
  ASSUME Sound, NEW s \in Spaces, NEW w \in Windows
  PROVE  ts[s].flat[w] \in Strikes /\ ts[s].strikes[w] \in Strikes /\ Count(s, w) \in Strikes
  <1>1. Tidy(ts[s])
    BY DEF Sound, AllTidy
  <1>2. ts[s].flat \in [Windows -> Strikes] /\ ts[s].strikes \in [Windows -> Strikes]
    BY <1>1, TileFields DEF Tidy, Strikes
  <1>3. QED
    BY <1>2 DEF Count

LEMMA StrikesTypeNext ==
  ASSUME Sound', NEW s \in Spaces, NEW w \in Windows
  PROVE  ts'[s].flat[w] \in Strikes /\ ts'[s].strikes[w] \in Strikes
  <1>1. Tidy(ts'[s])
    BY DEF Sound, AllTidy
  <1>2. ts'[s].flat \in [Windows -> Strikes] /\ ts'[s].strikes \in [Windows -> Strikes]
    BY <1>1, TileFields DEF Tidy, Strikes
  <1>3. QED
    BY <1>2

\* A layout counts one more strike of those that are stuck, or one of them
\* strikes out, unless it leaves nothing dirty.
LEMMA LayingUnrestored ==
  ASSUME Sound, Sound', Laying, StepOfTimer, NEW K \in Strikes, Unrestored(K), StrikeLimit >= 2
  PROVE  \/ /\ K = 0
            /\ \A s \in Due : ~Layout(s).tile.dirty
         \/ K + 1 \in Strikes /\ Unrestored(K + 1)'
         \/ Allowance' <= Allowance - StrikeLimit
  <1>1. StrikeLimit \in Nat /\ K \in Nat
    BY TilingAssumption DEF Strikes
  <1>2. ASSUME NEW s \in Due PROVE s \in Spaces /\ Settling(s)' /\ Arranged(s)'
    <2>1. s \in Spaces /\ Visible(s) /\ ~Held(s)
      BY DueIs
    <2>2. Settling(s)'
      BY <2>1 DEF Settling, Visible, Held, StepOfTimer
    <2>3. QED
      BY <2>1, <2>2, DueArranged
  <1>3. CASE K = 0 /\ \E s \in Due : Layout(s).tile.dirty
    <2>1. PICK s \in Due : Layout(s).tile.dirty
      BY <1>3
    <2>2. PICK w \in Windows : Stuck(s, w)' /\ ts'[s].flat[w] >= 1
      BY <2>1, DirtyStuck
    <2>3. Unrestored(1)'
      BY <1>2, <2>2 DEF Unrestored
    <2>4. 1 \in Strikes
      BY <1>1 DEF Strikes
    <2>5. K + 1 = 1
      BY <1>3
    <2>6. QED
      BY <2>3, <2>4, <2>5
  <1>4. CASE K # 0
    <2>1. PICK s \in Spaces, w \in Windows :
                 Settling(s) /\ Arranged(s) /\ Stuck(s, w) /\ ts[s].flat[w] >= K
      BY <1>1, <1>4 DEF Unrestored
    <2>2. s \in Due
      <3>1. ts[s].dirty
        BY <2>1 DEF Arranged
      <3>2. QED
        BY <2>1, <3>1 DEF Due, Settling
    <2>3. CASE w \in Layout(s).struck
      <3>1. Alive' \subseteq Alive /\ w \in Alive /\ w \notin Alive'
        BY <2>1, <2>2, <2>3, LayingAlive
      <3>2. QED
        BY <3>1, AllowanceDrops
    <2>4. CASE w \notin Layout(s).struck
      <3>1. Stuck(s, w)' /\ ts'[s].flat[w] = ts[s].flat[w] + 1
        BY <2>1, <2>2, <2>4, StuckStays
      <3>2. ts[s].flat[w] \in Strikes /\ ts'[s].flat[w] \in Strikes
        BY StrikesType, StrikesTypeNext
      <3>3. K + 1 \in Strikes /\ ts'[s].flat[w] >= K + 1
        BY <1>1, <2>1, <3>1, <3>2 DEF Strikes
      <3>4. Unrestored(K + 1)'
        BY <1>2, <2>2, <3>1, <3>3 DEF Unrestored
      <3>5. QED
        BY <3>3, <3>4
    <2>5. QED
      BY <2>3, <2>4
  <1>5. QED
    BY <1>3, <1>4

\* What is asked for after a layout: only a space that had not been laid out yet
\* lets windows in again.
LEMMA LayingAsks ==
  ASSUME Laying, Sound, NEW e, Pending(e), retile'
  PROVE  (\E s \in Due : Layout(s).tile.dirty) \/ e = 1
  <1>1. ASSUME NEW s \in Due, Readmits(s) # {} PROVE e = 1
    <2>1. s \in Spaces /\ Settling(s) /\ ts[s].dirty
      BY DueIs DEF Settling
    <2>2. ~Arranged(s)
      BY <1>1, <2>1, ArrangedReadmits
    <2>3. QED
      BY <2>1, <2>2 DEF Raw, Pending
  <1>2. (\E s \in Due : Readmits(s) # {}) \/ \E s \in Due : Layout(s).tile.dirty
    BY DEF Laying
  <1>3. QED
    BY <1>1, <1>2

\* The account, in numbers.
LEMMA Account ==
  ASSUME NEW r \in Nat, NEW l \in Nat, NEW m \in Nat, NEW max \in Nat,
         NEW u \in Nat, NEW o \in 0..1, NEW d \in 0..2, NEW e \in 0..2, NEW n \in Nat,
         r + 1 + l + e <= max + n, m <= l, d <= e
  PROVE  /\ o + d <= e => r + 1 + o + m + d <= max + n
         /\ r + 1 + o + m + d <= max + n + 1
         /\ m <= l - u => r + 1 + o + m + d <= max + n - u + 1
  OBVIOUS

LEMMA LayingPaid ==
  ASSUME Sound, Sound', Laying, StepOfTimer, retile, rounds \in Nat, rounds' = rounds + 1,
         StrikeLimit >= 2, NEW M \in Strikes, NEW K \in Strikes, NEW e \in 0..2, Paid(M, K, e)
  PROVE  \E N, J \in Strikes, d \in 0..2 : Paid(N, J, d)'
  <1>0. PICK d \in 0..2 : d = IF e = 1 THEN 0 ELSE e
    OBVIOUS
  <1> DEFINE owed == IF retile' THEN 1 ELSE 0
             l    == Allowance
             m    == Allowance'
             max  == Limit
  <1>1. Resisted(M) /\ Unrestored(K) /\ Pending(e)
    BY DEF Paid
  <1>2. /\ StrikeLimit \in Nat /\ M \in Nat /\ K \in Nat /\ K < StrikeLimit
        /\ 0 \in Strikes /\ M + K \in Nat
    BY TilingAssumption DEF Strikes
  <1>3. l \in Nat /\ m \in Nat /\ m <= l /\ max \in Nat
    <2>1. Alive' \subseteq Alive
      BY LayingAlive
    <2>2. QED
      BY <2>1, AllowanceIs, AllowanceDrops
  <1>4. rounds + 1 + l + e <= max + (M + K)
    <2>1. Debt + e <= max + M + K /\ Debt = rounds + 1 + l
      BY DEF Paid, Debt
    <2> HIDE DEF l, max
    <2>2. QED
      BY <1>2, <1>3, <2>1
  <1>5. Debt' = rounds + 1 + owed + m /\ Limit' = max /\ owed \in 0..1
    BY DEF Debt, Limit
  <1>6. Resisted(M)'
    BY <1>1, LayingResisted
  <1>7. Pending(d)'
    <2>1. \A s \in Spaces : Raw(s)' =>
            /\ Raw(s) /\ ~ts[s].dirty /\ ~ts'[s].dirty
            /\ \A w \in Windows : Fails(s, w)' <=> Fails(s, w)
      BY AfterLaying
    <2>2. e # 2 => \A s \in Spaces : Raw(s)' => \A w \in Windows : ~Fails(s, w)'
      BY <1>1, <2>1 DEF Pending
    <2>3. QED
      BY <1>0, <2>1, <2>2 DEF Pending
  <1>8. /\ owed + d <= e => rounds + 1 + owed + m + d <= max + (M + K)
        /\ rounds + 1 + owed + m + d <= max + (M + K) + 1
        /\ m <= l - StrikeLimit => rounds + 1 + owed + m + d <= max + (M + K) - StrikeLimit + 1
    <2>1. d <= e
      BY <1>0
    <2>2. owed \in 0..1
      BY <1>5
    <2> HIDE DEF l, m, max, owed
    <2>3. QED
      BY <1>2, <1>3, <1>4, <2>1, <2>2, Account
  <1>9. CASE K = 0 /\ \A s \in Due : ~Layout(s).tile.dirty
    <2>1. retile' => e = 1
      BY <1>1, <1>9, LayingAsks
    <2>2. owed + d <= e
      BY <1>0, <2>1
    <2>3. Unrestored(K)'
      BY <1>9 DEF Unrestored
    <2>4. Debt' + d <= Limit' + M + K
      <3> HIDE DEF l, m, max, owed
      <3>1. QED
        BY <1>2, <1>3, <1>5, <1>8, <2>2
    <2>5. Paid(M, K, d)'
      BY <1>6, <1>7, <2>3, <2>4 DEF Paid
    <2>6. QED
      BY <2>5
  <1>10. CASE K + 1 \in Strikes /\ Unrestored(K + 1)'
    <2>1. Debt' + d <= Limit' + M + (K + 1)
      <3> HIDE DEF l, m, max, owed
      <3>1. QED
        BY <1>2, <1>3, <1>5, <1>8
    <2>2. Paid(M, K + 1, d)'
      BY <1>6, <1>7, <1>10, <2>1 DEF Paid
    <2>3. QED
      BY <1>10, <2>2
  <1>11. CASE Allowance' <= Allowance - StrikeLimit
    <2>0. m <= l - StrikeLimit
      BY <1>11
    <2>1. Debt' + d <= Limit' + M + 0
      <3> HIDE DEF l, m, max, owed
      <3>1. QED
        BY <1>2, <1>3, <1>5, <1>8, <2>0
    <2>2. Unrestored(0)'
      BY DEF Unrestored
    <2>3. Paid(M, 0, d)'
      BY <1>6, <1>7, <2>1, <2>2 DEF Paid
    <2>4. QED
      BY <1>2, <2>3
  <1>12. QED
    BY <1>1, <1>9, <1>10, <1>11, LayingUnrestored

\* The first layout after something was done to the spaces.
LEMMA FirstLaying ==
  ASSUME Sound, Sound', Laying, StepOfTimer, rounds = 0, rounds' = 1, StrikeLimit >= 3
  PROVE  \E M, K \in Strikes, e \in 0..2 : Paid(M, K, e)'
  <1> DEFINE owed == IF retile' THEN 1 ELSE 0
             l    == Allowance
             m    == Allowance'
             max  == Limit
  <1>1. StrikeLimit \in Nat /\ 0 \in Strikes
    BY TilingAssumption DEF Strikes
  <1>2. l \in Nat /\ m \in Nat /\ m <= l /\ l + StrikeLimit + 1 <= max /\ max \in Nat
    <2>1. Alive' \subseteq Alive
      BY LayingAlive
    <2>2. QED
      BY <2>1, AllowanceIs, AllowanceDrops
  <1>3. Pending(2)'
    BY AfterLaying DEF Pending
  <1>4. Debt' = 1 + owed + m /\ Limit' = max /\ owed \in 0..1
    BY DEF Debt, Limit
  <1>5. Debt' + 2 <= Limit' + 0 + 0
    <2> HIDE DEF l, m, max, owed
    <2>1. QED
      BY <1>1, <1>2, <1>4
  <1>6. Resisted(0)' /\ Unrestored(0)'
    BY DEF Resisted, Unrestored
  <1>7. Paid(0, 0, 2)'
    BY <1>3, <1>5, <1>6 DEF Paid
  <1>8. QED
    BY <1>1, <1>7

LEMMA RetilePeriod ==
  ASSUME Sound, Sound', Counted, Period, Retile, rounds' = rounds + 1, StrikeLimit >= 3
  PROVE  Period'
  <1>1. /\ retile /\ StepOfTimer
        /\ enabled => Laying
        /\ ~enabled => retile' = FALSE
    BY RetileIs DEF Resting, StepOfTimer
  <1>2. rounds \in Nat /\ enabled \in BOOLEAN /\ enabled' = enabled
    BY <1>1 DEF Counted, Sound, Others, StepOfTimer
  <1>3. CASE ~enabled
    BY <1>1, <1>2, <1>3 DEF Period
  <1>4. CASE enabled
    <2>1. Ready'
      <3>1. \A s \in Spaces : Settling(s)' /\ ts'[s].dirty => Arranged(s)' /\ Whole(s)'
        BY <1>1, <1>4, AfterLaying
      <3>2. QED
        BY <3>1 DEF Ready
    <2>2. CASE rounds = 0
      <3>1. \E M, K \in Strikes, e \in 0..2 : Paid(M, K, e)'
        BY <1>1, <1>4, <2>2, FirstLaying
      <3>2. QED
        BY <1>2, <1>4, <2>1, <3>1 DEF Period
    <2>3. CASE rounds # 0
      <3>1. PICK M \in Strikes, K \in Strikes, e \in 0..2 : Paid(M, K, e)
        BY <1>2, <1>4, <2>3 DEF Period
      <3>2. StrikeLimit >= 2
        BY TilingAssumption
      <3>3. \E N, J \in Strikes, d \in 0..2 : Paid(N, J, d)'
        BY <1>1, <1>2, <1>4, <3>1, <3>2, LayingPaid
      <3>4. QED
        BY <1>2, <1>4, <2>1, <3>3 DEF Period
    <2>4. QED
      BY <2>2, <2>3
  <1>5. QED
    BY <1>2, <1>3, <1>4


\* A verification strikes one of the windows that resist where strikes are
\* counted once more, or one of them strikes out, or there is none.
LEMMA SweptResisted ==
  ASSUME Sound, Sound', Swept, StepOfSweep, NEW M \in Strikes, Resisted(M)
  PROVE  \/ Allowance' <= Allowance - StrikeLimit
         \/ M + 1 \in Strikes /\ Resisted(M + 1)'
         \/ /\ M = 0
            /\ \A s \in Spaces, w \in Windows : Measured(s) => ~Fails(s, w)
  <1>1. StrikeLimit \in Nat /\ M \in Nat
    BY TilingAssumption DEF Strikes
  <1>2. \A s \in Spaces : (Visible(s)' <=> Visible(s)) /\ (Held(s)' <=> Held(s))
    BY DEF StepOfSweep, StepOfTimer, Visible, Held
  <1>3. CASE \E s \in Spaces, w \in Windows : Measured(s) /\ Fails(s, w) /\ w \in Sweep(s).out
    <2>1. \E w \in Alive : w \notin Alive'
      BY <1>3, SweptAlive
    <2>2. Alive' \subseteq Alive
      BY SweptAlive
    <2>3. QED
      BY <2>1, <2>2, AllowanceDrops
  <1>4. CASE /\ \E s \in Spaces, w \in Windows : Measured(s) /\ Fails(s, w)
             /\ \A s \in Spaces, w \in Windows : Measured(s) /\ Fails(s, w) => w \notin Sweep(s).out
    <2>1. PICK s \in Spaces, w \in Windows : Measured(s) /\ Fails(s, w) /\ Count(s, w) >= M
      <3>1. CASE M > 0
        BY <3>1 DEF Resisted
      <3>2. CASE M = 0
        <4>1. PICK s \in Spaces, w \in Windows : Measured(s) /\ Fails(s, w)
          BY <1>4
        <4>2. Count(s, w) \in 0..(StrikeLimit - 1)
          BY StrikesType DEF Strikes
        <4>3. Count(s, w) >= M
          BY <1>1, <3>2, <4>2
        <4>4. QED
          BY <4>1, <4>3
      <3>3. QED
        BY <1>1, <3>1, <3>2
    <2>2. Fails(s, w)' /\ Count(s, w)' = Count(s, w) + 1
      BY <1>4, <2>1, SweptFails
    <2>3. Sweep(s).out = {}
      <3>1. Sweep(s).out \subseteq {v \in Windows : Fails(s, v)}
        BY SweptBecomes DEF StepOfSweep
      <3>2. QED
        BY <1>4, <2>1, <3>1
    <2>4. Measured(s)'
      BY <1>2, <2>1, <2>3, SweptArranged DEF Measured
    <2>5. Count(s, w) \in Strikes /\ Count(s, w)' \in Strikes
      BY StrikesType, StrikesTypeNext DEF Count
    <2> DEFINE i == Count(s, w)
               j == Count(s, w)'
    <2>6. i \in 0..(StrikeLimit - 1) /\ j \in 0..(StrikeLimit - 1) /\ j = i + 1 /\ i >= M
      BY <2>1, <2>2, <2>5 DEF Strikes
    <2> HIDE DEF i, j
    <2>7. M + 1 \in 0..(StrikeLimit - 1) /\ j >= M + 1
      BY <1>1, <2>6
    <2>8. Count(s, w)' >= M + 1
      BY <2>7 DEF j
    <2>9. Resisted(M + 1)'
      BY <2>2, <2>4, <2>8 DEF Resisted
    <2>10. QED
      BY <2>7, <2>9 DEF Strikes
  <1>5. CASE \A s \in Spaces, w \in Windows : Measured(s) => ~Fails(s, w)
    <2>1. ~(M > 0)
      BY <1>5 DEF Resisted
    <2>2. M = 0
      BY <1>1, <2>1
    <2>3. QED
      BY <1>5, <2>2
  <1>6. QED
    BY <1>3, <1>4, <1>5

\* What a verification leaves of the spaces that are not laid out yet, and what
\* it asks for.
LEMMA SweptPending ==
  ASSUME Sound, Swept, StepOfSweep, verify, Ready, NEW e \in 0..2, Pending(e)
  PROVE  LET found == \E s \in Spaces, w \in Windows : Raw(s) /\ Fails(s, w)
         IN  /\ found => e = 2 /\ Pending(1)'
             /\ ~found => /\ Pending(e)'
                          /\ \/ retile' <=> retile
                             \/ \E s \in Spaces, w \in Windows : Measured(s) /\ Fails(s, w)
  <1>1. StepOfTimer /\ \A s \in Spaces : Settling(s)' <=> Settling(s)
    BY DEF StepOfSweep, StepOfTimer, Settling, Visible, Held
  <1>2. ASSUME NEW s \in Spaces, Raw(s)' PROVE Raw(s)
    BY <1>1, <1>2, SweptArranged DEF Raw
  <1>3. \A s \in Spaces : Raw(s) => ~ts[s].dirty
    BY DEF Ready, Raw
  <1>4. ASSUME NEW s \in Spaces
        PROVE  ts'[s].dirty <=> ts[s].dirty \/ \E w \in Windows : Fails(s, w)
    BY <1>1, SweptBecomes
  <1>5. \A s \in Spaces, w \in Windows : Fails(s, w)' => Fails(s, w)
    BY SweptFails
  <1>6. CASE \E s \in Spaces, w \in Windows : Raw(s) /\ Fails(s, w)
    <2>1. e = 2
      BY <1>3, <1>6 DEF Pending
    <2>2. Pending(1)'
      BY <1>4, <1>5 DEF Pending
    <2>3. QED
      BY <1>6, <2>1, <2>2
  <1>7. CASE \A s \in Spaces, w \in Windows : Raw(s) => ~Fails(s, w)
    <2>1. Pending(e)'
      BY <1>2, <1>3, <1>4, <1>5, <1>7 DEF Pending
    <2>2. ASSUME NEW s \in Spaces, NEW w \in Windows, Fails(s, w) PROVE Measured(s)
      <3>1. Visible(s)
        BY <2>2 DEF Fails, Checked
      <3>2. CASE Held(s)
        BY <3>1, <3>2 DEF Measured
      <3>3. CASE ~Held(s)
        <4>1. Arranged(s) /\ Settling(s)
          BY <1>7, <2>2, <3>1, <3>3 DEF Raw, Settling
        <4>2. ~Whole(s) => ts[s].dirty
          BY <4>1 DEF Arranged
        <4>3. Whole(s)
          BY <4>1, <4>2 DEF Ready
        <4>4. QED
          BY <3>1, <4>1, <4>3 DEF Measured
      <3>4. QED
        BY <3>2, <3>3
    <2>3. (retile' <=> retile) \/ \E s \in Spaces, w \in Windows : Fails(s, w)
      <3>1. \A s \in Spaces : Sweep(s).again <=> \E w \in Windows : Fails(s, w)
        BY SweepCounts DEF Sound, AllTidy
      <3>2. QED
        BY <3>1 DEF Swept
    <2>4. QED
      BY <1>7, <2>1, <2>2, <2>3
  <1>8. QED
    BY <1>6, <1>7

\* A verification is paid for.
LEMMA SweptPaid ==
  ASSUME Sound, Sound', Swept, StepOfSweep, verify, Ready, rounds \in Nat, rounds' = rounds,
         NEW M \in Strikes, NEW K \in Strikes, NEW e \in 0..2, Paid(M, K, e)
  PROVE  \E N, J \in Strikes, d \in 0..2 : Paid(N, J, d)'
  <1> DEFINE found == \E s \in Spaces, w \in Windows : Raw(s) /\ Fails(s, w)
             fails == \E s \in Spaces, w \in Windows : Measured(s) /\ Fails(s, w)
  <1>1. /\ Resisted(M) /\ Unrestored(K) /\ Pending(e)
        /\ found => e = 2 /\ Pending(1)'
        /\ ~found => Pending(e)' /\ ((retile' <=> retile) \/ fails)
    BY SweptPending DEF Paid
  <1> PICK d \in 0..2 : d = IF found THEN 1 ELSE e
    OBVIOUS
  <1>2. Pending(d)'
    BY <1>1
  <1>3. Unrestored(K)'
    <2>1. \A s \in Spaces : Settling(s)' <=> Settling(s)
      BY DEF StepOfSweep, StepOfTimer, Settling, Visible, Held
    <2>2. ASSUME NEW s \in Spaces, NEW w \in Windows, Settling(s), Arranged(s), Stuck(s, w)
          PROVE  Settling(s)' /\ Arranged(s)' /\ Stuck(s, w)' /\ ts'[s].flat[w] = ts[s].flat[w]
      BY <2>1, <2>2, SweptArranged
    <2>3. QED
      BY <1>1, <2>2 DEF Unrestored
  <1> DEFINE was  == IF retile THEN 1 ELSE 0
             owed == IF retile' THEN 1 ELSE 0
             l    == Allowance
             m    == Allowance'
             max  == Limit
  <1>4. l \in Nat /\ m \in Nat /\ m <= l /\ max \in Nat
    <2>1. Alive' \subseteq Alive
      BY SweptAlive
    <2>2. QED
      BY <2>1, AllowanceIs, AllowanceDrops
  <1>5. /\ was \in 0..1 /\ owed \in 0..1
        /\ Debt = rounds + was + l /\ Debt' = rounds + owed + m
        /\ Limit = max /\ Limit' = max
    BY DEF Debt, Limit
  <1>6. Debt + e <= Limit + M + K
    BY DEF Paid
  <1>7. /\ StrikeLimit \in Nat /\ M \in Nat /\ K \in Nat /\ M <= StrikeLimit - 1 /\ 0 \in Strikes
    BY TilingAssumption DEF Strikes
  <1>8. (d = e /\ ~found) \/ d = e - 1
    BY <1>1
  <1>9. owed = was \/ found \/ fails
    BY <1>1
  <1>10. Allowance' <= Allowance - StrikeLimit => m <= l - StrikeLimit
    OBVIOUS
  <1>11. CASE Allowance' <= Allowance - StrikeLimit
    <2>1. Debt' + d <= Limit' + 0 + K
      <3> HIDE DEF found, fails, was, owed, l, m, max
      <3>1. QED
        BY <1>4, <1>5, <1>6, <1>7, <1>8, <1>10, <1>11
    <2>2. Resisted(0)'
      BY DEF Resisted
    <2>3. Paid(0, K, d)'
      BY <1>2, <1>3, <2>1, <2>2 DEF Paid
    <2>4. QED
      BY <1>7, <2>3
  <1>12. CASE M + 1 \in Strikes /\ Resisted(M + 1)'
    <2>1. Debt' + d <= Limit' + (M + 1) + K
      <3> HIDE DEF found, fails, was, owed, l, m, max
      <3>1. QED
        BY <1>4, <1>5, <1>6, <1>7, <1>8
    <2>2. Paid(M + 1, K, d)'
      BY <1>2, <1>3, <1>12, <2>1 DEF Paid
    <2>3. QED
      BY <1>12, <2>2
  <1>13. CASE M = 0 /\ \A s \in Spaces, w \in Windows : Measured(s) => ~Fails(s, w)
    <2>1. ~fails
      BY <1>13
    <2>2. Debt' + d <= Limit' + M + K
      <3> HIDE DEF found, fails, was, owed, l, m, max
      <3>1. owed + d <= was + e
        BY <1>5, <1>8, <1>9, <2>1
      <3>2. QED
        BY <1>4, <1>5, <1>6, <1>7, <3>1
    <2>3. Resisted(M)'
      BY <1>13 DEF Resisted
    <2>4. Paid(M, K, d)'
      BY <1>2, <1>3, <2>2, <2>3 DEF Paid
    <2>5. QED
      BY <2>4
  <1>14. QED
    BY <1>1, <1>11, <1>12, <1>13, SweptResisted

LEMMA VerifyPeriod ==
  ASSUME Sound, Sound', Counted, Period, Verify, rounds' = rounds
  PROVE  Period'
  <1>1. /\ verify /\ StepOfSweep /\ verify' = FALSE
        /\ enabled => Swept
        /\ ~enabled => retile' = retile
    BY VerifyIs DEF Verify, StepOfSweep, StepOfTimer, world
  <1>2. rounds \in Nat /\ enabled \in BOOLEAN /\ enabled' = enabled
    BY <1>1 DEF Counted, Sound, Others, StepOfSweep, StepOfTimer
  <1>3. Ready'
    BY <1>1 DEF Ready
  <1>4. CASE rounds = 0
    BY <1>4 DEF Period
  <1>5. CASE rounds # 0 /\ ~enabled
    BY <1>1, <1>2, <1>5 DEF Period
  <1>6. CASE rounds # 0 /\ enabled
    <2>1. Ready
      BY <1>2, <1>6 DEF Period
    <2>2. PICK M \in Strikes, K \in Strikes, e \in 0..2 : Paid(M, K, e)
      BY <1>2, <1>6 DEF Period
    <2>3. \E N, J \in Strikes, d \in 0..2 : Paid(N, J, d)'
      BY <1>1, <1>2, <1>6, <2>1, <2>2, SweptPaid
    <2>4. QED
      BY <1>2, <1>3, <1>6, <2>3 DEF Period
  <1>7. QED
    BY <1>2, <1>4, <1>5, <1>6

\* The two windows that have the strikes are alive, and two.
LEMMA StrikesLeft ==
  ASSUME Sound, NEW M \in Strikes, NEW K \in Strikes, Resisted(M), Unrestored(K)
  PROVE  M + K <= Allowance
  <1>1. StrikeLimit \in Nat /\ M \in Nat /\ K \in Nat /\ M <= StrikeLimit /\ K <= StrikeLimit
    BY TilingAssumption DEF Strikes
  <1>2. Allowance = StrikeLimit * Cardinality(Alive) /\ IsFiniteSet(Alive)
    BY AllowanceIs DEF Allowance
  <1>3. Cardinality(Alive) \in Nat
    BY <1>2, FS_CardinalityType
  <1>4. ASSUME NEW s \in Spaces, NEW w \in Windows, Measured(s), Fails(s, w)
        PROVE  w \in Alive /\ home[w] = s /\ ts[s].expected[w] # None
    <2>1. ts[s].expected[w] # None /\ Visible(s) /\ s # None
      BY <1>4, NoneAssumption DEF Fails, Checked
    <2>2. home[w] = s
      BY <2>1 DEF Sound, Tracked
    <2>3. CASE Held(s)
      BY <2>1, <2>2, <2>3 DEF Alive
    <2>4. CASE ~Held(s)
      <3>1. Arranged(s) /\ Whole(s)
        BY <1>4, <2>4 DEF Measured
      <3>2. w \in Candidates(s, floating)
        BY <2>1, <3>1 DEF Arranged, Whole
      <3>3. QED
        BY <2>1, <2>2, <2>4, <3>2 DEF Alive, Candidates, Floating
    <2>5. QED
      BY <2>1, <2>2, <2>3, <2>4
  <1>5. ASSUME NEW s \in Spaces, NEW w \in Windows, Settling(s), Arranged(s), Stuck(s, w)
        PROVE  w \in Alive /\ home[w] = s /\ ts[s].expected[w] = None
    <2>1. w \in Candidates(s, floating) /\ w \notin ToSet(ts[s].order)
      BY <1>5 DEF Stuck
    <2>2. home[w] = s /\ s # None /\ Visible(s) /\ ~Held(s)
      BY <1>5, <2>1, NoneAssumption DEF Candidates, Settling
    <2>3. w \in Alive
      BY <2>1, <2>2 DEF Alive, Candidates, Floating
    <2>4. ts[s].expected[w] = None
      BY <1>5, <2>1 DEF Arranged
    <2>5. QED
      BY <2>2, <2>3, <2>4
  <1>6. ASSUME NEW S \in SUBSET Alive PROVE StrikeLimit * Cardinality(S) <= Allowance
    <2> DEFINE i == Cardinality(S)
               j == Cardinality(Alive)
    <2>1. i \in Nat /\ j \in Nat /\ i <= j
      BY <1>2, <1>6, FS_Subset, FS_CardinalityType
    <2> HIDE DEF i, j
    <2>2. StrikeLimit * i <= StrikeLimit * j
      BY <1>1, <2>1, Times
    <2>3. QED
      BY <1>2, <2>2 DEF i, j
  <1>7. M > 0 => \E w \in Alive : ts[home[w]].expected[w] # None
    BY <1>4 DEF Resisted
  <1>8. K > 0 => \E w \in Alive : ts[home[w]].expected[w] = None
    BY <1>5 DEF Unrestored
  <1>9. Allowance \in Nat
    BY AllowanceIs
  <1>10. ASSUME NEW w \in Alive PROVE StrikeLimit <= Allowance
    <2>1. Cardinality({w}) = 1
      BY FS_Singleton
    <2>2. StrikeLimit * Cardinality({w}) <= Allowance
      BY <1>6
    <2>3. StrikeLimit * Cardinality({w}) = StrikeLimit
      BY <1>1, <2>1
    <2>4. QED
      BY <2>2, <2>3
  <1>11. ASSUME NEW w \in Alive, NEW v \in Alive, v # w PROVE StrikeLimit + StrikeLimit <= Allowance
    <2>1. IsFiniteSet({w}) /\ Cardinality({w}) = 1
      BY FS_Singleton
    <2>2. Cardinality({w} \cup {v}) = 2
      BY <1>11, <2>1, FS_AddElement
    <2>3. StrikeLimit * Cardinality({w} \cup {v}) <= Allowance
      BY <1>6
    <2>4. StrikeLimit * 2 <= Allowance
      BY <2>2, <2>3
    <2>5. StrikeLimit * 2 = StrikeLimit + StrikeLimit
      BY <1>1
    <2>6. QED
      BY <2>4, <2>5
  <1>12. CASE M > 0 /\ K > 0
    <2>1. PICK w \in Alive : ts[home[w]].expected[w] # None
      BY <1>7, <1>12
    <2>2. PICK v \in Alive : ts[home[v]].expected[v] = None
      BY <1>8, <1>12
    <2>3. StrikeLimit + StrikeLimit <= Allowance
      BY <1>11, <2>1, <2>2
    <2>4. QED
      BY <1>1, <1>9, <2>3
  <1>13. CASE M > 0 \/ K > 0
    <2>1. CASE M > 0 /\ K > 0
      BY <1>12, <2>1
    <2>2. CASE M = 0 \/ K = 0
      <3>1. StrikeLimit <= Allowance
        BY <1>7, <1>8, <1>10, <1>13
      <3>2. QED
        BY <1>1, <1>9, <2>2, <3>1
    <2>3. QED
      BY <1>1, <2>1, <2>2
  <1>14. CASE M = 0 /\ K = 0
    BY <1>9, <1>14
  <1>15. QED
    BY <1>1, <1>13, <1>14

LEMMA PeriodConverges ==
  ASSUME Sound, Counted, Period
  PROVE  Converges
  <1>1. rounds \in Nat /\ Allowance \in Nat /\ Limit \in Nat /\ Allowance + StrikeLimit + 1 <= Limit
    BY AllowanceIs DEF Counted
  <1>2. StrikeLimit \in Nat
    BY TilingAssumption
  <1>3. Converges <=> rounds <= Limit
    BY DEF Converges, Limit
  <1>4. CASE rounds = 0 \/ ~enabled
    <2>1. rounds <= 1
      <3>1. CASE rounds = 0
        BY <3>1
      <3>2. CASE rounds # 0
        <4> PICK o \in {0, 1} : o = IF retile THEN 1 ELSE 0
          OBVIOUS
        <4>1. rounds + o <= 1
          BY <1>1, <1>4, <3>2 DEF Period
        <4>2. QED
          BY <1>1, <4>1
      <3>3. QED
        BY <3>1, <3>2
    <2>2. QED
      BY <1>1, <1>2, <1>3, <2>1
  <1>5. CASE rounds # 0 /\ enabled
    <2>1. PICK M \in Strikes, K \in Strikes, e \in 0..2 : Paid(M, K, e)
      BY <1>1, <1>5 DEF Period
    <2>2. M + K <= Allowance
      BY <2>1, StrikesLeft DEF Paid
    <2>3. M \in Nat /\ K \in Nat
      BY <1>2 DEF Strikes
    <2> PICK o \in {0, 1} : o = IF retile THEN 1 ELSE 0
      OBVIOUS
    <2>4. rounds + o + Allowance + e <= Limit + M + K
      BY <2>1 DEF Paid, Debt
    <2>5. rounds <= Limit
      BY <1>1, <2>2, <2>3, <2>4
    <2>6. QED
      BY <1>3, <2>5
  <1>6. QED
    BY <1>4, <1>5

LEMMA PeriodNext ==
  ASSUME Sound, Sound', Counted, Period, [Next]_vars, StrikeLimit >= 3
  PROVE  Period'
  <1>1. CASE (User \/ Prune) /\ rounds' = 0
    BY <1>1 DEF Period
  <1>2. CASE Verify /\ UNCHANGED rounds
    BY <1>2, VerifyPeriod
  <1>3. CASE Retile /\ rounds' = rounds + 1
    BY <1>3, RetilePeriod
  <1>4. CASE UNCHANGED vars
    <2>1. UNCHANGED <<kind, home, dead, iconic, zoomed, sticky, floating, auto, frame, current, ts,
                      drag, enabled, retile, verify, rounds>>
      BY <1>4 DEF vars, world
    <2>2. \A s \in Spaces : (Visible(s)' <=> Visible(s)) /\ (Held(s)' <=> Held(s))
      BY <2>1 DEF Visible, Held
    <2>3. StepOfTimer
      BY <2>1 DEF StepOfTimer
    <2>4. ASSUME NEW s \in Spaces
          PROVE  /\ (Settling(s)' <=> Settling(s)) /\ (Arranged(s)' <=> Arranged(s))
                 /\ (Whole(s)' <=> Whole(s))
                 /\ \A w \in Windows : /\ Stuck(s, w)' <=> Stuck(s, w)
                                       /\ Fails(s, w)' <=> Fails(s, w)
                                       /\ Fails(s, w) => Count(s, w)' = Count(s, w)
      BY <2>1, <2>2, <2>3, SpaceSame DEF Settling
    <2>5. Ready' <=> Ready
      BY <2>1, <2>4 DEF Ready
    <2>6. Alive' = Alive
      BY <2>1, <2>4 DEF Alive, Visible, Held, Sound, Others
    <2>7. Debt' = Debt /\ Limit' = Limit
      BY <2>1, <2>6 DEF Debt, Allowance, Limit
    <2>8. ASSUME NEW M \in Strikes, NEW K \in Strikes, NEW e \in 0..2, Paid(M, K, e)
          PROVE  Paid(M, K, e)'
      <3>1. Resisted(M)'
        BY <2>2, <2>4, <2>8 DEF Paid, Resisted, Measured
      <3>2. Unrestored(K)'
        BY <2>1, <2>4, <2>8 DEF Paid, Unrestored
      <3>3. Pending(e)'
        BY <2>1, <2>4, <2>8 DEF Paid, Pending, Raw
      <3>4. QED
        BY <2>7, <2>8, <3>1, <3>2, <3>3 DEF Paid
    <2>9. QED
      BY <2>1, <2>5, <2>8 DEF Period
  <1>5. QED
    BY <1>1, <1>2, <1>3, <1>4 DEF Next

\* After the last act of the user the windows are laid out a bounded number of
\* times, each time for a window that will strike out or a space that had not
\* been laid out yet: for every set of windows and displays and a limit of at
\* least 3 strikes, the program's being 4 (retile_space, verify_retile).
THEOREM ConvergesCorrect ==
  ASSUME StrikeLimit >= 3
  PROVE  Spec => []Converges
  <1>1. Init => Sound /\ Counted /\ Period
    <2>1. Init => Counted /\ Period
      BY DEF Init, Counted, Period
    <2>2. QED
      BY <2>1, SoundInit
  <1>2. Sound /\ Counted /\ Period /\ [Next]_vars => Sound' /\ Counted' /\ Period'
    BY SoundNext, RoundsNext, PeriodNext
  <1>3. Sound /\ Counted /\ Period => Converges
    BY PeriodConverges
  <1>4. QED
    BY <1>1, <1>2, <1>3, PTL DEF Spec
=============================================================================
