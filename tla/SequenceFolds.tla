----------------------------- MODULE SequenceFolds -----------------------------
(***************************************************************************)
(* What FoldLeft gives, one element at a time. The community module        *)
(* defines it through a function on sets of positions; the laws here say   *)
(* what a loop over a sequence does: nothing for the empty one, and one    *)
(* more step for one more element.                                         *)
(*                                                                         *)
(* op is the body of the loop, with a parameter for what the loop reads    *)
(* and does not change. A module that folds with an operator of its own    *)
(* instantiates this one with it.                                          *)
(***************************************************************************)
EXTENDS Integers, Sequences, SequencesExt, WellFoundedInduction, TLAPS

CONSTANT op(_, _, _)

Folded(p, base, s) == FoldLeft(LAMBDA a, x : op(p, a, x), base, s)

-----------------------------------------------------------------------------
(* Natural numbers *)

\* A set of natural numbers has a least member.
LEMMA Least ==
    ASSUME NEW T \in SUBSET Nat, T # {}
    PROVE  \E m \in T : \A k \in T : ~(k < m)
<1> DEFINE R == OpToRel(<, Nat)
<1>1. PICK m \in T : \A k \in T : <<k, m>> \notin R
  <2>1. IsWellFoundedOn(R, Nat)
    BY NatLessThanWellFounded
  <2> HIDE DEF R
  <2> QED
    BY <2>1, WFMin
<1>2. \A k, n \in Nat : k < n => <<k, n>> \in R
  BY DEF OpToRel
<1> QED
  BY <1>1, <1>2

\* Induction: a set that holds 0 and with every number its successor holds all.
LEMMA Induction ==
    ASSUME NEW T, 0 \in T, \A n \in Nat : n \in T => n + 1 \in T
    PROVE  Nat \subseteq T
<1> SUFFICES ASSUME Nat \ T # {} PROVE FALSE
  OBVIOUS
<1>1. PICK m \in Nat \ T : \A k \in Nat \ T : ~(k < m)
  BY Least
<1>2. m # 0 /\ m - 1 \in Nat
  BY <1>1
<1>3. m - 1 \in T
  BY <1>1, <1>2
<1> QED
  BY <1>1, <1>2, <1>3

\* The maximum of a set of numbers is its upper bound inside it ...
LEMMA MaxIs ==
    ASSUME NEW s \in SUBSET Int, NEW m \in s, \A i \in s : m >= i
    PROVE  Max(s) = m
<1> DEFINE Top(x) == \A y \in s : x >= y
<1>1. Max(s) = CHOOSE x \in s : Top(x)
  BY DEF Max
<1>2. Top(m)
  OBVIOUS
<1>3. Max(s) \in s /\ Top(Max(s))
  <2> HIDE DEF Top
  <2> QED
    BY <1>1, <1>2
<1>4. Max(s) \in Int /\ m \in Int /\ Max(s) >= m /\ m >= Max(s)
  BY <1>3
<1> QED
  BY <1>4

\* ... which a set of positions has.
LEMMA MaxIn ==
    ASSUME NEW n \in Nat, NEW s \in SUBSET (1 .. n), s # {}
    PROVE  Max(s) \in s
<1> DEFINE U == {j \in Nat : \E i \in s : i = n - j}
<1>1. PICK i \in s : TRUE
  OBVIOUS
<1>2. n - i \in U
  BY <1>1
<1>3. U # {} /\ U \in SUBSET Nat
  BY <1>2
<1>4. PICK j \in U : \A h \in U : ~(h < j)
  BY <1>3, Least
<1>5. \A h \in s : n - h \in U
  OBVIOUS
<1>6. n - j \in s /\ \A h \in s : n - j >= h
  BY <1>4, <1>5
<1>7. Max(s) = n - j
  BY <1>6, MaxIs
<1> QED
  BY <1>6, <1>7

\* Induction over sequences: a set that holds the empty one and with every sequence
\* those with one more element holds all.
LEMMA SequenceInduction ==
    ASSUME NEW S, NEW P, <<>> \in P, \A s \in Seq(S), x \in S : s \in P => Append(s, x) \in P
    PROVE  \A s \in Seq(S) : s \in P
<1> DEFINE T == {n \in Nat : \A s \in Seq(S) : Len(s) = n => s \in P}
<1>1. 0 \in T
  <2>1. \A s \in Seq(S) : Len(s) = 0 => s = <<>>
    OBVIOUS
  <2> QED
    BY <2>1
<1>2. ASSUME NEW n \in Nat, n \in T PROVE n + 1 \in T
  <2> SUFFICES ASSUME NEW s \in Seq(S), Len(s) = n + 1 PROVE s \in P
    OBVIOUS
  <2> DEFINE front == [i \in 1 .. n |-> s[i]]
  <2>1. front \in Seq(S) /\ Len(front) = n /\ s[n + 1] \in S /\ s = Append(front, s[n + 1])
    OBVIOUS
  <2> HIDE DEF front
  <2> QED
    BY <1>2, <2>1
<1>3. Nat \subseteq T
  <2> HIDE DEF T
  <2> QED
    BY <1>1, <1>2, Induction
<1> QED
  BY <1>3

-----------------------------------------------------------------------------
(* The function FoldLeft is defined through *)

\* g gives, for every set of positions, what folding over them in order gives.
IsFold(g, D, base, Step) ==
    \A s \in SUBSET D : g[s] = IF s = {} THEN base ELSE Step[<<Max(s), g[s \ {Max(s)}]>>]

LEMMA FoldExists ==
    ASSUME NEW n \in Nat, NEW V, NEW base \in V, NEW Step \in [(1 .. n) \X V -> V]
    PROVE  \E g \in [SUBSET (1 .. n) -> V] : IsFold(g, 1 .. n, base, Step)
<1> DEFINE Has(k) == \E g \in [SUBSET (1 .. k) -> V] : IsFold(g, 1 .. k, base, Step)
           T == {k \in Nat : k <= n => Has(k)}
<1>0. \A k \in Nat : k \in T <=> (k <= n => Has(k))
  <2> HIDE DEF Has
  <2> QED
    OBVIOUS
<1> HIDE DEF T
<1>1. 0 \in T
  <2> DEFINE g == [s \in SUBSET (1 .. 0) |-> base]
  <2>1. \A s \in SUBSET (1 .. 0) : s = {}
    BY 1 .. 0 = {}
  <2>2. g \in [SUBSET (1 .. 0) -> V] /\ IsFold(g, 1 .. 0, base, Step)
    BY <2>1 DEF IsFold
  <2> QED
    BY <1>0, <2>2
<1>2. ASSUME NEW k \in Nat, k \in T PROVE k + 1 \in T
  <2> SUFFICES ASSUME k + 1 <= n PROVE Has(k + 1)
    <3> HIDE DEF Has
    <3> QED
      BY <1>0
  <2>0. Has(k)
    <3> HIDE DEF Has
    <3> QED
      BY <1>0, <1>2
  <2>1. PICK g \in [SUBSET (1 .. k) -> V] : IsFold(g, 1 .. k, base, Step)
    BY <2>0
  <2> DEFINE new == [s \in SUBSET (1 .. k + 1) |->
                       IF k + 1 \in s THEN Step[<<k + 1, g[s \ {k + 1}]>>] ELSE g[s]]
  <2>2. \A s \in SUBSET (1 .. k + 1) :
           /\ s \ {k + 1} \in SUBSET (1 .. k)
           /\ k + 1 \notin s => s \in SUBSET (1 .. k)
    OBVIOUS
  <2>3. new \in [SUBSET (1 .. k + 1) -> V]
    BY <2>1, <2>2
  <2>4. ASSUME NEW s \in SUBSET (1 .. k + 1)
        PROVE  new[s] = IF s = {} THEN base ELSE Step[<<Max(s), new[s \ {Max(s)}]>>]
    <3>1. CASE k + 1 \in s
      <4>1. Max(s) = k + 1
        BY <3>1, MaxIs
      <4>2. new[s \ {k + 1}] = g[s \ {k + 1}]
        BY <2>2
      <4> QED
        BY <3>1, <4>1, <4>2
    <3>2. CASE s = {}
      BY <2>1, <3>2 DEF IsFold
    <3>3. CASE k + 1 \notin s /\ s # {}
      <4>1. Max(s) \in s
        BY <3>3, MaxIn, k + 1 \in Nat
      <4>2. /\ s \in SUBSET (1 .. k) /\ s \ {Max(s)} \in SUBSET (1 .. k)
            /\ k + 1 \notin s \ {Max(s)} /\ s \ {Max(s)} \in SUBSET (1 .. k + 1)
        BY <2>2, <3>3
      <4>3. new[s] = g[s] /\ new[s \ {Max(s)}] = g[s \ {Max(s)}]
        BY <3>3, <4>2
      <4> QED
        BY <2>1, <3>3, <4>2, <4>3 DEF IsFold
    <3> QED
      BY <3>1, <3>2, <3>3
  <2>5. IsFold(new, 1 .. k + 1, base, Step)
    BY <2>4 DEF IsFold
  <2> QED
    BY <2>3, <2>5
<1>3. n \in T
  BY <1>1, <1>2, Induction
<1>4. Has(n)
  <2> HIDE DEF Has
  <2> QED
    BY <1>0, <1>3
<1> QED
  BY <1>4

-----------------------------------------------------------------------------
(* The loop *)

Steps(p, V, X) == \A a \in V, x \in X : op(p, a, x) \in V

\* A fold goes through its intermediate results, one per element.
LEMMA FoldSteps ==
    ASSUME NEW p, NEW V, NEW X, Steps(p, V, X), NEW base \in V, NEW s \in Seq(X)
    PROVE  \E h \in [0 .. Len(s) -> V] :
              /\ h[0] = base
              /\ \A k \in 1 .. Len(s) : h[k] = op(p, h[k - 1], s[k])
              /\ Folded(p, base, s) = h[Len(s)]
<1> DEFINE n == Len(s)
           D == 1 .. n
           Step == [q \in D \X V |-> op(p, q[2], s[q[1]])]
           Good(g) == g = [t \in SUBSET D |-> IF t = {} THEN base
                             ELSE op(p, g[t \ {Max(t)}], s[Max(t)])]
           iter == CHOOSE g : Good(g)
<1>1. n \in Nat /\ DOMAIN s = D /\ \A k \in D : s[k] \in X
  OBVIOUS
<1>2. Step \in [D \X V -> V]
  BY <1>1 DEF Steps
<1>3. Folded(p, base, s) = iter[D]
  BY <1>1 DEF Folded, FoldLeft, MapThenFoldSet
<1>4. PICK g \in [SUBSET D -> V] : IsFold(g, D, base, Step)
  <2> HIDE DEF Step
  <2> QED
    BY <1>1, <1>2, FoldExists
<1>5. ASSUME NEW t \in SUBSET D, t # {}
      PROVE  g[t] = op(p, g[t \ {Max(t)}], s[Max(t)])
  <2>1. Max(t) \in D /\ t \ {Max(t)} \in SUBSET D
    BY <1>1, <1>5, MaxIn
  <2>2. g[t \ {Max(t)}] \in V
    BY <2>1
  <2>3. g[t] = Step[<<Max(t), g[t \ {Max(t)}]>>]
    BY <1>4, <1>5 DEF IsFold
  <2> QED
    BY <2>1, <2>2, <2>3
<1>6. g[{}] = base
  BY <1>4 DEF IsFold
<1>7. Good(g)
  <2> HIDE DEF D
  <2> QED
    BY <1>5, <1>6
<1>8. Good(iter)
  <2> HIDE DEF Good
  <2> QED
    BY <1>7
<1>9. iter[1 .. 0] = base
  BY <1>8, 1 .. 0 = {}
<1>10. ASSUME NEW k \in 1 .. n
       PROVE  iter[1 .. k] = op(p, iter[1 .. k - 1], s[k])
  <2>1. 1 .. k \in SUBSET D /\ 1 .. k # {} /\ k \in 1 .. k
    BY <1>1
  <2>2. Max(1 .. k) = k
    <3>1. 1 .. k \in SUBSET Int /\ k \in 1 .. k /\ \A i \in 1 .. k : k >= i
      BY <1>1
    <3> HIDE DEF n, D
    <3> QED
      BY <3>1, MaxIs
  <2>3. (1 .. k) \ {k} = 1 .. k - 1
    BY <1>1
  <2>4. iter[1 .. k] = op(p, iter[(1 .. k) \ {Max(1 .. k)}], s[Max(1 .. k)])
    <3> HIDE DEF iter
    <3> QED
      BY <1>8, <2>1
  <2> HIDE DEF iter
  <2> QED
    BY <2>2, <2>3, <2>4
<1> HIDE DEF iter
<1> DEFINE T == {k \in Nat : k <= n => iter[1 .. k] \in V}
<1>11. 0 \in T
  BY <1>9
<1>12. ASSUME NEW k \in Nat, k \in T PROVE k + 1 \in T
  <2> SUFFICES ASSUME k + 1 <= n PROVE iter[1 .. k + 1] \in V
    OBVIOUS
  <2>1. k + 1 \in 1 .. n /\ (k + 1) - 1 = k /\ iter[1 .. k] \in V
    BY <1>1, <1>12
  <2>2. iter[1 .. k + 1] = op(p, iter[1 .. k], s[k + 1])
    BY <1>10, <2>1
  <2> QED
    BY <1>1, <2>1, <2>2 DEF Steps
<1>13. \A k \in 0 .. n : iter[1 .. k] \in V
  <2>1. Nat \subseteq T
    <3> HIDE DEF T
    <3> QED
      BY <1>11, <1>12, Induction
  <2> QED
    BY <1>1, <2>1
<1> DEFINE h == [k \in 0 .. n |-> iter[1 .. k]]
<1>14. h \in [0 .. n -> V] /\ h[0] = base /\ h[n] = iter[D]
  BY <1>1, <1>9, <1>13
<1>15. \A k \in 1 .. n : h[k] = op(p, h[k - 1], s[k])
  <2>1. \A k \in 1 .. n : k \in 0 .. n /\ k - 1 \in 0 .. n
    BY <1>1
  <2> QED
    BY <1>10, <2>1
<1> HIDE DEF h
<1> QED
  BY <1>3, <1>14, <1>15

\* An empty sequence changes nothing.
LEMMA FoldEmpty ==
    ASSUME NEW p, NEW V, NEW X, Steps(p, V, X), NEW base \in V
    PROVE  Folded(p, base, <<>>) = base
<1> DEFINE s == <<>>
<1>1. s \in Seq(X)
  OBVIOUS
<1>0. Len(s) = 0
  OBVIOUS
<1> HIDE DEF s
<1>2. PICK h \in [0 .. Len(s) -> V] :
         /\ h[0] = base
         /\ \A k \in 1 .. Len(s) : h[k] = op(p, h[k - 1], s[k])
         /\ Folded(p, base, s) = h[Len(s)]
  BY <1>1, FoldSteps
<1>3. Folded(p, base, s) = base
  BY <1>0, <1>2
<1> QED
  BY <1>3 DEF s

\* One more element is one more step.
LEMMA FoldAppend ==
    ASSUME NEW p, NEW V, NEW X, Steps(p, V, X), NEW base \in V, NEW s \in Seq(X), NEW x \in X
    PROVE  /\ Folded(p, base, s) \in V
           /\ Folded(p, base, Append(s, x)) = op(p, Folded(p, base, s), x)
<1> DEFINE n == Len(s)
           t == Append(s, x)
<1>1. n \in Nat /\ t \in Seq(X) /\ Len(t) = n + 1 /\ t[n + 1] = x /\ \A k \in 1 .. n : t[k] = s[k]
  OBVIOUS
<1>2. PICK h \in [0 .. n -> V] :
         /\ h[0] = base
         /\ \A k \in 1 .. n : h[k] = op(p, h[k - 1], s[k])
         /\ Folded(p, base, s) = h[n]
  BY FoldSteps
<1> HIDE DEF t
<1>3. PICK g \in [0 .. n + 1 -> V] :
         /\ g[0] = base
         /\ \A k \in 1 .. n + 1 : g[k] = op(p, g[k - 1], t[k])
         /\ Folded(p, base, t) = g[n + 1]
  BY <1>1, FoldSteps
<1> HIDE DEF n
<1> DEFINE T == {k \in Nat : k <= n => g[k] = h[k]}
<1>4. 0 \in T
  BY <1>2, <1>3
<1>5. ASSUME NEW k \in Nat, k \in T PROVE k + 1 \in T
  <2> SUFFICES ASSUME k + 1 <= n PROVE g[k + 1] = h[k + 1]
    OBVIOUS
  <2>1. k + 1 \in 1 .. n /\ k + 1 \in 1 .. n + 1 /\ (k + 1) - 1 = k /\ g[k] = h[k]
    BY <1>1, <1>5
  <2> QED
    BY <1>1, <1>2, <1>3, <2>1
<1>6. g[n] = h[n]
  <2>1. Nat \subseteq T
    <3> HIDE DEF T
    <3> QED
      BY <1>4, <1>5, Induction
  <2> QED
    BY <1>1, <2>1
<1>7. g[n + 1] = op(p, g[n], x)
  <2>1. n + 1 \in 1 .. n + 1 /\ (n + 1) - 1 = n
    BY <1>1
  <2> QED
    BY <1>1, <1>3, <2>1
<1>8. h[n] \in V
  BY <1>1, <1>2
<1> QED
  BY <1>2, <1>3, <1>6, <1>7, <1>8 DEF t

\* The two laws together, for every sequence.
LEMMA FoldLaws ==
    ASSUME NEW p, NEW V, NEW X, Steps(p, V, X), NEW base \in V
    PROVE  /\ Folded(p, base, <<>>) = base
           /\ \A s \in Seq(X) : Folded(p, base, s) \in V
           /\ \A s \in Seq(X), x \in X :
                 Folded(p, base, Append(s, x)) = op(p, Folded(p, base, s), x)
<1>1. ASSUME NEW s \in Seq(X)
      PROVE  Folded(p, base, s) \in V
  <2>1. CASE s = <<>>
    BY <2>1, FoldEmpty
  <2>2. CASE s # <<>>
    <3>1. s[1] \in X
      BY <2>2
    <3> QED
      BY <3>1, FoldAppend
  <2> QED
    BY <2>1, <2>2
<1> QED
  BY <1>1, FoldEmpty, FoldAppend

================================================================================
