-------------------------- MODULE EventPipeline_proofs --------------------------
EXTENDS EventPipeline, TLAPS

Kept == INSTANCE SequenceFolds WITH op <- KeepIf

-----------------------------------------------------------------------------
(* Retain *)

LEMMA RetainIsFold == \A s, K : Retain(s, K) = Kept!Folded(K, <<>>, s)
  BY DEF Retain, Kept!Folded, FoldLeft, Kept!FoldLeft, MapThenFoldSet, Kept!MapThenFoldSet,
         Max, Kept!Max

LEMMA RetainLaws ==
    ASSUME NEW S, NEW K
    PROVE  /\ Retain(<<>>, K) = <<>>
           /\ \A s \in Seq(S) : Retain(s, K) \in Seq(S)
           /\ \A s \in Seq(S), x \in S :
                 Retain(Append(s, x), K) = IF x \in K THEN Append(Retain(s, K), x)
                                           ELSE Retain(s, K)
<1> DEFINE base == <<>>
<1>1. Kept!Steps(K, Seq(S), S)
  BY DEF Kept!Steps, KeepIf
<1>2. base \in Seq(S)
  OBVIOUS
<1> HIDE DEF base
<1>3. /\ Kept!Folded(K, base, <<>>) = base
      /\ \A s \in Seq(S) : Kept!Folded(K, base, s) \in Seq(S)
      /\ \A s \in Seq(S), x \in S :
            Kept!Folded(K, base, Append(s, x)) = KeepIf(K, Kept!Folded(K, base, s), x)
  BY <1>1, <1>2, Kept!FoldLaws
<1>4. \A s : Retain(s, K) = Kept!Folded(K, base, s)
  BY RetainIsFold DEF base
<1>5. Retain(<<>>, K) = <<>>
  BY <1>3, <1>4 DEF base
<1> QED
  BY <1>3, <1>4, <1>5 DEF KeepIf

LEMMA AppendRange ==
    ASSUME NEW S
    PROVE  \A s \in Seq(S), x \in S : /\ Append(s, x) \in Seq(S)
                                      /\ Range(Append(s, x)) = Range(s) \cup {x}
<1> SUFFICES ASSUME NEW s \in Seq(S), NEW x \in S
             PROVE  /\ Append(s, x) \in Seq(S)
                    /\ Range(Append(s, x)) = Range(s) \cup {x}
  OBVIOUS
<1> DEFINE t == Append(s, x)
<1>0. t \in Seq(S)
  OBVIOUS
<1>1. /\ DOMAIN s = 1 .. Len(s) /\ DOMAIN t = 1 .. Len(s) + 1 /\ Len(s) \in Nat
      /\ \A i \in 1 .. Len(s) : t[i] = s[i]
      /\ t[Len(s) + 1] = x
  OBVIOUS
<1> HIDE DEF t
<1>2. Range(t) \subseteq Range(s) \cup {x}
  <2> SUFFICES ASSUME NEW i \in DOMAIN t PROVE t[i] \in Range(s) \cup {x}
    BY DEF Range
  <2>1. CASE i = Len(s) + 1
    BY <1>1, <2>1
  <2>2. CASE i \in 1 .. Len(s)
    BY <1>1, <2>2 DEF Range
  <2> QED
    BY <1>1, <2>1, <2>2
<1>3. Range(s) \cup {x} \subseteq Range(t)
  <2>1. x \in Range(t)
    <3>1. Len(s) + 1 \in DOMAIN t
      BY <1>1
    <3> QED
      BY <1>1, <3>1 DEF Range
  <2>2. ASSUME NEW i \in DOMAIN s PROVE s[i] \in Range(t)
    <3>1. i \in DOMAIN t /\ t[i] = s[i]
      BY <1>1
    <3> QED
      BY <3>1 DEF Range
  <2> QED
    BY <2>1, <2>2 DEF Range
<1>4. Range(t) = Range(s) \cup {x}
  BY <1>2, <1>3
<1> QED
  BY <1>0, <1>4 DEF t

LEMMA EmptyRange == Range(<<>>) = {}
<1>1. DOMAIN <<>> = {}
  OBVIOUS
<1> QED
  BY <1>1 DEF Range

\* Only what is kept of the elements there are matters ...
LEMMA RetainLocal ==
    ASSUME NEW S, NEW K, NEW L, NEW t \in Seq(S), \A x \in Range(t) : x \in K <=> x \in L
    PROVE  Retain(t, K) = Retain(t, L)
<1> DEFINE P == {s \in Seq(S) : (\A x \in Range(s) : x \in K <=> x \in L) => Retain(s, K) = Retain(s, L)}
<1>4. /\ Retain(<<>>, K) = <<>>
      /\ \A s \in Seq(S) : Retain(s, K) \in Seq(S)
      /\ \A s \in Seq(S), x \in S :
            Retain(Append(s, x), K) = IF x \in K THEN Append(Retain(s, K), x)
                                      ELSE Retain(s, K)
  BY RetainLaws
<1>5. /\ Retain(<<>>, L) = <<>>
      /\ \A s \in Seq(S) : Retain(s, L) \in Seq(S)
      /\ \A s \in Seq(S), x \in S :
            Retain(Append(s, x), L) = IF x \in L THEN Append(Retain(s, L), x)
                                      ELSE Retain(s, L)
  BY RetainLaws
<1>1. <<>> \in P
  BY <1>4, <1>5
<1>2. ASSUME NEW s \in Seq(S), NEW x \in S, s \in P
      PROVE  Append(s, x) \in P
  <2> SUFFICES ASSUME \A y \in Range(Append(s, x)) : y \in K <=> y \in L
               PROVE  Retain(Append(s, x), K) = Retain(Append(s, x), L)
    OBVIOUS
  <2>1. Range(Append(s, x)) = Range(s) \cup {x}
    BY AppendRange
  <2>2. Retain(s, K) = Retain(s, L)
    BY <1>2, <2>1
  <2>3. x \in K <=> x \in L
    BY <2>1
  <2> QED
    BY <1>4, <1>5, <2>2, <2>3
<1>3. t \in P
  <2> HIDE DEF P
  <2> QED
    BY <1>1, <1>2, Kept!SequenceInduction
<1> QED
  BY <1>3

\* ... and those are the elements of the result.
LEMMA RetainRange ==
    ASSUME NEW S, NEW K, NEW t \in Seq(S)
    PROVE  Retain(t, K) \in Seq(S) /\ Range(Retain(t, K)) = Range(t) \cap K
<1> DEFINE P == {s \in Seq(S) : Range(Retain(s, K)) = Range(s) \cap K}
<1>4. /\ Retain(<<>>, K) = <<>>
      /\ \A s \in Seq(S) : Retain(s, K) \in Seq(S)
      /\ \A s \in Seq(S), x \in S :
            Retain(Append(s, x), K) = IF x \in K THEN Append(Retain(s, K), x)
                                      ELSE Retain(s, K)
  BY RetainLaws
<1>1. <<>> \in P
  <2>1. DOMAIN <<>> = {}
    OBVIOUS
  <2>2. Range(<<>>) = {}
    BY <2>1 DEF Range
  <2>3. <<>> \in Seq(S)
    OBVIOUS
  <2> QED
    BY <1>4, <2>2, <2>3
<1>2. ASSUME NEW s \in Seq(S), NEW x \in S, s \in P
      PROVE  Append(s, x) \in P
  <2>1. Range(Append(s, x)) = Range(s) \cup {x} /\ Append(s, x) \in Seq(S)
    BY AppendRange
  <2>2. Range(Append(Retain(s, K), x)) = Range(Retain(s, K)) \cup {x}
    BY <1>4, AppendRange
  <2>3. CASE x \in K
    <3>1. Retain(Append(s, x), K) = Append(Retain(s, K), x)
      BY <1>4, <2>3
    <3> QED
      BY <1>2, <2>1, <2>2, <2>3, <3>1
  <2>4. CASE x \notin K
    <3>1. Retain(Append(s, x), K) = Retain(s, K)
      BY <1>4, <2>4
    <3> QED
      BY <1>2, <2>1, <2>4, <3>1
  <2> QED
    BY <2>3, <2>4
<1>3. t \in P
  <2> HIDE DEF P
  <2> QED
    BY <1>1, <1>2, Kept!SequenceInduction
<1> QED
  BY <1>3, <1>4

\* Nothing is kept of other elements, everything of a sequence of such elements.
LEMMA RetainNone ==
    ASSUME NEW S, NEW K, NEW t \in Seq(S), Range(t) \cap K = {}
    PROVE  Retain(t, K) = <<>>
<1>1. Retain(t, K) \in Seq(S) /\ Range(Retain(t, K)) = {}
  BY RetainRange
<1>2. DOMAIN Retain(t, K) = 1 .. Len(Retain(t, K)) /\ Len(Retain(t, K)) \in Nat
  BY <1>1
<1>3. DOMAIN Retain(t, K) = {}
  BY <1>1 DEF Range
<1>4. Len(Retain(t, K)) = 0
  BY <1>2, <1>3
<1> QED
  BY <1>1, <1>4

LEMMA RetainAll ==
    ASSUME NEW S, NEW K, NEW t \in Seq(S), Range(t) \subseteq K
    PROVE  Retain(t, K) = t
<1> DEFINE P == {s \in Seq(S) : Range(s) \subseteq K => Retain(s, K) = s}
<1>4. /\ Retain(<<>>, K) = <<>>
      /\ \A s \in Seq(S) : Retain(s, K) \in Seq(S)
      /\ \A s \in Seq(S), x \in S :
            Retain(Append(s, x), K) = IF x \in K THEN Append(Retain(s, K), x)
                                      ELSE Retain(s, K)
  BY RetainLaws
<1>1. <<>> \in P
  BY <1>4
<1>2. ASSUME NEW s \in Seq(S), NEW x \in S, s \in P
      PROVE  Append(s, x) \in P
  <2>1. Range(Append(s, x)) = Range(s) \cup {x} /\ Append(s, x) \in Seq(S)
    BY AppendRange
  <2> QED
    BY <1>2, <1>4, <2>1
<1>3. t \in P
  <2> HIDE DEF P
  <2> QED
    BY <1>1, <1>2, Kept!SequenceInduction
<1> QED
  BY <1>3

\* What is kept of a concatenation is kept of its parts.
LEMMA RetainConcat ==
    ASSUME NEW S, NEW K, NEW u \in Seq(S), NEW t \in Seq(S)
    PROVE  Retain(u \o t, K) = Retain(u, K) \o Retain(t, K)
<1> DEFINE P == {s \in Seq(S) : Retain(u \o s, K) = Retain(u, K) \o Retain(s, K)}
<1>4. /\ Retain(<<>>, K) = <<>>
      /\ \A s \in Seq(S) : Retain(s, K) \in Seq(S)
      /\ \A s \in Seq(S), x \in S :
            Retain(Append(s, x), K) = IF x \in K THEN Append(Retain(s, K), x)
                                      ELSE Retain(s, K)
  BY RetainLaws
<1>1. <<>> \in P
  <2>1. u \o <<>> = u /\ Retain(u, K) \o <<>> = Retain(u, K)
    BY <1>4
  <2> QED
    BY <1>4, <2>1
<1>2. ASSUME NEW s \in Seq(S), NEW x \in S, s \in P
      PROVE  Append(s, x) \in P
  <2>1. u \o Append(s, x) = Append(u \o s, x) /\ u \o s \in Seq(S) /\ Append(s, x) \in Seq(S)
    OBVIOUS
  <2>2. Retain(s, K) \in Seq(S) /\ Retain(u, K) \in Seq(S)
    BY <1>4
  <2>3. Retain(u, K) \o Append(Retain(s, K), x) = Append(Retain(u, K) \o Retain(s, K), x)
    BY <2>2
  <2>4. Retain(u \o s, K) = Retain(u, K) \o Retain(s, K)
    BY <1>2
  <2>5. CASE x \in K
    <3>1. Retain(Append(u \o s, x), K) = Append(Retain(u \o s, K), x)
      BY <1>4, <2>1, <2>5
    <3>2. Retain(Append(s, x), K) = Append(Retain(s, K), x)
      BY <1>4, <2>5
    <3>3. Retain(u \o Append(s, x), K) = Retain(u, K) \o Retain(Append(s, x), K)
      BY <2>1, <2>3, <2>4, <3>1, <3>2
    <3> QED
      BY <2>1, <3>3
  <2>6. CASE x \notin K
    <3>1. Retain(Append(u \o s, x), K) = Retain(u \o s, K)
      BY <1>4, <2>1, <2>6
    <3>2. Retain(Append(s, x), K) = Retain(s, K)
      BY <1>4, <2>6
    <3>3. Retain(u \o Append(s, x), K) = Retain(u, K) \o Retain(Append(s, x), K)
      BY <2>1, <2>4, <3>1, <3>2
    <3> QED
      BY <2>1, <3>3
  <2> QED
    BY <2>5, <2>6
<1>3. t \in P
  <2> HIDE DEF P
  <2> QED
    BY <1>1, <1>2, Kept!SequenceInduction
<1> QED
  BY <1>3

\* What is kept twice is what both keep.
LEMMA RetainTwice ==
    ASSUME NEW S, NEW K, NEW L, NEW t \in Seq(S)
    PROVE  Retain(Retain(t, K), L) = Retain(t, K \cap L)
<1> DEFINE M == K \cap L
           P == {s \in Seq(S) : Retain(Retain(s, K), L) = Retain(s, M)}
<1>0. \A x : x \in M <=> x \in K /\ x \in L
  OBVIOUS
<1> HIDE DEF M
<1>4. /\ Retain(<<>>, K) = <<>>
      /\ \A s \in Seq(S) : Retain(s, K) \in Seq(S)
      /\ \A s \in Seq(S), x \in S :
            Retain(Append(s, x), K) = IF x \in K THEN Append(Retain(s, K), x)
                                      ELSE Retain(s, K)
  BY RetainLaws
<1>5. /\ Retain(<<>>, L) = <<>>
      /\ \A s \in Seq(S) : Retain(s, L) \in Seq(S)
      /\ \A s \in Seq(S), x \in S :
            Retain(Append(s, x), L) = IF x \in L THEN Append(Retain(s, L), x)
                                      ELSE Retain(s, L)
  BY RetainLaws
<1>6. /\ Retain(<<>>, M) = <<>>
      /\ \A s \in Seq(S) : Retain(s, M) \in Seq(S)
      /\ \A s \in Seq(S), x \in S :
            Retain(Append(s, x), M) = IF x \in M THEN Append(Retain(s, M), x)
                                      ELSE Retain(s, M)
  BY RetainLaws
<1>1. <<>> \in P
  BY <1>4, <1>5, <1>6
<1>2. ASSUME NEW s \in Seq(S), NEW x \in S, s \in P
      PROVE  Append(s, x) \in P
  <2>1. Retain(s, K) \in Seq(S) /\ Append(s, x) \in Seq(S)
    BY <1>4
  <2>2. Retain(Append(Retain(s, K), x), L) = IF x \in L THEN Append(Retain(Retain(s, K), L), x)
                                             ELSE Retain(Retain(s, K), L)
    BY <1>5, <2>1
  <2>3. Retain(Retain(s, K), L) = Retain(s, M)
    BY <1>2
  <2>4. Retain(Retain(Append(s, x), K), L) = Retain(Append(s, x), M)
    BY <1>0, <1>4, <1>6, <2>2, <2>3
  <2> QED
    BY <2>1, <2>4
<1>3. t \in P
  <2> HIDE DEF P
  <2> QED
    BY <1>1, <1>2, Kept!SequenceInduction
<1> QED
  BY <1>3 DEF M

\* What is kept of different elements are different elements.
LEMMA RetainInjective ==
    ASSUME NEW S, NEW K, NEW t \in Seq(S), IsInjective(t)
    PROVE  IsInjective(Retain(t, K))
<1> DEFINE P == {s \in Seq(S) : IsInjective(s) => IsInjective(Retain(s, K))}
<1>4. /\ Retain(<<>>, K) = <<>>
      /\ \A s \in Seq(S) : Retain(s, K) \in Seq(S)
      /\ \A s \in Seq(S), x \in S :
            Retain(Append(s, x), K) = IF x \in K THEN Append(Retain(s, K), x)
                                      ELSE Retain(s, K)
  BY RetainLaws
<1>1. <<>> \in P
  BY <1>4
<1>2. ASSUME NEW s \in Seq(S), NEW x \in S, s \in P
      PROVE  Append(s, x) \in P
  <2> SUFFICES ASSUME IsInjective(Append(s, x))
               PROVE  IsInjective(Retain(Append(s, x), K))
    OBVIOUS
  <2> DEFINE n == Len(s)
             u == Append(s, x)
  <2>1. /\ n \in Nat /\ DOMAIN s = 1 .. n /\ DOMAIN u = 1 .. n + 1 /\ u[n + 1] = x
        /\ \A i \in 1 .. n : u[i] = s[i]
    OBVIOUS
  <2> HIDE DEF n
  <2>2. IsInjective(s)
    BY <2>1 DEF IsInjective
  <2>3. x \notin Range(s)
    BY <2>1 DEF IsInjective, Range
  <2>4. Retain(s, K) \in Seq(S) /\ IsInjective(Retain(s, K)) /\ x \notin Range(Retain(s, K))
    BY <1>2, <2>2, <2>3, RetainRange
  <2>5. IsInjective(Append(Retain(s, K), x))
    <3> DEFINE q == Retain(s, K)
    <3> SUFFICES ASSUME q \in Seq(S), IsInjective(q), x \notin Range(q)
                 PROVE  IsInjective(Append(q, x))
      BY <2>4
    <3> HIDE DEF q
    <3> DEFINE w == Append(q, x)
    <3>1. /\ Len(q) \in Nat /\ DOMAIN q = 1 .. Len(q) /\ DOMAIN w = 1 .. Len(q) + 1
          /\ w[Len(q) + 1] = x /\ \A i \in 1 .. Len(q) : w[i] = q[i]
      OBVIOUS
    <3>2. \A i \in 1 .. Len(q) : q[i] # x
      BY <3>1 DEF Range
    <3> HIDE DEF w
    <3>3. \A i, j \in DOMAIN w : w[i] = w[j] => i = j
      BY <3>1, <3>2 DEF IsInjective
    <3> QED
      BY <3>3 DEF IsInjective, w
  <2> QED
    BY <1>4, <2>4, <2>5
<1>3. t \in P
  <2> HIDE DEF P
  <2> QED
    BY <1>1, <1>2, Kept!SequenceInduction
<1> QED
  BY <1>3


-----------------------------------------------------------------------------
(* The collection *)

Summaries == UNION {Range(Document[c].summaries) : c \in Contents}

Paths == {f[2] : f \in Files}

Defs == {DefOf(l, p, s) : l \in Range(Locations), p \in Paths, s \in Summaries}

Errors == {ErrorOf(l, p, code) : l \in Range(Locations), p \in Paths,
                                 code \in {"parse_error", "file_read_failed"}}

\* A file is its location and its path, and the location is the one of that id.
LEMMA FileShape ==
    ASSUME NEW f \in Files
    PROVE  /\ f = <<f[1], f[2]>> /\ f[1] \in LocationIds /\ f[2] \in Paths
           /\ f[2] \in Seq(PathNames)
           /\ LocationById(f[1]) \in Range(Locations) /\ LocationById(f[1]).id = f[1]
<1>1. FileOrder \in Seq(LocationIds \X Seq(PathNames))
  BY EventsAssumption
<1>2. f \in LocationIds \X Seq(PathNames)
  BY <1>1 DEF Files, Range
<1>3. \E l \in Range(Locations) : l.id = f[1]
  BY <1>2 DEF LocationIds
<1>4. LocationById(f[1]) \in Range(Locations) /\ LocationById(f[1]).id = f[1]
  BY <1>3 DEF LocationById
<1> QED
  BY <1>2, <1>4 DEF Paths

LEMMA FilesDiffer ==
    ASSUME NEW f \in Files, NEW g \in Files, f # g
    PROVE  f[1] # g[1] \/ f[2] # g[2]
  BY FileShape

-----------------------------------------------------------------------------
(* The records of one file *)

IsIndex(i) ==
    /\ i = [defs |-> i.defs, errors |-> i.errors, byType |-> i.byType]
    /\ i.defs \in Seq(Defs) /\ i.errors \in Seq(Errors)

Own(s, f) == Retain(s, {r \in Range(s) : InFile(r, f[1], f[2])})

Nothing == [defs |-> <<>>, errors |-> <<>>]

LEMMA RecordsAreOwn ==
    \A index, f : RecordsOf(index, f) = [defs |-> Own(index.defs, f), errors |-> Own(index.errors, f)]
  BY DEF RecordsOf, Own

\* The records of a file in what a filter leaves: all of them, or none.
LEMMA OwnOfKept ==
    ASSUME NEW S, NEW K, NEW s \in Seq(S), NEW f
    PROVE  /\ Retain(s, K) \in Seq(S)
           /\ (\A r \in Range(s) : InFile(r, f[1], f[2]) => r \in K) => Own(Retain(s, K), f) = Own(s, f)
           /\ (\A r \in Range(s) : InFile(r, f[1], f[2]) => r \notin K) => Own(Retain(s, K), f) = <<>>
<1> DEFINE kept == Retain(s, K)
           F(t) == {r \in Range(t) : InFile(r, f[1], f[2])}
<1>1. kept \in Seq(S) /\ Range(kept) = Range(s) \cap K
  BY RetainRange
<1>2. ASSUME \A r \in Range(s) : InFile(r, f[1], f[2]) => r \in K
      PROVE  Own(kept, f) = Own(s, f)
  <2>1. Retain(kept, F(kept)) = Retain(s, K \cap F(kept))
    BY RetainTwice
  <2>2. \A x \in Range(s) : x \in K \cap F(kept) <=> x \in F(s)
    BY <1>1, <1>2
  <2> HIDE DEF kept, F
  <2>3. Retain(s, K \cap F(kept)) = Retain(s, F(s))
    BY <2>2, RetainLocal
  <2> QED
    BY <2>1, <2>3 DEF Own, F
<1>3. ASSUME \A r \in Range(s) : InFile(r, f[1], f[2]) => r \notin K
      PROVE  Own(kept, f) = <<>>
  <2>1. Range(kept) \cap F(kept) = {}
    BY <1>1, <1>3
  <2> HIDE DEF kept, F
  <2>2. Retain(kept, F(kept)) = <<>>
    BY <1>1, <2>1, RetainNone
  <2> QED
    BY <2>2 DEF Own, F
<1> QED
  BY <1>1, <1>2, <1>3

LEMMA OwnOfConcat ==
    ASSUME NEW S, NEW s \in Seq(S), NEW t \in Seq(S), NEW f
    PROVE  Own(s \o t, f) = Own(s, f) \o Own(t, f)
<1> DEFINE K == {r \in S : InFile(r, f[1], f[2])}
<1>1. ASSUME NEW u \in Seq(S)
      PROVE  Own(u, f) = Retain(u, K)
  <2>1. Range(u) \subseteq S
    BY DEF Range
  <2> DEFINE L == {r \in Range(u) : InFile(r, f[1], f[2])}
  <2>2. \A x \in Range(u) : x \in L <=> x \in K
    BY <2>1
  <2> HIDE DEF K, L
  <2>3. Retain(u, L) = Retain(u, K)
    BY <2>2, RetainLocal
  <2> QED
    BY <2>3 DEF Own, L
<1>2. s \o t \in Seq(S)
  OBVIOUS
<1> HIDE DEF K
<1>3. Retain(s \o t, K) = Retain(s, K) \o Retain(t, K)
  BY RetainConcat
<1> QED
  BY <1>1, <1>2, <1>3

LEMMA OwnOfOthers ==
    ASSUME NEW S, NEW s \in Seq(S), NEW f
    PROVE  /\ (\A r \in Range(s) : ~InFile(r, f[1], f[2])) => Own(s, f) = <<>>
           /\ (\A r \in Range(s) : InFile(r, f[1], f[2])) => Own(s, f) = s
<1> DEFINE K == {r \in Range(s) : InFile(r, f[1], f[2])}
<1>1. /\ (\A r \in Range(s) : ~InFile(r, f[1], f[2])) => Range(s) \cap K = {}
      /\ (\A r \in Range(s) : InFile(r, f[1], f[2])) => Range(s) \subseteq K
  OBVIOUS
<1> HIDE DEF K
<1>2. Range(s) \cap K = {} => Retain(s, K) = <<>>
  BY RetainNone
<1>3. Range(s) \subseteq K => Retain(s, K) = s
  BY RetainAll
<1> QED
  BY <1>1, <1>2, <1>3 DEF Own, K


-----------------------------------------------------------------------------
(* Changing the index one file at a time *)

\* What reading a file appends to the index.
AddedDefs(f, c) ==
    IF c = Unreadable \/ Document[c].fatal THEN <<>>
    ELSE LET named == Retain(Document[c].summaries,
                             {s \in Range(Document[c].summaries) : s.name # NoName})
         IN  [i \in DOMAIN named |-> DefOf(LocationById(f[1]), f[2], named[i])]

AddedErrors(f, c) ==
    IF c = Unreadable THEN <<ErrorOf(LocationById(f[1]), f[2], "file_read_failed")>>
    ELSE [i \in 1 .. Document[c].diagnostics |-> ErrorOf(LocationById(f[1]), f[2], "parse_error")]

LEMMA AddedTyped ==
    ASSUME NEW f \in Files, NEW c \in Contents \cup {Unreadable}
    PROVE  /\ AddedDefs(f, c) \in Seq(Defs) /\ AddedErrors(f, c) \in Seq(Errors)
           /\ \A r \in Range(AddedDefs(f, c)) \cup Range(AddedErrors(f, c)) : InFile(r, f[1], f[2])
<1> DEFINE l == LocationById(f[1])
<1>1. l \in Range(Locations) /\ l.id = f[1] /\ f[2] \in Paths
  BY FileShape
<1> HIDE DEF l
<1>2. AddedDefs(f, c) \in Seq(Defs) /\ \A r \in Range(AddedDefs(f, c)) : InFile(r, f[1], f[2])
  <2>1. CASE c = Unreadable \/ Document[c].fatal
    BY <2>1, EmptyRange DEF AddedDefs
  <2>2. CASE ~(c = Unreadable \/ Document[c].fatal)
    <3> DEFINE all == Document[c].summaries
               named == Retain(all, {s \in Range(all) : s.name # NoName})
               added == [i \in DOMAIN named |-> DefOf(l, f[2], named[i])]
    <3>1. c \in Contents /\ all \in Seq(Range(all)) /\ Range(all) \subseteq Summaries
      BY <2>2, EventsAssumption DEF Summaries
    <3> HIDE DEF all
    <3>2. named \in Seq(Range(all))
      BY <3>1, RetainRange
    <3> HIDE DEF named
    <3>3. \A i \in DOMAIN named : named[i] \in Summaries
      BY <3>1, <3>2
    <3>4. \A i \in DOMAIN named : DefOf(l, f[2], named[i]) \in Defs
      BY <1>1, <3>3 DEF Defs
    <3>5. added \in Seq(Defs)
      BY <3>2, <3>4
    <3>6. \A r \in Range(added) : InFile(r, f[1], f[2])
      BY <1>1 DEF Range, DefOf, InFile
    <3> HIDE DEF added
    <3>7. AddedDefs(f, c) = added
      BY <2>2 DEF AddedDefs, added, named, all, l
    <3> QED
      BY <3>5, <3>6, <3>7
  <2> QED
    BY <2>1, <2>2
<1>3. AddedErrors(f, c) \in Seq(Errors) /\ \A r \in Range(AddedErrors(f, c)) : InFile(r, f[1], f[2])
  <2>1. /\ ErrorOf(l, f[2], "file_read_failed") \in Errors
        /\ ErrorOf(l, f[2], "parse_error") \in Errors
    BY <1>1 DEF Errors
  <2>2. /\ InFile(ErrorOf(l, f[2], "file_read_failed"), f[1], f[2])
        /\ InFile(ErrorOf(l, f[2], "parse_error"), f[1], f[2])
    BY <1>1 DEF ErrorOf, InFile
  <2>3. CASE c = Unreadable
    <3>1. AddedErrors(f, c) = <<ErrorOf(l, f[2], "file_read_failed")>>
      BY <2>3 DEF AddedErrors, l
    <3> QED
      BY <2>1, <2>2, <3>1 DEF Range
  <2>4. CASE c # Unreadable
    <3>1. AddedErrors(f, c) = [i \in 1 .. Document[c].diagnostics |-> ErrorOf(l, f[2], "parse_error")]
      BY <2>4 DEF AddedErrors, l
    <3>2. Document[c].diagnostics \in Nat
      BY <2>4, EventsAssumption
    <3>3. AddedErrors(f, c) \in Seq(Errors)
      BY <2>1, <3>1, <3>2
    <3> QED
      BY <2>2, <3>1, <3>3 DEF Range
  <2> QED
    BY <2>3, <2>4
<1> QED
  BY <1>2, <1>3

LEMMA AddFileIs ==
    ASSUME NEW index, IsIndex(index), NEW f \in Files, NEW c \in Contents \cup {Unreadable}
    PROVE  /\ AddFile(index, LocationById(f[1]), f[2], c)
                = [defs |-> index.defs \o AddedDefs(f, c),
                   errors |-> index.errors \o AddedErrors(f, c), byType |-> index.byType]
           /\ IsIndex(AddFile(index, LocationById(f[1]), f[2], c))
<1> DEFINE new == AddFile(index, LocationById(f[1]), f[2], c)
<1>1. /\ index = [defs |-> index.defs, errors |-> index.errors, byType |-> index.byType]
      /\ index.defs \in Seq(Defs) /\ index.errors \in Seq(Errors)
  BY DEF IsIndex
<1>2. AddedDefs(f, c) \in Seq(Defs) /\ AddedErrors(f, c) \in Seq(Errors)
  BY AddedTyped
<1>3. new = [defs |-> index.defs \o AddedDefs(f, c),
             errors |-> index.errors \o AddedErrors(f, c), byType |-> index.byType]
  <2>1. CASE c = Unreadable
    <3> DEFINE e == ErrorOf(LocationById(f[1]), f[2], "file_read_failed")
    <3>1. AddedDefs(f, c) = <<>> /\ AddedErrors(f, c) = <<e>>
      BY <2>1 DEF AddedDefs, AddedErrors
    <3>2. new = [index EXCEPT !.errors = Append(@, e)]
      BY <2>1 DEF AddFile
    <3> HIDE DEF new, e
    <3>3. index.defs \o <<>> = index.defs /\ index.errors \o <<e>> = Append(index.errors, e)
      BY <1>1
    <3> QED
      BY <1>1, <3>1, <3>2, <3>3
  <2>2. CASE c # Unreadable
    <3> DEFINE named == Retain(Document[c].summaries,
                               {s \in Range(Document[c].summaries) : s.name # NoName})
               added == [i \in DOMAIN named |-> DefOf(LocationById(f[1]), f[2], named[i])]
    <3>1. new = [index EXCEPT !.errors = @ \o AddedErrors(f, c),
                              !.defs = IF Document[c].fatal THEN @ ELSE @ \o added]
      BY <2>2 DEF AddFile, AddDocumentDefs, AddedErrors
    <3>2. AddedDefs(f, c) = IF Document[c].fatal THEN <<>> ELSE added
      BY <2>2 DEF AddedDefs
    <3> HIDE DEF new, added, named
    <3>3. index.defs \o <<>> = index.defs
      BY <1>1
    <3>4. new.defs = index.defs \o AddedDefs(f, c)
      BY <1>1, <3>1, <3>2, <3>3
    <3> QED
      BY <1>1, <3>1, <3>4
  <2> QED
    BY <2>1, <2>2
<1> HIDE DEF new
<1>4. IsIndex(new)
  BY <1>1, <1>2, <1>3 DEF IsIndex
<1> QED
  BY <1>3, <1>4 DEF new

\* A file that is added leaves the records of the others alone; one the index said
\* nothing of is then recorded as it would be in an index of its own.
LEMMA AddFileRecords ==
    ASSUME NEW index, IsIndex(index), NEW f \in Files, NEW c \in Contents \cup {Unreadable}
    PROVE  LET new == AddFile(index, LocationById(f[1]), f[2], c) IN
           /\ \A g \in Files : g # f => RecordsOf(new, g) = RecordsOf(index, g)
           /\ RecordsOf(index, f) = Nothing =>
                 RecordsOf(new, f) = [defs |-> AddedDefs(f, c), errors |-> AddedErrors(f, c)]
<1> DEFINE new == AddFile(index, LocationById(f[1]), f[2], c)
           dd == AddedDefs(f, c)
           ee == AddedErrors(f, c)
<1>1. index.defs \in Seq(Defs) /\ index.errors \in Seq(Errors)
  BY DEF IsIndex
<1>2. /\ dd \in Seq(Defs) /\ ee \in Seq(Errors)
      /\ \A r \in Range(dd) \cup Range(ee) : InFile(r, f[1], f[2])
  BY AddedTyped
<1>0. new = [defs |-> index.defs \o dd, errors |-> index.errors \o ee, byType |-> index.byType]
  BY AddFileIs
<1> HIDE DEF new, dd, ee
<1>3. new.defs = index.defs \o dd /\ new.errors = index.errors \o ee
  BY <1>0
<1>4. ASSUME NEW g
      PROVE  /\ Own(new.defs, g) = Own(index.defs, g) \o Own(dd, g)
             /\ Own(new.errors, g) = Own(index.errors, g) \o Own(ee, g)
  <2>1. Own(index.defs \o dd, g) = Own(index.defs, g) \o Own(dd, g)
    <3> DEFINE a == index.defs
    <3>1. a \in Seq(Defs) /\ dd \in Seq(Defs)
      BY <1>1, <1>2
    <3> HIDE DEF a
    <3>2. Own(a \o dd, g) = Own(a, g) \o Own(dd, g)
      BY <3>1, OwnOfConcat
    <3> QED
      BY <3>2 DEF a
  <2>2. Own(index.errors \o ee, g) = Own(index.errors, g) \o Own(ee, g)
    <3> DEFINE a == index.errors
    <3>1. a \in Seq(Errors) /\ ee \in Seq(Errors)
      BY <1>1, <1>2
    <3> HIDE DEF a
    <3>2. Own(a \o ee, g) = Own(a, g) \o Own(ee, g)
      BY <3>1, OwnOfConcat
    <3> QED
      BY <3>2 DEF a
  <2> QED
    BY <1>3, <2>1, <2>2
<1>5. ASSUME NEW g \in Files, g # f
      PROVE  RecordsOf(new, g) = RecordsOf(index, g)
  <2>1. \A r \in Range(dd) \cup Range(ee) : ~InFile(r, g[1], g[2])
    BY <1>2, <1>5, FilesDiffer DEF InFile
  <2>2. Own(dd, g) = <<>> /\ Own(ee, g) = <<>>
    BY <1>2, <2>1, OwnOfOthers
  <2>3. Own(index.defs, g) \in Seq(Defs) /\ Own(index.errors, g) \in Seq(Errors)
    BY <1>1, RetainRange DEF Own
  <2>4. Own(index.defs, g) \o <<>> = Own(index.defs, g) /\ Own(index.errors, g) \o <<>> = Own(index.errors, g)
    BY <2>3
  <2>5. Own(new.defs, g) = Own(index.defs, g) /\ Own(new.errors, g) = Own(index.errors, g)
    BY <1>4, <2>2, <2>4
  <2> QED
    BY <2>5, RecordsAreOwn
<1>6. ASSUME RecordsOf(index, f) = Nothing
      PROVE  RecordsOf(new, f) = [defs |-> dd, errors |-> ee]
  <2>1. Own(index.defs, f) = <<>> /\ Own(index.errors, f) = <<>>
    BY <1>6, RecordsAreOwn DEF Nothing
  <2>2. Own(dd, f) = dd /\ Own(ee, f) = ee
    BY <1>2, OwnOfOthers
  <2>3. <<>> \o dd = dd /\ <<>> \o ee = ee
    BY <1>2
  <2>4. Own(new.defs, f) = dd /\ Own(new.errors, f) = ee
    BY <1>4, <2>1, <2>2, <2>3
  <2> QED
    BY <2>4, RecordsAreOwn
<1> QED
  BY <1>5, <1>6 DEF new, dd, ee


LEMMA EmptyRecords ==
    IsIndex(EmptyIndex) /\ \A f : RecordsOf(EmptyIndex, f) = Nothing
<1>1. EmptyIndex.defs = <<>> /\ EmptyIndex.errors = <<>>
  BY DEF EmptyIndex
<1> DEFINE s == <<>>
<1>2. s \in Seq({}) /\ Range(s) = {} /\ s \in Seq(Defs) /\ s \in Seq(Errors)
  BY EmptyRange
<1> HIDE DEF s
<1>3. ASSUME NEW f PROVE Own(s, f) = <<>>
  BY <1>2, OwnOfOthers
<1>4. \A f : RecordsOf(EmptyIndex, f) = Nothing
  BY <1>1, <1>3, RecordsAreOwn DEF Nothing, s
<1>5. IsIndex(EmptyIndex)
  BY <1>1, <1>2 DEF IsIndex, s, EmptyIndex
<1> QED
  BY <1>4, <1>5

\* What a filter over both lists leaves of an index.
Filtered(index, K, L) == [index EXCEPT !.defs = Retain(@, K), !.errors = Retain(@, L)]

LEMMA FilteredRecords ==
    ASSUME NEW index, IsIndex(index), NEW K, NEW L
    PROVE  /\ IsIndex(Filtered(index, K, L))
           /\ \A f : (\A r : InFile(r, f[1], f[2]) /\ r \in Range(index.defs) => r \in K)
                     /\ (\A r : InFile(r, f[1], f[2]) /\ r \in Range(index.errors) => r \in L)
                     => RecordsOf(Filtered(index, K, L), f) = RecordsOf(index, f)
           /\ \A f : (\A r : InFile(r, f[1], f[2]) => r \notin K /\ r \notin L)
                     => RecordsOf(Filtered(index, K, L), f) = Nothing
<1> DEFINE new == Filtered(index, K, L)
           a == index.defs
           b == index.errors
<1>0. index = [defs |-> a, errors |-> b, byType |-> index.byType]
  BY DEF IsIndex
<1>1. a \in Seq(Defs) /\ b \in Seq(Errors)
  BY DEF IsIndex
<1>2. new = [defs |-> Retain(a, K), errors |-> Retain(b, L), byType |-> index.byType]
  <2> DEFINE p == Retain(a, K)
             q == Retain(b, L)
  <2>1. new = [index EXCEPT !.defs = p, !.errors = q]
    BY DEF Filtered
  <2> HIDE DEF new, a, b, p, q
  <2>2. new = [defs |-> p, errors |-> q, byType |-> index.byType]
    BY <1>0, <2>1
  <2> QED
    BY <2>2 DEF p, q
<1> HIDE DEF new, a, b
<1>3. new.defs = Retain(a, K) /\ new.errors = Retain(b, L)
  BY <1>2
<1>4. Retain(a, K) \in Seq(Defs) /\ Retain(b, L) \in Seq(Errors)
  BY <1>1, RetainRange
<1>5. IsIndex(new)
  BY <1>2, <1>4 DEF IsIndex
<1>6. ASSUME NEW f, \A r : InFile(r, f[1], f[2]) /\ r \in Range(a) => r \in K,
             \A r : InFile(r, f[1], f[2]) /\ r \in Range(b) => r \in L
      PROVE  RecordsOf(new, f) = RecordsOf(index, f)
  <2>1. Own(Retain(a, K), f) = Own(a, f)
    BY <1>1, <1>6, OwnOfKept
  <2>2. Own(Retain(b, L), f) = Own(b, f)
    BY <1>1, <1>6, OwnOfKept
  <2> QED
    BY <1>3, <2>1, <2>2, RecordsAreOwn DEF a, b
<1>7. ASSUME NEW f, \A r : InFile(r, f[1], f[2]) => r \notin K /\ r \notin L
      PROVE  RecordsOf(new, f) = Nothing
  <2>1. Own(Retain(a, K), f) = <<>>
    BY <1>1, <1>7, OwnOfKept
  <2>2. Own(Retain(b, L), f) = <<>>
    BY <1>1, <1>7, OwnOfKept
  <2> QED
    BY <1>3, <2>1, <2>2, RecordsAreOwn DEF Nothing
<1> QED
  BY <1>5, <1>6, <1>7 DEF new, a, b

\* A removal, of a file or of a folder, takes the records of the files it is about
\* and those of no other file.
LEMMA RemoveFileRecords ==
    ASSUME NEW index, IsIndex(index), NEW loc, NEW path
    PROVE  /\ IsIndex(RemoveFile(index, loc, path))
           /\ \A f \in Files : RecordsOf(RemoveFile(index, loc, path), f)
                 = IF f[1] = loc /\ f[2] = path THEN Nothing ELSE RecordsOf(index, f)
<1> DEFINE K == {r \in Range(index.defs) : ~InFile(r, loc, path)}
           L == {r \in Range(index.errors) : ~InFile(r, loc, path)}
<1>1. RemoveFile(index, loc, path) = Filtered(index, K, L)
  BY DEF RemoveFile, Filtered, IsIndex
<1>2. ASSUME NEW f, f[1] = loc, f[2] = path
      PROVE  \A r : InFile(r, f[1], f[2]) => r \notin K /\ r \notin L
  BY <1>2
<1>3. ASSUME NEW f, ~(f[1] = loc /\ f[2] = path)
      PROVE  /\ \A r : InFile(r, f[1], f[2]) /\ r \in Range(index.defs) => r \in K
             /\ \A r : InFile(r, f[1], f[2]) /\ r \in Range(index.errors) => r \in L
  BY <1>3 DEF InFile
<1> HIDE DEF K, L
<1> DEFINE new == Filtered(index, K, L)
<1>4. /\ IsIndex(new)
      /\ \A f : (\A r : InFile(r, f[1], f[2]) /\ r \in Range(index.defs) => r \in K)
                /\ (\A r : InFile(r, f[1], f[2]) /\ r \in Range(index.errors) => r \in L)
                => RecordsOf(new, f) = RecordsOf(index, f)
      /\ \A f : (\A r : InFile(r, f[1], f[2]) => r \notin K /\ r \notin L)
                => RecordsOf(new, f) = Nothing
  BY FilteredRecords
<1> HIDE DEF new
<1>5. \A f : f[1] = loc /\ f[2] = path => RecordsOf(new, f) = Nothing
  BY <1>2, <1>4
<1>6. \A f : ~(f[1] = loc /\ f[2] = path) => RecordsOf(new, f) = RecordsOf(index, f)
  BY <1>3, <1>4
<1> QED
  BY <1>1, <1>4, <1>5, <1>6 DEF new

LEMMA RemoveFolderRecords ==
    ASSUME NEW index, IsIndex(index), NEW loc, NEW prefix
    PROVE  /\ IsIndex(RemoveFolderPrefix(index, loc, prefix))
           /\ \A f \in Files : RecordsOf(RemoveFolderPrefix(index, loc, prefix), f)
                 = IF f[1] = loc /\ IsPrefix(prefix, f[2]) THEN Nothing ELSE RecordsOf(index, f)
<1> DEFINE K == {r \in Range(index.defs) : ~InFolder(r, loc, prefix)}
           L == {r \in Range(index.errors) : ~InFolder(r, loc, prefix)}
<1>1. RemoveFolderPrefix(index, loc, prefix) = Filtered(index, K, L)
  BY DEF RemoveFolderPrefix, Filtered, IsIndex
<1>2. ASSUME NEW f, f[1] = loc, IsPrefix(prefix, f[2])
      PROVE  \A r : InFile(r, f[1], f[2]) => r \notin K /\ r \notin L
  BY <1>2 DEF InFile, InFolder
<1>3. ASSUME NEW f, ~(f[1] = loc /\ IsPrefix(prefix, f[2]))
      PROVE  /\ \A r : InFile(r, f[1], f[2]) /\ r \in Range(index.defs) => r \in K
             /\ \A r : InFile(r, f[1], f[2]) /\ r \in Range(index.errors) => r \in L
  BY <1>3 DEF InFile, InFolder
<1> HIDE DEF K, L
<1> DEFINE new == Filtered(index, K, L)
<1>4. /\ IsIndex(new)
      /\ \A f : (\A r : InFile(r, f[1], f[2]) /\ r \in Range(index.defs) => r \in K)
                /\ (\A r : InFile(r, f[1], f[2]) /\ r \in Range(index.errors) => r \in L)
                => RecordsOf(new, f) = RecordsOf(index, f)
      /\ \A f : (\A r : InFile(r, f[1], f[2]) => r \notin K /\ r \notin L)
                => RecordsOf(new, f) = Nothing
  BY FilteredRecords
<1> HIDE DEF new
<1>5. \A f : f[1] = loc /\ IsPrefix(prefix, f[2]) => RecordsOf(new, f) = Nothing
  BY <1>2, <1>4
<1>6. \A f : ~(f[1] = loc /\ IsPrefix(prefix, f[2])) => RecordsOf(new, f) = RecordsOf(index, f)
  BY <1>3, <1>4
<1> QED
  BY <1>1, <1>4, <1>5, <1>6 DEF new

\* A changed file is recorded as in an index of its own, whatever was there before.
LEMMA ChangedRecords ==
    ASSUME NEW index, IsIndex(index), NEW f \in Files, NEW c \in Contents
    PROVE  LET new == ApplyFileChange(index, LocationById(f[1]), f[2], c) IN
           /\ IsIndex(new)
           /\ \A g \in Files : g # f => RecordsOf(new, g) = RecordsOf(index, g)
           /\ RecordsOf(new, f) = [defs |-> AddedDefs(f, c), errors |-> AddedErrors(f, c)]
<1> DEFINE without == RemoveFile(index, f[1], f[2])
           new == ApplyFileChange(index, LocationById(f[1]), f[2], c)
<1>1. c # Unreadable /\ c \in Contents \cup {Unreadable}
  BY EventsAssumption
<1>2. LocationById(f[1]).id = f[1]
  BY FileShape
<1>3. new = AddFile(without, LocationById(f[1]), f[2], c)
  BY <1>1, <1>2 DEF ApplyFileChange, AddFile
<1>4. /\ IsIndex(without) /\ RecordsOf(without, f) = Nothing
      /\ \A g \in Files : g # f => RecordsOf(without, g) = RecordsOf(index, g)
  BY RemoveFileRecords, FilesDiffer
<1> HIDE DEF without, new
<1>5. IsIndex(new)
  BY <1>1, <1>3, <1>4, AddFileIs
<1>6. /\ \A g \in Files : g # f => RecordsOf(new, g) = RecordsOf(without, g)
      /\ RecordsOf(without, f) = Nothing =>
            RecordsOf(new, f) = [defs |-> AddedDefs(f, c), errors |-> AddedErrors(f, c)]
  BY <1>1, <1>3, <1>4, AddFileRecords
<1> QED
  BY <1>4, <1>5, <1>6 DEF new

\* The by-type table is no file's record.
LEMMA RebuiltRecords ==
    ASSUME NEW index, IsIndex(index)
    PROVE  /\ IsIndex(RebuildComputedFields(index))
           /\ \A f : RecordsOf(RebuildComputedFields(index), f) = RecordsOf(index, f)
<1> DEFINE new == RebuildComputedFields(index)
           table == [t \in TypesOf(index.defs) |->
                        {i \in DOMAIN index.defs : index.defs[i].type = t}]
<1>1. new = [index EXCEPT !.byType = table]
  BY DEF RebuildComputedFields
<1> HIDE DEF new, table
<1>2. new = [defs |-> index.defs, errors |-> index.errors, byType |-> table]
  BY <1>1 DEF IsIndex
<1>3. IsIndex(new)
  BY <1>2 DEF IsIndex
<1>4. \A f : RecordsOf(new, f) = RecordsOf(index, f)
  BY <1>2, RecordsAreOwn
<1> QED
  BY <1>3, <1>4 DEF new

-----------------------------------------------------------------------------
(* The scan *)

\* A scan only finds files that are there, in a pack and in a Workshop collection.
LEMMA ScanFinds ==
    ASSUME NEW S, NEW tree, tree.files \subseteq Seq(S), NEW sourceType, NEW gameName
    PROVE  ScanIndexableDefXmlFiles(sourceType, tree, gameName) \subseteq tree.files
<1>1. ASSUME NEW t, NEW shadow, NEW folders
      PROVE  ScanFolders(t, shadow, folders) \subseteq t.files
  BY DEF ScanFolders
<1>2. ScanBaseGame(tree) \subseteq tree.files
  BY <1>1 DEF ScanBaseGame
<1>3. ASSUME NEW t PROVE ScanMod(t, gameName) \subseteq t.files
  BY <1>1 DEF ScanMod
<1>4. ScanSteamWorkshop(tree, gameName) \subseteq tree.files
  <2> DEFINE items == {d[1] : d \in {e \in Range(tree.dirs) : Len(e) = 1}}
             Found(item) == {<<item>> \o p : p \in ScanMod(ItemTree(tree, item), gameName)}
  <2>a. ScanSteamWorkshop(tree, gameName) = UNION {Found(item) : item \in items}
    BY DEF ScanSteamWorkshop
  <2> HIDE DEF Found, items
  <2>b. SUFFICES ASSUME NEW item PROVE Found(item) \subseteq tree.files
    BY <2>a
  <2> SUFFICES ASSUME NEW p \in ScanMod(ItemTree(tree, item), gameName)
               PROVE  <<item>> \o p \in tree.files
    BY DEF Found
  <2>1. ItemTree(tree, item).files = {Tail(q) : q \in {r \in tree.files : Under(<<item>>, r)}}
    BY DEF ItemTree
  <2>2. p \in {Tail(q) : q \in {r \in tree.files : Under(<<item>>, r)}}
    BY <1>3, <2>1
  <2>3. PICK q \in tree.files : Under(<<item>>, q) /\ p = Tail(q)
    BY <2>2
  <2>4. q \in Seq(S) /\ Len(<<item>>) < Len(q) /\ SubSeq(<<item>>, 1, 1) = SubSeq(q, 1, 1)
    BY <2>3 DEF Under, IsStrictPrefix, IsPrefix
  <2>5. Len(<<item>>) = 1 /\ <<item>>[1] = item
    OBVIOUS
  <2>6. Len(q) > 1 /\ Len(q) \in Nat
    BY <2>4, <2>5
  <2>7. SubSeq(<<item>>, 1, 1)[1] = item
    OBVIOUS
  <2>8. SubSeq(q, 1, 1)[1] = q[1]
    BY <2>4, <2>6
  <2>9. item = q[1]
    BY <2>4, <2>7, <2>8
  <2>10. <<q[1]>> \o Tail(q) = q
    BY <2>4, <2>6
  <2> QED
    BY <2>3, <2>9, <2>10
<1> QED
  BY <1>2, <1>3, <1>4 DEF ScanIndexableDefXmlFiles

LEMMA ActivePathsExist ==
    ASSUME NEW loc, NEW p \in ActivePaths(loc)
    PROVE  <<loc, p>> \in Files /\ disk[<<loc, p>>] # Gone
<1> DEFINE tree == TreeOf(disk, loadFolders, loc)
<1>1. tree.files = {f[2] : f \in {g \in Files : g[1] = loc /\ disk[g] # Gone}}
  BY DEF TreeOf
<1>2. tree.files \subseteq Seq(PathNames)
  BY <1>1, FileShape
<1> HIDE DEF tree
<1>3. p \in tree.files
  BY <1>2, ScanFinds DEF ActivePaths, ActivePathsWith, tree
<1>4. PICK f \in Files : f[1] = loc /\ disk[f] # Gone /\ p = f[2]
  BY <1>1, <1>3
<1>5. f = <<loc, p>>
  BY <1>4, FileShape
<1> QED
  BY <1>4, <1>5

-----------------------------------------------------------------------------
(* Events and jobs *)

LocalPaths == {f[2] : f \in Files} \cup Folders \cup {LoadFoldersXml}

Events == [kind : {"Changed", "Deleted", "FolderDeleted"}, loc : LocationIds, path : LocalPaths]

FileEvents == {e \in Events : e.kind # "FolderDeleted"}

FileJobs == [kind : {"FileChanged", "FileDeleted", "FolderDeleted"}, loc : LocationIds,
             path : LocalPaths, gen : Nat]

Jobs == FileJobs \cup [kind : {"FullRebuild"}, loc : LocationIds, path : {<<>>}, gen : Nat]

\* The files an event or a job is about.
Concerns(x, f) ==
    CASE x.kind = "FullRebuild" -> TRUE
      [] x.kind = "FolderDeleted" -> f[1] = x.loc /\ IsPrefix(x.path, f[2])
      [] OTHER -> <<x.loc, x.path>> = f

Tells(events, f) == \E e \in Range(events) : Concerns(e, f)

RecordStep(none, queue, ev) == Record(queue, ev)

Recorded == INSTANCE SequenceFolds WITH op <- RecordStep

\* The debouncer forgets no file: for a file that an event told of one stays.
LEMMA RecordKeepsFiles ==
    ASSUME NEW queue \in Seq(FileEvents), NEW ev \in FileEvents
    PROVE  /\ Record(queue, ev) \in Seq(FileEvents)
           /\ \A f : Tells(queue, f) \/ Concerns(ev, f) => Tells(Record(queue, ev), f)
<1> DEFINE K == {e \in Range(queue) : ~SameFile(e, ev)}
           others == Retain(queue, K)
<1>0. \A e \in FileEvents : e.kind \in {"Changed", "Deleted"}
  BY DEF FileEvents, Events
<1>1. \A f : \A e \in FileEvents : Concerns(e, f) <=> <<e.loc, e.path>> = f
  BY <1>0 DEF Concerns
<1>2. Range(queue) \subseteq FileEvents
  BY DEF Range
<1>3. CASE ev.kind = "Changed" /\ DeletePending(queue, ev)
  <2>1. Record(queue, ev) = queue
    BY <1>3 DEF Record
  <2>2. PICK e \in Range(queue) : e.loc = ev.loc /\ e.path = ev.path
    BY <1>3 DEF DeletePending, SameFile
  <2>3. \A f : Concerns(ev, f) => Concerns(e, f)
    BY <1>1, <1>2, <2>2
  <2> QED
    BY <2>1, <2>3 DEF Tells
<1>4. CASE ~(ev.kind = "Changed" /\ DeletePending(queue, ev))
  <2>1. Record(queue, ev) = Append(others, ev)
    BY <1>4 DEF Record, PendingOther
  <2>2. ASSUME NEW e \in Range(queue), NEW f, Concerns(e, f)
        PROVE  e \in K \/ Concerns(ev, f)
    BY <1>1, <1>2, <2>2 DEF SameFile
  <2>3. K \subseteq Range(queue)
    OBVIOUS
  <2> HIDE DEF K
  <2>4. others \in Seq(FileEvents) /\ Range(others) = Range(queue) \cap K
    BY RetainRange
  <2> HIDE DEF others
  <2>5. Append(others, ev) \in Seq(FileEvents) /\ Range(Append(others, ev)) = Range(others) \cup {ev}
    BY <2>4, AppendRange
  <2> QED
    BY <2>1, <2>2, <2>3, <2>4, <2>5 DEF Tells
<1> QED
  BY <1>3, <1>4

LEMMA RecordAllKeepsFiles ==
    ASSUME NEW queue \in Seq(FileEvents), NEW events \in Seq(FileEvents)
    PROVE  /\ RecordAll(queue, events) \in Seq(FileEvents)
           /\ \A f : Tells(queue, f) \/ Tells(events, f) => Tells(RecordAll(queue, events), f)
<1> DEFINE All(s) == Recorded!Folded(0, queue, s)
           P == {s \in Seq(FileEvents) : \A f : Tells(queue, f) \/ Tells(s, f) => Tells(All(s), f)}
<1>1. Recorded!Steps(0, Seq(FileEvents), FileEvents)
  BY RecordKeepsFiles DEF Recorded!Steps, RecordStep
<1>2. /\ Recorded!Folded(0, queue, <<>>) = queue
      /\ \A s \in Seq(FileEvents) : Recorded!Folded(0, queue, s) \in Seq(FileEvents)
      /\ \A s \in Seq(FileEvents), x \in FileEvents :
            Recorded!Folded(0, queue, Append(s, x)) = RecordStep(0, Recorded!Folded(0, queue, s), x)
  BY <1>1, Recorded!FoldLaws
<1>3. /\ All(<<>>) = queue
      /\ \A s \in Seq(FileEvents) : All(s) \in Seq(FileEvents)
      /\ \A s \in Seq(FileEvents), x \in FileEvents : All(Append(s, x)) = Record(All(s), x)
  BY <1>2 DEF RecordStep
<1>4. \A s : RecordAll(queue, s) = All(s)
  BY DEF RecordAll, Recorded!Folded, RecordStep, FoldLeft, Recorded!FoldLeft,
         MapThenFoldSet, Recorded!MapThenFoldSet, Max, Recorded!Max
<1> HIDE DEF All
<1>5. <<>> \in P
  <2>1. \A f : ~Tells(<<>>, f)
    BY EmptyRange DEF Tells
  <2> QED
    BY <1>3, <2>1
<1>6. ASSUME NEW s \in Seq(FileEvents), NEW x \in FileEvents, s \in P
      PROVE  Append(s, x) \in P
  <2>1. Append(s, x) \in Seq(FileEvents) /\ Range(Append(s, x)) = Range(s) \cup {x}
    BY AppendRange
  <2>2. \A f : Tells(Append(s, x), f) => Tells(s, f) \/ Concerns(x, f)
    BY <2>1 DEF Tells
  <2>3. \A f : Tells(All(s), f) \/ Concerns(x, f) => Tells(Record(All(s), x), f)
    BY <1>3, RecordKeepsFiles
  <2> QED
    BY <1>3, <1>6, <2>1, <2>2, <2>3
<1>7. events \in P
  <2> HIDE DEF P
  <2> QED
    BY <1>5, <1>6, Recorded!SequenceInduction
<1> QED
  BY <1>3, <1>4, <1>7

CoalesceStep(none, jobs, job) == CoalesceJob(jobs, job)

Coalesced == INSTANCE SequenceFolds WITH op <- CoalesceStep

TellsOne(jobs, f) == \E job \in jobs : Concerns(job, f)

\* Coalescing forgets no file either: a job that is dropped is about a file of
\* one that stays.
LEMMA CoalesceKeepsFiles ==
    ASSUME NEW jobs \in SUBSET FileJobs, NEW job \in FileJobs
    PROVE  /\ CoalesceJob(jobs, job) \in SUBSET FileJobs
           /\ \A f : TellsOne(jobs, f) \/ Concerns(job, f) => TellsOne(CoalesceJob(jobs, job), f)
<1>1. \A j \in FileJobs : j.kind \in {"FileChanged", "FileDeleted", "FolderDeleted"}
  BY DEF FileJobs
<1>2. ASSUME NEW j \in FileJobs, NEW f
      PROVE  Concerns(j, f) <=> IF j.kind = "FolderDeleted" THEN f[1] = j.loc /\ IsPrefix(j.path, f[2])
                                ELSE <<j.loc, j.path>> = f
  BY <1>1 DEF Concerns
<1>3. CASE job.kind = "FileChanged"
  <2>1. CASE \E j \in jobs : SameFile(j, job) /\ j.kind # "FolderDeleted"
    <3>1. PICK j \in jobs : j.loc = job.loc /\ j.path = job.path /\ j.kind # "FolderDeleted"
      BY <2>1 DEF SameFile
    <3>2. \A f : Concerns(job, f) => Concerns(j, f)
      BY <1>2, <1>3, <3>1
    <3>3. CoalesceJob(jobs, job) = jobs
      BY <1>3, <2>1 DEF CoalesceJob
    <3> QED
      BY <3>2, <3>3 DEF TellsOne
  <2>2. CASE ~(\E j \in jobs : SameFile(j, job) /\ j.kind # "FolderDeleted")
    <3>1. CoalesceJob(jobs, job) = jobs \cup {job}
      BY <1>3, <2>2 DEF CoalesceJob
    <3> QED
      BY <3>1 DEF TellsOne
  <2> QED
    BY <2>1, <2>2
<1>4. CASE job.kind = "FileDeleted"
  <2>1. CoalesceJob(jobs, job) = {j \in jobs : ~SameFile(j, job) \/ j.kind = "FolderDeleted"} \cup {job}
    BY <1>4 DEF CoalesceJob
  <2>2. ASSUME NEW j \in jobs, NEW f, Concerns(j, f)
        PROVE  ~SameFile(j, job) \/ j.kind = "FolderDeleted" \/ Concerns(job, f)
    BY <1>2, <1>4, <2>2 DEF SameFile
  <2> QED
    BY <2>1, <2>2 DEF TellsOne
<1>5. CASE job.kind = "FolderDeleted"
  <2>1. CoalesceJob(jobs, job) = {j \in jobs : j.kind = "FolderDeleted" \/ ~InJobFolder(j, job)} \cup {job}
    BY <1>5 DEF CoalesceJob
  <2>2. ASSUME NEW j \in jobs, NEW f, Concerns(j, f), j.kind # "FolderDeleted", InJobFolder(j, job)
        PROVE  Concerns(job, f)
    <3>1. <<j.loc, j.path>> = f
      BY <1>2, <2>2
    <3>2. f[1] = j.loc /\ f[2] = j.path
      BY <3>1
    <3>3. j.loc = job.loc /\ IsPrefix(job.path, j.path)
      BY <2>2 DEF InJobFolder, InFolder
    <3> QED
      BY <1>2, <1>5, <3>2, <3>3
  <2> QED
    BY <2>1, <2>2 DEF TellsOne
<1> QED
  BY <1>1, <1>3, <1>4, <1>5

LEMMA CoalesceAllKeepsFiles ==
    ASSUME NEW live \in Seq(FileJobs)
    PROVE  /\ FoldLeft(CoalesceJob, {}, live) \in SUBSET FileJobs
           /\ \A f : Tells(live, f) => TellsOne(FoldLeft(CoalesceJob, {}, live), f)
<1> DEFINE none == {}
           All(s) == Coalesced!Folded(0, none, s)
           P == {s \in Seq(FileJobs) : \A f : Tells(s, f) => TellsOne(All(s), f)}
           V == SUBSET FileJobs
<1>1. Coalesced!Steps(0, V, FileJobs)
  BY CoalesceKeepsFiles DEF Coalesced!Steps, CoalesceStep
<1>2. none \in V
  OBVIOUS
<1>3. \A s : FoldLeft(CoalesceJob, {}, s) = All(s)
  BY DEF Coalesced!Folded, CoalesceStep, FoldLeft, Coalesced!FoldLeft,
         MapThenFoldSet, Coalesced!MapThenFoldSet, Max, Coalesced!Max
<1>4. /\ Coalesced!Folded(0, none, <<>>) = none
      /\ \A s \in Seq(FileJobs) : Coalesced!Folded(0, none, s) \in V
      /\ \A s \in Seq(FileJobs), x \in FileJobs :
            Coalesced!Folded(0, none, Append(s, x)) = CoalesceStep(0, Coalesced!Folded(0, none, s), x)
  <2> HIDE DEF none, V
  <2> QED
    BY <1>1, <1>2, Coalesced!FoldLaws
<1>5. /\ All(<<>>) = {}
      /\ \A s \in Seq(FileJobs) : All(s) \in SUBSET FileJobs
      /\ \A s \in Seq(FileJobs), x \in FileJobs : All(Append(s, x)) = CoalesceJob(All(s), x)
  BY <1>4 DEF CoalesceStep
<1> HIDE DEF All
<1>6. <<>> \in P
  <2>1. \A f : ~Tells(<<>>, f)
    BY EmptyRange DEF Tells
  <2> QED
    BY <2>1
<1>7. ASSUME NEW s \in Seq(FileJobs), NEW x \in FileJobs, s \in P
      PROVE  Append(s, x) \in P
  <2>1. Append(s, x) \in Seq(FileJobs) /\ Range(Append(s, x)) = Range(s) \cup {x}
    BY AppendRange
  <2>2. \A f : Tells(Append(s, x), f) => Tells(s, f) \/ Concerns(x, f)
    BY <2>1 DEF Tells
  <2>3. \A f : TellsOne(All(s), f) \/ Concerns(x, f) => TellsOne(CoalesceJob(All(s), x), f)
    BY <1>5, CoalesceKeepsFiles
  <2> QED
    BY <1>5, <1>7, <2>1, <2>2, <2>3
<1>8. live \in P
  <2> HIDE DEF P
  <2> QED
    BY <1>6, <1>7, Coalesced!SequenceInduction
<1> QED
  BY <1>3, <1>5, <1>8

\* A batch becomes one full rebuild, or file jobs for every file it told of.
LEMMA CoalesceGives ==
    ASSUME NEW batch \in Seq(Jobs), NEW gen
    PROVE  \/ \E job \in Coalesce(batch, gen) : job.kind = "FullRebuild"
           \/ /\ Coalesce(batch, gen) \in SUBSET FileJobs
              /\ \A f : \A job \in Range(batch) :
                    job.gen = gen /\ Concerns(job, f) => TellsOne(Coalesce(batch, gen), f)
<1> DEFINE L == {job \in Range(batch) : job.gen = gen}
           live == Retain(batch, L)
<1>0. L \subseteq Range(batch)
  OBVIOUS
<1> HIDE DEF L
<1>1. live \in Seq(Jobs) /\ Range(live) = L
  <2>1. live \in Seq(Jobs) /\ Range(live) = Range(batch) \cap L
    BY RetainRange
  <2> QED
    BY <1>0, <2>1
<1>2. CASE \E job \in Range(live) : job.kind = "FullRebuild"
  <2>1. Coalesce(batch, gen) = {CHOOSE job \in Range(live) : job.kind = "FullRebuild"}
    BY <1>2 DEF Coalesce, L
  <2> QED
    BY <1>2, <2>1
<1>3. CASE ~(\E job \in Range(live) : job.kind = "FullRebuild")
  <2> DEFINE all == FoldLeft(CoalesceJob, {}, live)
  <2>1. Coalesce(batch, gen) = all
    BY <1>3 DEF Coalesce, L
  <2> HIDE DEF live
  <2>2. Range(live) \subseteq FileJobs
    BY <1>1, <1>3 DEF Jobs, Range
  <2>3. live \in Seq(FileJobs)
    BY <1>1, <2>2 DEF Range
  <2>4. all \in SUBSET FileJobs /\ \A f : Tells(live, f) => TellsOne(all, f)
    BY <2>3, CoalesceAllKeepsFiles
  <2> HIDE DEF all
  <2>5. ASSUME NEW f, NEW job \in Range(batch), job.gen = gen, Concerns(job, f)
        PROVE  Tells(live, f)
    BY <1>1, <2>5 DEF Tells, L
  <2> QED
    BY <2>1, <2>4, <2>5
<1> QED
  BY <1>2, <1>3

-----------------------------------------------------------------------------
(* No text of the past: the invariant *)

IsWorker(w) ==
    w = [pc |-> w.pc, gen |-> w.gen, project |-> w.project, jobs |-> w.jobs,
         locations |-> w.locations, files |-> w.files, index |-> w.index]

DiskTyped ==
    /\ disk \in [Files -> Contents \cup {Gone}]
    /\ away = [d \in Folders |-> away[d]]
    /\ \A d \in Folders : away[d] # <<>> => away[d] \in [FilesIn(d) -> Contents \cup {Gone}]

WorkerTyped ==
    /\ IsWorker(worker)
    /\ worker.pc \in {"idle", "files", "rebuild"}
    /\ worker.jobs \in SUBSET FileJobs
    /\ IsIndex(worker.index)

EventShapes ==
    /\ DiskTyped
    /\ generation \in Nat
    /\ watcherQueue \in Seq(Events) /\ pending \in Seq(FileEvents) /\ jobQueue \in Seq(Jobs)
    /\ WorkerTyped /\ IsIndex(published.index)

\* The pipeline still has something to do about the file.
Owed(f) ==
    \/ Tells(watcherQueue, f) \/ Tells(pending, f)
    \/ \E job \in Range(jobQueue) : job.gen = generation /\ Concerns(job, f)

\* A rebuild has read the file or has seen that it is not to be read.
Visited(f) ==
    f[1] \notin {l.id : l \in Range(worker.locations)} /\ f \notin Range(worker.files)

SaysNow(index, f) ==
    \/ RecordsOf(index, f).defs = <<>>
    \/ disk[f] # Gone /\ RecordsOf(index, f) = Fresh(f)

Settled(f) ==
    \/ worker.pc = "idle" /\ SaysNow(published.index, f)
    \/ worker.pc = "files" /\ (TellsOne(worker.jobs, f) \/ SaysNow(worker.index, f))
    \/ worker.pc = "rebuild" /\ (~Visited(f) \/ SaysNow(worker.index, f))

\* Of every file the pipeline has something to do, or the index that the worker
\* publishes next says what is on disk or nothing.
FilesSettled == \A f \in Files : Owed(f) \/ Settled(f)

\* A rebuild visits every location and every file once.
Rebuilding ==
    worker.pc = "rebuild" =>
        /\ worker.locations \in Seq(Range(Locations)) /\ IsInjective(worker.locations)
        /\ worker.files \in Seq(Files) /\ IsInjective(worker.files)
        /\ \A l \in Range(worker.locations), f \in Range(worker.files) : f[1] # l.id
        /\ \A f \in Files : ~Visited(f) => RecordsOf(worker.index, f) = Nothing

\* Work begun under settings of the past is followed by a full rebuild.
Superseded ==
    worker.pc # "idle" /\ worker.gen # generation =>
        \E job \in Range(jobQueue) : job.gen = generation /\ job.kind = "FullRebuild"

TextInv == EventShapes /\ Rebuilding /\ Superseded /\ FilesSettled

-----------------------------------------------------------------------------
(* Steps of the environment *)

LEMMA FreshIs ==
    ASSUME EventShapes, NEW f \in Files
    PROVE  /\ ContentOf(f) \in Contents \cup {Unreadable}
           /\ Fresh(f) = [defs |-> AddedDefs(f, ContentOf(f)), errors |-> AddedErrors(f, ContentOf(f))]
<1> DEFINE c == ContentOf(f)
           new == AddFile(EmptyIndex, LocationById(f[1]), f[2], c)
<1>1. c \in Contents \cup {Unreadable}
  BY DEF EventShapes, DiskTyped, ContentOf
<1>2. IsIndex(EmptyIndex) /\ RecordsOf(EmptyIndex, f) = Nothing
  BY EmptyRecords
<1> HIDE DEF c
<1>3. RecordsOf(new, f) = [defs |-> AddedDefs(f, c), errors |-> AddedErrors(f, c)]
  BY <1>1, <1>2, AddFileRecords
<1>4. Fresh(f) = RecordsOf(new, f)
  BY DEF Fresh, c
<1> QED
  BY <1>1, <1>3, <1>4 DEF c

\* Whatever happens to the files the pipeline hears of, and to files that come into
\* being, the index says nothing more of the past.
LEMMA EnvironmentKeeps ==
    ASSUME EventShapes, Rebuilding, FilesSettled, UNCHANGED <<worker, published>>,
           \A f \in Files : Owed(f) => Owed(f)',
           \A f \in Files : Owed(f)' \/ disk'[f] = disk[f] \/ disk[f] = Gone
    PROVE  Rebuilding' /\ FilesSettled'
<1>1. Rebuilding'
  BY DEF Rebuilding, Visited
<1>2. ASSUME NEW f \in Files, NEW index, ~Owed(f)', SaysNow(index, f)
      PROVE  SaysNow(index, f)'
  <2>1. CASE disk'[f] = disk[f]
    <3>1. ContentOf(f)' = ContentOf(f)
      BY <2>1 DEF ContentOf
    <3>2. Fresh(f)' = Fresh(f)
      BY <3>1 DEF Fresh
    <3> QED
      BY <1>2, <2>1, <3>2 DEF SaysNow
  <2>2. CASE disk[f] = Gone
    BY <1>2, <2>2 DEF SaysNow
  <2> QED
    BY <1>2, <2>1, <2>2
<1>3. ASSUME NEW f \in Files, ~Owed(f)'
      PROVE  Settled(f)'
  <2>1. Settled(f)
    BY <1>3 DEF FilesSettled
  <2>2. Visited(f)' <=> Visited(f)
    BY DEF Visited
  <2>3. /\ SaysNow(published.index, f) => SaysNow(published.index, f)'
        /\ SaysNow(worker.index, f) => SaysNow(worker.index, f)'
    BY <1>2, <1>3
  <2> QED
    BY <2>1, <2>2, <2>3 DEF Settled
<1> QED
  BY <1>1, <1>3 DEF FilesSettled

LEMMA ConcatRange ==
    ASSUME NEW S, NEW s \in Seq(S), NEW t \in Seq(S)
    PROVE  s \o t \in Seq(S) /\ Range(s \o t) = Range(s) \cup Range(t)
<1> DEFINE P == {u \in Seq(S) : Range(s \o u) = Range(s) \cup Range(u)}
<1>1. <<>> \in P
  <2>1. s \o <<>> = s
    OBVIOUS
  <2> QED
    BY <2>1, EmptyRange
<1>2. ASSUME NEW u \in Seq(S), NEW x \in S, u \in P
      PROVE  Append(u, x) \in P
  <2>1. s \o Append(u, x) = Append(s \o u, x) /\ s \o u \in Seq(S)
    OBVIOUS
  <2>2. Range(Append(s \o u, x)) = Range(s \o u) \cup {x}
    <3> DEFINE v == s \o u
    <3>1. v \in Seq(S)
      BY <2>1
    <3> HIDE DEF v
    <3>2. Range(Append(v, x)) = Range(v) \cup {x}
      BY <3>1, AppendRange
    <3> QED
      BY <3>2 DEF v
  <2>3. Append(u, x) \in Seq(S) /\ Range(Append(u, x)) = Range(u) \cup {x}
    BY AppendRange
  <2>4. Range(s \o u) = Range(s) \cup Range(u)
    BY <1>2
  <2>5. Range(s \o Append(u, x)) = Range(s) \cup Range(Append(u, x))
    BY <2>1, <2>2, <2>3, <2>4
  <2> QED
    BY <2>3, <2>5
<1>3. t \in P
  <2> HIDE DEF P
  <2> QED
    BY <1>1, <1>2, Kept!SequenceInduction
<1> QED
  BY <1>3

LEMMA EventTyped ==
    /\ Locations[1].id \in LocationIds
    /\ \A f \in Files : f[1] \in LocationIds /\ f[2] \in LocalPaths
    /\ \A kind \in {"Changed", "Deleted", "FolderDeleted"}, loc \in LocationIds, path \in LocalPaths :
          Event(kind, loc, path) \in Events
    /\ \A kind \in {"FileChanged", "FileDeleted", "FolderDeleted"}, loc \in LocationIds,
          path \in LocalPaths, gen \in Nat : Job(kind, loc, path, gen) \in FileJobs
    /\ \A gen \in Nat : RebuildJob(gen) \in Jobs
<1>1. Locations[1].id \in LocationIds
  <2>1. Locations \in Seq(Range(Locations)) /\ Locations # <<>>
    BY EventsAssumption
  <2>2. Locations[1] \in Range(Locations)
    BY <2>1
  <2> QED
    BY <2>2 DEF LocationIds
<1>2. \A f \in Files : f[1] \in LocationIds /\ f[2] \in LocalPaths
  BY FileShape DEF LocalPaths
<1> QED
  BY <1>1, <1>2 DEF Event, Events, Job, FileJobs, Jobs, RebuildJob

\* A step that changes files, sends events about those it takes the text of, and
\* may send jobs.
LEMMA AnnouncedStep ==
    ASSUME TextInv, UNCHANGED <<worker, published, pending, generation>>, DiskTyped',
           NEW events \in Seq(Events), watcherQueue' = watcherQueue \o events,
           jobQueue' \in Seq(Jobs), Range(jobQueue) \subseteq Range(jobQueue'),
           \A f \in Files : Tells(events, f) \/ disk'[f] = disk[f] \/ disk[f] = Gone
    PROVE  TextInv'
<1>1. /\ EventShapes /\ Rebuilding /\ Superseded /\ FilesSettled
      /\ watcherQueue \in Seq(Events)
  BY DEF TextInv, EventShapes
<1>2. watcherQueue' \in Seq(Events) /\ Range(watcherQueue') = Range(watcherQueue) \cup Range(events)
  BY <1>1, ConcatRange
<1>3. EventShapes'
  BY <1>1, <1>2 DEF EventShapes, WorkerTyped
<1>4. Superseded'
  BY <1>1 DEF Superseded
<1>5. \A f : Owed(f) => Owed(f)'
  BY <1>2 DEF Owed, Tells
<1>6. \A f : Tells(events, f) => Owed(f)'
  BY <1>2 DEF Owed, Tells
<1>7. Rebuilding' /\ FilesSettled'
  BY <1>1, <1>5, <1>6, EnvironmentKeeps
<1> QED
  BY <1>3, <1>4, <1>7 DEF TextInv

LEMMA OneEvent ==
    ASSUME NEW e \in Events
    PROVE  /\ <<e>> \in Seq(Events)
           /\ \A f : Concerns(e, f) => Tells(<<e>>, f)
<1>1. Range(<<e>>) = {e}
  BY DEF Range
<1> QED
  BY <1>1 DEF Tells

LEMMA OneMoreJob ==
    ASSUME EventShapes, NEW job \in Jobs
    PROVE  /\ Append(jobQueue, job) \in Seq(Jobs)
           /\ Range(Append(jobQueue, job)) = Range(jobQueue) \cup {job}
<1>1. jobQueue \in Seq(Jobs)
  BY DEF EventShapes
<1> QED
  BY <1>1, AppendRange

\* A change or a deletion of one file, by the user or by a command.
LEMMA OneFileStep ==
    ASSUME TextInv, NEW f \in Files, NEW c \in Contents \cup {Gone},
           NEW kind \in {"Changed", "Deleted"},
           disk' = [disk EXCEPT ![f] = c], Send(<<Event(kind, f[1], f[2])>>),
           UNCHANGED <<away, worker, published, pending, generation>>,
           jobQueue' \in Seq(Jobs), Range(jobQueue) \subseteq Range(jobQueue')
    PROVE  TextInv'
<1> DEFINE e == Event(kind, f[1], f[2])
<1>1. e \in Events
  BY EventTyped
<1>2. Concerns(e, f)
  BY FileShape DEF Event, Concerns
<1>3. watcherQueue' = watcherQueue \o <<e>>
  BY DEF Send
<1> HIDE DEF e
<1>4. <<e>> \in Seq(Events) /\ Tells(<<e>>, f)
  BY <1>1, <1>2, OneEvent
<1>5. disk \in [Files -> Contents \cup {Gone}]
  BY DEF TextInv, EventShapes, DiskTyped
<1>6. DiskTyped'
  BY <1>5 DEF TextInv, EventShapes, DiskTyped
<1>7. \A g \in Files : Tells(<<e>>, g) \/ disk'[g] = disk[g]
  BY <1>4, <1>5
<1> DEFINE events == <<e>>
<1> HIDE DEF events
<1> QED
  BY <1>3, <1>4, <1>6, <1>7, AnnouncedStep DEF events

LEMMA WriteKeeps == ASSUME TextInv, NEW f \in Files, NEW c \in Contents, Write(f, c) PROVE TextInv'
<1>1. EventShapes /\ jobQueue \in Seq(Jobs)
  BY DEF TextInv, EventShapes
<1> QED
  BY <1>1, OneFileStep DEF Write

LEMMA DeleteKeeps == ASSUME TextInv, NEW f \in Files, Delete(f) PROVE TextInv'
<1>1. EventShapes /\ jobQueue \in Seq(Jobs)
  BY DEF TextInv, EventShapes
<1> QED
  BY <1>1, OneFileStep DEF Delete

LEMMA SaveKeeps == ASSUME TextInv, NEW f \in Files, NEW c \in Contents, Save(f, c) PROVE TextInv'
<1>1. EventShapes /\ generation \in Nat
  BY DEF TextInv, EventShapes
<1>2. Job("FileChanged", f[1], f[2], generation) \in Jobs
  BY <1>1, EventTyped DEF Jobs
<1>3. jobQueue' \in Seq(Jobs) /\ Range(jobQueue) \subseteq Range(jobQueue')
  BY <1>1, <1>2, OneMoreJob DEF Save
<1> QED
  BY <1>3, OneFileStep DEF Save

LEMMA DeleteFileKeeps == ASSUME TextInv, NEW f \in Files, DeleteFile(f) PROVE TextInv'
<1>1. EventShapes /\ generation \in Nat
  BY DEF TextInv, EventShapes
<1>2. Job("FileDeleted", f[1], f[2], generation) \in Jobs
  BY <1>1, EventTyped DEF Jobs
<1>3. jobQueue' \in Seq(Jobs) /\ Range(jobQueue) \subseteq Range(jobQueue')
  BY <1>1, <1>2, OneMoreJob DEF DeleteFile
<1> QED
  BY <1>3, OneFileStep DEF DeleteFile

LEMMA FolderEvent ==
    ASSUME NEW d \in Folders
    PROVE  LET e == Event("FolderDeleted", Locations[1].id, d) IN
           e \in Events /\ \A f \in FilesIn(d) : Concerns(e, f)
<1>1. d \in LocalPaths
  BY DEF LocalPaths
<1>2. \A f \in FilesIn(d) : f[1] = Locations[1].id /\ IsPrefix(d, f[2])
  BY DEF FilesIn, Under, IsStrictPrefix
<1> QED
  BY <1>1, <1>2, EventTyped DEF Concerns, Event

LEMMA MoveFolderOutKeeps ==
    ASSUME TextInv, NEW d \in Folders, MoveFolderOut(d) PROVE TextInv'
<1> DEFINE e == Event("FolderDeleted", Locations[1].id, d)
           events == <<e>>
<1>1. e \in Events /\ \A f \in FilesIn(d) : Concerns(e, f)
  BY FolderEvent
<1>2. events \in Seq(Events) /\ \A f : Concerns(e, f) => Tells(events, f)
  BY <1>1, OneEvent
<1>3. watcherQueue' = watcherQueue \o events
  BY DEF MoveFolderOut, Send
<1>4. EventShapes /\ DiskTyped /\ jobQueue \in Seq(Jobs)
  BY DEF TextInv, EventShapes
<1>5. \A f \in FilesIn(d) : f \in Files
  BY DEF FilesIn
<1>6. DiskTyped'
  BY <1>4, <1>5 DEF MoveFolderOut, DiskTyped
<1>7. \A f \in Files : f \in FilesIn(d) \/ disk'[f] = disk[f]
  BY DEF MoveFolderOut
<1>8. UNCHANGED <<worker, published, pending, generation, jobQueue>>
  BY DEF MoveFolderOut
<1> HIDE DEF events, e
<1> QED
  BY <1>1, <1>2, <1>3, <1>4, <1>6, <1>7, <1>8, AnnouncedStep

LEMMA MoveFolderInKeeps ==
    ASSUME TextInv, NEW d \in Folders, MoveFolderIn(d) PROVE TextInv'
<1> DEFINE events == <<>>
<1>1. events \in Seq(Events) /\ EventShapes /\ DiskTyped /\ jobQueue \in Seq(Jobs)
      /\ watcherQueue \in Seq(Events)
  BY DEF TextInv, EventShapes
<1>2. watcherQueue' = watcherQueue \o events
  BY <1>1 DEF MoveFolderIn
<1>3. \A f \in FilesIn(d) : f \in Files /\ disk[f] = Gone
  BY DEF FilesIn, MoveFolderIn
<1>4. away[d] \in [FilesIn(d) -> Contents \cup {Gone}]
  BY <1>1 DEF DiskTyped, MoveFolderIn
<1>5. disk' \in [Files -> Contents \cup {Gone}]
  BY <1>1, <1>4 DEF DiskTyped, MoveFolderIn
<1>6. DiskTyped'
  BY <1>1, <1>5 DEF DiskTyped, MoveFolderIn
<1>7. \A f \in Files : disk'[f] = disk[f] \/ disk[f] = Gone
  BY <1>3 DEF MoveFolderIn
<1>8. UNCHANGED <<worker, published, pending, generation, jobQueue>>
  BY DEF MoveFolderIn
<1> HIDE DEF events
<1> QED
  BY <1>1, <1>2, <1>6, <1>7, <1>8, AnnouncedStep

LEMMA DeleteFolderKeeps ==
    ASSUME TextInv, NEW d \in Folders, DeleteFolder(d) PROVE TextInv'
<1> DEFINE K == {f \in FilesIn(d) : disk[f] # Gone}
           gone == Retain(FileOrder, K)
           deleted == [i \in DOMAIN gone |-> Event("Deleted", gone[i][1], gone[i][2])]
           e == Event("FolderDeleted", Locations[1].id, d)
           events == Append(deleted, e)
<1>1. e \in Events /\ \A f \in FilesIn(d) : Concerns(e, f)
  BY FolderEvent
<1>2. watcherQueue' = watcherQueue \o events
  BY DEF DeleteFolder, Send
<1>3. FileOrder \in Seq(Files)
  BY EventsAssumption DEF Files, Range
<1>4. gone \in Seq(Files)
  <2> HIDE DEF K
  <2> QED
    BY <1>3, RetainRange
<1>5. deleted \in Seq(Events)
  <2> HIDE DEF gone
  <2>1. \A i \in DOMAIN gone : Event("Deleted", gone[i][1], gone[i][2]) \in Events
    BY <1>4, EventTyped
  <2> QED
    BY <1>4, <2>1
<1> HIDE DEF deleted, e
<1>6. events \in Seq(Events) /\ Range(events) = Range(deleted) \cup {e}
  BY <1>1, <1>5, AppendRange
<1>7. \A f \in FilesIn(d) : Tells(events, f)
  BY <1>1, <1>6 DEF Tells
<1>8. EventShapes /\ DiskTyped /\ generation \in Nat
  BY DEF TextInv, EventShapes
<1>9. DiskTyped'
  BY <1>8 DEF DeleteFolder, DiskTyped
<1>10. \A f \in Files : f \in FilesIn(d) \/ disk'[f] = disk[f]
  BY DEF DeleteFolder
<1>11. UNCHANGED <<worker, published, pending, generation>>
  BY DEF DeleteFolder
<1>12. Job("FolderDeleted", Locations[1].id, d, generation) \in Jobs
  BY <1>8, EventTyped DEF Jobs, LocalPaths
<1>13. jobQueue' \in Seq(Jobs) /\ Range(jobQueue) \subseteq Range(jobQueue')
  BY <1>8, <1>12, OneMoreJob DEF DeleteFolder
<1> HIDE DEF events
<1> QED
  BY <1>2, <1>6, <1>7, <1>9, <1>10, <1>11, <1>13, AnnouncedStep

LEMMA LoadFoldersKeep ==
    ASSUME TextInv, RemoveLoadFolders \/ \E blocks \in BlockChoices : WriteLoadFolders(blocks)
    PROVE  TextInv'
<1>1. PICK kind \in {"Changed", "Deleted"} :
         watcherQueue' = watcherQueue \o <<Event(kind, Locations[1].id, LoadFoldersXml)>>
  BY DEF RemoveLoadFolders, WriteLoadFolders, Send
<1> DEFINE e == Event(kind, Locations[1].id, LoadFoldersXml)
           events == <<e>>
<1>2. e \in Events
  BY EventTyped DEF LocalPaths
<1>3. events \in Seq(Events)
  BY <1>2
<1>4. UNCHANGED <<disk, away, worker, published, pending, generation, jobQueue>>
  BY DEF RemoveLoadFolders, WriteLoadFolders
<1>5. EventShapes /\ DiskTyped /\ jobQueue \in Seq(Jobs)
  BY DEF TextInv, EventShapes
<1>6. DiskTyped'
  BY <1>4, <1>5 DEF DiskTyped
<1>7. watcherQueue' = watcherQueue \o events
  BY <1>1
<1> HIDE DEF events
<1> QED
  BY <1>3, <1>4, <1>5, <1>6, <1>7, AnnouncedStep

\* Other settings: everything is to be built again.
LEMMA SetActiveProjectKeeps ==
    ASSUME TextInv, NEW p \in Projects, SetActiveProject(p) PROVE TextInv'
<1>1. EventShapes /\ DiskTyped /\ Rebuilding /\ FilesSettled /\ generation \in Nat
  BY DEF TextInv, EventShapes
<1> DEFINE job == RebuildJob(generation + 1)
<1>2. job \in Jobs /\ job.gen = generation + 1 /\ job.kind = "FullRebuild"
  BY <1>1, EventTyped DEF RebuildJob, Job
<1>3. generation' = generation + 1 /\ jobQueue' = Append(jobQueue, job)
  BY DEF SetActiveProject
<1> HIDE DEF job
<1>4. jobQueue' \in Seq(Jobs) /\ job \in Range(jobQueue')
  BY <1>1, <1>2, <1>3, OneMoreJob
<1>5. UNCHANGED <<disk, away, watcherQueue, worker, published, pending>>
  BY DEF SetActiveProject
<1>6. EventShapes'
  BY <1>1, <1>3, <1>4, <1>5 DEF EventShapes, DiskTyped, WorkerTyped
<1>7. Superseded'
  BY <1>2, <1>3, <1>4 DEF Superseded
<1>8. \A f : Owed(f)'
  BY <1>2, <1>3, <1>4 DEF Owed, Concerns
<1>9. Rebuilding' /\ FilesSettled'
  BY <1>1, <1>5, <1>8, EnvironmentKeeps
<1> QED
  BY <1>6, <1>7, <1>9 DEF TextInv

-----------------------------------------------------------------------------
(* Steps of the worker *)

LEMMA IdleShape ==
    /\ IdleWorker.pc = "idle" /\ IdleWorker.jobs = {} /\ IdleWorker.index = EmptyIndex
    /\ IsWorker(IdleWorker)
  BY DEF IdleWorker, IsWorker

\* The worker is done, with an index published that says nothing of the past.
LEMMA WorkerRests ==
    ASSUME WorkerDone
    PROVE  WorkerTyped' /\ Rebuilding' /\ Superseded'
<1>1. worker' = IdleWorker
  BY DEF WorkerDone
<1>2. worker'.pc = "idle" /\ worker'.jobs = {} /\ worker'.index = EmptyIndex /\ IsWorker(worker')
  BY <1>1, IdleShape
<1> QED
  BY <1>2, EmptyRecords DEF WorkerTyped, Rebuilding, Superseded

\* A rebuild begins with nothing and with everything to read.
LEMMA RebuildBegins ==
    ASSUME NEW project, StartRebuild(project), UNCHANGED generation
    PROVE  WorkerTyped' /\ Rebuilding' /\ Superseded' /\ \A f : Settled(f)'
<1> DEFINE locations == IncludedLocations(Locations, project)
           K == {l \in Range(Locations) : l.kind = "Source" \/ l.id = project}
<1>1. worker' = [pc |-> "rebuild", gen |-> generation, project |-> project, jobs |-> {},
                 locations |-> locations, files |-> <<>>, index |-> EmptyIndex]
  BY DEF StartRebuild, IdleWorker
<1>2. Locations \in Seq(Range(Locations)) /\ IsInjective(Locations)
  BY EventsAssumption DEF IsInjective
<1>3. locations = Retain(Locations, K)
  BY DEF IncludedLocations
<1> HIDE DEF locations, K
<1>4. locations \in Seq(Range(Locations)) /\ IsInjective(locations)
  BY <1>2, <1>3, RetainRange, RetainInjective
<1>5. /\ worker'.pc = "rebuild" /\ worker'.gen = generation' /\ worker'.jobs = {}
      /\ worker'.locations = locations /\ worker'.files = <<>> /\ worker'.index = EmptyIndex
      /\ IsWorker(worker')
  BY <1>1 DEF IsWorker
<1>6. \A f : RecordsOf(EmptyIndex, f) = Nothing
  BY EmptyRecords
<1>7. WorkerTyped'
  BY <1>5, EmptyRecords DEF WorkerTyped
<1>8. Superseded'
  BY <1>5 DEF Superseded
<1>9. \A f : Settled(f)'
  BY <1>5, <1>6 DEF Settled, SaysNow, Nothing
<1>10. Rebuilding'
  <2> DEFINE none == <<>>
  <2>1. none \in Seq(Files) /\ IsInjective(none) /\ Range(none) = {}
    BY EmptyRange DEF IsInjective
  <2>2. worker'.files = none
    BY <1>5
  <2> HIDE DEF none
  <2> QED
    BY <1>4, <1>5, <1>6, <2>1, <2>2 DEF Rebuilding
<1> QED
  BY <1>7, <1>8, <1>9, <1>10

LEMMA SameDiskSaysSame ==
    ASSUME UNCHANGED disk
    PROVE  /\ \A index, f : SaysNow(index, f)' <=> SaysNow(index, f)
           /\ \A f : Fresh(f)' = Fresh(f)
<1>1. \A f : ContentOf(f)' = ContentOf(f)
  BY DEF ContentOf
<1>2. \A f : Fresh(f)' = Fresh(f)
  BY <1>1 DEF Fresh
<1> QED
  BY <1>2 DEF SaysNow

LEMMA WorkerSaysNow ==
    ASSUME UNCHANGED disk, NEW f, NEW index, SaysNow(index, f), worker'.index = index
    PROVE  SaysNow(worker.index, f)'
  BY SameDiskSaysSame DEF SaysNow

\* A batch is worked off from the published index or ends in a rebuild; either way
\* the files it told of are settled.
LEMMA BatchBegins ==
    ASSUME TextInv, worker.pc = "idle", NEW batch \in Seq(Jobs),
           ProcessBatch(Coalesce(batch, generation)), UNCHANGED <<disk, generation, published>>
    PROVE  /\ WorkerTyped' /\ Rebuilding' /\ Superseded'
           /\ \A f : \/ \E job \in Range(batch) : job.gen = generation /\ Concerns(job, f)
                     \/ SaysNow(published.index, f)
                     => Settled(f)'
<1> DEFINE jobs == Coalesce(batch, generation)
           Told(f) == \E job \in Range(batch) : job.gen = generation /\ Concerns(job, f)
<1>1. \/ \E job \in jobs : job.kind = "FullRebuild"
      \/ jobs \in SUBSET FileJobs /\ \A f : Told(f) => TellsOne(jobs, f)
  BY CoalesceGives
<1>2. ProcessBatch(jobs) /\ WorkerTyped /\ Superseded /\ IsIndex(published.index)
  BY DEF TextInv, EventShapes
<1> HIDE DEF jobs, Told
<1>3. \A f : SaysNow(published.index, f)' <=> SaysNow(published.index, f)
  BY SameDiskSaysSame
<1>4. SUFFICES /\ WorkerTyped' /\ Rebuilding' /\ Superseded'
               /\ \A f : Told(f) \/ SaysNow(published.index, f) => Settled(f)'
  BY DEF Told
<1>5. CASE StartRebuild(active)
  BY <1>5, RebuildBegins
<1>6. CASE jobs = {}
  <2>1. worker' = worker
    BY <1>2, <1>6 DEF ProcessBatch
  <2>2. \A f : ~Told(f)
    BY <1>1, <1>6 DEF TellsOne
  <2>3. \A f : SaysNow(published.index, f) => Settled(f)'
    BY <1>3, <2>1 DEF Settled
  <2> QED
    BY <1>2, <2>1, <2>2, <2>3 DEF WorkerTyped, Rebuilding, Superseded
<1>7. CASE jobs # {} /\ ~StartRebuild(active)
  <2>1. StartFiles(jobs) /\ jobs \in SUBSET FileJobs /\ \A f : Told(f) => TellsOne(jobs, f)
    BY <1>1, <1>2, <1>7 DEF ProcessBatch
  <2>2. worker' = [IdleWorker EXCEPT !.pc = "files", !.gen = generation, !.project = active,
                                     !.jobs = jobs, !.index = published.index]
    BY <1>7, <2>1 DEF StartFiles
  <2>3. worker' = [pc |-> "files", gen |-> generation, project |-> active, jobs |-> jobs,
                   locations |-> <<>>, files |-> <<>>, index |-> published.index]
    BY <2>2 DEF IdleWorker
  <2>4. /\ worker'.pc = "files" /\ worker'.gen = generation' /\ worker'.jobs = jobs
        /\ worker'.index = published'.index /\ worker'.index = published.index /\ IsWorker(worker')
    BY <2>3 DEF IsWorker
  <2>5. WorkerTyped'
    BY <1>2, <2>1, <2>4 DEF WorkerTyped
  <2>6. Rebuilding' /\ Superseded'
    BY <2>4 DEF Rebuilding, Superseded
  <2>7. \A f : SaysNow(published.index, f) => SaysNow(worker.index, f)'
    BY <1>3, <2>4
  <2>8. \A f : Told(f) => TellsOne(worker.jobs, f)'
    BY <2>1, <2>4
  <2> QED
    BY <2>4, <2>5, <2>6, <2>7, <2>8 DEF Settled
<1> QED
  BY <1>5, <1>6, <1>7

LEMMA ReceiveJobsKeeps == ASSUME TextInv, ReceiveJobs PROVE TextInv'
<1>1. /\ EventShapes /\ FilesSettled /\ worker.pc = "idle" /\ jobQueue \in Seq(Jobs)
      /\ ProcessBatch(Coalesce(jobQueue, generation))
      /\ UNCHANGED <<disk, away, generation, watcherQueue, pending, published>>
      /\ jobQueue' = <<>>
  BY DEF TextInv, EventShapes, ReceiveJobs, fsVars
<1>2. /\ WorkerTyped' /\ Rebuilding' /\ Superseded'
      /\ \A f : \/ \E job \in Range(jobQueue) : job.gen = generation /\ Concerns(job, f)
                \/ SaysNow(published.index, f)
                => Settled(f)'
  BY <1>1, BatchBegins
<1>3. EventShapes'
  BY <1>1, <1>2 DEF EventShapes, DiskTyped
<1>4. FilesSettled'
  <2> SUFFICES ASSUME NEW f \in Files, ~Owed(f)' PROVE Settled(f)'
    BY DEF FilesSettled
  <2>1. ~Tells(watcherQueue, f) /\ ~Tells(pending, f)
    BY <1>1 DEF Owed
  <2>2. CASE \E job \in Range(jobQueue) : job.gen = generation /\ Concerns(job, f)
    BY <1>2, <2>2
  <2>3. CASE ~(\E job \in Range(jobQueue) : job.gen = generation /\ Concerns(job, f))
    <3>1. Settled(f)
      BY <1>1, <2>1, <2>3 DEF FilesSettled, Owed
    <3>2. SaysNow(published.index, f)
      BY <1>1, <3>1 DEF Settled
    <3> QED
      BY <1>2, <3>2
  <2> QED
    BY <2>2, <2>3
<1> QED
  BY <1>2, <1>3, <1>4 DEF TextInv

LEMMA ReceiveEventsKeeps == ASSUME TextInv, ReceiveEvents PROVE TextInv'
<1> DEFINE F == {ev \in Range(watcherQueue) : ev.kind # "FolderDeleted"}
           D == {ev \in Range(watcherQueue) : ev.kind = "FolderDeleted"}
           files == Retain(watcherQueue, F)
           folders == Retain(watcherQueue, D)
           batch == [i \in DOMAIN folders |->
                        Job("FolderDeleted", folders[i].loc, folders[i].path, generation)]
<1>1. /\ EventShapes /\ DiskTyped /\ FilesSettled /\ worker.pc = "idle"
      /\ watcherQueue \in Seq(Events) /\ pending \in Seq(FileEvents) /\ generation \in Nat
      /\ UNCHANGED <<disk, away, generation, jobQueue, published>>
      /\ watcherQueue' = <<>>
  BY DEF TextInv, EventShapes, ReceiveEvents, fsVars
<1>2. /\ ProcessBatch(Coalesce(batch, generation))
      /\ pending' = RecordAll(pending, files)
  BY DEF ReceiveEvents
<1>a. Range(watcherQueue) \cap F = F /\ Range(watcherQueue) \cap D = D
  OBVIOUS
<1>b. \A e \in Range(watcherQueue) : e \in F \/ e \in D
  OBVIOUS
<1>c. (\A e \in F : e.kind # "FolderDeleted") /\ (\A e \in D : e.kind = "FolderDeleted")
  OBVIOUS
<1> HIDE DEF F, D
<1>3. files \in Seq(Events) /\ Range(files) = F
  BY <1>1, <1>a, RetainRange
<1>4. folders \in Seq(Events) /\ Range(folders) = D
  BY <1>1, <1>a, RetainRange
<1> HIDE DEF files, folders
<1>5. files \in Seq(FileEvents)
  <2>1. \A e \in Range(files) : e \in FileEvents
    BY <1>3, <1>c DEF FileEvents, Range
  <2> QED
    BY <1>3, <2>1 DEF Range
<1>6. /\ pending' \in Seq(FileEvents)
      /\ \A f : Tells(pending, f) \/ Tells(files, f) => Tells(pending', f)
  BY <1>1, <1>2, <1>5, RecordAllKeepsFiles
<1>7. \A i \in DOMAIN folders : /\ batch[i] \in Jobs /\ batch[i].gen = generation
                                /\ \A f : Concerns(folders[i], f) => Concerns(batch[i], f)
  <2> SUFFICES ASSUME NEW i \in DOMAIN folders
               PROVE  /\ batch[i] \in Jobs /\ batch[i].gen = generation
                      /\ \A f : Concerns(folders[i], f) => Concerns(batch[i], f)
    OBVIOUS
  <2> DEFINE e == folders[i]
             job == Job("FolderDeleted", e.loc, e.path, generation)
  <2>1. e \in Events /\ e.kind = "FolderDeleted"
    BY <1>4, <1>c DEF Range
  <2>2. batch[i] = job
    OBVIOUS
  <2> HIDE DEF e
  <2>3. e.loc \in LocationIds /\ e.path \in LocalPaths
    BY <2>1 DEF Events
  <2>4. job \in FileJobs
    BY <1>1, <2>3, EventTyped
  <2>5. job.kind = "FolderDeleted" /\ job.loc = e.loc /\ job.path = e.path /\ job.gen = generation
    BY DEF Job
  <2> HIDE DEF job
  <2>6. \A f : Concerns(e, f) => Concerns(job, f)
    BY <2>1, <2>5 DEF Concerns
  <2> HIDE DEF batch
  <2> QED
    BY <2>2, <2>4, <2>5, <2>6 DEF Jobs, e
<1>8. batch \in Seq(Jobs) /\ DOMAIN batch = DOMAIN folders
  BY <1>4, <1>7
<1> HIDE DEF batch
<1>9. /\ WorkerTyped' /\ Rebuilding' /\ Superseded'
      /\ \A f : \/ \E job \in Range(batch) : job.gen = generation /\ Concerns(job, f)
                \/ SaysNow(published.index, f)
                => Settled(f)'
  BY <1>1, <1>2, <1>8, BatchBegins
<1>10. EventShapes'
  BY <1>1, <1>6, <1>9 DEF EventShapes, DiskTyped
<1>11. FilesSettled'
  <2> SUFFICES ASSUME NEW f \in Files, ~Owed(f)' PROVE Settled(f)'
    BY DEF FilesSettled
  <2>1. ~Tells(files, f) /\ ~Tells(pending, f)
    BY <1>6 DEF Owed
  <2>2. CASE \E e \in D : Concerns(e, f)
    <3>1. PICK i \in DOMAIN folders : Concerns(folders[i], f)
      BY <1>4, <2>2 DEF Range
    <3>2. batch[i] \in Range(batch) /\ batch[i].gen = generation /\ Concerns(batch[i], f)
      BY <1>7, <1>8, <3>1 DEF Range
    <3> QED
      BY <1>9, <3>2
  <2>3. CASE ~(\E e \in D : Concerns(e, f))
    <3>1. ~Tells(watcherQueue, f)
      BY <1>3, <1>b, <2>1, <2>3 DEF Tells
    <3>2. Settled(f)
      BY <1>1, <2>1, <3>1 DEF FilesSettled, Owed
    <3>3. SaysNow(published.index, f)
      BY <1>1, <3>2 DEF Settled
    <3> QED
      BY <1>9, <3>3
  <2> QED
    BY <2>2, <2>3
<1> QED
  BY <1>9, <1>10, <1>11 DEF TextInv

LEMMA TailOfQueue ==
    ASSUME NEW S, NEW s \in Seq(S), NEW n \in 0 .. Len(s)
    PROVE  /\ SubSeq(s, n + 1, Len(s)) \in Seq(S)
           /\ \A i \in DOMAIN s : i > n => s[i] \in Range(SubSeq(s, n + 1, Len(s)))
<1> DEFINE t == SubSeq(s, n + 1, Len(s))
<1>1. t \in Seq(S) /\ Len(t) = Len(s) - n /\ \A k \in 1 .. Len(s) - n : t[k] = s[n + k]
  OBVIOUS
<1>2. ASSUME NEW i \in DOMAIN s, i > n PROVE s[i] \in Range(t)
  <2>1. i - n \in 1 .. Len(s) - n /\ n + (i - n) = i
    BY <1>2
  <2>2. i - n \in DOMAIN t /\ t[i - n] = s[i]
    BY <1>1, <2>1
  <2> HIDE DEF t
  <2> QED
    BY <2>2 DEF Range
<1> QED
  BY <1>1, <1>2

LEMMA DrainReadyKeeps == ASSUME TextInv, NEW n \in 1 .. Len(pending), DrainReady(n) PROVE TextInv'
<1> DEFINE JobOf(e) == Job(IF e.kind = "Changed" THEN "FileChanged" ELSE "FileDeleted",
                           e.loc, e.path, generation)
           batch == [i \in 1 .. n |->
                        Job(IF pending[i].kind = "Changed" THEN "FileChanged" ELSE "FileDeleted",
                            pending[i].loc, pending[i].path, generation)]
           rest == SubSeq(pending, n + 1, Len(pending))
<1>1. /\ EventShapes /\ DiskTyped /\ FilesSettled /\ worker.pc = "idle"
      /\ pending \in Seq(FileEvents) /\ generation \in Nat
      /\ UNCHANGED <<disk, away, generation, watcherQueue, jobQueue, published>>
  BY DEF TextInv, EventShapes, DrainReady, fsVars
<1>2. /\ ProcessBatch(Coalesce(batch, generation))
      /\ pending' = rest
  BY DEF DrainReady
<1>3. ASSUME NEW e \in FileEvents
      PROVE  /\ JobOf(e) \in Jobs /\ JobOf(e).gen = generation
             /\ \A f : Concerns(e, f) => Concerns(JobOf(e), f)
  <2>1. e.loc \in LocationIds /\ e.path \in LocalPaths /\ e.kind \in {"Changed", "Deleted"}
    BY DEF FileEvents, Events
  <2>2. JobOf(e) \in Jobs
    BY <1>1, <2>1, EventTyped DEF Jobs
  <2>3. /\ JobOf(e).kind \in {"FileChanged", "FileDeleted"}
        /\ JobOf(e).loc = e.loc /\ JobOf(e).path = e.path /\ JobOf(e).gen = generation
    BY DEF Job
  <2> HIDE DEF JobOf
  <2> QED
    BY <2>1, <2>2, <2>3 DEF Concerns
<1>4. n \in Nat /\ n \in 0 .. Len(pending) /\ \A i \in 1 .. n : i \in DOMAIN pending
  BY <1>1
<1>5. \A i \in 1 .. n : pending[i] \in FileEvents
  BY <1>1, <1>4
<1>6. DOMAIN batch = 1 .. n /\ \A i \in 1 .. n : batch[i] = JobOf(pending[i])
  OBVIOUS
<1>7. batch \in Seq(Jobs)
  <2>1. batch \in [1 .. n -> Jobs]
    <3>1. \A i \in 1 .. n : JobOf(pending[i]) \in Jobs
      BY <1>3, <1>5
    <3> QED
      BY <3>1
  <2> HIDE DEF batch
  <2> QED
    BY <1>4, <2>1
<1> HIDE DEF batch, rest, JobOf
<1>8. rest \in Seq(FileEvents) /\ \A i \in DOMAIN pending : i > n => pending[i] \in Range(rest)
  BY <1>1, <1>4, TailOfQueue DEF rest
<1>9. /\ WorkerTyped' /\ Rebuilding' /\ Superseded'
      /\ \A f : \/ \E job \in Range(batch) : job.gen = generation /\ Concerns(job, f)
                \/ SaysNow(published.index, f)
                => Settled(f)'
  BY <1>1, <1>2, <1>7, BatchBegins
<1>10. EventShapes'
  BY <1>1, <1>2, <1>8, <1>9 DEF EventShapes, DiskTyped
<1>11. FilesSettled'
  <2> SUFFICES ASSUME NEW f \in Files, ~Owed(f)' PROVE Settled(f)'
    BY DEF FilesSettled
  <2>1. CASE Tells(pending, f)
    <3>1. PICK i \in DOMAIN pending : Concerns(pending[i], f)
      BY <2>1 DEF Tells, Range
    <3>2. ~(i > n)
      BY <1>2, <1>8, <3>1 DEF Owed, Tells
    <3>3. i \in 1 .. n
      BY <1>1, <1>4, <3>2
    <3>4. /\ batch[i] \in Range(batch) /\ batch[i].gen = generation
          /\ Concerns(batch[i], f)
      BY <1>3, <1>5, <1>6, <3>1, <3>3 DEF Range
    <3> QED
      BY <1>9, <3>4
  <2>2. CASE ~Tells(pending, f)
    <3>1. Settled(f)
      BY <1>1, <2>2 DEF FilesSettled, Owed
    <3>2. SaysNow(published.index, f)
      BY <1>1, <3>1 DEF Settled
    <3> QED
      BY <1>9, <3>2
  <2> QED
    BY <2>1, <2>2
<1> QED
  BY <1>9, <1>10, <1>11 DEF TextInv

\* One job settles the files it is about and leaves the others as they are.
LEMMA AppliedJob ==
    ASSUME DiskTyped, NEW index, IsIndex(index), NEW job \in FileJobs
    PROVE  LET new == ApplyFileJob(index, job) IN
           /\ IsIndex(new)
           /\ \A f \in Files : IF Concerns(job, f) THEN SaysNow(new, f)
                               ELSE RecordsOf(new, f) = RecordsOf(index, f)
<1> DEFINE new == ApplyFileJob(index, job)
<1>1. job.kind \in {"FileChanged", "FileDeleted", "FolderDeleted"}
  BY DEF FileJobs
<1>2. Nothing.defs = <<>>
  BY DEF Nothing
<1>3. \A f \in Files : (job.loc = f[1] /\ job.path = f[2]) <=> <<job.loc, job.path>> = f
  BY FileShape
<1>4. CASE job.kind = "FolderDeleted"
  <2>1. new = RemoveFolderPrefix(index, job.loc, job.path)
    BY <1>4 DEF ApplyFileJob
  <2>2. \A f : Concerns(job, f) <=> f[1] = job.loc /\ IsPrefix(job.path, f[2])
    BY <1>4 DEF Concerns
  <2> HIDE DEF new
  <2>3. IsIndex(new) /\ \A f \in Files : RecordsOf(new, f) = IF Concerns(job, f) THEN Nothing ELSE RecordsOf(index, f)
    BY <2>1, <2>2, RemoveFolderRecords
  <2> QED
    BY <1>2, <2>3 DEF SaysNow, new
<1>5. ASSUME job.kind # "FolderDeleted", new = RemoveFile(index, job.loc, job.path)
      PROVE  /\ IsIndex(new)
             /\ \A f \in Files : IF Concerns(job, f) THEN SaysNow(new, f)
                                 ELSE RecordsOf(new, f) = RecordsOf(index, f)
  <2>1. \A f \in Files : Concerns(job, f) <=> f[1] = job.loc /\ f[2] = job.path
    BY <1>1, <1>3, <1>5 DEF Concerns
  <2> HIDE DEF new
  <2>2. IsIndex(new) /\ \A f \in Files : RecordsOf(new, f) = IF Concerns(job, f) THEN Nothing ELSE RecordsOf(index, f)
    BY <1>5, <2>1, RemoveFileRecords
  <2> QED
    BY <1>2, <2>2 DEF SaysNow
<1>6. CASE job.kind = "FileDeleted" \/ (job.kind = "FileChanged" /\ job.path \notin ActivePaths(job.loc))
  <2>1. new = RemoveFile(index, job.loc, job.path)
    BY <1>6 DEF ApplyFileJob
  <2> QED
    BY <1>5, <1>6, <2>1
<1>7. CASE job.kind = "FileChanged" /\ job.path \in ActivePaths(job.loc)
  <2> DEFINE f == <<job.loc, job.path>>
             c == disk[f]
  <2>1. f \in Files /\ c # Gone
    BY <1>7, ActivePathsExist
  <2>2. c \in Contents /\ f[1] = job.loc /\ f[2] = job.path
    BY <2>1 DEF DiskTyped
  <2>3. new = ApplyFileChange(index, LocationById(f[1]), f[2], c)
    BY <1>7, <2>2 DEF ApplyFileJob
  <2>4. \A g : Concerns(job, g) <=> g = f
    BY <1>7 DEF Concerns
  <2>5. ContentOf(f) = c
    BY <2>1 DEF ContentOf
  <2> HIDE DEF new, f, c
  <2>6. /\ IsIndex(new)
        /\ \A g \in Files : g # f => RecordsOf(new, g) = RecordsOf(index, g)
        /\ RecordsOf(new, f) = [defs |-> AddedDefs(f, c), errors |-> AddedErrors(f, c)]
    BY <2>1, <2>2, <2>3, ChangedRecords
  <2>7. RecordsOf(EmptyIndex, f) = Nothing /\ IsIndex(EmptyIndex)
    BY EmptyRecords
  <2>8. Fresh(f) = [defs |-> AddedDefs(f, c), errors |-> AddedErrors(f, c)]
    BY <2>1, <2>2, <2>5, <2>7, AddFileRecords DEF Fresh
  <2>9. SaysNow(new, f)
    BY <2>1, <2>6, <2>8 DEF SaysNow, c
  <2> QED
    BY <2>4, <2>6, <2>9 DEF new
<1> QED
  BY <1>1, <1>4, <1>6, <1>7

LEMMA FilesApplyKeeps == ASSUME TextInv, NEW job \in worker.jobs, FilesApply(job) PROVE TextInv'
<1>1. /\ EventShapes /\ DiskTyped /\ WorkerTyped /\ FilesSettled /\ Superseded
      /\ worker.pc = "files" /\ job \in FileJobs
      /\ UNCHANGED <<disk, away, generation, watcherQueue, jobQueue, pending, published>>
  BY DEF TextInv, EventShapes, FilesApply, fsVars, WorkerTyped
<1>2. SUFFICES WorkerTyped' /\ Rebuilding' /\ Superseded' /\ FilesSettled'
  BY <1>1 DEF TextInv, EventShapes, DiskTyped
<1>3. \A f : Owed(f)' <=> Owed(f)
  BY <1>1 DEF Owed
<1>4. CASE generation # worker.gen
  <2>1. WorkerDone
    BY <1>4 DEF FilesApply
  <2>2. \A f : Owed(f)'
    BY <1>1, <1>4 DEF Superseded, Owed, Concerns
  <2> QED
    BY <2>1, <2>2, WorkerRests DEF FilesSettled
<1>5. CASE generation = worker.gen /\ job.kind = "FileChanged" /\ Last(job.path) = "LoadFolders.xml"
  <2>1. StartRebuild(active)
    BY <1>5 DEF FilesApply
  <2> QED
    BY <1>1, <2>1, RebuildBegins DEF FilesSettled
<1>6. CASE generation = worker.gen /\ ~(job.kind = "FileChanged" /\ Last(job.path) = "LoadFolders.xml")
  <2> DEFINE new == ApplyFileJob(worker.index, job)
  <2>1. worker' = [worker EXCEPT !.jobs = @ \ {job}, !.index = new]
    BY <1>6 DEF FilesApply
  <2>2. /\ IsIndex(new)
        /\ \A f \in Files : IF Concerns(job, f) THEN SaysNow(new, f)
                            ELSE RecordsOf(new, f) = RecordsOf(worker.index, f)
    BY <1>1, AppliedJob DEF WorkerTyped
  <2> HIDE DEF new
  <2>3. worker' = [pc |-> worker.pc, gen |-> worker.gen, project |-> worker.project,
                   jobs |-> worker.jobs \ {job}, locations |-> worker.locations,
                   files |-> worker.files, index |-> new]
    BY <1>1, <2>1 DEF WorkerTyped, IsWorker
  <2>4. /\ worker'.pc = "files" /\ worker'.gen = worker.gen /\ worker'.jobs = worker.jobs \ {job}
        /\ worker'.index = new /\ IsWorker(worker')
    BY <1>1, <2>3 DEF IsWorker
  <2>5. WorkerTyped'
    BY <1>1, <2>2, <2>4 DEF WorkerTyped
  <2>6. Rebuilding' /\ Superseded'
    BY <1>1, <1>6, <2>4 DEF Rebuilding, Superseded
  <2>7. FilesSettled'
    <3> SUFFICES ASSUME NEW f \in Files, ~Owed(f)' PROVE Settled(f)'
      BY DEF FilesSettled
    <3>1. TellsOne(worker.jobs, f) \/ SaysNow(worker.index, f)
      BY <1>1, <1>3 DEF FilesSettled, Settled
    <3>2. CASE Concerns(job, f)
      <4>1. SaysNow(worker.index, f)'
        BY <1>1, <2>2, <2>4, <3>2, WorkerSaysNow
      <4> QED
        BY <2>4, <4>1 DEF Settled
    <3>3. CASE ~Concerns(job, f) /\ TellsOne(worker.jobs, f)
      <4>1. TellsOne(worker.jobs \ {job}, f)
        BY <3>3 DEF TellsOne
      <4>2. TellsOne(worker'.jobs, f)
        BY <2>4, <4>1
      <4> QED
        BY <2>4, <4>2 DEF Settled
    <3>4. CASE ~Concerns(job, f) /\ SaysNow(worker.index, f)
      <4>1. SaysNow(new, f)
        BY <2>2, <3>4 DEF SaysNow
      <4>2. SaysNow(worker.index, f)'
        BY <1>1, <2>4, <4>1, WorkerSaysNow
      <4> QED
        BY <2>4, <4>2 DEF Settled
    <3> QED
      BY <3>1, <3>2, <3>3, <3>4
  <2> QED
    BY <2>5, <2>6, <2>7
<1> QED
  BY <1>4, <1>5, <1>6

\* Publishing what the worker made of the files settles what it had settled.
LEMMA PublishedSettles ==
    ASSUME EventShapes, NEW project,
           published' = Published(project, RebuildComputedFields(worker.index)),
           WorkerDone, UNCHANGED disk
    PROVE  /\ IsIndex(published.index)'
           /\ \A f : SaysNow(worker.index, f) => Settled(f)'
<1> DEFINE new == RebuildComputedFields(worker.index)
<1>1. IsIndex(new) /\ \A f : RecordsOf(new, f) = RecordsOf(worker.index, f)
  BY RebuiltRecords DEF EventShapes, WorkerTyped
<1>2. published'.index = new
  BY DEF Published
<1> HIDE DEF new
<1>3. worker'.pc = "idle"
  BY IdleShape DEF WorkerDone
<1>4. ASSUME NEW f, SaysNow(worker.index, f)
      PROVE  Settled(f)'
  <2>1. RecordsOf(published'.index, f) = RecordsOf(worker.index, f)
    BY <1>1, <1>2
  <2>2. SaysNow(published.index, f)'
    BY <1>4, <2>1, SameDiskSaysSame DEF SaysNow
  <2> QED
    BY <1>3, <2>2 DEF Settled
<1> QED
  BY <1>1, <1>2, <1>4

LEMMA FilesPublishKeeps == ASSUME TextInv, FilesPublish PROVE TextInv'
<1>1. /\ EventShapes /\ DiskTyped /\ FilesSettled /\ Superseded
      /\ worker.pc = "files" /\ worker.jobs = {} /\ WorkerDone
      /\ UNCHANGED <<disk, away, generation, watcherQueue, jobQueue, pending>>
  BY DEF TextInv, EventShapes, FilesPublish, fsVars
<1>2. WorkerTyped' /\ Rebuilding' /\ Superseded'
  BY <1>1, WorkerRests
<1>3. \A f : Owed(f)' <=> Owed(f)
  BY <1>1 DEF Owed
<1>4. SUFFICES IsIndex(published.index)' /\ FilesSettled'
  BY <1>1, <1>2 DEF TextInv, EventShapes, DiskTyped
<1>5. CASE generation # worker.gen
  <2>1. published' = published
    BY <1>5 DEF FilesPublish
  <2>2. \A f : Owed(f)'
    BY <1>1, <1>5 DEF Superseded, Owed, Concerns
  <2> QED
    BY <1>1, <2>1, <2>2 DEF EventShapes, FilesSettled
<1>6. CASE generation = worker.gen
  <2>1. published' = Published(worker.project, RebuildComputedFields(worker.index))
    BY <1>6 DEF FilesPublish
  <2>2. /\ IsIndex(published.index)'
        /\ \A f : SaysNow(worker.index, f) => Settled(f)'
    BY <1>1, <2>1, PublishedSettles
  <2>3. \A f \in Files : Owed(f) \/ SaysNow(worker.index, f)
    BY <1>1 DEF FilesSettled, Settled, TellsOne
  <2> QED
    BY <1>3, <2>2, <2>3 DEF FilesSettled
<1> QED
  BY <1>5, <1>6

LEMMA RebuildPublishKeeps == ASSUME TextInv, RebuildPublish PROVE TextInv'
<1>1. /\ EventShapes /\ DiskTyped /\ FilesSettled
      /\ worker.pc = "rebuild" /\ worker.files = <<>> /\ worker.locations = <<>> /\ WorkerDone
      /\ published' = Published(worker.project, RebuildComputedFields(worker.index))
      /\ UNCHANGED <<disk, away, generation, watcherQueue, jobQueue, pending>>
  BY DEF TextInv, EventShapes, RebuildPublish, fsVars
<1>2. WorkerTyped' /\ Rebuilding' /\ Superseded'
  BY <1>1, WorkerRests
<1>3. \A f : Owed(f)' <=> Owed(f)
  BY <1>1 DEF Owed
<1>4. /\ IsIndex(published.index)'
      /\ \A f : SaysNow(worker.index, f) => Settled(f)'
  BY <1>1, PublishedSettles
<1>5. \A f : Visited(f)
  BY <1>1, EmptyRange DEF Visited
<1>6. \A f \in Files : Owed(f) \/ SaysNow(worker.index, f)
  BY <1>1, <1>5 DEF FilesSettled, Settled
<1>7. FilesSettled'
  BY <1>3, <1>4, <1>6 DEF FilesSettled
<1> QED
  BY <1>1, <1>2, <1>4, <1>7 DEF TextInv, EventShapes, DiskTyped

LEMMA HeadAndTail ==
    ASSUME NEW S, NEW s \in Seq(S), s # <<>>, IsInjective(s)
    PROVE  /\ Head(s) \in S /\ Tail(s) \in Seq(S) /\ IsInjective(Tail(s))
           /\ Range(s) = Range(Tail(s)) \cup {Head(s)} /\ Head(s) \notin Range(Tail(s))
<1> DEFINE t == Tail(s)
           n == Len(s)
<1>1. /\ n \in Nat /\ n > 0 /\ DOMAIN s = 1 .. n /\ t \in Seq(S) /\ DOMAIN t = 1 .. n - 1
      /\ \A i \in 1 .. n - 1 : t[i] = s[i + 1]
      /\ Head(s) = s[1] /\ Head(s) \in S
  OBVIOUS
<1> HIDE DEF t, n
<1>2. \A i \in 1 .. n - 1 : i + 1 \in 1 .. n /\ i + 1 # 1
  BY <1>1
<1>3. IsInjective(t)
  <2> SUFFICES ASSUME NEW i \in 1 .. n - 1, NEW j \in 1 .. n - 1, t[i] = t[j] PROVE i = j
    BY <1>1 DEF IsInjective
  <2>1. i + 1 = j + 1
    <3>1. i + 1 \in DOMAIN s /\ j + 1 \in DOMAIN s /\ s[i + 1] = s[j + 1]
      BY <1>1, <1>2
    <3> QED
      BY <3>1 DEF IsInjective
  <2>2. i \in Int /\ j \in Int
    BY <1>1
  <2> QED
    BY <2>1, <2>2
<1>4. Head(s) \notin Range(t)
  <2> SUFFICES ASSUME NEW i \in 1 .. n - 1, t[i] = s[1] PROVE FALSE
    BY <1>1 DEF Range
  <2>1. 1 \in 1 .. n /\ i + 1 \in 1 .. n /\ i + 1 # 1
    BY <1>1, <1>2
  <2> QED
    BY <1>1, <2>1 DEF IsInjective
<1>5. Range(s) \subseteq Range(t) \cup {Head(s)}
  <2> SUFFICES ASSUME NEW i \in 1 .. n, i # 1 PROVE s[i] \in Range(t)
    BY <1>1 DEF Range
  <2>1. i - 1 \in 1 .. n - 1 /\ (i - 1) + 1 = i
    BY <1>1
  <2>2. t[i - 1] = s[i]
    BY <1>1, <2>1
  <2> QED
    BY <1>1, <2>1, <2>2 DEF Range
<1>6. Range(t) \cup {Head(s)} \subseteq Range(s)
  <2>1. 1 \in 1 .. n
    BY <1>1
  <2>2. \A i \in 1 .. n - 1 : t[i] \in Range(s)
    BY <1>1, <1>2 DEF Range
  <2> QED
    BY <1>1, <2>1, <2>2 DEF Range
<1> QED
  BY <1>1, <1>3, <1>4, <1>5, <1>6 DEF t

LEMMA LocationsDiffer ==
    ASSUME NEW l \in Range(Locations), NEW m \in Range(Locations), l.id = m.id
    PROVE  l = m
  BY EventsAssumption DEF Range

LEMMA RebuildScanKeeps == ASSUME TextInv, RebuildScan PROVE TextInv'
<1> DEFINE location == Head(worker.locations)
           rest == Tail(worker.locations)
           K == {f \in Files : f[1] = location.id /\ f[2] \in ActivePaths(location.id)}
           found == Retain(FileOrder, K)
<1>1. /\ EventShapes /\ DiskTyped /\ WorkerTyped /\ FilesSettled /\ Superseded /\ Rebuilding
      /\ worker.pc = "rebuild" /\ worker.files = <<>> /\ worker.locations # <<>>
      /\ UNCHANGED <<disk, away, generation, watcherQueue, jobQueue, pending, published>>
  BY DEF TextInv, EventShapes, RebuildScan, fsVars
<1>2. worker.locations \in Seq(Range(Locations)) /\ IsInjective(worker.locations)
  BY <1>1 DEF Rebuilding
<1>3. /\ location \in Range(Locations) /\ rest \in Seq(Range(Locations)) /\ IsInjective(rest)
      /\ Range(worker.locations) = Range(rest) \cup {location} /\ location \notin Range(rest)
  BY <1>1, <1>2, HeadAndTail
<1>4. worker' = [worker EXCEPT !.locations = rest, !.files = found]
  BY DEF RebuildScan
<1>5. FileOrder \in Seq(Files) /\ IsInjective(FileOrder) /\ K \subseteq Range(FileOrder)
  BY EventsAssumption DEF Files, Range, IsInjective
<1>k. \A f \in K : f[1] = location.id
  OBVIOUS
<1> HIDE DEF K
<1>6. found \in Seq(Files) /\ IsInjective(found) /\ Range(found) = K
  <2>1. found \in Seq(Files) /\ Range(found) = Range(FileOrder) \cap K
    BY <1>5, RetainRange
  <2>2. IsInjective(found)
    BY <1>5, RetainInjective
  <2> QED
    BY <1>5, <2>1, <2>2
<1> HIDE DEF found, location, rest
<1>7. worker' = [pc |-> worker.pc, gen |-> worker.gen, project |-> worker.project,
                 jobs |-> worker.jobs, locations |-> rest, files |-> found,
                 index |-> worker.index]
  BY <1>1, <1>4 DEF WorkerTyped, IsWorker
<1>8. /\ worker'.pc = "rebuild" /\ worker'.gen = worker.gen /\ worker'.jobs = worker.jobs
      /\ worker'.locations = rest /\ worker'.files = found /\ worker'.index = worker.index
      /\ IsWorker(worker')
  BY <1>1, <1>7 DEF IsWorker
<1>9. WorkerTyped' /\ Superseded'
  BY <1>1, <1>8 DEF WorkerTyped, Superseded
<1>10. \A l \in Range(rest) : l \in Range(Locations) /\ l.id # location.id
  <2>1. Range(rest) \subseteq Range(Locations)
    BY <1>3 DEF Range
  <2> QED
    BY <1>3, <2>1, LocationsDiffer
<1>11. Range(worker.files) = {}
  BY <1>1, EmptyRange
<1>12. \A f : Visited(f) => Visited(f)' \/ f \in K
  BY <1>3, <1>6, <1>8 DEF Visited
<1>13. \A f \in Files : ~Visited(f) => RecordsOf(worker.index, f) = Nothing
  BY <1>1 DEF Rebuilding
<1>14. \A f \in K : ~Visited(f)
  BY <1>3, <1>k DEF Visited
<1>15. \A f : ~Visited(f)' => ~Visited(f)
  BY <1>3, <1>6, <1>8, <1>11, <1>14 DEF Visited
<1>16. Rebuilding'
  <2>1. \A f \in Files : ~Visited(f)' => RecordsOf(worker'.index, f) = Nothing
    BY <1>8, <1>13, <1>15
  <2>2. \A l \in Range(rest), f \in Range(found) : f[1] # l.id
    BY <1>6, <1>k, <1>10
  <2> QED
    BY <1>3, <1>6, <1>8, <2>1, <2>2 DEF Rebuilding
<1>17. FilesSettled'
  <2> SUFFICES ASSUME NEW f \in Files, ~Owed(f)' PROVE Settled(f)'
    BY DEF FilesSettled
  <2>1. ~Visited(f) \/ SaysNow(worker.index, f)
    BY <1>1 DEF FilesSettled, Settled, Owed
  <2>2. ~Visited(f) => SaysNow(worker.index, f)
    BY <1>13 DEF SaysNow, Nothing
  <2>3. SaysNow(worker.index, f)'
    BY <1>1, <1>8, <2>1, <2>2, WorkerSaysNow
  <2> QED
    BY <1>8, <2>3 DEF Settled
<1> QED
  BY <1>1, <1>9, <1>16, <1>17 DEF TextInv, EventShapes, DiskTyped

LEMMA RebuildReadKeeps == ASSUME TextInv, RebuildRead PROVE TextInv'
<1> DEFINE file == Head(worker.files)
           rest == Tail(worker.files)
           c == ContentOf(file)
           new == AddFile(worker.index, LocationById(file[1]), file[2], c)
<1>1. /\ EventShapes /\ DiskTyped /\ WorkerTyped /\ FilesSettled /\ Superseded /\ Rebuilding
      /\ worker.pc = "rebuild" /\ worker.files # <<>>
      /\ UNCHANGED <<disk, away, generation, watcherQueue, jobQueue, pending, published>>
  BY DEF TextInv, EventShapes, RebuildRead, fsVars
<1>2. worker.files \in Seq(Files) /\ IsInjective(worker.files)
  BY <1>1 DEF Rebuilding
<1>3. /\ file \in Files /\ rest \in Seq(Files) /\ IsInjective(rest)
      /\ Range(worker.files) = Range(rest) \cup {file} /\ file \notin Range(rest)
  BY <1>1, <1>2, HeadAndTail
<1>4. worker' = [worker EXCEPT !.files = rest, !.index = new]
  BY DEF RebuildRead
<1> HIDE DEF file, rest
<1>5. /\ c \in Contents \cup {Unreadable}
      /\ Fresh(file) = [defs |-> AddedDefs(file, c), errors |-> AddedErrors(file, c)]
  BY <1>1, <1>3, FreshIs
<1>c. c = Unreadable \/ disk[file] # Gone
  BY DEF ContentOf
<1> HIDE DEF c
<1>i. IsIndex(worker.index)
  BY <1>1 DEF WorkerTyped
<1>6. IsIndex(new)
  BY <1>3, <1>5, <1>i, AddFileIs
<1>7. /\ \A g \in Files : g # file => RecordsOf(new, g) = RecordsOf(worker.index, g)
      /\ RecordsOf(worker.index, file) = Nothing =>
            RecordsOf(new, file) = [defs |-> AddedDefs(file, c), errors |-> AddedErrors(file, c)]
  BY <1>3, <1>5, <1>i, AddFileRecords
<1> HIDE DEF new
<1>8. worker' = [pc |-> worker.pc, gen |-> worker.gen, project |-> worker.project,
                 jobs |-> worker.jobs, locations |-> worker.locations, files |-> rest,
                 index |-> new]
  BY <1>1, <1>4 DEF WorkerTyped, IsWorker
<1>9. /\ worker'.pc = "rebuild" /\ worker'.gen = worker.gen /\ worker'.jobs = worker.jobs
      /\ worker'.locations = worker.locations /\ worker'.files = rest /\ worker'.index = new
      /\ IsWorker(worker')
  BY <1>1, <1>8 DEF IsWorker
<1>10. WorkerTyped' /\ Superseded'
  BY <1>1, <1>6, <1>9 DEF WorkerTyped, Superseded
<1>11. \A f : ~Visited(f)' <=> f # file /\ ~Visited(f)
  <2>1. \A l \in Range(worker.locations) : file[1] # l.id
    BY <1>1, <1>3 DEF Rebuilding
  <2> QED
    BY <1>3, <1>9, <2>1 DEF Visited
<1>12. ~Visited(file)
  BY <1>3 DEF Visited
<1>13. RecordsOf(worker.index, file) = Nothing
  BY <1>1, <1>3, <1>12 DEF Rebuilding
<1>14. Rebuilding'
  <2>1. \A f \in Files : ~Visited(f)' => RecordsOf(worker'.index, f) = Nothing
    BY <1>1, <1>7, <1>9, <1>11 DEF Rebuilding
  <2>2. \A l \in Range(worker'.locations), f \in Range(rest) : f[1] # l.id
    BY <1>1, <1>3, <1>9 DEF Rebuilding
  <2>3. worker'.locations \in Seq(Range(Locations)) /\ IsInjective(worker'.locations)
    BY <1>1, <1>9 DEF Rebuilding
  <2> QED
    BY <1>3, <1>9, <2>1, <2>2, <2>3 DEF Rebuilding
<1>15. FilesSettled'
  <2> SUFFICES ASSUME NEW f \in Files, ~Owed(f)' PROVE Settled(f)'
    BY DEF FilesSettled
  <2>1. CASE f = file
    <3>1. RecordsOf(new, file) = Fresh(file)
      BY <1>5, <1>7, <1>13
    <3>2. c = Unreadable => AddedDefs(file, c) = <<>>
      BY DEF AddedDefs
    <3>3. SaysNow(new, file)
      BY <1>5, <1>c, <3>1, <3>2 DEF SaysNow
    <3>4. SaysNow(worker.index, f)'
      BY <1>1, <1>9, <2>1, <3>3, WorkerSaysNow
    <3> QED
      BY <1>9, <3>4 DEF Settled
  <2>2. CASE f # file /\ ~Visited(f)
    BY <1>9, <1>11, <2>2 DEF Settled
  <2>3. CASE f # file /\ Visited(f)
    <3>1. SaysNow(worker.index, f)
      BY <1>1, <2>3 DEF FilesSettled, Settled, Owed
    <3>2. SaysNow(new, f)
      BY <1>7, <2>3, <3>1 DEF SaysNow
    <3>3. SaysNow(worker.index, f)'
      BY <1>1, <1>9, <3>2, WorkerSaysNow
    <3> QED
      BY <1>9, <3>3 DEF Settled
  <2> QED
    BY <2>1, <2>2, <2>3
<1> QED
  BY <1>1, <1>10, <1>14, <1>15 DEF TextInv, EventShapes, DiskTyped

-----------------------------------------------------------------------------
(* A full rebuild, and the theorem *)

Read == INSTANCE SequenceFolds WITH op <- ReadInto

\* A full rebuild says of every file of the scan what an index of its own would
\* say, and nothing of any other file.
LEMMA BuildRecords ==
    ASSUME DiskTyped, NEW project
    PROVE  /\ IsIndex(BuildDefIndex(project))
           /\ \E read : IsIndex(read) /\ BuildDefIndex(project) = RebuildComputedFields(read)
           /\ \A f \in Files : RecordsOf(BuildDefIndex(project), f)
                 = IF f \in Range(IndexableFiles(project))
                   THEN [defs |-> AddedDefs(f, disk[f]), errors |-> AddedErrors(f, disk[f])]
                   ELSE Nothing
           /\ \A f \in Range(IndexableFiles(project)) : f \in Files /\ disk[f] \in Contents
<1> DEFINE d == disk
           X == {f \in Files : d[f] \in Contents}
           V == [defs : Seq(Defs), errors : Seq(Errors), byType : {EmptyIndex.byType}]
           base == EmptyIndex
           All(s) == Read!Folded(d, base, s)
           AsRead(f) == [defs |-> AddedDefs(f, d[f]), errors |-> AddedErrors(f, d[f])]
           P == {s \in Seq(X) : IsInjective(s) => \A f \in Files :
                    RecordsOf(All(s), f) = IF f \in Range(s) THEN AsRead(f) ELSE Nothing}
           K == {f \in Files : \E l \in Range(IncludedLocations(Locations, project)) :
                    l.id = f[1] /\ f[2] \in ActivePaths(f[1])}
           files == IndexableFiles(project)
<1>1. ASSUME NEW index \in V, NEW f \in X
      PROVE  IsIndex(index) /\ ReadInto(d, index, f) \in V
  <2>1. IsIndex(index)
    BY DEF IsIndex
  <2>2. d[f] \in Contents \cup {Unreadable} /\ f \in Files
    OBVIOUS
  <2> DEFINE new == AddFile(index, LocationById(f[1]), f[2], d[f])
  <2>3. /\ new = [defs |-> index.defs \o AddedDefs(f, d[f]),
                  errors |-> index.errors \o AddedErrors(f, d[f]), byType |-> index.byType]
        /\ IsIndex(new)
    BY <2>1, <2>2, AddFileIs
  <2>4. ReadInto(d, index, f) = new
    BY DEF ReadInto
  <2> HIDE DEF new
  <2>5. new.defs \in Seq(Defs) /\ new.errors \in Seq(Errors) /\ new.byType = index.byType
    BY <2>3 DEF IsIndex
  <2>6. new = [defs |-> new.defs, errors |-> new.errors, byType |-> new.byType]
    BY <2>3 DEF IsIndex
  <2> QED
    BY <2>1, <2>4, <2>5, <2>6
<1>2. base \in V /\ IsIndex(base) /\ \A f : RecordsOf(base, f) = Nothing
  <2>1. base \in V
    BY DEF EmptyIndex
  <2> QED
    BY <2>1, EmptyRecords
<1>v. \A i \in V : IsIndex(i)
  BY DEF IsIndex
<1>x. \A f \in X : f \in Files /\ d[f] \in Contents
  OBVIOUS
<1> HIDE DEF V, base, X
<1>3. Read!Steps(d, V, X)
  BY <1>1 DEF Read!Steps
<1>4. /\ Read!Folded(d, base, <<>>) = base
      /\ \A s \in Seq(X) : Read!Folded(d, base, s) \in V
      /\ \A s \in Seq(X), x \in X :
            Read!Folded(d, base, Append(s, x)) = ReadInto(d, Read!Folded(d, base, s), x)
  BY <1>2, <1>3, Read!FoldLaws
<1>5. BuildDefIndex(project) = RebuildComputedFields(All(files))
  BY DEF BuildDefIndex, Read!Folded, FoldLeft, Read!FoldLeft, MapThenFoldSet,
         Read!MapThenFoldSet, Max, Read!Max, base
<1>6. /\ All(<<>>) = base
      /\ \A s \in Seq(X) : All(s) \in V
      /\ \A s \in Seq(X), x \in X : All(Append(s, x)) = ReadInto(d, All(s), x)
  BY <1>4
<1> HIDE DEF All
<1>7. <<>> \in P
  BY <1>2, <1>6, EmptyRange
<1>8. ASSUME NEW s \in Seq(X), NEW x \in X, s \in P
      PROVE  Append(s, x) \in P
  <2> DEFINE t == Append(s, x)
             before == All(s)
  <2>1. t \in Seq(X) /\ Range(t) = Range(s) \cup {x}
    BY AppendRange
  <2> SUFFICES ASSUME IsInjective(t), NEW f \in Files
               PROVE  RecordsOf(All(t), f) = IF f \in Range(t) THEN AsRead(f) ELSE Nothing
    BY <2>1
  <2>2. /\ Len(s) \in Nat /\ DOMAIN s = 1 .. Len(s) /\ DOMAIN t = 1 .. Len(s) + 1
        /\ t[Len(s) + 1] = x /\ \A i \in 1 .. Len(s) : t[i] = s[i]
    OBVIOUS
  <2>3. All(t) = ReadInto(d, before, x) /\ before \in V
    BY <1>6
  <2> HIDE DEF t
  <2>4. IsInjective(s) /\ x \notin Range(s)
    <3>1. IsInjective(s)
      BY <2>2 DEF IsInjective
    <3>2. \A i \in 1 .. Len(s) : s[i] # x
      BY <2>2 DEF IsInjective
    <3> QED
      BY <2>2, <3>1, <3>2 DEF Range
  <2>5. \A g \in Files : RecordsOf(before, g) = IF g \in Range(s) THEN AsRead(g) ELSE Nothing
    BY <1>8, <2>4
  <2>6. x \in Files /\ d[x] \in Contents \cup {Unreadable} /\ IsIndex(before)
    BY <1>v, <1>x, <2>3
  <2>7. All(t) = AddFile(before, LocationById(x[1]), x[2], d[x])
    BY <2>3 DEF ReadInto
  <2> HIDE DEF before
  <2>8. /\ \A g \in Files : g # x => RecordsOf(All(t), g) = RecordsOf(before, g)
        /\ RecordsOf(before, x) = Nothing => RecordsOf(All(t), x) = AsRead(x)
    BY <2>6, <2>7, AddFileRecords
  <2> HIDE DEF AsRead
  <2>9. RecordsOf(before, x) = Nothing
    BY <2>4, <2>5, <2>6
  <2> QED
    BY <2>1, <2>4, <2>5, <2>8, <2>9
<1>9. FileOrder \in Seq(Files) /\ IsInjective(FileOrder)
  BY EventsAssumption DEF Files, Range, IsInjective
<1>k. \A f \in K : f \in X
  <2> SUFFICES ASSUME NEW f \in K PROVE f \in X
    OBVIOUS
  <2>1. f \in Files /\ f[2] \in ActivePaths(f[1])
    OBVIOUS
  <2>2. f = <<f[1], f[2]>>
    BY <2>1, FileShape
  <2>3. d[f] # Gone
    BY <2>1, <2>2, ActivePathsExist
  <2>4. d[f] \in Contents
    BY <2>1, <2>3 DEF DiskTyped
  <2> QED
    BY <2>1, <2>4 DEF X
<1>10. files = Retain(FileOrder, K)
  BY DEF IndexableFiles
<1> HIDE DEF K, files
<1>11. files \in Seq(Files) /\ Range(files) \subseteq K
  BY <1>9, <1>10, RetainRange
<1>12. IsInjective(files)
  BY <1>9, <1>10, RetainInjective
<1>13. \A f \in Range(files) : f \in X
  BY <1>11, <1>k
<1>14. files \in Seq(X)
  BY <1>11, <1>13 DEF Range
<1>15. files \in P
  <2> HIDE DEF P
  <2> QED
    BY <1>7, <1>8, <1>14, Read!SequenceInduction
<1>16. \A f \in Files : RecordsOf(All(files), f) = IF f \in Range(files) THEN AsRead(f) ELSE Nothing
  BY <1>12, <1>15
<1>17. IsIndex(All(files))
  BY <1>6, <1>14, <1>v
<1> DEFINE read == All(files)
<1> HIDE DEF read
<1>18. /\ IsIndex(RebuildComputedFields(read))
       /\ \A f : RecordsOf(RebuildComputedFields(read), f) = RecordsOf(read, f)
  BY <1>17, RebuiltRecords DEF read
<1>19. IsIndex(BuildDefIndex(project)) /\ \A f : RecordsOf(BuildDefIndex(project), f) = RecordsOf(All(files), f)
  BY <1>5, <1>18 DEF read
<1>20. \E i : IsIndex(i) /\ BuildDefIndex(project) = RebuildComputedFields(i)
  BY <1>5, <1>17
<1> QED
  BY <1>13, <1>16, <1>19, <1>20, <1>x DEF files

LEMMA TextInvInit == ASSUME Init PROVE TextInv
<1>1. DiskTyped
  <2>1. disk \in [Files -> Contents \cup {Gone}]
    BY EventsAssumption DEF Init
  <2>2. \A d \in Folders : away[d] = <<>>
    BY DEF Init
  <2>3. away = [d \in Folders |-> away[d]]
    BY DEF Init
  <2> QED
    BY <2>1, <2>2, <2>3 DEF DiskTyped
<1>2. /\ published.index = BuildDefIndex(active) /\ worker = IdleWorker
      /\ generation = 0 /\ watcherQueue = <<>> /\ pending = <<>> /\ jobQueue = <<>>
  BY DEF Init
<1>3. worker.pc = "idle" /\ worker.jobs = {} /\ worker.index = EmptyIndex /\ IsWorker(worker)
  BY <1>2, IdleShape
<1>4. WorkerTyped
  BY <1>3, EmptyRecords DEF WorkerTyped
<1>5. IsIndex(published.index)
  BY <1>1, <1>2, BuildRecords
<1>6. EventShapes
  BY <1>1, <1>2, <1>4, <1>5 DEF EventShapes
<1>7. ASSUME NEW f \in Files
      PROVE  SaysNow(published.index, f)
  <2>1. /\ RecordsOf(published.index, f)
             = IF f \in Range(IndexableFiles(active))
               THEN [defs |-> AddedDefs(f, disk[f]), errors |-> AddedErrors(f, disk[f])]
               ELSE Nothing
        /\ f \in Range(IndexableFiles(active)) => disk[f] \in Contents
    BY <1>1, <1>2, BuildRecords
  <2>2. CASE f \in Range(IndexableFiles(active))
    <3>1. disk[f] # Gone /\ ContentOf(f) = disk[f]
      BY <2>1, <2>2, EventsAssumption DEF ContentOf
    <3>2. Fresh(f) = [defs |-> AddedDefs(f, disk[f]), errors |-> AddedErrors(f, disk[f])]
      BY <1>6, <3>1, FreshIs
    <3> QED
      BY <2>1, <2>2, <3>1, <3>2 DEF SaysNow
  <2>3. CASE f \notin Range(IndexableFiles(active))
    BY <2>1, <2>3 DEF SaysNow, Nothing
  <2> QED
    BY <2>2, <2>3
<1>8. FilesSettled
  BY <1>3, <1>7 DEF FilesSettled, Settled
<1> QED
  BY <1>3, <1>6, <1>8 DEF TextInv, Rebuilding, Superseded

LEMMA TextInvNext == ASSUME TextInv, [Next]_vars PROVE TextInv'
<1>1. CASE Environment
  BY <1>1, WriteKeeps, SaveKeeps, DeleteKeeps, DeleteFileKeeps, MoveFolderOutKeeps,
     MoveFolderInKeeps, DeleteFolderKeeps, LoadFoldersKeep, SetActiveProjectKeeps DEF Environment
<1>2. CASE Worker
  BY <1>2, ReceiveJobsKeeps, ReceiveEventsKeeps, DrainReadyKeeps, FilesApplyKeeps,
     FilesPublishKeeps, RebuildScanKeeps, RebuildReadKeeps, RebuildPublishKeeps DEF Worker
<1>3. CASE UNCHANGED vars
  <2>1. UNCHANGED <<disk, away, generation, watcherQueue, jobQueue, pending, worker, published>>
    BY <1>3 DEF vars
  <2>2. \A f : Owed(f)' <=> Owed(f)
    BY <2>1 DEF Owed
  <2>3. Rebuilding' /\ FilesSettled'
    BY <2>1, <2>2, EnvironmentKeeps DEF TextInv
  <2> QED
    BY <2>1, <2>3 DEF TextInv, EventShapes, DiskTyped, WorkerTyped, Superseded
<1> QED
  BY <1>1, <1>2, <1>3 DEF Next

LEMMA TextInvText == ASSUME TextInv PROVE NoStaleText
<1> SUFFICES ASSUME Quiescent, NEW f \in Files
             PROVE  SaysNow(published.index, f)
  BY DEF NoStaleText, SaysNow
<1>1. ~Owed(f)
  BY EmptyRange DEF Quiescent, Owed, Tells
<1>2. Settled(f)
  BY <1>1 DEF TextInv, FilesSettled
<1> QED
  BY <1>2 DEF Settled, Quiescent

\* Once every event and every job is worked off, no file is indexed with a text it
\* had before, for any collection, any changes and any number of them.
THEOREM TextNeverStale == Spec => []NoStaleText
<1>1. Init => TextInv
  BY TextInvInit
<1>2. TextInv /\ [Next]_vars => TextInv'
  BY TextInvNext
<1>3. TextInv => NoStaleText
  BY TextInvText
<1> QED
  BY <1>1, <1>2, <1>3, PTL DEF Spec

-----------------------------------------------------------------------------
(* The index and its forms *)

\* A def is its six fields, and the source and the path it is stored with are four
\* of them.
LEMMA DefIs ==
    ASSUME NEW d \in Defs
    PROVE  d = [type |-> d.type, name |-> d.name, path |-> d.path, loc |-> d.loc,
                kind |-> d.kind, readOnly |-> d.readOnly]
  BY DEF Defs, DefOf

LEMMA RebuiltOnce ==
    ASSUME NEW index, IsIndex(index)
    PROVE  LET new == RebuildComputedFields(index)
           IN  RebuildComputedFields(new) = new
<1> DEFINE Table(defs) == [t \in TypesOf(defs) |-> {i \in DOMAIN defs : defs[i].type = t}]
           new == RebuildComputedFields(index)
<1>1. \A i : RebuildComputedFields(i) = [i EXCEPT !.byType = Table(i.defs)]
  BY DEF RebuildComputedFields
<1>2. new = [index EXCEPT !.byType = Table(index.defs)]
  BY <1>1
<1>3. RebuildComputedFields(new) = [new EXCEPT !.byType = Table(new.defs)]
  BY <1>1
<1> HIDE DEF new, Table
<1>4. new = [defs |-> index.defs, errors |-> index.errors, byType |-> Table(index.defs)]
  BY <1>2 DEF IsIndex
<1>5. new.defs = index.defs
  BY <1>4
<1> QED
  BY <1>3, <1>4, <1>5 DEF new

\* Through the by-type table every def of the index is found.
LEMMA TableFindsAll ==
    ASSUME NEW index, IsIndex(index), index = RebuildComputedFields(index)
    PROVE  SuggestCandidates(index, TypesOf(index.defs)) = DOMAIN index.defs
<1> DEFINE defs == index.defs
           table == [t \in TypesOf(defs) |-> {i \in DOMAIN defs : defs[i].type = t}]
<1>1. RebuildComputedFields(index) = [index EXCEPT !.byType = table]
  BY DEF RebuildComputedFields
<1> HIDE DEF table
<1>2. RebuildComputedFields(index) = [defs |-> index.defs, errors |-> index.errors, byType |-> table]
  BY <1>1 DEF IsIndex
<1>3. RebuildComputedFields(index).byType = table
  BY <1>2
<1>4. index.byType = table
  BY <1>3
<1>5. \A i \in DOMAIN defs : defs[i].type \in TypesOf(defs)
  BY DEF TypesOf, Range
<1>6. /\ DOMAIN table = TypesOf(defs)
      /\ \A t \in TypesOf(defs) : table[t] = {i \in DOMAIN defs : defs[i].type = t}
  BY DEF table
<1> HIDE DEF defs
<1>7. CASE DOMAIN table = {}
  <2>1. SuggestCandidates(index, TypesOf(defs)) = {i \in DOMAIN defs : defs[i].type \in TypesOf(defs)}
    BY <1>4, <1>7 DEF SuggestCandidates, defs
  <2> QED
    BY <1>5, <2>1 DEF defs
<1>8. CASE DOMAIN table # {}
  <2> DEFINE found == UNION {table[t] : t \in TypesOf(defs) \cap DOMAIN table}
  <2>1. SuggestCandidates(index, TypesOf(defs)) = found
    BY <1>4, <1>8 DEF SuggestCandidates, defs
  <2>2. found \subseteq DOMAIN defs
    BY <1>6
  <2>3. ASSUME NEW i \in DOMAIN defs PROVE i \in found
    <3>1. defs[i].type \in TypesOf(defs) /\ i \in table[defs[i].type]
      BY <1>5, <1>6
    <3> QED
      BY <1>6, <3>1
  <2> HIDE DEF found
  <2>4. found = DOMAIN defs
    BY <2>2, <2>3
  <2> QED
    BY <2>1, <2>4 DEF defs
<1> QED
  BY <1>7, <1>8

LEMMA OverlayRebuilt ==
    ASSUME NEW index, IsIndex(index), NEW f \in Files, NEW c \in Contents
    PROVE  LET new == ApplyReplacementOverlay(index, Locations, f[1], f[2], c)
           IN  IsIndex(new) /\ new = RebuildComputedFields(new)
<1> DEFINE without == RemoveFile(index, f[1], f[2])
           found == {l \in Range(Locations) : l.id = f[1]}
           laid == AddFile(without, LocationById(f[1]), f[2], c)
<1>1. IsIndex(without)
  BY RemoveFileRecords
<1>2. LocationById(f[1]) \in found
  BY FileShape
<1>3. (CHOOSE l \in found : TRUE) = LocationById(f[1])
  <2>1. (CHOOSE l \in found : TRUE) \in found
    BY <1>2
  <2> QED
    BY <1>2, <2>1, LocationsDiffer
<1>4. c # Unreadable /\ c \in Contents \cup {Unreadable}
  BY EventsAssumption
<1>5. ApplyReplacementOverlay(index, Locations, f[1], f[2], c) = RebuildComputedFields(laid)
  <2>1. laid = AddDocumentDefs(without, LocationById(f[1]), f[2], c)
    BY <1>4 DEF AddFile
  <2>2. ApplyReplacementOverlay(index, Locations, f[1], f[2], c)
          = RebuildComputedFields(AddDocumentDefs(without, CHOOSE l \in found : TRUE, f[2], c))
    BY <1>2 DEF ApplyReplacementOverlay
  <2> QED
    BY <1>3, <2>1, <2>2
<1> HIDE DEF without, found
<1>6. IsIndex(laid)
  BY <1>1, <1>4, AddFileIs
<1> HIDE DEF laid
<1>7. IsIndex(RebuildComputedFields(laid))
  BY <1>6, RebuiltRecords
<1>8. RebuildComputedFields(laid) = RebuildComputedFields(RebuildComputedFields(laid))
  BY <1>6, RebuiltOnce
<1> QED
  BY <1>5, <1>7, <1>8

-----------------------------------------------------------------------------
(* The disk cache *)

\* The place of an element, or 0.
LEMMA IndexOfIs ==
    ASSUME NEW S, NEW table \in Seq(S), NEW e
    PROVE  /\ e \in Range(table) => /\ IndexOf(table, e) \in DOMAIN table
                                    /\ table[IndexOf(table, e)] = e
                                    /\ IndexOf(table, e) # 0
           /\ IndexOf(table, e) # 0 => e \in Range(table)
<1> DEFINE I == {i \in 1 .. Len(table) : table[i] = e}
<1>1. IndexOf(table, e) = IF I # {} THEN Min(I) ELSE 0
  BY DEF IndexOf, SelectInSeq
<1>2. I \subseteq DOMAIN table /\ I \subseteq Nat /\ 0 \notin I /\ \A i \in I : table[i] = e
  OBVIOUS
<1>3. e \in Range(table) => I # {}
  BY DEF Range
<1> HIDE DEF I
<1>4. I # {} => Min(I) \in I
  <2> SUFFICES ASSUME I # {} PROVE Min(I) \in I
    OBVIOUS
  <2>1. PICK m \in I : \A k \in I : ~(k < m)
    BY <1>2, Kept!Least
  <2>2. \A k \in I : m <= k
    BY <1>2, <2>1
  <2> DEFINE Low(x) == \A y \in I : x <= y
  <2>3. Min(I) = CHOOSE x \in I : Low(x)
    BY DEF Min
  <2>4. Low(m)
    BY <2>2
  <2> HIDE DEF Low
  <2> QED
    BY <2>3, <2>4
<1> QED
  BY <1>1, <1>2, <1>3, <1>4 DEF Range

SourceStep(none, table, d) == AddSource(table, d)

Sourced == INSTANCE SequenceFolds WITH op <- SourceStep

Sources == {SourceOf(d) : d \in Defs}

LEMMA SourcesHold ==
    ASSUME NEW defs \in Seq(Defs)
    PROVE  /\ FoldLeft(AddSource, <<>>, defs) \in Seq(Sources)
           /\ \A d \in Range(defs) : SourceOf(d) \in Range(FoldLeft(AddSource, <<>>, defs))
<1> DEFINE base == <<>>
           V == Seq(Sources)
           All(s) == Sourced!Folded(0, base, s)
           P == {s \in Seq(Defs) : \A d \in Range(s) : SourceOf(d) \in Range(All(s))}
<1>0. \A s : FoldLeft(AddSource, <<>>, s) = All(s)
  BY DEF Sourced!Folded, SourceStep, FoldLeft, Sourced!FoldLeft, MapThenFoldSet,
         Sourced!MapThenFoldSet, Max, Sourced!Max
<1>1. ASSUME NEW table \in Seq(Sources), NEW d \in Defs
      PROVE  /\ AddSource(table, d) \in Seq(Sources)
             /\ Range(AddSource(table, d)) = Range(table) \cup {SourceOf(d)}
  <2>1. SourceOf(d) \in Sources
    BY DEF Sources
  <2>2. /\ Append(table, SourceOf(d)) \in Seq(Sources)
        /\ Range(Append(table, SourceOf(d))) = Range(table) \cup {SourceOf(d)}
    BY <2>1, AppendRange
  <2> QED
    BY <2>2 DEF AddSource, AddOnce
<1>2. Sourced!Steps(0, V, Defs) /\ base \in V
  BY <1>1 DEF Sourced!Steps, SourceStep
<1> HIDE DEF base, V
<1>3. /\ \A s \in Seq(Defs) : Sourced!Folded(0, base, s) \in V
      /\ \A s \in Seq(Defs), x \in Defs :
            Sourced!Folded(0, base, Append(s, x)) = SourceStep(0, Sourced!Folded(0, base, s), x)
  BY <1>2, Sourced!FoldLaws
<1>4. /\ \A s \in Seq(Defs) : All(s) \in Seq(Sources)
      /\ \A s \in Seq(Defs), x \in Defs : All(Append(s, x)) = AddSource(All(s), x)
  BY <1>3 DEF SourceStep, V
<1> HIDE DEF All
<1>5. <<>> \in P
  BY EmptyRange
<1>6. ASSUME NEW s \in Seq(Defs), NEW x \in Defs, s \in P
      PROVE  Append(s, x) \in P
  <2>1. Append(s, x) \in Seq(Defs) /\ Range(Append(s, x)) = Range(s) \cup {x}
    BY AppendRange
  <2>2. Range(All(Append(s, x))) = Range(All(s)) \cup {SourceOf(x)}
    BY <1>1, <1>4
  <2> QED
    BY <1>6, <2>1, <2>2
<1>7. defs \in P
  <2> HIDE DEF P
  <2> QED
    BY <1>5, <1>6, Sourced!SequenceInduction
<1> QED
  BY <1>0, <1>4, <1>7

Overflowed == INSTANCE SequenceFolds WITH op <- AddOverflow

PathRefs == {<<d.loc, d.path>> : d \in Defs}

\* Where the cache keeps the path of a def: in the fingerprints, or in the overflow.
LEMMA OverflowHolds ==
    ASSUME NEW fp \in Seq(Files), NEW defs \in Seq(Defs)
    PROVE  LET over == FoldLeft(LAMBDA t, d : AddOverflow(fp, t, d), <<>>, defs) IN
           /\ over \in Seq(PathRefs)
           /\ \A d \in Range(defs) : <<d.loc, d.path>> \in Range(fp) \cup Range(over)
<1> DEFINE base == <<>>
           V == Seq(PathRefs)
           All(s) == Overflowed!Folded(fp, base, s)
           P == {s \in Seq(Defs) : \A d \in Range(s) : <<d.loc, d.path>> \in Range(fp) \cup Range(All(s))}
<1>0. \A s : FoldLeft(LAMBDA t, d : AddOverflow(fp, t, d), <<>>, s) = All(s)
  BY DEF Overflowed!Folded, FoldLeft, Overflowed!FoldLeft, MapThenFoldSet,
         Overflowed!MapThenFoldSet, Max, Overflowed!Max
<1>1. ASSUME NEW table \in Seq(PathRefs), NEW d \in Defs
      PROVE  /\ AddOverflow(fp, table, d) \in Seq(PathRefs)
             /\ Range(table) \subseteq Range(AddOverflow(fp, table, d))
             /\ <<d.loc, d.path>> \in Range(fp) \cup Range(AddOverflow(fp, table, d))
  <2> DEFINE e == <<d.loc, d.path>>
  <2>1. e \in PathRefs
    BY DEF PathRefs
  <2>2. IndexOf(fp, e) # 0 => e \in Range(fp)
    BY IndexOfIs
  <2>3. AddOverflow(fp, table, d) = IF IndexOf(fp, e) # 0 \/ e \in Range(table) THEN table
                                    ELSE Append(table, e)
    BY DEF AddOverflow, AddOnce
  <2> HIDE DEF e
  <2>4. Append(table, e) \in Seq(PathRefs) /\ Range(Append(table, e)) = Range(table) \cup {e}
    BY <2>1, AppendRange
  <2> QED
    BY <2>2, <2>3, <2>4 DEF e
<1>9. base \in V
  OBVIOUS
<1> HIDE DEF base
<1>8. \A t \in V, d \in Defs : AddOverflow(fp, t, d) \in V
  BY <1>1 DEF V
<1> HIDE DEF V
<1>2. Overflowed!Steps(fp, V, Defs) /\ base \in V
  BY <1>8, <1>9 DEF Overflowed!Steps
<1>3. /\ \A s \in Seq(Defs) : Overflowed!Folded(fp, base, s) \in V
      /\ \A s \in Seq(Defs), x \in Defs :
            Overflowed!Folded(fp, base, Append(s, x)) = AddOverflow(fp, Overflowed!Folded(fp, base, s), x)
  BY <1>2, Overflowed!FoldLaws
<1>4. /\ \A s \in Seq(Defs) : All(s) \in Seq(PathRefs)
      /\ \A s \in Seq(Defs), x \in Defs : All(Append(s, x)) = AddOverflow(fp, All(s), x)
  BY <1>3 DEF V
<1> HIDE DEF All
<1>5. <<>> \in P
  BY EmptyRange
<1>6. ASSUME NEW s \in Seq(Defs), NEW x \in Defs, s \in P
      PROVE  Append(s, x) \in P
  <2>1. Append(s, x) \in Seq(Defs) /\ Range(Append(s, x)) = Range(s) \cup {x}
    BY AppendRange
  <2>2. /\ Range(All(s)) \subseteq Range(All(Append(s, x)))
        /\ <<x.loc, x.path>> \in Range(fp) \cup Range(All(Append(s, x)))
    BY <1>1, <1>4
  <2> QED
    BY <1>6, <2>1, <2>2
<1>7. defs \in P
  <2> HIDE DEF P
  <2> QED
    BY <1>5, <1>6, Overflowed!SequenceInduction
<1> QED
  BY <1>0, <1>4, <1>7

\* The disk form names every def by places in its tables, and every place is in its
\* table: nothing is dropped, and what is read back is what was written.
LEMMA CacheKeeps ==
    ASSUME NEW index, IsIndex(index), index = RebuildComputedFields(index), NEW fp \in Seq(Files)
    PROVE  RebuildComputedFields(FromDto(ToDto(fp, index))) = index
<1> DEFINE defs == index.defs
           sources == FoldLeft(AddSource, <<>>, defs)
           over == FoldLeft(LAMBDA t, d : AddOverflow(fp, t, d), <<>>, defs)
           Compact(d) == [type |-> d.type, name |-> d.name,
                          source |-> IndexOf(sources, SourceOf(d)),
                          path |-> PathRef(fp, over, d)]
           paths == [i \in DOMAIN over |-> over[i][2]]
           compact == [i \in DOMAIN defs |-> Compact(defs[i])]
           dto == ToDto(fp, index)
           Table(ref) == IF ref.inFingerprints THEN dto.fingerprints ELSE dto.overflow
           Sound(c) == c.path.index \in DOMAIN Table(c.path) /\ c.source \in DOMAIN dto.sources
           PathOf(ref) == IF ref.inFingerprints THEN dto.fingerprints[ref.index][2]
                          ELSE dto.overflow[ref.index]
           Full(c) == [type |-> c.type, name |-> c.name, path |-> PathOf(c.path),
                       loc |-> dto.sources[c.source].loc, kind |-> dto.sources[c.source].kind,
                       readOnly |-> dto.sources[c.source].readOnly]
           K == {c \in Range(dto.defs) : Sound(c)}
           sound == Retain(dto.defs, K)
<1>1. defs \in Seq(Defs)
  BY DEF IsIndex
<1>2. dto = [fingerprints |-> fp, sources |-> sources, overflow |-> paths, defs |-> compact,
             errors |-> index.errors]
  BY DEF ToDto
<1>3. FromDto(dto) = [defs |-> [i \in DOMAIN sound |-> Full(sound[i])], errors |-> dto.errors,
                      byType |-> <<>>]
  <2> HIDE DEF dto
  <2> QED
    BY DEF FromDto
<1>4. /\ sources \in Seq(Sources)
      /\ \A d \in Range(defs) : SourceOf(d) \in Range(sources)
  BY <1>1, SourcesHold
<1>5. /\ over \in Seq(PathRefs)
      /\ \A d \in Range(defs) : <<d.loc, d.path>> \in Range(fp) \cup Range(over)
  BY <1>1, OverflowHolds
<1> HIDE DEF sources, over, dto
<1>6. ASSUME NEW d \in Range(defs)
      PROVE  Sound(Compact(d)) /\ Full(Compact(d)) = d
  <2> DEFINE e == <<d.loc, d.path>>
             s == IndexOf(sources, SourceOf(d))
             p == IndexOf(fp, e)
             q == IndexOf(over, e)
             ref == PathRef(fp, over, d)
             c == Compact(d)
  <2>1. d \in Defs
    BY <1>1 DEF Range
  <2>2. s \in DOMAIN sources /\ sources[s] = SourceOf(d)
    BY <1>4, IndexOfIs
  <2>3. /\ e \in Range(fp) => p \in DOMAIN fp /\ fp[p] = e /\ p # 0
        /\ p # 0 => e \in Range(fp)
    BY IndexOfIs
  <2>4. e \in Range(over) => q \in DOMAIN over /\ over[q] = e
    BY <1>5, IndexOfIs
  <2>5. ref = IF p # 0 THEN [inFingerprints |-> TRUE, index |-> p]
              ELSE [inFingerprints |-> FALSE, index |-> q]
    BY DEF PathRef
  <2>6. e \in Range(fp) \cup Range(over)
    BY <1>5
  <2>7. e[2] = d.path
    OBVIOUS
  <2>8. c = [type |-> d.type, name |-> d.name, source |-> s, path |-> ref]
    OBVIOUS
  <2> HIDE DEF e, s, p, q, ref, c
  <2>9. ref.index \in DOMAIN Table(ref) /\ PathOf(ref) = d.path
    <3>1. CASE p # 0
      <4>1. ref.inFingerprints /\ ref.index = p /\ p \in DOMAIN fp /\ fp[p] = e
        BY <2>3, <2>5, <3>1
      <4>2. dto.fingerprints = fp
        BY <1>2
      <4> QED
        BY <2>7, <4>1, <4>2
    <3>2. CASE p = 0
      <4>1. ~ref.inFingerprints /\ ref.index = q /\ q \in DOMAIN over /\ over[q] = e
        BY <2>3, <2>4, <2>5, <2>6, <3>2
      <4>2. dto.overflow = paths
        BY <1>2
      <4> QED
        BY <2>7, <4>1, <4>2
    <3> QED
      BY <3>1, <3>2
  <2>10. dto.sources = sources
    BY <1>2
  <2>11. c.path = ref /\ c.source = s /\ c.type = d.type /\ c.name = d.name
    BY <2>8
  <2>12. Sound(c)
    BY <2>2, <2>9, <2>10, <2>11
  <2>13. Full(c) = [type |-> d.type, name |-> d.name, path |-> d.path, loc |-> SourceOf(d).loc,
                    kind |-> SourceOf(d).kind, readOnly |-> SourceOf(d).readOnly]
    BY <2>2, <2>9, <2>10, <2>11
  <2>14. Full(c) = d
    BY <2>1, <2>13, DefIs DEF SourceOf
  <2> QED
    BY <2>12, <2>14 DEF c
<1> HIDE DEF Compact, Sound, Full
<1>7. /\ DOMAIN compact = DOMAIN defs
      /\ \A i \in DOMAIN defs : compact[i] = Compact(defs[i]) /\ defs[i] \in Range(defs)
  BY DEF Range
<1>8. compact \in Seq(Range(compact))
  <2>1. DOMAIN defs = 1 .. Len(defs) /\ Len(defs) \in Nat
    BY <1>1
  <2>2. compact = [i \in 1 .. Len(defs) |-> Compact(defs[i])]
    BY <2>1
  <2>3. \A i \in 1 .. Len(defs) : Compact(defs[i]) \in Range(compact)
    BY <1>7, <2>1 DEF Range
  <2> QED
    BY <2>1, <2>2, <2>3
<1>9. dto.defs = compact /\ dto.errors = index.errors
  BY <1>2
<1>10. Range(compact) \subseteq K
  <2> SUFFICES ASSUME NEW i \in DOMAIN compact PROVE compact[i] \in K
    BY DEF Range
  <2>1. compact[i] \in Range(compact)
    BY DEF Range
  <2>2. Sound(compact[i])
    BY <1>6, <1>7
  <2> QED
    BY <1>9, <2>1, <2>2
<1> HIDE DEF K, compact
<1>11. Retain(compact, K) = compact
  BY <1>8, <1>10, RetainAll
<1>12. sound = compact
  BY <1>9, <1>11
<1>13. [i \in DOMAIN compact |-> Full(compact[i])] = defs
  <2>1. \A i \in DOMAIN defs : Full(compact[i]) = defs[i]
    BY <1>6, <1>7
  <2>2. defs = [i \in DOMAIN defs |-> defs[i]]
    BY <1>1
  <2> HIDE DEF defs
  <2> QED
    BY <1>7, <2>1, <2>2
<1>14. FromDto(dto) = [defs |-> defs, errors |-> index.errors, byType |-> <<>>]
  <2> HIDE DEF sound
  <2> QED
    BY <1>3, <1>9, <1>12, <1>13
<1> DEFINE Types(ds) == [t \in TypesOf(ds) |-> {i \in DOMAIN ds : ds[i].type = t}]
           read == FromDto(dto)
<1>15. \A i : RebuildComputedFields(i) = [i EXCEPT !.byType = Types(i.defs)]
  BY DEF RebuildComputedFields
<1> HIDE DEF Types, read, defs
<1>16. /\ read = [defs |-> defs, errors |-> index.errors, byType |-> <<>>]
       /\ index = [defs |-> defs, errors |-> index.errors, byType |-> index.byType]
  BY <1>14 DEF read, IsIndex, defs
<1>17. RebuildComputedFields(read) = [defs |-> defs, errors |-> index.errors, byType |-> Types(defs)]
  BY <1>15, <1>16
<1>18. index = [defs |-> defs, errors |-> index.errors, byType |-> Types(defs)]
  BY <1>15, <1>16
<1> QED
  BY <1>17, <1>18 DEF read, dto

-----------------------------------------------------------------------------
(* The published index: the invariant *)

\* What is published has its by-type table and the fingerprints of files.
Readable ==
    /\ IsIndex(published.index)
    /\ published.index = RebuildComputedFields(published.index)
    /\ published.fingerprints \in Seq(Files)

ReadInv == TextInv /\ Readable

LEMMA FilesScanned == \A project : IndexableFiles(project) \in Seq(Files)
<1> SUFFICES ASSUME NEW project PROVE IndexableFiles(project) \in Seq(Files)
  OBVIOUS
<1> DEFINE K == {f \in Files : \E l \in Range(IncludedLocations(Locations, project)) :
                    l.id = f[1] /\ f[2] \in ActivePaths(f[1])}
<1>1. FileOrder \in Seq(Files)
  <2>1. FileOrder \in Seq(LocationIds \X Seq(PathNames))
    BY EventsAssumption
  <2>2. \A i \in DOMAIN FileOrder : FileOrder[i] \in Files
    BY DEF Files, Range
  <2> QED
    BY <2>1, <2>2
<1>2. IndexableFiles(project) = Retain(FileOrder, K)
  BY DEF IndexableFiles
<1> HIDE DEF K
<1> QED
  BY <1>1, <1>2, RetainRange

LEMMA PublishedReadable ==
    ASSUME NEW project, NEW index, IsIndex(index),
           published' = Published(project, RebuildComputedFields(index))
    PROVE  Readable'
<1> DEFINE new == RebuildComputedFields(index)
<1>1. IsIndex(new) /\ new = RebuildComputedFields(new)
  BY RebuiltRecords, RebuiltOnce
<1>2. published'.index = new /\ published'.fingerprints = IndexableFiles(project)
  BY DEF Published
<1> HIDE DEF new
<1> QED
  BY <1>1, <1>2, FilesScanned DEF Readable

LEMMA SameReadable == ASSUME Readable, published' = published PROVE Readable'
  BY DEF Readable

LEMMA BuildRebuilt ==
    ASSUME DiskTyped, NEW project
    PROVE  BuildDefIndex(project) = RebuildComputedFields(BuildDefIndex(project))
<1>1. PICK read : IsIndex(read) /\ BuildDefIndex(project) = RebuildComputedFields(read)
  BY BuildRecords
<1> QED
  BY <1>1, RebuiltOnce

LEMMA ReadInvInit == ASSUME Init PROVE ReadInv
<1>1. TextInv /\ DiskTyped
  BY TextInvInit DEF TextInv, EventShapes
<1>2. /\ published.index = BuildDefIndex(active)
      /\ published.fingerprints = IndexableFiles(active)
  BY DEF Init
<1>3. IsIndex(published.index)
  BY <1>1, <1>2, BuildRecords
<1>4. published.index = RebuildComputedFields(published.index)
  BY <1>1, <1>2, BuildRebuilt
<1> QED
  BY <1>1, <1>2, <1>3, <1>4, FilesScanned DEF ReadInv, Readable

\* Only the two steps that publish change what is published.
LEMMA ReadInvNext == ASSUME ReadInv, [Next]_vars PROVE ReadInv'
<1>1. TextInv'
  BY TextInvNext DEF ReadInv
<1>2. CASE FilesPublish
  <2>1. IsIndex(worker.index)
    BY DEF ReadInv, TextInv, EventShapes, WorkerTyped
  <2>2. published' = published \/ published' = Published(worker.project, RebuildComputedFields(worker.index))
    BY <1>2 DEF FilesPublish
  <2>3. Readable'
    <3>1. CASE published' = published
      BY <3>1, SameReadable DEF ReadInv
    <3> QED
      BY <2>1, <2>2, <3>1, PublishedReadable
  <2> QED
    BY <1>1, <2>3 DEF ReadInv
<1>3. CASE RebuildPublish
  <2>1. /\ IsIndex(worker.index)
        /\ published' = Published(worker.project, RebuildComputedFields(worker.index))
    BY <1>3 DEF RebuildPublish, ReadInv, TextInv, EventShapes, WorkerTyped
  <2>2. Readable'
    BY <2>1, PublishedReadable
  <2> QED
    BY <1>1, <2>2 DEF ReadInv
<1>4. CASE published' = published
  BY <1>1, <1>4, SameReadable DEF ReadInv
<1>5. CASE Environment
  <2>1. published' = published
    BY <1>5 DEF Environment, Write, Save, Delete, DeleteFile, MoveFolderOut, MoveFolderIn,
                DeleteFolder, WriteLoadFolders, RemoveLoadFolders, SetActiveProject
  <2> QED
    BY <1>4, <2>1
<1>6. CASE Worker /\ ~FilesPublish /\ ~RebuildPublish
  <2>1. published' = published
    BY <1>6 DEF Worker, ReceiveJobs, ReceiveEvents, DrainReady, FilesApply, RebuildScan, RebuildRead
  <2> QED
    BY <1>4, <2>1
<1>7. CASE UNCHANGED vars
  BY <1>4, <1>7 DEF vars
<1> QED
  BY <1>2, <1>3, <1>5, <1>6, <1>7 DEF Next

LEMMA ReadInvReadable == ASSUME ReadInv PROVE IndexReadable
<1>1. Readable
  BY DEF ReadInv
<1>2. CacheKeepsIndex
  BY <1>1, CacheKeeps DEF CacheKeepsIndex, Readable
<1>3. ASSUME NEW f \in Files, NEW c \in Contents,
             NEW index \in {published.index,
                            ApplyReplacementOverlay(published.index, Locations, f[1], f[2], c)}
      PROVE  /\ index = RebuildComputedFields(index)
             /\ SuggestCandidates(index, TypesOf(index.defs)) = DOMAIN index.defs
  <2> DEFINE laid == ApplyReplacementOverlay(published.index, Locations, f[1], f[2], c)
  <2>1. IsIndex(laid) /\ laid = RebuildComputedFields(laid)
    BY <1>1, OverlayRebuilt DEF Readable
  <2>2. IsIndex(published.index) /\ published.index = RebuildComputedFields(published.index)
    BY <1>1 DEF Readable
  <2>3. index = published.index \/ index = laid
    OBVIOUS
  <2> HIDE DEF laid
  <2>4. IsIndex(index) /\ index = RebuildComputedFields(index)
    BY <2>1, <2>2, <2>3
  <2> QED
    BY <2>4, TableFindsAll
<1>4. TableMatchesDefs
  BY <1>3 DEF TableMatchesDefs
<1> QED
  BY <1>2, <1>4 DEF IndexReadable

\* What a query gets, with or without an unsaved document laid over it, finds all of
\* its Defs through the by-type table, and the disk cache gives back the index that
\* was written to it, for any collection, any changes and any number of them.
THEOREM IndexAlwaysReadable == Spec => []IndexReadable
<1>1. Init => ReadInv
  BY ReadInvInit
<1>2. ReadInv /\ [Next]_vars => ReadInv'
  BY ReadInvNext
<1>3. ReadInv => IndexReadable
  BY ReadInvReadable
<1> QED
  BY <1>1, <1>2, <1>3, PTL DEF Spec

================================================================================
