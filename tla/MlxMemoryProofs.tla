--------------------------- MODULE MlxMemoryProofs ---------------------------
(***************************************************************************)
(* For all prompts, answers, budgets, widths, windows, layers and experts: *)
(* the RAM store and the requests of MlxMemory keep their types and their  *)
(* contents, a request reuses what it can, a prefill leaves the next turn  *)
(* its restore point, and a rebalance is fair.                             *)
(*                                                                         *)
(* The model's operators are recursive functions and folds.  The first     *)
(* part derives recursion and induction, along a rank and over the subsets *)
(* of a finite set, in the form the later parts use them: a set stands for *)
(* the predicate, and a function for the operator.                         *)
(***************************************************************************)
EXTENDS MlxMemory, FunctionTheorems, FiniteSetTheorems, WellFoundedInduction, TLAPS

\* A set of numbers has a least element.
LEMMA LeastOf ==
    ASSUME NEW T, T \subseteq Nat, T # {}
    PROVE  \E x \in T : \A y \in T : x <= y
  <1>1. \E x \in T : \A y \in T : ~ (<<y, x>> \in OpToRel(<, Nat))
    BY NatLessThanWellFounded, WFMin
  <1>2. \E x \in T : \A y \in T : ~ (y < x)
    BY <1>1 DEF OpToRel
  <1> QED
    BY <1>2

\* ... and a greatest one, if it is bounded.
LEMMA GreatestOf ==
    ASSUME NEW T, T \subseteq Nat, T # {}, NEW n \in Nat, \A x \in T : x <= n
    PROVE  \E x \in T : \A y \in T : y <= x
  <1> DEFINE B == {b \in Nat : \A x \in T : x <= b}
  <1>1. PICK b \in B : \A c \in B : b <= c
    <2>1. n \in B
      OBVIOUS
    <2>2. B \subseteq Nat /\ B # {}
      BY <2>1
    <2> HIDE DEF B
    <2> QED
      BY <2>2, LeastOf
  <1>2. b \in T
    <2>1. CASE b = 0
      <3>1. PICK x \in T : TRUE
        OBVIOUS
      <3> QED
        BY <1>1, <2>1, <3>1
    <2>2. CASE b # 0 /\ b \notin T
      <3>1. b - 1 \in Nat /\ \A x \in T : x <= b - 1
        BY <1>1, <2>2
      <3> QED
        BY <1>1, <3>1
    <2> QED
      BY <2>1, <2>2
  <1> QED
    BY <1>1, <1>2

\* Induction along a rank: what every element inherits from those of a lower rank holds of all.
LEMMA RankInduction ==
    ASSUME NEW D, NEW rank \in [D -> Nat], NEW P,
           \A x \in D : (\A y \in D : rank[y] < rank[x] => y \in P) => x \in P
    PROVE  D \subseteq P
  <1> SUFFICES ASSUME NEW z \in D, z \notin P PROVE FALSE
    OBVIOUS
  <1> DEFINE T == {rank[x] : x \in {y \in D : y \notin P}}
  <1>1. PICK n \in T : \A m \in T : n <= m
    <2>1. T \subseteq Nat /\ T # {}
      OBVIOUS
    <2> HIDE DEF T
    <2> QED
      BY <2>1, LeastOf
  <1>2. PICK x \in D : x \notin P /\ n = rank[x]
    BY <1>1
  <1>3. \A y \in D : rank[y] < rank[x] => y \in P
    BY <1>1, <1>2, SMTT(30)
  <1> QED
    BY <1>2, <1>3

\* Induction on the numbers, for a set of them.
LEMMA NatInduct ==
    ASSUME NEW P, 0 \in P, \A n \in Nat : n \in P => n + 1 \in P
    PROVE  Nat \subseteq P
  <1> DEFINE rank == [n \in Nat |-> n]
  <1>1. rank \in [Nat -> Nat]
    OBVIOUS
  <1>2. \A x \in Nat : (\A y \in Nat : rank[y] < rank[x] => y \in P) => x \in P
    <2> TAKE x \in Nat
    <2> HAVE \A y \in Nat : rank[y] < rank[x] => y \in P
    <2>1. x = 0 \/ x - 1 \in Nat
      OBVIOUS
    <2> QED
      BY <2>1
  <1> HIDE DEF rank
  <1> QED
    BY <1>1, <1>2, RankInduction

\* A definition by recursion along a rank: the value at x is base[x], or what step[x] makes of
\* the value at prev[x].
Recursive(D, T, B, rank, prev, base, step) ==
    /\ rank \in [D -> Nat]
    /\ \A x \in D \cap B : base[x] \in T
    /\ \A x \in D \ B : /\ prev[x] \in D /\ rank[prev[x]] < rank[x]
                        /\ \A t \in T : step[x][t] \in T

Solves(g, D, B, prev, base, step) ==
    \A x \in D : g[x] = IF x \in B THEN base[x] ELSE step[x][g[prev[x]]]

\* There is a function that solves it.
LEMMA Recursion ==
    ASSUME NEW D, NEW T, NEW B, NEW rank, NEW prev, NEW base, NEW step,
           Recursive(D, T, B, rank, prev, base, step)
    PROVE  \E g \in [D -> T] : Solves(g, D, B, prev, base, step)
  <1>0. /\ rank \in [D -> Nat]
        /\ \A x \in D \cap B : base[x] \in T
        /\ \A x \in D \ B : /\ prev[x] \in D /\ rank[prev[x]] < rank[x]
                            /\ \A t \in T : step[x][t] \in T
    BY DEF Recursive
  <1> DEFINE Part(n) == {x \in D : rank[x] < n}
             Sol(n)  == {g \in [Part(n) -> T] :
                           \A x \in Part(n) : g[x] = IF x \in B THEN base[x] ELSE step[x][g[prev[x]]]}
  <1>1. \A n \in Nat : Sol(n) # {}
    <2> DEFINE P == {n \in Nat : Sol(n) # {}}
    <2>1. 0 \in P
      <3>1. Part(0) = {}
        BY <1>0
      <3>2. [x \in {} |-> x] \in Sol(0)
        BY <3>1
      <3> QED
        BY <3>2
    <2>2. ASSUME NEW n \in Nat, n \in P PROVE n + 1 \in P
      <3>1. PICK g \in [Part(n) -> T] :
                \A x \in Part(n) : g[x] = IF x \in B THEN base[x] ELSE step[x][g[prev[x]]]
        BY <2>2
      <3> DEFINE h == [x \in Part(n + 1) |-> IF x \in B THEN base[x] ELSE step[x][g[prev[x]]]]
      <3>2. \A x \in Part(n + 1) : x \in D /\ (x \notin B => prev[x] \in Part(n))
        <4> TAKE x \in Part(n + 1)
        <4>1. x \in D /\ rank[x] \in Nat /\ rank[x] < n + 1
          BY <1>0
        <4>2. CASE x \notin B
          <5>1. prev[x] \in D /\ rank[prev[x]] < rank[x]
            BY <1>0, <4>1, <4>2
          <5>2. rank[prev[x]] \in Nat
            BY <1>0, <5>1
          <5> QED
            BY <4>1, <5>1, <5>2
        <4> QED
          BY <4>1, <4>2
      <3>3. \A x \in Part(n) : x \in Part(n + 1) /\ h[x] = g[x]
        <4>1. \A x \in Part(n) : x \in Part(n + 1)
          BY <1>0
        <4> QED
          BY <3>1, <4>1
      <3>4. h \in [Part(n + 1) -> T]
        <4>1. ASSUME NEW x \in Part(n + 1) PROVE h[x] \in T
          <5>1. CASE x \in B
            BY <1>0, <5>1
          <5>2. CASE x \notin B
            <6>1. x \in D \ B /\ g[prev[x]] \in T
              BY <3>1, <3>2, <5>2
            <6> QED
              BY <1>0, <5>2, <6>1
          <5> QED
            BY <5>1, <5>2
        <4> QED
          BY <4>1
      <3>5. ASSUME NEW x \in Part(n + 1)
            PROVE  h[x] = IF x \in B THEN base[x] ELSE step[x][h[prev[x]]]
        <4>1. CASE x \in B
          BY <4>1
        <4>2. CASE x \notin B
          <5>1. h[prev[x]] = g[prev[x]]
            BY <3>2, <3>3, <4>2
          <5> QED
            BY <4>2, <5>1
        <4> QED
          BY <4>1, <4>2
      <3>6. h \in Sol(n + 1)
        <4> HIDE DEF h
        <4> QED
          BY <3>4, <3>5
      <3> HIDE DEF Sol, h
      <3> QED
        BY <3>6
    <2> HIDE DEF P
    <2>3. Nat \subseteq P
      BY <2>1, <2>2, NatInduct
    <2> QED
      BY <2>3 DEF P
  <1>2. ASSUME NEW m \in Nat, NEW n \in Nat, NEW g \in Sol(m), NEW h \in Sol(n)
        PROVE  \A x \in Part(m) \cap Part(n) : g[x] = h[x]
    <2> DEFINE P == {x \in D : x \in Part(m) \cap Part(n) => g[x] = h[x]}
    <2>1. ASSUME NEW x \in D, \A y \in D : rank[y] < rank[x] => y \in P
          PROVE  x \in P
      <3> SUFFICES ASSUME x \in Part(m) \cap Part(n) PROVE g[x] = h[x]
        OBVIOUS
      <3>1. CASE x \in B
        BY <3>1
      <3>2. CASE x \notin B
        <4>1. prev[x] \in D /\ rank[prev[x]] < rank[x] /\ rank[x] \in Nat /\ rank[prev[x]] \in Nat
          BY <1>0, <3>2
        <4>2. prev[x] \in Part(m) \cap Part(n)
          BY <4>1
        <4>3. g[prev[x]] = h[prev[x]]
          BY <2>1, <4>1, <4>2
        <4> QED
          BY <3>2, <4>3
      <3> QED
        BY <3>1, <3>2
    <2> HIDE DEF P
    <2>2. D \subseteq P
      BY <1>0, <2>1, RankInduction
    <2> QED
      BY <2>2 DEF P
  <1> DEFINE sol == [n \in Nat |-> CHOOSE g : g \in Sol(n)]
             f   == [x \in D |-> sol[rank[x] + 1][x]]
  <1>3. \A n \in Nat : sol[n] \in Sol(n)
    <2> HIDE DEF Sol
    <2> QED
      BY <1>1
  <1> HIDE DEF sol
  <1>4. ASSUME NEW x \in D
        PROVE  /\ rank[x] + 1 \in Nat /\ x \in Part(rank[x] + 1)
               /\ f[x] = sol[rank[x] + 1][x] /\ f[x] \in T
    <2>1. rank[x] + 1 \in Nat /\ x \in Part(rank[x] + 1)
      BY <1>0
    <2>2. sol[rank[x] + 1] \in [Part(rank[x] + 1) -> T]
      BY <1>3, <2>1
    <2> QED
      BY <2>1, <2>2
  <1>5. ASSUME NEW x \in D
        PROVE  f[x] = IF x \in B THEN base[x] ELSE step[x][f[prev[x]]]
    <2> DEFINE n == rank[x] + 1
    <2>1. n \in Nat /\ x \in Part(n) /\ f[x] = sol[n][x] /\ sol[n] \in Sol(n)
      BY <1>3, <1>4
    <2>2. sol[n][x] = IF x \in B THEN base[x] ELSE step[x][sol[n][prev[x]]]
      BY <2>1
    <2>3. CASE x \in B
      BY <2>1, <2>2, <2>3
    <2>4. CASE x \notin B
      <3>1. prev[x] \in D /\ rank[prev[x]] < rank[x] /\ rank[prev[x]] \in Nat /\ rank[x] \in Nat
        BY <1>0, <2>4
      <3> DEFINE m == rank[prev[x]] + 1
      <3>2. m \in Nat /\ prev[x] \in Part(m) /\ f[prev[x]] = sol[m][prev[x]] /\ sol[m] \in Sol(m)
        BY <1>3, <1>4, <3>1
      <3>3. prev[x] \in Part(n)
        BY <3>1
      <3>4. sol[n][prev[x]] = sol[m][prev[x]]
        <4> HIDE DEF n, m, Sol, Part, f
        <4> QED
          BY <1>2, <2>1, <3>2, <3>3
      <3> QED
        BY <2>1, <2>2, <2>4, <3>2, <3>4
    <2> QED
      BY <2>3, <2>4
  <1>6. f \in [D -> T]
    BY <1>4
  <1> HIDE DEF f
  <1> QED
    BY <1>5, <1>6 DEF Solves
\* Induction and recursion over the subsets of a finite set, one element at a time.
Inherited(P, S) == \A s \in SUBSET S : (\A x \in s : s \ {x} \in P) => s \in P

\* What a set inherits from the sets with one element less holds of every subset.
LEMMA SubsetInduction ==
    ASSUME NEW S, IsFiniteSet(S), NEW P, Inherited(P, S)
    PROVE  SUBSET S \subseteq P
  <1> DEFINE D    == SUBSET S
             rank == [s \in D |-> Cardinality(s)]
  <1>1. \A s \in D : /\ rank[s] = Cardinality(s) /\ Cardinality(s) \in Nat
                     /\ \A x \in s : Cardinality(s \ {x}) = Cardinality(s) - 1
    BY FS_Subset, FS_CardinalityType, FS_RemoveElement
  <1>2. rank \in [D -> Nat]
    BY <1>1
  <1> HIDE DEF rank
  <1>3. ASSUME NEW s \in D, \A t \in D : rank[t] < rank[s] => t \in P PROVE s \in P
    <2>1. ASSUME NEW x \in s PROVE s \ {x} \in P
      <3>1. s \ {x} \in D
        OBVIOUS
      <3>2. rank[s \ {x}] < rank[s]
        <4>1. rank[s \ {x}] = Cardinality(s \ {x})
          BY <1>1, <3>1
        <4>2. /\ rank[s] = Cardinality(s) /\ Cardinality(s) \in Nat
              /\ Cardinality(s \ {x}) = Cardinality(s) - 1
          BY <1>1
        <4> QED
          BY <4>1, <4>2
      <3> QED
        BY <1>3, <3>1, <3>2
    <2> QED
      BY <2>1 DEF Inherited
  <1> HIDE DEF D
  <1>4. D \subseteq P
    BY <1>2, <1>3, RankInduction
  <1> QED
    BY <1>4 DEF D

Picks(pick, S) == \A s \in SUBSET S : s # {} => pick[s] \in s

Folded(g, S, base, pick, step) ==
    \A s \in SUBSET S : g[s] = IF s = {} THEN base ELSE step[pick[s]][g[s \ {pick[s]}]]

\* There is a function on the subsets that takes one picked element after the other.
LEMMA SubsetRecursion ==
    ASSUME NEW S, IsFiniteSet(S), NEW T, NEW base \in T,
           NEW pick, Picks(pick, S),
           NEW step, \A x \in S : \A t \in T : step[x][t] \in T
    PROVE  \E g \in [SUBSET S -> T] : Folded(g, S, base, pick, step)
  <1>p. \A s \in SUBSET S : s # {} => pick[s] \in s
    BY DEF Picks
  <1> DEFINE D     == SUBSET S
             rank  == [s \in D |-> Cardinality(s)]
             prev  == [s \in D |-> s \ {pick[s]}]
             first == [s \in D |-> base]
             next  == [s \in D |-> step[pick[s]]]
  <1>1. \A s \in D : /\ rank[s] = Cardinality(s) /\ Cardinality(s) \in Nat
                     /\ s # {} => Cardinality(s \ {pick[s]}) = Cardinality(s) - 1
    BY <1>p, FS_Subset, FS_CardinalityType, FS_RemoveElement
  <1>2. rank \in [D -> Nat]
    BY <1>1
  <1>3. \A s \in D : prev[s] = s \ {pick[s]} /\ prev[s] \in D /\ first[s] = base /\ next[s] = step[pick[s]]
    OBVIOUS
  <1> HIDE DEF rank, prev, first, next
  <1>4. Recursive(D, T, {{}}, rank, prev, first, next)
    <2>1. ASSUME NEW s \in D \ {{}}
          PROVE  /\ prev[s] \in D /\ rank[prev[s]] < rank[s]
                 /\ \A t \in T : next[s][t] \in T
      <3>1. pick[s] \in S /\ s # {} /\ s \in D
        BY <1>p
      <3>2. rank[prev[s]] < rank[s]
        <4>1. rank[prev[s]] = Cardinality(s \ {pick[s]})
          BY <1>1, <1>3
        <4>2. /\ rank[s] = Cardinality(s) /\ Cardinality(s) \in Nat
              /\ Cardinality(s \ {pick[s]}) = Cardinality(s) - 1
          BY <1>1, <3>1
        <4> QED
          BY <4>1, <4>2
      <3> QED
        BY <1>3, <3>1, <3>2
    <2> HIDE DEF D
    <2> QED
      BY <1>2, <1>3, <2>1 DEF Recursive
  <1>5. PICK g \in [D -> T] : Solves(g, D, {{}}, prev, first, next)
    BY <1>4, Recursion
  <1>6. ASSUME NEW s \in D
        PROVE  g[s] = IF s = {} THEN base ELSE step[pick[s]][g[s \ {pick[s]}]]
    <2>1. g[s] = IF s \in {{}} THEN first[s] ELSE next[s][g[prev[s]]]
      BY <1>5, Zenon DEF Solves
    <2> QED
      BY <1>3, <2>1
  <1> QED
    BY <1>6 DEF Folded


----------------------------------------------------------------------------
(* A sequence without one of its elements.                                 *)

\* What is left without the element at i.
LEMMA Removal ==
    ASSUME NEW S, NEW s \in Seq(S), NEW i \in 1..Len(s)
    PROVE  /\ RemoveAt(s, i) \in Seq(S) /\ Len(RemoveAt(s, i)) = Len(s) - 1
           /\ \A j \in 1..(Len(s) - 1) : RemoveAt(s, i)[j] = IF j < i THEN s[j] ELSE s[j + 1]
  <1> DEFINE a == SubSeq(s, 1, i - 1)
             b == SubSeq(s, i + 1, Len(s))
  <1>1. a \in Seq(S) /\ Len(a) = i - 1 /\ \A j \in 1..(i - 1) : a[j] = s[j]
    OBVIOUS
  <1>2. b \in Seq(S) /\ Len(b) = Len(s) - i /\ \A j \in 1..(Len(s) - i) : b[j] = s[i + j]
    OBVIOUS
  <1>3. RemoveAt(s, i) = a \o b
    BY DEF RemoveAt
  <1> HIDE DEF a, b
  <1>4. a \o b \in Seq(S) /\ Len(a \o b) = Len(s) - 1
    <2>1. a \o b \in Seq(S) /\ Len(a \o b) = Len(a) + Len(b)
      <3>1. a \in Seq(S) /\ b \in Seq(S)
        BY <1>1, <1>2
      <3> QED
        BY <3>1
    <2> QED
      BY <1>1, <1>2, <2>1
  <1>5. ASSUME NEW j \in 1..(Len(s) - 1)
        PROVE  (a \o b)[j] = IF j < i THEN s[j] ELSE s[j + 1]
    <2>1. CASE j < i
      BY <1>1, <1>2, <2>1
    <2>2. CASE ~(j < i)
      <3>1. (a \o b)[j] = b[j - (i - 1)] /\ j - (i - 1) \in 1..(Len(s) - i)
        BY <1>1, <1>2, <2>2
      <3> QED
        BY <1>2, <2>2, <3>1
    <2> QED
      BY <2>1, <2>2
  <1> QED
    BY <1>3, <1>4, <1>5

\* The first place of a nonempty set of places.
LEMMA FirstPlace ==
    ASSUME NEW I, I \subseteq Nat, I # {}
    PROVE  Min(I) \in I /\ \A j \in I : Min(I) <= j
  <1>1. \E x \in I : \A y \in I : x =< y
    BY LeastOf
  <1> QED
    BY <1>1 DEF Min

\* Nothing had these tokens, or the entry that had them is gone.
LEMMA WithoutKeyIs ==
    ASSUME NEW S, NEW es \in Seq(S), NEW key
    PROVE  \/ WithoutKey(es, key) = es /\ \A i \in 1..Len(es) : es[i].tokens # key
           \/ \E i \in 1..Len(es) : es[i].tokens = key /\ WithoutKey(es, key) = RemoveAt(es, i)
  <1> DEFINE I == {i \in 1..Len(es) : es[i].tokens = key}
  <1>1. CASE I = {}
    BY <1>1 DEF WithoutKey, RemoveFirstMatch
  <1>2. CASE I # {}
    <2>1. I \subseteq Nat /\ Min(I) \in I
      <3>1. I \subseteq Nat
        OBVIOUS
      <3> HIDE DEF I
      <3> QED
        BY <1>2, <3>1, FirstPlace
    <2>2. WithoutKey(es, key) = RemoveAt(es, Min(I))
      BY <1>2 DEF WithoutKey, RemoveFirstMatch, SelectInSeq
    <2> QED
      BY <2>1, <2>2
  <1> QED
    BY <1>1, <1>2

\* The same of the order of use.
LEMMA RemoveFirstIs ==
    ASSUME NEW S, NEW s \in Seq(S), NEW key
    PROVE  \/ RemoveFirst(s, key) = s /\ \A i \in 1..Len(s) : s[i] # key
           \/ \E i \in 1..Len(s) : /\ s[i] = key /\ RemoveFirst(s, key) = RemoveAt(s, i)
                                   /\ \A j \in 1..Len(s) : s[j] = key => i <= j
  <1> DEFINE I == {i \in 1..Len(s) : s[i] = key}
  <1>1. CASE I = {}
    BY <1>1 DEF RemoveFirst
  <1>2. CASE I # {}
    <2>1. I \subseteq Nat /\ Min(I) \in I /\ \A j \in I : Min(I) <= j
      <3>1. I \subseteq Nat
        OBVIOUS
      <3> HIDE DEF I
      <3> QED
        BY <1>2, <3>1, FirstPlace
    <2>2. RemoveFirst(s, key) = RemoveAt(s, Min(I))
      BY <1>2 DEF RemoveFirst, SelectInSeq
    <2> QED
      BY <2>1, <2>2
  <1> QED
    BY <1>1, <1>2

----------------------------------------------------------------------------
(* The store.                                                              *)

Store == [entries : Seq(Snapshot), recent : Seq(Seq(Token))]

\* The entries and the order of their use name the same prefixes, each once.
KeysOnce(es)   == \A i, j \in 1..Len(es) : es[i].tokens = es[j].tokens => i = j
Once(rs)       == \A i, j \in 1..Len(rs) : rs[i] = rs[j] => i = j
Ranked(es, rs) == \A i \in 1..Len(es) : \E j \in 1..Len(rs) : rs[j] = es[i].tokens
Backed(es, rs) == \A i \in 1..Len(rs) : \E j \in 1..Len(es) : es[j].tokens = rs[i]

Orderly(st) ==
    /\ st \in Store /\ Len(st.recent) = Len(st.entries)
    /\ KeysOnce(st.entries) /\ Once(st.recent)
    /\ Ranked(st.entries, st.recent) /\ Backed(st.entries, st.recent)

Has(st, key) == \E i \in 1..Len(st.entries) : st.entries[i].tokens = key

\* Nothing in it but what is in another store.
Within(st, other) ==
    \A i \in 1..Len(st.entries) : \E j \in 1..Len(other.entries) : st.entries[i] = other.entries[j]

Forgotten(st, key) ==
    [entries |-> WithoutKey(st.entries, key), recent |-> RemoveFirst(st.recent, key)]

\* A sequence without one of its elements keeps the others, in their order: what is at j was
\* at at[j].
Keeps(new, s, k, at) ==
    /\ at \in [1..(Len(s) - 1) -> 1..Len(s)] /\ Len(new) = Len(s) - 1
    /\ \A j \in 1..(Len(s) - 1) : at[j] # k /\ new[j] = s[at[j]]
    /\ \A i, j \in 1..(Len(s) - 1) : at[i] = at[j] => i = j
    /\ \A i \in 1..Len(s) : i # k => \E j \in 1..(Len(s) - 1) : at[j] = i

\* Removing one place keeps the others.
LEMMA RemovalKeeps ==
    ASSUME NEW S, NEW s \in Seq(S), NEW k \in 1..Len(s)
    PROVE  RemoveAt(s, k) \in Seq(S) /\ \E at : Keeps(RemoveAt(s, k), s, k, at)
  <1> DEFINE at == [j \in 1..(Len(s) - 1) |-> IF j < k THEN j ELSE j + 1]
  <1>1. /\ RemoveAt(s, k) \in Seq(S) /\ Len(RemoveAt(s, k)) = Len(s) - 1
        /\ \A j \in 1..(Len(s) - 1) : RemoveAt(s, k)[j] = IF j < k THEN s[j] ELSE s[j + 1]
    BY Removal
  <1>2. /\ at \in [1..(Len(s) - 1) -> 1..Len(s)]
        /\ \A j \in 1..(Len(s) - 1) : at[j] = IF j < k THEN j ELSE j + 1
    OBVIOUS
  <1> HIDE DEF at
  <1>3. \A j \in 1..(Len(s) - 1) : at[j] # k /\ RemoveAt(s, k)[j] = s[at[j]]
    BY <1>1, <1>2
  <1>4. \A i, j \in 1..(Len(s) - 1) : at[i] = at[j] => i = j
    BY <1>2
  <1>5. ASSUME NEW i \in 1..Len(s), i # k PROVE \E j \in 1..(Len(s) - 1) : at[j] = i
    <2>1. (IF i < k THEN i ELSE i - 1) \in 1..(Len(s) - 1)
      BY <1>5
    <2>2. at[IF i < k THEN i ELSE i - 1] = i
      BY <1>2, <1>5, <2>1
    <2> QED
      BY <2>1, <2>2
  <1> QED
    BY <1>1, <1>2, <1>3, <1>4, <1>5 DEF Keeps

\* A store that forgets a prefix stays orderly and keeps all others.
LEMMA Forgets ==
    ASSUME NEW st, Orderly(st), NEW key
    PROVE  /\ Orderly(Forgotten(st, key)) /\ Within(Forgotten(st, key), st)
           /\ ~Has(Forgotten(st, key), key)
           /\ \A other : Has(st, other) /\ other # key => Has(Forgotten(st, key), other)
           /\ Has(st, key) => Len(Forgotten(st, key).entries) = Len(st.entries) - 1
           /\ ~Has(st, key) => Forgotten(st, key) = st
  <1>0. PICK es \in Seq(Snapshot), rs \in Seq(Seq(Token)) : st = [entries |-> es, recent |-> rs]
    BY DEF Orderly, Store
  <1>1. /\ st.entries = es /\ st.recent = rs /\ Len(rs) = Len(es)
    BY <1>0 DEF Orderly
  <1>e. \A i, j \in 1..Len(es) : es[i].tokens = es[j].tokens => i = j
    BY <1>0 DEF Orderly, KeysOnce
  <1>r. \A i, j \in 1..Len(rs) : rs[i] = rs[j] => i = j
    BY <1>0 DEF Orderly, Once
  <1>er. \A i \in 1..Len(es) : \E j \in 1..Len(rs) : rs[j] = es[i].tokens
    BY <1>0 DEF Orderly, Ranked
  <1>re. \A i \in 1..Len(rs) : \E j \in 1..Len(es) : es[j].tokens = rs[i]
    BY <1>0 DEF Orderly, Backed
  <1>2. PICK fe, fr : /\ fe = WithoutKey(es, key) /\ fr = RemoveFirst(rs, key)
                      /\ Forgotten(st, key) = [entries |-> fe, recent |-> fr]
    BY <1>1 DEF Forgotten
  <1>3. CASE ~Has(st, key)
    <2>1. \A i \in 1..Len(es) : es[i].tokens # key
      BY <1>1, <1>3 DEF Has
    <2>2. \A i \in 1..Len(rs) : rs[i] # key
      BY <1>re, <2>1
    <2>3. fe = es
      BY <1>2, <2>1, WithoutKeyIs
    <2>4. fr = rs
      BY <1>2, <2>2, RemoveFirstIs
    <2>5. Forgotten(st, key) = st
      BY <1>0, <1>2, <2>3, <2>4
    <2> QED
      BY <1>3, <2>5 DEF Within
  <1>4. CASE Has(st, key)
    <2>1. PICK m \in 1..Len(es) : es[m].tokens = key /\ fe = RemoveAt(es, m)
      <3>1. \E i \in 1..Len(es) : es[i].tokens = key
        BY <1>1, <1>4 DEF Has
      <3> QED
        BY <1>2, <3>1, WithoutKeyIs
    <2>2. PICK n \in 1..Len(rs) : rs[n] = key /\ fr = RemoveAt(rs, n)
      <3>1. \E i \in 1..Len(rs) : rs[i] = key
        BY <1>er, <2>1
      <3> QED
        BY <1>2, <3>1, RemoveFirstIs
    <2>3. PICK at : fe \in Seq(Snapshot) /\ Keeps(fe, es, m, at)
      BY <2>1, RemovalKeeps
    <2>4. PICK rt : fr \in Seq(Seq(Token)) /\ Keeps(fr, rs, n, rt)
      BY <2>2, RemovalKeeps
    <2>5. /\ at \in [1..(Len(es) - 1) -> 1..Len(es)] /\ Len(fe) = Len(es) - 1
          /\ \A j \in 1..Len(fe) : at[j] \in 1..Len(es) /\ at[j] # m /\ fe[j] = es[at[j]]
          /\ \A i, j \in 1..Len(fe) : at[i] = at[j] => i = j
      BY <2>3 DEF Keeps
    <2>e. \A i \in 1..Len(es) : i # m => \E j \in 1..Len(fe) : at[j] = i
      BY <2>3 DEF Keeps
    <2>6. /\ rt \in [1..(Len(rs) - 1) -> 1..Len(rs)] /\ Len(fr) = Len(rs) - 1
          /\ \A j \in 1..Len(fr) : rt[j] \in 1..Len(rs) /\ rt[j] # n /\ fr[j] = rs[rt[j]]
          /\ \A i, j \in 1..Len(fr) : rt[i] = rt[j] => i = j
      BY <2>4 DEF Keeps
    <2>r. \A i \in 1..Len(rs) : i # n => \E j \in 1..Len(fr) : rt[j] = i
      BY <2>4 DEF Keeps
    <2>7. ASSUME NEW i \in 1..Len(fe) PROVE \E j \in 1..Len(fr) : fr[j] = fe[i].tokens
      <3>1. PICK l \in 1..Len(rs) : rs[l] = es[at[i]].tokens
        BY <1>er, <2>5
      <3>2. l # n
        <4>1. es[at[i]].tokens # es[m].tokens
          BY <1>e, <2>5
        <4> QED
          BY <2>1, <2>2, <3>1, <4>1
      <3>3. PICK j \in 1..Len(fr) : rt[j] = l
        BY <2>r, <3>2
      <3> QED
        BY <2>5, <2>6, <3>1, <3>3
    <2>8. ASSUME NEW i \in 1..Len(fr) PROVE \E j \in 1..Len(fe) : fe[j].tokens = fr[i]
      <3>1. PICK l \in 1..Len(es) : es[l].tokens = rs[rt[i]]
        BY <1>re, <2>6
      <3>2. l # m
        <4>1. rs[rt[i]] # rs[n]
          BY <1>r, <2>6
        <4> QED
          BY <2>1, <2>2, <3>1, <4>1
      <3>3. PICK j \in 1..Len(fe) : at[j] = l
        BY <2>e, <3>2
      <3> QED
        BY <2>5, <2>6, <3>1, <3>3
    <2>9. \A i, j \in 1..Len(fe) : fe[i].tokens = fe[j].tokens => i = j
      BY <1>e, <2>5, SMTT(30)
    <2>10. \A i, j \in 1..Len(fr) : fr[i] = fr[j] => i = j
      BY <1>r, <2>6
    <2>11. Orderly(Forgotten(st, key))
      <3>1. /\ Forgotten(st, key) \in Store /\ Len(fr) = Len(fe)
            /\ Forgotten(st, key).entries = fe /\ Forgotten(st, key).recent = fr
        BY <1>1, <1>2, <2>3, <2>4, <2>5, <2>6 DEF Store
      <3> QED
        BY <2>7, <2>8, <2>9, <2>10, <3>1 DEF Orderly, KeysOnce, Once, Ranked, Backed
    <2>12. Within(Forgotten(st, key), st)
      <3>1. Forgotten(st, key).entries = fe
        BY <1>2
      <3>2. \A i \in 1..Len(fe) : \E j \in 1..Len(es) : fe[i] = es[j]
        BY <2>5
      <3> QED
        BY <1>1, <3>1, <3>2 DEF Within
    <2>13. ~Has(Forgotten(st, key), key)
      <3>1. \A j \in 1..Len(fe) : fe[j].tokens # key
        BY <1>e, <2>1, <2>5, ZenonT(60)
      <3> QED
        BY <1>2, <3>1 DEF Has
    <2>14. ASSUME NEW other, Has(st, other), other # key PROVE Has(Forgotten(st, key), other)
      <3>1. PICK k \in 1..Len(es) : es[k].tokens = other
        BY <1>1, <2>14 DEF Has
      <3>2. k # m
        BY <2>1, <2>14, <3>1
      <3>3. PICK j \in 1..Len(fe) : at[j] = k
        BY <2>e, <3>2
      <3>4. fe[j].tokens = other
        BY <2>5, <3>1, <3>3
      <3>5. Forgotten(st, key).entries = fe
        BY <1>2
      <3> QED
        BY <3>4, <3>5 DEF Has
    <2> QED
      BY <1>1, <1>2, <1>4, <2>5, <2>11, <2>12, <2>13, <2>14
  <1> QED
    BY <1>3, <1>4

\* An entry that is not under this key stays, whatever else is forgotten.
LEMMA WithinChain ==
    ASSUME NEW a, NEW b, NEW c, Within(a, b), Within(b, c)
    PROVE  Within(a, c)
  BY DEF Within

\* A use moves a prefix to the end of the order.
Used(st, key) == [entries |-> st.entries, recent |-> Append(RemoveFirst(st.recent, key), key)]

\* An insertion, before it makes room.
Added(st, tokens, fed) ==
    [entries |-> Append(WithoutKey(st.entries, tokens), [tokens |-> tokens, fed |-> fed]),
     recent  |-> Append(RemoveFirst(st.recent, tokens), tokens)]

\* An insertion keeps the store orderly, with the new snapshot used last.
LEMMA Adds ==
    ASSUME NEW st, Orderly(st), NEW tokens \in Seq(Token), NEW fed \in Seq(Token)
    PROVE  LET new == Added(st, tokens, fed)
           IN  /\ Orderly(new) /\ Has(new, tokens) /\ new.recent[Len(new.recent)] = tokens
               /\ Len(new.entries) > 0
               /\ \A i \in 1..Len(new.entries) :
                     \/ new.entries[i] = [tokens |-> tokens, fed |-> fed]
                     \/ \E j \in 1..Len(st.entries) : new.entries[i] = st.entries[j]
  <1> DEFINE new == Added(st, tokens, fed)
             old == Forgotten(st, tokens)
             e   == [tokens |-> tokens, fed |-> fed]
  <1>1. Orderly(old) /\ Within(old, st) /\ ~Has(old, tokens)
    BY Forgets
  <1>2. PICK es \in Seq(Snapshot), rs \in Seq(Seq(Token)) :
            old = [entries |-> es, recent |-> rs] /\ Len(rs) = Len(es)
    BY <1>1 DEF Orderly, Store
  <1>3. new = [entries |-> Append(es, e), recent |-> Append(rs, tokens)]
    BY <1>2 DEF Forgotten, Added
  <1>k. KeysOnce(es) /\ Once(rs) /\ Ranked(es, rs) /\ Backed(es, rs)
    BY <1>1, <1>2 DEF Orderly
  <1>4. e \in Snapshot /\ e.tokens = tokens
    BY DEF Snapshot
  <1> HIDE DEF new, old, e
  <1>5. PICK fe, fr : /\ fe = Append(es, e) /\ fr = Append(rs, tokens)
                      /\ new.entries = fe /\ new.recent = fr /\ new = [entries |-> fe, recent |-> fr]
    BY <1>3
  <1>6. /\ fe \in Seq(Snapshot) /\ Len(fe) = Len(es) + 1 /\ fe[Len(es) + 1] = e
        /\ \A i \in 1..Len(es) : fe[i] = es[i]
    BY <1>4, <1>5
  <1>7. /\ fr \in Seq(Seq(Token)) /\ Len(fr) = Len(es) + 1 /\ fr[Len(es) + 1] = tokens
        /\ \A i \in 1..Len(es) : fr[i] = rs[i]
    BY <1>2, <1>5
  <1>8. Len(es) \in Nat /\ \A i \in 1..(Len(es) + 1) : i = Len(es) + 1 \/ i \in 1..Len(es)
    BY <1>2
  <1>9. \A i \in 1..Len(es) : es[i].tokens # tokens
    BY <1>1, <1>2 DEF Has
  <1>10. \A i \in 1..Len(es) : rs[i] # tokens
    <2>1. \A i \in 1..Len(es) : \E j \in 1..Len(es) : es[j].tokens = rs[i]
      BY <1>2, <1>k DEF Backed
    <2> QED
      BY <1>9, <2>1
  <1>11. \A i, j \in 1..Len(fe) : fe[i].tokens = fe[j].tokens => i = j
    <2>1. \A i, j \in 1..Len(es) : es[i].tokens = es[j].tokens => i = j
      BY <1>2, <1>k DEF KeysOnce
    <2> QED
      BY <1>4, <1>6, <1>8, <1>9, <2>1
  <1>12. \A i, j \in 1..Len(fr) : fr[i] = fr[j] => i = j
    <2>1. \A i, j \in 1..Len(es) : rs[i] = rs[j] => i = j
      BY <1>2, <1>k DEF Once
    <2> QED
      BY <1>7, <1>8, <1>10, <2>1
  <1>13. \A i \in 1..Len(fe) : \E j \in 1..Len(fr) : fr[j] = fe[i].tokens
    <2>1. \A i \in 1..Len(es) : \E j \in 1..Len(es) : rs[j] = es[i].tokens
      BY <1>2, <1>k DEF Ranked
    <2>2. \A i \in 1..Len(es) : \E j \in 1..Len(fr) : fr[j] = es[i].tokens
      <3> TAKE i \in 1..Len(es)
      <3>1. PICK j \in 1..Len(es) : rs[j] = es[i].tokens
        BY <2>1
      <3>2. j \in 1..Len(fr) /\ fr[j] = rs[j]
        BY <1>7, <1>8
      <3> QED
        BY <3>1, <3>2
    <2> QED
      BY <1>4, <1>6, <1>7, <1>8, <2>2
  <1>14. \A i \in 1..Len(fr) : \E j \in 1..Len(fe) : fe[j].tokens = fr[i]
    <2>1. \A i \in 1..Len(es) : \E j \in 1..Len(es) : es[j].tokens = rs[i]
      BY <1>2, <1>k DEF Backed
    <2>2. \A i \in 1..Len(es) : \E j \in 1..Len(fe) : fe[j].tokens = rs[i]
      <3> TAKE i \in 1..Len(es)
      <3>1. PICK j \in 1..Len(es) : es[j].tokens = rs[i]
        BY <2>1
      <3>2. j \in 1..Len(fe) /\ fe[j] = es[j]
        BY <1>6, <1>8
      <3> QED
        BY <3>1, <3>2
    <2> QED
      BY <1>4, <1>6, <1>7, <1>8, <2>2
  <1>15. Orderly(new)
    <2>1. new \in Store
      BY <1>5, <1>6, <1>7 DEF Store
    <2> QED
      BY <1>5, <1>6, <1>7, <1>11, <1>12, <1>13, <1>14, <2>1, ZenonT(60) DEF Orderly, KeysOnce, Once, Ranked, Backed
  <1>16. Has(new, tokens)
    <2>1. Len(es) + 1 \in 1..Len(fe)
      BY <1>6, <1>8
    <2> QED
      BY <1>4, <1>5, <1>6, <2>1 DEF Has
  <1>17. ASSUME NEW i \in 1..Len(fe)
         PROVE  fe[i] = e \/ \E j \in 1..Len(st.entries) : fe[i] = st.entries[j]
    <2>1. CASE i = Len(es) + 1
      BY <1>6, <2>1
    <2>2. CASE i \in 1..Len(es)
      <3>1. \A k \in 1..Len(es) : \E j \in 1..Len(st.entries) : es[k] = st.entries[j]
        BY <1>1, <1>2 DEF Within
      <3> QED
        BY <1>6, <2>2, <3>1
    <2> QED
      BY <1>6, <1>8, <2>1, <2>2
  <1> QED
    <2>1. /\ Orderly(new) /\ Has(new, tokens) /\ new.recent[Len(new.recent)] = tokens
          /\ Len(new.entries) > 0
      BY <1>5, <1>6, <1>7, <1>8, <1>15, <1>16
    <2>2. \A i \in 1..Len(new.entries) :
              new.entries[i] = e \/ \E j \in 1..Len(st.entries) : new.entries[i] = st.entries[j]
      BY <1>5, <1>17
    <2> QED
      BY <2>1, <2>2 DEF new, e

\* A use keeps the store orderly, and its entries.
LEMMA Uses ==
    ASSUME NEW st, Orderly(st), NEW key, Has(st, key)
    PROVE  Orderly(Used(st, key)) /\ Used(st, key).entries = st.entries
  <1>1. PICK es \in Seq(Snapshot), rs \in Seq(Seq(Token)) : st = [entries |-> es, recent |-> rs]
    BY DEF Orderly, Store
  <1>2. PICK n \in 1..Len(es) : es[n].tokens = key
    BY <1>1 DEF Has
  <1>3. key \in Seq(Token)
    <2>1. es[n] \in Snapshot
      BY <1>2
    <2> QED
      BY <1>2, <2>1 DEF Snapshot
  <1>er. \A i \in 1..Len(es) : \E j \in 1..Len(rs) : rs[j] = es[i].tokens
    BY <1>1 DEF Orderly, Ranked
  <1>re. \A i \in 1..Len(rs) : \E j \in 1..Len(es) : es[j].tokens = rs[i]
    BY <1>1 DEF Orderly, Backed
  <1>e. \A i, j \in 1..Len(es) : es[i].tokens = es[j].tokens => i = j
    BY <1>1 DEF Orderly, KeysOnce
  <1>r. \A i, j \in 1..Len(rs) : rs[i] = rs[j] => i = j
    BY <1>1 DEF Orderly, Once
  <1>4. PICK m \in 1..Len(rs) : rs[m] = key /\ RemoveFirst(rs, key) = RemoveAt(rs, m)
    <2>1. \E i \in 1..Len(rs) : rs[i] = key
      BY <1>2, <1>er
    <2> QED
      BY <2>1, RemoveFirstIs
  <1>5. PICK left, at : left = RemoveAt(rs, m) /\ left \in Seq(Seq(Token)) /\ Keeps(left, rs, m, at)
    BY RemovalKeeps
  <1>6. PICK fr : fr = Append(left, key) /\ Used(st, key) = [entries |-> es, recent |-> fr]
    BY <1>1, <1>4, <1>5 DEF Used
  <1>7. /\ Len(rs) \in Nat /\ Len(rs) > 0 /\ Len(left) = Len(rs) - 1
        /\ \A j \in 1..(Len(rs) - 1) : at[j] \in 1..Len(rs) /\ at[j] # m /\ left[j] = rs[at[j]]
        /\ \A i, j \in 1..(Len(rs) - 1) : at[i] = at[j] => i = j
    <2>1. Len(rs) \in Nat /\ Len(rs) > 0
      OBVIOUS
    <2> QED
      BY <1>5, <2>1 DEF Keeps
  <1>k. \A i \in 1..Len(rs) : i # m => \E j \in 1..(Len(rs) - 1) : at[j] = i
    BY <1>5 DEF Keeps
  <1>8. /\ fr \in Seq(Seq(Token)) /\ Len(fr) = Len(rs) /\ fr[Len(rs)] = key
        /\ \A j \in 1..(Len(rs) - 1) : fr[j] = left[j]
    BY <1>3, <1>5, <1>6, <1>7
  <1>9. \A i \in 1..Len(rs) : i = Len(rs) \/ i \in 1..(Len(rs) - 1)
    BY <1>7
  <1>10. \A j \in 1..(Len(rs) - 1) : fr[j] # key
    <2>1. \A j \in 1..(Len(rs) - 1) : rs[at[j]] # rs[m]
      BY <1>7, <1>r
    <2> QED
      <3> TAKE j \in 1..(Len(rs) - 1)
      <3>1. fr[j] = rs[at[j]] /\ rs[at[j]] # rs[m]
        BY <1>7, <1>8, <2>1
      <3> QED
        BY <1>4, <3>1
  <1>11. \A i, j \in 1..Len(fr) : fr[i] = fr[j] => i = j
    <2>1. \A i, j \in 1..(Len(rs) - 1) : fr[i] = fr[j] => i = j
      <3>1. \A i, j \in 1..(Len(rs) - 1) : rs[at[i]] = rs[at[j]] => at[i] = at[j]
        BY <1>7, <1>r
      <3> SUFFICES ASSUME NEW i \in 1..(Len(rs) - 1), NEW j \in 1..(Len(rs) - 1), fr[i] = fr[j]
                   PROVE  i = j
        OBVIOUS
      <3>2. fr[i] = rs[at[i]] /\ fr[j] = rs[at[j]]
        BY <1>7, <1>8
      <3>3. at[i] = at[j]
        BY <3>1, <3>2
      <3> QED
        BY <1>7, <3>3
    <2> QED
      BY <1>8, <1>9, <1>10, <2>1
  <1>12. ASSUME NEW i \in 1..Len(es) PROVE \E j \in 1..Len(fr) : fr[j] = es[i].tokens
    <2>1. PICK l \in 1..Len(rs) : rs[l] = es[i].tokens
      BY <1>er
    <2>2. CASE l = m
      <3>1. Len(rs) \in 1..Len(fr)
        BY <1>7, <1>8
      <3> QED
        BY <1>4, <1>8, <2>1, <2>2, <3>1
    <2>3. CASE l # m
      <3>1. PICK j \in 1..(Len(rs) - 1) : at[j] = l
        BY <1>k, <2>3
      <3>2. j \in 1..Len(fr)
        BY <1>7, <1>8
      <3> QED
        BY <1>7, <1>8, <2>1, <3>1, <3>2
    <2> QED
      BY <2>2, <2>3
  <1>13. ASSUME NEW i \in 1..Len(fr) PROVE \E j \in 1..Len(es) : es[j].tokens = fr[i]
    <2>1. CASE i = Len(rs)
      BY <1>2, <1>8, <2>1
    <2>2. CASE i \in 1..(Len(rs) - 1)
      <3>1. fr[i] = rs[at[i]] /\ at[i] \in 1..Len(rs)
        BY <1>7, <1>8, <2>2
      <3> QED
        BY <1>re, <3>1
    <2> QED
      BY <1>8, <1>9, <2>1, <2>2
  <1>14. Len(rs) = Len(es)
    BY <1>1 DEF Orderly
  <1>15. /\ Used(st, key) \in Store
         /\ Used(st, key).entries = es /\ Used(st, key).recent = fr /\ st.entries = es
    <2>1. [entries |-> es, recent |-> fr] \in Store
      BY <1>8 DEF Store
    <2> QED
      BY <1>1, <1>6, <2>1
  <1> QED
    <2>1. KeysOnce(es) /\ Once(fr) /\ Ranked(es, fr) /\ Backed(es, fr)
      BY <1>11, <1>12, <1>13, <1>e DEF KeysOnce, Once, Ranked, Backed
    <2> QED
      BY <1>8, <1>14, <1>15, <2>1 DEF Orderly

----------------------------------------------------------------------------
(* Eviction.                                                               *)

\* Sequences of the same elements are the same.
LEMMA Extensional ==
    ASSUME NEW S, NEW a \in Seq(S), NEW b \in Seq(S), Len(a) = Len(b),
           \A i \in 1..Len(a) : a[i] = b[i]
    PROVE  a = b
  OBVIOUS

\* The element used least recently is the first.
LEMMA RemoveHead ==
    ASSUME NEW S, NEW s \in Seq(S), Len(s) > 0
    PROVE  Tail(s) = RemoveFirst(s, Head(s)) /\ Head(s) = s[1]
  <1>1. Head(s) = s[1] /\ 1 \in 1..Len(s) /\ Len(s) \in Nat
    OBVIOUS
  <1>2. PICK i \in 1..Len(s) : /\ RemoveFirst(s, Head(s)) = RemoveAt(s, i)
                               /\ \A j \in 1..Len(s) : s[j] = Head(s) => i <= j
    BY <1>1, RemoveFirstIs
  <1>3. i = 1
    BY <1>1, <1>2
  <1>4. /\ RemoveAt(s, 1) \in Seq(S) /\ Len(RemoveAt(s, 1)) = Len(s) - 1
        /\ \A j \in 1..(Len(s) - 1) : RemoveAt(s, 1)[j] = s[j + 1]
    BY <1>1, Removal
  <1>5. /\ Tail(s) \in Seq(S) /\ Len(Tail(s)) = Len(s) - 1
        /\ \A j \in 1..(Len(s) - 1) : Tail(s)[j] = s[j + 1]
    BY <1>1
  <1>6. Tail(s) = RemoveAt(s, 1)
    <2> DEFINE a == Tail(s)
               b == RemoveAt(s, 1)
    <2>1. /\ a \in Seq(S) /\ b \in Seq(S) /\ Len(a) = Len(b)
          /\ \A j \in 1..Len(a) : a[j] = b[j]
      BY <1>4, <1>5
    <2> HIDE DEF a, b
    <2>2. a = b
      BY <2>1, Extensional
    <2> QED
      BY <2>2 DEF a, b
  <1> QED
    BY <1>1, <1>2, <1>3, <1>6

Fits(st) == ~(Total(st.entries) > MaxBytes /\ Len(st.entries) > 1)

\* One turn of the loop of _evict().
Turn(st) ==
    IF Fits(st) THEN st
    ELSE [entries |-> WithoutKey(st.entries, Head(st.recent)), recent |-> Tail(st.recent)]

\* What a store may become while it evicts: the entry used last stays.
Left(st) ==
    {s \in Store : /\ Orderly(s) /\ Within(s, st) /\ Len(s.entries) > 0
                   /\ s.recent[Len(s.recent)] = st.recent[Len(st.recent)]}

\* The parts of Left.
LEMMA LeftIs ==
    ASSUME NEW st, NEW s \in Left(st)
    PROVE  /\ Orderly(s) /\ Within(s, st) /\ s.entries \in Seq(Snapshot)
           /\ Len(s.entries) \in Nat /\ Len(s.entries) > 0
           /\ s.recent[Len(s.recent)] = st.recent[Len(st.recent)]
  <1>1. /\ s \in Store /\ Orderly(s) /\ Within(s, st) /\ Len(s.entries) > 0
        /\ s.recent[Len(s.recent)] = st.recent[Len(st.recent)]
    BY DEF Left
  <1>2. s.entries \in Seq(Snapshot)
    BY <1>1 DEF Store
  <1> QED
    BY <1>1, <1>2

\* A turn of _evict() drops one entry, never the one used last, or has nothing to do.
LEMMA TurnKeeps ==
    ASSUME NEW st, NEW s \in Left(st)
    PROVE  /\ Turn(s) \in Left(st)
           /\ Fits(s) => Turn(s) = s
           /\ ~Fits(s) => Len(Turn(s).entries) = Len(s.entries) - 1
  <1>1. CASE Fits(s)
    BY <1>1 DEF Turn
  <1>2. CASE ~Fits(s)
    <2>1. PICK es \in Seq(Snapshot), rs \in Seq(Seq(Token)) :
              s = [entries |-> es, recent |-> rs] /\ Len(rs) = Len(es)
      BY DEF Left, Orderly, Store
    <2>2. Len(es) > 1 /\ Len(es) \in Nat
      BY <1>2, <2>1 DEF Fits
    <2>3. Tail(rs) = RemoveFirst(rs, rs[1]) /\ Head(rs) = rs[1]
      BY <2>1, <2>2, RemoveHead
    <2>4. Turn(s) = Forgotten(s, rs[1])
      BY <1>2, <2>1, <2>3 DEF Turn, Forgotten
    <2>5. Orderly(s) /\ Within(s, st) /\ rs[Len(rs)] = st.recent[Len(st.recent)]
      BY <2>1 DEF Left
    <2>6. Has(s, rs[1])
      <3>1. 1 \in 1..Len(rs) /\ Backed(es, rs)
        BY <2>1, <2>2, <2>5 DEF Orderly
      <3> QED
        BY <2>1, <3>1 DEF Backed, Has
    <2>7. /\ Orderly(Turn(s)) /\ Within(Turn(s), s)
          /\ Len(Turn(s).entries) = Len(es) - 1
      BY <2>1, <2>4, <2>5, <2>6, Forgets
    <2>8. Within(Turn(s), st)
      BY <2>5, <2>7, WithinChain
    <2>9. Turn(s).recent[Len(Turn(s).recent)] = rs[Len(rs)]
      <3>1. Turn(s).recent = Tail(rs)
        BY <2>3, <2>4, <2>1 DEF Forgotten
      <3>2. Len(Tail(rs)) = Len(rs) - 1 /\ Tail(rs)[Len(rs) - 1] = rs[Len(rs)]
        BY <2>1, <2>2
      <3> QED
        BY <3>1, <3>2
    <2>10. Turn(s) \in Store
      BY <2>7 DEF Orderly
    <2> QED
      BY <1>2, <2>1, <2>2, <2>5, <2>7, <2>8, <2>9, <2>10 DEF Left
  <1> QED
    BY <1>1, <1>2

\* Eviction ends with what fits, or with the entry used last alone.
LEMMA Evicts ==
    ASSUME NEW st, Orderly(st), Len(st.entries) > 0
    PROVE  Evict(st) \in Left(st) /\ Fits(Evict(st))
  <1> DEFINE Shape(g) == g = [k \in Nat |->
            IF k = 0 THEN st
            ELSE IF Total(g[k - 1].entries) > MaxBytes /\ Len(g[k - 1].entries) > 1
            THEN [entries |-> WithoutKey(g[k - 1].entries, Head(g[k - 1].recent)),
                  recent  |-> Tail(g[k - 1].recent)]
            ELSE g[k - 1]]
             left == CHOOSE g : Shape(g)
  <1>1. Evict(st) = left[Len(st.entries)]
    BY DEF Evict
  <1>2. \A g : Shape(g) <=> g = [k \in Nat |-> IF k = 0 THEN st ELSE Turn(g[k - 1])]
    BY DEF Turn, Fits
  <1>3. st \in Left(st)
    BY DEF Left, Orderly, Within
  <1>4. \E g \in [Nat -> Left(st)] : \A k \in Nat : g[k] = IF k = 0 THEN st ELSE Turn(g[k - 1])
    <2> DEFINE rank == [k \in Nat |-> k]
               prev == [k \in Nat |-> k - 1]
               base == [k \in Nat |-> st]
               step == [k \in Nat |-> [s \in Left(st) |-> Turn(s)]]
    <2>1. rank \in [Nat -> Nat]
      OBVIOUS
    <2>2. \A k \in Nat \cap {0} : base[k] \in Left(st)
      BY <1>3
    <2>3. \A k \in Nat \ {0} : /\ prev[k] \in Nat /\ rank[prev[k]] < rank[k]
                               /\ \A s \in Left(st) : step[k][s] \in Left(st)
      BY TurnKeeps
    <2> HIDE DEF rank, prev, base, step
    <2>4. Recursive(Nat, Left(st), {0}, rank, prev, base, step)
      BY <2>1, <2>2, <2>3 DEF Recursive
    <2>5. PICK g \in [Nat -> Left(st)] : Solves(g, Nat, {0}, prev, base, step)
      BY <2>4, Recursion
    <2>6. ASSUME NEW k \in Nat PROVE g[k] = IF k = 0 THEN st ELSE Turn(g[k - 1])
      <3>1. CASE k = 0
        BY <2>5, <3>1 DEF base, Solves
      <3>2. CASE k # 0
        <4>1. k - 1 \in Nat /\ prev[k] = k - 1
          BY <3>2 DEF prev
        <4>2. g[k - 1] \in Left(st)
          BY <4>1
        <4>3. step[k][g[k - 1]] = Turn(g[k - 1])
          BY <4>2 DEF step
        <4> QED
          BY <2>5, <3>2, <4>1, <4>3 DEF Solves
      <3> QED
        BY <3>1, <3>2
    <2> QED
      BY <2>5, <2>6
  <1>5. PICK g \in [Nat -> Left(st)] : Shape(g)
    <2>1. PICK g \in [Nat -> Left(st)] : \A k \in Nat : g[k] = IF k = 0 THEN st ELSE Turn(g[k - 1])
      BY <1>4
    <2>2. g = [k \in Nat |-> IF k = 0 THEN st ELSE Turn(g[k - 1])]
      BY <2>1
    <2> HIDE DEF Shape
    <2> QED
      BY <1>2, <2>2
  <1> HIDE DEF Shape
  <1>6. Shape(left)
    BY <1>5
  <1> HIDE DEF left
  <1>7. left = [k \in Nat |-> IF k = 0 THEN st ELSE Turn(left[k - 1])]
    BY <1>2, <1>6
  <1>8. left[0] = st /\ \A k \in Nat : left[k + 1] = Turn(left[k])
    <2>1. left[0] = st
      BY <1>7
    <2>2. ASSUME NEW k \in Nat PROVE left[k + 1] = Turn(left[k])
      <3>1. k + 1 \in Nat /\ k + 1 # 0 /\ (k + 1) - 1 = k
        OBVIOUS
      <3> QED
        BY <1>7, <3>1
    <2> QED
      BY <2>1, <2>2
  <1> DEFINE N == Len(st.entries)
             P == {k \in Nat : /\ left[k] \in Left(st)
                               /\ Fits(left[k]) \/ Len(left[k].entries) <= N - k}
  <1>9. N \in Nat
    BY DEF Orderly, Store
  <1>10. 0 \in P
    BY <1>3, <1>8, <1>9
  <1>11. ASSUME NEW k \in Nat, k \in P PROVE k + 1 \in P
    <2>1. left[k] \in Left(st) /\ left[k + 1] = Turn(left[k]) /\ Len(left[k].entries) \in Nat
      BY <1>8, <1>11, LeftIs
    <2>2. left[k + 1] \in Left(st)
      BY <2>1, TurnKeeps
    <2>3. CASE Fits(left[k])
      BY <2>1, <2>2, <2>3, TurnKeeps
    <2>4. CASE ~Fits(left[k])
      <3>1. Len(left[k + 1].entries) = Len(left[k].entries) - 1
        BY <2>1, <2>4, TurnKeeps
      <3>2. Len(left[k].entries) <= N - k
        BY <1>11, <2>4
      <3> QED
        BY <1>9, <2>1, <2>2, <3>1, <3>2
    <2> QED
      BY <2>3, <2>4
  <1>12. N \in P
    <2> HIDE DEF P
    <2> QED
      BY <1>9, <1>10, <1>11, NatInduct
  <1>13. left[N] \in Left(st) /\ Fits(left[N])
    <2>1. left[N] \in Left(st) /\ (Fits(left[N]) \/ Len(left[N].entries) <= 0)
      BY <1>9, <1>12
    <2>2. Len(left[N].entries) > 0 /\ Len(left[N].entries) \in Nat
      BY <2>1, LeftIs
    <2> QED
      BY <2>1, <2>2
  <1> QED
    BY <1>1, <1>13

----------------------------------------------------------------------------
(* The operations of the store.                                            *)

\* With a layer that tells its length each snapshot is the state after exactly its tokens.
Matching(st) == attends => \A i \in 1..Len(st.entries) : st.entries[i].fed = st.entries[i].tokens

\* insert() keeps the store orderly and within its budget, and holds what it was given.
LEMMA Inserts ==
    ASSUME NEW st, Orderly(st), Fits(st), NEW tokens \in Seq(Token), NEW fed \in Seq(Token)
    PROVE  /\ Orderly(Insert(st, tokens, fed)) /\ Fits(Insert(st, tokens, fed))
           /\ (attends => fed = tokens) /\ Matching(st) => Matching(Insert(st, tokens, fed))
           /\ Len(tokens) >= MinMatch => Has(Insert(st, tokens, fed), tokens)
  <1>0. MinMatch \in Nat /\ Len(tokens) \in Nat
    BY StoreAssumption
  <1>1. CASE Len(tokens) < MinMatch
    BY <1>0, <1>1 DEF Insert
  <1>2. CASE ~(Len(tokens) < MinMatch)
    <2> DEFINE new == Added(st, tokens, fed)
    <2>1. Insert(st, tokens, fed) = Evict(new)
      BY <1>2 DEF Insert, Added
    <2>2. /\ Orderly(new) /\ new.recent[Len(new.recent)] = tokens /\ Len(new.entries) > 0
          /\ \A i \in 1..Len(new.entries) :
                \/ new.entries[i] = [tokens |-> tokens, fed |-> fed]
                \/ \E j \in 1..Len(st.entries) : new.entries[i] = st.entries[j]
      BY Adds, ZenonT(60)
    <2> HIDE DEF new
    <2>3. PICK s \in Left(new) : s = Evict(new) /\ Fits(s)
      BY <2>2, Evicts
    <2>4. /\ Orderly(s) /\ Within(s, new) /\ Len(s.entries) \in Nat /\ Len(s.entries) > 0
          /\ s.recent[Len(s.recent)] = tokens
      BY <2>2, LeftIs
    <2>5. Has(s, tokens)
      <3>1. Backed(s.entries, s.recent) /\ Len(s.recent) \in 1..Len(s.recent)
        BY <2>4 DEF Orderly
      <3> QED
        BY <2>4, <3>1 DEF Backed, Has
    <2>6. ASSUME attends => fed = tokens, Matching(st) PROVE Matching(s)
      <3> SUFFICES ASSUME attends
                   PROVE  \A i \in 1..Len(s.entries) : s.entries[i].fed = s.entries[i].tokens
        BY DEF Matching
      <3>1. \A i \in 1..Len(new.entries) : new.entries[i].fed = new.entries[i].tokens
        <4> TAKE i \in 1..Len(new.entries)
        <4>1. CASE new.entries[i] = [tokens |-> tokens, fed |-> fed]
          BY <2>6, <4>1
        <4>2. CASE \E j \in 1..Len(st.entries) : new.entries[i] = st.entries[j]
          BY <2>6, <4>2 DEF Matching
        <4> QED
          BY <2>2, <4>1, <4>2
      <3> QED
        BY <2>4, <3>1 DEF Matching, Within
    <2> QED
      BY <2>1, <2>3, <2>4, <2>5, <2>6
  <1> QED
    BY <1>1, <1>2

\* Whatever is found when a store is searched, touching it only changes the order of use.
LEMMA Touches ==
    ASSUME NEW st, Orderly(st), Fits(st), NEW hit, hit.at \in 0..Len(st.entries)
    PROVE  /\ Orderly(Touched(st, hit)) /\ Fits(Touched(st, hit))
           /\ Touched(st, hit).entries = st.entries
  <1>1. CASE hit.at = 0
    BY <1>1 DEF Touched
  <1>2. CASE hit.at # 0
    <2>1. PICK key : key = st.entries[hit.at].tokens
      OBVIOUS
    <2>2. Touched(st, hit) = Used(st, key)
      <3>1. st = [entries |-> st.entries, recent |-> st.recent]
        BY DEF Orderly, Store
      <3>2. Touched(st, hit) = [st EXCEPT !.recent = Append(RemoveFirst(st.recent, key), key)]
        BY <1>2, <2>1 DEF Touched
      <3> QED
        BY <3>1, <3>2 DEF Used
    <2>3. Has(st, key)
      <3>1. Len(st.entries) \in Nat
        BY DEF Orderly, Store
      <3> QED
        BY <1>2, <2>1, <3>1 DEF Has
    <2>4. Orderly(Used(st, key)) /\ Used(st, key).entries = st.entries
      BY <2>3, Uses
    <2> QED
      BY <2>2, <2>4 DEF Fits
  <1> QED
    BY <1>1, <1>2

\* Nothing takes no room.
LEMMA NothingFits == Total(<<>>) = 0
  <1> DEFINE it(g) == g = [s \in SUBSET (DOMAIN <<>>) |->
                IF s = {} THEN 0
                ELSE g[s \ {Max(s)}] + Nbytes(<<>>[Max(s)])]
             g0 == [s \in {{}} |-> 0]
  <1>1. DOMAIN <<>> = {} /\ SUBSET (DOMAIN <<>>) = {{}}
    OBVIOUS
  <1>2. it(g0)
    BY <1>1
  <1>3. it(CHOOSE g : it(g))
    <2> HIDE DEF it, g0
    <2> QED
      BY <1>2
  <1>4. Total(<<>>) = (CHOOSE g : it(g))[{}]
    BY <1>1 DEF Total, FoldLeft, MapThenFoldSet
  <1> QED
    <2> DEFINE h == CHOOSE g : it(g)
    <2>1. h = [s \in {{}} |-> IF s = {} THEN 0 ELSE h[s \ {Max(s)}] + Nbytes(<<>>[Max(s)])]
      BY <1>1, <1>3
    <2> HIDE DEF h
    <2>2. h[{}] = 0
      BY <2>1
    <2> QED
      BY <1>4, <2>2 DEF h

----------------------------------------------------------------------------
(* Looking a prompt up.                                                    *)

\* The first n elements.
LEMMA Prefix ==
    ASSUME NEW S, NEW a \in Seq(S), NEW n \in 0..Len(a)
    PROVE  /\ SubSeq(a, 1, n) \in Seq(S) /\ Len(SubSeq(a, 1, n)) = n
           /\ \A i \in 1..n : SubSeq(a, 1, n)[i] = a[i]
  OBVIOUS

\* All elements.
LEMMA PrefixWhole ==
    ASSUME NEW S, NEW a \in Seq(S)
    PROVE  SubSeq(a, 1, Len(a)) = a
  OBVIOUS

\* Prefixes compared element by element.
LEMMA SamePrefix ==
    ASSUME NEW S, NEW a \in Seq(S), NEW b \in Seq(S), NEW n \in Nat, n <= Len(a), n <= Len(b)
    PROVE  SubSeq(a, 1, n) = SubSeq(b, 1, n) <=> \A i \in 1..n : a[i] = b[i]
  <1> DEFINE x == SubSeq(a, 1, n)
             y == SubSeq(b, 1, n)
  <1>0. n \in 0..Len(a) /\ n \in 0..Len(b)
    OBVIOUS
  <1>1. x \in Seq(S) /\ Len(x) = n /\ \A i \in 1..n : x[i] = a[i]
    BY <1>0, Prefix
  <1>2. y \in Seq(S) /\ Len(y) = n /\ \A i \in 1..n : y[i] = b[i]
    BY <1>0, Prefix
  <1> HIDE DEF x, y
  <1>3. ASSUME x = y PROVE \A i \in 1..n : a[i] = b[i]
    BY <1>1, <1>2, <1>3
  <1>4. ASSUME \A i \in 1..n : a[i] = b[i] PROVE x = y
    <2>1. \A i \in 1..Len(x) : x[i] = y[i]
      BY <1>1, <1>2, <1>4
    <2> QED
      BY <1>1, <1>2, <2>1, Extensional
  <1> QED
    BY <1>3, <1>4 DEF x, y

\* What has a prefix in common has every shorter one in common.
LEMMA ShorterPrefix ==
    ASSUME NEW S, NEW a \in Seq(S), NEW b \in Seq(S), NEW n \in Nat, n <= Len(a), n <= Len(b),
           SubSeq(a, 1, n) = SubSeq(b, 1, n), NEW m \in 0..n
    PROVE  SubSeq(a, 1, m) = SubSeq(b, 1, m)
  <1>1. \A i \in 1..n : a[i] = b[i]
    BY SamePrefix
  <1>2. \A i \in 1..m : a[i] = b[i]
    BY <1>1
  <1>3. m \in Nat /\ m <= Len(a) /\ m <= Len(b)
    OBVIOUS
  <1> QED
    BY <1>2, <1>3, SamePrefix

\* _common_prefix_len().
LEMMA CommonIs ==
    ASSUME NEW S, NEW a \in Seq(S), NEW b \in Seq(S)
    PROVE  /\ Common(a, b) \in Nat /\ Common(a, b) <= Len(a) /\ Common(a, b) <= Len(b)
           /\ SubSeq(a, 1, Common(a, b)) = SubSeq(b, 1, Common(a, b))
           /\ \A k \in Nat : /\ k <= Len(a) /\ k <= Len(b)
                             /\ SubSeq(a, 1, k) = SubSeq(b, 1, k)
                             => k <= Common(a, b)
  <1> DEFINE C == CommonPrefixes({a, b})
             K == {k \in 0..Len(a) : k <= Len(b) /\ SubSeq(a, 1, k) = SubSeq(b, 1, k)}
  <1>1. PICK m \in K : \A k \in K : k <= m
    <2>1. K \subseteq Nat /\ Len(a) \in Nat /\ \A k \in K : k <= Len(a)
      OBVIOUS
    <2>2. K # {}
      <3>1. SubSeq(a, 1, 0) = SubSeq(b, 1, 0)
        OBVIOUS
      <3>2. 0 \in K
        BY <3>1
      <3> QED
        BY <3>2
    <2> HIDE DEF K
    <2> QED
      BY <2>1, <2>2, GreatestOf
  <1>2. ASSUME NEW x \in C PROVE Len(x) \in K
    <2>1. /\ x \in UNION {Prefixes(s) : s \in {a, b}}
          /\ IsPrefix(x, a) /\ IsPrefix(x, b)
      BY DEF CommonPrefixes
    <2>2. PICK s \in {a, b} : \E l \in 0..Len(s) : x = SubSeq(s, 1, l)
      BY <2>1 DEF Prefixes
    <2>7. PICK l \in 0..Len(s) : x = SubSeq(s, 1, l)
      BY <2>2
    <2>3. s \in Seq(S)
      OBVIOUS
    <2>4. Len(x) = l
      BY <2>7, <2>3, Prefix
    <2>5. /\ l <= Len(a) /\ SubSeq(x, 1, l) = SubSeq(a, 1, l)
          /\ l <= Len(b) /\ SubSeq(x, 1, l) = SubSeq(b, 1, l)
      BY <2>1, <2>4 DEF IsPrefix
    <2>6. l \in Nat
      BY <2>3
    <2> QED
      BY <2>4, <2>5, <2>6
  <1>3. ASSUME NEW k \in K PROVE SubSeq(a, 1, k) \in C /\ Len(SubSeq(a, 1, k)) = k
    <2>0. k \in 0..Len(a) /\ k <= Len(b) /\ SubSeq(a, 1, k) = SubSeq(b, 1, k)
      OBVIOUS
    <2>1. PICK x \in Seq(S) : x = SubSeq(a, 1, k) /\ x = SubSeq(b, 1, k) /\ Len(x) = k
      BY <2>0, Prefix
    <2>2. SubSeq(x, 1, k) = x
      BY <2>1, PrefixWhole
    <2>3. IsPrefix(x, a) /\ IsPrefix(x, b)
      BY <2>0, <2>1, <2>2 DEF IsPrefix
    <2>4. x \in Prefixes(a)
      BY <2>0, <2>1 DEF Prefixes
    <2> QED
      BY <2>1, <2>3, <2>4 DEF CommonPrefixes
  <1>4. Len(LongestCommonPrefix({a, b})) = m
    <2> DEFINE long(x) == \A y \in C : Len(y) <= Len(x)
    <2>1. \E x \in C : long(x)
      <3>1. SubSeq(a, 1, m) \in C /\ Len(SubSeq(a, 1, m)) = m
        BY <1>1, <1>3
      <3>2. \A y \in C : Len(y) <= m
        BY <1>1, <1>2
      <3> QED
        BY <3>1, <3>2
    <2>2. LongestCommonPrefix({a, b}) = CHOOSE x \in C : long(x)
      BY DEF LongestCommonPrefix
    <2> HIDE DEF C
    <2>3. PICK x \in C : x = LongestCommonPrefix({a, b}) /\ long(x)
      BY <2>1, <2>2
    <2>4. Len(x) \in K /\ m <= Len(x)
      <3>1. SubSeq(a, 1, m) \in C /\ Len(SubSeq(a, 1, m)) = m
        BY <1>1, <1>3
      <3> QED
        BY <1>2, <2>3, <3>1
    <2>5. Len(x) <= m
      BY <1>1, <2>4
    <2> QED
      BY <1>1, <2>3, <2>4, <2>5
  <1>5. Common(a, b) = m
    BY <1>4 DEF Common
  <1>6. m \in Nat /\ m <= Len(a) /\ m <= Len(b) /\ SubSeq(a, 1, m) = SubSeq(b, 1, m)
    BY <1>1
  <1>7. ASSUME NEW k \in Nat, k <= Len(a), k <= Len(b), SubSeq(a, 1, k) = SubSeq(b, 1, k)
        PROVE  k <= m
    <2>1. k \in K
      BY <1>7
    <2> QED
      BY <1>1, <2>1
  <1> HIDE DEF C, K
  <1> QED
    BY <1>5, <1>6, <1>7

\* What an entry saves of a prompt: a prefix of both that leaves a token to process, and the
\* longest one the entry can be cut back to.
LEMMA UsableIs ==
    ASSUME NEW e \in Snapshot, NEW p \in Seq(Token), Len(p) > 0, NEW w \in Nat
    PROVE  LET u == Usable(e, p, w)
           IN  /\ u \in Nat /\ u < Len(p) /\ u <= Len(e.tokens)
               /\ SubSeq(e.tokens, 1, u) = SubSeq(p, 1, u)
               /\ \A k \in Nat :
                     /\ k < Len(p) /\ k <= Len(e.tokens)
                     /\ SubSeq(p, 1, k) = SubSeq(e.tokens, 1, k)
                     /\ k = Len(e.tokens) \/ Trimmable(Len(e.fed), w)
                     => k <= u
  <1>1. PICK t \in Seq(Token) : t = e.tokens
    BY DEF Snapshot
  <1>2. PICK c \in Nat : c = Common(t, p)
    BY CommonIs
  <1>3. /\ c <= Len(t) /\ c <= Len(p) /\ SubSeq(t, 1, c) = SubSeq(p, 1, c)
        /\ \A k \in Nat : /\ k <= Len(t) /\ k <= Len(p)
                          /\ SubSeq(t, 1, k) = SubSeq(p, 1, k)
                          => k <= c
    BY <1>2, CommonIs
  <1>4. PICK u : u = Usable(e, p, w)
    OBVIOUS
  <1>5. u = IF Trimmable(Len(e.fed), w) THEN (IF c < Len(p) - 1 THEN c ELSE Len(p) - 1)
            ELSE IF c = Len(t) /\ c <= Len(p) - 1 THEN c ELSE 0
    BY <1>1, <1>2, <1>4 DEF Usable
  <1>6. Len(p) \in Nat /\ Len(t) \in Nat /\ Trimmable(Len(e.fed), w) \in BOOLEAN
    BY DEF Trimmable
  <1>7. u \in Nat /\ u < Len(p) /\ u <= c /\ u <= Len(t)
    BY <1>3, <1>5, <1>6
  <1>8. SubSeq(t, 1, u) = SubSeq(p, 1, u)
    <2>1. u \in 0..c
      BY <1>7
    <2> QED
      BY <1>3, <2>1, ShorterPrefix
  <1>9. ASSUME NEW k \in Nat, k < Len(p), k <= Len(t), SubSeq(p, 1, k) = SubSeq(t, 1, k),
               k = Len(t) \/ Trimmable(Len(e.fed), w)
        PROVE  k <= u
    <2>1. k <= c
      BY <1>3, <1>6, <1>9
    <2> QED
      BY <1>3, <1>5, <1>6, <1>9, <2>1
  <1> QED
    BY <1>1, <1>4, <1>7, <1>8, <1>9

\* Of bounded numbers one is the first of the greatest.
LEMMA FirstGreatest ==
    ASSUME NEW n \in Nat, n > 0, NEW f \in [1..n -> Nat], NEW b \in Nat, \A i \in 1..n : f[i] <= b
    PROVE  \E i \in 1..n : \A j \in 1..n : f[j] < f[i] \/ (f[j] = f[i] /\ i <= j)
  <1> DEFINE V == {f[i] : i \in 1..n}
  <1>1. PICK v \in V : \A x \in V : x <= v
    <2>1. V \subseteq Nat /\ \A x \in V : x <= b
      OBVIOUS
    <2>2. V # {}
      <3>1. 1 \in 1..n
        OBVIOUS
      <3> QED
        BY <3>1
    <2> HIDE DEF V
    <2> QED
      BY <2>1, <2>2, GreatestOf
  <1> DEFINE I == {i \in 1..n : f[i] = v}
  <1>2. PICK i \in I : \A j \in I : i <= j
    <2>1. I \subseteq Nat /\ I # {}
      OBVIOUS
    <2> HIDE DEF I
    <2> QED
      BY <2>1, LeastOf
  <1>3. ASSUME NEW j \in 1..n PROVE f[j] < f[i] \/ (f[j] = f[i] /\ i <= j)
    <2>1. f[j] <= v /\ f[i] = v /\ f[j] \in Nat /\ v \in Nat
      BY <1>1, <1>2
    <2>2. f[j] = v => i <= j
      BY <1>2
    <2> QED
      BY <2>1, <2>2
  <1> QED
    BY <1>2, <1>3

\* lookup(): the entry it finds, if any, saves a prefix of the prompt, and no other saves more.
LEMMA BestIs ==
    ASSUME NEW st, Orderly(st), NEW p \in Seq(Token), Len(p) > 0, NEW w \in Nat
    PROVE  LET hit == Best(st, p, w)
           IN  /\ hit.at \in 0..Len(st.entries) /\ hit.n \in Nat /\ hit.n < Len(p)
               /\ hit.at = 0 => hit.n = 0
               /\ hit.at # 0 =>
                     /\ hit.n <= Len(st.entries[hit.at].tokens)
                     /\ SubSeq(st.entries[hit.at].tokens, 1, hit.n) = SubSeq(p, 1, hit.n)
               /\ \A i \in 1..Len(st.entries) : Usable(st.entries[i], p, w) >= MinMatch =>
                     Usable(st.entries[i], p, w) <= hit.n
  <1>1. PICK es \in Seq(Snapshot) : es = st.entries
    BY DEF Orderly, Store
  <1>2. Len(es) \in Nat /\ DOMAIN es = 1..Len(es) /\ \A i \in 1..Len(es) : es[i] \in Snapshot
    OBVIOUS
  <1> DEFINE f == [i \in 1..Len(es) |-> Usable(es[i], p, w)]
  <1>3. \A i \in 1..Len(es) :
           /\ f[i] = Usable(es[i], p, w) /\ f[i] \in Nat /\ f[i] < Len(p)
           /\ f[i] <= Len(es[i].tokens) /\ SubSeq(es[i].tokens, 1, f[i]) = SubSeq(p, 1, f[i])
    BY <1>2, UsableIs
  <1>4. f \in [1..Len(es) -> Nat]
    BY <1>3
  <1> HIDE DEF f
  <1> DEFINE found == {i \in 1..Len(es) : /\ f[i] >= MinMatch
                                         /\ \A j \in 1..Len(es) : f[j] < f[i] \/ (f[j] = f[i] /\ i <= j)}
             hit   == IF found = {} THEN [at |-> 0, n |-> 0]
                      ELSE [at |-> CHOOSE i \in found : TRUE, n |-> f[CHOOSE i \in found : TRUE]]
  <1>5. Best(st, p, w) = hit
    <2> DEFINE usable(i) == Usable(es[i], p, w)
               best(i)   == \A j \in 1..Len(es) :
                               usable(j) < usable(i) \/ (usable(j) = usable(i) /\ i <= j)
               F == {i \in 1..Len(es) : usable(i) >= MinMatch /\ best(i)}
    <2>1. Best(st, p, w) = IF F = {} THEN [at |-> 0, n |-> 0]
                           ELSE [at |-> CHOOSE i \in F : TRUE, n |-> usable(CHOOSE i \in F : TRUE)]
      BY <1>1, <1>2 DEF Best
    <2>2. F = found
      BY <1>3
    <2>3. F # {} => (CHOOSE i \in F : TRUE) \in 1..Len(es)
      <3>1. F \subseteq 1..Len(es)
        OBVIOUS
      <3> HIDE DEF F
      <3> QED
        BY <3>1
    <2> HIDE DEF F, found
    <2> QED
      BY <1>3, <2>1, <2>2, <2>3
  <1>6. CASE found = {}
    <2>1. \A i \in 1..Len(es) : ~(f[i] >= MinMatch)
      <3> SUFFICES ASSUME NEW k \in 1..Len(es), f[k] >= MinMatch PROVE FALSE
        OBVIOUS
      <3>1. Len(p) \in Nat /\ Len(es) > 0 /\ \A i \in 1..Len(es) : f[i] <= Len(p)
        BY <1>2, <1>3
      <3>2. PICK i \in 1..Len(es) : \A j \in 1..Len(es) : f[j] < f[i] \/ (f[j] = f[i] /\ i <= j)
        BY <1>2, <1>4, <3>1, FirstGreatest
      <3>3. f[i] >= MinMatch
        <4>1. f[k] <= f[i] /\ f[k] \in Nat /\ f[i] \in Nat /\ MinMatch \in Nat
          BY <1>4, <3>2, StoreAssumption
        <4> QED
          BY <4>1
      <3> QED
        BY <1>6, <3>2, <3>3
    <2>2. hit = [at |-> 0, n |-> 0] /\ Len(p) \in Nat
      BY <1>6
    <2>3. \A i \in 1..Len(es) : ~(Usable(es[i], p, w) >= MinMatch)
      BY <1>3, <2>1
    <2> HIDE DEF hit, found
    <2> QED
      BY <1>1, <1>2, <1>5, <2>2, <2>3
  <1>7. CASE found # {}
    <2>1. PICK i \in found : hit = [at |-> i, n |-> f[i]]
      <3> HIDE DEF found
      <3> QED
        BY <1>7
    <2>2. i \in 1..Len(es) /\ \A j \in 1..Len(es) : f[j] < f[i] \/ (f[j] = f[i] /\ i <= j)
      OBVIOUS
    <2>3. \A j \in 1..Len(es) : f[j] <= f[i]
      <3>1. \A j \in 1..Len(es) : f[j] \in Nat
        BY <1>4
      <3> QED
        BY <2>2, <3>1
    <2>4. hit.at = i /\ hit.n = f[i]
      BY <2>1
    <2> HIDE DEF hit, found
    <2> QED
      BY <1>1, <1>2, <1>3, <1>5, <2>2, <2>3, <2>4
  <1> QED
    BY <1>6, <1>7

----------------------------------------------------------------------------
(* The plan of a prefill, and the snapshots on its way.                    *)

\* Quotient and remainder.
LEMMA DivMod ==
    ASSUME NEW n \in Nat, NEW b \in Nat \ {0}
    PROVE  n \div b \in Nat /\ n % b \in 0..(b - 1) /\ n = b * (n \div b) + (n % b)
  OBVIOUS

\* A multiple leaves no remainder.
LEMMA MultipleIs ==
    ASSUME NEW q \in Nat, NEW b \in Nat \ {0}
    PROVE  q * b \in Nat /\ (q * b) % b = 0
  OBVIOUS

\* Rounding down to a multiple passes no multiple.
LEMMA LastMultiple ==
    ASSUME NEW n \in Nat, NEW m \in Nat, NEW b \in Nat \ {0}, n % b = 0, n <= m
    PROVE  n <= (m \div b) * b
  OBVIOUS

\* The multiples around a number.
LEMMA NextMultiple ==
    ASSUME NEW n \in Nat, NEW b \in Nat \ {0}
    PROVE  /\ (n \div b + 1) * b \in Nat /\ n < (n \div b + 1) * b
           /\ (n \div b) * b \in Nat /\ (n \div b) * b <= n
  BY DivMod

\* The end of the chunk that starts at pos, and the snapshot taken there.
Stop(pos, end) ==
    LET last == (end \div Boundary) * Boundary
        full == (pos \div Chunk + 1) * Chunk
    IN  Least(end, IF pos < last /\ last < full THEN last ELSE full)

Point(n, end) == IF n % Boundary = 0 /\ n < end THEN <<n>> ELSE <<>>

\* A chunk ends ahead of its start, not past the end and not past the last boundary.
LEMMA StopIs ==
    ASSUME NEW end \in Nat, NEW pos \in 0..end, pos # end
    PROVE  /\ Stop(pos, end) \in 0..end /\ pos < Stop(pos, end)
           /\ pos < (end \div Boundary) * Boundary => Stop(pos, end) <= (end \div Boundary) * Boundary
  <1> DEFINE last == (end \div Boundary) * Boundary
             full == (pos \div Chunk + 1) * Chunk
  <1>1. Boundary \in Nat \ {0} /\ Chunk \in Nat \ {0}
    BY WidthAssumption
  <1>2. last \in Nat /\ last <= end
    BY <1>1, NextMultiple
  <1>3. full \in Nat /\ pos < full
    BY <1>1, NextMultiple
  <1>4. Stop(pos, end) = IF end < (IF pos < last /\ last < full THEN last ELSE full) THEN end
                         ELSE IF pos < last /\ last < full THEN last ELSE full
    BY DEF Stop, Least
  <1> HIDE DEF last, full
  <1>5. /\ Stop(pos, end) \in 0..end /\ pos < Stop(pos, end)
        /\ pos < last => Stop(pos, end) <= last
    BY <1>2, <1>3, <1>4
  <1> QED
    BY <1>5 DEF last

\* What is wanted of the points from pos on: they lie between pos and the end, and they end
\* with the last boundary if that does.
Wanted(pos, end, s) ==
    LET last == (end \div Boundary) * Boundary
    IN  /\ \A i \in 1..Len(s) : pos < s[i] /\ s[i] < end
        /\ last <= pos => s = <<>>
        /\ pos < last /\ last < end => Len(s) > 0 /\ s[Len(s)] = last

\* One point more keeps what is wanted of the points.
LEMMA PointIs ==
    ASSUME NEW end \in Nat, NEW pos \in 0..end, pos # end,
           NEW s \in Seq(Nat), Wanted(Stop(pos, end), end, s)
    PROVE  /\ Point(Stop(pos, end), end) \o s \in Seq(Nat)
           /\ Wanted(pos, end, Point(Stop(pos, end), end) \o s)
  <1> DEFINE last == (end \div Boundary) * Boundary
  <1>0. Boundary \in Nat \ {0}
    BY WidthAssumption
  <1>1. last \in Nat /\ last <= end /\ last % Boundary = 0
    BY <1>0, NextMultiple, DivMod, MultipleIs
  <1>2. PICK n \in Nat : n = Stop(pos, end)
    BY StopIs
  <1>3. n <= end /\ pos < n /\ (pos < last => n <= last)
    BY <1>2, StopIs
  <1>4. n % Boundary = 0 => n <= last
    BY <1>0, <1>2, <1>3, LastMultiple
  <1>5. /\ \A i \in 1..Len(s) : n < s[i] /\ s[i] < end
        /\ last <= n => s = <<>>
        /\ n < last /\ last < end => Len(s) > 0 /\ s[Len(s)] = last
    BY <1>2 DEF Wanted
  <1> HIDE DEF last
  <1>6. CASE n % Boundary = 0 /\ n < end
    <2>1. PICK t : t = <<n>> \o s
      OBVIOUS
    <2>2. /\ t \in Seq(Nat) /\ Len(t) = Len(s) + 1 /\ t[1] = n
          /\ \A i \in 1..Len(s) : t[i + 1] = s[i]
      BY <2>1
    <2>3. ASSUME NEW i \in 1..Len(t) PROVE pos < t[i] /\ t[i] < end
      <3>1. CASE i = 1
        BY <1>3, <1>6, <2>2, <3>1
      <3>2. CASE i # 1
        <4>1. i - 1 \in 1..Len(s) /\ t[i] = s[i - 1] /\ s[i - 1] \in Nat
          <5>1. i - 1 \in 1..Len(s)
            BY <2>2, <3>2
          <5> QED
            BY <2>2, <5>1, SMTT(30)
        <4> QED
          BY <1>3, <1>5, <4>1
      <3> QED
        BY <3>1, <3>2
    <2>4. n <= last /\ pos < last
      BY <1>1, <1>3, <1>4, <1>6
    <2>5. last < end => Len(t) > 0 /\ t[Len(t)] = last
      <3>1. CASE n = last
        <4>1. Len(t) = 1
          BY <1>5, <2>2, <3>1
        <4> QED
          BY <2>2, <3>1, <4>1
      <3>2. CASE n < last /\ last < end
        <4>1. Len(s) \in 1..Len(s) /\ t[Len(s) + 1] = s[Len(s)]
          BY <1>5, <2>2, <3>2
        <4> QED
          BY <1>5, <2>2, <3>2, <4>1
      <3> QED
        BY <1>1, <2>4, <3>1, <3>2
    <2>6. Point(n, end) = <<n>>
      BY <1>6 DEF Point
    <2>7. Wanted(pos, end, t)
      BY <1>1, <2>3, <2>4, <2>5 DEF Wanted, last
    <2> QED
      BY <1>2, <2>1, <2>2, <2>6, <2>7
  <1>7. CASE ~(n % Boundary = 0 /\ n < end)
    <2>1. Point(n, end) \o s = s
      BY <1>7 DEF Point
    <2>2. \A i \in 1..Len(s) : pos < s[i] /\ s[i] < end
      <3>1. \A i \in 1..Len(s) : s[i] \in Nat
        OBVIOUS
      <3> QED
        BY <1>3, <1>5, <3>1
    <2>3. last <= pos => s = <<>>
      BY <1>1, <1>3, <1>5
    <2>4. pos < last /\ last < end => n < last
      BY <1>1, <1>3, <1>7
    <2>5. Wanted(pos, end, s)
      BY <1>5, <2>2, <2>3, <2>4 DEF Wanted, last
    <2> QED
      BY <1>2, <2>1, <2>5
  <1> QED
    BY <1>6, <1>7

\* The plan of a prefill has what is wanted of it.
LEMMA PlanIs ==
    ASSUME NEW end \in Nat, NEW start \in 0..end
    PROVE  OffloadPlan(start, end) \in Seq(Nat) /\ Wanted(start, end, OffloadPlan(start, end))
  <1> DEFINE Shape(g) == g = [pos \in 0..end |->
                IF pos >= end THEN <<>> ELSE Point(Stop(pos, end), end) \o g[Stop(pos, end)]]
             after == CHOOSE g : Shape(g)
  <1>1. OffloadPlan(start, end) = after[start]
    BY DEF OffloadPlan, Point, Stop
  <1>2. \E g \in [0..end -> Seq(Nat)] : Shape(g)
    <2> DEFINE rank == [pos \in 0..end |-> end - pos]
               prev == [pos \in 0..end |-> Stop(pos, end)]
               base == [pos \in 0..end |-> <<>>]
               step == [pos \in 0..end |-> [s \in Seq(Nat) |-> Point(Stop(pos, end), end) \o s]]
    <2>1. rank \in [0..end -> Nat] /\ \A pos \in 0..end : base[pos] \in Seq(Nat)
      OBVIOUS
    <2>2. ASSUME NEW pos \in (0..end) \ {end}
          PROVE  /\ prev[pos] \in 0..end /\ rank[prev[pos]] < rank[pos]
                 /\ \A s \in Seq(Nat) : step[pos][s] \in Seq(Nat)
      <3>1. Stop(pos, end) \in 0..end /\ pos < Stop(pos, end)
        BY StopIs
      <3>2. \A s \in Seq(Nat) : Point(Stop(pos, end), end) \o s \in Seq(Nat)
        BY <3>1 DEF Point
      <3> QED
        BY <3>1, <3>2
    <2>3. \A pos \in 0..end : /\ prev[pos] = Stop(pos, end) /\ base[pos] = <<>>
                              /\ \A s \in Seq(Nat) : step[pos][s] = Point(Stop(pos, end), end) \o s
      OBVIOUS
    <2> HIDE DEF rank, prev, base, step
    <2>4. Recursive(0..end, Seq(Nat), {end}, rank, prev, base, step)
      BY <2>1, <2>2 DEF Recursive
    <2>5. PICK g \in [0..end -> Seq(Nat)] : Solves(g, 0..end, {end}, prev, base, step)
      BY <2>4, Recursion
    <2>6. ASSUME NEW pos \in 0..end
          PROVE  g[pos] = IF pos >= end THEN <<>>
                          ELSE Point(Stop(pos, end), end) \o g[Stop(pos, end)]
      <3>0. g[pos] = IF pos \in {end} THEN base[pos] ELSE step[pos][g[prev[pos]]]
        BY <2>5, Zenon DEF Solves
      <3>1. CASE pos = end
        <4>1. pos >= end
          BY <3>1
        <4> QED
          BY <2>3, <3>0, <3>1, <4>1
      <3>2. CASE pos # end
        <4>1. Stop(pos, end) \in 0..end /\ ~(pos >= end)
          BY <3>2, StopIs
        <4>2. g[Stop(pos, end)] \in Seq(Nat)
          BY <4>1
        <4> QED
          BY <2>3, <3>0, <3>2, <4>1, <4>2
      <3> QED
        BY <3>1, <3>2
    <2> QED
      BY <2>6
  <1>3. PICK g \in [0..end -> Seq(Nat)] : Shape(g)
    BY <1>2
  <1> HIDE DEF Shape
  <1>4. Shape(after)
    BY <1>3
  <1> HIDE DEF after
  <1>5. \A pos \in 0..end : after[pos] = IF pos >= end THEN <<>>
                                         ELSE Point(Stop(pos, end), end) \o after[Stop(pos, end)]
    BY <1>4 DEF Shape
  <1> DEFINE rank == [pos \in 0..end |-> end - pos]
             P == {pos \in 0..end : after[pos] \in Seq(Nat) /\ Wanted(pos, end, after[pos])}
  <1>6. rank \in [0..end -> Nat] /\ \A pos \in 0..end : rank[pos] = end - pos
    OBVIOUS
  <1>7. ASSUME NEW pos \in 0..end, \A y \in 0..end : rank[y] < rank[pos] => y \in P
        PROVE  pos \in P
    <2>1. CASE pos = end
      <3>1. after[pos] = <<>> /\ <<>> \in Seq(Nat)
        <4>1. pos >= end
          BY <2>1
        <4> QED
          BY <1>5, <4>1
      <3>2. (end \div Boundary) * Boundary <= end /\ (end \div Boundary) * Boundary \in Nat
        BY NextMultiple, WidthAssumption
      <3>3. Wanted(pos, end, <<>>)
        BY <2>1, <3>2 DEF Wanted
      <3> QED
        BY <3>1, <3>3, Zenon
    <2>2. CASE pos # end
      <3>1. Stop(pos, end) \in 0..end /\ pos < Stop(pos, end)
        BY <2>2, StopIs
      <3>2. Stop(pos, end) \in P
        BY <1>6, <1>7, <3>1
      <3>3. after[pos] = Point(Stop(pos, end), end) \o after[Stop(pos, end)]
        <4>1. ~(pos >= end)
          BY <2>2
        <4> QED
          BY <1>5, <4>1
      <3> QED
        BY <2>2, <3>2, <3>3, PointIs
    <2> QED
      BY <2>1, <2>2
  <1>8. 0..end \subseteq P
    <2> HIDE DEF rank, P
    <2>1. PICK D : D = 0..end
      OBVIOUS
    <2>2. rank \in [D -> Nat] /\ \A x \in D : (\A y \in D : rank[y] < rank[x] => y \in P) => x \in P
      BY <1>6, <1>7, <2>1, Zenon
    <2>3. rank \in [D -> Nat]
      BY <2>2
    <2>4. \A x \in D : (\A y \in D : rank[y] < rank[x] => y \in P) => x \in P
      BY <2>2
    <2>5. D \subseteq P
      BY <2>3, <2>4, RankInduction
    <2> QED
      BY <2>1, <2>5, Zenon
  <1> QED
    BY <1>1, <1>8

\* A part of a sequence.
LEMMA Middle ==
    ASSUME NEW S, NEW p \in Seq(S), NEW m \in Nat, NEW n \in Nat, m <= n, n <= Len(p)
    PROVE  /\ SubSeq(p, m + 1, n) \in Seq(S) /\ Len(SubSeq(p, m + 1, n)) = n - m
           /\ \A i \in 1..(n - m) : SubSeq(p, m + 1, n)[i] = p[m + i]
  OBVIOUS

\* A sequence cut back to a length, were it less than nothing.
LEMMA CutIs ==
    ASSUME NEW S, NEW a \in Seq(S), NEW m \in Int, m <= Len(a)
    PROVE  SubSeq(a, 1, m) \in Seq(S)
  <1>1. CASE m >= 0
    BY <1>1, Prefix
  <1>2. CASE m < 0
    BY <1>2
  <1> QED
    BY <1>1, <1>2

\* What is left of a cache when what is too much of a snapshot is cut off it.
LEMMA LeftOver ==
    ASSUME NEW S, NEW a \in Seq(S), NEW b \in Seq(S), NEW n \in Nat, n <= Len(b)
    PROVE  Len(a) - (Len(b) - n) \in Int /\ Len(a) - (Len(b) - n) <= Len(a)
  OBVIOUS

\* Two sequences in a row.
LEMMA Joined ==
    ASSUME NEW S, NEW a \in Seq(S), NEW b \in Seq(S)
    PROVE  /\ a \o b \in Seq(S) /\ Len(a \o b) = Len(a) + Len(b)
           /\ \A i \in 1..Len(a) : (a \o b)[i] = a[i]
           /\ \A i \in 1..Len(b) : (a \o b)[Len(a) + i] = b[i]
  OBVIOUS

\* A cache that followed the prompt so far and is fed the next part follows it to there.
LEMMA FedIs ==
    ASSUME NEW r \in Request, r.fed = SubSeq(r.prompt, 1, r.pos),
           NEW n \in Nat, r.pos <= n, n <= Len(r.prompt)
    PROVE  /\ SubSeq(r.prompt, 1, n) \in Seq(Token) /\ Len(SubSeq(r.prompt, 1, n)) = n
           /\ FedTo(r, n) = SubSeq(r.prompt, 1, n)
  <1>1. PICK p, m : p = r.prompt /\ m = r.pos
    OBVIOUS
  <1>2. p \in Seq(Token) /\ m \in Nat /\ m <= n /\ n <= Len(p) /\ Len(p) \in Nat
    <2>1. p \in Prompts /\ m \in Nat
      BY <1>1 DEF Request
    <2>2. p \in Seq(Token)
      BY <2>1, PromptAssumption
    <2> QED
      BY <1>1, <2>1, <2>2
  <1>3. PICK a, b : a = SubSeq(p, 1, m) /\ b = SubSeq(p, m + 1, n)
    OBVIOUS
  <1>4. a \in Seq(Token) /\ Len(a) = m /\ \A i \in 1..m : a[i] = p[i]
    <2>1. m \in 0..Len(p)
      BY <1>2
    <2> QED
      BY <1>2, <1>3, <2>1, Prefix
  <1>5. b \in Seq(Token) /\ Len(b) = n - m /\ \A i \in 1..(n - m) : b[i] = p[m + i]
    BY <1>2, <1>3, Middle
  <1>6. PICK c, d : c = a \o b /\ d = SubSeq(p, 1, n)
    OBVIOUS
  <1>7. c \in Seq(Token) /\ Len(c) = n /\ \A i \in 1..n : c[i] = p[i]
    <2>1. /\ c \in Seq(Token) /\ Len(c) = m + (n - m)
          /\ \A i \in 1..m : c[i] = a[i]
          /\ \A i \in 1..(n - m) : c[m + i] = b[i]
      BY <1>4, <1>5, <1>6, Joined
    <2>2. ASSUME NEW i \in 1..n PROVE c[i] = p[i]
      <3>1. CASE i <= m
        BY <1>2, <1>4, <2>1, <3>1
      <3>2. CASE ~(i <= m)
        <4>1. i - m \in 1..(n - m) /\ m + (i - m) = i
          BY <1>2, <3>2
        <4> QED
          BY <1>5, <2>1, <4>1
      <3> QED
        BY <3>1, <3>2
    <2> QED
      BY <1>2, <2>1, <2>2
  <1>8. d \in Seq(Token) /\ Len(d) = n /\ \A i \in 1..n : d[i] = p[i]
    <2>1. n \in 0..Len(p)
      BY <1>2
    <2> QED
      BY <1>2, <1>6, <2>1, Prefix
  <1>9. c = d
    BY <1>7, <1>8, Extensional
  <1>10. FedTo(r, n) = c
    BY <1>1, <1>3, <1>6 DEF FedTo
  <1> QED
    BY <1>1, <1>6, <1>8, <1>9, <1>10

\* The cache of such a request is the prompt as far as it has come.
Follows(r) == attends => r.fed = SubSeq(r.prompt, 1, r.pos)

\* Any cache that is fed the next part holds tokens, and one that followed the prompt follows.
LEMMA FedFollows ==
    ASSUME NEW r \in Request, Follows(r), NEW n \in Nat, r.pos <= n, n <= Len(r.prompt)
    PROVE  /\ SubSeq(r.prompt, 1, n) \in Seq(Token) /\ Len(SubSeq(r.prompt, 1, n)) = n
           /\ FedTo(r, n) \in Seq(Token)
           /\ attends => FedTo(r, n) = SubSeq(r.prompt, 1, n)
  <1>1. PICK p, m : p = r.prompt /\ m = r.pos
    OBVIOUS
  <1>2. p \in Seq(Token) /\ m \in Nat /\ m <= n /\ n <= Len(p) /\ n \in 0..Len(p)
    <2>1. p \in Prompts /\ m \in Nat
      BY <1>1 DEF Request
    <2>2. p \in Seq(Token)
      BY <2>1, PromptAssumption
    <2> QED
      BY <1>1, <2>1, <2>2
  <1>3. SubSeq(p, 1, n) \in Seq(Token) /\ Len(SubSeq(p, 1, n)) = n
    BY <1>2, Prefix
  <1>4. r.fed \in Seq(Token) /\ SubSeq(p, m + 1, n) \in Seq(Token)
    <2>1. r.fed \in Seq(Token)
      BY DEF Request
    <2> QED
      BY <1>2, <2>1, Middle
  <1>5. FedTo(r, n) \in Seq(Token)
    BY <1>1, <1>4, Joined DEF FedTo
  <1>6. attends => FedTo(r, n) = SubSeq(r.prompt, 1, n)
    BY FedIs DEF Follows
  <1> QED
    BY <1>1, <1>3, <1>5, <1>6

Good(st) == Orderly(st) /\ Fits(st) /\ Matching(st)
Goods == {st \in Store : Good(st)}

\* The good stores as a set.
LEMMA GoodIs ==
    ASSUME NEW st
    PROVE  Good(st) <=> st \in Goods
  BY DEF Goods, Good, Orderly

\* The last of a nonempty set of places.
LEMMA GreatestPlace ==
    ASSUME NEW m \in Nat, NEW s \in SUBSET (1..m), s # {}
    PROVE  Max(s) \in s /\ \A i \in s : i <= Max(s)
  <1>1. s \subseteq Nat /\ \A i \in s : i <= m
    OBVIOUS
  <1>2. \E x \in s : \A y \in s : x >= y
    <2>1. \E x \in s : \A y \in s : y <= x
      BY <1>1, GreatestOf
    <2> QED
      BY <1>1, <2>1
  <1>3. Max(s) \in s /\ \A i \in s : Max(s) >= i
    BY <1>2 DEF Max
  <1> QED
    BY <1>1, <1>3

\* The snapshots that _offload_prefill() takes on its way: the last of them stays.
LEMMA SnapshotsAre ==
    ASSUME NEW r \in Request, Follows(r), NEW st, Good(st),
           NEW plan \in Seq(Nat),
           \A i \in 1..Len(plan) : r.pos <= plan[i] /\ plan[i] <= Len(r.prompt)
    PROVE  LET new == FoldLeft(LAMBDA s, n : Insert(s, SubSeq(r.prompt, 1, n), FedTo(r, n)), st, plan)
           IN  /\ Good(new)
               /\ Len(plan) > 0 /\ plan[Len(plan)] >= MinMatch =>
                     Has(new, SubSeq(r.prompt, 1, plan[Len(plan)]))
  <1>1. PICK m \in Nat : m = Len(plan) /\ DOMAIN plan = 1..m
    OBVIOUS
  <1> DEFINE put(s, n) == Insert(s, SubSeq(r.prompt, 1, n), FedTo(r, n))
             Shape(g) == g = [s \in SUBSET (1..m) |->
                IF s = {} THEN st ELSE put(g[s \ {Max(s)}], plan[Max(s)])]
             it == CHOOSE g : Shape(g)
  <1>2. FoldLeft(LAMBDA s, n : Insert(s, SubSeq(r.prompt, 1, n), FedTo(r, n)), st, plan) = it[1..m]
    BY <1>1 DEF FoldLeft, MapThenFoldSet
  <1>3. ASSUME NEW s \in Goods, NEW i \in 1..m
        PROVE  /\ put(s, plan[i]) \in Goods
               /\ plan[i] >= MinMatch => Has(put(s, plan[i]), SubSeq(r.prompt, 1, plan[i]))
    <2>1. plan[i] \in Nat /\ r.pos <= plan[i] /\ plan[i] <= Len(r.prompt)
      BY <1>1
    <2>2. PICK t, c \in Seq(Token) :
             /\ t = SubSeq(r.prompt, 1, plan[i]) /\ c = FedTo(r, plan[i]) /\ Len(t) = plan[i]
             /\ attends => c = t
      BY <2>1, FedFollows
    <2>3. Orderly(s) /\ Fits(s) /\ Matching(s)
      BY GoodIs DEF Good
    <2>4. /\ Orderly(Insert(s, t, c)) /\ Fits(Insert(s, t, c)) /\ Matching(Insert(s, t, c))
          /\ Len(t) >= MinMatch => Has(Insert(s, t, c), t)
      BY <2>2, <2>3, Inserts
    <2>5. Insert(s, t, c) \in Goods
      BY <2>4, GoodIs DEF Good
    <2>6. put(s, plan[i]) = Insert(s, t, c)
      BY <2>2
    <2> QED
      BY <2>2, <2>4, <2>5, <2>6
  <1> HIDE DEF put
  <1> DEFINE pick == [s \in SUBSET (1..m) |-> Max(s)]
             step == [i \in 1..m |-> [s \in Goods |-> put(s, plan[i])]]
  <1>4. \A s \in SUBSET (1..m) : pick[s] = Max(s) /\ (s # {} => pick[s] \in s /\ pick[s] \in 1..m)
    BY GreatestPlace
  <1>5. \A i \in 1..m : \A s \in Goods : step[i][s] = put(s, plan[i]) /\ step[i][s] \in Goods
    BY <1>3
  <1> HIDE DEF pick, step
  <1>6. IsFiniteSet(1..m) /\ st \in Goods
    BY FS_Interval, GoodIs
  <1>p. Picks(pick, 1..m)
    BY <1>4 DEF Picks
  <1>7. PICK g \in [SUBSET (1..m) -> Goods] : Folded(g, 1..m, st, pick, step)
    BY <1>5, <1>6, <1>p, SubsetRecursion
  <1>8. Shape(g)
    <2>1. ASSUME NEW s \in SUBSET (1..m)
          PROVE  g[s] = IF s = {} THEN st ELSE put(g[s \ {Max(s)}], plan[Max(s)])
      <3>1. g[s] = IF s = {} THEN st ELSE step[pick[s]][g[s \ {pick[s]}]]
        BY <1>7 DEF Folded
      <3>2. g[s \ {pick[s]}] \in Goods
        OBVIOUS
      <3> QED
        BY <1>4, <1>5, <3>1, <3>2
    <2> QED
      BY <2>1
  <1>9. Shape(it)
    <2> HIDE DEF Shape
    <2> QED
      BY <1>8
  <1> HIDE DEF it
  <1>10. \A s \in SUBSET (1..m) : it[s] = IF s = {} THEN st ELSE put(it[s \ {Max(s)}], plan[Max(s)])
    BY <1>9
  <1> HIDE DEF Shape
  <1> DEFINE P == {s \in SUBSET (1..m) : it[s] \in Goods}
  <1>11. \A s \in SUBSET (1..m) : it[s] \in Goods
    <2>1. {} \in P
      BY <1>6, <1>10
    <2>2. ASSUME NEW s \in SUBSET (1..m), s # {}, \A x \in s : s \ {x} \in P PROVE s \in P
      <3>1. pick[s] = Max(s) /\ pick[s] \in 1..m /\ it[s \ {pick[s]}] \in Goods
        BY <1>4, <2>2
      <3>2. it[s] = put(it[s \ {pick[s]}], plan[pick[s]])
        BY <1>10, <2>2, <3>1
      <3>3. it[s] \in Goods
        BY <1>3, <3>1, <3>2
      <3> QED
        BY <3>3
    <2> HIDE DEF P
    <2>3. SUBSET (1..m) \subseteq P
      <3>1. Inherited(P, 1..m)
        BY <2>1, <2>2 DEF Inherited
      <3> QED
        BY <1>6, <3>1, SubsetInduction
    <2> QED
      BY <2>3 DEF P
  <1>12. 1..m \in SUBSET (1..m) /\ Good(it[1..m])
    BY <1>11, GoodIs
  <1>13. ASSUME m > 0, plan[m] >= MinMatch PROVE Has(it[1..m], SubSeq(r.prompt, 1, plan[m]))
    <2>1. m \in 1..m
      BY <1>13
    <2>2. Max(1..m) = m
      <3>1. Max(1..m) \in 1..m /\ m <= Max(1..m)
        BY <1>12, <2>1, GreatestPlace
      <3> QED
        BY <3>1
    <2>3. it[1..m] = put(it[(1..m) \ {m}], plan[m])
      BY <1>10, <1>12, <2>1, <2>2
    <2>4. it[(1..m) \ {m}] \in Goods
      BY <1>11
    <2> QED
      BY <1>3, <1>13, <2>1, <2>3, <2>4
  <1> QED
    BY <1>1, <1>2, <1>12, <1>13

----------------------------------------------------------------------------
(* Sums.                                                                   *)

SumOn(f, S) == SumFunctionOnSet(f, S)
OneOf(s) == CHOOSE x \in s : TRUE

Ints(f, S) == \A x \in S : f[x] \in Int
AddsUp(g, f, S) ==
    \A s \in SUBSET S : g[s] = IF s = {} THEN 0 ELSE f[OneOf(s)] + g[s \ {OneOf(s)}]

\* What SumFunctionOnSet computes: one element after the other, in an order it chooses.
LEMMA SumSolves ==
    ASSUME NEW S, IsFiniteSet(S), NEW f, Ints(f, S)
    PROVE  \E g \in [SUBSET S -> Int] : SumOn(f, S) = g[S] /\ AddsUp(g, f, S)
  <1> DEFINE Shape(g) == g = [s \in SUBSET S |->
                IF s = {} THEN 0 ELSE f[CHOOSE x \in s : TRUE] + g[s \ {CHOOSE x \in s : TRUE}]]
             it   == CHOOSE g : Shape(g)
             pick == [s \in SUBSET S |-> OneOf(s)]
             step == [x \in S |-> [n \in Int |-> f[x] + n]]
  <1>1. SumOn(f, S) = it[S]
    BY DEF SumOn, SumFunctionOnSet, FoldFunctionOnSet, MapThenFoldSet
  <1>2. \A s \in SUBSET S : pick[s] = OneOf(s) /\ (s # {} => OneOf(s) \in s)
    BY DEF OneOf
  <1>3. \A x \in S : \A n \in Int : step[x][n] = f[x] + n
    OBVIOUS
  <1>i. 0 \in Int /\ \A x \in S : \A n \in Int : step[x][n] \in Int
    BY DEF Ints
  <1> HIDE DEF pick, step
  <1>4. Picks(pick, S)
    BY <1>2 DEF Picks
  <1>5. PICK g \in [SUBSET S -> Int] : Folded(g, S, 0, pick, step)
    BY <1>i, <1>4, SubsetRecursion
  <1>6. Shape(g)
    <2>1. ASSUME NEW s \in SUBSET S
          PROVE  g[s] = IF s = {} THEN 0 ELSE f[OneOf(s)] + g[s \ {OneOf(s)}]
      <3>1. g[s] = IF s = {} THEN 0 ELSE step[pick[s]][g[s \ {pick[s]}]]
        BY <1>5 DEF Folded
      <3>2. g[s \ {pick[s]}] \in Int
        OBVIOUS
      <3> QED
        BY <1>2, <1>3, <3>1, <3>2
    <2> QED
      BY <2>1 DEF OneOf
  <1>7. Shape(it)
    <2> HIDE DEF Shape
    <2> QED
      BY <1>6
  <1> HIDE DEF it
  <1>8. DOMAIN it = SUBSET S /\ it = [s \in SUBSET S |-> it[s]]
    BY <1>7
  <1>9. \A s \in SUBSET S : it[s] = IF s = {} THEN 0 ELSE f[OneOf(s)] + it[s \ {OneOf(s)}]
    BY <1>7 DEF OneOf
  <1> HIDE DEF Shape
  <1> DEFINE P == {s \in SUBSET S : it[s] \in Int}
  <1>10. ASSUME NEW s \in SUBSET S, \A x \in s : s \ {x} \in P PROVE s \in P
    <2>0. it[s] = IF s = {} THEN 0 ELSE f[OneOf(s)] + it[s \ {OneOf(s)}]
      BY <1>9
    <2>1. CASE s = {}
      <3>1. it[s] \in Int
        BY <2>0, <2>1
      <3> QED
        BY <3>1
    <2>2. CASE s # {}
      <3>1. OneOf(s) \in s /\ it[s \ {OneOf(s)}] \in Int /\ f[OneOf(s)] \in Int
        BY <1>2, <1>10, <2>2 DEF Ints
      <3>2. it[s] \in Int
        BY <2>0, <2>2, <3>1
      <3> QED
        BY <3>2
    <2> QED
      BY <2>1, <2>2
  <1>11. \A s \in SUBSET S : it[s] \in Int
    <2> HIDE DEF P
    <2>1. Inherited(P, S)
      BY <1>10 DEF Inherited
    <2>2. SUBSET S \subseteq P
      BY <2>1, SubsetInduction
    <2> QED
      BY <2>2 DEF P
  <1>12. it \in [SUBSET S -> Int]
    BY <1>8, <1>11
  <1> QED
    BY <1>1, <1>9, <1>12 DEF AddsUp

\* A sum is its chosen element and the sum of the rest.
LEMMA SumLess ==
    ASSUME NEW S, IsFiniteSet(S), NEW f, Ints(f, S)
    PROVE  /\ SumOn(f, S) \in Int
           /\ S = {} => SumOn(f, S) = 0
           /\ S # {} => SumOn(f, S) = f[OneOf(S)] + SumOn(f, S \ {OneOf(S)})
  <1>1. PICK g \in [SUBSET S -> Int] : SumOn(f, S) = g[S] /\ AddsUp(g, f, S)
    BY SumSolves
  <1>2. S \in SUBSET S
    OBVIOUS
  <1>3. ASSUME S # {} PROVE SumOn(f, S) = f[OneOf(S)] + SumOn(f, S \ {OneOf(S)})
    <2>0. S \ {OneOf(S)} \subseteq S /\ IsFiniteSet(S \ {OneOf(S)})
      BY FS_Subset
    <2>1. PICK R : R = S \ {OneOf(S)} /\ R \subseteq S /\ IsFiniteSet(R)
      BY <2>0
    <2>2. PICK h \in [SUBSET R -> Int] : SumOn(f, R) = h[R] /\ AddsUp(h, f, R)
      <3>1. Ints(f, R)
        BY <2>1 DEF Ints
      <3> QED
        BY <2>1, <3>1, SumSolves
    <2> DEFINE P == {s \in SUBSET R : g[s] = h[s]}
    <2>3. ASSUME NEW s \in SUBSET R, \A x \in s : s \ {x} \in P PROVE s \in P
      <3>1. s \in SUBSET S
        BY <2>1
      <3>2. /\ g[s] = IF s = {} THEN 0 ELSE f[OneOf(s)] + g[s \ {OneOf(s)}]
            /\ h[s] = IF s = {} THEN 0 ELSE f[OneOf(s)] + h[s \ {OneOf(s)}]
        BY <1>1, <2>2, <3>1 DEF AddsUp
      <3>3. s # {} => OneOf(s) \in s
        BY DEF OneOf
      <3>4. g[s] = h[s]
        BY <2>3, <3>2, <3>3
      <3> QED
        BY <3>4
    <2>4. g[R] = h[R]
      <3> HIDE DEF P
      <3>1. Inherited(P, R)
        BY <2>3 DEF Inherited
      <3>2. SUBSET R \subseteq P
        BY <2>1, <3>1, SubsetInduction
      <3>3. R \in P
        BY <3>2
      <3> QED
        BY <3>3 DEF P
    <2> QED
      BY <1>1, <1>2, <1>3, <2>1, <2>2, <2>4 DEF AddsUp
  <1> QED
    BY <1>1, <1>2, <1>3 DEF AddsUp

\* Any element can be the first.
LEMMA SumOne ==
    ASSUME NEW S, IsFiniteSet(S), NEW f, Ints(f, S), NEW e \in S
    PROVE  SumOn(f, S) = f[e] + SumOn(f, S \ {e})
  <1> DEFINE P == {s \in SUBSET S : \A x \in s : SumOn(f, s) = f[x] + SumOn(f, s \ {x})}
  <1>1. \A s \in SUBSET S : IsFiniteSet(s) /\ Ints(f, s)
    BY FS_Subset DEF Ints
  <1>2. ASSUME NEW s \in SUBSET S, \A x \in s : s \ {x} \in P PROVE s \in P
    <2>1. ASSUME NEW x \in s PROVE SumOn(f, s) = f[x] + SumOn(f, s \ {x})
      <3>1. PICK a \in s : a = OneOf(s)
        BY DEF OneOf
      <3>2. SumOn(f, s) = f[a] + SumOn(f, s \ {a})
        BY <1>1, <3>1, SumLess
      <3>3. CASE x = a
        BY <3>2, <3>3
      <3>4. CASE x # a
        <4>1. PICK r : r = (s \ {a}) \ {x} /\ r = (s \ {x}) \ {a} /\ r \in SUBSET S
          OBVIOUS
        <4>2. SumOn(f, s \ {a}) = f[x] + SumOn(f, r)
          BY <1>2, <3>4, <4>1
        <4>3. SumOn(f, s \ {x}) = f[a] + SumOn(f, r)
          BY <1>2, <3>4, <4>1
        <4>4. f[a] \in Int /\ f[x] \in Int /\ SumOn(f, r) \in Int
          BY <1>1, <4>1, SumLess DEF Ints
        <4> QED
          BY <3>2, <4>2, <4>3, <4>4
      <3> QED
        BY <3>3, <3>4
    <2> QED
      BY <2>1
  <1>3. S \in P
    <2> HIDE DEF P
    <2>1. Inherited(P, S)
      BY <1>2 DEF Inherited
    <2> QED
      BY <2>1, SubsetInduction
  <1> QED
    BY <1>3

\* What holds of every element and passes from a sum to the next holds of the sum.
LEMMA SumNat ==
    ASSUME NEW S, IsFiniteSet(S), NEW f, \A x \in S : f[x] \in Nat
    PROVE  SumOn(f, S) \in Nat
  <1> DEFINE P == {s \in SUBSET S : SumOn(f, s) \in Nat}
  <1>0. \A s \in SUBSET S : IsFiniteSet(s) /\ Ints(f, s)
    BY FS_Subset DEF Ints
  <1>1. ASSUME NEW s \in SUBSET S, \A x \in s : s \ {x} \in P PROVE s \in P
    <2>1. CASE s = {}
      <3>1. SumOn(f, s) = 0
        BY <1>0, <2>1, SumLess
      <3> QED
        BY <3>1
    <2>2. CASE s # {}
      <3>1. PICK x \in s : TRUE
        BY <2>2
      <3>2. SumOn(f, s) = f[x] + SumOn(f, s \ {x})
        BY <1>0, SumOne
      <3>3. f[x] \in Nat /\ SumOn(f, s \ {x}) \in Nat
        BY <1>1
      <3>4. SumOn(f, s) \in Nat
        BY <3>2, <3>3
      <3> QED
        BY <3>4
    <2> QED
      BY <2>1, <2>2
  <1>2. S \in P
    <2> HIDE DEF P
    <2>1. Inherited(P, S)
      BY <1>1 DEF Inherited
    <2> QED
      BY <2>1, SubsetInduction
  <1> QED
    BY <1>2

\* The sum of the sums, the sum of multiples, and sums compared: k is a combination of f and h.
LEMMA SumLinear ==
    ASSUME NEW S, IsFiniteSet(S), NEW f, Ints(f, S), NEW h, Ints(h, S), NEW k,
           NEW c \in Int, NEW d \in Int, \A x \in S : k[x] = c * f[x] + d * h[x]
    PROVE  SumOn(k, S) = c * SumOn(f, S) + d * SumOn(h, S)
  <1> DEFINE P == {s \in SUBSET S : SumOn(k, s) = c * SumOn(f, s) + d * SumOn(h, s)}
  <1>0. \A s \in SUBSET S : IsFiniteSet(s) /\ Ints(f, s) /\ Ints(h, s) /\ Ints(k, s)
    BY FS_Subset DEF Ints
  <1>1. ASSUME NEW s \in SUBSET S, \A x \in s : s \ {x} \in P PROVE s \in P
    <2>1. CASE s = {}
      <3>1. SumOn(f, s) = 0 /\ SumOn(h, s) = 0 /\ SumOn(k, s) = 0
        BY <1>0, <2>1, SumLess
      <3> QED
        BY <3>1
    <2>2. CASE s # {}
      <3>1. PICK x \in s : TRUE
        BY <2>2
      <3>2. PICK r \in SUBSET S : r = s \ {x} /\ r \in P
        BY <1>1
      <3>3. /\ SumOn(f, s) = f[x] + SumOn(f, r) /\ SumOn(h, s) = h[x] + SumOn(h, r)
            /\ SumOn(k, s) = k[x] + SumOn(k, r)
        BY <1>0, <3>2, SumOne
      <3>4. /\ f[x] \in Int /\ h[x] \in Int /\ SumOn(f, r) \in Int /\ SumOn(h, r) \in Int
        BY <1>0, <3>2, SumLess DEF Ints
      <3>5. k[x] = c * f[x] + d * h[x] /\ SumOn(k, r) = c * SumOn(f, r) + d * SumOn(h, r)
        BY <3>2
      <3>6. SumOn(k, s) = c * SumOn(f, s) + d * SumOn(h, s)
        BY <3>3, <3>4, <3>5
      <3> QED
        BY <3>6
    <2> QED
      BY <2>1, <2>2
  <1>2. S \in P
    <2> HIDE DEF P
    <2>1. Inherited(P, S)
      BY <1>1 DEF Inherited
    <2> QED
      BY <2>1, SubsetInduction
  <1> QED
    BY <1>2

\* Less everywhere, less in sum.
LEMMA SumAtMost ==
    ASSUME NEW S, IsFiniteSet(S), NEW f, Ints(f, S), NEW h, Ints(h, S), \A x \in S : f[x] <= h[x]
    PROVE  SumOn(f, S) <= SumOn(h, S)
  <1> DEFINE k == [x \in S |-> h[x] - f[x]]
  <1>1. \A x \in S : k[x] \in Nat /\ k[x] = 1 * h[x] + (-1) * f[x]
    BY DEF Ints
  <1> HIDE DEF k
  <1>2. SumOn(k, S) = 1 * SumOn(h, S) + (-1) * SumOn(f, S)
    BY <1>1, SumLinear
  <1>3. SumOn(k, S) \in Nat /\ SumOn(h, S) \in Int /\ SumOn(f, S) \in Int
    BY <1>1, SumNat, SumLess
  <1> QED
    BY <1>2, <1>3

\* The same everywhere, the same in sum.
LEMMA SumSame ==
    ASSUME NEW S, IsFiniteSet(S), NEW f, Ints(f, S), NEW h, \A x \in S : f[x] = h[x]
    PROVE  SumOn(f, S) = SumOn(h, S)
  <1>1. Ints(h, S)
    BY DEF Ints
  <1>2. SumOn(f, S) <= SumOn(h, S) /\ SumOn(h, S) <= SumOn(f, S)
    BY <1>1, SumAtMost DEF Ints
  <1>3. SumOn(f, S) \in Int /\ SumOn(h, S) \in Int
    BY <1>1, SumLess
  <1> QED
    BY <1>2, <1>3

\* A part and the rest.
LEMMA SumParts ==
    ASSUME NEW S, IsFiniteSet(S), NEW f, Ints(f, S), NEW T \in SUBSET S
    PROVE  SumOn(f, S) = SumOn(f, T) + SumOn(f, S \ T)
  <1> DEFINE P == {s \in SUBSET T : SumOn(f, S) = SumOn(f, s) + SumOn(f, S \ s)}
  <1>0. \A s \in SUBSET S : IsFiniteSet(s) /\ Ints(f, s)
    BY FS_Subset DEF Ints
  <1>1. ASSUME NEW s \in SUBSET T, \A x \in s : s \ {x} \in P PROVE s \in P
    <2>1. CASE s = {}
      <3>1. SumOn(f, s) = 0 /\ S \ s = S /\ SumOn(f, S) \in Int
        BY <1>0, <2>1, SumLess
      <3> QED
        BY <3>1
    <2>2. CASE s # {}
      <3>1. PICK x \in s : TRUE
        BY <2>2
      <3>2. PICK r \in SUBSET T : r = s \ {x} /\ SumOn(f, S) = SumOn(f, r) + SumOn(f, S \ r)
        BY <1>1
      <3>3. SumOn(f, s) = f[x] + SumOn(f, r)
        BY <1>0, <3>2, SumOne
      <3>4. SumOn(f, S \ r) = f[x] + SumOn(f, S \ s)
        <4>1. x \in S \ r /\ (S \ r) \ {x} = S \ s /\ S \ r \in SUBSET S
          BY <3>2
        <4> QED
          BY <1>0, <4>1, SumOne
      <3>5. f[x] \in Int /\ SumOn(f, r) \in Int /\ SumOn(f, S \ s) \in Int
        BY <1>0, <3>2, SumLess DEF Ints
      <3>6. SumOn(f, S) = SumOn(f, s) + SumOn(f, S \ s)
        BY <3>2, <3>3, <3>4, <3>5
      <3> QED
        BY <3>6
    <2> QED
      BY <2>1, <2>2
  <1>2. T \in P
    <2> HIDE DEF P
    <2>1. Inherited(P, T) /\ IsFiniteSet(T)
      BY <1>0, <1>1 DEF Inherited
    <2> QED
      BY <2>1, SubsetInduction
  <1> QED
    BY <1>2

\* The same everywhere.
LEMMA SumOfSame ==
    ASSUME NEW S, IsFiniteSet(S), NEW f, NEW c \in Int, \A x \in S : f[x] = c
    PROVE  SumOn(f, S) = c * Cardinality(S)
  <1> DEFINE P == {s \in SUBSET S : SumOn(f, s) = c * Cardinality(s)}
  <1>0. \A s \in SUBSET S : IsFiniteSet(s) /\ Ints(f, s)
    BY FS_Subset DEF Ints
  <1>1. ASSUME NEW s \in SUBSET S, \A x \in s : s \ {x} \in P PROVE s \in P
    <2>1. CASE s = {}
      <3>1. SumOn(f, s) = 0 /\ Cardinality(s) = 0
        BY <1>0, <2>1, SumLess, FS_EmptySet
      <3> QED
        BY <3>1
    <2>2. CASE s # {}
      <3>1. PICK x \in s : TRUE
        BY <2>2
      <3>2. PICK r \in SUBSET S : r = s \ {x} /\ SumOn(f, r) = c * Cardinality(r)
        BY <1>1
      <3>3. SumOn(f, s) = c + SumOn(f, r)
        BY <1>0, <3>2, SumOne, ZenonT(60)
      <3>4. PICK n \in Nat : n = Cardinality(r) /\ Cardinality(s) = n + 1
        <4>1. Cardinality(r) = Cardinality(s) - 1 /\ Cardinality(s) \in Nat /\ Cardinality(r) \in Nat
          BY <1>0, <3>2, FS_RemoveElement, FS_CardinalityType
        <4> QED
          BY <4>1
      <3>5. SumOn(f, s) = c * Cardinality(s)
        BY <3>2, <3>3, <3>4
      <3> QED
        BY <3>5
    <2> QED
      BY <2>1, <2>2
  <1>2. S \in P
    <2> HIDE DEF P
    <2>1. Inherited(P, S)
      BY <1>1 DEF Inherited
    <2> QED
      BY <2>1, SubsetInduction
  <1> QED
    BY <1>2

----------------------------------------------------------------------------
(* The shares of the layers.                                               *)

\* The layers are finitely many, and there are some.
LEMMA LayersAre ==
    /\ IsFiniteSet(Layer) /\ Cardinality(Layer) = NumLayers /\ Layer # {}
    /\ NumLayers \in Nat \ {0} /\ Layer \subseteq Nat
    /\ \A S \in SUBSET Layer : IsFiniteSet(S) /\ Cardinality(S) \in Nat /\ Cardinality(S) <= NumLayers
  <1>1. NumLayers \in Nat \ {0}
    BY LayerAssumption
  <1>2. IsFiniteSet(1..NumLayers) /\ Cardinality(1..NumLayers) = NumLayers
    BY <1>1, FS_Interval
  <1>3. 1 \in 1..NumLayers /\ 1..NumLayers \subseteq Nat
    BY <1>1
  <1>4. \A S \in SUBSET (1..NumLayers) :
           IsFiniteSet(S) /\ Cardinality(S) \in Nat /\ Cardinality(S) <= NumLayers
    BY <1>2, FS_Subset, FS_CardinalityType
  <1> QED
    BY <1>1, <1>2, <1>3, <1>4 DEF Layer

\* Layer i comes before layer j in the order of their misses.
Ahead(m, i, j) == m[i] > m[j] \/ (m[i] = m[j] /\ i < j)

\* Ranks count up from 0 in the order of the misses, and no two are the same.
LEMMA RankIs ==
    ASSUME NEW m \in [Layer -> Nat], NEW S \in SUBSET Layer
    PROVE  /\ \A i \in S : Rank(m, S, i) \in Nat /\ Rank(m, S, i) < Cardinality(S)
           /\ \A i, j \in S : Ahead(m, i, j) => Rank(m, S, i) < Rank(m, S, j)
           /\ \A i, j \in S : Rank(m, S, i) = Rank(m, S, j) => i = j
  <1> DEFINE before(i) == {j \in S : Ahead(m, j, i)}
  <1>1. \A i : Rank(m, S, i) = Cardinality(before(i))
    BY DEF Rank, Ahead
  <1>2. \A i \in S : m[i] \in Nat /\ i \in Nat
    BY LayersAre
  <1>3. \A i \in S : i \notin before(i)
    BY <1>2 DEF Ahead
  <1>4. IsFiniteSet(S)
    BY LayersAre
  <1>5. \A i \in S : /\ before(i) \in SUBSET S /\ IsFiniteSet(before(i))
                     /\ Cardinality(before(i)) \in Nat
    BY <1>4, FS_Subset, FS_CardinalityType
  <1>6. ASSUME NEW i \in S PROVE Cardinality(before(i)) < Cardinality(S)
    <2>1. before(i) \in SUBSET S /\ before(i) # S
      BY <1>3
    <2> HIDE DEF before
    <2>2. Cardinality(before(i)) <= Cardinality(S) /\ Cardinality(before(i)) # Cardinality(S)
      BY <1>4, <2>1, FS_Subset
    <2> QED
      BY <1>4, <1>5, <2>2, FS_CardinalityType
  <1>7. ASSUME NEW i \in S, NEW j \in S, Ahead(m, i, j)
        PROVE  Cardinality(before(i)) < Cardinality(before(j))
    <2>1. before(i) \in SUBSET before(j)
      BY <1>2, <1>7 DEF Ahead
    <2>2. i \in before(j) /\ i \notin before(i)
      BY <1>3, <1>7
    <2>3. before(i) # before(j)
      BY <2>2
    <2> HIDE DEF before
    <2>4. /\ Cardinality(before(i)) <= Cardinality(before(j))
          /\ Cardinality(before(i)) # Cardinality(before(j))
      BY <1>5, <2>1, <2>3, FS_Subset
    <2> QED
      BY <1>5, <2>4
  <1>8. \A i, j \in S : i # j => Ahead(m, i, j) \/ Ahead(m, j, i)
    BY <1>2 DEF Ahead
  <1> HIDE DEF before
  <1>9. ASSUME NEW i \in S, NEW j \in S, Rank(m, S, i) = Rank(m, S, j), i # j PROVE FALSE
    <2>1. Cardinality(before(i)) < Cardinality(before(j)) \/ Cardinality(before(j)) < Cardinality(before(i))
      BY <1>7, <1>8, <1>9
    <2> QED
      BY <1>1, <1>5, <1>9, <2>1
  <1> QED
    BY <1>1, <1>5, <1>6, <1>7, <1>9

\* Ranks are the numbers from 0 on: so many are below k.
LEMMA RanksBelow ==
    ASSUME NEW S, IsFiniteSet(S), NEW r \in [S -> Nat], \A i \in S : r[i] < Cardinality(S),
           \A i, j \in S : r[i] = r[j] => i = j, NEW k \in Nat, k <= Cardinality(S)
    PROVE  Cardinality({i \in S : r[i] < k}) = k
  <1>1. PICK n \in Nat : n = Cardinality(S)
    BY FS_CardinalityType
  <1>2. r \in Surjection(S, 0..(n - 1))
    <2>1. r \in [S -> 0..(n - 1)]
      BY <1>1
    <2>2. r \in Injection(S, 0..(n - 1))
      BY <2>1, Fun_IsInj
    <2>3. IsFiniteSet(0..(n - 1)) /\ Cardinality(0..(n - 1)) = n
      <3>1. 0 \in Int /\ n - 1 \in Int
        OBVIOUS
      <3> QED
        BY <3>1, FS_Interval
    <2> QED
      BY <1>1, <2>2, <2>3, FS_Injection
  <1>3. \A x \in 0..(n - 1) : \E i \in S : r[i] = x
    BY <1>2, Fun_SurjectionProperties
  <1> DEFINE T == {i \in S : r[i] < k}
             f == [i \in T |-> r[i]]
  <1>4. f \in [T -> 0..(k - 1)] /\ \A i \in T : f[i] = r[i]
    OBVIOUS
  <1>5. \A i, j \in T : f[i] = f[j] => i = j
    BY <1>4
  <1>6. \A x \in 0..(k - 1) : \E i \in T : f[i] = x
    <2> TAKE x \in 0..(k - 1)
    <2>1. x \in 0..(n - 1) /\ x < k
      BY <1>1
    <2>2. PICK i \in S : r[i] = x
      BY <1>3, <2>1
    <2>3. i \in T
      BY <2>1, <2>2
    <2> QED
      BY <1>4, <2>2, <2>3
  <1> HIDE DEF T, f
  <1>7. f \in Injection(T, 0..(k - 1)) /\ f \in Surjection(T, 0..(k - 1))
    BY <1>4, <1>5, <1>6, Fun_IsInj, Fun_IsSurj
  <1>8. IsFiniteSet(0..(k - 1)) /\ Cardinality(0..(k - 1)) = k
    <2>1. 0 \in Int /\ k - 1 \in Int
      OBVIOUS
    <2> QED
      BY <2>1, FS_Interval
  <1>9. Cardinality(T) = k
    BY <1>7, <1>8, FS_Injection
  <1> QED
    BY <1>9 DEF T

\* One each for so many of a set.
LEMMA SumOfOnes ==
    ASSUME NEW S, IsFiniteSet(S), NEW T \in SUBSET S, NEW f,
           \A i \in T : f[i] = 1, \A i \in S \ T : f[i] = 0
    PROVE  SumOn(f, S) = Cardinality(T)
  <1>1. IsFiniteSet(T) /\ IsFiniteSet(S \ T) /\ Cardinality(T) \in Nat /\ Cardinality(S \ T) \in Nat
    BY FS_Subset, FS_Difference, FS_CardinalityType
  <1>2. Ints(f, S)
    BY DEF Ints
  <1>3. SumOn(f, S) = SumOn(f, T) + SumOn(f, S \ T)
    BY <1>2, SumParts
  <1>4. SumOn(f, T) = 1 * Cardinality(T)
    BY <1>1, SumOfSame
  <1>5. SumOn(f, S \ T) = 0 * Cardinality(S \ T)
    BY <1>1, SumOfSame
  <1> QED
    BY <1>1, <1>3, <1>4, <1>5

\* What comes of handing the rest of an amount out to a set of layers: nobody loses, who came
\* first stays first, and nothing is left if there are layers enough.
Handed(new, parts, m, S, amount) ==
    /\ new \in [Layer -> Nat] /\ \A i \in Layer : parts[i] <= new[i]
    /\ \A i \in Layer \ S : new[i] = parts[i]
    /\ \A i, j \in S : Ahead(m, i, j) /\ parts[j] <= parts[i] => new[j] <= new[i]
    /\ SumOn(parts, S) <= amount /\ amount <= SumOn(parts, S) + Cardinality(S)
       => SumOn(new, S) = amount

\* What HandedOut makes of any parts.
LEMMA HandedOutIs ==
    ASSUME NEW m \in [Layer -> Nat], NEW parts \in [Layer -> Nat], NEW S \in SUBSET Layer,
           NEW amount \in Nat
    PROVE  Handed(HandedOut(parts, m, S, amount), parts, m, S, amount)
  <1>1. PICK rest : rest = amount - SumOn(parts, S)
    OBVIOUS
  <1>2. IsFiniteSet(S) /\ \A i \in S : i \in Layer
    BY LayersAre
  <1>3. SumOn(parts, S) \in Nat /\ rest \in Int /\ Cardinality(S) \in Nat
    <2>1. SumOn(parts, S) \in Nat /\ Cardinality(S) \in Nat
      BY <1>2, SumNat, FS_CardinalityType
    <2> QED
      BY <1>1, <2>1
  <1> DEFINE r == [i \in S |-> Rank(m, S, i)]
  <1>4. /\ r \in [S -> Nat] /\ \A i \in S : r[i] = Rank(m, S, i) /\ r[i] < Cardinality(S)
        /\ \A i, j \in S : Ahead(m, i, j) => r[i] < r[j]
        /\ \A i, j \in S : r[i] = r[j] => i = j
    BY RankIs
  <1>5. PICK new : new = HandedOut(parts, m, S, amount)
    OBVIOUS
  <1>6. new = [i \in Layer |-> IF i \in S /\ r[i] < rest THEN parts[i] + 1 ELSE parts[i]]
    BY <1>1, <1>5 DEF HandedOut, SumOn
  <1> HIDE DEF r
  <1>7. /\ new \in [Layer -> Nat] /\ \A i \in Layer : parts[i] <= new[i]
        /\ \A i \in Layer \ S : new[i] = parts[i]
    BY <1>6
  <1>8. ASSUME NEW i \in S, NEW j \in S, Ahead(m, i, j), parts[j] <= parts[i] PROVE new[j] <= new[i]
    <2>1. /\ new[i] = IF r[i] < rest THEN parts[i] + 1 ELSE parts[i]
          /\ new[j] = IF r[j] < rest THEN parts[j] + 1 ELSE parts[j]
      BY <1>2, <1>6
    <2>2. r[i] \in Nat /\ r[j] \in Nat /\ r[i] < r[j] /\ parts[i] \in Nat /\ parts[j] \in Nat
      BY <1>2, <1>4, <1>8
    <2> QED
      BY <1>3, <1>8, <2>1, <2>2
  <1>9. ASSUME SumOn(parts, S) <= amount, amount <= SumOn(parts, S) + Cardinality(S)
        PROVE  SumOn(new, S) = amount
    <2>1. rest \in Nat /\ rest <= Cardinality(S)
      BY <1>1, <1>3, <1>9
    <2> DEFINE T == {i \in S : r[i] < rest}
               one == [i \in S |-> IF i \in T THEN 1 ELSE 0]
    <2>2. Cardinality(T) = rest
      BY <1>2, <1>4, <2>1, RanksBelow
    <2>3. T \in SUBSET S /\ (\A i \in T : one[i] = 1) /\ (\A i \in S \ T : one[i] = 0)
      OBVIOUS
    <2>4. \A i \in S : new[i] = 1 * parts[i] + 1 * one[i]
      <3> TAKE i \in S
      <3>1. new[i] = IF r[i] < rest THEN parts[i] + 1 ELSE parts[i]
        BY <1>2, <1>6
      <3>2. one[i] = IF r[i] < rest THEN 1 ELSE 0
        OBVIOUS
      <3>3. parts[i] \in Nat
        BY <1>2
      <3> HIDE DEF one
      <3> QED
        BY <3>1, <3>2, <3>3
    <2>5. Ints(parts, S) /\ Ints(one, S)
      BY <1>2 DEF Ints
    <2> HIDE DEF T, one
    <2>6. SumOn(one, S) = rest
      BY <1>2, <2>2, <2>3, SumOfOnes
    <2>7. SumOn(new, S) = 1 * SumOn(parts, S) + 1 * SumOn(one, S)
      BY <1>2, <2>4, <2>5, SumLinear
    <2> QED
      BY <1>1, <1>3, <2>6, <2>7
  <1> QED
    BY <1>5, <1>7, <1>8, <1>9 DEF Handed

\* Rounding down loses less than one each.
LEMMA Rounded ==
    ASSUME NEW a \in Nat, NEW w \in Nat \ {0}
    PROVE  /\ a \div w \in Nat /\ w * (a \div w) <= a /\ a <= w * (a \div w) + (w - 1)
           /\ \A b \in Nat : b <= a => b \div w <= a \div w
  OBVIOUS

\* A quotient of bounded remainders: the weights cancel.
LEMMA LessThanOneEach ==
    ASSUME NEW w \in Nat \ {0}, NEW q \in Nat, NEW a \in Nat, NEW n \in Nat,
           w * q <= a * w, a * w <= w * q + (w - 1) * n
    PROVE  q <= a /\ a <= q + n
  OBVIOUS

\* Shares in proportion, rounded down, leave less than one each.
LEMMA FloorsAre ==
    ASSUME NEW m \in [Layer -> Nat], NEW S \in SUBSET Layer, SumOn(m, S) > 0, NEW a \in Nat,
           NEW q \in [Layer -> Nat], \A i \in S : q[i] = (m[i] * a) \div SumOn(m, S)
    PROVE  SumOn(q, S) <= a /\ a <= SumOn(q, S) + Cardinality(S)
  <1>1. IsFiniteSet(S) /\ Cardinality(S) \in Nat /\ \A i \in S : i \in Layer
    BY LayersAre
  <1>2. PICK w \in Nat \ {0} : w = SumOn(m, S)
    <2>1. SumOn(m, S) \in Nat
      BY <1>1, SumNat
    <2> QED
      BY <2>1
  <1>3. SumOn(q, S) \in Nat
    BY <1>1, SumNat
  <1> DEFINE lo == [i \in S |-> w * q[i]]
             ma == [i \in S |-> m[i] * a]
             hi == [i \in S |-> w * q[i] + (w - 1)]
             c  == [i \in S |-> 1]
  <1>4. ASSUME NEW i \in S
        PROVE  /\ lo[i] = w * q[i] + 0 * m[i] /\ ma[i] = a * m[i] + 0 * q[i] /\ hi[i] = w * q[i] + (w - 1) * c[i]
               /\ lo[i] \in Int /\ ma[i] \in Int /\ hi[i] \in Int /\ c[i] = 1
               /\ lo[i] <= ma[i] /\ ma[i] <= hi[i]
    <2>1. m[i] \in Nat /\ q[i] \in Nat /\ m[i] * a \in Nat /\ w * q[i] \in Nat
      BY <1>1
    <2>2. q[i] = (m[i] * a) \div w
      BY <1>2
    <2>3. w * q[i] <= m[i] * a /\ m[i] * a <= w * q[i] + (w - 1)
      BY <2>1, <2>2, Rounded
    <2> QED
      BY <2>1, <2>3
  <1> HIDE DEF lo, ma, hi, c
  <1>5. Ints(lo, S) /\ Ints(ma, S) /\ Ints(hi, S) /\ Ints(c, S) /\ Ints(m, S) /\ Ints(q, S)
    BY <1>1, <1>4 DEF Ints
  <1>6. SumOn(lo, S) = w * SumOn(q, S) + 0 * SumOn(m, S)
    BY <1>1, <1>4, <1>5, SumLinear
  <1>7. SumOn(ma, S) = a * SumOn(m, S) + 0 * SumOn(q, S)
    BY <1>1, <1>4, <1>5, SumLinear
  <1>8. SumOn(hi, S) = w * SumOn(q, S) + (w - 1) * SumOn(c, S)
    <2>1. w - 1 \in Int
      OBVIOUS
    <2> QED
      BY <1>1, <1>4, <1>5, <2>1, SumLinear
  <1>9. SumOn(c, S) = 1 * Cardinality(S)
    BY <1>1, <1>4, SumOfSame
  <1>10. SumOn(lo, S) <= SumOn(ma, S) /\ SumOn(ma, S) <= SumOn(hi, S)
    BY <1>1, <1>4, <1>5, SumAtMost
  <1>11. w * SumOn(q, S) <= a * w /\ a * w <= w * SumOn(q, S) + (w - 1) * Cardinality(S)
    BY <1>1, <1>2, <1>3, <1>6, <1>7, <1>8, <1>9, <1>10
  <1> QED
    BY <1>1, <1>3, <1>11, LessThanOneEach

\* resize_total() gives all layers the same, and one at least.
LEMMA EvenIs ==
    ASSUME NEW sl, DOMAIN sl = Layer, NEW total \in Nat
    PROVE  /\ Even(sl, total) \in [Layer -> Nat \ {0}]
           /\ \A l, k \in Layer : Even(sl, total)[l] = Even(sl, total)[k]
  <1>1. PICK each : each = total \div NumLayers
    OBVIOUS
  <1>2. each \in Nat
    BY <1>1, LayersAre, Rounded
  <1>3. Even(sl, total) = [l \in Layer |-> IF each = 0 THEN 1 ELSE each]
    BY <1>1, LayersAre DEF Even
  <1> QED
    BY <1>2, <1>3

\* All have at least the same.
LEMMA SumAtLeast ==
    ASSUME NEW S, IsFiniteSet(S), NEW f, Ints(f, S), NEW c \in Int, \A x \in S : c <= f[x]
    PROVE  c * Cardinality(S) <= SumOn(f, S)
  <1> DEFINE k == [x \in S |-> c]
  <1>1. Ints(k, S) /\ \A x \in S : k[x] = c /\ k[x] <= f[x]
    BY DEF Ints
  <1> HIDE DEF k
  <1>2. SumOn(k, S) = c * Cardinality(S)
    BY <1>1, SumOfSame
  <1>3. SumOn(k, S) <= SumOn(f, S)
    BY <1>1, SumAtMost
  <1> QED
    BY <1>2, <1>3

\* The misses of a rebalance are not all 0, so that they can be divided by.
LEMMA SomeMissed ==
    ASSUME NEW m \in [Layer -> Nat], m # NoMisses
    PROVE  SumOn(m, Layer) \in Nat \ {0}
  <1>1. PICK l \in Layer : m[l] # 0
    BY DEF NoMisses
  <1>2. Ints(m, Layer) /\ IsFiniteSet(Layer) /\ IsFiniteSet(Layer \ {l})
    BY LayersAre DEF Ints
  <1>3. SumOn(m, Layer) = m[l] + SumOn(m, Layer \ {l})
    BY <1>2, SumOne
  <1>4. SumOn(m, Layer \ {l}) \in Nat
    BY <1>2, SumNat
  <1> QED
    BY <1>1, <1>3, <1>4

\* The floor of a rebalance.
Low(sl) == Least(Floor, SumOn(sl, Layer) \div NumLayers)

\* The floor is one at least, and there is enough for all to have it.
LEMMA LowIs ==
    ASSUME NEW sl \in [Layer -> Nat \ {0}]
    PROVE  /\ SumOn(sl, Layer) \in Nat /\ Low(sl) \in Nat \ {0}
           /\ Low(sl) * NumLayers <= SumOn(sl, Layer)
  <1>1. IsFiniteSet(Layer) /\ Ints(sl, Layer) /\ \A i \in Layer : sl[i] \in Nat /\ 1 <= sl[i]
    BY LayersAre DEF Ints
  <1>2. PICK t \in Nat : t = SumOn(sl, Layer)
    BY <1>1, SumNat
  <1>3. PICK n \in Nat \ {0} : n = NumLayers /\ n = Cardinality(Layer)
    BY LayersAre
  <1>4. n <= t
    <2>1. 1 * Cardinality(Layer) <= SumOn(sl, Layer)
      BY <1>1, SumAtLeast
    <2> QED
      BY <1>2, <1>3, <2>1
  <1>5. t \div n \in Nat /\ t \div n # 0 /\ n * (t \div n) <= t
    BY <1>4, Rounded
  <1>6. Floor \in Nat \ {0}
    BY LayerAssumption
  <1>7. PICK q \in Nat \ {0} : q = t \div n
    BY <1>5
  <1>8. Low(sl) \in Nat \ {0} /\ Low(sl) <= q
    BY <1>2, <1>3, <1>6, <1>7 DEF Low, Least
  <1>9. Low(sl) * n <= t
    <2>1. \A x \in Nat : x <= q => x * n <= n * q
      OBVIOUS
    <2>2. Low(sl) * n <= n * q /\ n * q <= t /\ Low(sl) * n \in Nat
      BY <1>5, <1>7, <1>8, <2>1
    <2> QED
      BY <1>7, <2>2
  <1> QED
    BY <1>2, <1>3, <1>8, <1>9

\* What the turns start from adds up, respects the floor and follows the misses.
LEMMA ProportionalIs ==
    ASSUME NEW sl \in [Layer -> Nat \ {0}], NEW m \in [Layer -> Nat], m # NoMisses
    PROVE  LET t == Proportional(sl, m, Floor)
           IN  /\ t \in [Layer -> Nat] /\ SumOn(t, Layer) = SumOn(sl, Layer)
               /\ \A l \in Layer : Low(sl) <= t[l]
               /\ \A l, k \in Layer : m[l] > m[k] => t[k] <= t[l]
  <1>1. PICK total \in Nat, low \in Nat \ {0} :
            total = SumOn(sl, Layer) /\ low = Low(sl) /\ low * NumLayers <= total
    BY LowIs
  <1>2. PICK spread \in Nat : spread = total - low * NumLayers
    BY <1>1, LayersAre
  <1>3. PICK w \in Nat \ {0} : w = SumOn(m, Layer)
    BY SomeMissed
  <1> DEFINE q     == [i \in Layer |-> (m[i] * spread) \div w]
             parts == [i \in Layer |-> low + q[i]]
             base  == [i \in Layer |-> low]
  <1>4. Proportional(sl, m, Floor) = HandedOut(parts, m, Layer, total)
    <2>1. DOMAIN sl = Layer /\ DOMAIN m = Layer
      OBVIOUS
    <2>2. /\ SumFunction(sl) = total /\ SumFunction(m) = w /\ Cardinality(Layer) = NumLayers
          /\ low = Least(Floor, total \div NumLayers)
      BY <1>1, <1>3, <2>1, LayersAre DEF SumFunction, SumOn, Low
    <2>3. parts = [i \in Layer |-> low + (m[i] * spread) \div w]
      OBVIOUS
    <2> HIDE DEF parts
    <2> QED
      BY <1>2, <2>1, <2>2, <2>3 DEF Proportional
  <1>5. \A i \in Layer : /\ q[i] = (m[i] * spread) \div w /\ q[i] \in Nat /\ m[i] * spread \in Nat
                         /\ parts[i] = low + q[i] /\ base[i] = low
    <2> TAKE i \in Layer
    <2>1. m[i] * spread \in Nat
      OBVIOUS
    <2>2. (m[i] * spread) \div w \in Nat
      BY <2>1, Rounded
    <2>3. q[i] = (m[i] * spread) \div w /\ parts[i] = low + q[i] /\ base[i] = low
      OBVIOUS
    <2> QED
      BY <2>1, <2>2, <2>3
  <1>6. q \in [Layer -> Nat] /\ parts \in [Layer -> Nat]
    BY <1>5
  <1> HIDE DEF q, parts, base
  <1>7. SumOn(q, Layer) \in Nat /\ SumOn(q, Layer) <= spread /\ spread <= SumOn(q, Layer) + NumLayers
    <2>1. SumOn(m, Layer) > 0 /\ Layer \in SUBSET Layer
      BY <1>3
    <2>2. \A i \in Layer : q[i] = (m[i] * spread) \div SumOn(m, Layer)
      BY <1>3, <1>5
    <2>3. SumOn(q, Layer) <= spread /\ spread <= SumOn(q, Layer) + Cardinality(Layer)
      BY <1>6, <2>1, <2>2, FloorsAre
    <2> QED
      BY <1>6, <2>3, LayersAre, SumNat
  <1>8. SumOn(parts, Layer) = low * NumLayers + SumOn(q, Layer)
    <2>1. Ints(base, Layer) /\ Ints(q, Layer) /\ IsFiniteSet(Layer)
      BY <1>5, LayersAre DEF Ints
    <2>2. \A i \in Layer : parts[i] = 1 * base[i] + 1 * q[i]
      BY <1>5
    <2>3. SumOn(parts, Layer) = 1 * SumOn(base, Layer) + 1 * SumOn(q, Layer)
      BY <2>1, <2>2, SumLinear
    <2>4. SumOn(base, Layer) = low * Cardinality(Layer)
      BY <1>5, <2>1, SumOfSame
    <2>5. low * NumLayers \in Nat
      BY LayersAre
    <2> QED
      BY <1>7, <2>3, <2>4, <2>5, LayersAre
  <1>9. PICK t : t = HandedOut(parts, m, Layer, total)
    OBVIOUS
  <1>10. Handed(t, parts, m, Layer, total)
    <2>1. Layer \in SUBSET Layer
      OBVIOUS
    <2> QED
      BY <1>6, <1>9, <2>1, HandedOutIs
  <1>11. SumOn(t, Layer) = total
    <2>1. low * NumLayers \in Nat /\ Cardinality(Layer) = NumLayers /\ NumLayers \in Nat
      BY LayersAre
    <2>2. SumOn(parts, Layer) <= total /\ total <= SumOn(parts, Layer) + Cardinality(Layer)
      BY <1>2, <1>7, <1>8, <2>1
    <2> QED
      BY <1>10, <2>2 DEF Handed
  <1>12. ASSUME NEW l \in Layer PROVE low <= t[l]
    <2>1. parts[l] = low + q[l] /\ q[l] \in Nat /\ parts[l] <= t[l] /\ t[l] \in Nat
      BY <1>5, <1>10 DEF Handed
    <2> QED
      BY <2>1
  <1>13. ASSUME NEW l \in Layer, NEW k \in Layer, m[l] > m[k] PROVE t[k] <= t[l]
    <2>1. q[k] <= q[l]
      <3>1. m[k] * spread <= m[l] * spread
        <4>1. m[k] \in Nat /\ m[l] \in Nat
          OBVIOUS
        <4> QED
          BY <1>13, <4>1
      <3> QED
        BY <1>5, <3>1, Rounded
    <2>2. parts[k] <= parts[l]
      BY <1>5, <2>1
    <2>3. Ahead(m, l, k)
      BY <1>13 DEF Ahead
    <2> QED
      BY <1>10, <2>2, <2>3 DEF Handed
  <1> QED
    BY <1>1, <1>4, <1>9, <1>10, <1>11, <1>12, <1>13 DEF Handed

\* What a round takes from the layers that have more than there are experts.
LEMMA ExcessIs ==
    ASSUME NEW t \in [Layer -> Nat], NEW over \in SUBSET Layer, over = {i \in Layer : t[i] > NumExperts},
           NEW cut, cut = [i \in Layer |-> Least(t[i], NumExperts)],
           NEW excess, excess = SumOn(t, over) - NumExperts * Cardinality(over)
    PROVE  /\ cut \in [Layer -> Nat] /\ excess \in Nat
           /\ SumOn(t, Layer) = SumOn(cut, Layer) + excess
           /\ excess = 0 <=> over = {}
  <1>0. NumExperts \in Nat /\ IsFiniteSet(Layer) /\ IsFiniteSet(over) /\ IsFiniteSet(Layer \ over)
    BY LayersAre, LayerAssumption
  <1> DEFINE d == [i \in Layer |-> t[i] - cut[i]]
             e == [i \in Layer |-> NumExperts]
  <1>1. ASSUME NEW i \in Layer
        PROVE  /\ cut[i] \in Nat /\ e[i] = NumExperts /\ d[i] = 1 * t[i] + (-1) * cut[i] /\ d[i] \in Nat
               /\ i \in over => d[i] = 1 * t[i] + (-1) * e[i] /\ 1 <= d[i]
               /\ i \notin over => d[i] = 0
    <2>1. cut[i] = IF t[i] < NumExperts THEN t[i] ELSE NumExperts
      BY DEF Least
    <2>2. t[i] \in Nat /\ d[i] = t[i] - cut[i] /\ e[i] = NumExperts
      OBVIOUS
    <2>3. i \in over <=> t[i] > NumExperts
      OBVIOUS
    <2> HIDE DEF d, e
    <2> QED
      BY <1>0, <2>1, <2>2, <2>3
  <1>2. cut \in [Layer -> Nat]
    BY <1>1
  <1> HIDE DEF d, e
  <1>3. Ints(t, Layer) /\ Ints(cut, Layer) /\ Ints(d, Layer) /\ Ints(e, over) /\ Ints(t, over) /\ Ints(d, over)
    BY <1>0, <1>1, <1>2 DEF Ints
  <1>4. SumOn(d, Layer) = 1 * SumOn(t, Layer) + (-1) * SumOn(cut, Layer)
    BY <1>0, <1>1, <1>3, SumLinear
  <1>5. SumOn(d, over) = 1 * SumOn(t, over) + (-1) * SumOn(e, over)
    <2>1. \A i \in over : d[i] = 1 * t[i] + (-1) * e[i]
      BY <1>1
    <2> QED
      BY <1>0, <1>3, <2>1, SumLinear
  <1>6. SumOn(e, over) = NumExperts * Cardinality(over)
    BY <1>0, <1>1, SumOfSame
  <1>7. SumOn(d, Layer) = SumOn(d, over) + SumOn(d, Layer \ over)
    BY <1>0, <1>3, SumParts
  <1>8. SumOn(d, Layer \ over) = 0 * Cardinality(Layer \ over)
    <2>1. PICK other : other = Layer \ over
      OBVIOUS
    <2>2. IsFiniteSet(other) /\ \A i \in other : d[i] = 0
      BY <1>0, <1>1, <2>1
    <2>3. SumOn(d, other) = 0 * Cardinality(other)
      BY <2>2, SumOfSame
    <2> QED
      BY <2>1, <2>3
  <1>9. SumOn(d, over) \in Nat /\ 1 * Cardinality(over) <= SumOn(d, over)
    <2>1. \A i \in over : 1 <= d[i] /\ d[i] \in Nat
      BY <1>1
    <2> QED
      BY <1>0, <1>3, <2>1, SumNat, SumAtLeast
  <1>10. /\ SumOn(t, Layer) \in Int /\ SumOn(cut, Layer) \in Int /\ SumOn(t, over) \in Int
         /\ Cardinality(over) \in Nat /\ Cardinality(Layer \ over) \in Nat
         /\ SumOn(e, over) \in Int
    BY <1>0, <1>3, SumLess, FS_CardinalityType
  <1>11. excess = SumOn(d, over)
    BY <1>5, <1>6, <1>9, <1>10
  <1>12. excess \in Nat /\ SumOn(t, Layer) = SumOn(cut, Layer) + excess
    BY <1>4, <1>7, <1>8, <1>9, <1>10, <1>11
  <1>13. over = {} => excess = 0
    BY <1>0, <1>3, <1>11, SumLess
  <1>14. over # {} => excess # 0
    <2>1. over # {} => Cardinality(over) # 0
      BY <1>0, FS_EmptySet
    <2> QED
      BY <1>9, <1>10, <1>11, <2>1
  <1> QED
    BY <1>2, <1>12, <1>13, <1>14

\* ... and how it is spread over the others.
Spread(m, free, excess) ==
    LET weight == SumOn(m, free)
    IN  [i \in Layer |-> IF i \notin free THEN 0
                         ELSE IF weight > 0 THEN (m[i] * excess) \div weight
                         ELSE excess \div Cardinality(free)]

\* The excess is spread whole, over those that can take it, and follows the misses.
LEMMA SpreadIs ==
    ASSUME NEW m \in [Layer -> Nat], NEW free \in SUBSET Layer, free # {}, NEW excess \in Nat,
           NEW extra, extra = HandedOut(Spread(m, free, excess), m, free, excess)
    PROVE  /\ extra \in [Layer -> Nat] /\ SumOn(extra, Layer) = excess
           /\ \A i \in Layer \ free : extra[i] = 0
           /\ \A l, k \in free : m[l] > m[k] => extra[k] <= extra[l]
  <1>0. /\ IsFiniteSet(free) /\ IsFiniteSet(Layer) /\ IsFiniteSet(Layer \ free)
        /\ \A i \in free : i \in Layer /\ m[i] \in Nat
    BY LayersAre
  <1>1. PICK n \in Nat \ {0} : n = Cardinality(free)
    BY <1>0, FS_EmptySet, FS_CardinalityType
  <1>2. PICK w \in Nat : w = SumOn(m, free)
    BY <1>0, SumNat
  <1>3. PICK share : share = Spread(m, free, excess)
    OBVIOUS
  <1>4. share = [i \in Layer |-> IF i \notin free THEN 0
                                 ELSE IF w > 0 THEN (m[i] * excess) \div w ELSE excess \div n]
    BY <1>1, <1>2, <1>3 DEF Spread
  <1>5. ASSUME NEW i \in free
        PROVE  /\ share[i] \in Nat /\ m[i] * excess \in Nat
               /\ share[i] = IF w > 0 THEN (m[i] * excess) \div w ELSE excess \div n
    <2>1. share[i] = IF w > 0 THEN (m[i] * excess) \div w ELSE excess \div n
      BY <1>0, <1>4
    <2>2. m[i] * excess \in Nat
      BY <1>0
    <2>3. excess \div n \in Nat
      BY Rounded
    <2>4. w > 0 => (m[i] * excess) \div w \in Nat
      BY <2>2, Rounded
    <2> QED
      BY <2>1, <2>2, <2>3, <2>4
  <1>6. \A i \in Layer \ free : share[i] = 0
    BY <1>4
  <1>7. share \in [Layer -> Nat]
    <2>1. \A i \in Layer : share[i] \in Nat
      BY <1>5, <1>6
    <2> QED
      BY <1>4, <2>1
  <1>8. SumOn(share, free) <= excess /\ excess <= SumOn(share, free) + Cardinality(free)
    <2>1. CASE w > 0
      BY <1>2, <1>5, <1>7, <2>1, FloorsAre
    <2>2. CASE ~(w > 0)
      <3>1. PICK q \in Nat : q = excess \div n /\ n * q <= excess /\ excess <= n * q + (n - 1)
        BY Rounded
      <3>2. \A i \in free : share[i] = q
        BY <1>5, <2>2, <3>1
      <3>3. SumOn(share, free) = q * Cardinality(free)
        BY <1>0, <3>1, <3>2, SumOfSame
      <3>4. q * n = n * q
        OBVIOUS
      <3> QED
        BY <1>1, <3>1, <3>3, <3>4
    <2> QED
      BY <2>1, <2>2
  <1>9. ASSUME NEW l \in free, NEW k \in free, m[l] > m[k] PROVE share[k] <= share[l]
    <2>1. CASE w > 0
      <3>1. m[k] * excess <= m[l] * excess
        BY <1>0, <1>9
      <3>2. PICK a \in Nat, b \in Nat : a = m[k] * excess /\ b = m[l] * excess
        BY <1>5
      <3>3. a \div w <= b \div w
        BY <2>1, <3>1, <3>2, Rounded
      <3>4. share[k] = a \div w /\ share[l] = b \div w
        BY <1>5, <2>1, <3>2
      <3> QED
        BY <3>3, <3>4
    <2>2. CASE ~(w > 0)
      BY <1>5, <2>2
    <2> QED
      BY <2>1, <2>2
  <1>10. Handed(extra, share, m, free, excess)
    BY <1>3, <1>7, HandedOutIs
  <1>11. extra \in [Layer -> Nat] /\ \A i \in Layer \ free : extra[i] = 0
    BY <1>6, <1>10 DEF Handed
  <1>12. SumOn(extra, free) = excess
    BY <1>8, <1>10 DEF Handed
  <1>13. SumOn(extra, Layer) = excess
    <2>1. Ints(extra, Layer)
      BY <1>11 DEF Ints
    <2>2. SumOn(extra, Layer) = SumOn(extra, free) + SumOn(extra, Layer \ free)
      BY <1>0, <2>1, SumParts
    <2>3. SumOn(extra, Layer \ free) = 0 * Cardinality(Layer \ free) /\ Cardinality(Layer \ free) \in Nat
      BY <1>0, <1>11, SumOfSame, FS_CardinalityType
    <2> QED
      BY <1>12, <2>2, <2>3
  <1>14. ASSUME NEW l \in free, NEW k \in free, m[l] > m[k] PROVE extra[k] <= extra[l]
    <2>1. Ahead(m, l, k)
      BY <1>14 DEF Ahead
    <2> QED
      BY <1>9, <1>10, <1>14, <2>1 DEF Handed
  <1> QED
    BY <1>11, <1>13, <1>14

\* What every turn of rebalance() keeps: the slots add up unless all layers are full, nobody
\* falls below the floor, who was capped is full, and more misses never earn fewer slots.
Fair(s, sl, m) ==
    /\ s \in [target : [Layer -> Nat], capped : SUBSET Layer]
    /\ \/ SumOn(s.target, Layer) = SumOn(sl, Layer)
       \/ /\ SumOn(s.target, Layer) < SumOn(sl, Layer)
          /\ \A l \in Layer : s.target[l] = NumExperts
    /\ \A l \in Layer : Low(sl) <= s.target[l] \/ NumExperts <= s.target[l]
    /\ \A l \in s.capped : s.target[l] = NumExperts
    /\ \A l \in Layer : \A k \in s.capped : m[l] > m[k] => NumExperts <= s.target[l]
    /\ \A l, k \in Layer \ s.capped : m[l] > m[k] => s.target[k] <= s.target[l]

Done(s) == \A l \in Layer : s.target[l] <= NumExperts

\* A turn keeps what is fair, and is the last or caps one layer more.
LEMMA RoundIs ==
    ASSUME NEW sl \in [Layer -> Nat \ {0}], NEW m \in [Layer -> Nat], NEW s, Fair(s, sl, m)
    PROVE  LET new == Round(s, m, NumExperts)
           IN  /\ Fair(new, sl, m) /\ IsFiniteSet(s.capped)
               /\ Done(s) => Done(new)
               /\ Done(new) \/ Cardinality(new.capped) >= Cardinality(s.capped) + 1
  <1>1. PICK t \in [Layer -> Nat], c \in SUBSET Layer : s = [target |-> t, capped |-> c]
    BY DEF Fair
  <1>2. /\ \/ SumOn(t, Layer) = SumOn(sl, Layer)
           \/ SumOn(t, Layer) < SumOn(sl, Layer) /\ \A l \in Layer : t[l] = NumExperts
        /\ \A l \in Layer : Low(sl) <= t[l] \/ NumExperts <= t[l]
        /\ \A l \in c : t[l] = NumExperts
    BY <1>1 DEF Fair
  <1>3. /\ \A l \in Layer : \A k \in c : m[l] > m[k] => NumExperts <= t[l]
        /\ \A l, k \in Layer \ c : m[l] > m[k] => t[k] <= t[l]
    BY <1>1 DEF Fair
  <1>4. PICK over \in SUBSET Layer : over = {i \in Layer : t[i] > NumExperts}
    OBVIOUS
  <1>5. PICK cut : cut = [i \in Layer |-> Least(t[i], NumExperts)]
    OBVIOUS
  <1>6. PICK excess : excess = SumOn(t, over) - NumExperts * Cardinality(over)
    OBVIOUS
  <1>7. /\ cut \in [Layer -> Nat] /\ excess \in Nat
        /\ SumOn(t, Layer) = SumOn(cut, Layer) + excess
        /\ excess = 0 <=> over = {}
    BY <1>4, <1>5, <1>6, ExcessIs
  <1>8. PICK cc \in SUBSET Layer, free \in SUBSET Layer : cc = c \cup over /\ free = Layer \ cc
    OBVIOUS
  <1>9. PICK extra : extra = HandedOut(Spread(m, free, excess), m, free, excess)
    OBVIOUS
  <1>10. PICK new : new = Round(s, m, NumExperts)
    OBVIOUS
  <1>11. new = IF excess = 0 \/ free = {} THEN [target |-> cut, capped |-> cc]
               ELSE [target |-> [i \in Layer |-> cut[i] + extra[i]], capped |-> cc]
    BY <1>1, <1>4, <1>5, <1>6, <1>8, <1>9, <1>10 DEF Round, Spread, SumOn
  <1>12. NumExperts \in Nat \ {0} /\ IsFiniteSet(Layer) /\ Cardinality(Layer) \in Nat
    BY LayersAre, LayerAssumption
  <1>13. ASSUME NEW i \in Layer
         PROVE  /\ t[i] \in Nat /\ cut[i] \in Nat /\ cut[i] <= NumExperts
                /\ i \in over <=> t[i] > NumExperts
                /\ i \in over => cut[i] = NumExperts
                /\ i \notin over => cut[i] = t[i]
    <2>1. cut[i] = IF t[i] < NumExperts THEN t[i] ELSE NumExperts
      BY <1>5 DEF Least
    <2>2. i \in over <=> t[i] > NumExperts
      BY <1>4
    <2> QED
      BY <1>12, <2>1, <2>2
  <1>14. \A l \in Layer : l \in cc => cut[l] = NumExperts
    <2> TAKE l \in Layer
    <2> HAVE l \in cc
    <2>1. l \in over \/ (l \notin over /\ l \in c)
      BY <1>8
    <2> QED
      BY <1>2, <1>13, <2>1
  <1>15. \A l \in Layer : Low(sl) <= cut[l] \/ NumExperts <= cut[l]
    <2> TAKE l \in Layer
    <2>1. CASE l \in over
      BY <1>12, <1>13, <2>1
    <2>2. CASE l \notin over
      BY <1>2, <1>13, <2>2
    <2> QED
      BY <2>1, <2>2
  <1>16. ASSUME NEW l \in Layer, NEW k \in cc, m[l] > m[k] PROVE NumExperts <= cut[l]
    <2>1. NumExperts <= t[l]
      <3>1. CASE k \in c
        BY <1>3, <1>16, <3>1
      <3>2. CASE k \in over /\ k \notin c
        <4>1. t[k] > NumExperts /\ t[k] \in Nat
          BY <1>13, <3>2
        <4>2. CASE l \in c
          BY <1>2, <1>12, <4>2
        <4>3. CASE l \notin c
          BY <1>3, <1>12, <1>13, <1>16, <3>2, <4>1, <4>3
        <4> QED
          BY <4>2, <4>3
      <3> QED
        BY <1>8, <3>1, <3>2
    <2> QED
      BY <1>12, <1>13, <2>1
  <1>17. ASSUME NEW l \in Layer \ cc, NEW k \in Layer \ cc, m[l] > m[k] PROVE cut[k] <= cut[l]
    <2>1. l \notin c /\ k \notin c /\ l \notin over /\ k \notin over
      BY <1>8
    <2> QED
      BY <1>3, <1>13, <1>17, <2>1
  <1>18. IsFiniteSet(c) /\ IsFiniteSet(cc) /\ Cardinality(c) \in Nat /\ Cardinality(cc) \in Nat
    BY LayersAre
  <1>19. over = {} \/ Cardinality(cc) >= Cardinality(c) + 1
    <2> SUFFICES ASSUME over # {} PROVE Cardinality(cc) >= Cardinality(c) + 1
      OBVIOUS
    <2>1. PICK i \in over : i \in Layer
      OBVIOUS
    <2>2. i \notin c
      BY <1>2, <1>12, <1>13, <2>1
    <2>3. c \in SUBSET cc /\ c # cc
      BY <1>8, <2>1, <2>2
    <2>4. Cardinality(c) <= Cardinality(cc) /\ Cardinality(c) # Cardinality(cc)
      BY <1>18, <2>3, FS_Subset
    <2> QED
      BY <1>18, <2>4
  <1>20. CASE over = {}
    <2>1. new = [target |-> cut, capped |-> cc] /\ \A l \in Layer : cut[l] = t[l]
      BY <1>7, <1>11, <1>13, <1>20
    <2>2. SumOn(cut, Layer) = SumOn(t, Layer)
      <3>1. SumOn(cut, Layer) \in Int
        BY <1>7, <1>12, SumNat
      <3> QED
        BY <1>7, <1>20, <3>1
    <2>3. Fair(new, sl, m)
      BY <1>2, <1>7, <1>14, <1>15, <1>16, <1>17, <2>1, <2>2 DEF Fair
    <2>4. Done(new)
      BY <1>13, <2>1 DEF Done
    <2> QED
      BY <1>1, <1>10, <1>18, <2>3, <2>4
  <1>21. CASE over # {} /\ free = {}
    <2>1. new = [target |-> cut, capped |-> cc] /\ cc = Layer
      BY <1>8, <1>11, <1>21
    <2>2. \A l \in Layer : cut[l] = NumExperts
      BY <1>14, <2>1
    <2>3. SumOn(cut, Layer) < SumOn(sl, Layer)
      <3>1. SumOn(cut, Layer) \in Nat /\ SumOn(t, Layer) \in Nat /\ SumOn(sl, Layer) \in Nat
        BY <1>7, <1>12, SumNat
      <3>2. SumOn(cut, Layer) < SumOn(t, Layer) /\ SumOn(t, Layer) <= SumOn(sl, Layer)
        BY <1>2, <1>7, <1>21, <3>1
      <3> QED
        BY <3>1, <3>2
    <2>4. Fair(new, sl, m)
      BY <1>7, <1>14, <1>15, <1>16, <1>17, <2>1, <2>2, <2>3 DEF Fair
    <2>5. Done(new)
      BY <1>13, <2>1 DEF Done
    <2> QED
      BY <1>1, <1>10, <1>18, <2>4, <2>5
  <1>22. CASE over # {} /\ free # {}
    <2>1. /\ extra \in [Layer -> Nat] /\ SumOn(extra, Layer) = excess
          /\ \A i \in Layer \ free : extra[i] = 0
          /\ \A l, k \in free : m[l] > m[k] => extra[k] <= extra[l]
      BY <1>7, <1>9, <1>22, SpreadIs, SMTT(30)
    <2>2. PICK nt : nt = [i \in Layer |-> cut[i] + extra[i]]
      OBVIOUS
    <2>3. new = [target |-> nt, capped |-> cc]
      BY <1>7, <1>11, <1>22, <2>2
    <2>4. ASSUME NEW i \in Layer
          PROVE  /\ nt[i] = cut[i] + extra[i] /\ nt[i] = 1 * cut[i] + 1 * extra[i]
                 /\ nt[i] \in Nat /\ cut[i] <= nt[i] /\ extra[i] \in Nat
                 /\ i \in cc => nt[i] = cut[i]
      <3>1. nt[i] = cut[i] + extra[i] /\ extra[i] \in Nat /\ cut[i] \in Nat
        BY <1>13, <2>1, <2>2
      <3>2. i \in cc => extra[i] = 0
        BY <1>8, <2>1
      <3> QED
        BY <3>1, <3>2
    <2>5. nt \in [Layer -> Nat]
      BY <2>2, <2>4
    <2>6. SumOn(nt, Layer) = SumOn(t, Layer)
      <3>1. Ints(cut, Layer) /\ Ints(extra, Layer)
        BY <1>7, <2>1 DEF Ints
      <3>2. SumOn(nt, Layer) = 1 * SumOn(cut, Layer) + 1 * SumOn(extra, Layer)
        BY <1>12, <2>4, <3>1, SumLinear
      <3>3. SumOn(cut, Layer) \in Nat
        BY <1>7, <1>12, SumNat
      <3> QED
        BY <1>7, <2>1, <3>2, <3>3
    <2>7. SumOn(nt, Layer) = SumOn(sl, Layer)
      <3>1. ~(\A l \in Layer : t[l] = NumExperts)
        BY <1>12, <1>13, <1>22
      <3> QED
        BY <1>2, <2>6, <3>1
    <2>8. \A l \in Layer : Low(sl) <= nt[l] \/ NumExperts <= nt[l]
      <3> TAKE l \in Layer
      <3>1. cut[l] <= nt[l] /\ cut[l] \in Nat /\ nt[l] \in Nat /\ Low(sl) \in Nat
        BY <1>13, <2>4, LowIs
      <3> QED
        BY <1>12, <1>15, <3>1
    <2>9. \A l \in Layer : \A k \in cc : m[l] > m[k] => NumExperts <= nt[l]
      <3> SUFFICES ASSUME NEW l \in Layer, NEW k \in cc, m[l] > m[k] PROVE NumExperts <= nt[l]
        OBVIOUS
      <3>1. cut[l] <= nt[l] /\ cut[l] \in Nat /\ nt[l] \in Nat /\ NumExperts <= cut[l]
        BY <1>13, <1>16, <2>4
      <3> QED
        BY <1>12, <3>1
    <2>10. \A l, k \in Layer \ cc : m[l] > m[k] => nt[k] <= nt[l]
      <3> SUFFICES ASSUME NEW l \in Layer \ cc, NEW k \in Layer \ cc, m[l] > m[k] PROVE nt[k] <= nt[l]
        OBVIOUS
      <3>1. l \in free /\ k \in free
        BY <1>8
      <3>2. cut[k] <= cut[l] /\ extra[k] <= extra[l]
        BY <1>17, <2>1, <3>1
      <3>3. /\ nt[k] = cut[k] + extra[k] /\ nt[l] = cut[l] + extra[l]
            /\ cut[k] \in Nat /\ cut[l] \in Nat /\ extra[k] \in Nat /\ extra[l] \in Nat
        BY <1>13, <2>4
      <3> QED
        BY <3>2, <3>3
    <2>11. \A l \in cc : nt[l] = NumExperts
      BY <1>14, <2>4
    <2>12. Fair(new, sl, m)
      BY <2>3, <2>5, <2>7, <2>8, <2>9, <2>10, <2>11 DEF Fair
    <2>13. ~Done(s)
      BY <1>1, <1>12, <1>13, <1>22 DEF Done
    <2> QED
      BY <1>1, <1>10, <1>18, <1>19, <1>22, <2>3, <2>12, <2>13
  <1> QED
    BY <1>20, <1>21, <1>22

\* After one turn more than there are layers the shares are fair and fit.
LEMMA RebalancedIs ==
    ASSUME NEW sl \in [Layer -> Nat \ {0}], NEW m \in [Layer -> Nat], m # NoMisses
    PROVE  \E s : /\ Rebalanced(sl, m, Floor, NumExperts) = s.target
                  /\ Fair(s, sl, m) /\ Done(s)
  <1> DEFINE first    == [target |-> Proportional(sl, m, Floor), capped |-> {}]
             Fairs    == {s \in [target : [Layer -> Nat], capped : SUBSET Layer] : Fair(s, sl, m)}
             Shape(g) == g = [k \in Nat |-> IF k = 0 THEN first ELSE Round(g[k - 1], m, NumExperts)]
             turn     == CHOOSE g : Shape(g)
  <1>1. Rebalanced(sl, m, Floor, NumExperts) = turn[NumLayers + 1].target
    <2>1. DOMAIN sl = Layer /\ Cardinality(Layer) = NumLayers
      BY LayersAre
    <2> QED
      BY <2>1 DEF Rebalanced
  <1>2. \A s : Fair(s, sl, m) <=> s \in Fairs
    BY DEF Fair
  <1>3. first \in Fairs
    <2>1. PICK t : t = Proportional(sl, m, Floor)
      OBVIOUS
    <2>2. /\ t \in [Layer -> Nat] /\ SumOn(t, Layer) = SumOn(sl, Layer)
          /\ \A l \in Layer : Low(sl) <= t[l]
          /\ \A l, k \in Layer : m[l] > m[k] => t[k] <= t[l]
      BY <2>1, ProportionalIs
    <2>3. Fair([target |-> t, capped |-> {}], sl, m)
      BY <2>2 DEF Fair
    <2> HIDE DEF Fairs
    <2> QED
      BY <1>2, <2>1, <2>3
  <1>4. \A s \in Fairs : Round(s, m, NumExperts) \in Fairs
    <2> HIDE DEF Fairs
    <2> QED
      BY <1>2, RoundIs
  <1> HIDE DEF first, Fairs
  <1>5. \E g \in [Nat -> Fairs] : Shape(g)
    <2> DEFINE rank == [k \in Nat |-> k]
               prev == [k \in Nat |-> k - 1]
               base == [k \in Nat |-> first]
               step == [k \in Nat |-> [s \in Fairs |-> Round(s, m, NumExperts)]]
    <2>1. rank \in [Nat -> Nat]
      OBVIOUS
    <2>2. \A k \in Nat \cap {0} : base[k] \in Fairs
      BY <1>3
    <2>3. \A k \in Nat \ {0} : /\ prev[k] \in Nat /\ rank[prev[k]] < rank[k]
                               /\ \A s \in Fairs : step[k][s] \in Fairs
      BY <1>4
    <2>4. \A k \in Nat : /\ prev[k] = k - 1 /\ base[k] = first
                         /\ \A s \in Fairs : step[k][s] = Round(s, m, NumExperts)
      OBVIOUS
    <2> HIDE DEF rank, prev, base, step
    <2>5. Recursive(Nat, Fairs, {0}, rank, prev, base, step)
      BY <2>1, <2>2, <2>3 DEF Recursive
    <2>6. PICK g \in [Nat -> Fairs] : Solves(g, Nat, {0}, prev, base, step)
      BY <2>5, Recursion
    <2>7. ASSUME NEW k \in Nat
          PROVE  g[k] = IF k = 0 THEN first ELSE Round(g[k - 1], m, NumExperts)
      <3>0. g[k] = IF k \in {0} THEN base[k] ELSE step[k][g[prev[k]]]
        BY <2>6, Zenon DEF Solves
      <3>1. CASE k = 0
        BY <2>4, <3>0, <3>1
      <3>2. CASE k # 0
        <4>1. k - 1 \in Nat
          BY <3>2
        <4>2. g[k - 1] \in Fairs
          BY <4>1
        <4> QED
          BY <2>4, <3>0, <3>2, <4>2
      <3> QED
        BY <3>1, <3>2
    <2> QED
      BY <2>7
  <1>6. PICK g \in [Nat -> Fairs] : Shape(g)
    BY <1>5
  <1>7. Shape(turn)
    <2> HIDE DEF Shape
    <2> QED
      BY <1>6
  <1> HIDE DEF turn
  <1>8. turn[0] = first /\ \A k \in Nat : turn[k + 1] = Round(turn[k], m, NumExperts)
    <2>1. turn[0] = first
      BY <1>7
    <2>2. ASSUME NEW k \in Nat PROVE turn[k + 1] = Round(turn[k], m, NumExperts)
      <3>1. k + 1 \in Nat /\ k + 1 # 0 /\ (k + 1) - 1 = k
        OBVIOUS
      <3> QED
        BY <1>7, <3>1
    <2> QED
      BY <2>1, <2>2
  <1> HIDE DEF Shape
  <1> DEFINE P == {k \in Nat : Fair(turn[k], sl, m) /\ (Done(turn[k]) \/ k <= Cardinality(turn[k].capped))}
  <1>9. 0 \in P
    <2>1. Fair(turn[0], sl, m)
      BY <1>2, <1>3, <1>8
    <2>2. turn[0].capped = {} /\ Cardinality({}) = 0
      BY <1>8, FS_EmptySet DEF first
    <2> QED
      BY <2>1, <2>2, SMTT(30)
  <1>10. ASSUME NEW k \in Nat, k \in P PROVE k + 1 \in P
    <2>1. PICK s, n : s = turn[k] /\ n = turn[k + 1]
      OBVIOUS
    <2>2. Fair(s, sl, m) /\ (Done(s) \/ k <= Cardinality(s.capped)) /\ n = Round(s, m, NumExperts)
      BY <1>8, <1>10, <2>1
    <2>3. /\ Fair(n, sl, m) /\ IsFiniteSet(s.capped) /\ (Done(s) => Done(n))
          /\ Done(n) \/ Cardinality(n.capped) >= Cardinality(s.capped) + 1
      BY <2>2, RoundIs
    <2>4. Cardinality(s.capped) \in Nat /\ Cardinality(n.capped) \in Nat
      <3>1. n.capped \in SUBSET Layer
        BY <2>3 DEF Fair
      <3> QED
        BY <2>3, <3>1, LayersAre, FS_CardinalityType
    <2>5. Done(n) \/ k + 1 <= Cardinality(n.capped)
      BY <2>2, <2>3, <2>4
    <2> QED
      BY <2>1, <2>3, <2>5
  <1>11. NumLayers + 1 \in P
    <2> HIDE DEF P
    <2>1. Nat \subseteq P
      BY <1>9, <1>10, NatInduct
    <2> QED
      BY <2>1, LayersAre
  <1>12. PICK s : s = turn[NumLayers + 1]
    OBVIOUS
  <1>13. Fair(s, sl, m) /\ (Done(s) \/ NumLayers + 1 <= Cardinality(s.capped))
    BY <1>11, <1>12
  <1>14. Done(s)
    <2>1. s.capped \in SUBSET Layer
      BY <1>13 DEF Fair
    <2>2. Cardinality(s.capped) \in Nat /\ Cardinality(s.capped) <= NumLayers /\ NumLayers \in Nat
      BY <2>1, LayersAre
    <2> QED
      BY <1>13, <2>2
  <1> QED
    BY <1>1, <1>12, <1>13, <1>14

----------------------------------------------------------------------------
(* The inductive invariant.                                                *)

Typed ==
    /\ path \in {"offload", "batched", "chunked"} /\ <<window, attends>> \in Models
    /\ req \in [Slot -> Request \cup {None}]
    /\ slots \in [Layer -> Nat \ {0}] /\ misses \in [Layer -> 0..MaxMisses]
    /\ based \in BOOLEAN /\ rested \in BOOLEAN

\* What the requests' caches were fed is their prompts, as far as they have come.
Following == \A s \in Slot : req[s] # None => Follows(req[s])

\* Nobody is below the floor of a rebalance of what there is: the loop may leave it as it is.
Floored(sl) == \A l \in Layer : Low(sl) <= sl[l] \/ sl[l] = NumExperts

IInv == Typed /\ Good(store) /\ Following /\ Floored(slots)

\* A prompt is a nonempty sequence of tokens.
LEMMA PromptIs ==
    ASSUME NEW p \in Prompts
    PROVE  p \in Seq(Token) /\ Len(p) \in Nat /\ Len(p) > 0
  <1>1. p \in Seq(Token) /\ p # <<>>
    BY PromptAssumption
  <1> QED
    BY <1>1

\* An answer without its last token.
LEMMA OutputIs ==
    ASSUME NEW o \in Outputs
    PROVE  Front(o) \in Seq(Token)
  <1>1. o \in Seq(Token) /\ o # <<>>
    BY OutputAssumption
  <1> QED
    BY <1>1 DEF Front

\* The mark of a free slot is no request.
LEMMA NoneIs == None \notin Request
  <1>1. None.prompt = <<>>
    BY DEF None
  <1>2. <<>> \notin Prompts
    BY PromptAssumption
  <1> QED
    BY <1>1, <1>2 DEF Request

\* The parts of an active request.
LEMMA RequestIs ==
    ASSUME Typed, NEW s \in Slot, req[s] # None
    PROVE  /\ req[s] \in Request /\ req[s].prompt \in Prompts /\ req[s].pos \in Nat
           /\ req[s].fed \in Seq(Token) /\ req[s].pos <= Len(req[s].prompt)
  <1>1. req[s] \in Request
    BY DEF Typed
  <1> QED
    BY <1>1 DEF Request

\* One request changes and is as far as its cache.
Changes(s, r) == req' = [req EXCEPT ![s] = r]

\* One request that follows its prompt does not disturb the others.
LEMMA ChangeKeeps ==
    ASSUME Typed, Following, NEW s \in Slot, NEW r, Changes(s, r), attends' = attends,
           r = None \/ (r \in Request /\ Follows(r))
    PROVE  req' \in [Slot -> Request \cup {None}] /\ Following'
  <1>1. req \in [Slot -> Request \cup {None}]
    BY DEF Typed
  <1>2. req'[s] = r /\ \A t \in Slot : t # s => req'[t] = req[t]
    BY <1>1 DEF Changes
  <1>3. req' \in [Slot -> Request \cup {None}]
    BY <1>1 DEF Changes
  <1>4. Following'
    <2>1. ASSUME NEW t \in Slot, req'[t] # None PROVE Follows(req'[t])
      BY <1>2, <2>1 DEF Following
    <2>2. ASSUME NEW t \in Slot, req'[t] # None PROVE Follows(req[t])'
      BY <2>1, <2>2 DEF Follows
    <2> QED
      BY <2>2 DEF Following
  <1> QED
    BY <1>3, <1>4

\* A request that begins with what was saved of its prompt.
LEMMA BeginKeeps ==
    ASSUME Typed, Following, attends' = attends, NEW s \in Slot, NEW p \in Prompts,
           NEW n \in Nat, n <= Len(p),
           NEW fed \in Seq(Token), attends => fed = SubSeq(p, 1, n), Begins(s, p, n, fed)
    PROVE  /\ req' \in [Slot -> Request \cup {None}] /\ Following'
           /\ req'[s] = [prompt |-> p, pos |-> n, fed |-> fed]
           /\ \A t \in Slot \ {s} : req'[t] = req[t]
  <1> DEFINE r == [prompt |-> p, pos |-> n, fed |-> fed]
  <1>1. r \in Request /\ Follows(r)
    BY DEF Request, Follows
  <1>2. Changes(s, r)
    BY DEF Begins, Changes
  <1>3. req \in [Slot -> Request \cup {None}]
    BY DEF Typed
  <1>4. req'[s] = r /\ \A t \in Slot \ {s} : req'[t] = req[t]
    BY <1>2, <1>3 DEF Changes
  <1> HIDE DEF r
  <1>5. req' \in [Slot -> Request \cup {None}] /\ Following'
    BY <1>1, <1>2, ChangeKeeps
  <1> QED
    BY <1>4, <1>5 DEF r

\* A request that is fed its prompt up to n.
LEMMA FeedKeeps ==
    ASSUME Typed, Following, attends' = attends, NEW s \in Slot, req[s] # None, NEW n \in Nat,
           req[s].pos <= n, n <= Len(req[s].prompt), Feeds(s, n)
    PROVE  /\ req' \in [Slot -> Request \cup {None}] /\ Following'
           /\ req'[s].prompt = req[s].prompt /\ req'[s].pos = n /\ req'[s] # None
           /\ \A t \in Slot \ {s} : req'[t] = req[t]
  <1> PICK r : r = req[s]
    OBVIOUS
  <1>1. r \in Request /\ Follows(r) /\ r.prompt \in Prompts
    BY RequestIs DEF Following
  <1>2. FedTo(r, n) \in Seq(Token) /\ (attends => FedTo(r, n) = SubSeq(r.prompt, 1, n))
    BY <1>1, FedFollows
  <1> PICK q : q = [r EXCEPT !.pos = n, !.fed = FedTo(r, n)]
    OBVIOUS
  <1>3. /\ q.prompt = r.prompt /\ q.pos = n /\ q.fed = FedTo(r, n)
        /\ q \in Request
    BY <1>1, <1>2 DEF Request
  <1>4. req \in [Slot -> Request \cup {None}]
    BY DEF Typed
  <1>5. Changes(s, q)
    BY <1>4 DEF Feeds, Changes
  <1>6. req'[s] = q /\ \A t \in Slot \ {s} : req'[t] = req[t]
    BY <1>4, <1>5 DEF Changes
  <1>9. Follows(q)
    BY <1>2, <1>3 DEF Follows
  <1>7. req' \in [Slot -> Request \cup {None}] /\ Following'
    BY <1>3, <1>5, <1>9, ChangeKeeps
  <1>8. q # None
    BY <1>3, NoneIs
  <1> QED
    BY <1>3, <1>6, <1>7, <1>8

\* A good store is given a snapshot, of exactly its tokens where a layer tells its length.
LEMMA GoodInsert ==
    ASSUME NEW st, Good(st), NEW tokens \in Seq(Token), NEW fed \in Seq(Token),
           attends => fed = tokens
    PROVE  /\ Good(Insert(st, tokens, fed))
           /\ Len(tokens) >= MinMatch => Has(Insert(st, tokens, fed), tokens)
  BY Inserts DEF Good

\* What begins with the tokens is kept as the state after them, or not at all.
LEMMA RememberedIs ==
    ASSUME Typed, Good(store), NEW tokens \in Seq(Token), NEW fed \in Seq(Token),
           attends /\ Len(tokens) <= Len(fed) => SubSeq(fed, 1, Len(tokens)) = tokens
    PROVE  Good(Remembered(tokens, fed))
  <1>1. Len(fed) \in Nat /\ Len(tokens) \in Nat
    OBVIOUS
  <1>2. attends /\ Len(fed) = Len(tokens) => fed = tokens
    BY <1>1, PrefixWhole
  <1>3. attends => Measured(Len(fed))
    BY DEF Measured
  <1>4. CASE ~Measured(Len(fed)) \/ Len(fed) = Len(tokens)
    <2>1. attends => fed = tokens
      BY <1>2, <1>3, <1>4
    <2>2. Good(Insert(store, tokens, fed))
      BY <2>1, GoodInsert
    <2> QED
      BY <1>4, <2>2 DEF Remembered
  <1>5. CASE Measured(Len(fed)) /\ Len(fed) < Len(tokens)
    <2>1. Len(fed) # Len(tokens)
      BY <1>1, <1>5
    <2> QED
      BY <1>5, <2>1 DEF Remembered
  <1>6. CASE Measured(Len(fed)) /\ Len(fed) > Len(tokens)
    <2> PICK cut : cut = SubSeq(fed, 1, Len(tokens))
      OBVIOUS
    <2>1. cut \in Seq(Token) /\ (attends => cut = tokens)
      <3>1. Len(tokens) \in 0..Len(fed) /\ Len(tokens) <= Len(fed)
        BY <1>1, <1>6
      <3> QED
        BY <3>1, Prefix
    <2>2. Good(Insert(store, tokens, cut))
      BY <2>1, GoodInsert
    <2>3. Remembered(tokens, fed) = store \/ Remembered(tokens, fed) = Insert(store, tokens, cut)
      <3>1. Len(fed) # Len(tokens) /\ ~(Len(fed) < Len(tokens))
        BY <1>1, <1>6
      <3> QED
        BY <1>6, <3>1, Zenon DEF Remembered
    <2> QED
      BY <2>2, <2>3
  <1> QED
    BY <1>1, <1>4, <1>5, <1>6

\* A snapshot of a request on its way.
LEMMA SnapshotIs ==
    ASSUME Typed, Good(store), Following, NEW s \in Slot, req[s] # None, NEW n \in Nat,
           req[s].pos <= n, n <= Len(req[s].prompt)
    PROVE  LET new == Insert(store, SubSeq(req[s].prompt, 1, n), FedTo(req[s], n))
           IN  Good(new) /\ (n >= MinMatch => Has(new, SubSeq(req[s].prompt, 1, n)))
  <1>1. req[s] \in Request /\ Follows(req[s])
    BY RequestIs DEF Following
  <1>2. /\ SubSeq(req[s].prompt, 1, n) \in Seq(Token) /\ Len(SubSeq(req[s].prompt, 1, n)) = n
        /\ FedTo(req[s], n) \in Seq(Token)
        /\ attends => FedTo(req[s], n) = SubSeq(req[s].prompt, 1, n)
    BY <1>1, FedFollows
  <1> QED
    BY <1>2, GoodInsert

\* Shares that are the same for all, and shares a rebalance made.
LEMMA SameIsFloored ==
    ASSUME NEW sl \in [Layer -> Nat \ {0}], \A l, k \in Layer : sl[l] = sl[k]
    PROVE  Floored(sl)
  <1> PICK i \in Layer : TRUE
    BY LayersAre
  <1>c. PICK c \in Nat \ {0} : \A l \in Layer : sl[l] = c
    <2>1. sl[i] \in Nat \ {0} /\ \A l \in Layer : sl[l] = sl[i]
      OBVIOUS
    <2> QED
      BY <2>1
  <1>0. SumOn(sl, Layer) = c * Cardinality(Layer)
    <2>1. c \in Int /\ \A x \in Layer : sl[x] = c
      BY <1>c
    <2> QED
      BY <2>1, LayersAre, SumOfSame
  <1>1. SumOn(sl, Layer) = c * NumLayers
    BY <1>0, LayersAre
  <1>2. (c * NumLayers) \div NumLayers = c
    BY LayersAre
  <1>3. Low(sl) <= c
    BY <1>1, <1>2, LayerAssumption DEF Low, Least
  <1> QED
    BY <1>c, <1>3 DEF Floored

\* Shares a rebalance made respect the floor of the next one.
LEMMA FairIsFloored ==
    ASSUME NEW sl \in [Layer -> Nat \ {0}], NEW m \in [Layer -> Nat], NEW s, Fair(s, sl, m), Done(s)
    PROVE  s.target \in [Layer -> Nat \ {0}] /\ Floored(s.target)
  <1>1. s.target \in [Layer -> Nat] /\ NumExperts \in Nat \ {0} /\ Low(sl) \in Nat \ {0}
    BY LayerAssumption, LowIs DEF Fair
  <1>2. \A l \in Layer : Low(sl) <= s.target[l] \/ s.target[l] = NumExperts
    BY <1>1 DEF Fair, Done
  <1>3. s.target \in [Layer -> Nat \ {0}]
    BY <1>1, <1>2
  <1>4. SumOn(s.target, Layer) = SumOn(sl, Layer) => Floored(s.target)
    BY <1>2 DEF Floored, Low
  <1>5. (\A l \in Layer : s.target[l] = NumExperts) => Floored(s.target)
    BY DEF Floored
  <1> QED
    BY <1>3, <1>4, <1>5 DEF Fair

----------------------------------------------------------------------------
(* Every action keeps it.                                                  *)

\* The numbers of the layers.
LEMMA MissesAre ==
    ASSUME Typed
    PROVE  /\ slots \in [Layer -> Nat \ {0}] /\ misses \in [Layer -> Nat]
           /\ NoMisses \in [Layer -> 0..MaxMisses] /\ MaxMisses \in Nat
  <1>1. MaxMisses \in Nat /\ misses \in [Layer -> 0..MaxMisses]
    BY LayerAssumption DEF Typed
  <1>2. 0..MaxMisses \subseteq Nat /\ 0 \in 0..MaxMisses
    BY <1>1
  <1> QED
    BY <1>1, <1>2 DEF Typed, NoMisses

\* The shares after a wait of the loop.
LEMMA RestShares ==
    ASSUME Typed, Floored(slots), Rest
    PROVE  slots' \in [Layer -> Nat \ {0}] /\ Floored(slots')
  <1>1. CASE slots' = slots
    BY <1>1 DEF Typed
  <1>2. CASE slots' # slots
    <2>1. misses # NoMisses /\ slots' = Rebalanced(slots, misses, Floor, NumExperts)
      BY <1>2 DEF Rest
    <2>2. slots \in [Layer -> Nat \ {0}] /\ misses \in [Layer -> Nat]
      BY MissesAre
    <2>3. PICK s : slots' = s.target /\ Fair(s, slots, misses) /\ Done(s)
      BY <2>1, <2>2, RebalancedIs
    <2> QED
      BY <2>2, <2>3, FairIsFloored
  <1> QED
    BY <1>1, <1>2

\* The layers of the model stay what they are, and so a store that is good stays so.
LEMMA GoodNext ==
    ASSUME attends' = attends, Good(store')
    PROVE  Good(store)'
  BY DEF Good, Matching

\* The loop rests: only the shares change.
LEMMA RestKeeps ==
    ASSUME IInv, Rest
    PROVE  IInv'
  <1>1. slots' \in [Layer -> Nat \ {0}] /\ Floored(slots')
    BY RestShares DEF IInv
  <1>2. misses' \in [Layer -> 0..MaxMisses] /\ based' \in BOOLEAN /\ rested' \in BOOLEAN
    BY MissesAre DEF IInv, Typed, Rest
  <1>3. path' = path /\ window' = window /\ attends' = attends
        /\ store' = store /\ req' = req
    BY DEF Rest
  <1>4. Typed'
    BY <1>1, <1>2, <1>3 DEF IInv, Typed
  <1>5. Good(store)'
    BY <1>3 DEF IInv, Good, Matching
  <1>6. Following'
    BY <1>3 DEF IInv, Following, Follows
  <1> QED
    BY <1>1, <1>4, <1>5, <1>6 DEF IInv

\* A rebuild: only the shares change, and they are even.
LEMMA ResizeKeeps ==
    ASSUME IInv, NEW total \in Totals, Resize(total)
    PROVE  IInv'
  <1>1. total \in Nat /\ DOMAIN slots = Layer
    BY LayerAssumption DEF IInv, Typed
  <1>2. /\ Even(slots, total) \in [Layer -> Nat \ {0}]
        /\ \A l, k \in Layer : Even(slots, total)[l] = Even(slots, total)[k]
    BY <1>1, EvenIs
  <1>3. Floored(Even(slots, total))
    BY <1>2, SameIsFloored
  <1>4. slots' = Even(slots, total)
    BY DEF Resize
  <1>5. /\ path' = path /\ window' = window /\ attends' = attends
        /\ store' = store /\ req' = req /\ misses' = misses
        /\ based' = FALSE /\ rested' = FALSE
    BY DEF Resize
  <1>6. Typed'
    BY <1>2, <1>4, <1>5 DEF IInv, Typed
  <1>7. Good(store)' /\ Following'
    BY <1>5 DEF IInv, Good, Matching, Following, Follows
  <1> QED
    BY <1>3, <1>4, <1>6, <1>7 DEF IInv

\* What the store gives back is the state after what it saves of the prompt.
LEMMA HitIs ==
    ASSUME IInv, NEW p \in Prompts
    PROVE  LET hit == Best(store, p, window)
           IN  /\ hit.at \in 0..Len(store.entries) /\ hit.n \in Nat /\ hit.n < Len(p)
               /\ Restored(store, hit) \in Seq(Token)
               /\ attends => Restored(store, hit) = SubSeq(p, 1, hit.n)
               /\ \A i \in 1..Len(store.entries) : Usable(store.entries[i], p, window) >= MinMatch =>
                     Usable(store.entries[i], p, window) <= hit.n
               /\ Good(Touched(store, hit))
  <1> PICK hit : hit = Best(store, p, window)
    OBVIOUS
  <1>1. Orderly(store) /\ Fits(store) /\ Matching(store) /\ window \in Nat
    BY ModelAssumption DEF IInv, Good, Typed
  <1>2. p \in Seq(Token) /\ Len(p) > 0
    BY PromptIs
  <1>3. /\ hit.at \in 0..Len(store.entries) /\ hit.n \in Nat /\ hit.n < Len(p)
        /\ hit.at = 0 => hit.n = 0
        /\ hit.at # 0 =>
              /\ hit.n <= Len(store.entries[hit.at].tokens)
              /\ SubSeq(store.entries[hit.at].tokens, 1, hit.n) = SubSeq(p, 1, hit.n)
        /\ \A i \in 1..Len(store.entries) : Usable(store.entries[i], p, window) >= MinMatch =>
              Usable(store.entries[i], p, window) <= hit.n
    BY <1>1, <1>2, BestIs
  <1>4. /\ Restored(store, hit) \in Seq(Token)
        /\ attends => Restored(store, hit) = SubSeq(p, 1, hit.n)
    <2>1. CASE hit.at = 0
      <3>1. SubSeq(p, 1, 0) = <<>>
        BY <1>2
      <3> QED
        BY <1>3, <2>1, <3>1 DEF Restored
    <2>2. CASE hit.at # 0
      <3>1. store.entries \in Seq(Snapshot) /\ hit.at \in 1..Len(store.entries)
        BY <1>1, <1>3, <2>2 DEF Orderly, Store
      <3> PICK e : e = store.entries[hit.at]
        OBVIOUS
      <3>a. e \in Snapshot
        BY <3>1
      <3>2. e.tokens \in Seq(Token) /\ e.fed \in Seq(Token) /\ hit.n <= Len(e.tokens)
        BY <1>3, <2>2, <3>a DEF Snapshot
      <3> PICK m : m = Len(e.fed) - (Len(e.tokens) - hit.n)
        OBVIOUS
      <3>3. m \in Int /\ m <= Len(e.fed)
        <4>1. hit.n \in Nat
          BY <1>3, Zenon
        <4>2. /\ Len(e.fed) - (Len(e.tokens) - hit.n) \in Int
              /\ Len(e.fed) - (Len(e.tokens) - hit.n) <= Len(e.fed)
          BY <3>2, <4>1, LeftOver
        <4> QED
          BY <4>2, Zenon
      <3>4. Restored(store, hit) = SubSeq(e.fed, 1, m)
        BY <2>2 DEF Restored
      <3>5. Restored(store, hit) \in Seq(Token)
        BY <3>2, <3>3, <3>4, CutIs
      <3>6. ASSUME attends PROVE Restored(store, hit) = SubSeq(p, 1, hit.n)
        <4>1. e.fed = e.tokens
          BY <1>1, <3>1, <3>6 DEF Matching
        <4>2. m = hit.n
          BY <1>3, <3>2, <4>1, SMTT(30)
        <4> QED
          BY <1>3, <2>2, <3>4, <4>1, <4>2
      <3> QED
        BY <3>5, <3>6
    <2> QED
      BY <2>1, <2>2
  <1>5. Good(Touched(store, hit))
    <2>1. /\ Orderly(Touched(store, hit)) /\ Fits(Touched(store, hit))
          /\ Touched(store, hit).entries = store.entries
      BY <1>1, <1>3, Touches
    <2> QED
      BY <1>1, <2>1 DEF Good, Matching
  <1> QED
    BY <1>3, <1>4, <1>5

\* A request begins with no less than what the store saves, and its cache holds that.
LEMMA AdmitIs ==
    ASSUME IInv, NEW s \in Slot, NEW p \in Prompts, Admit(s, p)
    PROVE  /\ Good(store')
           /\ \E n \in Nat, fed \in Seq(Token) :
                 /\ Best(store, p, window).n <= n /\ n < Len(p)
                 /\ attends => fed = SubSeq(p, 1, n)
                 /\ Begins(s, p, n, fed)
  <1> PICK hit : hit = Best(store, p, window)
    OBVIOUS
  <1>1. /\ hit.n \in Nat /\ hit.n < Len(p) /\ Restored(store, hit) \in Seq(Token)
        /\ attends => Restored(store, hit) = SubSeq(p, 1, hit.n)
        /\ Good(Touched(store, hit))
    BY HitIs
  <1>2. p \in Seq(Token) /\ Len(p) \in Nat
    BY PromptIs
  <1>3. CASE Begins(s, p, hit.n, Restored(store, hit)) /\ store' = Touched(store, hit)
    BY <1>1, <1>2, <1>3
  <1>4. CASE \E n \in {n \in 1..(Len(p) - 1) : n % DiskBlock = 0 /\ n > hit.n} :
                LET fed == SubSeq(p, 1, n)
                IN  Begins(s, p, n, fed) /\ store' = Insert(Touched(store, hit), fed, fed)
    <2>1. PICK n \in 1..(Len(p) - 1) :
             /\ n > hit.n /\ Begins(s, p, n, SubSeq(p, 1, n))
             /\ store' = Insert(Touched(store, hit), SubSeq(p, 1, n), SubSeq(p, 1, n))
      BY <1>4
    <2>2. n \in 0..Len(p) /\ n \in Nat /\ n < Len(p) /\ hit.n <= n
      BY <1>1, <1>2, <2>1
    <2>3. SubSeq(p, 1, n) \in Seq(Token)
      BY <1>2, <2>2, Prefix
    <2>4. Good(store')
      BY <1>1, <2>1, <2>3, GoodInsert
    <2> QED
      BY <2>1, <2>2, <2>3, <2>4
  <1>5. \/ Begins(s, p, hit.n, Restored(store, hit)) /\ store' = Touched(store, hit)
        \/ \E n \in {n \in 1..(Len(p) - 1) : n % DiskBlock = 0 /\ n > hit.n} :
              LET fed == SubSeq(p, 1, n)
              IN  Begins(s, p, n, fed) /\ store' = Insert(Touched(store, hit), fed, fed)
    BY Zenon DEF Admit
  <1> QED
    BY <1>3, <1>4, <1>5, Zenon

\* A request begins.
LEMMA AdmitKeeps ==
    ASSUME IInv, NEW s \in Slot, NEW p \in Prompts, Admit(s, p)
    PROVE  IInv'
  <1>1. Good(store')
    BY AdmitIs
  <1>2. PICK n \in Nat, fed \in Seq(Token) :
           n < Len(p) /\ (attends => fed = SubSeq(p, 1, n)) /\ Begins(s, p, n, fed)
    BY AdmitIs
  <1>3. n <= Len(p)
    BY <1>2, PromptIs
  <1>5. /\ path' = path /\ window' = window /\ attends' = attends
        /\ slots' = slots /\ misses' = misses
        /\ based' = based /\ rested' = FALSE
    BY DEF Admit
  <1>4. req' \in [Slot -> Request \cup {None}] /\ Following'
    BY <1>2, <1>3, <1>5, BeginKeeps DEF IInv
  <1>6. Typed' /\ Floored(slots')
    BY <1>4, <1>5 DEF IInv, Typed
  <1> QED
    BY <1>1, <1>4, <1>5, <1>6, GoodNext DEF IInv

\* The rest of a step that prefills.
Prefills(s, n) ==
    /\ req[s] # None /\ req[s].pos <= n /\ n <= Len(req[s].prompt) /\ Feeds(s, n)
    /\ UNCHANGED <<path, window, attends, slots, misses, based, rested>>

\* A request is fed, and the store is a good one.
LEMMA PrefillKeeps ==
    ASSUME IInv, NEW s \in Slot, NEW n \in Nat, Prefills(s, n), Good(store')
    PROVE  IInv'
  <1>1. req' \in [Slot -> Request \cup {None}] /\ Following'
    BY FeedKeeps DEF IInv, Prefills
  <1>2. /\ path' = path /\ window' = window /\ attends' = attends
        /\ slots' = slots /\ misses' = misses
        /\ based' = based /\ rested' = rested
    BY DEF Prefills
  <1>3. Typed' /\ Floored(slots')
    BY <1>1, <1>2 DEF IInv, Typed
  <1> QED
    BY <1>1, <1>2, <1>3, GoodNext DEF IInv

\* Where a segment and a chunk end: ahead of where they began, and not behind the prompt's end.
LEMMA SegmentEndIs ==
    ASSUME NEW pos \in Nat, NEW end \in Nat, pos < end
    PROVE  /\ SegmentEnd(pos, end) \in Nat
           /\ pos < SegmentEnd(pos, end) /\ SegmentEnd(pos, end) <= end
  <1>1. Boundary \in Nat \ {0}
    BY WidthAssumption
  <1>2. (pos \div Boundary + 1) * Boundary \in Nat /\ pos < (pos \div Boundary + 1) * Boundary
    BY <1>1, NextMultiple
  <1> QED
    BY <1>2 DEF SegmentEnd, Least

\* A chunk is never empty: the narrow width is a boundary at least.
LEMMA ChunkEndIs ==
    ASSUME NEW pos \in Nat, NEW end \in Nat, pos < end
    PROVE  ChunkEnd(pos, end) \in Nat /\ pos < ChunkEnd(pos, end) /\ ChunkEnd(pos, end) <= end
  <1>1. /\ Boundary \in Nat \ {0} /\ Wide \in Nat \ {0} /\ Narrow \in Nat \ {0}
        /\ Boundary <= Narrow /\ Boundary <= Wide
    BY WidthAssumption
  <1> PICK width : width = IF Cardinality(Active) <= 1 THEN Wide ELSE Narrow
    OBVIOUS
  <1>2. width \in Nat \ {0} /\ Boundary <= width
    BY <1>1
  <1> PICK q : q = pos \div Boundary
    OBVIOUS
  <1> PICK grid : grid = (q + 1) * Boundary
    OBVIOUS
  <1>3. /\ q \in Nat /\ grid \in Nat /\ pos < grid /\ q * Boundary \in Nat /\ q * Boundary <= pos
    <2>1. /\ (pos \div Boundary + 1) * Boundary \in Nat /\ pos < (pos \div Boundary + 1) * Boundary
          /\ (pos \div Boundary) * Boundary \in Nat /\ (pos \div Boundary) * Boundary <= pos
          /\ pos \div Boundary \in Nat
      BY <1>1, NextMultiple, DivMod
    <2> QED
      BY <2>1
  <1>4. grid = q * Boundary + Boundary
    BY <1>1, <1>3
  <1> PICK full : full = pos + width
    OBVIOUS
  <1>5. full \in Nat /\ grid <= full
    BY <1>1, <1>2, <1>3, <1>4
  <1>6. full - (full % Boundary) \in Nat /\ grid <= full - (full % Boundary)
        /\ full - (full % Boundary) <= full
    <2>1. grid % Boundary = 0
      <3>1. q + 1 \in Nat
        BY <1>3
      <3> QED
        BY <1>1, <3>1, MultipleIs
    <2>2. grid <= (full \div Boundary) * Boundary
      BY <1>1, <1>3, <1>5, <2>1, LastMultiple
    <2>3. /\ full \div Boundary \in Nat /\ full % Boundary \in 0..(Boundary - 1)
          /\ full = Boundary * (full \div Boundary) + (full % Boundary)
      BY <1>1, <1>5, DivMod
    <2>4. full - (full % Boundary) = (full \div Boundary) * Boundary
      BY <1>1, <1>5, <2>3
    <2> QED
      BY <1>1, <1>3, <1>5, <2>2, <2>3, <2>4
  <1>7. ChunkEnd(pos, end) = IF full >= end THEN end
                             ELSE IF full < grid THEN grid ELSE full - (full % Boundary)
    BY DEF ChunkEnd
  <1> QED
    BY <1>3, <1>5, <1>6, <1>7

\* _offload_prefill(): the snapshots are good ones, and the last boundary before the end is
\* among them.
LEMMA PrefillOffloadIs ==
    ASSUME IInv, NEW s \in Slot, PrefillOffload(s)
    PROVE  LET end  == Len(req[s].prompt) - 1
               last == (end \div Boundary) * Boundary
           IN  /\ end \in Nat /\ Prefills(s, end) /\ Good(store')
               /\ req[s].pos < last /\ last < end /\ last >= MinMatch
                  => Has(store', SubSeq(req[s].prompt, 1, last))
  <1> PICK r : r = req[s]
    OBVIOUS
  <1>1. req[s] # None /\ r.pos < Len(r.prompt) - 1
    BY DEF PrefillOffload
  <1>2. /\ r \in Request /\ Follows(r) /\ r.pos \in Nat
        /\ r.prompt \in Prompts
    BY <1>1, RequestIs DEF IInv, Following
  <1>3. Len(r.prompt) \in Nat /\ Len(r.prompt) > 0
    BY <1>2, PromptIs
  <1> PICK end : end = Len(r.prompt) - 1
    OBVIOUS
  <1>4. end \in Nat /\ r.pos \in 0..end /\ end <= Len(r.prompt) /\ r.pos < end
    BY <1>1, <1>2, <1>3
  <1> PICK plan : plan = OffloadPlan(r.pos, end)
    OBVIOUS
  <1>5. plan \in Seq(Nat) /\ Wanted(r.pos, end, plan)
    BY <1>4, PlanIs
  <1>6. \A i \in 1..Len(plan) : r.pos <= plan[i] /\ plan[i] <= Len(r.prompt)
    <2> SUFFICES ASSUME NEW i \in 1..Len(plan)
                 PROVE  r.pos <= plan[i] /\ plan[i] <= Len(r.prompt)
      OBVIOUS
    <2>1. r.pos < plan[i] /\ plan[i] < end /\ plan[i] \in Nat
      BY <1>5 DEF Wanted
    <2> QED
      BY <1>2, <1>4, <2>1
  <1>7. /\ Good(store')
        /\ Len(plan) > 0 /\ plan[Len(plan)] >= MinMatch =>
              Has(store', SubSeq(r.prompt, 1, plan[Len(plan)]))
    <2> DEFINE new == FoldLeft(LAMBDA st, n : Insert(st, SubSeq(req[s].prompt, 1, n), FedTo(req[s], n)),
                               store, plan)
    <2>1. Good(store)
      BY DEF IInv
    <2>2. store' = FoldLeft(LAMBDA st, n : Insert(st, SubSeq(req[s].prompt, 1, n), FedTo(req[s], n)),
                            store, OffloadPlan(req[s].pos, Len(req[s].prompt) - 1))
      BY DEF PrefillOffload
    <2>3. store' = new
      BY <2>2
    <2>4. /\ req[s] \in Request /\ Follows(req[s])
          /\ \A i \in 1..Len(plan) : req[s].pos <= plan[i] /\ plan[i] <= Len(req[s].prompt)
      BY <1>2, <1>6
    <2>5. /\ Good(new)
          /\ Len(plan) > 0 /\ plan[Len(plan)] >= MinMatch =>
                Has(new, SubSeq(req[s].prompt, 1, plan[Len(plan)]))
      BY <1>5, <2>1, <2>4, SnapshotsAre
    <2> HIDE DEF new
    <2> QED
      BY <2>3, <2>5
  <1>8. Feeds(s, end) /\ UNCHANGED <<path, window, attends, slots, misses, based, rested>>
    BY DEF PrefillOffload
  <1>9. Prefills(s, end)
    <2>1. req[s].pos <= end /\ end <= Len(req[s].prompt)
      BY <1>4
    <2> QED
      BY <1>1, <1>8, <2>1 DEF Prefills
  <1>10. LET last == (end \div Boundary) * Boundary
         IN  r.pos < last /\ last < end => Len(plan) > 0 /\ plan[Len(plan)] = last
    BY <1>5 DEF Wanted
  <1>11. r.pos < (end \div Boundary) * Boundary /\ (end \div Boundary) * Boundary < end
         /\ (end \div Boundary) * Boundary >= MinMatch
         => Has(store', SubSeq(r.prompt, 1, (end \div Boundary) * Boundary))
    BY <1>7, <1>10
  <1> QED
    BY <1>4, <1>7, <1>9, <1>11

\* _step_batched(): a segment that ends inside the prompt leaves a snapshot there.
LEMMA PrefillBatchedIs ==
    ASSUME IInv, NEW s \in Slot, PrefillBatched(s)
    PROVE  LET n == SegmentEnd(req[s].pos, Len(req[s].prompt))
           IN  /\ n \in Nat /\ Prefills(s, n) /\ Good(store') /\ req[s].pos < n
               /\ n < Len(req[s].prompt) /\ n >= MinMatch => Has(store', SubSeq(req[s].prompt, 1, n))
  <1>1. req[s] # None /\ req[s].pos < Len(req[s].prompt)
    BY DEF PrefillBatched
  <1>2. req[s].pos \in Nat /\ Len(req[s].prompt) \in Nat
    BY <1>1, RequestIs, PromptIs DEF IInv
  <1> PICK n : n = SegmentEnd(req[s].pos, Len(req[s].prompt))
    OBVIOUS
  <1>3. n \in Nat /\ req[s].pos < n /\ n <= Len(req[s].prompt)
    BY <1>1, <1>2, SegmentEndIs
  <1>4. req[s].pos <= n
    BY <1>2, <1>3
  <1>5. Prefills(s, n)
    BY <1>1, <1>3, <1>4 DEF PrefillBatched, Prefills
  <1>6. LET new == Insert(store, SubSeq(req[s].prompt, 1, n), FedTo(req[s], n))
        IN  Good(new) /\ (n >= MinMatch => Has(new, SubSeq(req[s].prompt, 1, n)))
    BY <1>1, <1>3, <1>4, SnapshotIs DEF IInv
  <1>7. store' = IF n < Len(req[s].prompt)
                 THEN Insert(store, SubSeq(req[s].prompt, 1, n), FedTo(req[s], n)) ELSE store
    BY DEF PrefillBatched
  <1>8. Good(store)
    BY DEF IInv
  <1> QED
    BY <1>3, <1>5, <1>6, <1>7, <1>8

\* _prefill_chunks(): a chunk feeds the request, and the store stays good.
LEMMA PrefillChunkIs ==
    ASSUME IInv, NEW s \in Slot, PrefillChunk(s)
    PROVE  \E n \in Nat : Prefills(s, n) /\ Good(store')
  <1>1. req[s] # None /\ req[s].pos < Len(req[s].prompt) - 1
    BY DEF PrefillChunk
  <1>2. req[s].pos \in Nat /\ Len(req[s].prompt) \in Nat /\ Len(req[s].prompt) > 0
    BY <1>1, RequestIs, PromptIs DEF IInv
  <1> PICK end : end = Len(req[s].prompt) - 1
    OBVIOUS
  <1>0. end \in Nat /\ end <= Len(req[s].prompt) /\ req[s].pos < end
    BY <1>1, <1>2
  <1>a. PICK n \in ChunkEnds(req[s].pos, end) :
           /\ Feeds(s, n)
           /\ \/ store' = Insert(store, SubSeq(req[s].prompt, 1, n), FedTo(req[s], n))
              \/ store' = store
    BY DEF PrefillChunk
  <1>3. n \in Nat /\ req[s].pos < n /\ n <= end
    BY <1>0, <1>2, ChunkEndIs DEF ChunkEnds
  <1>4. req[s].pos <= n /\ n <= Len(req[s].prompt)
    BY <1>0, <1>2, <1>3
  <1>5. Prefills(s, n)
    BY <1>1, <1>4, <1>a DEF PrefillChunk, Prefills
  <1>6. Good(Insert(store, SubSeq(req[s].prompt, 1, n), FedTo(req[s], n)))
    BY <1>1, <1>3, <1>4, SnapshotIs DEF IInv
  <1>8. Good(store)
    BY DEF IInv
  <1> QED
    BY <1>3, <1>5, <1>6, <1>a, <1>8

\* A request ends: whatever became of its cache.
LEMMA EndKeeps ==
    ASSUME IInv, NEW s \in Slot, Ends(s), Good(store')
    PROVE  IInv'
  <1>1. Changes(s, None)
    BY DEF Ends, Changes
  <1>2. req' \in [Slot -> Request \cup {None}] /\ Following'
    BY <1>1, ChangeKeeps DEF IInv, Ends
  <1>3. misses' \in [Layer -> 0..MaxMisses]
    BY DEF IInv, Typed, Ends
  <1>4. /\ path' = path /\ window' = window /\ attends' = attends
        /\ slots' = slots /\ based' = based /\ rested' = FALSE
    BY DEF Ends
  <1>5. Typed' /\ Floored(slots')
    BY <1>2, <1>3, <1>4 DEF IInv, Typed
  <1> QED
    BY <1>2, <1>4, <1>5, GoodNext DEF IInv

\* A request ends with its answer: the cache is cut back to what it is stored under.
LEMMA FinishKeeps ==
    ASSUME IInv, NEW s \in Slot, Finish(s)
    PROVE  IInv'
  <1> PICK r : r = req[s]
    OBVIOUS
  <1>1. req[s] # None /\ Ends(s)
    BY DEF Finish
  <1>2. /\ r \in Request /\ Follows(r) /\ r.prompt \in Prompts /\ r.pos <= Len(r.prompt)
    BY <1>1, RequestIs DEF IInv, Following
  <1>3. r.prompt \in Seq(Token) /\ Len(r.prompt) \in Nat
    BY <1>2, PromptIs
  <1>5. PICK out \in Outputs, ahead \in Aheads :
           store' = Remembered(r.prompt \o Front(out), FedTo(r, Len(r.prompt)) \o Front(out) \o ahead)
    BY DEF Finish
  <1> PICK c : c = FedTo(r, Len(r.prompt))
    OBVIOUS
  <1>4. c \in Seq(Token) /\ (attends => c = r.prompt)
    <2>1. Len(r.prompt) <= Len(r.prompt)
      BY <1>3
    <2>2. /\ c \in Seq(Token)
          /\ attends => c = SubSeq(r.prompt, 1, Len(r.prompt))
      BY <1>2, <1>3, <2>1, FedFollows
    <2> QED
      BY <1>3, <2>2, PrefixWhole
  <1> PICK tokens, fed : tokens = r.prompt \o Front(out) /\ fed = c \o Front(out) \o ahead
    OBVIOUS
  <1>6. /\ tokens \in Seq(Token) /\ fed \in Seq(Token) /\ ahead \in Seq(Token)
        /\ attends => fed = tokens \o ahead
    <2>1. Front(out) \in Seq(Token) /\ ahead \in Seq(Token)
      BY OutputIs, AheadAssumption
    <2>2. tokens \in Seq(Token)
      BY <1>3, <2>1
    <2>3. c \o Front(out) \in Seq(Token)
      BY <1>4, <2>1
    <2>4. fed \in Seq(Token)
      BY <2>1, <2>3
    <2>5. attends => fed = tokens \o ahead
      BY <1>4, Zenon
    <2> QED
      BY <2>1, <2>2, <2>4, <2>5
  <1>7. SubSeq(tokens \o ahead, 1, Len(tokens)) = tokens
    BY <1>6
  <1>8. Good(Remembered(tokens, fed))
    BY <1>6, <1>7, RememberedIs DEF IInv
  <1>9. store' = Remembered(tokens, fed)
    BY <1>5
  <1> QED
    BY <1>1, <1>8, <1>9, EndKeeps

\* A request is aborted: its cache is short of its prompt, or is its state.
LEMMA AbortKeeps ==
    ASSUME IInv, NEW s \in Slot, Abort(s)
    PROVE  IInv'
  <1> PICK r : r = req[s]
    OBVIOUS
  <1>1. req[s] # None /\ Ends(s) /\ store' = Remembered(r.prompt, r.fed)
    BY DEF Abort
  <1>2. /\ Follows(r) /\ r.prompt \in Prompts /\ r.pos \in Nat /\ r.fed \in Seq(Token)
        /\ r.pos <= Len(r.prompt)
    BY <1>1, RequestIs DEF IInv, Following
  <1>3. r.prompt \in Seq(Token) /\ Len(r.prompt) \in Nat
    BY <1>2, PromptIs
  <1>5. attends /\ Len(r.prompt) <= Len(r.fed) => SubSeq(r.fed, 1, Len(r.prompt)) = r.prompt
    <2> SUFFICES ASSUME attends, Len(r.prompt) <= Len(r.fed)
                 PROVE  SubSeq(r.fed, 1, Len(r.prompt)) = r.prompt
      OBVIOUS
    <2>1. r.fed = SubSeq(r.prompt, 1, r.pos)
      BY <1>2 DEF Follows
    <2>2. Len(r.fed) = r.pos
      BY <1>2, <1>3, <2>1, Prefix
    <2>3. r.pos = Len(r.prompt)
      BY <1>2, <1>3, <2>2
    <2>4. r.fed = r.prompt
      BY <1>3, <2>1, <2>3, PrefixWhole
    <2> QED
      BY <1>3, <2>4, PrefixWhole
  <1>6. Good(store')
    BY <1>1, <1>2, <1>3, <1>5, RememberedIs DEF IInv
  <1> QED
    BY <1>1, <1>6, EndKeeps

\* A request fails: nothing is remembered.
LEMMA FailKeeps ==
    ASSUME IInv, NEW s \in Slot, Fail(s)
    PROVE  IInv'
  <1>1. Ends(s) /\ store' = store
    BY DEF Fail
  <1>2. Good(store')
    BY <1>1 DEF IInv
  <1> QED
    BY <1>1, <1>2, EndKeeps

\* The scheduler starts with an empty store and the same for all layers.
LEMMA InitKeeps == Init => IInv
  <1> SUFFICES ASSUME Init PROVE IInv
    OBVIOUS
  <1>1. Good(store)
    <2>1. store.entries = <<>> /\ store.recent = <<>> /\ store \in Store
      BY DEF Init, Empty, Store
    <2>2. Orderly(store) /\ Matching(store)
      BY <2>1 DEF Orderly, KeysOnce, Once, Ranked, Backed, Matching
    <2>3. Fits(store)
      BY <2>1 DEF Fits
    <2> QED
      BY <2>2, <2>3 DEF Good
  <1>2. Following
    BY DEF Init, Following, Follows
  <1>3. slots \in [Layer -> Nat \ {0}] /\ \A l, k \in Layer : slots[l] = slots[k]
    BY LayerAssumption DEF Init
  <1>4. Floored(slots)
    BY <1>3, SameIsFloored
  <1>5. misses \in [Layer -> 0..MaxMisses]
    BY LayerAssumption DEF Init, NoMisses
  <1>6. <<window, attends>> \in Models
    BY ModelAssumption DEF Init
  <1>7. Typed
    BY <1>3, <1>5, <1>6 DEF Init, Typed
  <1> QED
    BY <1>1, <1>2, <1>4, <1>7 DEF IInv

\* Every step keeps the invariant.
LEMMA StepKeeps == IInv /\ [Next]_vars => IInv'
  <1> SUFFICES ASSUME IInv, [Next]_vars PROVE IInv'
    OBVIOUS
  <1>1. CASE Rest
    BY <1>1, RestKeeps
  <1>2. ASSUME NEW total \in Totals, Resize(total) PROVE IInv'
    BY <1>2, ResizeKeeps
  <1>3. ASSUME NEW s \in Slot, NEW p \in Prompts, Admit(s, p) PROVE IInv'
    BY <1>3, AdmitKeeps
  <1>4. ASSUME NEW s \in Slot, PrefillOffload(s) PROVE IInv'
    BY <1>4, PrefillOffloadIs, PrefillKeeps
  <1>5. ASSUME NEW s \in Slot, PrefillBatched(s) PROVE IInv'
    BY <1>5, PrefillBatchedIs, PrefillKeeps
  <1>6. ASSUME NEW s \in Slot, PrefillChunk(s) PROVE IInv'
    BY <1>6, PrefillChunkIs, PrefillKeeps
  <1>7. ASSUME NEW s \in Slot, Finish(s) PROVE IInv'
    BY <1>7, FinishKeeps
  <1>8. ASSUME NEW s \in Slot, Abort(s) PROVE IInv'
    BY <1>8, AbortKeeps
  <1>9. ASSUME NEW s \in Slot, Fail(s) PROVE IInv'
    BY <1>9, FailKeeps
  <1>10. CASE UNCHANGED vars
    BY <1>10 DEF IInv, Good, Matching, Typed, Following, Follows, Floored, vars
  <1> QED
    BY <1>1, <1>2, <1>3, <1>4, <1>5, <1>6, <1>7, <1>8, <1>9, <1>10 DEF Next

\* The invariant holds in every behaviour.
LEMMA Inductive == Spec => []IInv
  <1> QED
    BY InitKeeps, StepKeeps, PTL DEF Spec

----------------------------------------------------------------------------
(* What follows from it.                                                   *)

\* As many prefixes as entries, for none is held twice.
LEMMA KeysCounted ==
    ASSUME NEW es \in Seq(Snapshot), KeysOnce(es)
    PROVE  Cardinality({es[i].tokens : i \in DOMAIN es}) = Len(es)
  <1> PICK n : n = Len(es)
    OBVIOUS
  <1>1. n \in Nat /\ DOMAIN es = 1..n
    OBVIOUS
  <1> PICK S : S = {es[i].tokens : i \in 1..n}
    OBVIOUS
  <1> PICK f : f = [i \in 1..n |-> es[i].tokens]
    OBVIOUS
  <1>2. f \in [1..n -> S] /\ \A i \in 1..n : f[i] = es[i].tokens
    OBVIOUS
  <1>3. f \in Injection(1..n, S)
    <2>1. \A i, j \in 1..n : f[i] = f[j] => i = j
      BY <1>1, <1>2 DEF KeysOnce
    <2> QED
      BY <1>2, <2>1 DEF Injection, IsInjective
  <1>4. f \in Surjection(1..n, S)
    BY <1>2 DEF Surjection
  <1>5. ExistsBijection(1..n, S)
    BY <1>3, <1>4 DEF ExistsBijection, Bijection
  <1>6. Cardinality(S) = n
    BY <1>1, <1>5, FS_CountingElements
  <1> QED
    BY <1>1, <1>6

\* A number that is not 0 and not above 1.
LEMMA OneLeft ==
    ASSUME NEW n \in Nat, n # 0, ~(n > 1)
    PROVE  n = 1
  OBVIOUS

\* A good store is sane.
LEMMA GoodIsSane ==
    ASSUME Good(store)
    PROVE  StoreSane
  <1>1. /\ store.entries \in Seq(Snapshot) /\ store.recent \in Seq(Seq(Token))
        /\ Len(store.recent) = Len(store.entries) /\ KeysOnce(store.entries)
        /\ Ranked(store.entries, store.recent) /\ Backed(store.entries, store.recent)
    BY DEF Good, Orderly, Store
  <1>2. Total(store.entries) > MaxBytes => Len(store.entries) = 1
    <2> SUFFICES ASSUME Total(store.entries) > MaxBytes PROVE Len(store.entries) = 1
      OBVIOUS
    <2>1. ~(Len(store.entries) > 1)
      BY DEF Good, Fits
    <2>2. store.entries # <<>>
      <3>1. MaxBytes \in Nat /\ ~(0 > MaxBytes)
        BY StoreAssumption
      <3> QED
        BY <3>1, NothingFits
    <2> PICK n : n = Len(store.entries)
      OBVIOUS
    <2>3. n \in Nat /\ n # 0 /\ ~(n > 1)
      BY <1>1, <2>1, <2>2
    <2>4. n = 1
      BY <2>3, OneLeft, Zenon
    <2> QED
      BY <2>4
  <1>3. Cardinality(Keys(store)) = Len(store.entries)
    BY <1>1, KeysCounted DEF Keys
  <1>4. ToSet(store.recent) = Keys(store)
    <2>1. DOMAIN store.entries = 1..Len(store.entries) /\ DOMAIN store.recent = 1..Len(store.recent)
      BY <1>1
    <2>2. Keys(store) \subseteq ToSet(store.recent)
      BY <1>1, <2>1 DEF Keys, ToSet, Ranked
    <2>3. ToSet(store.recent) \subseteq Keys(store)
      BY <1>1, <2>1 DEF Keys, ToSet, Backed
    <2> QED
      BY <2>2, <2>3
  <1> QED
    BY <1>1, <1>2, <1>3, <1>4 DEF StoreSane

\* The variables keep their types, and the RAM store (prefix_cache.py) stays sane: it is within
\* its budget unless one snapshot alone is not, it holds no prefix twice, and its order of use
\* names what it holds and nothing else.
THEOREM TypeCorrect == Spec => []TypeOK
  <1>1. IInv => TypeOK
    <2> SUFFICES ASSUME IInv PROVE TypeOK
      OBVIOUS
    <2>1. StoreSane
      BY GoodIsSane DEF IInv
    <2>2. store \in [entries : Seq(Snapshot), recent : Seq(Seq(Token))]
      BY DEF IInv, Good, Orderly, Store
    <2> QED
      BY <2>1, <2>2 DEF IInv, Typed, TypeOK
  <1> QED
    BY <1>1, Inductive, PTL

\* With a layer that tells how long the cache is, every snapshot that _remember() and the
\* prefills insert is the state after exactly its tokens, and every request decodes from the
\* state after exactly its prompt, for all lengths, windows and budgets.
THEOREM StateIsThePrompts == Spec => []StateMatches
  <1>1. IInv => StateMatches
    <2> SUFFICES ASSUME IInv, attends
                 PROVE  /\ SnapshotExact
                        /\ \A s \in Active : req[s].fed = SubSeq(req[s].prompt, 1, req[s].pos)
      BY DEF StateMatches
    <2>1. store.entries \in Seq(Snapshot) /\ Matching(store)
      BY DEF IInv, Good, Orderly, Store
    <2>2. SnapshotExact
      BY <2>1 DEF Matching, SnapshotExact
    <2>3. \A s \in Active : req[s].fed = SubSeq(req[s].prompt, 1, req[s].pos)
      BY DEF IInv, Following, Follows, Active
    <2> QED
      BY <2>2, <2>3
  <1> QED
    BY <1>1, Inductive, PTL

\* Which steps change a request.
LEMMA WhoChanges ==
    ASSUME IInv, Next, NEW s \in Slot, req'[s] # req[s]
    PROVE  \/ \E p \in Prompts : Admit(s, p)
           \/ PrefillOffload(s) \/ PrefillBatched(s) \/ PrefillChunk(s)
           \/ Ends(s) /\ req'[s] = None
  <1>0. req \in [Slot -> Request \cup {None}]
    BY DEF IInv, Typed
  <1> DEFINE Goal == \/ \E p \in Prompts : Admit(s, p)
                     \/ PrefillOffload(s) \/ PrefillBatched(s) \/ PrefillChunk(s)
                     \/ Ends(s) /\ req'[s] = None
  <1>1. ~Rest /\ \A total \in Totals : ~Resize(total)
    BY DEF Rest, Resize
  <1>2. ASSUME NEW t \in Slot, NEW p \in Prompts, Admit(t, p) PROVE Goal
    <2>1. PICK n, fed : Begins(t, p, n, fed)
      BY <1>2, AdmitIs
    <2>2. t = s
      BY <1>0, <2>1 DEF Begins
    <2> QED
      BY <1>2, <2>2
  <1>3. ASSUME NEW t \in Slot, NEW n, Feeds(t, n) PROVE t = s
    BY <1>0, <1>3 DEF Feeds
  <1>4. ASSUME NEW t \in Slot, PrefillOffload(t) PROVE Goal
    <2>1. Feeds(t, Len(req[t].prompt) - 1)
      BY <1>4 DEF PrefillOffload
    <2>2. t = s
      BY <1>3, <2>1
    <2> QED
      BY <1>4, <2>2
  <1>5. ASSUME NEW t \in Slot, PrefillBatched(t) PROVE Goal
    <2>1. Feeds(t, SegmentEnd(req[t].pos, Len(req[t].prompt)))
      BY <1>5 DEF PrefillBatched
    <2>2. t = s
      BY <1>3, <2>1
    <2> QED
      BY <1>5, <2>2
  <1>6. ASSUME NEW t \in Slot, PrefillChunk(t) PROVE Goal
    <2>1. \E n \in ChunkEnds(req[t].pos, Len(req[t].prompt) - 1) : Feeds(t, n)
      BY <1>6 DEF PrefillChunk
    <2>2. t = s
      BY <1>3, <2>1
    <2> QED
      BY <1>6, <2>2
  <1>7. ASSUME NEW t \in Slot, Ends(t) PROVE Goal
    <2>1. req' = [req EXCEPT ![t] = None]
      BY <1>7 DEF Ends
    <2>2. t = s /\ req'[s] = None
      BY <1>0, <2>1
    <2> QED
      BY <1>7, <2>2
  <1>8. \A t \in Slot : Finish(t) \/ Abort(t) \/ Fail(t) => Ends(t)
    BY DEF Finish, Abort, Fail
  <1> QED
    BY <1>1, <1>2, <1>4, <1>5, <1>6, <1>7, <1>8 DEF Next

\* What could serve a prompt is found: _lookup_prefix() begins no request behind it, whichever
\* tier served it, and always leaves it a token to process.
LEMMA AdmitReuses ==
    ASSUME IInv, NEW s \in Slot, NEW p \in Prompts, Admit(s, p)
    PROVE  /\ req'[s].pos < Len(req'[s].prompt)
           /\ \A k \in Servable(req'[s].prompt) : k <= req'[s].pos
  <1>1. PICK n \in Nat, fed \in Seq(Token) :
           /\ Best(store, p, window).n <= n /\ n < Len(p)
           /\ attends => fed = SubSeq(p, 1, n)
           /\ Begins(s, p, n, fed)
    BY AdmitIs
  <1>2. p \in Seq(Token) /\ Len(p) \in Nat /\ Len(p) > 0 /\ n <= Len(p)
    BY <1>1, PromptIs
  <1>3. req'[s].prompt = p /\ req'[s].pos = n
    <2>1. req'[s] = [prompt |-> p, pos |-> n, fed |-> fed]
      BY <1>1, <1>2, BeginKeeps DEF IInv, Admit
    <2> QED
      BY <2>1
  <1>4. ASSUME NEW k \in Servable(p) PROVE k <= n
    <2>1. k \in MinMatch..(Len(p) - 1)
      BY DEF Servable
    <2>2. MinMatch \in Nat
      BY StoreAssumption
    <2>3. k \in Nat /\ k < Len(p) /\ MinMatch <= k
      BY <1>2, <2>1, <2>2
    <2>4. store.entries \in Seq(Snapshot)
      BY DEF IInv, Good, Orderly, Store
    <2>5. PICK i \in 1..Len(store.entries) :
             /\ k <= Len(store.entries[i].tokens)
             /\ SubSeq(p, 1, k) = SubSeq(store.entries[i].tokens, 1, k)
             /\ k = Len(store.entries[i].tokens) \/ Trimmable(Len(store.entries[i].fed), window)
      <3>1. \E i \in DOMAIN store.entries :
               LET t == store.entries[i].tokens
               IN  /\ k <= Len(t) /\ SubSeq(p, 1, k) = SubSeq(t, 1, k)
                   /\ k = Len(t) \/ Trimmable(Len(store.entries[i].fed), window)
        BY Zenon DEF Servable
      <3>2. DOMAIN store.entries = 1..Len(store.entries)
        BY <2>4
      <3> QED
        BY <3>1, <3>2, Zenon
    <2> PICK e : e = store.entries[i]
      OBVIOUS
    <2>6. e \in Snapshot
      BY <2>4
    <2>7. window \in Nat
      BY ModelAssumption DEF IInv, Typed
    <2>8. Usable(e, p, window) \in Nat /\ k <= Usable(e, p, window)
      BY <1>2, <2>3, <2>5, <2>6, <2>7, UsableIs
    <2>9. Usable(e, p, window) >= MinMatch
      BY <2>2, <2>3, <2>8
    <2>10. Best(store, p, window).n \in Nat /\ Usable(e, p, window) <= Best(store, p, window).n
      BY <2>9, HitIs
    <2> QED
      BY <1>1, <2>3, <2>8, <2>10
  <1> QED
    BY <1>1, <1>3, <1>4

\* A request never starts behind what RAM could save it, and always has a token to process:
\* what _lookup_prefix() returns, for every store it can meet.
THEOREM NothingIsWasted == Spec => LongestReuse
  <1>1. IInv /\ [Next]_vars =>
          [\A s \in Slot : req[s] = None /\ req'[s] # None =>
              /\ req'[s].pos < Len(req'[s].prompt)
              /\ \A k \in Servable(req'[s].prompt) : k <= req'[s].pos]_vars
    <2> SUFFICES ASSUME IInv, Next, NEW s \in Slot, req[s] = None, req'[s] # None
                 PROVE  /\ req'[s].pos < Len(req'[s].prompt)
                        /\ \A k \in Servable(req'[s].prompt) : k <= req'[s].pos
      OBVIOUS
    <2>1. PICK p \in Prompts : Admit(s, p)
      BY WhoChanges DEF PrefillOffload, PrefillBatched, PrefillChunk
    <2> QED
      BY <2>1, AdmitReuses
  <1> QED
    BY <1>1, Inductive, PTL DEF Spec, LongestReuse

\* No multiple lies between a number and the next multiple.
LEMMA NoneBetween ==
    ASSUME NEW pos \in Nat, NEW q \in Nat, NEW b \in Nat \ {0}, pos < q * b
    PROVE  (pos \div b + 1) * b <= q * b
  <1> PICK d : d = pos \div b
    OBVIOUS
  <1>1. d \in Nat /\ d * b \in Nat /\ d * b <= pos
    BY DivMod, NextMultiple
  <1>2. ASSUME NEW x \in Nat, NEW y \in Nat, x <= y PROVE x * b <= y * b
    <2> PICK e : e = y - x
      OBVIOUS
    <2>1. e \in Nat /\ y = x + e
      BY <1>2
    <2>2. y * b = x * b + e * b /\ e * b \in Nat /\ x * b \in Nat
      BY <2>1
    <2> QED
      BY <2>2
  <1>3. ~(q <= d)
    <2> SUFFICES ASSUME q <= d PROVE FALSE
      OBVIOUS
    <2>1. q * b <= d * b
      BY <1>1, <1>2
    <2>2. q * b \in Nat
      OBVIOUS
    <2> QED
      BY <1>1, <2>1, <2>2
  <1>4. d + 1 \in Nat /\ d + 1 <= q
    BY <1>1, <1>3
  <1> QED
    BY <1>2, <1>4

\* The last boundary before an end that is not one itself.
LEMMA LastBoundary ==
    ASSUME NEW end \in Nat \ {0}
    PROVE  LET point == ((end - 1) \div Boundary) * Boundary
           IN  /\ (end - 1) \div Boundary \in Nat /\ point \in Nat /\ point < end
               /\ end % Boundary # 0 => point = (end \div Boundary) * Boundary
  <1>1. Boundary \in Nat \ {0}
    BY WidthAssumption
  <1> PICK q : q = (end - 1) \div Boundary
    OBVIOUS
  <1>2. /\ end - 1 \in Nat /\ q \in Nat /\ q * Boundary \in Nat /\ q * Boundary <= end - 1
    <2>1. end - 1 \in Nat
      OBVIOUS
    <2>2. /\ (end - 1) \div Boundary \in Nat /\ ((end - 1) \div Boundary) * Boundary \in Nat
          /\ ((end - 1) \div Boundary) * Boundary <= end - 1
      BY <1>1, <2>1, DivMod, NextMultiple
    <2> QED
      BY <2>1, <2>2
  <1>3. end % Boundary # 0 => q = end \div Boundary
    BY <1>1
  <1> QED
    BY <1>2, <1>3

\* The last boundary before an end, 0 included, is a number.
LEMMA PointIsInt ==
    ASSUME NEW end \in Nat
    PROVE  ((end - 1) \div Boundary) * Boundary \in Int
  <1>1. Boundary \in Nat \ {0} /\ end - 1 \in Int
    BY WidthAssumption
  <1>2. (end - 1) \div Boundary \in Int
    BY <1>1
  <1> QED
    BY <1>1, <1>2

\* A step that takes a request past the last boundary inside its prompt.
Passes(s, end, point) ==
    /\ path # "chunked" /\ req[s] # None /\ req'[s].prompt = req[s].prompt
    /\ end = Len(req[s].prompt) - (IF path = "batched" THEN 0 ELSE 1)
    /\ point = ((end - 1) \div Boundary) * Boundary
    /\ req[s].pos < point /\ point <= req'[s].pos
    /\ point >= MinMatch /\ (end % Boundary # 0 \/ path = "batched")

\* _offload_prefill() leaves a snapshot at the boundary it passes.
LEMMA OffloadPasses ==
    ASSUME IInv, NEW s \in Slot, PrefillOffload(s), NEW end, NEW point, Passes(s, end, point)
    PROVE  Good(store') /\ Has(store', SubSeq(req[s].prompt, 1, point))
  <1>1. path # "batched" /\ req[s].pos < Len(req[s].prompt) - 1
    BY DEF PrefillOffload
  <1>2. /\ end = Len(req[s].prompt) - 1 /\ end % Boundary # 0
        /\ point = ((end - 1) \div Boundary) * Boundary
        /\ req[s].pos < point /\ point >= MinMatch /\ req[s] # None
    BY <1>1 DEF Passes
  <1>3. req[s].pos \in Nat /\ end \in Nat
    BY <1>2, RequestIs, PrefillOffloadIs DEF IInv
  <1>4. end \in Nat \ {0}
    <2>1. req[s].pos < end
      BY <1>1, <1>2, Zenon
    <2> QED
      BY <1>3, <2>1
  <1>5. point < end /\ point = (end \div Boundary) * Boundary
    BY <1>2, <1>4, LastBoundary
  <1> QED
    BY <1>2, <1>5, PrefillOffloadIs

\* So does a batched segment, which ends on the first boundary ahead.
LEMMA BatchedPasses ==
    ASSUME IInv, NEW s \in Slot, PrefillBatched(s), NEW end, NEW point, Passes(s, end, point)
    PROVE  Good(store') /\ Has(store', SubSeq(req[s].prompt, 1, point))
  <1>1. path = "batched" /\ req[s].pos < Len(req[s].prompt)
    BY DEF PrefillBatched
  <1>2. end = Len(req[s].prompt) - 0
    BY <1>1 DEF Passes
  <1>3. /\ point = ((end - 1) \div Boundary) * Boundary
        /\ req[s].pos < point /\ point <= req'[s].pos /\ point >= MinMatch /\ req[s] # None
    BY DEF Passes
  <1>4. req[s].pos \in Nat /\ Len(req[s].prompt) \in Nat
    BY <1>3, RequestIs, PromptIs DEF IInv
  <1>5. end = Len(req[s].prompt) /\ end \in Nat \ {0}
    BY <1>1, <1>2, <1>4
  <1> PICK q : q = (end - 1) \div Boundary
    OBVIOUS
  <1>6. q \in Nat /\ point = q * Boundary /\ point \in Nat /\ point < end
    BY <1>3, <1>5, LastBoundary
  <1> PICK n : n = SegmentEnd(req[s].pos, Len(req[s].prompt))
    OBVIOUS
  <1>7. /\ n \in Nat /\ Prefills(s, n) /\ Good(store')
        /\ n < Len(req[s].prompt) /\ n >= MinMatch => Has(store', SubSeq(req[s].prompt, 1, n))
    BY PrefillBatchedIs
  <1>8. req'[s].pos = n
    BY <1>4, <1>7, FeedKeeps DEF IInv, Prefills
  <1> PICK grid : grid = (req[s].pos \div Boundary + 1) * Boundary
    OBVIOUS
  <1>9. grid \in Nat /\ grid <= point
    <2>1. Boundary \in Nat \ {0} /\ req[s].pos < q * Boundary
      BY <1>3, <1>6, WidthAssumption
    <2> QED
      BY <1>4, <1>6, <2>1, NextMultiple, NoneBetween
  <1>10. n = Least(end, grid)
    BY <1>5 DEF SegmentEnd
  <1>11. n = grid
    BY <1>5, <1>6, <1>9, <1>10 DEF Least
  <1>12. n = point
    <2>1. point <= n
      BY <1>3, <1>8
    <2> QED
      BY <1>6, <1>9, <1>11, <2>1
  <1> QED
    BY <1>3, <1>5, <1>6, <1>7, <1>12

\* So does every step that passes it.
LEMMA PassesKeeps ==
    ASSUME IInv, Next, NEW s \in Slot, NEW end, NEW point, Passes(s, end, point)
    PROVE  SubSeq(req[s].prompt, 1, point) \in Keys(store')
  <1>1. req[s] # None /\ path # "chunked" /\ req'[s].prompt = req[s].prompt
    BY DEF Passes
  <1>2. req'[s] # None
    <2>1. req[s].prompt \in Prompts
      BY <1>1, RequestIs DEF IInv
    <2>2. req[s].prompt # <<>>
      BY <2>1, PromptAssumption
    <2> QED
      BY <1>1, <2>2 DEF None
  <1>3. req'[s] # req[s]
    <2>1. req[s].pos \in Nat /\ req[s].prompt \in Prompts
      BY <1>1, RequestIs DEF IInv
    <2>2. Len(req[s].prompt) \in Nat /\ Len(req[s].prompt) > 0
      BY <2>1, PromptIs
    <2>3. end \in Nat
      BY <2>2 DEF Passes
    <2>4. point \in Int
      BY <2>3, PointIsInt DEF Passes
    <2>5. ~(req[s].pos < point /\ point <= req[s].pos)
      BY <2>1, <2>4
    <2>6. req[s].pos < point /\ point <= req'[s].pos
      BY DEF Passes
    <2> QED
      BY <2>5, <2>6
  <1>4. PrefillOffload(s) \/ PrefillBatched(s)
    <2>1. ~PrefillChunk(s)
      BY <1>1 DEF PrefillChunk
    <2>2. \A p \in Prompts : ~Admit(s, p)
      BY <1>1 DEF Admit
    <2> QED
      BY <1>2, <1>3, <2>1, <2>2, WhoChanges
  <1>5. Good(store') /\ Has(store', SubSeq(req[s].prompt, 1, point))
    BY <1>4, OffloadPasses, BatchedPasses
  <1>6. DOMAIN store'.entries = 1..Len(store'.entries)
    <2>1. store'.entries \in Seq(Snapshot)
      BY <1>5 DEF Good, Orderly, Store
    <2> QED
      BY <2>1
  <1>7. PICK i \in 1..Len(store'.entries) :
           store'.entries[i].tokens = SubSeq(req[s].prompt, 1, point)
    BY <1>5 DEF Has
  <1> QED
    BY <1>6, <1>7, Zenon DEF Keys

\* After the prefill of an offloading scheduler (offload_prefill_plan) and of a batching one
\* (_batch_admit) the last boundary inside the prompt can be restored, whatever the budget made
\* the store give up for it.
THEOREM NextTurnRestores == Spec => RestorePointKept
  <1>1. IInv /\ [Next]_vars =>
          [\A s \in Slot :
              LET r     == req[s]
                  end   == Len(r.prompt) - (IF path = "batched" THEN 0 ELSE 1)
                  point == ((end - 1) \div Boundary) * Boundary
              IN  /\ path # "chunked" /\ r # None /\ req'[s].prompt = r.prompt
                  /\ r.pos < point /\ point <= req'[s].pos
                  /\ point >= MinMatch /\ (end % Boundary # 0 \/ path = "batched")
                  => SubSeq(r.prompt, 1, point) \in Keys(store')]_vars
    <2>1. ASSUME IInv, Next, NEW s \in Slot, NEW end, NEW point
          PROVE  Passes(s, end, point) => SubSeq(req[s].prompt, 1, point) \in Keys(store')
      BY <2>1, PassesKeeps
    <2> QED
      BY <2>1, Zenon DEF Passes
  <1> QED
    BY <1>1, Inductive, PTL DEF Spec, RestorePointKept

\* Only _maybe_rebalance() makes the loop rest.
LEMMA WhoRests ==
    ASSUME IInv, Next, rested', ~rested
    PROVE  Rest
  <1>1. \A total \in Totals : ~Resize(total)
    BY DEF Resize
  <1>2. \A s \in Slot, p \in Prompts : ~Admit(s, p)
    BY DEF Admit
  <1>3. \A s \in Slot : ~PrefillOffload(s) /\ ~PrefillBatched(s) /\ ~PrefillChunk(s)
    BY DEF PrefillOffload, PrefillBatched, PrefillChunk
  <1>4. \A s \in Slot : ~Finish(s) /\ ~Abort(s) /\ ~Fail(s)
    BY DEF Finish, Abort, Fail, Ends
  <1> QED
    BY <1>1, <1>2, <1>3, <1>4 DEF Next

\* rebalance() spreads what there is: no slot is lost unless every layer holds all experts,
\* nobody falls below the floor, and more misses never earn fewer slots.
THEOREM RebalanceIsFair == Spec => SharesSane
  <1>1. IInv /\ [Next]_vars =>
          [rested' /\ ~rested =>
              LET total == SumFunction(slots)
                  low   == Least(Floor, total \div NumLayers)
              IN  /\ \/ SumFunction(slots') = total
                     \/ SumFunction(slots') < total /\ \A l \in Layer : slots'[l] = NumExperts
                  /\ \A l \in Layer : slots'[l] >= low \/ slots'[l] = NumExperts
                  /\ slots' # slots => \A l \in Layer : slots'[l] <= NumExperts
                  /\ slots' # slots =>
                       \A l, m \in Layer : misses[l] > misses[m] => slots'[l] >= slots'[m]]_vars
    <2> SUFFICES ASSUME IInv, Next, rested', ~rested
                 PROVE  LET total == SumFunction(slots)
                            low   == Least(Floor, total \div NumLayers)
                        IN  /\ \/ SumFunction(slots') = total
                               \/ SumFunction(slots') < total /\ \A l \in Layer : slots'[l] = NumExperts
                            /\ \A l \in Layer : slots'[l] >= low \/ slots'[l] = NumExperts
                            /\ slots' # slots => \A l \in Layer : slots'[l] <= NumExperts
                            /\ slots' # slots =>
                                 \A l, m \in Layer : misses[l] > misses[m] => slots'[l] >= slots'[m]
      OBVIOUS
    <2>1. Rest
      BY WhoRests
    <2>2. slots \in [Layer -> Nat \ {0}] /\ misses \in [Layer -> Nat]
      BY MissesAre DEF IInv
    <2>3. slots' \in [Layer -> Nat \ {0}]
      BY <2>1, RestShares DEF IInv
    <2>4. SumFunction(slots) = SumOn(slots, Layer) /\ SumFunction(slots') = SumOn(slots', Layer)
      <3>1. DOMAIN slots = Layer /\ DOMAIN slots' = Layer
        BY <2>2, <2>3
      <3> QED
        BY <3>1 DEF SumFunction, SumOn
    <2>5. Least(Floor, SumFunction(slots) \div NumLayers) = Low(slots) /\ Low(slots) \in Nat
      BY <2>2, <2>4, LowIs DEF Low
    <2>6. CASE slots' = slots
      <3>1. \A l \in Layer : slots'[l] >= Low(slots) \/ slots'[l] = NumExperts
        BY <2>2, <2>5, <2>6 DEF IInv, Floored
      <3> QED
        BY <2>4, <2>5, <2>6, <3>1
    <2>7. CASE slots' # slots
      <3>1. misses # NoMisses /\ slots' = Rebalanced(slots, misses, Floor, NumExperts)
        BY <2>1, <2>7 DEF Rest
      <3>2. PICK s : slots' = s.target /\ Fair(s, slots, misses) /\ Done(s)
        BY <2>2, <3>1, RebalancedIs
      <3>3. \A l \in Layer : slots'[l] <= NumExperts /\ slots'[l] \in Nat /\ NumExperts \in Nat
        BY <2>3, <3>2, LayerAssumption DEF Done
      <3>4. \/ SumOn(slots', Layer) = SumOn(slots, Layer)
            \/ SumOn(slots', Layer) < SumOn(slots, Layer) /\ \A l \in Layer : slots'[l] = NumExperts
        BY <3>2 DEF Fair
      <3>5. \A l \in Layer : slots'[l] >= Low(slots) \/ slots'[l] = NumExperts
        <4>1. \A l \in Layer : Low(slots) <= slots'[l] \/ NumExperts <= slots'[l]
          BY <3>2 DEF Fair
        <4> QED
          BY <2>5, <3>3, <4>1
      <3>6. ASSUME NEW l \in Layer, NEW m \in Layer, misses[l] > misses[m]
            PROVE  slots'[l] >= slots'[m]
        <4>1. CASE m \in s.capped
          <5>1. NumExperts <= slots'[l]
            BY <3>2, <3>6, <4>1 DEF Fair
          <5> QED
            BY <3>3, <5>1
        <4>2. CASE l \in s.capped
          <5>1. slots'[l] = NumExperts
            BY <3>2, <4>2 DEF Fair
          <5> QED
            BY <3>3, <5>1
        <4>3. CASE l \notin s.capped /\ m \notin s.capped
          <5>1. slots'[m] <= slots'[l]
            BY <3>2, <3>6, <4>3 DEF Fair
          <5> QED
            BY <3>3, <5>1
        <4> QED
          BY <4>1, <4>2, <4>3
      <3>7. \A l, m \in Layer : misses[l] > misses[m] => slots'[l] >= slots'[m]
        BY <3>6
      <3> QED
        BY <2>4, <2>5, <3>3, <3>4, <3>5, <3>7
    <2> QED
      BY <2>6, <2>7
  <1> QED
    BY <1>1, Inductive, PTL DEF Spec, SharesSane
=============================================================================
