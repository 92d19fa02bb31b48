--------------------------- MODULE ExpertTableProofs ---------------------------
(***************************************************************************)
(* Lemmas about the slot cache of one layer of ExpertOffload: what the     *)
(* ranks of a recency order are, and what an access and a resize keep.     *)
(***************************************************************************)
EXTENDS ExpertOffload, FiniteSetTheorems, TLAPS

\* Sets of experts are finite.
LEMMA ExpertsFinite ==
    ASSUME NEW T \in SUBSET Expert
    PROVE  IsFiniteSet(T) /\ Cardinality(T) \in Nat
<1>1. NumExperts - 1 \in Int
    BY ShapeAssumption, SMT
<1>2. IsFiniteSet(Expert)
    BY <1>1, FS_Interval DEF Expert
<1> QED
    BY <1>2, FS_Subset, FS_CardinalityType

\* A number of items in Nat that are divided by n: the quotient is at least k.
LEMMA DivAtLeast ==
    ASSUME NEW n \in Nat \ {0}, NEW k \in Nat, NEW b \in Nat, b >= n * k
    PROVE  b \div n \in Nat /\ b \div n >= k
<1> DEFINE q == b \div n
<1>1. q \in Nat /\ b < n * q + n
    BY SMT
<1>2. n * k < n * (q + 1)
    BY <1>1, SMT
<1>3. k < q + 1
    BY <1>1, <1>2, SMT
<1> QED
    BY <1>1, <1>3, SMT

\* Two numbers less than n apart have different remainders.
LEMMA ModApart ==
    ASSUME NEW n \in Nat \ {0}, NEW x \in Nat, NEW y \in Nat,
           x % n = y % n, x < y + n, y < x + n
    PROVE  x = y
<1> DEFINE p == x \div n  q == y \div n
<1>1. p \in Nat /\ q \in Nat /\ x = n * p + (x % n) /\ y = n * q + (y % n)
    BY SMT
<1>2. n * p < n * (q + 1) /\ n * q < n * (p + 1)
    BY <1>1, SMT
<1>3. p = q
    BY <1>1, <1>2, SMT
<1> QED
    BY <1>1, <1>3, SMT

\* In an order of the experts of T, an expert has as many before it as its rank says:
\* ranks start at 0, no two are equal, none is left out, and After counts from the end.
LEMMA Ranks ==
    ASSUME NEW T \in SUBSET Expert, NEW r \in Orders(T)
    PROVE  /\ \A e \in T : /\ Before(r, e) \in 0..(Cardinality(T) - 1)
                           /\ After(r, e) = Cardinality(T) - 1 - Before(r, e)
           /\ \A e, f \in T : <<e, f>> \in r <=> Before(r, e) < Before(r, f)
           /\ \A e, f \in T : Before(r, e) = Before(r, f) => e = f
           /\ \A i \in 0..(Cardinality(T) - 1) : \E e \in T : Before(r, e) = i
<1> DEFINE n == Cardinality(T)
           below(e) == {x \in Expert : <<x, e>> \in r}
           above(e) == {x \in Expert : <<e, x>> \in r}
<1>0. /\ r \subseteq T \X T
      /\ \A a, b \in T : <<a, b>> \in r <=> (a # b /\ <<b, a>> \notin r)
      /\ \A a, b, d \in T : <<a, b>> \in r /\ <<b, d>> \in r => <<a, d>> \in r
    BY DEF Orders
<1>1. ASSUME NEW e \in T
      PROVE  /\ below(e) \cup above(e) = T \ {e} /\ below(e) \cap above(e) = {}
             /\ below(e) \in SUBSET Expert /\ above(e) \in SUBSET Expert
  <2>1. below(e) \subseteq T \ {e} /\ above(e) \subseteq T \ {e}
      BY <1>0
  <2>2. T \ {e} \subseteq below(e) \cup above(e)
      BY <1>0
  <2>3. below(e) \cap above(e) = {}
      BY <1>0
  <2> QED
      BY <2>1, <2>2, <2>3
<1>2. ASSUME NEW e \in T
      PROVE  /\ Before(r, e) \in Nat /\ After(r, e) \in Nat
             /\ Before(r, e) + After(r, e) = n - 1
  <2>1. IsFiniteSet(below(e)) /\ IsFiniteSet(above(e)) /\ IsFiniteSet(T)
      BY <1>1, ExpertsFinite
  <2>2. Cardinality(below(e)) \in Nat /\ Cardinality(above(e)) \in Nat /\ n \in Nat
      BY <1>1, ExpertsFinite
  <2>3. Cardinality(T \ {e}) = n - 1
      BY <2>1, FS_RemoveElement
  <2>4. Cardinality(below(e) \cup above(e))
           = Cardinality(below(e)) + Cardinality(above(e))
                - Cardinality(below(e) \cap above(e))
      BY <2>1, FS_Union
  <2>5. Cardinality(below(e) \cap above(e)) = 0
      BY <1>1, FS_EmptySet
  <2>6. below(e) \cup above(e) = T \ {e}
      BY <1>1
  <2>7. Cardinality(below(e) \cup above(e)) = n - 1
      BY <2>3, <2>6, Zenon
  <2> HIDE DEF below, above, n
  <2>8. Cardinality(below(e)) + Cardinality(above(e)) = n - 1
      BY <2>2, <2>4, <2>5, <2>7
  <2> QED
      BY <2>2, <2>8 DEF Before, After, below, above
<1>3. ASSUME NEW e \in T, NEW f \in T, <<e, f>> \in r
      PROVE  Before(r, e) < Before(r, f)
  <2>1. below(e) \cup {e} \subseteq below(f) /\ e \notin below(e)
      BY <1>0, <1>3
  <2>2. IsFiniteSet(below(e)) /\ IsFiniteSet(below(f))
      BY <1>1, ExpertsFinite
  <2>3. Cardinality(below(e) \cup {e}) = Cardinality(below(e)) + 1
      BY <2>1, <2>2, FS_AddElement
  <2>4. Cardinality(below(e) \cup {e}) <= Cardinality(below(f))
      BY <2>1, <2>2, FS_Subset
  <2>5. Cardinality(below(e)) \in Nat /\ Cardinality(below(f)) \in Nat
      BY <1>1, ExpertsFinite
  <2> QED
      BY <2>3, <2>4, <2>5 DEF Before
<1>4. ASSUME NEW e \in T, NEW f \in T, Before(r, e) = Before(r, f)
      PROVE  e = f
  <2>1. SUFFICES ASSUME e # f PROVE FALSE
      OBVIOUS
  <2>2. <<e, f>> \in r \/ <<f, e>> \in r
      BY <1>0, <2>1
  <2>3. Before(r, e) < Before(r, f) \/ Before(r, f) < Before(r, e)
      BY <2>2, <1>3
  <2> QED
      BY <2>3, <1>2, <1>4
<1>5. ASSUME NEW e \in T, NEW f \in T, Before(r, e) < Before(r, f)
      PROVE  <<e, f>> \in r
  <2>1. e # f
      BY <1>2, <1>5
  <2>2. <<f, e>> \in r => Before(r, f) < Before(r, e)
      BY <1>3
  <2>3. <<f, e>> \notin r
      BY <2>2, <1>2, <1>5
  <2> QED
      BY <1>0, <2>1, <2>3
<1>6. n \in Nat /\ IsFiniteSet(T)
    BY ExpertsFinite
<1>7. \A e \in T : Before(r, e) \in 0..(n - 1)
    BY <1>2, <1>6
<1>8. \A i \in 0..(n - 1) : \E e \in T : Before(r, e) = i
  <2> DEFINE g == [e \in T |-> Before(r, e)]
  <2>1. g \in Injection(T, 0..(n - 1))
      BY <1>4, <1>7 DEF Injection, IsInjective
  <2>2. IsFiniteSet(0..(n - 1)) /\ Cardinality(0..(n - 1)) = n
      BY <1>6, FS_Interval
  <2>3. g \in Surjection(T, 0..(n - 1))
      BY <2>1, <2>2, FS_Injection
  <2> QED
      BY <2>3 DEF Surjection
<1> QED
    BY <1>2, <1>3, <1>4, <1>5, <1>6, <1>7, <1>8

\* As many experts as s of an order have fewer than s after them, or all of them.
LEMMA MostRecent ==
    ASSUME NEW T \in SUBSET Expert, NEW r \in Orders(T), NEW s \in Nat \ {0}
    PROVE  LET recent == {e \in T : After(r, e) < s}
           IN  IF Cardinality(T) <= s THEN recent = T ELSE Cardinality(recent) = s
<1> DEFINE n == Cardinality(T)
           recent == {e \in T : After(r, e) < s}
<1>1. n \in Nat
    BY ExpertsFinite
<1>2. /\ \A e \in T : Before(r, e) \in 0..(n - 1) /\ After(r, e) = n - 1 - Before(r, e)
      /\ \A e, f \in T : Before(r, e) = Before(r, f) => e = f
      /\ \A i \in 0..(n - 1) : \E e \in T : Before(r, e) = i
    BY Ranks
<1> HIDE DEF n
<1>3. ASSUME n <= s PROVE recent = T
  <2>1. ASSUME NEW e \in T PROVE After(r, e) < s
      BY <1>1, <1>2, <1>3
  <2> QED
      BY <2>1
<1>4. ASSUME n > s PROVE Cardinality(recent) = s
  <2> DEFINE g == [e \in recent |-> After(r, e)]
  <2>1. ASSUME NEW e \in recent PROVE e \in T /\ After(r, e) \in 0..(s - 1)
    <3>1. /\ e \in T /\ After(r, e) < s
          /\ Before(r, e) \in 0..(n - 1) /\ After(r, e) = n - 1 - Before(r, e)
        BY <1>2
    <3> QED
        BY <3>1, <1>1
  <2>2. \A e, f \in recent : After(r, e) = After(r, f) => e = f
    <3>1. SUFFICES ASSUME NEW e \in recent, NEW f \in recent, After(r, e) = After(r, f)
                   PROVE  e = f
        OBVIOUS
    <3>2. Before(r, e) = Before(r, f)
        BY <2>1, <3>1, <1>1, <1>2
    <3> QED
        BY <2>1, <3>2, <1>2
  <2>3. \A i \in 0..(s - 1) : \E e \in recent : After(r, e) = i
    <3>1. SUFFICES ASSUME NEW i \in 0..(s - 1)
                   PROVE  \E e \in recent : After(r, e) = i
        OBVIOUS
    <3>2. n - 1 - i \in 0..(n - 1)
        BY <1>1, <1>4
    <3>3. PICK e \in T : Before(r, e) = n - 1 - i
        BY <3>2, <1>2
    <3>4. After(r, e) = i
        BY <3>2, <3>3, <1>1, <1>2
    <3>5. e \in recent
        BY <3>3, <3>4
    <3> QED
        BY <3>4, <3>5
  <2> HIDE DEF recent
  <2>4. g \in Injection(recent, 0..(s - 1)) /\ g \in Surjection(recent, 0..(s - 1))
      BY <2>1, <2>2, <2>3 DEF Injection, Surjection, IsInjective
  <2>5. IsFiniteSet(0..(s - 1)) /\ Cardinality(0..(s - 1)) = s
      BY FS_Interval
  <2> QED
      BY <2>4, <2>5, FS_Injection
<1>5. IF n <= s THEN recent = T ELSE Cardinality(recent) = s
    BY <1>1, <1>3, <1>4
<1> QED
    BY <1>5 DEF n

-----------------------------------------------------------------------------
(* The order after an access *)

\* The order in which a batch S is looked up and assigned: it matters among the hits
\* and among the misses only.
BatchOrder(c, S, ord) ==
    /\ ord \cap ((S \cap Resident(c)) \X (S \cap Resident(c)))
          \in Orders(S \cap Resident(c))
    /\ ord \cap ((S \ Resident(c)) \X (S \ Resident(c))) \in Orders(S \ Resident(c))

\* After an access the experts of the table and of the batch are ordered: first what was
\* not looked up, then the hits, then the misses.
LEMMA TouchedOrder ==
    ASSUME NEW c, Resident(c) \subseteq Expert, c.older \in Orders(Resident(c)),
           NEW S \in SUBSET Expert, NEW ord, BatchOrder(c, S, ord)
    PROVE  /\ Touched(c, S, ord) \in Orders(Resident(c) \cup S)
           /\ \A e \in Resident(c), f \in S \ Resident(c) : <<e, f>> \in Touched(c, S, ord)
           /\ \A e \in Resident(c) \ S, f \in S : <<e, f>> \in Touched(c, S, ord)
<1> DEFINE R == Resident(c)
           rest == R \ S  hits == S \cap R  misses == S \ R
           r == Touched(c, S, ord)
           below(a, b) ==
              \/ a \in rest /\ b \in S
              \/ a \in hits /\ b \in misses
              \/ a \in rest /\ b \in rest /\ <<a, b>> \in c.older
              \/ a \in hits /\ b \in hits /\ <<a, b>> \in ord
              \/ a \in misses /\ b \in misses /\ <<a, b>> \in ord
<1>1. r = (rest \X S) \cup (hits \X misses) \cup (c.older \cap (rest \X rest))
            \cup (ord \cap ((hits \X hits) \cup (misses \X misses)))
    BY DEF Touched, Ordered
<1>2. \A a, b : <<a, b>> \in r <=> below(a, b)
    BY <1>1
<1>3. r \subseteq (R \cup S) \X (R \cup S)
    BY <1>1
<1>4. /\ \A a, b \in R : <<a, b>> \in c.older <=> (a # b /\ <<b, a>> \notin c.older)
      /\ \A a, b, d \in R :
            <<a, b>> \in c.older /\ <<b, d>> \in c.older => <<a, d>> \in c.older
    BY DEF Orders
<1>5. /\ \A a, b \in hits : <<a, b>> \in ord <=> (a # b /\ <<b, a>> \notin ord)
      /\ \A a, b, d \in hits : <<a, b>> \in ord /\ <<b, d>> \in ord => <<a, d>> \in ord
    BY DEF Orders, BatchOrder
<1>6. /\ \A a, b \in misses : <<a, b>> \in ord <=> (a # b /\ <<b, a>> \notin ord)
      /\ \A a, b, d \in misses : <<a, b>> \in ord /\ <<b, d>> \in ord => <<a, d>> \in ord
    BY DEF Orders, BatchOrder
<1>7. \A a, b \in R \cup S : below(a, b) <=> (a # b /\ ~below(b, a))
    BY <1>4, <1>5, <1>6
<1>8. \A a, b, d \in R \cup S : below(a, b) /\ below(b, d) => below(a, d)
    BY <1>4, <1>5, <1>6
<1> HIDE DEF below
<1>9. r \in Orders(R \cup S)
    BY <1>2, <1>3, <1>7, <1>8 DEF Orders
<1> USE DEF below
<1>10. \A e \in R, f \in misses : below(e, f)
    OBVIOUS
<1>11. \A e \in rest, f \in S : below(e, f)
    OBVIOUS
<1> QED
    BY <1>2, <1>9, <1>10, <1>11

-----------------------------------------------------------------------------
(* The table *)

\* The residents are ordered and fit; each has a slot of its own, and together they have
\* the first ones (the free slots are handed out in ascending order).
Table(c) ==
    /\ CacheType(c)
    /\ c.older \in Orders(Resident(c))
    /\ Cardinality(Resident(c)) <= c.slots
    /\ \A e, f \in Resident(c) : c.slotOf[e] = c.slotOf[f] => e = f
    /\ \A e \in Resident(c) : c.slotOf[e] < Cardinality(Resident(c))

\* After an access the residents have the first ranks, in their own order or another.
LEMMA ResidentRanks ==
    ASSUME NEW c, Table(c), NEW S \in SUBSET Expert, NEW ord, BatchOrder(c, S, ord)
    PROVE  LET r == Touched(c, S, ord)
               k == Cardinality(Resident(c))
           IN  /\ \A e \in Resident(c) : Before(r, e) \in 0..(k - 1)
               /\ \A e \in S \ Resident(c) : Before(r, e) >= k
               /\ \A i \in 0..(k - 1) : \E e \in Resident(c) : Before(r, e) = i
<1> DEFINE R == Resident(c)
           T == R \cup S
           r == Touched(c, S, ord)
           k == Cardinality(R)
           below(e) == {x \in Expert : <<x, e>> \in r}
<1>0. /\ R \in SUBSET Expert /\ T \in SUBSET Expert /\ c.older \in Orders(R)
    BY DEF Table, CacheType
<1>1. /\ r \in Orders(T)
      /\ \A e \in R, f \in S \ R : <<e, f>> \in r
    BY <1>0, TouchedOrder
<1>2. k \in Nat /\ Cardinality(T) \in Nat /\ k <= Cardinality(T)
    BY <1>0, ExpertsFinite, FS_Subset
<1>3. \A e \in T : Before(r, e) \in 0..(Cardinality(T) - 1)
    BY <1>0, <1>1, Ranks
<1>4. ASSUME NEW e \in R PROVE Before(r, e) \in 0..(k - 1)
  <2>1. below(e) \subseteq R \ {e}
      BY <1>1, <1>4 DEF Orders
  <2>2. IsFiniteSet(R) /\ IsFiniteSet(R \ {e}) /\ Cardinality(R \ {e}) = k - 1
      BY <1>0, ExpertsFinite, FS_RemoveElement
  <2>3. ASSUME NEW A, NEW B, IsFiniteSet(B), A \subseteq B
        PROVE  Cardinality(A) <= Cardinality(B)
      BY <2>3, FS_Subset
  <2>4. Cardinality(below(e)) <= Cardinality(R \ {e})
    <3> HIDE DEF below, R
    <3> QED
        BY <2>1, <2>2, <2>3
  <2>5. Cardinality(below(e)) <= k - 1
      BY <2>2, <2>4
  <2> QED
      BY <2>5, <1>2, <1>3, <1>4 DEF Before
<1>5. ASSUME NEW e \in S \ R PROVE Before(r, e) >= k
  <2>1. R \subseteq below(e) /\ below(e) \in SUBSET Expert
      BY <1>0, <1>1
  <2>2. IsFiniteSet(below(e))
      BY <2>1, ExpertsFinite
  <2> QED
      BY <2>1, <2>2, FS_Subset DEF Before
<1>6. ASSUME NEW i \in 0..(k - 1) PROVE \E e \in R : Before(r, e) = i
  <2>1. i \in 0..(Cardinality(T) - 1)
      BY <1>2
  <2>2. PICK e \in T : Before(r, e) = i
      BY <2>1, <1>0, <1>1, Ranks
  <2>3. e \in R
      BY <2>2, <1>2, <1>5
  <2> QED
      BY <2>2, <2>3
<1> QED
    BY <1>4, <1>5, <1>6

\* A table with a batch in it: the slot of every expert, resident or just assigned.
SlotNow(c, r, e) == IF e \in Resident(c) THEN c.slotOf[e] ELSE SlotFor(c, r, e)

\* assign() walks around the slots: where an expert goes follows from its rank modulo
\* their number.
LEMMA SlotFollowsRank ==
    ASSUME NEW c, Table(c), NEW S \in SUBSET Expert, NEW ord, BatchOrder(c, S, ord),
           NEW e \in Resident(c) \cup S
    PROVE  LET r == Touched(c, S, ord)
               k == Cardinality(Resident(c))
               t == Before(r, e) % c.slots
           IN  /\ t \in Slot(c)
               /\ t < k => \E x \in Resident(c) :
                              Before(r, x) = t /\ SlotNow(c, r, e) = c.slotOf[x]
               /\ t >= k => SlotNow(c, r, e) = t
<1> DEFINE R == Resident(c)
           r == Touched(c, S, ord)
           k == Cardinality(R)
           t == Before(r, e) % c.slots
<1>1. /\ R \in SUBSET Expert /\ R \cup S \in SUBSET Expert /\ c.slots \in Nat \ {0}
      /\ c.older \in Orders(R) /\ k <= c.slots
    BY DEF Table, CacheType
<1>2. k \in Nat /\ Cardinality(R \cup S) \in Nat
    BY <1>1, ExpertsFinite
<1>3. Before(r, e) \in Nat
  <2>1. r \in Orders(R \cup S)
      BY <1>1, TouchedOrder
  <2>2. Before(r, e) \in 0..(Cardinality(R \cup S) - 1)
      BY <1>1, <2>1, Ranks
  <2> QED
      BY <1>2, <2>2
<1>4. t \in Slot(c)
    BY <1>1, <1>3 DEF Slot
<1>5. /\ \A x \in R : Before(r, x) \in 0..(k - 1)
      /\ \A i \in 0..(k - 1) : \E x \in R : Before(r, x) = i
    BY ResidentRanks
<1>6. CASE e \in R
  <2>1. Before(r, e) \in 0..(k - 1)
      BY <1>5, <1>6
  <2>2. Before(r, e) \in Nat /\ Before(r, e) < c.slots
      BY <2>1, <1>1, <1>2
  <2>3. t = Before(r, e)
      BY <2>2, <1>1
  <2>4. t < k
      BY <2>1, <2>3, <1>2
  <2>5. SlotNow(c, r, e) = c.slotOf[e]
      BY <1>6 DEF SlotNow
  <2>6. ~(t >= k)
      BY <2>3, <2>4, <2>2, <1>2
  <2>7. \E x \in R : Before(r, x) = t /\ SlotNow(c, r, e) = c.slotOf[x]
      BY <2>3, <2>5, <1>6
  <2> HIDE DEF t, r, k
  <2>8. /\ t \in Slot(c)
        /\ t < k => \E x \in R : Before(r, x) = t /\ SlotNow(c, r, e) = c.slotOf[x]
        /\ t >= k => SlotNow(c, r, e) = t
      BY <2>6, <2>7, <1>4
  <2> QED
      BY <2>8 DEF t, r, k
<1>7. CASE e \notin R
  <2>1. SlotNow(c, r, e) = SlotFor(c, r, e)
      BY <1>7 DEF SlotNow
  <2>2. ASSUME t < k
        PROVE  \E x \in R : Before(r, x) = t /\ SlotNow(c, r, e) = c.slotOf[x]
    <3>1. t \in 0..(k - 1)
        BY <2>2, <1>4, <1>1, <1>2 DEF Slot
    <3>2. \E x \in R : Before(r, x) = t
        BY <3>1, <1>5
    <3> DEFINE y == CHOOSE x \in R : Before(r, x) = t
    <3>3. y \in R /\ Before(r, y) = t
        BY <3>2
    <3>4. SlotFor(c, r, e) = c.slotOf[y]
        BY <3>2 DEF SlotFor
    <3> QED
        BY <3>3, <3>4, <2>1
  <2>3. ASSUME t >= k PROVE SlotNow(c, r, e) = t
    <3>1. ~\E x \in R : Before(r, x) = t
        BY <2>3, <1>5, <1>2, <1>4, <1>1 DEF Slot
    <3> QED
        BY <3>1, <2>1 DEF SlotFor
  <2> QED
      BY <2>2, <2>3, <1>4
<1> QED
    BY <1>6, <1>7

\* So two experts get one slot only when their ranks agree modulo the number of slots.
LEMMA SameSlotSameRank ==
    ASSUME NEW c, Table(c), NEW S \in SUBSET Expert, NEW ord, BatchOrder(c, S, ord),
           NEW e \in Resident(c) \cup S, NEW f \in Resident(c) \cup S,
           SlotNow(c, Touched(c, S, ord), e) = SlotNow(c, Touched(c, S, ord), f)
    PROVE  Before(Touched(c, S, ord), e) % c.slots = Before(Touched(c, S, ord), f) % c.slots
<1> DEFINE R == Resident(c)
           r == Touched(c, S, ord)
           k == Cardinality(R)
           t(x) == Before(r, x) % c.slots
<1>1. /\ R \in SUBSET Expert /\ c.slots \in Nat \ {0} /\ c.slotOf \in [R -> Slot(c)]
      /\ \A x, y \in R : c.slotOf[x] = c.slotOf[y] => x = y
      /\ \A x \in R : c.slotOf[x] < k
    BY DEF Table, CacheType
<1>2. k \in Nat
    BY <1>1, ExpertsFinite
<1>3. /\ t(e) \in Slot(c)
      /\ t(e) < k => \E x \in R : Before(r, x) = t(e) /\ SlotNow(c, r, e) = c.slotOf[x]
      /\ t(e) >= k => SlotNow(c, r, e) = t(e)
    BY SlotFollowsRank
<1>4. /\ t(f) \in Slot(c)
      /\ t(f) < k => \E x \in R : Before(r, x) = t(f) /\ SlotNow(c, r, f) = c.slotOf[x]
      /\ t(f) >= k => SlotNow(c, r, f) = t(f)
    BY SlotFollowsRank
<1> HIDE DEF t, k, r
<1>5. t(e) \in Nat /\ t(f) \in Nat
    BY <1>1, <1>3, <1>4 DEF Slot
<1>6. SlotNow(c, r, e) = SlotNow(c, r, f)
    BY DEF r
<1>7. t(e) < k /\ t(f) < k => t(e) = t(f)
    BY <1>1, <1>3, <1>4, <1>6
<1>8. t(e) < k /\ t(f) >= k => t(e) = t(f)
    BY <1>1, <1>2, <1>3, <1>4, <1>5, <1>6 DEF Slot
<1>9. t(e) >= k /\ t(f) < k => t(e) = t(f)
    BY <1>1, <1>2, <1>3, <1>4, <1>5, <1>6 DEF Slot
<1>10. t(e) >= k /\ t(f) >= k => t(e) = t(f)
    BY <1>3, <1>4, <1>6
<1> QED
    BY <1>2, <1>5, <1>7, <1>8, <1>9, <1>10 DEF t, r

\* Of the table and a batch, what is still in the table when the batch has been assigned.
Stay(c, S, ord) ==
    {e \in Resident(c) \cup S : After(Touched(c, S, ord), e) < c.slots}

LEMMA StayCount ==
    ASSUME NEW c, Table(c), NEW S \in SUBSET Expert, NEW ord, BatchOrder(c, S, ord)
    PROVE  LET T    == Resident(c) \cup S
               stay == Stay(c, S, ord)
           IN  IF Cardinality(T) <= c.slots THEN stay = T ELSE Cardinality(stay) = c.slots
<1> DEFINE T == Resident(c) \cup S
           r == Touched(c, S, ord)
<1>1. /\ T \in SUBSET Expert /\ c.slots \in Nat \ {0} /\ Resident(c) \subseteq Expert
      /\ c.older \in Orders(Resident(c))
    BY DEF Table, CacheType
<1>2. r \in Orders(T)
    BY <1>1, TouchedOrder
<1> HIDE DEF T, r
<1>3. LET recent == {e \in T : After(r, e) < c.slots}
      IN  IF Cardinality(T) <= c.slots THEN recent = T ELSE Cardinality(recent) = c.slots
    BY <1>1, <1>2, MostRecent
<1> QED
    BY <1>3 DEF Stay, T, r

\* What stays has slots of its own, and the first ones.
LEMMA StaySlots ==
    ASSUME NEW c, Table(c), NEW S \in SUBSET Expert, NEW ord, BatchOrder(c, S, ord)
    PROVE  LET r == Touched(c, S, ord)
               stay == Stay(c, S, ord)
           IN  /\ \A e \in Resident(c) \cup S : SlotNow(c, r, e) \in Slot(c)
               /\ \A e, f \in stay : SlotNow(c, r, e) = SlotNow(c, r, f) => e = f
               /\ \A e \in stay : SlotNow(c, r, e) < Cardinality(stay)
               /\ Cardinality(stay) <= c.slots
<1> DEFINE R == Resident(c)
           T == R \cup S
           n == Cardinality(T)
           k == Cardinality(R)
           r == Touched(c, S, ord)
           stay == Stay(c, S, ord)
           t(e) == Before(r, e) % c.slots
<1>1. /\ T \in SUBSET Expert /\ c.slots \in Nat \ {0} /\ R \subseteq Expert
      /\ c.older \in Orders(R) /\ k <= c.slots
      /\ c.slotOf \in [R -> Slot(c)] /\ \A e \in R : c.slotOf[e] < k
    BY DEF Table, CacheType
<1>2. r \in Orders(T)
    BY <1>1, TouchedOrder
<1>3. n \in Nat /\ k \in Nat /\ k <= n
    BY <1>1, ExpertsFinite, FS_Subset
<1>4. /\ \A e \in T : Before(r, e) \in 0..(n - 1) /\ After(r, e) = n - 1 - Before(r, e)
      /\ \A e, f \in T : Before(r, e) = Before(r, f) => e = f
    BY <1>1, <1>2, Ranks
<1>5. stay = {e \in T : After(r, e) < c.slots}
    BY DEF Stay
<1>6. \A e \in T :
         /\ t(e) \in Slot(c)
         /\ t(e) < k => \E x \in R : SlotNow(c, r, e) = c.slotOf[x]
         /\ t(e) >= k => SlotNow(c, r, e) = t(e)
    BY SlotFollowsRank
<1>7. \A e, f \in T : SlotNow(c, r, e) = SlotNow(c, r, f) => t(e) = t(f)
    BY SameSlotSameRank
<1>8. IF n <= c.slots THEN stay = T ELSE Cardinality(stay) = c.slots
    BY StayCount
<1> HIDE DEF R, T, n, k, r, stay, t
<1>9. ASSUME NEW e \in T PROVE SlotNow(c, r, e) \in Slot(c)
  <2>1. t(e) \in Nat /\ t(e) \in Slot(c)
      BY <1>1, <1>6 DEF Slot
  <2>2. CASE t(e) < k
      BY <2>2, <1>1, <1>6
  <2>3. CASE t(e) >= k
      BY <2>1, <2>3, <1>6
  <2> QED
      BY <2>1, <2>2, <2>3, <1>3
<1>10. ASSUME NEW e \in stay, NEW f \in stay, SlotNow(c, r, e) = SlotNow(c, r, f)
       PROVE  e = f
  <2>1. e \in T /\ f \in T /\ t(e) = t(f)
      BY <1>5, <1>7, <1>10
  <2>2. /\ Before(r, e) \in Nat /\ Before(r, f) \in Nat
        /\ Before(r, e) < Before(r, f) + c.slots /\ Before(r, f) < Before(r, e) + c.slots
      BY <1>1, <1>3, <1>4, <1>5, <2>1
  <2>3. Before(r, e) = Before(r, f)
      BY <2>1, <2>2, <1>1, ModApart DEF t
  <2> QED
      BY <2>1, <2>3, <1>4
<1>11. Cardinality(stay) <= c.slots
    BY <1>1, <1>3, <1>8 DEF n
<1>12. ASSUME NEW e \in stay PROVE SlotNow(c, r, e) < Cardinality(stay)
  <2>1. e \in T /\ SlotNow(c, r, e) \in Slot(c)
      BY <1>5, <1>9
  <2>2. CASE n <= c.slots
    <3>1. Before(r, e) \in Nat /\ Before(r, e) < n /\ Before(r, e) < c.slots
        BY <2>1, <2>2, <1>1, <1>3, <1>4
    <3>2. t(e) = Before(r, e)
        BY <3>1, <1>1 DEF t
    <3>3. t(e) < k => SlotNow(c, r, e) < k
        BY <2>1, <1>1, <1>6
    <3>4. t(e) >= k => SlotNow(c, r, e) = Before(r, e)
        BY <2>1, <3>2, <1>6
    <3>5. SlotNow(c, r, e) \in Nat
        BY <2>1, <1>1 DEF Slot
    <3>6. SlotNow(c, r, e) < n
        BY <3>1, <3>2, <3>3, <3>4, <3>5, <1>3
    <3> QED
        BY <3>6, <2>2, <1>8 DEF n
  <2>3. CASE ~(n <= c.slots)
      BY <2>1, <2>3, <1>1, <1>8 DEF Slot
  <2> QED
      BY <2>2, <2>3
<1> QED
    BY <1>9, <1>10, <1>11, <1>12 DEF T, R, r, stay

\* A batch that fits stays, its misses stay when they fit, and the slot of an expert that
\* does not stay goes to a miss.
LEMMA BatchStays ==
    ASSUME NEW c, Table(c), NEW S \in SUBSET Expert, NEW ord, BatchOrder(c, S, ord)
    PROVE  LET r == Touched(c, S, ord)
               stay == Stay(c, S, ord)
               misses == S \ Resident(c)
           IN  /\ Cardinality(S) <= c.slots => S \subseteq stay
               /\ Cardinality(misses) <= c.slots => misses \subseteq stay
               /\ \A x \in Resident(c) \ stay :
                     \E e \in misses : SlotFor(c, r, e) = c.slotOf[x]
<1> DEFINE R == Resident(c)
           T == R \cup S
           n == Cardinality(T)
           k == Cardinality(R)
           r == Touched(c, S, ord)
           stay == Stay(c, S, ord)
           misses == S \ R
           above(e) == {x \in Expert : <<e, x>> \in r}
<1>1. /\ T \in SUBSET Expert /\ c.slots \in Nat \ {0} /\ R \subseteq Expert
      /\ c.older \in Orders(R) /\ k <= c.slots
    BY DEF Table, CacheType
<1>2. /\ r \in Orders(T)
      /\ \A e \in R, f \in misses : <<e, f>> \in r
      /\ \A e \in R \ S, f \in S : <<e, f>> \in r
    BY <1>1, TouchedOrder
<1>3. /\ r \subseteq T \X T
      /\ \A a, b \in T : <<a, b>> \in r <=> (a # b /\ <<b, a>> \notin r)
    BY <1>2 DEF Orders
<1>4. n \in Nat /\ k \in Nat
    BY <1>1, ExpertsFinite
<1>5. stay = {e \in T : After(r, e) < c.slots}
    BY DEF Stay
<1>6. ASSUME NEW B \in SUBSET T, NEW e \in B, above(e) \subseteq B \ {e},
             Cardinality(B) <= c.slots
      PROVE  e \in stay
  <2>1. B \in SUBSET Expert
      BY <1>1
  <2>2. IsFiniteSet(B) /\ IsFiniteSet(B \ {e}) /\ Cardinality(B \ {e}) = Cardinality(B) - 1
      BY <2>1, ExpertsFinite, FS_RemoveElement
  <2> HIDE DEF above
  <2>3. Cardinality(above(e)) <= Cardinality(B \ {e})
      BY <1>6, <2>2, FS_Subset
  <2>4. Cardinality(B) \in Nat /\ Cardinality(above(e)) \in Nat
      BY <2>1, <1>6, ExpertsFinite
  <2>5. Cardinality(above(e)) < c.slots
      BY <2>2, <2>3, <2>4, <1>1, <1>6
  <2> QED
      BY <2>5, <1>5 DEF After, above
<1>7. ASSUME Cardinality(S) <= c.slots PROVE S \subseteq stay
  <2>1. ASSUME NEW e \in S PROVE above(e) \subseteq S \ {e}
      BY <1>2, <1>3
  <2> QED
      BY <2>1, <1>6, <1>7
<1>8. ASSUME Cardinality(misses) <= c.slots PROVE misses \subseteq stay
  <2>1. ASSUME NEW e \in misses PROVE above(e) \subseteq misses \ {e}
      BY <1>2, <1>3
  <2> QED
      BY <2>1, <1>6, <1>8
<1>9. ASSUME NEW x \in R \ stay PROVE \E e \in misses : SlotFor(c, r, e) = c.slotOf[x]
  <2>1. /\ \A e \in T : Before(r, e) \in 0..(n - 1) /\ After(r, e) = n - 1 - Before(r, e)
        /\ \A e, f \in T : Before(r, e) = Before(r, f) => e = f
        /\ \A i \in 0..(n - 1) : \E e \in T : Before(r, e) = i
    <3>1. T \in SUBSET Expert /\ r \in Orders(T)
        BY <1>1, <1>2
    <3> HIDE DEF T, r
    <3> QED
        BY <3>1, Ranks
  <2>2. \A e \in R : Before(r, e) \in 0..(k - 1)
      BY ResidentRanks
  <2> DEFINE i == Before(r, x)
  <2>3. i \in Nat /\ i < k /\ i < c.slots /\ i + c.slots \in 0..(n - 1)
    <3>1. /\ x \in T /\ x \in R /\ ~(After(r, x) < c.slots)
          /\ After(r, x) = n - 1 - i /\ i \in 0..(k - 1)
        BY <1>5, <1>9, <2>1, <2>2
    <3> HIDE DEF n, k, i
    <3> QED
        BY <3>1, <1>1, <1>4
  <2>4. PICK e \in T : Before(r, e) = i + c.slots
      BY <2>1, <2>3
  <2>5. e \in misses
      BY <1>1, <1>4, <2>2, <2>3, <2>4
  <2>6. (i + c.slots) % c.slots = i
      BY <1>1, <2>3
  <2>7. \E y \in R : Before(r, y) = i /\ SlotNow(c, r, e) = c.slotOf[y]
      BY <2>3, <2>4, <2>6, SlotFollowsRank
  <2>8. SlotNow(c, r, e) = c.slotOf[x]
      BY <1>9, <2>1, <2>7
  <2> QED
      BY <2>5, <2>8 DEF SlotNow
<1> QED
    BY <1>7, <1>8, <1>9

-----------------------------------------------------------------------------
(* What an access leaves behind *)

\* An order of a set orders its subsets.
LEMMA OrderRestricts ==
    ASSUME NEW T, NEW r \in Orders(T), NEW U \in SUBSET T
    PROVE  r \cap (U \X U) \in Orders(U)
<1>1. /\ \A a, b \in T : <<a, b>> \in r <=> (a # b /\ <<b, a>> \notin r)
      /\ \A a, b, d \in T : <<a, b>> \in r /\ <<b, d>> \in r => <<a, d>> \in r
    BY DEF Orders
<1>2. \A a, b \in U : <<a, b>> \in r \cap (U \X U) <=> <<a, b>> \in r
    OBVIOUS
<1> QED
    BY <1>1, <1>2 DEF Orders

\* The slots a batch is given.
Taken(c, S, ord) ==
    {s \in Slot(c) :
        \E e \in S \ Resident(c) : SlotFor(c, Touched(c, S, ord), e) = s}

\* An access, spelled out: of the experts a slot is given to, v has the one whose number
\* ends up in owner, w the one whose weights end up in the buffers.
AccessWith(c, S, ord, d, v, w) ==
    LET r      == Touched(c, S, ord)
        misses == S \ Resident(c)
        stay   == Stay(c, S, ord)
        taken  == Taken(c, S, ord)
    IN  /\ v \in [taken -> misses] /\ w \in [taken -> misses]
        /\ \A s \in taken : SlotFor(c, r, v[s]) = s /\ SlotFor(c, r, w[s]) = s
        /\ d.slots = c.slots
        /\ d.slotOf = [e \in stay |-> SlotNow(c, r, e)]
        /\ d.older = r \cap (stay \X stay)
        /\ d.lut = [e \in Expert |-> IF e \in misses THEN SlotFor(c, r, e) ELSE c.lut[e]]
        /\ d.owner = [s \in Slot(c) |-> IF s \in taken THEN v[s] ELSE c.owner[s]]
        /\ d.weight = [s \in Slot(c) |-> IF s \in taken THEN w[s] ELSE c.weight[s]]

\* Every access has this form: the scatters write a slot for one of the experts it was
\* given to, perhaps another one in owner than in the weights.
LEMMA AccessedShape ==
    ASSUME NEW c, NEW S, NEW ord, NEW d \in Accessed(c, S, ord)
    PROVE  \E v, w : AccessWith(c, S, ord, d, v, w)
<1> DEFINE r         == Touched(c, S, ord)
           misses    == S \ Resident(c)
           stay      == {e \in Resident(c) \cup S : After(r, e) < c.slots}
           at        == [e \in misses |-> SlotFor(c, r, e)]
           claims(s) == {e \in misses : at[e] = s}
           taken     == {s \in Slot(c) : claims(s) # {}}
           writes    == {f \in [taken -> misses] : \A s \in taken : f[s] \in claims(s)}
           put(a, f) == [s \in Slot(c) |-> IF s \in taken THEN f[s] ELSE a[s]]
<1>1. PICK p \in writes \X writes :
         d = [slots  |-> c.slots,
              slotOf |-> [e \in stay |-> IF e \in misses THEN at[e] ELSE c.slotOf[e]],
              older  |-> r \cap (stay \X stay),
              lut    |-> [e \in Expert |-> IF e \in misses THEN at[e] ELSE c.lut[e]],
              owner  |-> put(c.owner, p[1]),
              weight |-> put(c.weight, p[2])]
    BY DEF Accessed
<1>2. stay = Stay(c, S, ord)
    BY DEF Stay
<1>3. taken = {s \in Slot(c) : \E e \in misses : SlotFor(c, r, e) = s}
    OBVIOUS
<1>4. ASSUME NEW f \in writes
      PROVE  f \in [taken -> misses] /\ \A s \in taken : SlotFor(c, r, f[s]) = s
    OBVIOUS
<1>5. p[1] \in writes /\ p[2] \in writes
    OBVIOUS
<1>6. /\ d.slots = c.slots
      /\ d.slotOf = [e \in stay |-> IF e \in misses THEN at[e] ELSE c.slotOf[e]]
      /\ d.older = r \cap (stay \X stay)
      /\ d.lut = [e \in Expert |-> IF e \in misses THEN at[e] ELSE c.lut[e]]
      /\ d.owner = put(c.owner, p[1])
      /\ d.weight = put(c.weight, p[2])
    BY <1>1
<1>7. \A e \in stay : (IF e \in misses THEN at[e] ELSE c.slotOf[e]) = SlotNow(c, r, e)
    BY DEF SlotNow
<1>8. d.slotOf = [e \in stay |-> SlotNow(c, r, e)]
    BY <1>6, <1>7
<1>9. d.lut = [e \in Expert |-> IF e \in misses THEN SlotFor(c, r, e) ELSE c.lut[e]]
    BY <1>6
<1> DEFINE u == p[1]  w == p[2]
<1>10. /\ u \in [taken -> misses] /\ w \in [taken -> misses]
       /\ \A s \in taken : SlotFor(c, r, u[s]) = s /\ SlotFor(c, r, w[s]) = s
    BY <1>4, <1>5
<1>11. /\ d.owner = [s \in Slot(c) |-> IF s \in taken THEN u[s] ELSE c.owner[s]]
       /\ d.weight = [s \in Slot(c) |-> IF s \in taken THEN w[s] ELSE c.weight[s]]
    BY <1>6
<1>12. taken = Taken(c, S, ord)
    BY <1>3 DEF Taken
<1>13. d.slots = c.slots /\ d.older = r \cap (stay \X stay)
    BY <1>6
<1> HIDE DEF r, misses, stay, taken, u, w
<1>14. AccessWith(c, S, ord, d, u, w)
    BY <1>2, <1>13, <1>8, <1>9, <1>10, <1>11, <1>12 DEF AccessWith, r, misses
<1> QED
    BY <1>14

\* After an access the table is in order, in particular no two experts share a slot.
LEMMA AccessedTable ==
    ASSUME NEW c, Table(c), NEW S \in SUBSET Expert, NEW ord, BatchOrder(c, S, ord),
           NEW d \in Accessed(c, S, ord)
    PROVE  Table(d) /\ d.slots = c.slots /\ Resident(d) = Stay(c, S, ord)
<1> DEFINE r      == Touched(c, S, ord)
           misses == S \ Resident(c)
           stay   == Stay(c, S, ord)
           taken  == Taken(c, S, ord)
<1>0. /\ c.slots \in Nat \ {0} /\ Resident(c) \subseteq Expert
      /\ c.older \in Orders(Resident(c))
      /\ c.lut \in [Expert -> Slot(c)]
      /\ c.owner \in [Slot(c) -> Expert \cup {Nobody}]
      /\ c.weight \in [Slot(c) -> Expert \cup {Nobody}]
    BY DEF Table, CacheType
<1>a. PICK v, w : AccessWith(c, S, ord, d, v, w)
    BY AccessedShape
<1>1. /\ v \in [taken -> misses] /\ w \in [taken -> misses]
      /\ d.slots = c.slots
      /\ d.slotOf = [e \in stay |-> SlotNow(c, r, e)]
      /\ d.older = r \cap (stay \X stay)
      /\ d.lut = [e \in Expert |-> IF e \in misses THEN SlotFor(c, r, e) ELSE c.lut[e]]
      /\ d.owner = [s \in Slot(c) |-> IF s \in taken THEN v[s] ELSE c.owner[s]]
      /\ d.weight = [s \in Slot(c) |-> IF s \in taken THEN w[s] ELSE c.weight[s]]
    BY <1>a DEF AccessWith
<1>2. /\ \A e \in Resident(c) \cup S : SlotNow(c, r, e) \in Slot(c)
      /\ \A e, f \in stay : SlotNow(c, r, e) = SlotNow(c, r, f) => e = f
      /\ \A e \in stay : SlotNow(c, r, e) < Cardinality(stay)
      /\ Cardinality(stay) <= c.slots
    BY StaySlots
<1>3. stay \subseteq Resident(c) \cup S
    BY DEF Stay
<1>4. r \in Orders(Resident(c) \cup S)
    BY <1>0, TouchedOrder
<1>5. \A e \in misses : SlotFor(c, r, e) \in Slot(c)
    BY <1>2 DEF SlotNow
<1> HIDE DEF r, stay, taken
<1>6. Resident(d) = stay
    BY <1>1 DEF Resident
<1>7. Slot(d) = Slot(c)
    BY <1>1 DEF Slot
<1>8. d.older \in Orders(stay)
    BY <1>1, <1>3, <1>4, OrderRestricts
<1>9. d.older \subseteq stay \X stay
    BY <1>1
<1>10. d.slotOf \in [stay -> Slot(c)]
    BY <1>1, <1>2, <1>3
<1>11. d.lut \in [Expert -> Slot(c)]
    BY <1>0, <1>1, <1>5
<1>12. /\ d.owner \in [Slot(c) -> Expert \cup {Nobody}]
       /\ d.weight \in [Slot(c) -> Expert \cup {Nobody}]
    BY <1>0, <1>1
<1>13. CacheType(d)
    BY <1>0, <1>1, <1>3, <1>6, <1>7, <1>9, <1>10, <1>11, <1>12 DEF CacheType
<1>14. Table(d)
    BY <1>1, <1>2, <1>6, <1>8, <1>13 DEF Table
<1> QED
    BY <1>1, <1>6, <1>14 DEF stay

\* When the misses of a batch fit, host and device still agree after it; when the batch
\* fits, it is in the table.
LEMMA AccessedAgrees ==
    ASSUME NEW c, Table(c), Agrees(c), NEW S \in SUBSET Expert, NEW ord,
           BatchOrder(c, S, ord), NEW d \in Accessed(c, S, ord),
           Cardinality(S \ Resident(c)) <= c.slots
    PROVE  Agrees(d)
<1> DEFINE r      == Touched(c, S, ord)
           R      == Resident(c)
           misses == S \ R
           stay   == Stay(c, S, ord)
           taken  == Taken(c, S, ord)
<1>0. /\ R \subseteq Expert
      /\ c.slotOf \in [R -> Slot(c)]
      /\ \A e, f \in R : c.slotOf[e] = c.slotOf[f] => e = f
    BY DEF Table, CacheType
<1>a. PICK v, w : AccessWith(c, S, ord, d, v, w)
    BY AccessedShape
<1>1. /\ v \in [taken -> misses] /\ w \in [taken -> misses]
      /\ \A s \in taken : SlotFor(c, r, v[s]) = s /\ SlotFor(c, r, w[s]) = s
      /\ d.slots = c.slots
      /\ d.slotOf = [e \in stay |-> SlotNow(c, r, e)]
      /\ d.lut = [e \in Expert |-> IF e \in misses THEN SlotFor(c, r, e) ELSE c.lut[e]]
      /\ d.owner = [s \in Slot(c) |-> IF s \in taken THEN v[s] ELSE c.owner[s]]
      /\ d.weight = [s \in Slot(c) |-> IF s \in taken THEN w[s] ELSE c.weight[s]]
    BY <1>a DEF AccessWith
<1>2. /\ \A e \in Resident(c) \cup S : SlotNow(c, r, e) \in Slot(c)
      /\ \A e, f \in stay : SlotNow(c, r, e) = SlotNow(c, r, f) => e = f
    BY StaySlots
<1>3. /\ misses \subseteq stay
      /\ \A x \in R \ stay : \E e \in misses : SlotFor(c, r, e) = c.slotOf[x]
    BY BatchStays
<1>4. stay \subseteq R \cup S
    BY DEF Stay
<1>5. /\ \A e \in R : SlotNow(c, r, e) = c.slotOf[e]
      /\ \A e \in misses : SlotNow(c, r, e) = SlotFor(c, r, e)
    BY DEF SlotNow
<1>6. Resident(d) = stay /\ Slot(d) = Slot(c)
    BY <1>1 DEF Resident, Slot
<1>7. /\ \A e \in R : c.lut[e] = c.slotOf[e] /\ c.owner[c.slotOf[e]] = e
      /\ \A s \in Slot(c) :
            c.owner[s] # Nobody =>
               /\ c.owner[s] \in R /\ c.slotOf[c.owner[s]] = s
               /\ c.weight[s] = c.owner[s]
    BY DEF Agrees
<1>8. \A s \in taken : s \in Slot(c) /\ \E e \in misses : SlotFor(c, r, e) = s
    BY DEF Taken
<1>9. \A e \in misses : SlotFor(c, r, e) \in taken
    BY <1>2, <1>5 DEF Taken
<1> HIDE DEF r, R, stay, taken, misses
<1>10. \A e \in misses : v[SlotFor(c, r, e)] = e /\ w[SlotFor(c, r, e)] = e
    BY <1>1, <1>2, <1>3, <1>5, <1>9
<1>11. ASSUME NEW e \in stay
       PROVE  d.lut[e] = d.slotOf[e] /\ d.owner[d.slotOf[e]] = e
  <2>1. CASE e \in misses
    <3>1. d.slotOf[e] = SlotFor(c, r, e) /\ SlotFor(c, r, e) \in taken
        BY <1>1, <1>5, <1>9, <2>1
    <3>2. e \in Expert
        BY <2>1 DEF misses
    <3> QED
        BY <1>1, <1>8, <1>10, <2>1, <3>1, <3>2
  <2>2. CASE e \notin misses
    <3>1. e \in R /\ e \in Expert
        BY <1>0, <1>4, <2>2 DEF misses
    <3>2. d.slotOf[e] = c.slotOf[e] /\ c.slotOf[e] \in Slot(c)
        BY <1>0, <1>1, <1>5, <3>1
    <3>3. c.slotOf[e] \notin taken
        BY <1>2, <1>3, <1>5, <1>8, <2>2, <3>1
    <3> QED
        BY <1>1, <1>7, <2>2, <3>1, <3>2, <3>3
  <2> QED
      BY <2>1, <2>2
<1>12. ASSUME NEW s \in Slot(c), d.owner[s] # Nobody
       PROVE  /\ d.owner[s] \in stay /\ d.slotOf[d.owner[s]] = s
              /\ d.weight[s] = d.owner[s]
  <2>1. CASE s \in taken
    <3>1. PICK e \in misses : SlotFor(c, r, e) = s
        BY <1>8, <2>1
    <3>2. d.owner[s] = e /\ d.weight[s] = e
        BY <1>1, <1>10, <2>1, <3>1
    <3> QED
        BY <1>1, <1>3, <1>5, <3>1, <3>2
  <2>2. CASE s \notin taken
    <3> DEFINE x == c.owner[s]
    <3>1. d.owner[s] = x /\ d.weight[s] = c.weight[s]
        BY <1>1, <2>2
    <3>2. x \in R /\ c.slotOf[x] = s /\ c.weight[s] = x
        BY <1>7, <1>12, <3>1
    <3>3. x \in stay
        BY <1>3, <1>9, <2>2, <3>2
    <3>4. d.slotOf[x] = s
        BY <1>1, <1>5, <3>2, <3>3
    <3> QED
        BY <3>1, <3>2, <3>3, <3>4
  <2> QED
      BY <2>1, <2>2
<1> QED
    BY <1>6, <1>11, <1>12 DEF Agrees

-----------------------------------------------------------------------------
(* What a resize leaves behind *)

\* A resize keeps the n most recently used experts and gives them the first slots: the
\* table is in order, and where host and device agreed they still do.
LEMMA ResizedKeeps ==
    ASSUME NEW c, Table(c), NEW n \in Nat \ {0}
    PROVE  /\ Table(Resized(c, n)) /\ Resized(c, n).slots = n
           /\ Agrees(c) => Agrees(Resized(c, n))
<1> DEFINE R     == Resident(c)
           k     == Cardinality(R)
           keep  == {e \in R : After(c.older, e) < n}
           at(s) == CHOOSE e \in keep : After(c.older, e) = s
           used  == {After(c.older, e) : e \in keep}
           d     == Resized(c, n)
<1>1. R \in SUBSET Expert /\ c.older \in Orders(R)
    BY DEF Table, CacheType
<1>2. k \in Nat
    BY <1>1, ExpertsFinite
<1>3. /\ \A e \in R : Before(c.older, e) \in 0..(k - 1)
                      /\ After(c.older, e) = k - 1 - Before(c.older, e)
      /\ \A e, f \in R : Before(c.older, e) = Before(c.older, f) => e = f
    BY <1>1, Ranks
<1>4. IF k <= n THEN keep = R ELSE Cardinality(keep) = n
    BY <1>1, MostRecent
<1>5. /\ d.slots = n
      /\ d.slotOf = [e \in keep |-> After(c.older, e)]
      /\ d.older = {p \in keep \X keep : <<p[2], p[1]>> \in c.older}
      /\ d.lut = [e \in Expert |-> IF e \in keep THEN After(c.older, e) ELSE 0]
      /\ d.owner = [s \in 0..(n - 1) |-> IF s \in used THEN at(s) ELSE Nobody]
      /\ d.weight = [s \in 0..(n - 1) |->
                        IF s \in used THEN c.weight[c.slotOf[at(s)]] ELSE Nobody]
    BY DEF Resized
<1> HIDE DEF d, R, k
<1>6. Resident(d) = keep /\ Slot(d) = 0..(n - 1)
    BY <1>5 DEF Resident, Slot
<1>7. ASSUME NEW e \in R PROVE After(c.older, e) \in Nat /\ After(c.older, e) < k
    BY <1>2, <1>3
<1>8. ASSUME NEW e \in R, NEW f \in R, After(c.older, e) = After(c.older, f) PROVE e = f
  <2>1. Before(c.older, e) = Before(c.older, f)
      BY <1>2, <1>3, <1>8
  <2> QED
      BY <2>1, <1>3
<1>9. \A e \in keep : After(c.older, e) \in used /\ at(After(c.older, e)) = e
    BY <1>8
<1>10. Cardinality(keep) <= n /\ \A e \in keep : After(c.older, e) < Cardinality(keep)
  <2>1. CASE k <= n
      BY <1>4, <1>7, <2>1 DEF k
  <2>2. CASE ~(k <= n)
      BY <1>4, <2>2
  <2> QED
      BY <2>1, <2>2
<1>11. \A e \in keep : After(c.older, e) \in 0..(n - 1) /\ e \in Expert
    BY <1>1, <1>7
<1>12. ASSUME NEW e \in keep
       PROVE  /\ d.slotOf[e] = After(c.older, e) /\ d.lut[e] = After(c.older, e)
              /\ d.owner[After(c.older, e)] = e
              /\ d.weight[After(c.older, e)] = c.weight[c.slotOf[e]]
  <2> HIDE DEF keep, used, at
  <2> QED
      BY <1>5, <1>9, <1>11
<1>13. ASSUME NEW s \in 0..(n - 1), \A e \in keep : After(c.older, e) # s
       PROVE  d.owner[s] = Nobody /\ d.weight[s] = Nobody
  <2>1. s \notin used
      BY <1>13
  <2> HIDE DEF keep, used, at
  <2> QED
      BY <2>1, <1>5
<1>14. keep \subseteq R
    OBVIOUS
<1>15. \A s \in used : at(s) \in keep /\ s \in 0..(n - 1)
    BY <1>9, <1>11
<1> HIDE DEF keep, used, at
<1>16. d.older \subseteq keep \X keep /\ d.older \in Orders(keep)
  <2>1. /\ \A x, y \in R : <<x, y>> \in c.older <=> (x # y /\ <<y, x>> \notin c.older)
        /\ \A x, y, z \in R :
              <<x, y>> \in c.older /\ <<y, z>> \in c.older => <<x, z>> \in c.older
      BY <1>1 DEF Orders
  <2>2. \A x, y \in keep : <<x, y>> \in d.older <=> <<y, x>> \in c.older
      BY <1>5
  <2>3. d.older \subseteq keep \X keep
      BY <1>5
  <2>4. \A x, y \in keep : <<x, y>> \in d.older <=> (x # y /\ <<y, x>> \notin d.older)
      BY <1>14, <2>1, <2>2
  <2>5. \A x, y, z \in keep :
           <<x, y>> \in d.older /\ <<y, z>> \in d.older => <<x, z>> \in d.older
      BY <1>14, <2>1, <2>2
  <2> QED
      BY <2>3, <2>4, <2>5 DEF Orders
<1>17. c.weight \in [Slot(c) -> Expert \cup {Nobody}] /\ c.slotOf \in [R -> Slot(c)]
    BY DEF Table, CacheType, R
<1>18. d.slotOf \in [keep -> Slot(d)] /\ d.lut \in [Expert -> Slot(d)]
    BY <1>5, <1>6, <1>11
<1>19. /\ d.owner \in [Slot(d) -> Expert \cup {Nobody}]
       /\ d.weight \in [Slot(d) -> Expert \cup {Nobody}]
    BY <1>5, <1>6, <1>11, <1>14, <1>15, <1>17
<1>20. CacheType(d)
    BY <1>1, <1>5, <1>6, <1>14, <1>16, <1>18, <1>19 DEF CacheType
<1>21. /\ \A e, f \in keep : d.slotOf[e] = d.slotOf[f] => e = f
       /\ \A e \in keep : d.slotOf[e] < Cardinality(keep)
    BY <1>8, <1>10, <1>12, <1>14
<1>22. Table(d)
    BY <1>5, <1>6, <1>10, <1>16, <1>20, <1>21 DEF Table
<1>23. ASSUME Agrees(c) PROVE Agrees(d)
  <2>1. \A e \in keep : c.weight[c.slotOf[e]] = e
    <3>1. ASSUME NEW e \in keep PROVE c.weight[c.slotOf[e]] = e
      <4>1. c.slotOf[e] \in Slot(c) /\ c.owner[c.slotOf[e]] = e
          BY <1>14, <1>17, <1>23 DEF Agrees, R
      <4>2. e # Nobody
          BY <1>11, ShapeAssumption DEF Expert, Nobody
      <4> QED
          BY <4>1, <4>2, <1>23 DEF Agrees
    <3> QED
        BY <3>1
  <2>2. ASSUME NEW s \in 0..(n - 1), d.owner[s] # Nobody
        PROVE  /\ d.owner[s] \in keep /\ d.slotOf[d.owner[s]] = s
               /\ d.weight[s] = d.owner[s]
    <3>1. PICK e \in keep : After(c.older, e) = s
        BY <1>13, <2>2
    <3> QED
        BY <3>1, <1>12, <2>1
  <2> QED
      BY <2>2, <1>6, <1>12 DEF Agrees
<1> QED
    BY <1>5, <1>22, <1>23 DEF d

\* An empty cache is in order.
LEMMA FreshKeeps ==
    ASSUME NEW n \in Nat \ {0}
    PROVE  Table(Fresh(n)) /\ Agrees(Fresh(n)) /\ Fresh(n).slots = n
<1> DEFINE d == Fresh(n)
<1>1. /\ d.slots = n /\ d.slotOf = [e \in {} |-> 0] /\ d.older = {}
      /\ d.lut = [e \in Expert |-> 0]
      /\ d.owner = [s \in 0..(n - 1) |-> Nobody]
      /\ d.weight = [s \in 0..(n - 1) |-> Nobody]
    BY DEF Fresh
<1> HIDE DEF d
<1>2. Resident(d) = {} /\ Slot(d) = 0..(n - 1) /\ 0 \in Slot(d)
    BY <1>1 DEF Resident, Slot
<1>3. CacheType(d)
    BY <1>1, <1>2 DEF CacheType
<1>4. d.older \in Orders({})
    BY <1>1 DEF Orders
<1>5. Cardinality(Resident(d)) = 0
    BY <1>2, FS_EmptySet
<1>6. Table(d)
    BY <1>1, <1>2, <1>3, <1>4, <1>5 DEF Table
<1>7. Agrees(d)
    BY <1>1, <1>2 DEF Agrees
<1> QED
    BY <1>1, <1>6, <1>7 DEF d

-----------------------------------------------------------------------------
(* The batches the code looks up *)

\* Experts looked up in ascending order.
LEMMA AscendingBatch ==
    ASSUME NEW c, NEW S \in SUBSET Expert, NEW U \in SUBSET S
    PROVE  BatchOrder(c, U, Ascending(S))
<1>1. Expert \subseteq Int
    BY ShapeAssumption DEF Expert
<1>2. ASSUME NEW V \in SUBSET S PROVE Ascending(S) \cap (V \X V) \in Orders(V)
  <2> DEFINE r == Ascending(S) \cap (V \X V)
  <2>1. r \subseteq V \X V
      OBVIOUS
  <2>2. \A a, b \in V : <<a, b>> \in r <=> a < b
      BY DEF Ascending
  <2>3. \A a \in V : a \in Int
      BY <1>1
  <2> HIDE DEF r
  <2>4. \A a, b \in V : <<a, b>> \in r <=> (a # b /\ <<b, a>> \notin r)
    <3>1. SUFFICES ASSUME NEW a \in V, NEW b \in V
                   PROVE  <<a, b>> \in r <=> (a # b /\ <<b, a>> \notin r)
        OBVIOUS
    <3>2. a \in Int /\ b \in Int
        BY <2>3
    <3>3. a < b <=> (a # b /\ ~(b < a))
        BY <3>2
    <3> QED
        BY <2>2, <3>3
  <2>5. \A a, b, d \in V : <<a, b>> \in r /\ <<b, d>> \in r => <<a, d>> \in r
      BY <2>2, <2>3
  <2>6. r \in Orders(V)
      BY <2>1, <2>4, <2>5 DEF Orders
  <2> QED
      BY <2>6 DEF r
<1> QED
    BY <1>2 DEF BatchOrder

\* The hits of a banked layer in ascending order, the hot misses in theirs.
LEMMA BankedBatch ==
    ASSUME NEW c, NEW S \in SUBSET Expert, NEW hot \in SUBSET (S \ Resident(c)),
           NEW ord \in Orders(hot)
    PROVE  LET hits == S \cap Resident(c)
           IN  BatchOrder(c, hits \cup hot, Ascending(hits) \cup ord)
<1> DEFINE hits == S \cap Resident(c)
           both == Ascending(hits) \cup ord
<1>1. (hits \cup hot) \cap Resident(c) = hits /\ (hits \cup hot) \ Resident(c) = hot
    OBVIOUS
<1>2. ord \subseteq hot \X hot /\ Ascending(hits) \subseteq hits \X hits
    BY DEF Orders, Ascending
<1>3. both \cap (hits \X hits) = Ascending(hits) \cap (hits \X hits)
    BY <1>2
<1>4. both \cap (hot \X hot) = ord
    BY <1>2
<1>5. BatchOrder(c, hits, Ascending(hits))
    BY AscendingBatch
<1>6. hits \cap Resident(c) = hits
    OBVIOUS
<1>7. Ascending(hits) \cap (hits \X hits) \in Orders(hits)
    BY <1>5, <1>6 DEF BatchOrder
<1> HIDE DEF both, hits
<1> QED
    BY <1>1, <1>3, <1>4, <1>7 DEF BatchOrder, hits, both

\* The hot experts of a streamed layer.
LEMMA StreamedBatch ==
    ASSUME NEW c, NEW hot \in SUBSET Expert, NEW ord \in Orders(hot)
    PROVE  BatchOrder(c, hot, ord)
    BY OrderRestricts DEF BatchOrder

=============================================================================
