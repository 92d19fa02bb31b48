---------------------------- MODULE RequestsProofs ----------------------------
(***************************************************************************)
(* The safety of the request path, for any number of requests, tokens and  *)
(* clients that leave.  Counting comes first: the places of what the       *)
(* queues hold are sets, and a message that moves takes its places along.  *)
(* Then each part of the inductive invariant IInv is preserved by a lemma  *)
(* of its own: where a request can be (AskInv, LifeInv, EndInv), what an   *)
(* abort finds (AbortInv), what keeps a decode state alive (DecodeInv),    *)
(* what a seal rests on (SealInv) and how the replies follow each other    *)
(* from the scheduler to the consumer (OrderInv).                          *)
(***************************************************************************)
EXTENDS Requests, FiniteSetTheorems, FunctionTheorems, TLAPS

Batch == [Uid -> Report]
Page  == [Uid -> Seq(Reply)]

----------------------------------------------------------------------------
(* Queues.                                                                 *)

\* What a queue holds after its ends have moved.
LEMMA Queue ==
    ASSUME NEW S, NEW q \in Seq(S)
    PROVE  /\ DOMAIN q = 1..Len(q) /\ Len(q) \in Nat /\ \A j \in DOMAIN q : q[j] \in S
           /\ \A e \in S : /\ Append(q, e) \in Seq(S) /\ Len(Append(q, e)) = Len(q) + 1
                           /\ DOMAIN Append(q, e) = 1..(Len(q) + 1)
                           /\ \A j \in DOMAIN q : Append(q, e)[j] = q[j]
                           /\ Append(q, e)[Len(q) + 1] = e
           /\ q # <<>> => /\ Head(q) \in S /\ Head(q) = q[1] /\ Tail(q) \in Seq(S) /\ 1 \in DOMAIN q
                          /\ DOMAIN Tail(q) = 1..(Len(q) - 1) /\ Len(Tail(q)) = Len(q) - 1
                          /\ \A j \in DOMAIN Tail(q) : j + 1 \in DOMAIN q /\ Tail(q)[j] = q[j + 1]
  OBVIOUS

\* A message is put at the end, or has nothing to say.
LEMMA PutQueue ==
    ASSUME NEW S, NEW q \in Seq(S), NEW b \in S, NEW none
    PROVE  /\ Put(q, b, none) \in Seq(S)
           /\ \A j \in DOMAIN q : j \in DOMAIN Put(q, b, none) /\ Put(q, b, none)[j] = q[j]
           /\ \A j \in DOMAIN Put(q, b, none) :
                 j \in DOMAIN q \/ (j = Len(q) + 1 /\ Put(q, b, none)[j] = b)
           /\ (\E u \in Uid : b[u] # none) =>
                 Len(q) + 1 \in DOMAIN Put(q, b, none) /\ Put(q, b, none)[Len(q) + 1] = b
           /\ DOMAIN Put(q, b, none) \in {1..Len(q), 1..(Len(q) + 1)}
  <1>1. CASE \A u \in Uid : b[u] = none
    BY <1>1, Queue DEF Put
  <1>2. CASE ~\A u \in Uid : b[u] = none
    <2>1. Put(q, b, none) = Append(q, b)
      BY <1>2 DEF Put
    <2>2. /\ DOMAIN q = 1..Len(q) /\ Len(q) \in Nat
          /\ Append(q, b) \in Seq(S)
          /\ DOMAIN Append(q, b) = 1..(Len(q) + 1)
          /\ \A j \in DOMAIN q : Append(q, b)[j] = q[j]
          /\ Append(q, b)[Len(q) + 1] = b
      BY Queue
    <2> QED
      BY <2>1, <2>2
  <1> QED
    BY <1>1, <1>2

----------------------------------------------------------------------------
(* Counting.                                                               *)

\* Sets with a one-to-one correspondence are of one size.
LEMMA SameSize ==
    ASSUME NEW S, IsFiniteSet(S), NEW T, NEW f \in [S -> T],
           \A x, y \in S : f[x] = f[y] => x = y, \A z \in T : \E x \in S : f[x] = z
    PROVE  IsFiniteSet(T) /\ Cardinality(T) = Cardinality(S)
  <1>1. f \in Bijection(S, T)
    BY Fun_IsBij
  <1>2. ExistsBijection(S, T)
    BY <1>1 DEF ExistsBijection
  <1> QED
    BY <1>2, FS_Bijection

\* What two sets without a common member have together.
LEMMA TwoSets ==
    ASSUME NEW S, IsFiniteSet(S), NEW T, IsFiniteSet(T), S \cap T = {}
    PROVE  /\ IsFiniteSet(S \cup T) /\ Cardinality(S) \in Nat /\ Cardinality(T) \in Nat
           /\ Cardinality(S \cup T) = Cardinality(S) + Cardinality(T)
  <1>1. Cardinality(S \cap T) = 0
    BY FS_EmptySet
  <1>2. Cardinality(S \cup T) = Cardinality(S) + Cardinality(T) - Cardinality(S \cap T)
    BY FS_Union
  <1>3. IsFiniteSet(S \cup T)
    BY FS_Union
  <1>4. Cardinality(S) \in Nat /\ Cardinality(T) \in Nat
    BY FS_CardinalityType
  <1> QED
    BY <1>1, <1>2, <1>3, <1>4

\* The places of a queue's contents are finitely many.
LEMMA PlacesFinite ==
    ASSUME NEW T, IsFiniteSet(T), NEW n \in Nat, NEW c, DOMAIN c = 1..n,
           \A j \in 1..n : c[j] \subseteq T
    PROVE  /\ IsFiniteSet(Places(c)) /\ Cardinality(Places(c)) \in Nat
           /\ \A j \in 1..n : IsFiniteSet(c[j]) /\ Cardinality(c[j]) \in Nat
           /\ \A w : w \in Places(c) <=> \E j \in 1..n : \E x \in c[j] : w = <<j, x>>
  <1>1. IsFiniteSet(1..n)
    BY FS_Interval
  <1>2. IsFiniteSet((1..n) \X T)
    BY <1>1, FS_Product
  <1>3. Places(c) \subseteq (1..n) \X T
    BY DEF Places
  <1>4. IsFiniteSet(Places(c)) /\ Cardinality(Places(c)) \in Nat
    BY <1>2, <1>3, FS_Subset, FS_CardinalityType
  <1>5. \A j \in 1..n : IsFiniteSet(c[j]) /\ Cardinality(c[j]) \in Nat
    BY FS_Subset, FS_CardinalityType
  <1>6. \A w : w \in Places(c) <=> \E j \in 1..n : \E x \in c[j] : w = <<j, x>>
    BY DEF Places
  <1> QED
    BY <1>4, <1>5, <1>6

\* One place more in front of them is as many places.
LEMMA OnePlace ==
    ASSUME NEW A, IsFiniteSet(A), NEW j
    PROVE  IsFiniteSet({j} \X A) /\ Cardinality({j} \X A) = Cardinality(A)
  <1> DEFINE f == [x \in A |-> <<j, x>>]
  <1>1. f \in [A -> {j} \X A]
    OBVIOUS
  <1>2. \A x, y \in A : f[x] = f[y] => x = y
    OBVIOUS
  <1>3. \A z \in {j} \X A : \E x \in A : f[x] = z
    OBVIOUS
  <1> QED
    BY <1>1, <1>2, <1>3, SameSize

\* A message at the end brings its places.
LEMMA PlacesGrow ==
    ASSUME NEW T, IsFiniteSet(T), NEW n \in Nat, NEW c, DOMAIN c = 1..n, NEW d,
           DOMAIN d = 1..(n + 1), \A j \in 1..(n + 1) : d[j] \subseteq T,
           \A j \in 1..n : d[j] = c[j]
    PROVE  Cardinality(Places(d)) = Cardinality(Places(c)) + Cardinality(d[n + 1])
  <1>1. \A j : j \in 1..(n + 1) <=> j \in 1..n \/ j = n + 1
    OBVIOUS
  <1>2. /\ IsFiniteSet(Places(c)) /\ IsFiniteSet(d[n + 1])
        /\ \A w : w \in Places(c) <=> \E j \in 1..n : \E x \in c[j] : w = <<j, x>>
    <2>1. \A j \in 1..n : c[j] \subseteq T
      BY <1>1
    <2>2. IsFiniteSet(d[n + 1])
      BY <1>1, FS_Subset
    <2>3. /\ IsFiniteSet(Places(c))
          /\ \A w : w \in Places(c) <=> \E j \in 1..n : \E x \in c[j] : w = <<j, x>>
      <3> HIDE DEF Places
      <3> QED
        BY <2>1, PlacesFinite
    <2> QED
      BY <2>2, <2>3
  <1>3. Places(d) = Places(c) \cup ({n + 1} \X d[n + 1])
    BY <1>1 DEF Places
  <1>4. Places(c) \cap ({n + 1} \X d[n + 1]) = {}
    <2>1. n + 1 \notin 1..n
      OBVIOUS
    <2> QED
      BY <1>2, <2>1
  <1>5. /\ IsFiniteSet({n + 1} \X d[n + 1])
        /\ Cardinality({n + 1} \X d[n + 1]) = Cardinality(d[n + 1])
    BY <1>2, OnePlace
  <1> QED
    BY <1>2, <1>3, <1>4, <1>5, TwoSets

\* The message at the front takes its places away.
LEMMA PlacesShrink ==
    ASSUME NEW T, IsFiniteSet(T), NEW n \in Nat, n > 0, NEW c, DOMAIN c = 1..n, NEW d,
           DOMAIN d = 1..(n - 1), \A j \in 1..n : c[j] \subseteq T,
           \A j \in 1..(n - 1) : d[j] = c[j + 1]
    PROVE  Cardinality(Places(c)) = Cardinality(Places(d)) + Cardinality(c[1])
  <1>1. \A j \in 1..(n - 1) : j + 1 \in 1..n
    OBVIOUS
  <1>2. \A j \in 1..n : j = 1 \/ (j - 1 \in 1..(n - 1) /\ (j - 1) + 1 = j)
    OBVIOUS
  <1>3. /\ IsFiniteSet(Places(d)) /\ IsFiniteSet(c[1])
        /\ \A w : w \in Places(d) <=> \E j \in 1..(n - 1) : \E x \in d[j] : w = <<j, x>>
    <2>1. \A j \in 1..(n - 1) : d[j] \subseteq T
      BY <1>1
    <2>2. IsFiniteSet(c[1])
      BY FS_Subset
    <2>3. n - 1 \in Nat
      OBVIOUS
    <2> QED
      BY <2>1, <2>2, <2>3, PlacesFinite
  <1> DEFINE R == {w \in Places(c) : w[1] # 1}
             f == [w \in Places(d) |-> <<w[1] + 1, w[2]>>]
  <1>4. /\ \A j \in 1..n : \A x \in c[j] : <<j, x>> \in Places(c)
        /\ \A w \in Places(c) : \E j \in 1..n : \E x \in c[j] : w = <<j, x>>
    BY DEF Places
  <1>5. Places(c) = R \cup ({1} \X c[1]) /\ R \cap ({1} \X c[1]) = {}
    <2>1. 1 \in 1..n
      OBVIOUS
    <2>2. {1} \X c[1] \subseteq Places(c)
      BY <1>4, <2>1
    <2>3. ASSUME NEW w \in Places(c), w \notin R PROVE w \in {1} \X c[1]
      BY <1>4, <2>3
    <2> QED
      BY <2>2, <2>3
  <1>6. f \in [Places(d) -> R]
    <2> SUFFICES ASSUME NEW w \in Places(d) PROVE <<w[1] + 1, w[2]>> \in R
      OBVIOUS
    <2>1. PICK j \in 1..(n - 1), x \in T : x \in d[j] /\ w = <<j, x>>
      BY <1>3
    <2>2. j + 1 \in 1..n /\ x \in c[j + 1] /\ j + 1 # 1
      BY <1>1, <2>1
    <2>3. <<j + 1, x>> \in Places(c)
      BY <1>4, <2>2
    <2> QED
      BY <2>1, <2>2, <2>3
  <1>7. \A v, w \in Places(d) : f[v] = f[w] => v = w
    <2> SUFFICES ASSUME NEW v \in Places(d), NEW w \in Places(d), f[v] = f[w] PROVE v = w
      OBVIOUS
    <2>1. PICK j \in 1..(n - 1), x \in T : x \in d[j] /\ v = <<j, x>>
      BY <1>3
    <2>2. PICK k \in 1..(n - 1), y \in T : y \in d[k] /\ w = <<k, y>>
      BY <1>3
    <2>3. f[v] = <<j + 1, x>> /\ f[w] = <<k + 1, y>>
      BY <2>1, <2>2
    <2> QED
      BY <2>1, <2>2, <2>3
  <1>8. \A z \in R : \E w \in Places(d) : f[w] = z
    <2> SUFFICES ASSUME NEW z \in R PROVE \E w \in Places(d) : f[w] = z
      OBVIOUS
    <2>1. PICK j \in 1..n, x \in T : x \in c[j] /\ z = <<j, x>>
      BY <1>4
    <2>2. j # 1
      BY <2>1
    <2>3. j - 1 \in 1..(n - 1) /\ (j - 1) + 1 = j /\ x \in d[j - 1]
      BY <1>2, <2>1, <2>2
    <2>4. <<j - 1, x>> \in Places(d)
      BY <1>3, <2>3
    <2>5. f[<<j - 1, x>>] = z
      BY <2>1, <2>3, <2>4
    <2> QED
      BY <2>4, <2>5
  <1>9. IsFiniteSet(R) /\ Cardinality(R) = Cardinality(Places(d))
    BY <1>3, <1>6, <1>7, <1>8, SameSize
  <1>10. IsFiniteSet({1} \X c[1]) /\ Cardinality({1} \X c[1]) = Cardinality(c[1])
    BY <1>3, OnePlace
  <1> HIDE DEF R
  <1>11. Cardinality(R \cup ({1} \X c[1])) = Cardinality(R) + Cardinality({1} \X c[1])
    BY <1>5, <1>9, <1>10, TwoSets
  <1> QED
    BY <1>5, <1>9, <1>10, <1>11

----------------------------------------------------------------------------
(* Messages.                                                               *)

\* What goes down: a message at the end, the first one gone.
LEMMA AboutGrows ==
    ASSUME NEW q \in Seq(Message), NEW m \in Message, NEW k
    PROVE  About(Append(q, m), k) = About(q, k) \cup (IF m.kind = k THEN {m.uid} ELSE {})
  <1>1. /\ DOMAIN q = 1..Len(q) /\ Len(q) \in Nat
        /\ DOMAIN Append(q, m) = 1..(Len(q) + 1)
        /\ \A j \in DOMAIN q : Append(q, m)[j] = q[j]
        /\ Append(q, m)[Len(q) + 1] = m
    BY Queue
  <1>2. \A j : j \in 1..(Len(q) + 1) <=> j \in 1..Len(q) \/ j = Len(q) + 1
    BY <1>1
  <1> QED
    BY <1>1, <1>2 DEF About

LEMMA AboutShrinks ==
    ASSUME NEW q \in Seq(Message), q # <<>>, NEW k
    PROVE  About(q, k) = About(Tail(q), k) \cup (IF Head(q).kind = k THEN {Head(q).uid} ELSE {})
  <1>1. /\ DOMAIN q = 1..Len(q) /\ Len(q) \in Nat /\ Head(q) = q[1] /\ 1 \in DOMAIN q
        /\ DOMAIN Tail(q) = 1..(Len(q) - 1)
        /\ \A j \in DOMAIN Tail(q) : j + 1 \in DOMAIN q /\ Tail(q)[j] = q[j + 1]
    BY Queue
  <1>2. \A j \in DOMAIN q : j = 1 \/ (j - 1 \in DOMAIN Tail(q) /\ Tail(q)[j - 1] = q[j])
    BY <1>1
  <1>3. ASSUME NEW u \in About(q, k)
        PROVE  u \in About(Tail(q), k) \/ (Head(q).kind = k /\ u = Head(q).uid)
    <2>1. PICK j \in DOMAIN q : q[j].kind = k /\ q[j].uid = u
      BY <1>3 DEF About
    <2>2. CASE j = 1
      BY <1>1, <2>1, <2>2
    <2>3. CASE j # 1
      BY <1>2, <2>1, <2>3 DEF About
    <2> QED
      BY <2>2, <2>3
  <1>4. About(Tail(q), k) \subseteq About(q, k)
    BY <1>1 DEF About
  <1>5. Head(q).kind = k => Head(q).uid \in About(q, k)
    BY <1>1 DEF About
  <1> QED
    BY <1>3, <1>4, <1>5

\* Who is asked about by a queue.
LEMMA AboutIs ==
    ASSUME NEW q, NEW k
    PROVE  /\ \A i \in DOMAIN q : q[i].kind = k => q[i].uid \in About(q, k)
           /\ \A u \in About(q, k) : \E i \in DOMAIN q : q[i].kind = k /\ q[i].uid = u
  BY DEF About

LEMMA MessageIs ==
    ASSUME NEW m \in Message
    PROVE  /\ m.kind \in {"user", "abort"} /\ m.uid \in Uid
           /\ \A k \in {"user", "abort"}, u \in Uid : m = Msg(k, u) <=> m.kind = k /\ m.uid = u
  BY DEF Message, Msg

\* The three messages of a page of replies: what was in the queue stays, then come admissions,
\* text and errors, and what has something to say is sent.
LEMMA Pages ==
    ASSUME NEW q \in Seq(Page), NEW b, Admissions(b) \in Page, Detokenized(b) \in Page,
           Errors(b) \in Page
    PROVE  LET r == Regrouped(q, b)
           IN  /\ r \in Seq(Page) /\ Len(r) >= Len(q)
               /\ \A j \in DOMAIN q : j \in DOMAIN r /\ r[j] = q[j]
               /\ \A j \in DOMAIN r : j \in DOMAIN q \/ r[j] \in {Admissions(b), Detokenized(b), Errors(b)}
               /\ \A j, k \in DOMAIN r : j < k /\ j \notin DOMAIN q =>
                      \/ r[j] = Admissions(b) /\ r[k] \in {Detokenized(b), Errors(b)}
                      \/ r[j] = Detokenized(b) /\ r[k] = Errors(b)
               /\ \A p \in {Admissions(b), Detokenized(b), Errors(b)} :
                      (\E u \in Uid : p[u] # <<>>) => \E j \in DOMAIN r : j \notin DOMAIN q /\ r[j] = p
  <1> DEFINE A == Admissions(b)
             D == Detokenized(b)
             E == Errors(b)
             s == Put(q, A, <<>>)
             t == Put(s, D, <<>>)
             r == Put(t, E, <<>>)
  <1>0. DOMAIN q = 1..Len(q) /\ Len(q) \in Nat
    BY Queue
  <1>1. /\ s \in Seq(Page)
        /\ \A j \in DOMAIN q : j \in DOMAIN s /\ s[j] = q[j]
        /\ \A j \in DOMAIN s : j \in DOMAIN q \/ (j = Len(q) + 1 /\ s[j] = A)
        /\ (\E u \in Uid : A[u] # <<>>) => Len(q) + 1 \in DOMAIN s /\ s[Len(q) + 1] = A
    BY PutQueue
  <1>2. /\ t \in Seq(Page)
        /\ \A j \in DOMAIN s : j \in DOMAIN t /\ t[j] = s[j]
        /\ \A j \in DOMAIN t : j \in DOMAIN s \/ (j = Len(s) + 1 /\ t[j] = D)
        /\ (\E u \in Uid : D[u] # <<>>) => Len(s) + 1 \in DOMAIN t /\ t[Len(s) + 1] = D
    <2> HIDE DEF s
    <2> QED
      BY <1>1, PutQueue
  <1>3. /\ r \in Seq(Page)
        /\ \A j \in DOMAIN t : j \in DOMAIN r /\ r[j] = t[j]
        /\ \A j \in DOMAIN r : j \in DOMAIN t \/ (j = Len(t) + 1 /\ r[j] = E)
        /\ (\E u \in Uid : E[u] # <<>>) => Len(t) + 1 \in DOMAIN r /\ r[Len(t) + 1] = E
    <2> HIDE DEF t
    <2> QED
      BY <1>2, PutQueue
  <1> HIDE DEF s, t, r, A, D, E
  <1>4. /\ DOMAIN s = 1..Len(s) /\ Len(s) \in Nat
        /\ DOMAIN t = 1..Len(t) /\ Len(t) \in Nat
        /\ DOMAIN r = 1..Len(r) /\ Len(r) \in Nat
    BY <1>1, <1>2, <1>3, Queue
  <1>5. Len(q) + 1 \notin DOMAIN q /\ Len(s) + 1 \notin DOMAIN s /\ Len(t) + 1 \notin DOMAIN t
    BY <1>0, <1>4
  <1>6. Len(s) >= Len(q) /\ Len(t) >= Len(s) /\ Len(r) >= Len(t)
    <2>1. Len(q) > 0 => Len(q) \in DOMAIN s
      BY <1>0, <1>1
    <2>2. Len(s) > 0 => Len(s) \in DOMAIN t
      BY <1>2, <1>4
    <2>3. Len(t) > 0 => Len(t) \in DOMAIN r
      BY <1>3, <1>4
    <2> QED
      BY <1>0, <1>4, <2>1, <2>2, <2>3
  <1>7. \A j \in DOMAIN q : j \in DOMAIN r /\ r[j] = q[j]
    BY <1>1, <1>2, <1>3
  <1>8. \A j \in DOMAIN r : \/ j \in DOMAIN q
                            \/ j = Len(q) + 1 /\ j \in DOMAIN s /\ r[j] = A
                            \/ j = Len(s) + 1 /\ j \in DOMAIN t /\ r[j] = D
                            \/ j = Len(t) + 1 /\ r[j] = E
    BY <1>1, <1>2, <1>3
  <1>9. ASSUME NEW j \in DOMAIN r, NEW k \in DOMAIN r, j < k, j \notin DOMAIN q
        PROVE  (r[j] = A /\ r[k] \in {D, E}) \/ (r[j] = D /\ r[k] = E)
    <2>1. k \notin DOMAIN q
      BY <1>0, <1>4, <1>9
    <2>2. CASE j = Len(q) + 1 /\ j \in DOMAIN s /\ r[j] = A
      BY <1>8, <1>9, <2>1, <2>2
    <2>3. CASE j = Len(s) + 1 /\ j \in DOMAIN t /\ r[j] = D
      <3>1. k # Len(s) + 1
        BY <1>4, <1>9, <2>3
      <3>2. k = Len(q) + 1 => k \notin DOMAIN s
        BY <1>4, <1>9, <2>3
      <3> QED
        BY <1>8, <2>1, <2>3, <3>1, <3>2
    <2>4. CASE j = Len(t) + 1 /\ r[j] = E
      BY <1>4, <1>6, <1>8, <1>9, <2>1, <2>4
    <2> QED
      BY <1>8, <1>9, <2>2, <2>3, <2>4
  <1>10. ASSUME NEW p \in {A, D, E}, \E u \in Uid : p[u] # <<>>
         PROVE  \E j \in DOMAIN r : j \notin DOMAIN q /\ r[j] = p
    <2>1. CASE p = A
      BY <1>1, <1>2, <1>3, <1>5, <1>10, <2>1
    <2>2. CASE p = D
      <3>1. Len(s) + 1 \in DOMAIN r /\ r[Len(s) + 1] = D
        BY <1>2, <1>3, <1>10, <2>2
      <3>2. Len(s) + 1 \notin DOMAIN q
        BY <1>0, <1>4, <1>6
      <3> QED
        BY <2>2, <3>1, <3>2
    <2>3. CASE p = E
      <3>1. Len(t) + 1 \in DOMAIN r /\ r[Len(t) + 1] = E
        BY <1>3, <1>10, <2>3
      <3>2. Len(t) + 1 \notin DOMAIN q
        BY <1>0, <1>4, <1>6
      <3> QED
        BY <2>3, <3>1, <3>2
    <2> QED
      BY <2>1, <2>2, <2>3
  <1>11. Regrouped(q, b) = r
    BY DEF Regrouped, r, t, s, A, D, E
  <1>12. \A j \in DOMAIN r : j \in DOMAIN q \/ r[j] \in {A, D, E}
    BY <1>8
  <1> QED
    BY <1>0, <1>3, <1>4, <1>6, <1>7, <1>9, <1>10, <1>11, <1>12 DEF A, D, E

----------------------------------------------------------------------------
(* What the messages say.                                                  *)

LEMMA Bounds ==
    /\ MaxUids \in Nat /\ MaxUids > 0 /\ MaxTokens \in Nat /\ MaxTokens > 0
    /\ Rounds \in Nat /\ Rounds > 0 /\ Chunks \in Nat /\ MaxLeavers \in Nat /\ MaxStops \in Nat
    /\ Uid \subseteq Nat /\ IsFiniteSet(Uid)
    /\ IsFiniteSet(Uid \X (1..Rounds)) /\ IsFiniteSet(Uid \X (1..MaxTokens)) /\ IsFiniteSet(Uid \X {1})
  <1>1. /\ MaxUids \in Nat /\ MaxUids > 0 /\ MaxTokens \in Nat /\ MaxTokens > 0
        /\ Rounds \in Nat /\ Rounds > 0 /\ Chunks \in Nat /\ MaxLeavers \in Nat /\ MaxStops \in Nat
    BY BoundsAssumption
  <1>2. Uid \subseteq Nat /\ IsFiniteSet(Uid)
    BY <1>1, FS_Interval DEF Uid
  <1>3. IsFiniteSet(1..Rounds) /\ IsFiniteSet(1..MaxTokens) /\ IsFiniteSet({1})
    <2>1. IsFiniteSet(1..Rounds) /\ IsFiniteSet(1..MaxTokens)
      BY <1>1, FS_Interval
    <2>2. IsFiniteSet({1})
      BY FS_Singleton
    <2> QED
      BY <2>1, <2>2
  <1>4. IsFiniteSet(Uid \X (1..Rounds)) /\ IsFiniteSet(Uid \X (1..MaxTokens)) /\ IsFiniteSet(Uid \X {1})
    BY <1>2, <1>3, FS_Product
  <1> QED
    BY <1>1, <1>2, <1>4

LEMMA ReplyIs ==
    ASSUME NEW k \in {"admit", "text", "error"}, NEW p \in Nat, NEW f \in BOOLEAN
    PROVE  /\ Say(k, p, f) \in Reply /\ Say(k, p, f).kind = k /\ Say(k, p, f).pos = p
           /\ Say(k, p, f).fin = f
  BY DEF Reply, Say

\* The first of the three messages: admissions.
LEMMA AdmissionsSay ==
    ASSUME NEW b \in Batch
    PROVE  /\ Admissions(b) \in Page /\ Ended(Admissions(b)) = {}
           /\ \A u \in Uid : Admissions(b)[u] = IF b[u].admitted THEN <<Say("admit", 0, FALSE)>> ELSE <<>>
           /\ Said(Admissions(b), "admit") = Started(b) /\ Said(Admissions(b), "text") = {}
  <1> DEFINE A == Admissions(b)
             one == Say("admit", 0, FALSE)
  <1>1. one \in Reply /\ one.kind = "admit" /\ ~one.fin
    BY DEF Reply, Say
  <1>2. \A u \in Uid : A[u] = IF b[u].admitted THEN <<one>> ELSE <<>>
    BY DEF Admissions
  <1> HIDE DEF one
  <1>3. <<one>> \in Seq(Reply) /\ <<>> \in Seq(Reply) /\ DOMAIN <<one>> = {1} /\ <<one>>[1] = one /\ DOMAIN <<>> = {}
    BY <1>1
  <1>4. A \in Page
    BY <1>3 DEF Page, Admissions, one
  <1> HIDE DEF A
  <1>5. Ended(A) = {}
    BY <1>1, <1>2, <1>3 DEF Ended
  <1>6. Said(A, "text") = {}
    BY <1>1, <1>2, <1>3 DEF Said
  <1>7. Said(A, "admit") = Started(b)
    <2>1. ASSUME NEW p \in Said(A, "admit") PROVE p \in Started(b)
      BY <1>2, <1>3 DEF Said, Started
    <2>2. ASSUME NEW p \in Started(b) PROVE p \in Said(A, "admit")
      <3>1. PICK u \in Uid : p = <<u, 1>> /\ b[u].admitted
        BY DEF Started
      <3>2. 1 \in 1..Rounds
        BY Bounds
      <3> QED
        BY <1>1, <1>2, <1>3, <3>1, <3>2 DEF Said
    <2> QED
      BY <2>1, <2>2
  <1> QED
    BY <1>2, <1>4, <1>5, <1>6, <1>7 DEF A, one

\* The third: errors.
LEMMA ErrorsSay ==
    ASSUME NEW b \in Batch
    PROVE  /\ Errors(b) \in Page /\ Ended(Errors(b)) = {u \in Uid : b[u].end = "error"}
           /\ \A u \in Uid : Errors(b)[u] = IF b[u].end = "error" THEN <<Say("error", 0, TRUE)>> ELSE <<>>
           /\ Said(Errors(b), "admit") = {} /\ Said(Errors(b), "text") = {}
  <1> DEFINE E == Errors(b)
             one == Say("error", 0, TRUE)
  <1>1. one \in Reply /\ one.kind = "error" /\ one.fin
    BY DEF Reply, Say
  <1>2. \A u \in Uid : E[u] = IF b[u].end = "error" THEN <<one>> ELSE <<>>
    BY DEF Errors
  <1> HIDE DEF one
  <1>3. <<one>> \in Seq(Reply) /\ <<>> \in Seq(Reply) /\ DOMAIN <<one>> = {1} /\ <<one>>[1] = one /\ DOMAIN <<>> = {}
    BY <1>1
  <1>4. E \in Page
    BY <1>3 DEF Page, Errors, one
  <1> HIDE DEF E
  <1>5. Ended(E) = {u \in Uid : b[u].end = "error"}
    BY <1>1, <1>2, <1>3 DEF Ended
  <1>6. Said(E, "text") = {} /\ Said(E, "admit") = {}
    BY <1>1, <1>2, <1>3 DEF Said
  <1> QED
    BY <1>2, <1>4, <1>5, <1>6 DEF E, one

\* The second: every token of a report comes out as one piece of text, in its turn.
LEMMA TextSays ==
    ASSUME NEW b \in Batch, decode \in [Uid -> Nat]
    PROVE  LET D == Detokenized(b)
           IN  /\ D \in Page
               /\ \A u \in Uid :
                     /\ b[u].tokens \in 0..Rounds /\ Len(D[u]) = b[u].tokens
                     /\ DOMAIN D[u] = 1..b[u].tokens /\ (b[u].tokens = 0 => D[u] = <<>>)
                     /\ \A i \in 1..b[u].tokens : /\ D[u][i].kind = "text" /\ D[u][i].pos = decode[u] + i
                                                  /\ D[u][i].fin <=> b[u].end = "last" /\ i = b[u].tokens
               /\ Ended(D) = {u \in Uid : b[u].end = "last" /\ b[u].tokens > 0}
               /\ Said(D, "text") = Drawn(b) /\ Said(D, "admit") = {}
  <1> DEFINE D == Detokenized(b)
  <1>1. ASSUME NEW u \in Uid
        PROVE  /\ b[u].tokens \in 0..Rounds /\ D[u] \in Seq(Reply) /\ Len(D[u]) = b[u].tokens
               /\ DOMAIN D[u] = 1..b[u].tokens /\ (b[u].tokens = 0 => D[u] = <<>>)
               /\ \A i \in 1..b[u].tokens : /\ D[u][i].kind = "text" /\ D[u][i].pos = decode[u] + i
                                            /\ D[u][i].fin <=> b[u].end = "last" /\ i = b[u].tokens
    <2> DEFINE t == b[u].tokens
               e(i) == Say("text", decode[u] + i, b[u].end = "last" /\ i = t)
    <2>1. b[u] \in Report /\ t \in 0..Rounds /\ t \in Nat /\ decode[u] \in Nat
      BY Bounds DEF Batch, Report
    <2>2. ASSUME NEW i \in 1..t
          PROVE  /\ e(i) \in Reply /\ e(i).kind = "text" /\ e(i).pos = decode[u] + i
                 /\ e(i).fin <=> b[u].end = "last" /\ i = t
      <3>1. decode[u] + i \in Nat /\ (b[u].end = "last" /\ i = t) \in BOOLEAN
        BY <2>1
      <3> QED
        BY <3>1, ReplyIs
    <2>3. D[u] = [i \in 1..t |-> e(i)]
      BY DEF Detokenized
    <2> HIDE DEF e, t, D
    <2>4. D[u] \in Seq(Reply) /\ Len(D[u]) = t /\ DOMAIN D[u] = 1..t
      BY <2>1, <2>2, <2>3
    <2>5. t = 0 => D[u] = <<>>
      BY <2>4
    <2> QED
      BY <2>1, <2>2, <2>3, <2>4, <2>5 DEF t
  <1>2. D \in Page
    <2>1. D = [u \in Uid |-> D[u]]
      BY DEF Detokenized
    <2> HIDE DEF D
    <2> QED
      BY <1>1, <2>1 DEF Page
  <1> HIDE DEF D
  <1>3. Ended(D) = {u \in Uid : b[u].end = "last" /\ b[u].tokens > 0}
    <2>1. ASSUME NEW u \in Ended(D) PROVE b[u].end = "last" /\ b[u].tokens > 0
      BY <1>1 DEF Ended
    <2>2. ASSUME NEW u \in Uid, b[u].end = "last", b[u].tokens > 0 PROVE u \in Ended(D)
      <3>1. b[u].tokens \in 1..b[u].tokens
        BY <1>1, <2>2, Bounds
      <3> QED
        BY <1>1, <2>2, <3>1 DEF Ended
    <2>3. Ended(D) \subseteq Uid
      BY DEF Ended
    <2> QED
      BY <2>1, <2>2, <2>3
  <1>4. Said(D, "admit") = {}
    BY <1>1 DEF Said
  <1>5. Said(D, "text") = Drawn(b)
    <2>1. ASSUME NEW u \in Uid, NEW i \in 1..Rounds
          PROVE  (i \in DOMAIN D[u] /\ D[u][i].kind = "text") <=> i <= b[u].tokens
      BY <1>1, Bounds
    <2> QED
      BY <2>1 DEF Said, Drawn
  <1> QED
    BY <1>1, <1>2, <1>3, <1>4, <1>5 DEF D

\* The page that refuses a request.
Refused(w) == [v \in Uid |-> IF v = w THEN <<Say("error", 0, TRUE)>> ELSE <<>>]

LEMMA RefusalSays ==
    ASSUME NEW w
    PROVE  /\ Refused(w) \in Page /\ Ended(Refused(w)) = Uid \cap {w}
           /\ \A v \in Uid : Refused(w)[v] = IF v = w THEN <<Say("error", 0, TRUE)>> ELSE <<>>
           /\ Said(Refused(w), "admit") = {} /\ Said(Refused(w), "text") = {}
  <1> DEFINE E == Refused(w)
             one == Say("error", 0, TRUE)
  <1>1. one \in Reply /\ one.kind = "error" /\ one.fin
    BY ReplyIs
  <1>2. \A u \in Uid : E[u] = IF u = w THEN <<one>> ELSE <<>>
    BY DEF Refused
  <1> HIDE DEF one
  <1>3. <<one>> \in Seq(Reply) /\ <<>> \in Seq(Reply) /\ DOMAIN <<one>> = {1} /\ <<one>>[1] = one /\ DOMAIN <<>> = {}
    BY <1>1
  <1>4. E \in Page
    BY <1>3 DEF Page, Refused, one
  <1> HIDE DEF E
  <1>5. Ended(E) = Uid \cap {w}
    BY <1>1, <1>2, <1>3 DEF Ended
  <1>6. Said(E, "text") = {} /\ Said(E, "admit") = {}
    BY <1>1, <1>2, <1>3 DEF Said
  <1> QED
    BY <1>2, <1>4, <1>5, <1>6 DEF E, one

----------------------------------------------------------------------------
(* What the scheduler does in one turn.                                    *)

\* Every request that a state speaks of has been numbered.
LEMMA Known ==
    ASSUME TypeOK
    PROVE  /\ next \in Nat /\ next <= MaxUids /\ 0..(next - 1) \subseteq Uid
           /\ UNION {open, leaving, gone, inflight, aborting, active, ran, dropped} \subseteq 0..(next - 1)
           /\ UNION {open, leaving, gone, inflight, aborting, active, ran, dropped} \subseteq Uid
           /\ \A u \in 0..(next - 1) : u < next
           /\ \A u \in Uid : u \in Nat /\ (u \in 0..(next - 1) <=> ~(u >= next))
  <1>1. next \in Nat /\ next <= MaxUids /\ MaxUids \in Nat
    BY Bounds DEF TypeOK
  <1>2. /\ 0..(next - 1) \subseteq Uid /\ \A u \in 0..(next - 1) : u < next
        /\ \A u \in Uid : u \in Nat /\ (u \in 0..(next - 1) <=> ~(u >= next))
    BY <1>1 DEF Uid
  <1>3. UNION {open, leaving, gone, inflight, aborting, active, ran, dropped} \subseteq 0..(next - 1)
    BY DEF TypeOK
  <1> QED
    BY <1>1, <1>2, <1>3

LEMMA NothingIs ==
    /\ Nothing \in Report /\ ~Nothing.admitted /\ Nothing.tokens = 0 /\ Nothing.end = "more"
    /\ \A r \in Report : r = Nothing <=> ~r.admitted /\ r.tokens = 0 /\ r.end = "more"
  BY Bounds DEF Report, Nothing

\* What Receive reports of the requests it found.
Opening(starting) ==
    [u \in Uid |-> [admitted |-> u \in starting, tokens |-> 0,
                    end |-> IF u \in About(toBack, "user") \ starting THEN "error" ELSE "more"]]

\* It opens with an admission or an error for each.
LEMMA OpeningSays ==
    ASSUME NEW starting \in SUBSET Uid
    PROVE  LET b == Opening(starting)
           IN  /\ b \in Batch /\ Drawn(b) = {} /\ Started(b) = starting \X {1}
               /\ \A u \in Uid :
                     /\ b[u].admitted <=> u \in starting
                     /\ b[u].tokens = 0
                     /\ b[u].end = IF u \in About(toBack, "user") \ starting THEN "error" ELSE "more"
                     /\ b[u] # Nothing => u \in starting \cup About(toBack, "user")
                     /\ u \in starting => b[u] # Nothing
  <1> DEFINE b == Opening(starting)
  <1>1. ASSUME NEW u \in Uid
        PROVE  /\ b[u] \in Report /\ (b[u].admitted <=> u \in starting) /\ b[u].tokens = 0
               /\ b[u].end = IF u \in About(toBack, "user") \ starting THEN "error" ELSE "more"
               /\ b[u] # Nothing => u \in starting \cup About(toBack, "user")
               /\ u \in starting => b[u] # Nothing
    <2>1. b[u] = [admitted |-> u \in starting, tokens |-> 0,
                  end |-> IF u \in About(toBack, "user") \ starting THEN "error" ELSE "more"]
      BY DEF Opening
    <2>2. (u \in starting) \in BOOLEAN /\ 0 \in 0..Rounds
      BY Bounds
    <2>3. /\ b[u] \in Report /\ b[u].admitted = (u \in starting) /\ b[u].tokens = 0
          /\ b[u].end = IF u \in About(toBack, "user") \ starting THEN "error" ELSE "more"
      BY <2>1, <2>2 DEF Report
    <2> HIDE DEF b
    <2> QED
      BY <2>3, NothingIs
  <1>2. b \in Batch
    <2>1. b = [u \in Uid |-> b[u]]
      BY DEF Opening
    <2> HIDE DEF b
    <2> QED
      BY <1>1, <2>1 DEF Batch
  <1> HIDE DEF b
  <1>3. Drawn(b) = {}
    <2>1. ASSUME NEW u \in Uid, NEW i \in 1..Rounds PROVE ~(i <= b[u].tokens)
      BY <1>1, Bounds
    <2> QED
      BY <2>1 DEF Drawn
  <1>4. Started(b) = starting \X {1}
    BY <1>1 DEF Started
  <1> QED
    BY <1>1, <1>2, <1>3, <1>4 DEF b

\* An abort comes down behind its request, so it takes the request out.
LEMMA TakenIs ==
    ASSUME TypeOK, AbortInv, NEW starting, NEW u \in Uid
    PROVE  TakenOut(toBack, starting, u) <=> u \in About(toBack, "abort")
  <1>1. \A i \in DOMAIN toBack : toBack[i] \in Message /\ i \in Nat
    BY Queue DEF TypeOK
  <1>2. ASSUME TakenOut(toBack, starting, u) PROVE u \in About(toBack, "abort")
    BY <1>1, <1>2, MessageIs, AboutIs DEF TakenOut
  <1>3. ASSUME u \in About(toBack, "abort") PROVE TakenOut(toBack, starting, u)
    <2>1. PICK i \in DOMAIN toBack : toBack[i].kind = "abort" /\ toBack[i].uid = u
      BY <1>3, AboutIs
    <2>2. toBack[i] = Msg("abort", u)
      BY <1>1, <2>1, MessageIs
    <2>3. ASSUME NEW j \in DOMAIN toBack, j > i PROVE toBack[j] # Msg("user", u)
      BY <1>1, <2>1, <2>3 DEF AbortInv
    <2> QED
      BY <2>2, <2>3 DEF TakenOut
  <1> QED
    BY <1>2, <1>3

\* One receive of the scheduler.
LEMMA Received ==
    ASSUME TypeOK, AbortInv, Receive
    PROVE  \E starting \in SUBSET About(toBack, "user") :
               /\ starting \subseteq Uid
               /\ ran' = ran \cup starting
               /\ active' = (active \cup starting) \ About(toBack, "abort")
               /\ Opening(starting) \in Batch
               /\ fromBack' = Put(fromBack, Opening(starting), Nothing)
  <1>1. PICK starting \in SUBSET About(toBack, "user") :
           /\ ran' = ran \cup starting
           /\ active' = {u \in active \cup starting : ~TakenOut(toBack, starting, u)}
           /\ fromBack' = Put(fromBack, Opening(starting), Nothing)
    BY DEF Receive, Opening
  <1>2. \A i \in DOMAIN toBack : toBack[i] \in Message
    BY Queue DEF TypeOK
  <1>3. About(toBack, "user") \subseteq Uid
    BY <1>2, MessageIs, AboutIs
  <1>4. \A u \in active \cup starting : TakenOut(toBack, starting, u) <=> u \in About(toBack, "abort")
    BY <1>3, TakenIs, Known
  <1>5. Opening(starting) \in Batch
    BY <1>3, OpeningSays
  <1> QED
    BY <1>1, <1>3, <1>4, <1>5

\* One step of the scheduler.
LEMMA Stepped ==
    ASSUME TypeOK, Step
    PROVE  \E b \in Batch :
               /\ fromBack' = Put(fromBack, b, Nothing)
               /\ active' = {u \in active : b[u].end = "more"}
               /\ out' = [u \in Uid |-> out[u] + b[u].tokens] /\ out' \in [Uid -> 0..MaxTokens]
               /\ left' \in [Uid -> 0..Chunks]
               /\ Started(b) = {}
               /\ \A u \in Uid : /\ ~b[u].admitted /\ (u \notin active => b[u] = Nothing)
                                 /\ b[u].end = "last" => b[u].tokens > 0
  <1>1. PICK o \in [active -> UNION {Outcome(u) : u \in active}] :
           /\ \A u \in active : o[u] \in Outcome(u)
           /\ out' = [u \in Uid |-> IF u \in active THEN out[u] + o[u].tokens ELSE out[u]]
           /\ left' = [u \in Uid |-> IF u \in active /\ o[u].end = "more" /\ o[u].tokens = 0
                                     THEN left[u] - 1 ELSE left[u]]
           /\ active' = {u \in active : o[u].end = "more"}
           /\ fromBack' = Put(fromBack, Reported(o), Nothing)
    BY DEF Step
  <1> DEFINE b == Reported(o)
  <1>2. DOMAIN o = active /\ active \subseteq Uid
    BY <1>1, Known
  <1>3. \A u \in Uid : b[u] = IF u \in active THEN o[u] ELSE Nothing
    BY <1>2 DEF Reported
  <1>4. \A u \in active :
           /\ o[u] \in Report /\ ~o[u].admitted /\ out[u] + o[u].tokens <= MaxTokens
           /\ o[u].end = "more" /\ o[u].tokens = 0 => left[u] > 0
           /\ o[u].end = "last" => o[u].tokens > 0
    BY <1>1 DEF Outcome
  <1>5. b = [u \in Uid |-> b[u]]
    BY DEF Reported
  <1> HIDE DEF b
  <1>6. \A u \in Uid : /\ b[u] \in Report /\ ~b[u].admitted /\ (u \notin active => b[u] = Nothing)
                       /\ b[u].end = "last" => b[u].tokens > 0
    BY <1>2, <1>3, <1>4, NothingIs
  <1>7. b \in Batch
    BY <1>5, <1>6 DEF Batch
  <1>8. \A u \in Uid : out[u] \in 0..MaxTokens /\ left[u] \in 0..Chunks /\ b[u].tokens \in Nat
    <2>1. \A r \in Report : r.tokens \in Nat
      BY Bounds DEF Report
    <2> QED
      BY <1>6, <2>1 DEF TypeOK
  <1>9. \A u \in Uid : /\ out[u] + b[u].tokens \in 0..MaxTokens
                       /\ u \in active => b[u].tokens = o[u].tokens
                       /\ u \notin active => out[u] + b[u].tokens = out[u]
    <2> SUFFICES ASSUME NEW u \in Uid
                 PROVE  /\ out[u] + b[u].tokens \in 0..MaxTokens
                        /\ u \in active => b[u].tokens = o[u].tokens
                        /\ u \notin active => out[u] + b[u].tokens = out[u]
      OBVIOUS
    <2>1. out[u] \in 0..MaxTokens /\ b[u].tokens \in Nat /\ MaxTokens \in Nat
      BY <1>8, Bounds
    <2>2. CASE u \in active
      <3>1. b[u].tokens = o[u].tokens /\ out[u] + o[u].tokens <= MaxTokens
        BY <1>3, <1>4, <2>2
      <3> QED
        BY <2>1, <2>2, <3>1
    <2>3. CASE u \notin active
      <3>1. b[u].tokens = 0
        BY <1>3, <2>3, NothingIs
      <3> QED
        BY <2>1, <2>3, <3>1
    <2> QED
      BY <2>2, <2>3
  <1>10. out' = [u \in Uid |-> out[u] + b[u].tokens]
    BY <1>1, <1>9
  <1>11. left' \in [Uid -> 0..Chunks]
    <2>1. \A u \in Uid : (u \in active /\ o[u].end = "more" /\ o[u].tokens = 0) => left[u] - 1 \in 0..Chunks
      BY <1>4, <1>8, Bounds
    <2> QED
      BY <1>1, <1>8, <2>1
  <1>12. Started(b) = {}
    BY <1>6 DEF Started
  <1>13. active' = {u \in active : b[u].end = "more"}
    BY <1>1, <1>2, <1>3
  <1>14. fromBack' = Put(fromBack, b, Nothing)
    BY <1>1 DEF b
  <1>15. out' \in [Uid -> 0..MaxTokens]
    BY <1>9, <1>10
  <1> QED
    BY <1>6, <1>7, <1>10, <1>11, <1>12, <1>13, <1>14, <1>15

----------------------------------------------------------------------------
(* Types.                                                                  *)

\* What neither the queues nor their ends notice: a consumer that ends, a client that leaves, a
\* stop under way.
Quiet ==
    /\ UNCHANGED <<next, inflight, prompts, completions, fromFront, fromBack, toBack, toFront,
                   decode, active, left, out, ran, dropped>>
    /\ open' \subseteq open
    /\ \A u \in Uid : story'[u] = story[u] \/ (u \notin open' /\ story'[u] = <<>>)

LEMMA Steps ==
    ASSUME TypeOK, [Next]_vars
    PROVE  \/ NewUser \/ NewUserUnsent \/ Listen \/ (\E u \in Uid : AbortUser(u))
           \/ Tokenize \/ PassAbort \/ Detokenize \/ Receive \/ Step \/ Quiet
  <1>1. story \in [Uid -> Seq(Reply)]
    BY DEF TypeOK
  <1>2. ASSUME NEW u \in Uid, Consumer(u) PROVE Quiet
    <2>1. Close(u)
      BY <1>2 DEF Consumer, Finish, BudgetSpent
    <2> QED
      BY <1>1, <2>1 DEF Close, Quiet, barrier, scheduler
  <1>3. ASSUME NEW u \in Uid, Disconnect(u) PROVE Quiet
    BY <1>3 DEF Disconnect, Quiet, scheduler
  <1>4. CASE PrepareStop
    BY <1>4 DEF PrepareStop, Quiet, scheduler
  <1>5. CASE Stopping
    BY <1>5 DEF Stopping, Seal, DrainTimeout, AbortsSent, AbortTimeout, Quiet, frontend, scheduler
  <1>6. CASE UNCHANGED vars
    BY <1>6 DEF vars, Quiet, frontend, scheduler
  <1> QED
    BY <1>2, <1>3, <1>4, <1>5, <1>6 DEF Next, Tokenizer, Scheduler

LEMMA TypeInit == Init => TypeOK
  BY Bounds DEF Init, TypeOK, NoSeal

LEMMA TypeStep ==
    ASSUME TypeOK, LifeInv, AbortInv, [Next]_vars
    PROVE  TypeOK'
  <1> USE DEF TypeOK
  <1>1. CASE NewUser \/ NewUserUnsent
    <2>1. Msg("user", next) \in Message /\ next \in Nat /\ next + 1 \in 0..MaxUids /\ next \in 0..next
      <3>1. next \in Nat /\ next < MaxUids /\ MaxUids \in Nat
        BY <1>1, Known, Bounds DEF NewUser, NewUserUnsent, Enters
      <3>2. next \in Uid
        BY <3>1 DEF Uid
      <3>3. Msg("user", next) \in Message
        BY <3>2 DEF Msg, Message
      <3> QED
        BY <3>1, <3>3
    <2>2. 0..(next - 1) \subseteq 0..((next + 1) - 1) /\ next \in 0..((next + 1) - 1)
      BY <2>1
    <2> QED
      <3>1. CASE NewUser
        BY <2>1, <2>2, <3>1, Queue DEF NewUser, Enters, barrier, scheduler
      <3>2. CASE NewUserUnsent
        BY <2>1, <2>2, <3>2 DEF NewUserUnsent, Enters, barrier, scheduler
      <3> QED
        BY <1>1, <3>1, <3>2
  <1>2. CASE Listen
    <2>1. /\ toFront # <<>> /\ Head(toFront) \in Page /\ Tail(toFront) \in Seq(Page)
      BY <1>2, Queue DEF Listen, Page
    <2>2. story' \in [Uid -> Seq(Reply)] /\ \A u \in Uid \ open : story'[u] = <<>>
      <3>1. \A u \in Uid : story[u] \in Seq(Reply) /\ Head(toFront)[u] \in Seq(Reply)
        BY <2>1 DEF Page
      <3>2. \A s, r \in Seq(Reply) : s \o r \in Seq(Reply)
        OBVIOUS
      <3>3. \A u \in Uid : story[u] \o Head(toFront)[u] \in Seq(Reply)
        BY <3>1, <3>2
      <3>4. story' = [u \in Uid |-> IF u \in open THEN story[u] \o Head(toFront)[u] ELSE story[u]]
        BY <1>2 DEF Listen
      <3> QED
        BY <3>1, <3>3, <3>4
    <2>3. prompts' \in Nat /\ completions' \in Nat
      <3>1. \A k : Said(Head(toFront), k) \subseteq Uid \X (1..Rounds)
        BY DEF Said
      <3>2. \A k : Cardinality(Said(Head(toFront), k)) \in Nat
        BY <3>1, Bounds, FS_Subset, FS_CardinalityType
      <3>3. prompts \in Nat /\ completions \in Nat
        OBVIOUS
      <3>4. /\ prompts' = prompts + Cardinality(Said(Head(toFront), "admit"))
            /\ completions' = completions + Cardinality(Said(Head(toFront), "text"))
        BY <1>2 DEF Listen
      <3>5. \A x, y \in Nat : x + y \in Nat
        OBVIOUS
      <3> QED
        BY <3>2, <3>3, <3>4, <3>5
    <2>4. aborting' \subseteq inflight' /\ inflight' \subseteq 0..(next - 1)
      BY <1>2 DEF Listen
    <2> QED
      BY <1>2, <2>1, <2>2, <2>3, <2>4 DEF Listen, barrier, scheduler, Page
  <1>3. ASSUME NEW u \in Uid, AbortUser(u) PROVE TypeOK'
    <2>1. Msg("abort", u) \in Message
      BY DEF Msg, Message
    <2>2. story' \in [Uid -> Seq(Reply)] /\ \A v \in Uid \ open' : story'[v] = <<>>
      BY <1>3 DEF AbortUser
    <2> QED
      BY <1>3, <2>1, <2>2, Queue DEF AbortUser, barrier, scheduler
  <1>4. CASE Tokenize
    <2>1. /\ fromFront # <<>> /\ Head(fromFront) \in Message /\ Tail(fromFront) \in Seq(Message)
      BY <1>4, Queue DEF Tokenize
    <2> DEFINE p == Refused(Head(fromFront).uid)
    <2>2. p \in Page
      BY RefusalSays
    <2> HIDE DEF p
    <2>3. Append(toBack, Head(fromFront)) \in Seq(Message) /\ Append(toFront, p) \in Seq(Page)
      BY <2>1, <2>2, Queue DEF Page
    <2>4. toBack' \in Seq(Message) /\ toFront' \in Seq(Page)
      BY <1>4, <2>3 DEF Tokenize, Refused, Page, p
    <2> QED
      BY <1>4, <2>1, <2>4 DEF Tokenize, frontend, barrier, scheduler, Page
  <1>5. CASE PassAbort
    <2>1. /\ fromFront # <<>> /\ Head(fromFront) \in Message /\ Tail(fromFront) \in Seq(Message)
      BY <1>5, Queue DEF PassAbort
    <2>2. Append(toBack, Head(fromFront)) \in Seq(Message) /\ decode' \in [Uid -> Nat]
      BY <1>5, <2>1, Queue DEF PassAbort
    <2> QED
      BY <1>5, <2>1, <2>2 DEF PassAbort, frontend, barrier, scheduler
  <1>6. CASE Detokenize
    <2>1. /\ fromBack # <<>> /\ Head(fromBack) \in Batch /\ Tail(fromBack) \in Seq(Batch)
      BY <1>6, Queue DEF Detokenize, Batch
    <2>2. toFront' \in Seq(Page)
      <3>1. toFront \in Seq(Page)
        BY DEF Page
      <3> QED
        BY <1>6, <2>1, <3>1, Pages, AdmissionsSay, TextSays, ErrorsSay DEF Detokenize
    <2>3. decode' \in [Uid -> Nat]
      <3>1. \A u \in Uid : Head(fromBack)[u].tokens \in Nat
        <4>1. \A r \in Report : r.tokens \in Nat
          BY Bounds DEF Report
        <4> QED
          BY <2>1, <4>1 DEF Batch
      <3> QED
        BY <1>6, <3>1 DEF Detokenize
    <2> QED
      BY <1>6, <2>1, <2>2, <2>3 DEF Detokenize, frontend, barrier, scheduler, Batch, Page
  <1>7. CASE Receive
    <2>1. PICK starting \in SUBSET About(toBack, "user") :
               /\ starting \subseteq Uid
               /\ ran' = ran \cup starting
               /\ active' = (active \cup starting) \ About(toBack, "abort")
               /\ Opening(starting) \in Batch
               /\ fromBack' = Put(fromBack, Opening(starting), Nothing)
      BY <1>7, Received
    <2>2. starting \subseteq 0..(next - 1)
      BY <2>1 DEF LifeInv, Asked
    <2>3. About(toBack, "abort") \subseteq 0..(next - 1)
      BY DEF AbortInv
    <2>4. fromBack' \in Seq(Batch)
      BY <2>1, PutQueue DEF Batch
    <2>5. toBack' \in Seq(Message) /\ turn' \in {"recv", "step"} /\ active' \subseteq ran'
      BY <1>7, <2>1 DEF Receive
    <2>6. ran' \cup dropped' \subseteq 0..(next - 1)
      BY <1>7, <2>1, <2>2, <2>3 DEF Receive
    <2> QED
      BY <1>7, <2>4, <2>5, <2>6 DEF Receive, frontend, barrier, Batch
  <1>8. CASE Step
    <2>1. PICK b \in Batch :
               /\ fromBack' = Put(fromBack, b, Nothing)
               /\ active' = {u \in active : b[u].end = "more"}
               /\ out' \in [Uid -> 0..MaxTokens] /\ left' \in [Uid -> 0..Chunks]
      BY <1>8, Stepped
    <2>2. fromBack' \in Seq(Batch)
      BY <2>1, PutQueue DEF Batch
    <2> QED
      BY <1>8, <2>1, <2>2 DEF Step, frontend, barrier, Batch
  <1>9. ASSUME NEW u \in Uid, Consumer(u) PROVE TypeOK'
    <2>1. Close(u)
      BY <1>9 DEF Consumer, Finish, BudgetSpent
    <2>2. story' \in [Uid -> Seq(Reply)] /\ \A v \in Uid \ open' : story'[v] = <<>>
      BY <2>1 DEF Close
    <2> QED
      BY <2>1, <2>2 DEF Close, barrier, scheduler
  <1>10. ASSUME NEW u \in Uid, Disconnect(u) PROVE TypeOK'
    <2>1. u \in 0..(next - 1)
      <3>1. u < next /\ next \in Nat /\ u \in Nat
        BY <1>10, Known DEF Disconnect
      <3> QED
        BY <3>1
    <2> QED
      BY <1>10, <2>1 DEF Disconnect, barrier, scheduler
  <1>11. CASE PrepareStop
    <2>1. stops' \in 0..MaxStops
      BY <1>11, Bounds DEF PrepareStop
    <2> QED
      BY <1>11, <2>1 DEF PrepareStop, scheduler
  <1>12. CASE Stopping
    <2>1. CASE Seal
      BY <2>1 DEF Seal, Snapshot, frontend, scheduler
    <2>2. CASE DrainTimeout
      BY <2>2, Known DEF DrainTimeout, scheduler
    <2>3. CASE AbortsSent
      BY <2>3 DEF AbortsSent, frontend, scheduler
    <2>4. CASE AbortTimeout
      BY <2>4 DEF AbortTimeout, frontend, scheduler
    <2> QED
      BY <1>12, <2>1, <2>2, <2>3, <2>4 DEF Stopping
  <1>13. CASE UNCHANGED vars
    BY <1>13 DEF vars, frontend, barrier, scheduler
  <1> QED
    BY <1>1, <1>2, <1>3, <1>4, <1>5, <1>6, <1>7, <1>8, <1>9, <1>10, <1>11, <1>12, <1>13
       DEF Next, Tokenizer, Scheduler

----------------------------------------------------------------------------
(* How what is said moves through the queues.                              *)

\* To whom a queue says something, after a message is put at its end or taken from its front.
LEMMA SpeakPut ==
    ASSUME NEW S, NEW q \in Seq(S), NEW b \in S, NEW none, NEW u \in Uid
    PROVE  (\E j \in DOMAIN Put(q, b, none) : Put(q, b, none)[j][u] # none)
              <=> (\E j \in DOMAIN q : q[j][u] # none) \/ b[u] # none
  <1>1. /\ \A j \in DOMAIN q : j \in DOMAIN Put(q, b, none) /\ Put(q, b, none)[j] = q[j]
        /\ \A j \in DOMAIN Put(q, b, none) :
              j \in DOMAIN q \/ (j = Len(q) + 1 /\ Put(q, b, none)[j] = b)
        /\ b[u] # none => Len(q) + 1 \in DOMAIN Put(q, b, none) /\ Put(q, b, none)[Len(q) + 1] = b
    BY PutQueue
  <1> QED
    BY <1>1

LEMMA SpeakTail ==
    ASSUME NEW S, NEW q \in Seq(S), q # <<>>, NEW none, NEW u
    PROVE  (\E j \in DOMAIN q : q[j][u] # none)
              <=> Head(q)[u] # none \/ \E j \in DOMAIN Tail(q) : Tail(q)[j][u] # none
  <1>1. /\ DOMAIN q = 1..Len(q) /\ Len(q) \in Nat /\ Head(q) = q[1] /\ 1 \in DOMAIN q
        /\ DOMAIN Tail(q) = 1..(Len(q) - 1)
        /\ \A j \in DOMAIN Tail(q) : j + 1 \in DOMAIN q /\ Tail(q)[j] = q[j + 1]
    BY Queue
  <1>2. \A j \in DOMAIN q : j = 1 \/ (j - 1 \in DOMAIN Tail(q) /\ Tail(q)[j - 1] = q[j])
    BY <1>1
  <1>3. ASSUME NEW j \in DOMAIN q, q[j][u] # none
        PROVE  Head(q)[u] # none \/ \E k \in DOMAIN Tail(q) : Tail(q)[k][u] # none
    <2>1. CASE j = 1
      BY <1>1, <1>3, <2>1
    <2>2. CASE j - 1 \in DOMAIN Tail(q) /\ Tail(q)[j - 1] = q[j]
      BY <1>3, <2>2
    <2> QED
      BY <1>2, <2>1, <2>2
  <1> QED
    BY <1>1, <1>3

\* The user messages and aborts that are about somebody, and to whom something is on its way:
\* what each action changes of it.
LEMMA MoveNewUser ==
    ASSUME TypeOK, NewUser
    PROVE  /\ next \in Uid /\ next < next + 1 /\ next' = next + 1
           /\ fromFront' = Append(fromFront, Msg("user", next)) /\ Msg("user", next) \in Message
           /\ About(fromFront', "user") = About(fromFront, "user") \cup {next}
           /\ About(fromFront', "abort") = About(fromFront, "abort")
           /\ UNCHANGED <<fromBack, toBack, toFront, decode, active, ran, dropped, story>>
           /\ open' = open \cup {next} /\ inflight' = inflight \cup {next}
  <1>1. next \in Nat /\ next < MaxUids /\ MaxUids \in Nat
    BY Known, Bounds DEF NewUser, Enters
  <1>2. next \in Uid
    BY <1>1 DEF Uid
  <1>3. Msg("user", next) \in Message /\ Msg("user", next).kind = "user" /\ Msg("user", next).uid = next
    BY <1>2 DEF Msg, Message
  <1>4. fromFront \in Seq(Message) /\ fromFront' = Append(fromFront, Msg("user", next))
    BY DEF TypeOK, NewUser
  <1>5. \A k : About(fromFront', k) =
               About(fromFront, k) \cup (IF Msg("user", next).kind = k THEN {Msg("user", next).uid} ELSE {})
    BY <1>3, <1>4, AboutGrows
  <1>6. /\ About(fromFront', "user") = About(fromFront, "user") \cup {next}
        /\ About(fromFront', "abort") = About(fromFront, "abort")
    BY <1>3, <1>5
  <1>7. /\ UNCHANGED <<fromBack, toBack, toFront, decode, active, ran, dropped, story>>
        /\ open' = open \cup {next} /\ inflight' = inflight \cup {next} /\ next' = next + 1
    BY DEF NewUser, Enters, scheduler
  <1> QED
    BY <1>1, <1>2, <1>3, <1>4, <1>6, <1>7

\* A request whose message cannot be sent enters the frontend's maps and no queue.
LEMMA MoveUnsent ==
    ASSUME TypeOK, NewUserUnsent
    PROVE  /\ next \in Uid /\ next < next + 1 /\ next' = next + 1
           /\ UNCHANGED <<fromFront, fromBack, toBack, toFront, decode, active, ran, dropped, story>>
           /\ open' = open \cup {next} /\ inflight' = inflight \cup {next}
  <1>1. next \in Nat /\ next < MaxUids /\ MaxUids \in Nat
    BY Known, Bounds DEF NewUserUnsent, Enters
  <1>2. next \in Uid
    BY <1>1 DEF Uid
  <1> QED
    BY <1>1, <1>2 DEF NewUserUnsent, Enters, scheduler

LEMMA MoveAbortUser ==
    ASSUME TypeOK, NEW u \in Uid, AbortUser(u)
    PROVE  /\ u \in 0..(next - 1) /\ Msg("abort", u) \in Message
           /\ fromFront' = Append(fromFront, Msg("abort", u))
           /\ About(fromFront', "user") = About(fromFront, "user")
           /\ About(fromFront', "abort") = About(fromFront, "abort") \cup {u}
           /\ open' = open \ {u} /\ \A v \in Uid : story'[v] = IF v = u THEN <<>> ELSE story[v]
           /\ UNCHANGED <<next, inflight, fromBack, toBack, toFront, decode, active, ran, dropped>>
  <1>1. Msg("abort", u) \in Message /\ Msg("abort", u).kind = "abort" /\ Msg("abort", u).uid = u
    BY DEF Msg, Message
  <1>2. fromFront \in Seq(Message) /\ fromFront' = Append(fromFront, Msg("abort", u))
    BY DEF TypeOK, AbortUser
  <1>3. \A k : About(fromFront', k) =
               About(fromFront, k) \cup (IF Msg("abort", u).kind = k THEN {Msg("abort", u).uid} ELSE {})
    BY <1>1, <1>2, AboutGrows
  <1>4. u \in 0..(next - 1) /\ story \in [Uid -> Seq(Reply)]
    BY DEF TypeOK, AbortUser
  <1> QED
    BY <1>1, <1>2, <1>3, <1>4 DEF AbortUser, scheduler

LEMMA MoveListen ==
    ASSUME TypeOK, Listen
    PROVE  /\ toFront \in Seq(Page) /\ toFront # <<>> /\ Head(toFront) \in Page
           /\ toFront' = Tail(toFront) /\ Tail(toFront) \in Seq(Page)
           /\ \A u \in Uid : Arriving(u) <=> Head(toFront)[u] # <<>> \/ Arriving(u)'
           /\ inflight' = inflight \ Ended(Head(toFront))
           /\ \A u \in Uid : story'[u] = IF u \in open THEN story[u] \o Head(toFront)[u] ELSE story[u]
           /\ UNCHANGED <<next, open, fromFront, fromBack, toBack, decode, active, ran, dropped>>
  <1>1. toFront \in Seq(Page) /\ toFront # <<>> /\ toFront' = Tail(toFront)
    BY DEF TypeOK, Listen, Page
  <1>2. Head(toFront) \in Page /\ Tail(toFront) \in Seq(Page)
    BY <1>1, Queue
  <1>3. \A u \in Uid : Arriving(u) <=> Head(toFront)[u] # <<>> \/ Arriving(u)'
    BY <1>1, SpeakTail DEF Arriving
  <1> QED
    BY <1>1, <1>2, <1>3 DEF Listen, scheduler

LEMMA MoveTokenize ==
    ASSUME TypeOK, Tokenize, NEW u, u = Head(fromFront).uid
    PROVE  /\ fromFront # <<>> /\ Head(fromFront) \in Message /\ u \in Uid
           /\ Head(fromFront) = Msg("user", u) /\ fromFront' = Tail(fromFront)
           /\ toFront \in Seq(Page) /\ Refused(u) \in Page
           /\ About(fromFront, "user") = About(fromFront', "user") \cup {u}
           /\ About(fromFront, "abort") = About(fromFront', "abort")
           /\ About(toBack', "abort") = About(toBack, "abort")
           /\ \/ /\ toBack' = Append(toBack, Head(fromFront)) /\ toFront' = toFront
                 /\ About(toBack', "user") = About(toBack, "user") \cup {u}
              \/ /\ toBack' = toBack /\ toFront' = Append(toFront, Refused(u))
                 /\ toFront' = Put(toFront, Refused(u), <<>>)
                 /\ \A v \in Uid : Arriving(v)' <=> Arriving(v) \/ v = u
           /\ UNCHANGED <<next, open, inflight, fromBack, decode, active, ran, dropped, story>>
  <1>1. /\ fromFront \in Seq(Message) /\ toBack \in Seq(Message) /\ toFront \in Seq(Page)
        /\ fromFront # <<>> /\ Head(fromFront) \in Message /\ Head(fromFront).kind = "user"
    BY Queue DEF TypeOK, Tokenize, Page
  <1>2. u \in Uid /\ Head(fromFront) = Msg("user", u)
    BY <1>1, MessageIs
  <1>3. \A k : About(fromFront, k) =
               About(Tail(fromFront), k) \cup (IF Head(fromFront).kind = k THEN {Head(fromFront).uid} ELSE {})
    BY <1>1, AboutShrinks
  <1>4. \A k : About(Append(toBack, Head(fromFront)), k) =
               About(toBack, k) \cup (IF Head(fromFront).kind = k THEN {Head(fromFront).uid} ELSE {})
    BY <1>1, AboutGrows
  <1>5. CASE toBack' = Append(toBack, Head(fromFront)) /\ toFront' = toFront
    BY <1>1, <1>2, <1>3, <1>4, <1>5, RefusalSays DEF Tokenize, frontend, scheduler
  <1>6. CASE toBack' = toBack /\ toFront' = Append(toFront, Refused(u))
    <2>1. Refused(u) \in Page /\ Refused(u)[u] # <<>> /\ \A v \in Uid : Refused(u)[v] # <<>> <=> v = u
      BY <1>2, RefusalSays
    <2>2. toFront' = Put(toFront, Refused(u), <<>>)
      BY <1>2, <1>6, <2>1 DEF Put
    <2>3. \A v \in Uid : Arriving(v)' <=> Arriving(v) \/ v = u
      BY <1>1, <2>1, <2>2, SpeakPut DEF Arriving
    <2> QED
      BY <1>1, <1>2, <1>3, <1>6, <2>1, <2>2, <2>3 DEF Tokenize, frontend, scheduler
  <1> QED
    BY <1>5, <1>6 DEF Tokenize, Refused

LEMMA MovePassAbort ==
    ASSUME TypeOK, PassAbort, NEW u, u = Head(fromFront).uid
    PROVE  /\ fromFront # <<>> /\ Head(fromFront) \in Message /\ u \in Uid
           /\ Head(fromFront) = Msg("abort", u) /\ fromFront' = Tail(fromFront)
           /\ toBack' = Append(toBack, Head(fromFront))
           /\ About(fromFront, "user") = About(fromFront', "user")
           /\ About(fromFront, "abort") = About(fromFront', "abort") \cup {u}
           /\ About(toBack', "user") = About(toBack, "user")
           /\ About(toBack', "abort") = About(toBack, "abort") \cup {u}
           /\ \A v \in Uid : decode'[v] = IF v = u THEN 0 ELSE decode[v]
           /\ UNCHANGED <<next, open, inflight, fromBack, toFront, active, ran, dropped, story>>
  <1>1. /\ fromFront \in Seq(Message) /\ toBack \in Seq(Message) /\ decode \in [Uid -> Nat]
        /\ fromFront # <<>> /\ Head(fromFront) \in Message /\ Head(fromFront).kind = "abort"
    BY Queue DEF TypeOK, PassAbort
  <1>2. u \in Uid /\ Head(fromFront) = Msg("abort", u)
    BY <1>1, MessageIs
  <1>3. \A k : About(fromFront, k) =
               About(Tail(fromFront), k) \cup (IF Head(fromFront).kind = k THEN {Head(fromFront).uid} ELSE {})
    BY <1>1, AboutShrinks
  <1>4. \A k : About(Append(toBack, Head(fromFront)), k) =
               About(toBack, k) \cup (IF Head(fromFront).kind = k THEN {Head(fromFront).uid} ELSE {})
    BY <1>1, AboutGrows
  <1> QED
    BY <1>1, <1>2, <1>3, <1>4 DEF PassAbort, frontend, scheduler

LEMMA MoveDetokenize ==
    ASSUME TypeOK, Detokenize, NEW b, b = Head(fromBack)
    PROVE  /\ fromBack \in Seq(Batch) /\ fromBack # <<>> /\ b \in Batch
           /\ fromBack' = Tail(fromBack) /\ Tail(fromBack) \in Seq(Batch)
           /\ toFront \in Seq(Page) /\ toFront' = Regrouped(toFront, b)
           /\ Admissions(b) \in Page /\ Detokenized(b) \in Page /\ Errors(b) \in Page
           /\ \A u \in Uid : /\ Rising(u) <=> b[u] # Nothing \/ Rising(u)'
                             /\ Arriving(u)' => Arriving(u) \/ b[u] # Nothing
                             /\ b[u] = Nothing => /\ Admissions(b)[u] = <<>>
                                                  /\ Detokenized(b)[u] = <<>> /\ Errors(b)[u] = <<>>
                             /\ decode'[u] = IF b[u].end # "more" THEN 0 ELSE decode[u] + b[u].tokens
           /\ UNCHANGED <<next, open, inflight, fromFront, toBack, active, ran, dropped, story>>
  <1>1. /\ fromBack \in Seq(Batch) /\ toFront \in Seq(Page) /\ decode \in [Uid -> Nat]
        /\ fromBack # <<>> /\ fromBack' = Tail(fromBack) /\ toFront' = Regrouped(toFront, b)
    BY DEF TypeOK, Detokenize, Batch, Page
  <1>2. b \in Batch /\ Tail(fromBack) \in Seq(Batch)
    BY <1>1, Queue
  <1>3. Admissions(b) \in Page /\ Detokenized(b) \in Page /\ Errors(b) \in Page
    BY <1>1, <1>2, AdmissionsSay, TextSays, ErrorsSay
  <1>4. \A u \in Uid : b[u] = Nothing =>
            Admissions(b)[u] = <<>> /\ Detokenized(b)[u] = <<>> /\ Errors(b)[u] = <<>>
    BY <1>1, <1>2, AdmissionsSay, TextSays, ErrorsSay, NothingIs
  <1>5. \A u \in Uid : Rising(u) <=> b[u] # Nothing \/ Rising(u)'
    <2>1. \A u \in Uid : (\E j \in DOMAIN fromBack : fromBack[j][u] # Nothing)
              <=> Head(fromBack)[u] # Nothing \/ \E j \in DOMAIN Tail(fromBack) : Tail(fromBack)[j][u] # Nothing
      <3>1. fromBack \in Seq(Batch) /\ fromBack # <<>>
        BY <1>1
      <3> QED
        BY <3>1, SpeakTail
    <2> QED
      BY <1>1, <2>1 DEF Rising
  <1>6. \A u \in Uid : Arriving(u)' => Arriving(u) \/ b[u] # Nothing
    <2>1. \A j \in DOMAIN toFront' : \/ j \in DOMAIN toFront /\ toFront'[j] = toFront[j]
                                     \/ toFront'[j] \in {Admissions(b), Detokenized(b), Errors(b)}
      BY <1>1, <1>3, Pages
    <2> QED
      BY <1>4, <2>1 DEF Arriving
  <1>7. \A u \in Uid : decode'[u] = IF b[u].end # "more" THEN 0 ELSE decode[u] + b[u].tokens
    BY DEF Detokenize, Released
  <1> QED
    BY <1>1, <1>2, <1>3, <1>4, <1>5, <1>6, <1>7 DEF Detokenize, frontend, scheduler

LEMMA MoveReceive ==
    ASSUME TypeOK, AbortInv, Receive
    PROVE  \E starting \in SUBSET About(toBack, "user"), b \in Batch :
               /\ starting \subseteq Uid /\ b = Opening(starting)
               /\ fromBack \in Seq(Batch) /\ fromBack' = Put(fromBack, b, Nothing)
               /\ ran' = ran \cup starting
               /\ active' = (active \cup starting) \ About(toBack, "abort")
               /\ dropped' = dropped \cup About(toBack, "abort")
               /\ toBack' = <<>> /\ About(toBack', "user") = {} /\ About(toBack', "abort") = {}
               /\ \A u \in Uid : /\ Rising(u)' <=> Rising(u) \/ b[u] # Nothing
                                 /\ b[u] # Nothing => u \in About(toBack, "user")
               /\ UNCHANGED <<next, open, inflight, fromFront, toFront, decode, story>>
  <1>1. PICK starting \in SUBSET About(toBack, "user") :
               /\ starting \subseteq Uid
               /\ ran' = ran \cup starting
               /\ active' = (active \cup starting) \ About(toBack, "abort")
               /\ Opening(starting) \in Batch
               /\ fromBack' = Put(fromBack, Opening(starting), Nothing)
    BY Received
  <1> DEFINE b == Opening(starting)
  <1>2. fromBack \in Seq(Batch)
    BY DEF TypeOK, Batch
  <1>3. \A u \in Uid : b[u] # Nothing => u \in About(toBack, "user")
    BY <1>1, OpeningSays
  <1>4. toBack' = <<>> /\ \A k : About(toBack', k) = {}
    BY DEF Receive, About
  <1>5. fromBack' = Put(fromBack, b, Nothing) /\ b \in Batch
    BY <1>1
  <1> HIDE DEF b
  <1>6. \A u \in Uid : Rising(u)' <=> Rising(u) \/ b[u] # Nothing
    BY <1>2, <1>5, SpeakPut DEF Rising
  <1>7. dropped' = dropped \cup About(toBack, "abort")
    BY DEF Receive
  <1>8. UNCHANGED <<next, open, inflight, fromFront, toFront, decode, story>>
    BY DEF Receive, frontend
  <1> QED
    BY <1>1, <1>2, <1>3, <1>4, <1>5, <1>6, <1>7, <1>8 DEF b

LEMMA MoveStep ==
    ASSUME TypeOK, Step
    PROVE  \E b \in Batch :
               /\ fromBack \in Seq(Batch) /\ fromBack' = Put(fromBack, b, Nothing)
               /\ active' = {u \in active : b[u].end = "more"}
               /\ out' = [u \in Uid |-> out[u] + b[u].tokens] /\ out' \in [Uid -> 0..MaxTokens]
               /\ Started(b) = {}
               /\ \A u \in Uid : /\ ~b[u].admitted /\ (u \notin active => b[u] = Nothing)
                                 /\ b[u].end = "last" => b[u].tokens > 0
                                 /\ Rising(u)' <=> Rising(u) \/ b[u] # Nothing
               /\ UNCHANGED <<next, open, inflight, prompts, completions, fromFront, toBack, toFront,
                              decode, ran, dropped, story>>
  <1>1. PICK b \in Batch :
               /\ fromBack' = Put(fromBack, b, Nothing)
               /\ active' = {u \in active : b[u].end = "more"}
               /\ out' = [u \in Uid |-> out[u] + b[u].tokens] /\ out' \in [Uid -> 0..MaxTokens]
               /\ Started(b) = {}
               /\ \A u \in Uid : /\ ~b[u].admitted /\ (u \notin active => b[u] = Nothing)
                                 /\ b[u].end = "last" => b[u].tokens > 0
    BY Stepped
  <1>2. fromBack \in Seq(Batch)
    BY DEF TypeOK, Batch
  <1>3. \A u \in Uid : Rising(u)' <=> Rising(u) \/ b[u] # Nothing
    BY <1>1, <1>2, SpeakPut DEF Rising
  <1>4. UNCHANGED <<next, open, inflight, prompts, completions, fromFront, toBack, toFront,
                    decode, ran, dropped, story>>
    BY DEF Step, frontend
  <1> QED
    BY <1>1, <1>2, <1>3, <1>4

----------------------------------------------------------------------------
(* Requests and aborts on their way down.                                  *)

Once(q) == \A i, j \in DOMAIN q : q[i].kind = "user" /\ q[i] = q[j] => i = j
Behind(q) == \A i, j \in DOMAIN q : q[i].kind = "abort" /\ q[j] = Msg("user", q[i].uid) => j < i

\* A request that is new to a queue can be put at its end, and so can an abort.
LEMMA DownPut ==
    ASSUME NEW q \in Seq(Message), NEW m \in Message,
           m.kind = "user" => m.uid \notin About(q, "user") /\ m.uid \notin About(q, "abort"),
           Once(q), Behind(q)
    PROVE  Once(Append(q, m)) /\ Behind(Append(q, m))
  <1> DEFINE r == Append(q, m)
  <1>1. /\ DOMAIN q = 1..Len(q) /\ Len(q) \in Nat /\ \A j \in DOMAIN q : q[j] \in Message
        /\ DOMAIN r = 1..(Len(q) + 1)
        /\ \A j \in DOMAIN q : r[j] = q[j]
        /\ r[Len(q) + 1] = m
    BY Queue
  <1> HIDE DEF r
  <1>2. \A j \in DOMAIN r : (j \in DOMAIN q /\ r[j] = q[j] /\ j < Len(q) + 1) \/ (j = Len(q) + 1 /\ r[j] = m)
    BY <1>1
  <1>3. ASSUME NEW i \in DOMAIN q, q[i] = m PROVE m.kind # "user"
    BY <1>3, AboutIs
  <1>4. Once(r)
    BY <1>2, <1>3 DEF Once
  <1>5. ASSUME NEW i \in DOMAIN r, NEW j \in DOMAIN r, r[i].kind = "abort", r[j] = Msg("user", r[i].uid)
        PROVE  j < i
    <2>1. CASE i \in DOMAIN q /\ r[i] = q[i] /\ j \in DOMAIN q /\ r[j] = q[j]
      BY <1>5, <2>1 DEF Behind
    <2>2. CASE i = Len(q) + 1 /\ r[i] = m
      <3>1. m.kind # "user"
        BY <1>5, <2>2
      <3>2. j # Len(q) + 1
        BY <1>1, <1>5, <2>2 DEF Msg
      <3> QED
        BY <1>2, <2>2, <3>2
    <2>3. CASE i \in DOMAIN q /\ r[i] = q[i] /\ j = Len(q) + 1 /\ r[j] = m
      <3>1. m.kind = "user" /\ m.uid = q[i].uid
        BY <1>5, <2>3 DEF Msg
      <3>2. q[i].uid \in About(q, "abort")
        BY <1>5, <2>3, AboutIs
      <3> QED
        BY <3>1, <3>2
    <2> QED
      BY <1>2, <2>1, <2>2, <2>3
  <1> QED
    BY <1>4, <1>5 DEF Behind, r

\* At the front of a queue a request is the only one of its uid, and no request of the uid of
\* an abort is left.
LEMMA DownTail ==
    ASSUME NEW q \in Seq(Message), q # <<>>, Once(q), Behind(q)
    PROVE  /\ Once(Tail(q)) /\ Behind(Tail(q))
           /\ Head(q).kind = "user" => Head(q).uid \notin About(Tail(q), "user")
           /\ Head(q).kind = "abort" => Head(q).uid \notin About(q, "user")
  <1>1. /\ DOMAIN q = 1..Len(q) /\ Len(q) \in Nat /\ Head(q) = q[1] /\ 1 \in DOMAIN q
        /\ DOMAIN Tail(q) = 1..(Len(q) - 1) /\ \A j \in DOMAIN q : q[j] \in Message
        /\ \A j \in DOMAIN Tail(q) : j + 1 \in DOMAIN q /\ Tail(q)[j] = q[j + 1]
    BY Queue
  <1>2. \A j \in DOMAIN Tail(q) : j \in Nat /\ j + 1 # 1
    BY <1>1
  <1>3. Once(Tail(q))
    BY <1>1, <1>2 DEF Once
  <1>4. Behind(Tail(q))
    BY <1>1, <1>2 DEF Behind
  <1>5. ASSUME Head(q).kind = "user", Head(q).uid \in About(Tail(q), "user") PROVE FALSE
    <2>1. PICK j \in DOMAIN Tail(q) : Tail(q)[j].kind = "user" /\ Tail(q)[j].uid = Head(q).uid
      BY <1>5 DEF About
    <2>2. q[j + 1] = q[1]
      BY <1>1, <1>5, <2>1 DEF Message
    <2> QED
      BY <1>1, <1>2, <1>5, <2>2 DEF Once
  <1>6. ASSUME Head(q).kind = "abort", Head(q).uid \in About(q, "user") PROVE FALSE
    <2>1. PICK j \in DOMAIN q : q[j].kind = "user" /\ q[j].uid = Head(q).uid
      BY <1>6, AboutIs
    <2>2. q[j] = Msg("user", q[1].uid)
      BY <1>1, <2>1, MessageIs
    <2> QED
      BY <1>1, <1>6, <2>2 DEF Behind
  <1> QED
    BY <1>3, <1>4, <1>5, <1>6

LEMMA AskIs ==
    /\ AskInv => Once(fromFront) /\ Once(toBack)
    /\ AbortInv => Behind(fromFront) /\ Behind(toBack)
  BY DEF AskInv, AbortInv, Once, Behind

LEMMA AskInit == Init => AskInv /\ LifeInv /\ EndInv /\ AbortInv /\ DecodeInv /\ SealInv
  <1> SUFFICES ASSUME Init PROVE AskInv /\ LifeInv /\ EndInv /\ AbortInv /\ DecodeInv /\ SealInv
    OBVIOUS
  <1> USE DEF Init
  <1>1. \A k : About(fromFront, k) = {} /\ About(toBack, k) = {}
    BY DEF About
  <1>2. \A u \in Uid : ~Asked(u) /\ ~Rising(u) /\ ~Arriving(u)
    BY <1>1 DEF Asked, Rising, Arriving
  <1>3. DOMAIN fromFront = {} /\ DOMAIN toBack = {} /\ DOMAIN fromBack = {} /\ DOMAIN toFront = {}
    OBVIOUS
  <1>4. AskInv
    BY <1>1, <1>2, <1>3 DEF AskInv
  <1>5. LifeInv
    BY <1>2 DEF LifeInv
  <1>6. EndInv
    BY <1>3 DEF EndInv
  <1>7. AbortInv
    BY <1>1, <1>3 DEF AbortInv
  <1>8. DecodeInv
    BY <1>2, <1>3 DEF DecodeInv
  <1>9. SealInv
    BY DEF SealInv, NoSeal
  <1> QED
    BY <1>4, <1>5, <1>6, <1>7, <1>8, <1>9

\* The order of requests and aborts in the two queues.
LEMMA DownStep ==
    ASSUME TypeOK, AskInv, LifeInv, AbortInv, [Next]_vars
    PROVE  /\ Once(fromFront)' /\ Behind(fromFront)' /\ Once(toBack)' /\ Behind(toBack)'
           /\ About(fromFront', "user") \cap About(toBack', "user") = {}
           /\ About(toBack', "abort") \cap About(fromFront', "user") = {}
  <1>0. /\ fromFront \in Seq(Message) /\ toBack \in Seq(Message)
        /\ Once(fromFront) /\ Behind(fromFront) /\ Once(toBack) /\ Behind(toBack)
    BY AskIs DEF TypeOK
  <1>1. /\ About(fromFront, "user") \cap About(toBack, "user") = {}
        /\ About(toBack, "abort") \cap About(fromFront, "user") = {}
    BY DEF AskInv, AbortInv
  <1>2. CASE NewUser
    <2>1. next \notin About(fromFront, "user") \cup About(toBack, "user")
      BY <1>2, MoveNewUser, Known DEF LifeInv, Asked
    <2>2. next \notin About(fromFront, "abort") \cup About(toBack, "abort")
      BY <1>2, MoveNewUser, Known DEF AbortInv
    <2>3. Msg("user", next).uid = next
      BY DEF Msg
    <2>4. Once(fromFront)' /\ Behind(fromFront)'
      <3>1. Msg("user", next) \in Message /\ fromFront' = Append(fromFront, Msg("user", next))
        BY <1>2, MoveNewUser
      <3>2. Once(Append(fromFront, Msg("user", next))) /\ Behind(Append(fromFront, Msg("user", next)))
        BY <1>0, <2>1, <2>2, <2>3, <3>1, DownPut
      <3> QED
        BY <3>1, <3>2
    <2> QED
      BY <1>0, <1>1, <1>2, <2>1, <2>2, <2>4, MoveNewUser
  <1>3. ASSUME NEW u \in Uid, AbortUser(u)
        PROVE  /\ Once(fromFront)' /\ Behind(fromFront)' /\ Once(toBack)' /\ Behind(toBack)'
               /\ About(fromFront', "user") \cap About(toBack', "user") = {}
               /\ About(toBack', "abort") \cap About(fromFront', "user") = {}
    <2>1. Msg("abort", u).kind # "user"
      BY DEF Msg
    <2>2. Once(fromFront)' /\ Behind(fromFront)'
      <3>1. Msg("abort", u) \in Message /\ fromFront' = Append(fromFront, Msg("abort", u))
        BY <1>3, MoveAbortUser
      <3>2. Once(Append(fromFront, Msg("abort", u))) /\ Behind(Append(fromFront, Msg("abort", u)))
        BY <1>0, <2>1, <3>1, DownPut
      <3> QED
        BY <3>1, <3>2
    <2> QED
      BY <1>0, <1>1, <1>3, <2>2, MoveAbortUser
  <1>4. CASE Tokenize
    <2> DEFINE m == Head(fromFront)
    <2>1. /\ fromFront # <<>> /\ m \in Message /\ m.kind = "user" /\ fromFront' = Tail(fromFront)
          /\ About(fromFront, "user") = About(fromFront', "user") \cup {m.uid}
          /\ About(toBack', "abort") = About(toBack, "abort")
          /\ \/ toBack' = Append(toBack, m) /\ About(toBack', "user") = About(toBack, "user") \cup {m.uid}
             \/ toBack' = toBack
      BY <1>4, MoveTokenize DEF Tokenize
    <2> HIDE DEF m
    <2>2. /\ Once(Tail(fromFront)) /\ Behind(Tail(fromFront))
          /\ m.uid \notin About(Tail(fromFront), "user")
      BY <1>0, <2>1, DownTail DEF m
    <2>3. m.uid \notin About(toBack, "user") \cup About(toBack, "abort")
      BY <1>1, <2>1
    <2>4. Once(toBack)' /\ Behind(toBack)'
      <3>1. Once(Append(toBack, m)) /\ Behind(Append(toBack, m))
        BY <1>0, <2>1, <2>3, DownPut
      <3> QED
        BY <1>0, <2>1, <3>1
    <2> QED
      BY <1>1, <2>1, <2>2, <2>3, <2>4
  <1>5. CASE PassAbort
    <2> DEFINE m == Head(fromFront)
    <2>1. /\ fromFront # <<>> /\ m \in Message /\ m.kind = "abort" /\ fromFront' = Tail(fromFront)
          /\ About(fromFront, "user") = About(fromFront', "user")
          /\ About(toBack', "user") = About(toBack, "user")
          /\ About(toBack', "abort") = About(toBack, "abort") \cup {m.uid}
          /\ toBack' = Append(toBack, m)
      BY <1>5, MovePassAbort DEF PassAbort
    <2> HIDE DEF m
    <2>2. Once(Tail(fromFront)) /\ Behind(Tail(fromFront)) /\ m.uid \notin About(fromFront, "user")
      BY <1>0, <2>1, DownTail DEF m
    <2>3. Once(toBack)' /\ Behind(toBack)'
      <3>1. Once(Append(toBack, m)) /\ Behind(Append(toBack, m))
        BY <1>0, <2>1, DownPut
      <3> QED
        BY <2>1, <3>1
    <2> QED
      BY <1>1, <2>1, <2>2, <2>3
  <1>6. CASE Receive
    <2>1. toBack' = <<>> /\ fromFront' = fromFront /\ About(toBack', "user") = {} /\ About(toBack', "abort") = {}
      BY <1>6, MoveReceive
    <2>2. Once(toBack)' /\ Behind(toBack)'
      BY <2>1 DEF Once, Behind
    <2> QED
      BY <1>0, <2>1, <2>2
  <1>7. CASE UNCHANGED <<fromFront, toBack>>
    BY <1>0, <1>1, <1>7
  <1>8. NewUserUnsent \/ Listen \/ Detokenize \/ Step \/ Quiet => UNCHANGED <<fromFront, toBack>>
    BY MoveUnsent DEF Listen, Detokenize, Step, Quiet, frontend
  <1> QED
    BY <1>2, <1>3, <1>4, <1>5, <1>6, <1>7, <1>8, Steps

----------------------------------------------------------------------------
(* Where a request can be.                                                 *)

LEMMA UnheardIs ==
    ASSUME AskInv, NEW u \in Uid, Asked(u) \/ u >= next
    PROVE  u \notin ran /\ ~Rising(u) /\ ~Arriving(u) /\ decode[u] = 0 /\ story[u] = <<>>
  BY DEF AskInv

\* Nothing comes of a request before the scheduler takes it.
LEMMA UnheardStep ==
    ASSUME TypeOK, AskInv, LifeInv, AbortInv, [Next]_vars, NEW u \in Uid, (Asked(u) \/ u >= next)'
    PROVE  u \notin ran' /\ ~Rising(u)' /\ ~Arriving(u)' /\ decode'[u] = 0 /\ story'[u] = <<>>
  <1>1. \A v \in Uid : Asked(v) => v < next
    BY Known DEF LifeInv
  <1>2. next \in Nat /\ \A v \in Uid : v \in Nat
    BY Known
  <1>3. active \subseteq ran /\ active \subseteq Uid
    BY Known DEF TypeOK
  <1>4. CASE NewUser \/ NewUserUnsent
    <2>1. Asked(u) \/ u >= next
      BY <1>2, <1>4, MoveNewUser, MoveUnsent DEF Asked
    <2>2. UNCHANGED <<fromBack, toFront, decode, ran, story>>
      BY <1>4, MoveNewUser, MoveUnsent
    <2> QED
      BY <2>1, <2>2, UnheardIs DEF Rising, Arriving
  <1>5. CASE Listen
    <2>1. Asked(u) \/ u >= next
      BY <1>5, MoveListen DEF Asked
    <2>2. Head(toFront)[u] = <<>> /\ ~Arriving(u)'
      BY <1>5, <2>1, MoveListen, UnheardIs
    <2>3. story'[u] = <<>>
      <3>1. story[u] = <<>> /\ story'[u] = IF u \in open THEN story[u] \o Head(toFront)[u] ELSE story[u]
        BY <1>5, <2>1, MoveListen, UnheardIs
      <3>2. <<>> \o <<>> = <<>>
        OBVIOUS
      <3> QED
        BY <2>2, <3>1, <3>2
    <2> QED
      BY <1>5, <2>1, <2>2, <2>3, MoveListen, UnheardIs DEF Rising
  <1>6. ASSUME NEW v \in Uid, AbortUser(v)
        PROVE  u \notin ran' /\ ~Rising(u)' /\ ~Arriving(u)' /\ decode'[u] = 0 /\ story'[u] = <<>>
    <2>1. Asked(u) \/ u >= next
      BY <1>6, MoveAbortUser DEF Asked
    <2> QED
      BY <1>6, <2>1, MoveAbortUser, UnheardIs DEF Rising, Arriving
  <1>7. CASE Tokenize
    <2>0. PICK w : w = Head(fromFront).uid
      OBVIOUS
    <2>1. Asked(u) \/ u >= next
      BY <1>7, <2>0, MoveTokenize DEF Asked
    <2>2. UNCHANGED <<fromBack, decode, ran, story>>
      BY <1>7, <2>0, MoveTokenize
    <2>3. ~Arriving(u)'
      <3>1. CASE toFront' = toFront
        BY <2>1, <3>1, UnheardIs DEF Arriving
      <3>2. CASE toBack' = toBack /\ \A v \in Uid : Arriving(v)' <=> Arriving(v) \/ v = w
        <4>1. u # w
          <5>1. w \in Uid /\ w \in About(fromFront, "user")
            BY <1>7, <2>0, MoveTokenize
          <5>2. w < next
            BY <1>1, <5>1 DEF Asked
          <5>3. w \notin About(fromFront', "user") /\ w \notin About(toBack', "user") /\ next' = next
            <6>1. fromFront \in Seq(Message) /\ fromFront # <<>> /\ Once(fromFront) /\ Behind(fromFront)
              BY <1>7, <2>0, MoveTokenize, AskIs DEF TypeOK
            <6>2. Head(fromFront).kind = "user" /\ fromFront' = Tail(fromFront)
              BY <1>7 DEF Tokenize
            <6>3. w \notin About(Tail(fromFront), "user")
              BY <2>0, <6>1, <6>2, DownTail
            <6> QED
              BY <1>7, <2>0, <3>2, <5>1, <6>2, <6>3, MoveTokenize DEF AskInv
          <5> QED
            BY <1>2, <5>1, <5>2, <5>3 DEF Asked
        <4> QED
          BY <2>1, <3>2, <4>1, UnheardIs
      <3> QED
        BY <1>7, <2>0, <3>1, <3>2, MoveTokenize
    <2> QED
      BY <2>1, <2>2, <2>3, UnheardIs DEF Rising
  <1>8. CASE PassAbort
    <2>0. PICK w : w = Head(fromFront).uid
      OBVIOUS
    <2>1. Asked(u) \/ u >= next
      BY <1>8, <2>0, MovePassAbort DEF Asked
    <2> QED
      BY <1>8, <2>0, <2>1, MovePassAbort, UnheardIs DEF Rising, Arriving
  <1>9. CASE Detokenize
    <2>0. PICK b : b = Head(fromBack)
      OBVIOUS
    <2>1. Asked(u) \/ u >= next
      BY <1>9, <2>0, MoveDetokenize DEF Asked
    <2>2. b[u] = Nothing /\ ~Rising(u)' /\ ~Arriving(u)'
      BY <1>9, <2>0, <2>1, MoveDetokenize, UnheardIs
    <2>3. decode'[u] = 0
      BY <1>9, <2>0, <2>1, <2>2, MoveDetokenize, UnheardIs, NothingIs
    <2> QED
      BY <1>9, <2>0, <2>1, <2>2, <2>3, MoveDetokenize, UnheardIs
  <1>10. CASE Receive
    <2>1. PICK starting \in SUBSET About(toBack, "user"), b \in Batch :
               /\ ran' = ran \cup starting
               /\ About(toBack', "user") = {}
               /\ Rising(u)' <=> Rising(u) \/ b[u] # Nothing
               /\ b[u] # Nothing => u \in About(toBack, "user")
               /\ UNCHANGED <<next, fromFront, toFront, decode, story>>
      BY <1>10, MoveReceive
    <2>2. Asked(u) \/ u >= next
      BY <2>1 DEF Asked
    <2>3. u \notin About(toBack, "user")
      BY <1>1, <1>2, <2>1 DEF Asked, AskInv
    <2> QED
      BY <2>1, <2>2, <2>3, UnheardIs DEF Arriving
  <1>11. CASE Step
    <2>1. PICK b \in Batch :
               /\ u \notin active => b[u] = Nothing
               /\ Rising(u)' <=> Rising(u) \/ b[u] # Nothing
               /\ UNCHANGED <<next, fromFront, toBack, toFront, decode, ran, story>>
      BY <1>11, MoveStep
    <2>2. Asked(u) \/ u >= next
      BY <2>1 DEF Asked
    <2> QED
      BY <1>3, <2>1, <2>2, UnheardIs DEF Arriving
  <1>12. CASE Quiet
    <2>1. Asked(u) \/ u >= next
      BY <1>12 DEF Quiet, Asked
    <2> QED
      BY <1>12, <2>1, UnheardIs DEF Quiet, Rising, Arriving
  <1> QED
    BY <1>4, <1>5, <1>6, <1>7, <1>8, <1>9, <1>10, <1>11, <1>12, Steps

LEMMA AskStep ==
    ASSUME TypeOK, AskInv, LifeInv, AbortInv, [Next]_vars
    PROVE  AskInv'
  <1>1. /\ Once(fromFront)' /\ Once(toBack)'
        /\ About(fromFront', "user") \cap About(toBack', "user") = {}
    BY DownStep
  <1>2. (\A queue \in {fromFront, toBack} : Once(queue))'
    BY <1>1
  <1>3. (\A u \in Uid : Asked(u) \/ u >= next =>
           /\ u \notin ran /\ ~Rising(u) /\ ~Arriving(u)
           /\ decode[u] = 0 /\ story[u] = <<>>)'
    BY UnheardStep
  <1> QED
    BY <1>1, <1>2, <1>3 DEF AskInv, Once

\* Whatever is done or said about a request, it is in flight.
LEMMA LifeStep ==
    ASSUME TypeOK, AskInv, LifeInv, EndInv, AbortInv, [Next]_vars
    PROVE  LifeInv'
  <1> SUFFICES ASSUME NEW u \in Uid, (Asked(u) \/ u \in active \/ Rising(u) \/ Arriving(u))'
               PROVE  u \in inflight'
    BY DEF LifeInv
  <1>0. Asked(u) \/ u \in active \/ Rising(u) \/ Arriving(u) => u \in inflight
    BY DEF LifeInv
  <1>1. CASE NewUser \/ NewUserUnsent
    BY <1>0, <1>1, MoveNewUser, MoveUnsent DEF Asked, Rising, Arriving
  <1>2. CASE Listen
    <2> DEFINE b == Head(toFront)
    <2>1. /\ toFront \in Seq(Page) /\ toFront # <<>> /\ toFront' = Tail(toFront)
          /\ inflight' = inflight \ Ended(b)
          /\ Arriving(u) <=> b[u] # <<>> \/ Arriving(u)'
          /\ UNCHANGED <<fromFront, fromBack, toBack, active>>
      BY <1>2, MoveListen
    <2>2. u \in inflight
      BY <1>0, <2>1 DEF Asked, Rising
    <2>3. ASSUME u \in Ended(b) PROVE FALSE
      <3>1. /\ b = toFront[1] /\ 1 \in DOMAIN toFront /\ \A j \in DOMAIN Tail(toFront) :
                  j + 1 \in DOMAIN toFront /\ Tail(toFront)[j] = toFront[j + 1] /\ j + 1 > 1
        BY <2>1, Queue
      <3>2. u \notin active /\ ~Rising(u) /\ \A k \in DOMAIN toFront : k > 1 => toFront[k][u] = <<>>
        BY <2>3, <3>1 DEF EndInv
      <3>3. ~Arriving(u)'
        BY <2>1, <3>1, <3>2 DEF Arriving
      <3>4. b[u] # <<>>
        BY <2>3 DEF Ended
      <3>5. ~Asked(u)
        BY <2>1, <3>4, UnheardIs
      <3> QED
        BY <2>1, <3>2, <3>3, <3>5 DEF Asked, Rising
    <2> QED
      BY <2>1, <2>2, <2>3
  <1>3. ASSUME NEW v \in Uid, AbortUser(v) PROVE u \in inflight'
    BY <1>0, <1>3, MoveAbortUser DEF Asked, Rising, Arriving
  <1>4. CASE Tokenize
    <2>0. PICK w : w = Head(fromFront).uid
      OBVIOUS
    <2>1. Asked(u)' => Asked(u)
      BY <1>4, <2>0, MoveTokenize DEF Asked
    <2>2. Arriving(u)' => Arriving(u) \/ Asked(u)
      <3>1. CASE toFront' = toFront
        BY <3>1 DEF Arriving
      <3>2. CASE Arriving(u)' <=> Arriving(u) \/ u = w
        BY <1>4, <2>0, <3>2, MoveTokenize DEF Asked
      <3> QED
        BY <1>4, <2>0, <3>1, <3>2, MoveTokenize
    <2>3. UNCHANGED <<inflight, fromBack, active>>
      BY <1>4, <2>0, MoveTokenize
    <2> QED
      BY <1>0, <2>1, <2>2, <2>3 DEF Rising
  <1>5. CASE PassAbort
    <2>0. PICK w : w = Head(fromFront).uid
      OBVIOUS
    <2> QED
      BY <1>0, <1>5, <2>0, MovePassAbort DEF Asked, Rising, Arriving
  <1>6. CASE Detokenize
    <2>0. PICK b : b = Head(fromBack)
      OBVIOUS
    <2> QED
      BY <1>0, <1>6, <2>0, MoveDetokenize DEF Asked
  <1>7. CASE Receive
    <2>1. PICK starting \in SUBSET About(toBack, "user"), b \in Batch :
               /\ active' = (active \cup starting) \ About(toBack, "abort")
               /\ About(toBack', "user") = {}
               /\ Rising(u)' <=> Rising(u) \/ b[u] # Nothing
               /\ b[u] # Nothing => u \in About(toBack, "user")
               /\ UNCHANGED <<inflight, fromFront, toFront>>
      BY <1>7, MoveReceive
    <2> QED
      BY <1>0, <2>1 DEF Asked, Arriving
  <1>8. CASE Step
    <2>1. PICK b \in Batch :
               /\ active' = {v \in active : b[v].end = "more"}
               /\ u \notin active => b[u] = Nothing
               /\ Rising(u)' <=> Rising(u) \/ b[u] # Nothing
               /\ UNCHANGED <<inflight, fromFront, toBack, toFront>>
      BY <1>8, MoveStep
    <2> QED
      BY <1>0, <2>1 DEF Asked, Arriving
  <1>9. CASE Quiet
    BY <1>0, <1>9 DEF Quiet, Asked, Rising, Arriving
  <1> QED
    BY <1>1, <1>2, <1>3, <1>4, <1>5, <1>6, <1>7, <1>8, <1>9, Steps

\* Where a request ends, nothing comes after.
Closing(u) ==
    \A j \in DOMAIN fromBack : fromBack[j][u].end # "more" =>
        /\ u \notin active /\ \A k \in DOMAIN fromBack : k > j => fromBack[k][u] = Nothing
        /\ fromBack[j][u].end = "last" => fromBack[j][u].tokens > 0
Closed(u) ==
    \A j \in DOMAIN toFront : u \in Ended(toFront[j]) =>
        u \notin active /\ ~Rising(u) /\ \A k \in DOMAIN toFront : k > j => toFront[k][u] = <<>>

LEMMA EndIs == EndInv <=> \A u \in Uid : Closing(u) /\ Closed(u)
  BY DEF EndInv, Closing, Closed

\* The scheduler adds a report to what it said.
LEMMA ClosingPut ==
    ASSUME TypeOK, NEW u \in Uid, Closing(u), NEW b \in Batch, fromBack' = Put(fromBack, b, Nothing),
           b[u] # Nothing => ~EndsRising(u),
           b[u].end # "more" => u \notin active',
           u \in active' => u \in active \/ ~EndsRising(u),
           b[u].end = "last" => b[u].tokens > 0
    PROVE  Closing(u)'
  <1>1. /\ \A j \in DOMAIN fromBack' : \/ j \in DOMAIN fromBack /\ fromBack'[j] = fromBack[j]
                                       \/ j = Len(fromBack) + 1 /\ fromBack'[j] = b
        /\ DOMAIN fromBack = 1..Len(fromBack) /\ Len(fromBack) \in Nat
        /\ \A j \in DOMAIN fromBack : j < Len(fromBack) + 1
    <2>1. fromBack \in Seq(Batch)
      BY DEF TypeOK, Batch
    <2>2. /\ \A j \in DOMAIN fromBack : j \in DOMAIN Put(fromBack, b, Nothing)
                                        /\ Put(fromBack, b, Nothing)[j] = fromBack[j]
          /\ \A j \in DOMAIN Put(fromBack, b, Nothing) :
                j \in DOMAIN fromBack \/ (j = Len(fromBack) + 1 /\ Put(fromBack, b, Nothing)[j] = b)
      BY <2>1, PutQueue
    <2>3. DOMAIN fromBack = 1..Len(fromBack) /\ Len(fromBack) \in Nat
      BY <2>1, Queue
    <2> QED
      BY <2>2, <2>3
  <1>2. \A j \in DOMAIN fromBack : fromBack[j][u].end # "more" => EndsRising(u)
    BY DEF EndsRising
  <1> SUFFICES ASSUME NEW j \in DOMAIN fromBack', fromBack'[j][u].end # "more"
               PROVE  /\ u \notin active'
                      /\ \A k \in DOMAIN fromBack' : k > j => fromBack'[k][u] = Nothing
                      /\ fromBack'[j][u].end = "last" => fromBack'[j][u].tokens > 0
    BY DEF Closing
  <1>3. CASE j \in DOMAIN fromBack /\ fromBack'[j] = fromBack[j]
    <2>1. EndsRising(u) /\ b[u] = Nothing /\ u \notin active
      BY <1>2, <1>3 DEF Closing
    <2>2. u \notin active'
      BY <2>1
    <2>3. \A k \in DOMAIN fromBack' : k > j => fromBack'[k][u] = Nothing
      BY <1>1, <1>3, <2>1 DEF Closing
    <2>4. fromBack'[j][u].end = "last" => fromBack'[j][u].tokens > 0
      BY <1>3 DEF Closing
    <2> QED
      BY <2>2, <2>3, <2>4
  <1>4. CASE j = Len(fromBack) + 1 /\ fromBack'[j] = b
    <2>1. \A k \in DOMAIN fromBack' : ~(k > j)
      BY <1>1, <1>4
    <2> QED
      BY <1>4, <2>1
  <1> QED
    BY <1>1, <1>3, <1>4

LEMMA EndStep ==
    ASSUME TypeOK, AskInv, LifeInv, EndInv, AbortInv, [Next]_vars
    PROVE  EndInv'
  <1> SUFFICES ASSUME NEW u \in Uid PROVE Closing(u)' /\ Closed(u)'
    BY DEF EndInv, Closing, Closed
  <1>0. Closing(u) /\ Closed(u) /\ active \subseteq ran /\ active \subseteq Uid
    BY EndIs, Known DEF TypeOK
  <1>1. CASE UNCHANGED <<fromBack, toFront, active>>
    BY <1>0, <1>1 DEF Closing, Closed, Rising
  <1>2. CASE Listen
    <2>1. /\ toFront \in Seq(Page) /\ toFront # <<>> /\ toFront' = Tail(toFront)
          /\ UNCHANGED <<fromBack, active>>
      BY <1>2, MoveListen
    <2>2. /\ DOMAIN toFront' \subseteq Nat
          /\ \A j \in DOMAIN toFront' : j + 1 \in DOMAIN toFront /\ toFront'[j] = toFront[j + 1]
      BY <2>1, Queue
    <2>3. Closing(u)'
      BY <1>0, <2>1 DEF Closing
    <2>4. ASSUME NEW j \in DOMAIN toFront', u \in Ended(toFront'[j])
          PROVE  u \notin active /\ ~Rising(u) /\ \A k \in DOMAIN toFront' : k > j => toFront'[k][u] = <<>>
      <3>1. j + 1 \in DOMAIN toFront /\ u \in Ended(toFront[j + 1])
        BY <2>2, <2>4
      <3>2. u \notin active /\ ~Rising(u) /\ \A k \in DOMAIN toFront : k > j + 1 => toFront[k][u] = <<>>
        BY <1>0, <3>1 DEF Closed
      <3>3. ASSUME NEW k \in DOMAIN toFront', k > j PROVE toFront'[k][u] = <<>>
        <4>1. k + 1 \in DOMAIN toFront /\ k + 1 > j + 1 /\ toFront'[k] = toFront[k + 1]
          BY <2>2, <3>3
        <4> QED
          BY <3>2, <4>1
      <3> QED
        BY <3>2, <3>3
    <2> QED
      BY <2>1, <2>3, <2>4 DEF Closed, Rising
  <1>3. CASE Tokenize
    <2>0. PICK w : w = Head(fromFront).uid
      OBVIOUS
    <2>1. UNCHANGED <<fromBack, active>> /\ toFront \in Seq(Page) /\ Refused(w) \in Page
      BY <1>3, <2>0, MoveTokenize
    <2>2. CASE toFront' = toFront
      BY <1>1, <2>1, <2>2
    <2>3. CASE toFront' = Append(toFront, Refused(w))
      <3>1. w \in Uid /\ Asked(w)
        BY <1>3, <2>0, MoveTokenize DEF Asked
      <3>2. w \notin active /\ ~Rising(w) /\ ~Arriving(w)
        BY <1>0, <3>1, UnheardIs
      <3>3. /\ \A v \in Uid : v # w => Refused(w)[v] = <<>>
            /\ Ended(Refused(w)) = {w}
        BY <3>1, RefusalSays
      <3>4. /\ \A j \in DOMAIN toFront' : \/ j \in DOMAIN toFront /\ toFront'[j] = toFront[j]
                                          \/ j = Len(toFront) + 1 /\ toFront'[j] = Refused(w)
            /\ \A j \in DOMAIN toFront' : j <= Len(toFront) + 1
        BY <2>1, <2>3, Queue
      <3>5. ASSUME NEW j \in DOMAIN toFront', u \in Ended(toFront'[j])
            PROVE  u \notin active /\ ~Rising(u) /\ \A k \in DOMAIN toFront' : k > j => toFront'[k][u] = <<>>
        <4>1. CASE j \in DOMAIN toFront /\ toFront'[j] = toFront[j]
          <5>1. Arriving(u)
            BY <3>5, <4>1 DEF Arriving, Ended
          <5>2. u # w
            BY <3>2, <5>1
          <5>3. u \notin active /\ ~Rising(u) /\ \A k \in DOMAIN toFront : k > j => toFront[k][u] = <<>>
            BY <1>0, <3>5, <4>1 DEF Closed
          <5> QED
            BY <3>3, <3>4, <5>2, <5>3
        <4>2. CASE j = Len(toFront) + 1 /\ toFront'[j] = Refused(w)
          <5>1. u = w
            BY <3>3, <3>5, <4>2
          <5>2. Len(toFront) \in Nat /\ DOMAIN toFront' \subseteq Nat
            BY <2>1, <2>3, Queue
          <5>3. \A k \in DOMAIN toFront' : ~(k > j)
            BY <3>4, <4>2, <5>2
          <5> QED
            BY <3>2, <5>1, <5>3
        <4> QED
          BY <3>4, <4>1, <4>2
      <3> QED
        BY <1>0, <2>1, <3>5 DEF Closing, Closed, Rising
    <2> QED
      BY <1>3, <2>0, <2>2, <2>3, MoveTokenize
  <1>4. CASE Detokenize
    <2>0. PICK b : b = Head(fromBack)
      OBVIOUS
    <2>1. /\ fromBack \in Seq(Batch) /\ fromBack # <<>> /\ b \in Batch
          /\ fromBack' = Tail(fromBack)
          /\ toFront \in Seq(Page) /\ toFront' = Regrouped(toFront, b)
          /\ Admissions(b) \in Page /\ Detokenized(b) \in Page /\ Errors(b) \in Page
          /\ Rising(u) <=> b[u] # Nothing \/ Rising(u)'
          /\ b[u] = Nothing => Admissions(b)[u] = <<>> /\ Detokenized(b)[u] = <<>> /\ Errors(b)[u] = <<>>
          /\ UNCHANGED active
      BY <1>4, <2>0, MoveDetokenize
    <2>2. /\ DOMAIN fromBack' \subseteq Nat /\ b = fromBack[1] /\ 1 \in DOMAIN fromBack
          /\ \A j \in DOMAIN fromBack' : /\ j + 1 \in DOMAIN fromBack /\ fromBack'[j] = fromBack[j + 1]
                                         /\ j + 1 > 1
      BY <2>0, <2>1, Queue
    <2>3. ASSUME NEW j \in DOMAIN fromBack', fromBack'[j][u].end # "more"
          PROVE  /\ u \notin active /\ \A k \in DOMAIN fromBack' : k > j => fromBack'[k][u] = Nothing
                 /\ fromBack'[j][u].end = "last" => fromBack'[j][u].tokens > 0
      <3>1. /\ u \notin active /\ \A k \in DOMAIN fromBack : k > j + 1 => fromBack[k][u] = Nothing
            /\ fromBack[j + 1][u].end = "last" => fromBack[j + 1][u].tokens > 0
        BY <1>0, <2>2, <2>3 DEF Closing
      <3>2. ASSUME NEW k \in DOMAIN fromBack', k > j PROVE fromBack'[k][u] = Nothing
        <4>1. k + 1 \in DOMAIN fromBack /\ k + 1 > j + 1 /\ fromBack'[k] = fromBack[k + 1]
          BY <2>2, <3>2
        <4> QED
          BY <3>1, <4>1
      <3> QED
        BY <2>2, <3>1, <3>2
    <2>4. ASSUME b[u].end # "more"
          PROVE  u \notin active /\ ~Rising(u)'
      <3>1. u \notin active /\ \A k \in DOMAIN fromBack : k > 1 => fromBack[k][u] = Nothing
        BY <1>0, <2>2, <2>4 DEF Closing
      <3> QED
        BY <2>2, <3>1 DEF Rising
    <2>5. /\ \A j \in DOMAIN toFront : j \in DOMAIN toFront' /\ toFront'[j] = toFront[j]
          /\ \A j \in DOMAIN toFront' : \/ j \in DOMAIN toFront
                                        \/ toFront'[j] \in {Admissions(b), Detokenized(b), Errors(b)}
          /\ \A j, k \in DOMAIN toFront' : j < k /\ j \notin DOMAIN toFront =>
                 \/ toFront'[j] = Admissions(b) /\ toFront'[k] \in {Detokenized(b), Errors(b)}
                 \/ toFront'[j] = Detokenized(b) /\ toFront'[k] = Errors(b)
      BY <2>1, Pages
    <2>6. DOMAIN toFront \subseteq Nat /\ DOMAIN toFront' \subseteq Nat
      <3>1. toFront' \in Seq(Page)
        BY <2>1, Pages
      <3> QED
        BY <2>1, <3>1, Queue
    <2>7. /\ Ended(Admissions(b)) = {} /\ Ended(Errors(b)) = {v \in Uid : b[v].end = "error"}
          /\ Ended(Detokenized(b)) = {v \in Uid : b[v].end = "last" /\ b[v].tokens > 0}
          /\ Errors(b)[u] = IF b[u].end = "error" THEN <<Say("error", 0, TRUE)>> ELSE <<>>
      <3>1. decode \in [Uid -> Nat] /\ b \in Batch
        BY <2>1 DEF TypeOK
      <3>2. Ended(Admissions(b)) = {}
        BY <3>1, AdmissionsSay
      <3>3. Ended(Detokenized(b)) = {v \in Uid : b[v].end = "last" /\ b[v].tokens > 0}
        BY <3>1, TextSays
      <3>4. /\ Ended(Errors(b)) = {v \in Uid : b[v].end = "error"}
            /\ Errors(b)[u] = IF b[u].end = "error" THEN <<Say("error", 0, TRUE)>> ELSE <<>>
        BY <3>1, ErrorsSay
      <3> QED
        BY <3>2, <3>3, <3>4
    <2>8. ASSUME NEW j \in DOMAIN toFront', u \in Ended(toFront'[j])
          PROVE  u \notin active /\ ~Rising(u)' /\ \A k \in DOMAIN toFront' : k > j => toFront'[k][u] = <<>>
      <3>1. CASE j \in DOMAIN toFront
        <4>1. u \notin active /\ ~Rising(u) /\ \A k \in DOMAIN toFront : k > j => toFront[k][u] = <<>>
          BY <1>0, <2>5, <2>8, <3>1 DEF Closed
        <4>2. b[u] = Nothing /\ ~Rising(u)'
          BY <2>1, <4>1
        <4>3. ASSUME NEW k \in DOMAIN toFront', k > j PROVE toFront'[k][u] = <<>>
          BY <2>1, <2>5, <4>1, <4>2, <4>3
        <4> QED
          BY <4>1, <4>2, <4>3
      <3>2. CASE j \notin DOMAIN toFront
        <4>1. b[u].end # "more"
          BY <2>5, <2>7, <2>8, <3>2
        <4>2. ASSUME NEW k \in DOMAIN toFront', k > j PROVE toFront'[k][u] = <<>>
          <5>1. j < k
            BY <2>6, <4>2
          <5>2. toFront'[j] = Detokenized(b) /\ toFront'[k] = Errors(b)
            BY <2>5, <2>7, <2>8, <3>2, <5>1
          <5>3. b[u].end = "last"
            BY <2>7, <2>8, <5>2
          <5> QED
            BY <2>7, <5>2, <5>3
        <4> QED
          BY <2>4, <4>1, <4>2
      <3> QED
        BY <3>1, <3>2
    <2> QED
      BY <2>1, <2>3, <2>8 DEF Closing, Closed
  <1>5. CASE Receive
    <2>1. PICK starting \in SUBSET About(toBack, "user"), b \in Batch :
               /\ starting \subseteq Uid /\ b = Opening(starting)
               /\ fromBack' = Put(fromBack, b, Nothing)
               /\ active' = (active \cup starting) \ About(toBack, "abort")
               /\ Rising(u)' <=> Rising(u) \/ b[u] # Nothing
               /\ b[u] # Nothing => u \in About(toBack, "user")
               /\ UNCHANGED toFront
      BY <1>5, MoveReceive
    <2>2. /\ b[u].tokens = 0
          /\ b[u].end = IF u \in About(toBack, "user") \ starting THEN "error" ELSE "more"
      BY <2>1, OpeningSays
    <2>3. u \in About(toBack, "user") => u \notin active /\ ~Rising(u) /\ ~Arriving(u)
      BY <1>0, UnheardIs DEF Asked
    <2>4. EndsRising(u) => Rising(u)
      BY NothingIs DEF EndsRising, Rising
    <2>5. Closing(u)'
      <3>1. b[u] # Nothing => ~EndsRising(u)
        BY <2>1, <2>3, <2>4
      <3>2. b[u].end # "more" => u \notin active'
        BY <2>1, <2>2, <2>3
      <3>3. u \in active' => u \in active \/ ~EndsRising(u)
        BY <2>1, <2>3, <2>4
      <3>4. b[u].end = "last" => b[u].tokens > 0
        BY <2>2
      <3> QED
        BY <1>0, <2>1, <3>1, <3>2, <3>3, <3>4, ClosingPut
    <2>6. ASSUME NEW j \in DOMAIN toFront, u \in Ended(toFront[j]) PROVE u \notin active' /\ ~Rising(u)'
      <3>1. Arriving(u) /\ u \notin active /\ ~Rising(u)
        BY <1>0, <2>6 DEF Closed, Arriving, Ended
      <3> QED
        BY <2>1, <2>3, <3>1
    <2> QED
      BY <1>0, <2>1, <2>5, <2>6 DEF Closed
  <1>6. CASE Step
    <2>1. PICK b \in Batch :
               /\ fromBack' = Put(fromBack, b, Nothing)
               /\ active' = {v \in active : b[v].end = "more"}
               /\ u \notin active => b[u] = Nothing
               /\ b[u].end = "last" => b[u].tokens > 0
               /\ Rising(u)' <=> Rising(u) \/ b[u] # Nothing
               /\ UNCHANGED toFront
      BY <1>6, MoveStep
    <2>2. EndsRising(u) => u \notin active
      BY <1>0 DEF EndsRising, Closing
    <2>3. Closing(u)'
      BY <1>0, <2>1, <2>2, ClosingPut
    <2>4. ASSUME NEW j \in DOMAIN toFront, u \in Ended(toFront[j]) PROVE u \notin active' /\ ~Rising(u)'
      <3>1. u \notin active /\ ~Rising(u)
        BY <1>0, <2>4 DEF Closed
      <3> QED
        BY <2>1, <3>1
    <2> QED
      BY <1>0, <2>1, <2>3, <2>4 DEF Closed
  <1>7. ASSUME NEW v \in Uid, AbortUser(v) PROVE UNCHANGED <<fromBack, toFront, active>>
    BY <1>7, MoveAbortUser
  <1>8. NewUser \/ NewUserUnsent \/ PassAbort \/ Quiet => UNCHANGED <<fromBack, toFront, active>>
    BY MoveNewUser, MoveUnsent DEF PassAbort, Quiet, scheduler
  <1> QED
    BY <1>1, <1>2, <1>3, <1>4, <1>5, <1>6, <1>7, <1>8, Steps

----------------------------------------------------------------------------
(* Aborts, decode states and seals.                                        *)

\* An abort finds its request gone by, and the request does not come back.
LEMMA AbortStep ==
    ASSUME TypeOK, AskInv, LifeInv, AbortInv, [Next]_vars
    PROVE  AbortInv'
  <1> DEFINE aborted == About(fromFront, "abort") \cup About(toBack, "abort") \cup dropped
  <1>0. /\ aborted \subseteq 0..(next - 1) /\ aborted \cap open = {}
        /\ About(toBack, "abort") \cap About(fromFront, "user") = {}
        /\ About(fromFront, "user") \cap About(toBack, "user") = {}
        /\ \A u \in dropped : ~Asked(u) /\ u \notin active
    BY DEF AbortInv, AskInv
  <1>1. (\A queue \in {fromFront, toBack} : Behind(queue))'
    BY DownStep
  <1>2. About(toBack', "abort") \cap About(fromFront', "user") = {}
    BY DownStep
  <1>3. aborted' \subseteq 0..(next' - 1) /\ aborted' \cap open' = {}
    <2>1. CASE NewUser \/ NewUserUnsent
      <3>1. next \in Nat /\ \A u \in aborted : u \in 0..(next - 1)
        BY <1>0, Known
      <3>2. aborted' = aborted /\ open' = open \cup {next} /\ next' = next + 1
        BY <2>1, MoveNewUser, MoveUnsent
      <3>3. 0..(next - 1) \subseteq 0..((next + 1) - 1) /\ next \notin 0..(next - 1)
        BY <3>1
      <3> HIDE DEF aborted
      <3> QED
        BY <1>0, <3>2, <3>3
    <2>2. ASSUME NEW u \in Uid, AbortUser(u)
          PROVE  aborted' \subseteq 0..(next' - 1) /\ aborted' \cap open' = {}
      BY <1>0, <2>2, MoveAbortUser
    <2>3. CASE Tokenize
      <3>1. PICK w : w = Head(fromFront).uid
        OBVIOUS
      <3> QED
        BY <1>0, <2>3, <3>1, MoveTokenize
    <2>4. CASE PassAbort
      <3>1. PICK w : w = Head(fromFront).uid
        OBVIOUS
      <3> QED
        BY <1>0, <2>4, <3>1, MovePassAbort
    <2>5. CASE Receive
      BY <1>0, <2>5, MoveReceive
    <2>6. CASE Listen \/ Detokenize \/ Step \/ Quiet
      <3>1. UNCHANGED <<fromFront, toBack, dropped, next>> /\ open' \subseteq open
        BY <2>6 DEF Listen, Detokenize, Step, Quiet, frontend, scheduler
      <3> QED
        BY <1>0, <3>1
    <2> QED
      BY <2>1, <2>2, <2>3, <2>4, <2>5, <2>6, Steps
  <1>4. \A u \in dropped' : ~Asked(u)' /\ u \notin active'
    <2>0. dropped \subseteq 0..(next - 1) /\ dropped \subseteq Uid /\ \A u \in 0..(next - 1) : u < next
      BY Known
    <2>1. CASE NewUser \/ NewUserUnsent
      BY <1>0, <2>0, <2>1, MoveNewUser, MoveUnsent, Known DEF Asked
    <2>2. ASSUME NEW v \in Uid, AbortUser(v) PROVE \A u \in dropped' : ~Asked(u)' /\ u \notin active'
      BY <1>0, <2>2, MoveAbortUser DEF Asked
    <2>3. CASE Tokenize
      <3>1. PICK w : w = Head(fromFront).uid
        OBVIOUS
      <3>2. /\ About(fromFront, "user") = About(fromFront', "user") \cup {w}
            /\ About(toBack', "user") \subseteq About(toBack, "user") \cup {w}
            /\ UNCHANGED <<dropped, active>>
        BY <2>3, <3>1, MoveTokenize
      <3> QED
        BY <1>0, <3>2 DEF Asked
    <2>4. CASE PassAbort
      <3>1. PICK w : w = Head(fromFront).uid
        OBVIOUS
      <3> QED
        BY <1>0, <2>4, <3>1, MovePassAbort DEF Asked
    <2>5. CASE Receive
      <3>1. PICK starting \in SUBSET About(toBack, "user"), b \in Batch :
               /\ active' = (active \cup starting) \ About(toBack, "abort")
               /\ dropped' = dropped \cup About(toBack, "abort")
               /\ About(toBack', "user") = {}
               /\ fromFront' = fromFront
        BY <2>5, MoveReceive
      <3> QED
        BY <1>0, <3>1 DEF Asked
    <2>6. CASE Step
      <3>1. UNCHANGED <<fromFront, toBack, dropped>> /\ active' \subseteq active
        BY <2>6, MoveStep
      <3> QED
        BY <1>0, <3>1 DEF Asked
    <2>7. CASE Listen \/ Detokenize \/ Quiet
      <3>1. UNCHANGED <<fromFront, toBack, dropped, active>>
        BY <2>7 DEF Listen, Detokenize, Quiet, frontend, scheduler
      <3> QED
        BY <1>0, <3>1 DEF Asked
    <2> QED
      BY <2>1, <2>2, <2>3, <2>4, <2>5, <2>6, <2>7, Steps
  <1> QED
    BY <1>1, <1>2, <1>3, <1>4 DEF AbortInv, Behind

\* Who has a decode state is at work, has ended, or was aborted.
LEMMA AbortedIs ==
    ASSUME TypeOK, NEW u \in Uid
    PROVE  Aborted(u) <=> u \in dropped \cup About(toBack, "abort")
  <1>1. \A i \in DOMAIN toBack : toBack[i] \in Message
    BY Queue DEF TypeOK
  <1>2. (\E i \in DOMAIN toBack : toBack[i] = Msg("abort", u)) <=> u \in About(toBack, "abort")
    <2>1. \A i \in DOMAIN toBack : toBack[i] = Msg("abort", u) <=> toBack[i].kind = "abort" /\ toBack[i].uid = u
      BY <1>1, MessageIs
    <2> QED
      BY <2>1 DEF About
  <1> QED
    BY <1>2 DEF Aborted

LEMMA DecodeStep ==
    ASSUME TypeOK, TypeOK', EndInv, AbortInv, DecodeInv, [Next]_vars
    PROVE  DecodeInv'
  <1> DEFINE Off(u) == u \in dropped \cup About(toBack, "abort")
             Kept(u) == Rising(u) \/ decode[u] > 0 => u \in active \/ EndsRising(u) \/ Off(u)
  <1>a. \A u \in Uid : Aborted(u)' <=> Off(u)'
    <2>1. \A i \in DOMAIN toBack' : toBack'[i] \in Message
      BY Queue DEF TypeOK
    <2>2. \A u \in Uid, i \in DOMAIN toBack' :
              toBack'[i] = Msg("abort", u) <=> toBack'[i].kind = "abort" /\ toBack'[i].uid = u
      BY <2>1, MessageIs
    <2> QED
      BY <2>2 DEF About, Aborted
  <1> SUFFICES ASSUME NEW u \in Uid PROVE Kept(u)'
    BY <1>a DEF DecodeInv
  <1>0. Kept(u)
    BY AbortedIs DEF DecodeInv
  <1>1. CASE NewUser \/ NewUserUnsent \/ Listen \/ Quiet
    <2>1. UNCHANGED <<fromBack, toBack, decode, active, dropped>>
      BY <1>1, MoveNewUser, MoveUnsent DEF Listen, Quiet, scheduler
    <2> QED
      BY <1>0, <2>1 DEF Rising, EndsRising
  <1>2. ASSUME NEW v \in Uid, AbortUser(v) PROVE Kept(u)'
    BY <1>0, <1>2, MoveAbortUser DEF Rising, EndsRising
  <1>3. CASE Tokenize
    <2>1. PICK w : w = Head(fromFront).uid
      OBVIOUS
    <2> QED
      BY <1>0, <1>3, <2>1, MoveTokenize DEF Rising, EndsRising
  <1>4. CASE PassAbort
    <2>1. PICK w : w = Head(fromFront).uid
      OBVIOUS
    <2> QED
      BY <1>0, <1>4, <2>1, MovePassAbort DEF Rising, EndsRising
  <1>5. CASE Detokenize
    <2>0. PICK b : b = Head(fromBack)
      OBVIOUS
    <2>1. /\ fromBack \in Seq(Batch) /\ fromBack # <<>> /\ b \in Batch
          /\ fromBack' = Tail(fromBack)
          /\ Rising(u) <=> b[u] # Nothing \/ Rising(u)'
          /\ decode'[u] = IF b[u].end # "more" THEN 0 ELSE decode[u] + b[u].tokens
          /\ UNCHANGED <<toBack, active, dropped>>
      BY <1>5, <2>0, MoveDetokenize
    <2>2. /\ b = fromBack[1] /\ 1 \in DOMAIN fromBack /\ DOMAIN fromBack' \subseteq Nat
          /\ \A j \in DOMAIN fromBack' : j + 1 \in DOMAIN fromBack /\ fromBack'[j] = fromBack[j + 1] /\ j + 1 > 1
          /\ \A j \in DOMAIN fromBack : j = 1 \/ (j - 1 \in DOMAIN fromBack' /\ fromBack'[j - 1] = fromBack[j])
      <3>1. /\ DOMAIN fromBack = 1..Len(fromBack) /\ Len(fromBack) \in Nat /\ Head(fromBack) = fromBack[1]
            /\ 1 \in DOMAIN fromBack /\ DOMAIN Tail(fromBack) = 1..(Len(fromBack) - 1)
            /\ \A j \in DOMAIN Tail(fromBack) : j + 1 \in DOMAIN fromBack /\ Tail(fromBack)[j] = fromBack[j + 1]
        BY <2>1, Queue
      <3> QED
        BY <2>0, <2>1, <3>1
    <2>3. CASE b[u].end # "more"
      <3>1. \A k \in DOMAIN fromBack : k > 1 => fromBack[k][u] = Nothing
        BY <2>2, <2>3 DEF EndInv
      <3>2. ~Rising(u)'
        BY <2>2, <3>1 DEF Rising
      <3> QED
        BY <2>1, <2>3, <3>2
    <2>4. CASE b[u].end = "more"
      <3>1. EndsRising(u) => EndsRising(u)'
        BY <2>2, <2>4 DEF EndsRising
      <3>2. Rising(u)' \/ decode'[u] > 0 => Rising(u) \/ decode[u] > 0
        <4>1. b[u] = Nothing => b[u].tokens = 0
          BY NothingIs
        <4>2. decode[u] \in Nat
          BY DEF TypeOK
        <4> QED
          BY <2>1, <2>4, <4>1, <4>2
      <3> QED
        BY <1>0, <2>1, <3>1, <3>2
    <2> QED
      BY <2>3, <2>4
  <1>6. CASE Receive
    <2>1. PICK starting \in SUBSET About(toBack, "user"), b \in Batch :
               /\ starting \subseteq Uid /\ b = Opening(starting)
               /\ fromBack \in Seq(Batch) /\ fromBack' = Put(fromBack, b, Nothing)
               /\ active' = (active \cup starting) \ About(toBack, "abort")
               /\ dropped' = dropped \cup About(toBack, "abort")
               /\ Rising(u)' <=> Rising(u) \/ b[u] # Nothing
               /\ decode' = decode
      BY <1>6, MoveReceive
    <2>2. /\ \A j \in DOMAIN fromBack : j \in DOMAIN fromBack' /\ fromBack'[j] = fromBack[j]
          /\ b[u] # Nothing => Len(fromBack) + 1 \in DOMAIN fromBack' /\ fromBack'[Len(fromBack) + 1] = b
      BY <2>1, PutQueue
    <2>3. EndsRising(u) => EndsRising(u)'
      BY <2>2 DEF EndsRising
    <2>4. b[u] # Nothing => u \in starting \/ EndsRising(u)'
      <3>1. /\ b[u].end = IF u \in About(toBack, "user") \ starting THEN "error" ELSE "more"
            /\ b[u] # Nothing => u \in starting \cup About(toBack, "user")
        BY <2>1, OpeningSays
      <3> QED
        BY <2>2, <3>1 DEF EndsRising
    <2> QED
      BY <1>0, <2>1, <2>3, <2>4
  <1>7. CASE Step
    <2>1. PICK b \in Batch :
               /\ fromBack \in Seq(Batch) /\ fromBack' = Put(fromBack, b, Nothing)
               /\ active' = {v \in active : b[v].end = "more"}
               /\ u \notin active => b[u] = Nothing
               /\ Rising(u)' <=> Rising(u) \/ b[u] # Nothing
               /\ UNCHANGED <<toBack, decode, dropped>>
      BY <1>7, MoveStep
    <2>2. /\ \A j \in DOMAIN fromBack : j \in DOMAIN fromBack' /\ fromBack'[j] = fromBack[j]
          /\ b[u] # Nothing => Len(fromBack) + 1 \in DOMAIN fromBack' /\ fromBack'[Len(fromBack) + 1] = b
      BY <2>1, PutQueue
    <2>3. EndsRising(u) => EndsRising(u)'
      BY <2>2 DEF EndsRising
    <2>4. u \in active => u \in active' \/ EndsRising(u)'
      BY <2>1, <2>2, NothingIs DEF EndsRising
    <2> QED
      BY <1>0, <2>1, <2>3, <2>4
  <1> QED
    BY <1>1, <1>2, <1>3, <1>4, <1>5, <1>6, <1>7, Steps

\* A seal is set at rest, and nothing is counted behind closed doors.
LEMMA SealStep ==
    ASSUME TypeOK, LifeInv, SealInv, [Next]_vars
    PROVE  SealInv'
  <1> USE DEF SealInv
  <1>1. CASE Listen
    <2>1. ASSUME inflight = {} PROVE prompts' = prompts /\ completions' = completions
      <3> DEFINE b == Head(toFront)
      <3>1. \A u \in Uid : b[u] = <<>>
        BY <1>1, <2>1, MoveListen DEF LifeInv
      <3>2. \A k : Said(b, k) = {}
        BY <3>1 DEF Said
      <3>3. Cardinality(Said(b, "admit")) = 0 /\ Cardinality(Said(b, "text")) = 0
        BY <3>2, FS_EmptySet
      <3>4. prompts' = prompts + Cardinality(Said(b, "admit")) /\ completions' = completions + Cardinality(Said(b, "text"))
        BY <1>1 DEF Listen
      <3>5. prompts \in Nat /\ completions \in Nat
        BY DEF TypeOK
      <3> HIDE DEF b
      <3> QED
        BY <3>3, <3>4, <3>5
    <2>2. inflight' \subseteq inflight /\ UNCHANGED <<gate, stop, sealed>>
      BY <1>1 DEF Listen, barrier
    <2> QED
      BY <2>1, <2>2
  <1>2. CASE NewUser \/ NewUserUnsent
    BY <1>2 DEF NewUser, NewUserUnsent, Enters, barrier
  <1>3. ASSUME NEW u \in Uid, AbortUser(u) PROVE SealInv'
    BY <1>3 DEF AbortUser, barrier
  <1>4. CASE Tokenizer \/ Scheduler
    BY <1>4 DEF Tokenizer, Scheduler, Tokenize, PassAbort, Detokenize, Receive, Step, frontend, barrier
  <1>5. ASSUME NEW u \in Uid, Consumer(u) \/ Disconnect(u) PROVE SealInv'
    BY <1>5 DEF Consumer, Finish, BudgetSpent, Close, Disconnect, barrier
  <1>6. CASE PrepareStop
    BY <1>6 DEF PrepareStop
  <1>7. CASE Stopping
    BY <1>7 DEF Stopping, Seal, Snapshot, DrainTimeout, AbortsSent, AbortTimeout, frontend
  <1>8. CASE UNCHANGED vars
    BY <1>8 DEF vars, frontend, barrier
  <1> QED
    BY <1>1, <1>2, <1>3, <1>4, <1>5, <1>6, <1>7, <1>8 DEF Next

----------------------------------------------------------------------------
(* Nothing is counted twice or forgotten.                                  *)

\* A message at the end of a queue adds what it holds, the one at the front takes it away.
LEMMA CountPut ==
    ASSUME NEW S, NEW T, IsFiniteSet(T), NEW f \in [S -> SUBSET T], NEW q \in Seq(S), NEW b \in S,
           NEW none, (\A u \in Uid : b[u] = none) => f[b] = {}
    PROVE  LET r == Put(q, b, none)
           IN  /\ Cardinality(Places([j \in DOMAIN r |-> f[r[j]]]))
                    = Cardinality(Places([j \in DOMAIN q |-> f[q[j]]])) + Cardinality(f[b])
               /\ Cardinality(Places([j \in DOMAIN q |-> f[q[j]]])) \in Nat /\ Cardinality(f[b]) \in Nat
  <1> DEFINE c == [j \in DOMAIN q |-> f[q[j]]]
  <1>1. DOMAIN q = 1..Len(q) /\ Len(q) \in Nat /\ \A j \in DOMAIN q : q[j] \in S
    BY Queue
  <1>2. DOMAIN c = 1..Len(q) /\ \A j \in 1..Len(q) : c[j] \subseteq T
    BY <1>1
  <1>3. Cardinality(Places(c)) \in Nat
    <2> HIDE DEF c
    <2> QED
      BY <1>1, <1>2, PlacesFinite
  <1>4. Cardinality(f[b]) \in Nat
    BY FS_Subset, FS_CardinalityType
  <1>5. CASE \A u \in Uid : b[u] = none
    <2>1. Put(q, b, none) = q /\ f[b] = {}
      BY <1>5 DEF Put
    <2>2. Cardinality(f[b]) = 0
      BY <2>1, FS_EmptySet
    <2> HIDE DEF Places
    <2> QED
      BY <1>3, <2>1, <2>2
  <1>6. CASE ~\A u \in Uid : b[u] = none
    <2> DEFINE r == Append(q, b)
               d == [j \in DOMAIN r |-> f[r[j]]]
    <2>1. Put(q, b, none) = r
      BY <1>6 DEF Put
    <2>2. /\ DOMAIN r = 1..(Len(q) + 1) /\ \A j \in DOMAIN q : r[j] = q[j]
          /\ r[Len(q) + 1] = b
      BY Queue
    <2> HIDE DEF r
    <2>3. \A j \in 1..(Len(q) + 1) : j \in 1..Len(q) \/ j = Len(q) + 1
      BY <1>1
    <2>4. /\ DOMAIN d = 1..(Len(q) + 1) /\ \A j \in 1..(Len(q) + 1) : d[j] \subseteq T
          /\ \A j \in 1..Len(q) : d[j] = c[j]
          /\ d[Len(q) + 1] = f[b]
      <3>1. Len(q) + 1 \in 1..(Len(q) + 1) /\ \A j \in 1..Len(q) : j \in 1..(Len(q) + 1)
        BY <1>1
      <3> QED
        BY <1>1, <2>2, <2>3, <3>1
    <2> HIDE DEF c, d
    <2>5. Cardinality(Places(d)) = Cardinality(Places(c)) + Cardinality(d[Len(q) + 1])
      BY <1>1, <1>2, <2>4, PlacesGrow
    <2> QED
      BY <1>3, <1>4, <2>1, <2>4, <2>5 DEF c, d
  <1> QED
    BY <1>5, <1>6

LEMMA CountTail ==
    ASSUME NEW S, NEW T, IsFiniteSet(T), NEW f \in [S -> SUBSET T], NEW q \in Seq(S), q # <<>>
    PROVE  /\ Cardinality(Places([j \in DOMAIN q |-> f[q[j]]]))
                = Cardinality(Places([j \in DOMAIN Tail(q) |-> f[Tail(q)[j]]])) + Cardinality(f[Head(q)])
           /\ Cardinality(Places([j \in DOMAIN Tail(q) |-> f[Tail(q)[j]]])) \in Nat
           /\ Cardinality(f[Head(q)]) \in Nat
  <1> DEFINE c == [j \in DOMAIN q |-> f[q[j]]]
             d == [j \in DOMAIN Tail(q) |-> f[Tail(q)[j]]]
  <1>1. /\ DOMAIN q = 1..Len(q) /\ Len(q) \in Nat /\ \A j \in DOMAIN q : q[j] \in S
        /\ Head(q) = q[1] /\ 1 \in DOMAIN q /\ DOMAIN Tail(q) = 1..(Len(q) - 1)
        /\ \A j \in DOMAIN Tail(q) : j + 1 \in DOMAIN q /\ Tail(q)[j] = q[j + 1]
    BY Queue
  <1>2. Len(q) > 0 /\ Len(q) - 1 \in Nat
    BY <1>1
  <1>3. /\ DOMAIN c = 1..Len(q) /\ \A j \in 1..Len(q) : c[j] \subseteq T
        /\ DOMAIN d = 1..(Len(q) - 1) /\ \A j \in 1..(Len(q) - 1) : d[j] = c[j + 1] /\ d[j] \subseteq T
        /\ c[1] = f[Head(q)]
    BY <1>1
  <1> HIDE DEF c, d
  <1>4. Cardinality(Places(c)) = Cardinality(Places(d)) + Cardinality(c[1])
    BY <1>1, <1>2, <1>3, PlacesShrink
  <1>5. Cardinality(Places(d)) \in Nat
    BY <1>2, <1>3, PlacesFinite
  <1>6. Cardinality(f[Head(q)]) \in Nat
    BY <1>1, FS_Subset, FS_CardinalityType
  <1> QED
    BY <1>3, <1>4, <1>5, <1>6 DEF c, d

\* What queues of replies and of reports hold.
RepliesIn(q, k) == Cardinality(Places([j \in DOMAIN q |-> Said(q[j], k)]))
TokensIn(q) == Cardinality(Places([j \in DOMAIN q |-> Drawn(q[j])]))
StartsIn(q) == Cardinality(Places([j \in DOMAIN q |-> Started(q[j])]))

LEMMA RepliesPut ==
    ASSUME NEW q \in Seq(Page), NEW b \in Page, NEW k
    PROVE  /\ RepliesIn(Put(q, b, <<>>), k) = RepliesIn(q, k) + Cardinality(Said(b, k))
           /\ RepliesIn(q, k) \in Nat /\ Cardinality(Said(b, k)) \in Nat
  <1> DEFINE f == [p \in Page |-> Said(p, k)]
             T == Uid \X (1..Rounds)
             r == Put(q, b, <<>>)
  <1>1. f \in [Page -> SUBSET T] /\ f[b] = Said(b, k)
    BY DEF Said
  <1>2. (\A u \in Uid : b[u] = <<>>) => f[b] = {}
    BY DEF Said
  <1>3. r \in Seq(Page)
    BY PutQueue
  <1>4. [j \in DOMAIN q |-> f[q[j]]] = [j \in DOMAIN q |-> Said(q[j], k)]
    BY Queue
  <1>5. [j \in DOMAIN r |-> f[r[j]]] = [j \in DOMAIN r |-> Said(r[j], k)]
    <2> HIDE DEF r
    <2>1. \A j \in DOMAIN r : r[j] \in Page
      BY <1>3, Queue
    <2> QED
      BY <2>1
  <1> HIDE DEF f, T
  <1>6. IsFiniteSet(T)
    BY Bounds DEF T
  <1>7. /\ Cardinality(Places([j \in DOMAIN r |-> f[r[j]]]))
             = Cardinality(Places([j \in DOMAIN q |-> f[q[j]]])) + Cardinality(f[b])
        /\ Cardinality(Places([j \in DOMAIN q |-> f[q[j]]])) \in Nat /\ Cardinality(f[b]) \in Nat
    BY <1>1, <1>2, <1>6, CountPut
  <1> HIDE DEF r
  <1> QED
    BY <1>1, <1>4, <1>5, <1>7 DEF RepliesIn, r

LEMMA RepliesTail ==
    ASSUME NEW q \in Seq(Page), q # <<>>, NEW k
    PROVE  /\ RepliesIn(q, k) = RepliesIn(Tail(q), k) + Cardinality(Said(Head(q), k))
           /\ RepliesIn(Tail(q), k) \in Nat /\ Cardinality(Said(Head(q), k)) \in Nat
  <1> DEFINE f == [p \in Page |-> Said(p, k)]
             T == Uid \X (1..Rounds)
  <1>1. f \in [Page -> SUBSET T]
    BY DEF Said
  <1>2. Tail(q) \in Seq(Page) /\ Head(q) \in Page
    BY Queue
  <1>3. [j \in DOMAIN q |-> f[q[j]]] = [j \in DOMAIN q |-> Said(q[j], k)]
    BY Queue
  <1>4. [j \in DOMAIN Tail(q) |-> f[Tail(q)[j]]] = [j \in DOMAIN Tail(q) |-> Said(Tail(q)[j], k)]
    <2>1. \A j \in DOMAIN Tail(q) : Tail(q)[j] \in Page
      BY <1>2, Queue
    <2> QED
      BY <2>1
  <1>5. f[Head(q)] = Said(Head(q), k)
    BY <1>2
  <1> HIDE DEF f, T
  <1>6. IsFiniteSet(T)
    BY Bounds DEF T
  <1>7. /\ Cardinality(Places([j \in DOMAIN q |-> f[q[j]]]))
             = Cardinality(Places([j \in DOMAIN Tail(q) |-> f[Tail(q)[j]]])) + Cardinality(f[Head(q)])
        /\ Cardinality(Places([j \in DOMAIN Tail(q) |-> f[Tail(q)[j]]])) \in Nat
        /\ Cardinality(f[Head(q)]) \in Nat
    BY <1>1, <1>6, CountTail
  <1> QED
    BY <1>3, <1>4, <1>5, <1>7 DEF RepliesIn

LEMMA ReportsPut ==
    ASSUME NEW q \in Seq(Batch), NEW b \in Batch
    PROVE  /\ TokensIn(Put(q, b, Nothing)) = TokensIn(q) + Cardinality(Drawn(b))
           /\ StartsIn(Put(q, b, Nothing)) = StartsIn(q) + Cardinality(Started(b))
           /\ TokensIn(q) \in Nat /\ Cardinality(Drawn(b)) \in Nat
           /\ StartsIn(q) \in Nat /\ Cardinality(Started(b)) \in Nat
  <1> DEFINE f == [p \in Batch |-> Drawn(p)]
             g == [p \in Batch |-> Started(p)]
             T == Uid \X (1..Rounds)
             W == Uid \X {1}
             r == Put(q, b, Nothing)
  <1>1. f \in [Batch -> SUBSET T] /\ f[b] = Drawn(b) /\ g \in [Batch -> SUBSET W] /\ g[b] = Started(b)
    BY DEF Drawn, Started
  <1>2. ASSUME \A u \in Uid : b[u] = Nothing PROVE f[b] = {} /\ g[b] = {}
    <2>1. \A i \in 1..Rounds : ~(i <= 0)
      BY Bounds
    <2> QED
      BY <1>2, <2>1, NothingIs DEF Drawn, Started
  <1>3. r \in Seq(Batch)
    BY PutQueue
  <1>4. /\ [j \in DOMAIN q |-> f[q[j]]] = [j \in DOMAIN q |-> Drawn(q[j])]
        /\ [j \in DOMAIN q |-> g[q[j]]] = [j \in DOMAIN q |-> Started(q[j])]
    BY Queue
  <1>5. /\ [j \in DOMAIN r |-> f[r[j]]] = [j \in DOMAIN r |-> Drawn(r[j])]
        /\ [j \in DOMAIN r |-> g[r[j]]] = [j \in DOMAIN r |-> Started(r[j])]
    <2> HIDE DEF r
    <2>1. \A j \in DOMAIN r : r[j] \in Batch
      BY <1>3, Queue
    <2> QED
      BY <2>1
  <1> HIDE DEF f, g, T, W
  <1>6. IsFiniteSet(T) /\ IsFiniteSet(W)
    BY Bounds DEF T, W
  <1>7. /\ Cardinality(Places([j \in DOMAIN r |-> f[r[j]]]))
             = Cardinality(Places([j \in DOMAIN q |-> f[q[j]]])) + Cardinality(f[b])
        /\ Cardinality(Places([j \in DOMAIN q |-> f[q[j]]])) \in Nat /\ Cardinality(f[b]) \in Nat
    BY <1>1, <1>2, <1>6, CountPut
  <1>8. /\ Cardinality(Places([j \in DOMAIN r |-> g[r[j]]]))
             = Cardinality(Places([j \in DOMAIN q |-> g[q[j]]])) + Cardinality(g[b])
        /\ Cardinality(Places([j \in DOMAIN q |-> g[q[j]]])) \in Nat /\ Cardinality(g[b]) \in Nat
    BY <1>1, <1>2, <1>6, CountPut
  <1> HIDE DEF r
  <1> QED
    BY <1>1, <1>4, <1>5, <1>7, <1>8 DEF TokensIn, StartsIn, r

LEMMA ReportsTail ==
    ASSUME NEW q \in Seq(Batch), q # <<>>
    PROVE  /\ TokensIn(q) = TokensIn(Tail(q)) + Cardinality(Drawn(Head(q)))
           /\ StartsIn(q) = StartsIn(Tail(q)) + Cardinality(Started(Head(q)))
           /\ TokensIn(Tail(q)) \in Nat /\ Cardinality(Drawn(Head(q))) \in Nat
           /\ StartsIn(Tail(q)) \in Nat /\ Cardinality(Started(Head(q))) \in Nat
  <1> DEFINE f == [p \in Batch |-> Drawn(p)]
             g == [p \in Batch |-> Started(p)]
             T == Uid \X (1..Rounds)
             W == Uid \X {1}
  <1>1. f \in [Batch -> SUBSET T] /\ g \in [Batch -> SUBSET W]
    BY DEF Drawn, Started
  <1>2. Tail(q) \in Seq(Batch) /\ Head(q) \in Batch
    BY Queue
  <1>3. /\ [j \in DOMAIN q |-> f[q[j]]] = [j \in DOMAIN q |-> Drawn(q[j])]
        /\ [j \in DOMAIN q |-> g[q[j]]] = [j \in DOMAIN q |-> Started(q[j])]
    BY Queue
  <1>4. /\ [j \in DOMAIN Tail(q) |-> f[Tail(q)[j]]] = [j \in DOMAIN Tail(q) |-> Drawn(Tail(q)[j])]
        /\ [j \in DOMAIN Tail(q) |-> g[Tail(q)[j]]] = [j \in DOMAIN Tail(q) |-> Started(Tail(q)[j])]
    <2>1. \A j \in DOMAIN Tail(q) : Tail(q)[j] \in Batch
      BY <1>2, Queue
    <2> QED
      BY <2>1
  <1>5. f[Head(q)] = Drawn(Head(q)) /\ g[Head(q)] = Started(Head(q))
    BY <1>2
  <1> HIDE DEF f, g, T, W
  <1>6. IsFiniteSet(T) /\ IsFiniteSet(W)
    BY Bounds DEF T, W
  <1>7. /\ Cardinality(Places([j \in DOMAIN q |-> f[q[j]]]))
             = Cardinality(Places([j \in DOMAIN Tail(q) |-> f[Tail(q)[j]]])) + Cardinality(f[Head(q)])
        /\ Cardinality(Places([j \in DOMAIN Tail(q) |-> f[Tail(q)[j]]])) \in Nat
        /\ Cardinality(f[Head(q)]) \in Nat
    BY <1>1, <1>6, CountTail
  <1>8. /\ Cardinality(Places([j \in DOMAIN q |-> g[q[j]]]))
             = Cardinality(Places([j \in DOMAIN Tail(q) |-> g[Tail(q)[j]]])) + Cardinality(g[Head(q)])
        /\ Cardinality(Places([j \in DOMAIN Tail(q) |-> g[Tail(q)[j]]])) \in Nat
        /\ Cardinality(g[Head(q)]) \in Nat
    BY <1>1, <1>6, CountTail
  <1> QED
    BY <1>3, <1>4, <1>5, <1>7, <1>8 DEF TokensIn, StartsIn

\* What is counted, in these terms.
LEMMA AccountIs ==
    /\ AccountingExact <=>
          /\ completions + RepliesIn(toFront, "text") + TokensIn(fromBack) = Cardinality(Sampled)
          /\ prompts + RepliesIn(toFront, "admit") + StartsIn(fromBack) = Cardinality(ran)
    /\ AccountingExact' <=>
          /\ completions' + RepliesIn(toFront', "text") + TokensIn(fromBack') = Cardinality(Sampled')
          /\ prompts' + RepliesIn(toFront', "admit") + StartsIn(fromBack') = Cardinality(ran')
  BY DEF AccountingExact, Undelivered, Undecoded, Unreported, RepliesIn, TokensIn, StartsIn

\* Queues that say nothing hold nothing.
LEMMA NothingIn ==
    /\ \A q : (\A j \in DOMAIN q : \A u \in Uid : q[j][u] = <<>>) =>
           RepliesIn(q, "text") = 0 /\ RepliesIn(q, "admit") = 0
    /\ \A q : (\A j \in DOMAIN q : \A u \in Uid : q[j][u] = Nothing) =>
           TokensIn(q) = 0 /\ StartsIn(q) = 0
  <1>1. ASSUME NEW q, \A j \in DOMAIN q : \A u \in Uid : q[j][u] = <<>>, NEW k
        PROVE  RepliesIn(q, k) = 0
    <2>1. \A j \in DOMAIN q : Said(q[j], k) = {}
      BY <1>1 DEF Said
    <2>2. Places([j \in DOMAIN q |-> Said(q[j], k)]) = {}
      BY <2>1 DEF Places
    <2> QED
      BY <2>2, FS_EmptySet DEF RepliesIn
  <1>2. ASSUME NEW q, \A j \in DOMAIN q : \A u \in Uid : q[j][u] = Nothing
        PROVE  TokensIn(q) = 0 /\ StartsIn(q) = 0
    <2>1. \A i \in 1..Rounds : ~(i <= 0)
      BY Bounds
    <2>2. \A j \in DOMAIN q : Drawn(q[j]) = {} /\ Started(q[j]) = {}
      BY <1>2, <2>1, NothingIs DEF Drawn, Started
    <2>3. /\ Places([j \in DOMAIN q |-> Drawn(q[j])]) = {}
          /\ Places([j \in DOMAIN q |-> Started(q[j])]) = {}
      BY <2>2 DEF Places
    <2> QED
      BY <2>3, FS_EmptySet DEF TokensIn, StartsIn
  <1> QED
    BY <1>1, <1>2

\* What a step draws is what it adds to the tokens sampled.
LEMMA SampledGrows ==
    ASSUME TypeOK, NEW b \in Batch, out' = [u \in Uid |-> out[u] + b[u].tokens],
           out' \in [Uid -> 0..MaxTokens]
    PROVE  Cardinality(Sampled') = Cardinality(Sampled) + Cardinality(Drawn(b))
  <1> DEFINE N == {p \in Sampled' : p \notin Sampled}
             f == [p \in Drawn(b) |-> <<p[1], out[p[1]] + p[2]>>]
  <1>1. \A u \in Uid : /\ out[u] \in Nat /\ out'[u] \in Nat /\ out'[u] <= MaxTokens
                       /\ b[u].tokens \in Nat /\ b[u].tokens <= Rounds /\ out'[u] = out[u] + b[u].tokens
    <2>1. \A u \in Uid : b[u] \in Report
      BY DEF Batch
    <2>2. \A r \in Report : r.tokens \in 0..Rounds
      BY DEF Report
    <2>3. out \in [Uid -> 0..MaxTokens]
      BY DEF TypeOK
    <2> QED
      BY <2>1, <2>2, <2>3, Bounds
  <1>2. /\ \A u, i : <<u, i>> \in Drawn(b) <=> u \in Uid /\ i \in 1..Rounds /\ i <= b[u].tokens
        /\ \A p \in Drawn(b) : \E u \in Uid, i \in 1..Rounds : p = <<u, i>>
    BY DEF Drawn
  <1>3. /\ \A u, i : <<u, i>> \in Sampled' <=> u \in Uid /\ i \in 1..MaxTokens /\ i <= out'[u]
        /\ \A u, i : <<u, i>> \in Sampled <=> u \in Uid /\ i \in 1..MaxTokens /\ i <= out[u]
        /\ \A p \in Sampled' : \E u \in Uid, i \in 1..MaxTokens : p = <<u, i>>
        /\ Sampled \subseteq Uid \X (1..MaxTokens) /\ Sampled' \subseteq Uid \X (1..MaxTokens)
    BY DEF Sampled
  <1>4. Sampled \subseteq Sampled'
    <2> SUFFICES ASSUME NEW u \in Uid, NEW i \in 1..MaxTokens, i <= out[u] PROVE i <= out'[u]
      BY DEF Sampled
    <2> QED
      BY <1>1
  <1>5. f \in [Drawn(b) -> N]
    <2> SUFFICES ASSUME NEW p \in Drawn(b) PROVE <<p[1], out[p[1]] + p[2]>> \in N
      OBVIOUS
    <2>1. PICK u \in Uid, i \in 1..Rounds : p = <<u, i>> /\ i <= b[u].tokens
      BY <1>2
    <2>2. out[u] + i \in 1..MaxTokens /\ out[u] + i <= out'[u] /\ ~(out[u] + i <= out[u])
      <3>1. /\ out[u] \in Nat /\ out'[u] = out[u] + b[u].tokens /\ out'[u] <= MaxTokens
            /\ b[u].tokens \in Nat /\ i <= b[u].tokens /\ i \in Nat /\ i >= 1 /\ MaxTokens \in Nat
        BY <1>1, <2>1, Bounds
      <3>2. ASSUME NEW o \in Nat, NEW n \in Nat, NEW k \in Nat, n <= MaxTokens, n = o + k, i <= k
            PROVE  o + i \in 1..MaxTokens /\ o + i <= n /\ ~(o + i <= o)
        BY <3>1, <3>2
      <3> QED
        BY <1>1, <3>1, <3>2
    <2> QED
      BY <1>3, <2>1, <2>2
  <1>6. \A p, q \in Drawn(b) : f[p] = f[q] => p = q
    <2> SUFFICES ASSUME NEW p \in Drawn(b), NEW q \in Drawn(b), f[p] = f[q] PROVE p = q
      OBVIOUS
    <2>1. PICK u \in Uid, i \in 1..Rounds : p = <<u, i>>
      BY <1>2
    <2>2. PICK v \in Uid, j \in 1..Rounds : q = <<v, j>>
      BY <1>2
    <2>3. u = v /\ out[u] + i = out[v] + j
      BY <2>1, <2>2
    <2>4. i = j
      BY <1>1, <2>3
    <2> QED
      BY <2>1, <2>2, <2>3, <2>4
  <1>7. \A z \in N : \E p \in Drawn(b) : f[p] = z
    <2> SUFFICES ASSUME NEW z \in N PROVE \E p \in Drawn(b) : f[p] = z
      OBVIOUS
    <2>1. PICK u \in Uid, i \in 1..MaxTokens : z = <<u, i>>
      BY <1>3
    <2>2. i <= out'[u] /\ ~(i <= out[u])
      BY <1>3, <2>1
    <2>3. i - out[u] \in 1..Rounds /\ i - out[u] <= b[u].tokens /\ out[u] + (i - out[u]) = i
      BY <1>1, <2>2, Bounds
    <2>4. <<u, i - out[u]>> \in Drawn(b)
      BY <1>2, <2>3
    <2>5. f[<<u, i - out[u]>>] = <<u, i>>
      BY <2>3, <2>4
    <2> QED
      BY <2>1, <2>4, <2>5
  <1>8. IsFiniteSet(Sampled) /\ IsFiniteSet(Drawn(b))
    <2>1. Drawn(b) \subseteq Uid \X (1..Rounds)
      BY DEF Drawn
    <2> QED
      BY <1>3, <2>1, Bounds, FS_Subset
  <1>9. IsFiniteSet(N) /\ Cardinality(N) = Cardinality(Drawn(b))
    <2> HIDE DEF N, f
    <2> QED
      BY <1>5, <1>6, <1>7, <1>8, SameSize
  <1>10. Sampled' = Sampled \cup N /\ Sampled \cap N = {}
    BY <1>4
  <1> HIDE DEF N
  <1>11. Cardinality(Sampled \cup N) = Cardinality(Sampled) + Cardinality(N)
    BY <1>8, <1>9, <1>10, TwoSets
  <1> QED
    BY <1>9, <1>10, <1>11

LEMMA AccountingInit == Init => AccountingExact
  <1> SUFFICES ASSUME Init PROVE AccountingExact
    OBVIOUS
  <1>1. toFront = <<>> /\ fromBack = <<>> /\ completions = 0 /\ prompts = 0 /\ ran = {}
    BY DEF Init
  <1>2. Sampled = {}
    <2>1. \A u \in Uid : out[u] = 0
      BY DEF Init
    <2>2. \A i \in 1..MaxTokens : ~(i <= 0)
      BY Bounds
    <2> QED
      BY <2>1, <2>2 DEF Sampled
  <1>3. RepliesIn(toFront, "text") = 0 /\ RepliesIn(toFront, "admit") = 0
    BY <1>1, NothingIn
  <1>4. TokensIn(fromBack) = 0 /\ StartsIn(fromBack) = 0
    BY <1>1, NothingIn
  <1> QED
    BY <1>1, <1>2, <1>3, <1>4, FS_EmptySet, AccountIs

\* A message that the detokenizer turns into three moves its tokens and admissions along.
LEMMA RegroupedHolds ==
    ASSUME NEW q \in Seq(Page), NEW b \in Batch, decode \in [Uid -> Nat]
    PROVE  /\ RepliesIn(Regrouped(q, b), "text") = RepliesIn(q, "text") + Cardinality(Drawn(b))
           /\ RepliesIn(Regrouped(q, b), "admit") = RepliesIn(q, "admit") + Cardinality(Started(b))
           /\ RepliesIn(q, "text") \in Nat /\ RepliesIn(q, "admit") \in Nat
  <1> DEFINE A == Admissions(b)
             D == Detokenized(b)
             E == Errors(b)
             s == Put(q, A, <<>>)
             t == Put(s, D, <<>>)
  <1>1. /\ A \in Page /\ Said(A, "admit") = Started(b) /\ Said(A, "text") = {}
        /\ D \in Page /\ Said(D, "text") = Drawn(b) /\ Said(D, "admit") = {}
        /\ E \in Page /\ Said(E, "admit") = {} /\ Said(E, "text") = {}
    BY AdmissionsSay, TextSays, ErrorsSay
  <1>2. Regrouped(q, b) = Put(t, E, <<>>)
    BY DEF Regrouped
  <1> HIDE DEF A, D, E
  <1>3. /\ s \in Seq(Page)
        /\ \A k \in {"text", "admit"} : /\ RepliesIn(s, k) = RepliesIn(q, k) + Cardinality(Said(A, k))
                  /\ RepliesIn(q, k) \in Nat /\ Cardinality(Said(A, k)) \in Nat
    BY <1>1, RepliesPut, PutQueue
  <1> HIDE DEF s
  <1>4. /\ t \in Seq(Page)
        /\ \A k \in {"text", "admit"} : /\ RepliesIn(t, k) = RepliesIn(s, k) + Cardinality(Said(D, k))
                  /\ RepliesIn(s, k) \in Nat /\ Cardinality(Said(D, k)) \in Nat
    BY <1>1, <1>3, RepliesPut, PutQueue
  <1> HIDE DEF t
  <1>5. \A k \in {"text", "admit"} : /\ RepliesIn(Put(t, E, <<>>), k) = RepliesIn(t, k) + Cardinality(Said(E, k))
               /\ RepliesIn(t, k) \in Nat /\ Cardinality(Said(E, k)) \in Nat
    BY <1>1, <1>4, RepliesPut
  <1>6. /\ Cardinality(Said(A, "text")) = 0 /\ Cardinality(Said(A, "admit")) = Cardinality(Started(b))
        /\ Cardinality(Said(D, "text")) = Cardinality(Drawn(b)) /\ Cardinality(Said(D, "admit")) = 0
        /\ Cardinality(Said(E, "text")) = 0 /\ Cardinality(Said(E, "admit")) = 0
    BY <1>1, FS_EmptySet
  <1>7. /\ RepliesIn(s, "text") = RepliesIn(q, "text") /\ RepliesIn(q, "text") \in Nat
        /\ RepliesIn(s, "admit") = RepliesIn(q, "admit") + Cardinality(Started(b))
        /\ RepliesIn(q, "admit") \in Nat
    BY <1>3, <1>6
  <1>8. /\ RepliesIn(t, "text") = RepliesIn(s, "text") + Cardinality(Drawn(b))
        /\ RepliesIn(t, "admit") = RepliesIn(s, "admit") /\ RepliesIn(s, "admit") \in Nat
    BY <1>4, <1>6
  <1>9. /\ RepliesIn(Regrouped(q, b), "text") = RepliesIn(t, "text")
        /\ RepliesIn(Regrouped(q, b), "admit") = RepliesIn(t, "admit")
    BY <1>2, <1>5, <1>6
  <1> QED
    BY <1>7, <1>8, <1>9

LEMMA AccountingStep ==
    ASSUME TypeOK, AskInv, AbortInv, AccountingExact, [Next]_vars
    PROVE  AccountingExact'
  <1>0. /\ completions + RepliesIn(toFront, "text") + TokensIn(fromBack) = Cardinality(Sampled)
        /\ prompts + RepliesIn(toFront, "admit") + StartsIn(fromBack) = Cardinality(ran)
        /\ prompts \in Nat /\ completions \in Nat /\ decode \in [Uid -> Nat]
        /\ toFront \in Seq(Page) /\ fromBack \in Seq(Batch)
    BY AccountIs DEF TypeOK, Page, Batch
  <1>1. CASE Listen
    <2> DEFINE b == Head(toFront)
    <2>1. toFront \in Seq(Page) /\ toFront # <<>> /\ toFront' = Tail(toFront)
      BY <1>1, MoveListen
    <2>2. \A k : /\ RepliesIn(toFront, k) = RepliesIn(toFront', k) + Cardinality(Said(b, k))
                 /\ RepliesIn(toFront', k) \in Nat /\ Cardinality(Said(b, k)) \in Nat
      BY <2>1, RepliesTail
    <2>3. /\ prompts' = prompts + Cardinality(Said(b, "admit"))
          /\ completions' = completions + Cardinality(Said(b, "text"))
          /\ UNCHANGED <<fromBack, ran, out>>
      BY <1>1 DEF Listen, scheduler
    <2>4. Sampled' = Sampled /\ TokensIn(fromBack') = TokensIn(fromBack) /\ StartsIn(fromBack') = StartsIn(fromBack)
      BY <2>3 DEF Sampled
    <2>5. TokensIn(fromBack) \in Nat /\ StartsIn(fromBack) \in Nat
      <3>1. [u \in Uid |-> Nothing] \in Batch
        BY NothingIs DEF Batch
      <3> QED
        BY <1>0, <3>1, ReportsPut
    <2> HIDE DEF b
    <2>6. completions' + RepliesIn(toFront', "text") + TokensIn(fromBack') = Cardinality(Sampled')
      BY <1>0, <2>2, <2>3, <2>4, <2>5
    <2>7. prompts' + RepliesIn(toFront', "admit") + StartsIn(fromBack') = Cardinality(ran')
      BY <1>0, <2>2, <2>3, <2>4, <2>5
    <2> QED
      BY <2>6, <2>7, AccountIs
  <1>2. CASE Tokenize
    <2> DEFINE u == Head(fromFront).uid
               e == Refused(u)
    <2>1. e \in Page /\ (toFront' = toFront \/ toFront' = Put(toFront, e, <<>>))
      BY <1>2, MoveTokenize
    <2>2. UNCHANGED <<prompts, completions, out>>
      BY <1>2 DEF Tokenize, frontend, scheduler
    <2>3. Said(e, "admit") = {} /\ Said(e, "text") = {}
      BY RefusalSays
    <2> HIDE DEF e
    <2>4. ASSUME NEW k \in {"text", "admit"} PROVE RepliesIn(toFront', k) = RepliesIn(toFront, k)
      <3>1. RepliesIn(Put(toFront, e, <<>>), k) = RepliesIn(toFront, k) + Cardinality(Said(e, k))
        BY <1>0, <2>1, <1>2, MoveTokenize, RepliesPut DEF e
      <3>2. RepliesIn(toFront, k) \in Nat /\ Cardinality(Said(e, k)) = 0
        <4>1. e \in Page
          BY <1>2, MoveTokenize DEF e
        <4> QED
          BY <1>0, <2>3, <4>1, RepliesPut, FS_EmptySet
      <3> QED
        BY <2>1, <3>1, <3>2
    <2>5. Sampled' = Sampled
      BY <2>2 DEF Sampled
    <2>6. UNCHANGED <<fromBack, ran>>
      BY <1>2, MoveTokenize
    <2> QED
      BY <1>0, <2>2, <2>4, <2>5, <2>6, AccountIs
  <1>3. CASE Detokenize
    <2> DEFINE b == Head(fromBack)
    <2>1. /\ fromBack # <<>> /\ b \in Batch /\ fromBack' = Tail(fromBack)
          /\ toFront' = Regrouped(toFront, b)
      BY <1>3, MoveDetokenize
    <2>2. UNCHANGED <<prompts, completions, out, ran>>
      BY <1>3 DEF Detokenize, frontend, scheduler
    <2>3. Sampled' = Sampled
      BY <2>2 DEF Sampled
    <2>4. /\ TokensIn(fromBack) = TokensIn(fromBack') + Cardinality(Drawn(b))
          /\ StartsIn(fromBack) = StartsIn(fromBack') + Cardinality(Started(b))
          /\ TokensIn(fromBack') \in Nat /\ Cardinality(Drawn(b)) \in Nat
          /\ StartsIn(fromBack') \in Nat /\ Cardinality(Started(b)) \in Nat
      BY <1>0, <2>1, ReportsTail
    <2> HIDE DEF b
    <2>5. /\ RepliesIn(toFront', "text") = RepliesIn(toFront, "text") + Cardinality(Drawn(b))
          /\ RepliesIn(toFront', "admit") = RepliesIn(toFront, "admit") + Cardinality(Started(b))
          /\ RepliesIn(toFront, "text") \in Nat /\ RepliesIn(toFront, "admit") \in Nat
      BY <1>0, <2>1, RegroupedHolds
    <2>6. completions' + RepliesIn(toFront', "text") + TokensIn(fromBack') = Cardinality(Sampled')
      BY <1>0, <2>2, <2>3, <2>4, <2>5
    <2>7. prompts' + RepliesIn(toFront', "admit") + StartsIn(fromBack') = Cardinality(ran')
      BY <1>0, <2>2, <2>4, <2>5
    <2> QED
      BY <2>6, <2>7, AccountIs
  <1>4. \A q \in Seq(Page) : RepliesIn(q, "text") \in Nat /\ RepliesIn(q, "admit") \in Nat
    <2>1. [u \in Uid |-> <<>>] \in Page
      BY DEF Page
    <2> QED
      BY <2>1, RepliesPut
  <1>5. CASE Receive
    <2>1. PICK starting \in SUBSET About(toBack, "user"), b \in Batch :
               /\ starting \subseteq Uid /\ b = Opening(starting)
               /\ fromBack' = Put(fromBack, b, Nothing) /\ ran' = ran \cup starting
               /\ toFront' = toFront
      BY <1>5, MoveReceive
    <2>2. UNCHANGED <<prompts, completions, out>>
      BY <1>5 DEF Receive, frontend
    <2>3. Sampled' = Sampled
      BY <2>2 DEF Sampled
    <2>4. Cardinality(Drawn(b)) = 0 /\ Started(b) = starting \X {1}
      BY <2>1, OpeningSays, FS_EmptySet
    <2>5. IsFiniteSet(starting) /\ Cardinality(starting \X {1}) = Cardinality(starting)
      <3> DEFINE f == [v \in starting |-> <<v, 1>>]
      <3>1. IsFiniteSet(starting)
        BY <2>1, Bounds, FS_Subset
      <3>2. f \in [starting -> starting \X {1}]
        OBVIOUS
      <3>3. \A x, y \in starting : f[x] = f[y] => x = y
        OBVIOUS
      <3>4. \A z \in starting \X {1} : \E x \in starting : f[x] = z
        OBVIOUS
      <3> HIDE DEF f
      <3> QED
        BY <3>1, <3>2, <3>3, <3>4, SameSize
    <2>6. Cardinality(ran') = Cardinality(ran) + Cardinality(starting) /\ Cardinality(ran) \in Nat
      <3>1. IsFiniteSet(ran)
        <4>1. ran \subseteq Uid
          BY Known
        <4> QED
          BY <4>1, Bounds, FS_Subset
      <3>2. ran \cap starting = {}
        <4>1. \A v \in starting : Asked(v)
          BY DEF Asked
        <4> QED
          BY <2>1, <4>1, UnheardIs
      <3> QED
        BY <2>1, <2>5, <3>1, <3>2, TwoSets
    <2>7. /\ TokensIn(fromBack') = TokensIn(fromBack) + Cardinality(Drawn(b))
          /\ StartsIn(fromBack') = StartsIn(fromBack) + Cardinality(Started(b))
          /\ TokensIn(fromBack) \in Nat /\ StartsIn(fromBack) \in Nat
          /\ Cardinality(Started(b)) \in Nat
      BY <1>0, <2>1, ReportsPut
    <2>8. completions' + RepliesIn(toFront', "text") + TokensIn(fromBack') = Cardinality(Sampled')
      BY <1>0, <2>1, <2>2, <2>3, <2>4, <2>7
    <2>9. prompts' + RepliesIn(toFront', "admit") + StartsIn(fromBack') = Cardinality(ran')
      BY <1>0, <1>4, <2>1, <2>2, <2>4, <2>5, <2>6, <2>7
    <2> QED
      BY <2>8, <2>9, AccountIs
  <1>6. CASE Step
    <2>1. PICK b \in Batch :
               /\ fromBack' = Put(fromBack, b, Nothing)
               /\ out' = [u \in Uid |-> out[u] + b[u].tokens] /\ out' \in [Uid -> 0..MaxTokens]
               /\ Started(b) = {}
               /\ UNCHANGED <<prompts, completions, toFront, ran>>
      BY <1>6, MoveStep
    <2>2. Cardinality(Sampled') = Cardinality(Sampled) + Cardinality(Drawn(b))
      BY <2>1, SampledGrows
    <2>3. /\ TokensIn(fromBack') = TokensIn(fromBack) + Cardinality(Drawn(b))
          /\ StartsIn(fromBack') = StartsIn(fromBack) + Cardinality(Started(b))
          /\ TokensIn(fromBack) \in Nat /\ StartsIn(fromBack) \in Nat
          /\ Cardinality(Drawn(b)) \in Nat
      BY <1>0, <2>1, ReportsPut
    <2>4. Cardinality(Started(b)) = 0
      BY <2>1, FS_EmptySet
    <2>5. completions' + RepliesIn(toFront', "text") + TokensIn(fromBack') = Cardinality(Sampled')
      BY <1>0, <1>4, <2>1, <2>2, <2>3
    <2>6. prompts' + RepliesIn(toFront', "admit") + StartsIn(fromBack') = Cardinality(ran')
      BY <1>0, <1>4, <2>1, <2>3, <2>4
    <2> QED
      BY <2>5, <2>6, AccountIs
  <1>7. ASSUME UNCHANGED <<prompts, completions, fromBack, toFront, ran, out>> PROVE AccountingExact'
    <2>1. Sampled' = Sampled
      BY <1>7 DEF Sampled
    <2> QED
      BY <1>0, <1>7, <2>1, AccountIs
  <1>8. CASE NewUser \/ NewUserUnsent
    BY <1>7, <1>8 DEF NewUser, NewUserUnsent, Enters, scheduler
  <1>9. ASSUME NEW u \in Uid, AbortUser(u) PROVE AccountingExact'
    BY <1>7, <1>9 DEF AbortUser, scheduler
  <1>10. CASE PassAbort
    BY <1>7, <1>10 DEF PassAbort, frontend, scheduler
  <1>11. CASE Quiet
    BY <1>7, <1>11 DEF Quiet
  <1> QED
    BY <1>1, <1>2, <1>3, <1>5, <1>6, <1>8, <1>9, <1>10, <1>11, Steps

----------------------------------------------------------------------------
(* How the replies follow each other.                                      *)

\* The obligation of one request.
Ordered(u) ==
    /\ \A i \in DOMAIN story[u] : story[u][i].fin => u \notin inflight
    /\ u \in inflight =>
          \E d \in Nat : /\ Chain(toFront, u, Len(story[u]), d)
                         /\ EndsArriving(u) \/ Upstream(u, d)

LEMMA OrderIs == OrderInv <=> StreamOrdered /\ \A u \in open : Ordered(u)
  BY DEF OrderInv, Ordered

\* Nothing follows anything, and so does an error.
LEMMA FollowsIs ==
    /\ \A c : Follows(c, <<>>)
    /\ \A c : Follows(c, <<Say("error", 0, TRUE)>>)
    /\ Follows(0, <<Say("admit", 0, FALSE)>>)
  <1>1. ASSUME NEW c PROVE Follows(c, <<>>)
    BY DEF Follows
  <1>2. ASSUME NEW c PROVE Follows(c, <<Say("error", 0, TRUE)>>)
    <2> DEFINE m == Say("error", 0, TRUE)
    <2>1. m.kind = "error"
      BY DEF Say
    <2> HIDE DEF m
    <2>2. <<m>>[1] = m /\ DOMAIN <<m>> = {1} /\ Len(<<m>>) = 1
      OBVIOUS
    <2> QED
      BY <2>1, <2>2 DEF Follows, m
  <1>3. Follows(0, <<Say("admit", 0, FALSE)>>)
    <2> DEFINE m == Say("admit", 0, FALSE)
    <2>1. m.kind = "admit" /\ ~m.fin
      BY DEF Say
    <2> HIDE DEF m
    <2>2. <<m>>[1] = m /\ DOMAIN <<m>> = {1} /\ 0 + 1 = 1
      OBVIOUS
    <2> QED
      BY <2>1, <2>2 DEF Follows, m
  <1> QED
    BY <1>1, <1>2, <1>3

\* What follows a stream without an end makes a longer one.
LEMMA FollowsConcat ==
    ASSUME NEW s \in Seq(Reply), NEW r \in Seq(Reply), Follows(0, s), Follows(Len(s), r),
           \A i \in DOMAIN s : ~s[i].fin
    PROVE  Follows(0, s \o r)
  <1> DEFINE t == s \o r
  <1>1. /\ DOMAIN s = 1..Len(s) /\ Len(s) \in Nat /\ DOMAIN r = 1..Len(r) /\ Len(r) \in Nat
        /\ Len(t) = Len(s) + Len(r) /\ DOMAIN t = 1..(Len(s) + Len(r))
        /\ \A i \in 1..Len(s) : t[i] = s[i]
        /\ \A i \in 1..(Len(s) + Len(r)) : i > Len(s) => t[i] = r[i - Len(s)]
    OBVIOUS
  <1> HIDE DEF t
  <1> SUFFICES ASSUME NEW i \in DOMAIN t
               PROVE  /\ t[i].kind = (IF 0 + i = 1 THEN "admit" ELSE "text") \/ t[i].kind = "error"
                      /\ t[i].kind = "text" => t[i].pos = 0 + i - 1
                      /\ t[i].fin => i = Len(t)
    BY DEF Follows, t
  <1>2. CASE i <= Len(s)
    <2>1. i \in DOMAIN s /\ t[i] = s[i] /\ ~s[i].fin
      BY <1>1, <1>2
    <2> QED
      BY <2>1 DEF Follows
  <1>3. CASE ~(i <= Len(s))
    <2> DEFINE k == i - Len(s)
    <2>1. /\ k \in DOMAIN r /\ t[i] = r[k] /\ Len(s) + k = 0 + i
          /\ Len(s) + k - 1 = 0 + i - 1 /\ (k = Len(r) => i = Len(t))
      <3>1. i \in 1..(Len(s) + Len(r)) /\ i > Len(s)
        BY <1>1, <1>3
      <3>2. t[i] = r[k]
        BY <1>1, <3>1
      <3>3. k \in 1..Len(r) /\ Len(s) + k = 0 + i /\ Len(s) + k - 1 = 0 + i - 1
        BY <1>1, <3>1
      <3>4. k = Len(r) => i = Len(t)
        BY <1>1, <3>1
      <3> QED
        BY <1>1, <3>2, <3>3, <3>4
    <2> HIDE DEF k
    <2>2. /\ r[k].kind = (IF Len(s) + k = 1 THEN "admit" ELSE "text") \/ r[k].kind = "error"
          /\ r[k].kind = "text" => r[k].pos = Len(s) + k - 1
          /\ r[k].fin => k = Len(r)
      BY <2>1 DEF Follows
    <2>3. t[i].kind = (IF 0 + i = 1 THEN "admit" ELSE "text") \/ t[i].kind = "error"
      BY <2>1, <2>2
    <2>4. t[i].kind = "text" => t[i].pos = 0 + i - 1
      BY <2>1, <2>2
    <2>5. t[i].fin => i = Len(t)
      BY <2>1, <2>2
    <2> QED
      BY <2>3, <2>4, <2>5
  <1> QED
    BY <1>2, <1>3

\* A queue that says nothing to a request leaves it where it is.
LEMMA ChainSilent ==
    ASSUME NEW q \in Seq(Page), NEW u, NEW c \in Nat, \A j \in DOMAIN q : q[j][u] = <<>>
    PROVE  Chain(q, u, c, c)
  <1> DEFINE at == [j \in 0..Len(q) |-> c]
  <1>1. Len(q) \in Nat /\ DOMAIN q = 1..Len(q)
    BY Queue
  <1>2. at \in [0..Len(q) -> Nat] /\ at[0] = c /\ at[Len(q)] = c
    BY <1>1
  <1>3. ASSUME NEW j \in DOMAIN q
        PROVE  Follows(at[j - 1], q[j][u]) /\ at[j] = at[j - 1] + Len(q[j][u])
    <2>1. q[j][u] = <<>> /\ Len(<<>>) = 0
      OBVIOUS
    <2>2. at[j] = c /\ at[j - 1] = c
      BY <1>1
    <2> HIDE DEF at
    <2> QED
      BY <2>1, <2>2, FollowsIs
  <1> HIDE DEF at
  <1> QED
    BY <1>2, <1>3 DEF Chain

\* A message that follows goes on at the end,
LEMMA ChainPut ==
    ASSUME NEW q \in Seq(Page), NEW b \in Page, NEW u \in Uid, NEW c \in Nat, NEW d \in Nat,
           Chain(q, u, c, d), Follows(d, b[u])
    PROVE  Chain(Put(q, b, <<>>), u, c, d + Len(b[u])) /\ d + Len(b[u]) \in Nat
  <1>1. Len(b[u]) \in Nat /\ (b[u] = <<>> => Len(b[u]) = 0)
    BY DEF Page
  <1>2. CASE \A v \in Uid : b[v] = <<>>
    <2>1. Put(q, b, <<>>) = q /\ d + Len(b[u]) = d
      BY <1>1, <1>2 DEF Put
    <2> QED
      BY <2>1
  <1>3. CASE ~\A v \in Uid : b[v] = <<>>
    <2> DEFINE r == Append(q, b)
               n == Len(q)
               e == d + Len(b[u])
    <2>1. Put(q, b, <<>>) = r
      BY <1>3 DEF Put
    <2>2. /\ DOMAIN q = 1..n /\ n \in Nat /\ DOMAIN r = 1..(n + 1) /\ Len(r) = n + 1
          /\ \A j \in 1..n : r[j] = q[j]
          /\ r[n + 1] = b
      BY Queue
    <2>3. PICK at \in [0..n -> Nat] :
            /\ at[0] = c /\ at[n] = d
            /\ \A j \in 1..n : Follows(at[j - 1], q[j][u]) /\ at[j] = at[j - 1] + Len(q[j][u])
      BY <2>2 DEF Chain
    <2> DEFINE to == [j \in 0..(n + 1) |-> IF j <= n THEN at[j] ELSE e]
    <2>4. e \in Nat
      BY <1>1
    <2> HIDE DEF r, n, e
    <2>5. /\ to \in [0..(n + 1) -> Nat] /\ to[0] = c /\ to[n + 1] = e
          /\ \A j \in 0..n : to[j] = at[j]
      BY <2>2, <2>3, <2>4
    <2> HIDE DEF to
    <2>6. ASSUME NEW j \in 1..(n + 1)
          PROVE  Follows(to[j - 1], r[j][u]) /\ to[j] = to[j - 1] + Len(r[j][u])
      <3>1. CASE j = n + 1
        <4>1. j - 1 = n /\ to[n] = d /\ to[j] = e /\ r[j] = b
          BY <2>2, <2>3, <2>5, <3>1
        <4> QED
          BY <4>1 DEF e
      <3>2. CASE j # n + 1
        <4>1. j \in 1..n /\ j - 1 \in 0..n /\ j \in 0..n
          BY <2>2, <3>2
        <4>2. to[j - 1] = at[j - 1] /\ to[j] = at[j] /\ r[j] = q[j]
          BY <2>2, <2>5, <4>1
        <4> QED
          BY <2>3, <4>1, <4>2
      <3> QED
        BY <3>1, <3>2
    <2>7. Chain(r, u, c, e)
      BY <2>2, <2>5, <2>6 DEF Chain
    <2> QED
      BY <2>1, <2>4, <2>7 DEF e
  <1> QED
    BY <1>2, <1>3

\* ... and the one at the front is the next to follow.
LEMMA ChainTail ==
    ASSUME NEW q \in Seq(Page), q # <<>>, NEW u \in Uid, NEW c \in Nat, NEW d \in Nat,
           Chain(q, u, c, d)
    PROVE  Follows(c, Head(q)[u]) /\ Chain(Tail(q), u, c + Len(Head(q)[u]), d)
  <1> DEFINE n == Len(q)
             r == Tail(q)
  <1>1. /\ DOMAIN q = 1..n /\ n \in Nat /\ n > 0 /\ Head(q) = q[1] /\ 1 \in 1..n
        /\ DOMAIN r = 1..(n - 1) /\ Len(r) = n - 1 /\ \A j \in 1..(n - 1) : r[j] = q[j + 1]
    BY Queue
  <1>2. PICK at \in [0..n -> Nat] :
          /\ at[0] = c /\ at[n] = d
          /\ \A j \in 1..n : Follows(at[j - 1], q[j][u]) /\ at[j] = at[j - 1] + Len(q[j][u])
    BY <1>1 DEF Chain
  <1> DEFINE to == [j \in 0..(n - 1) |-> at[j + 1]]
  <1> HIDE DEF n, r
  <1>3. Follows(c, Head(q)[u]) /\ at[1] = c + Len(Head(q)[u])
    <2>1. 1 - 1 = 0
      OBVIOUS
    <2> QED
      BY <1>1, <1>2, <2>1
  <1>4. /\ \A j \in 0..(n - 1) : j + 1 \in 0..n
        /\ 0 \in 0..(n - 1) /\ n - 1 \in 0..(n - 1) /\ (n - 1) + 1 = n /\ 0 + 1 = 1
    BY <1>1
  <1>5. to \in [0..(n - 1) -> Nat] /\ to[0] = at[1] /\ to[n - 1] = d
    BY <1>2, <1>4
  <1>6. ASSUME NEW j \in 1..(n - 1)
        PROVE  Follows(to[j - 1], r[j][u]) /\ to[j] = to[j - 1] + Len(r[j][u])
    <2>1. /\ j + 1 \in 1..n /\ j - 1 \in 0..(n - 1) /\ j \in 0..(n - 1)
          /\ (j - 1) + 1 = j /\ (j + 1) - 1 = j
      BY <1>1
    <2>2. to[j - 1] = at[j] /\ to[j] = at[j + 1] /\ r[j] = q[j + 1]
      BY <1>1, <2>1
    <2>3. Follows(at[j], q[j + 1][u]) /\ at[j + 1] = at[j] + Len(q[j + 1][u])
      BY <1>2, <2>1
    <2> QED
      BY <2>2, <2>3
  <1> HIDE DEF to
  <1>7. Chain(r, u, at[1], d)
    BY <1>1, <1>5, <1>6 DEF Chain
  <1> QED
    BY <1>3, <1>7 DEF r

\* The three messages of the detokenizer go on where the queue stopped.
LEMMA ChainRegrouped ==
    ASSUME NEW q \in Seq(Page), NEW b, Admissions(b) \in Page, Detokenized(b) \in Page,
           Errors(b) \in Page, NEW u \in Uid, NEW c \in Nat, NEW d \in Nat, Chain(q, u, c, d),
           Follows(d, Admissions(b)[u]),
           Follows(d + Len(Admissions(b)[u]), Detokenized(b)[u]),
           \A e : Follows(e, Errors(b)[u])
    PROVE  LET e == d + Len(Admissions(b)[u]) + Len(Detokenized(b)[u]) + Len(Errors(b)[u])
           IN  Chain(Regrouped(q, b), u, c, e) /\ e \in Nat
  <1> DEFINE A == Admissions(b)
             D == Detokenized(b)
             E == Errors(b)
             s == Put(q, A, <<>>)
             t == Put(s, D, <<>>)
             m == d + Len(A[u])
             n == m + Len(D[u])
  <1>1. s \in Seq(Page) /\ Chain(s, u, c, m) /\ m \in Nat
    BY ChainPut, PutQueue
  <1>2. Follows(m, D[u])
    OBVIOUS
  <1>3. Regrouped(q, b) = Put(t, E, <<>>)
    BY DEF Regrouped
  <1>4. A \in Page /\ D \in Page /\ E \in Page /\ \A e : Follows(e, E[u])
    OBVIOUS
  <1> HIDE DEF s, m, A, D, E
  <1>5. t \in Seq(Page) /\ Chain(t, u, c, n) /\ n \in Nat
    BY <1>1, <1>2, <1>4, ChainPut, PutQueue
  <1> HIDE DEF t, n
  <1>6. Chain(Put(t, E, <<>>), u, c, n + Len(E[u])) /\ n + Len(E[u]) \in Nat
    BY <1>4, <1>5, ChainPut
  <1> QED
    BY <1>3, <1>6 DEF n, m, A, D, E

\* What is left of the scheduler's side when the request itself does not move,
LEMMA UpstreamKept ==
    ASSUME NEW u \in Uid, NEW d \in Nat, Upstream(u, d), fromBack' = fromBack,
           decode'[u] = decode[u], u \in active' => u \in active
    PROVE  Upstream(u, d)'
  BY DEF Upstream

\* ... and when the scheduler reports on a request at work.
LEMMA UpstreamPut ==
    ASSUME TypeOK, NEW u \in Uid, NEW d \in Nat, Upstream(u, d), NEW b \in Batch,
           fromBack' = Put(fromBack, b, Nothing), ~b[u].admitted, b[u].tokens > 0 => u \in active,
           decode'[u] = decode[u], u \in active' => u \in active
    PROVE  Upstream(u, d)'
  <1>1. fromBack \in Seq(Batch) /\ DOMAIN fromBack = 1..Len(fromBack) /\ Len(fromBack) \in Nat
    BY Queue DEF TypeOK, Batch
  <1>2. /\ \A j \in DOMAIN fromBack : j \in DOMAIN fromBack' /\ fromBack'[j] = fromBack[j]
        /\ \A j \in DOMAIN fromBack' :
              j \in DOMAIN fromBack \/ (j = Len(fromBack) + 1 /\ fromBack'[j] = b)
        /\ DOMAIN fromBack' \in {1..Len(fromBack), 1..(Len(fromBack) + 1)}
    BY <1>1, PutQueue
  <1>3. decode'[u] = (IF d = 0 THEN 0 ELSE d - 1)
    BY DEF Upstream
  <1>4. u \in active' => d > 0 \/ \E k \in DOMAIN fromBack' : fromBack'[k][u].admitted
    BY <1>2 DEF Upstream
  <1>5. ASSUME NEW j \in DOMAIN fromBack', fromBack'[j][u].admitted
        PROVE  /\ d = 0 /\ fromBack'[j][u].tokens = 0 /\ fromBack'[j][u].end = "more"
               /\ \A k \in DOMAIN fromBack' : k < j => fromBack'[k][u] = Nothing
    <2>1. j \in DOMAIN fromBack /\ fromBack'[j] = fromBack[j]
      BY <1>2, <1>5
    <2>2. \A k \in DOMAIN fromBack' : k < j => k \in DOMAIN fromBack
      BY <1>1, <1>2, <2>1
    <2> QED
      BY <1>2, <1>5, <2>1, <2>2 DEF Upstream
  <1>6. ASSUME NEW j \in DOMAIN fromBack', fromBack'[j][u].tokens > 0
        PROVE  d > 0 \/ \E k \in DOMAIN fromBack' : k < j /\ fromBack'[k][u].admitted
    <2>1. CASE j \in DOMAIN fromBack
      <3>1. d > 0 \/ \E k \in DOMAIN fromBack : k < j /\ fromBack[k][u].admitted
        BY <1>2, <1>6, <2>1 DEF Upstream
      <3> QED
        BY <1>2, <3>1
    <2>2. CASE j = Len(fromBack) + 1 /\ fromBack'[j] = b
      <3>1. d > 0 \/ \E k \in DOMAIN fromBack : fromBack[k][u].admitted
        BY <1>6, <2>2 DEF Upstream
      <3>2. \A k \in DOMAIN fromBack : k < j
        BY <1>1, <2>2
      <3> QED
        BY <1>2, <3>1, <3>2
    <2> QED
      BY <1>2, <2>1, <2>2
  <1> QED
    BY <1>3, <1>4, <1>5, <1>6 DEF Upstream

\* A request whose replies and place stay as they are keeps its order.
LEMMA OrderedKept ==
    ASSUME NEW u \in Uid, Ordered(u), UNCHANGED <<toFront, fromBack>>, story'[u] = story[u],
           u \in inflight <=> u \in inflight', decode'[u] = decode[u], u \in active' => u \in active
    PROVE  Ordered(u)'
  <1>1. EndsArriving(u) => EndsArriving(u)'
    BY DEF EndsArriving
  <1>2. \A d \in Nat : Upstream(u, d) => Upstream(u, d)'
    BY UpstreamKept
  <1> QED
    BY <1>1, <1>2 DEF Ordered

\* What nobody has said anything to starts at the beginning.
LEMMA OrderedFresh ==
    ASSUME toFront \in Seq(Page), NEW u \in Uid, ~Arriving(u), UNCHANGED toFront, story'[u] = <<>>,
           Upstream(u, 0)'
    PROVE  Ordered(u)'
  <1>1. Chain(toFront', u, 0, 0)
    BY ChainSilent DEF Arriving
  <1>2. Len(story'[u]) = 0 /\ DOMAIN story'[u] = {} /\ 0 \in Nat
    OBVIOUS
  <1> QED
    BY <1>1, <1>2 DEF Ordered

\* listen() hands over what follows.
LEMMA OrderListen ==
    ASSUME TypeOK, LifeInv, StreamOrdered, NEW u \in open, Ordered(u), Listen
    PROVE  Ordered(u)' /\ Follows(0, story'[u])
  <1> DEFINE b == Head(toFront)
             c == Len(story[u])
  <1>1. /\ toFront \in Seq(Page) /\ toFront # <<>> /\ b \in Page /\ toFront' = Tail(toFront)
        /\ inflight' = inflight \ Ended(b) /\ story'[u] = story[u] \o b[u]
        /\ UNCHANGED <<fromBack, decode, active>>
        /\ u \in Uid /\ (Arriving(u) <=> b[u] # <<>> \/ Arriving(u)')
    BY MoveListen, Known
  <1>2. story[u] \in Seq(Reply) /\ b[u] \in Seq(Reply) /\ Follows(0, story[u])
    BY <1>1 DEF TypeOK, Page, StreamOrdered
  <1>3. CASE u \notin inflight
    <2>1. b[u] = <<>>
      BY <1>1, <1>3 DEF LifeInv
    <2>2. story'[u] = story[u]
      <3>1. \A s \in Seq(Reply) : s \o <<>> = s
        OBVIOUS
      <3> HIDE DEF b
      <3> QED
        BY <1>1, <1>2, <2>1, <3>1
    <2> QED
      BY <1>1, <1>2, <1>3, <2>2 DEF Ordered
  <1>4. CASE u \in inflight
    <2>1. PICK d \in Nat : Chain(toFront, u, c, d) /\ (EndsArriving(u) \/ Upstream(u, d))
      BY <1>4 DEF Ordered
    <2>2. c \in Nat /\ DOMAIN story[u] = 1..c
      BY <1>2
    <2>3. Follows(c, b[u]) /\ Chain(toFront', u, c + Len(b[u]), d)
      BY <1>1, <2>1, <2>2, ChainTail
    <2>4. \A i \in DOMAIN story[u] : ~story[u][i].fin
      BY <1>4 DEF Ordered
    <2>5. Follows(0, story'[u])
      BY <1>1, <1>2, <2>3, <2>4, FollowsConcat
    <2>6. /\ Len(story'[u]) = c + Len(b[u])
          /\ \A i \in DOMAIN story'[u] : \/ i \in DOMAIN story[u] /\ story'[u][i] = story[u][i]
                                         \/ \E k \in DOMAIN b[u] : story'[u][i] = b[u][k]
      <3> DEFINE s == story[u]
                 r == b[u]
      <3>1. s \in Seq(Reply) /\ r \in Seq(Reply) /\ story'[u] = s \o r
        BY <1>1, <1>2
      <3> HIDE DEF s, r
      <3>2. /\ Len(s \o r) = Len(s) + Len(r) /\ DOMAIN (s \o r) = 1..(Len(s) + Len(r))
            /\ \A i \in DOMAIN (s \o r) : \/ i \in DOMAIN s /\ (s \o r)[i] = s[i]
                                          \/ \E k \in DOMAIN r : (s \o r)[i] = r[k]
        <4>1. /\ Len(s) \in Nat /\ Len(r) \in Nat /\ DOMAIN s = 1..Len(s) /\ DOMAIN r = 1..Len(r)
              /\ Len(s \o r) = Len(s) + Len(r) /\ DOMAIN (s \o r) = 1..(Len(s) + Len(r))
              /\ \A i \in 1..Len(s) : (s \o r)[i] = s[i]
              /\ \A i \in 1..(Len(s) + Len(r)) : i > Len(s) => (s \o r)[i] = r[i - Len(s)]
          BY <3>1
        <4>2. ASSUME NEW i \in 1..(Len(s) + Len(r))
              PROVE  \/ i \in DOMAIN s /\ (s \o r)[i] = s[i]
                     \/ \E k \in DOMAIN r : (s \o r)[i] = r[k]
          <5>1. CASE i <= Len(s)
            BY <4>1, <5>1
          <5>2. CASE i > Len(s)
            <6>1. i - Len(s) \in DOMAIN r
              BY <4>1, <5>2
            <6> QED
              BY <4>1, <5>2, <6>1
          <5> QED
            BY <4>1, <5>1, <5>2
        <4> QED
          BY <4>1, <4>2
      <3> QED
        BY <3>1, <3>2 DEF s, r
    <2>7. \A i \in DOMAIN story'[u] : story'[u][i].fin => u \notin inflight'
      BY <1>1, <2>4, <2>6 DEF Ended
    <2>8. ASSUME u \in inflight', EndsArriving(u) PROVE EndsArriving(u)'
      <3>1. /\ Head(toFront) = toFront[1] /\ DOMAIN toFront = 1..Len(toFront) /\ Len(toFront) \in Nat
            /\ DOMAIN Tail(toFront) = 1..(Len(toFront) - 1)
            /\ \A j \in DOMAIN Tail(toFront) : Tail(toFront)[j] = toFront[j + 1]
        BY <1>1, Queue
      <3>2. PICK j \in DOMAIN toFront : u \in Ended(toFront[j])
        BY <2>8 DEF EndsArriving
      <3>3. j # 1
        BY <1>1, <2>8, <3>1, <3>2
      <3>4. j - 1 \in DOMAIN Tail(toFront) /\ (j - 1) + 1 = j
        BY <3>1, <3>3
      <3>5. u \in Ended(Tail(toFront)[j - 1])
        BY <3>1, <3>2, <3>4
      <3> QED
        BY <1>1, <3>4, <3>5 DEF EndsArriving
    <2>9. Upstream(u, d) => Upstream(u, d)'
      BY <1>1, UpstreamKept
    <2> QED
      BY <2>1, <2>3, <2>5, <2>6, <2>7, <2>8, <2>9 DEF Ordered
  <1> QED
    BY <1>3, <1>4

\* The detokenizer says what the scheduler reports, where it left off.
LEMMA OrderDetokenize ==
    ASSUME TypeOK, EndInv, NEW u \in open, Ordered(u), Detokenize
    PROVE  Ordered(u)'
  <1>b. PICK b : b = Head(fromBack)
    OBVIOUS
  <1>a. PICK A, D, E, c : A = Admissions(b)[u] /\ D = Detokenized(b)[u] /\ E = Errors(b)[u] /\ c = Len(story[u])
    OBVIOUS
  <1>1. /\ fromBack \in Seq(Batch) /\ fromBack # <<>> /\ b \in Batch /\ fromBack' = Tail(fromBack)
        /\ toFront \in Seq(Page) /\ toFront' = Regrouped(toFront, b)
        /\ Admissions(b) \in Page /\ Detokenized(b) \in Page /\ Errors(b) \in Page
        /\ u \in Uid /\ (Rising(u) <=> b[u] # Nothing \/ Rising(u)')
        /\ b[u] = Nothing => A = <<>> /\ D = <<>> /\ E = <<>>
        /\ decode'[u] = IF b[u].end # "more" THEN 0 ELSE decode[u] + b[u].tokens
        /\ UNCHANGED <<inflight, active, story>>
    BY <1>b, <1>a, MoveDetokenize, Known
  <1>2. /\ fromBack[1] = b /\ DOMAIN fromBack = 1..Len(fromBack) /\ Len(fromBack) \in Nat
        /\ 1 \in DOMAIN fromBack
        /\ DOMAIN fromBack' = 1..(Len(fromBack) - 1)
        /\ \A j \in DOMAIN fromBack' : j + 1 \in DOMAIN fromBack /\ fromBack'[j] = fromBack[j + 1]
    BY <1>b, <1>1, Queue
  <1>3. /\ b[u] \in Report /\ b[u].tokens \in Nat /\ b[u].end \in {"more", "last", "error"}
        /\ decode[u] \in Nat
    BY <1>1, Bounds DEF Batch, Report, TypeOK
  <1>4. /\ A = IF b[u].admitted THEN <<Say("admit", 0, FALSE)>> ELSE <<>>
        /\ E = IF b[u].end = "error" THEN <<Say("error", 0, TRUE)>> ELSE <<>>
        /\ Len(D) = b[u].tokens /\ DOMAIN D = 1..b[u].tokens /\ (b[u].tokens = 0 => D = <<>>)
        /\ \A i \in 1..b[u].tokens : /\ D[i].kind = "text" /\ D[i].pos = decode[u] + i
                                     /\ D[i].fin <=> b[u].end = "last" /\ i = b[u].tokens
        /\ Ended(Detokenized(b)) = {v \in Uid : b[v].end = "last" /\ b[v].tokens > 0}
        /\ Ended(Errors(b)) = {v \in Uid : b[v].end = "error"}
    <2>1. A = IF b[u].admitted THEN <<Say("admit", 0, FALSE)>> ELSE <<>>
      BY <1>a, <1>1, AdmissionsSay
    <2>2. /\ E = IF b[u].end = "error" THEN <<Say("error", 0, TRUE)>> ELSE <<>>
          /\ Ended(Errors(b)) = {v \in Uid : b[v].end = "error"}
      BY <1>a, <1>1, ErrorsSay
    <2>3. decode \in [Uid -> Nat]
      BY DEF TypeOK
    <2>4. /\ Len(D) = b[u].tokens /\ DOMAIN D = 1..b[u].tokens /\ (b[u].tokens = 0 => D = <<>>)
          /\ \A i \in 1..b[u].tokens : /\ D[i].kind = "text" /\ D[i].pos = decode[u] + i
                                       /\ D[i].fin <=> b[u].end = "last" /\ i = b[u].tokens
          /\ Ended(Detokenized(b)) = {v \in Uid : b[v].end = "last" /\ b[v].tokens > 0}
      BY <1>a, <1>1, <2>3, TextSays
    <2> QED
      BY <2>1, <2>2, <2>4
  <1>5. (\A e : Follows(e, E)) /\ (b[u].end # "error" => Len(E) = 0)
    <2>1. Len(<<>>) = 0
      OBVIOUS
    <2> QED
      BY <1>4, <2>1, FollowsIs
  <1>6. Len(A) \in Nat /\ Len(E) \in Nat /\ (b[u].admitted => Len(A) = 1) /\ (~b[u].admitted => Len(A) = 0)
    <2>1. Len(<<Say("admit", 0, FALSE)>>) = 1 /\ Len(<<>>) = 0 /\ Len(<<Say("error", 0, TRUE)>>) = 1
      OBVIOUS
    <2> QED
      BY <1>4, <2>1
  <1>7. EndsArriving(u) => EndsArriving(u)'
    <2>1. \A j \in DOMAIN toFront : j \in DOMAIN toFront' /\ toFront'[j] = toFront[j]
      BY <1>1, Pages
    <2> QED
      BY <2>1 DEF EndsArriving
  <1>8. b[u].end # "more" => EndsArriving(u)'
    <2>1. b[u].end = "last" => b[u].tokens > 0
      BY <1>1, <1>2 DEF EndInv
    <2>2. \A p \in {Detokenized(b), Errors(b)} :
             (\E v \in Uid : p[v] # <<>>) => \E j \in DOMAIN toFront' : toFront'[j] = p
      <3> DEFINE P == Detokenized(b)
                 Q == Errors(b)
                 r == Regrouped(toFront, b)
      <3>1. \A p \in {Admissions(b), P, Q} :
               (\E v \in Uid : p[v] # <<>>) => \E j \in DOMAIN r : j \notin DOMAIN toFront /\ r[j] = p
        BY <1>1, Pages
      <3>2. toFront' = r
        BY <1>1
      <3> HIDE DEF P, Q, r
      <3>3. \A p \in {P, Q} : (\E v \in Uid : p[v] # <<>>) => \E j \in DOMAIN toFront' : toFront'[j] = p
        BY <3>1, <3>2
      <3> QED
        BY <3>3 DEF P, Q
    <2>3. ASSUME b[u].end = "last" PROVE EndsArriving(u)'
      <3>1. u \in Ended(Detokenized(b)) /\ D # <<>>
        <4>1. Len(<<>>) = 0
          OBVIOUS
        <4> QED
          BY <1>1, <1>3, <1>4, <2>1, <2>3, <4>1
      <3>2. PICK j \in DOMAIN toFront' : toFront'[j] = Detokenized(b)
        BY <1>a, <1>1, <2>2, <3>1
      <3> QED
        BY <3>1, <3>2 DEF EndsArriving
    <2>4. ASSUME b[u].end = "error" PROVE EndsArriving(u)'
      <3>1. u \in Ended(Errors(b)) /\ E # <<>>
        <4>1. <<Say("error", 0, TRUE)>> # <<>>
          OBVIOUS
        <4>2. E = <<Say("error", 0, TRUE)>>
          BY <1>4, <2>4
        <4> QED
          BY <1>1, <1>4, <2>4, <4>1, <4>2
      <3>2. PICK j \in DOMAIN toFront' : toFront'[j] = Errors(b)
        BY <1>a, <1>1, <2>2, <3>1
      <3> QED
        BY <3>1, <3>2 DEF EndsArriving
    <2> QED
      BY <1>3, <2>3, <2>4
  <1>9. CASE u \notin inflight
    BY <1>1, <1>9 DEF Ordered
  <1>10. CASE u \in inflight
    <2>1. PICK d \in Nat : Chain(toFront, u, c, d) /\ (EndsArriving(u) \/ Upstream(u, d))
      BY <1>a, <1>10 DEF Ordered
    <2>2. c \in Nat
      BY <1>a, <1>1 DEF TypeOK
    <2>e. PICK e : e = d + Len(A) + Len(D) + Len(E)
      OBVIOUS
    <2>3. ASSUME Follows(d, A), Follows(d + Len(A), D)
          PROVE  Chain(toFront', u, c, e) /\ e \in Nat
      BY <1>a, <1>1, <1>5, <2>1, <2>2, <2>3, <2>e, ChainRegrouped
    <2>4. SUFFICES /\ Follows(d, A) /\ Follows(d + Len(A), D)
                   /\ EndsArriving(u)' \/ Upstream(u, e)'
      <3>1. Chain(toFront', u, Len(story'[u]), e) /\ e \in Nat
        BY <1>a, <1>1, <2>3
      <3>2. \A i \in DOMAIN story'[u] : story'[u][i].fin => u \notin inflight'
        BY <1>1 DEF Ordered
      <3> QED
        BY <3>1, <3>2 DEF Ordered
    <2>5. CASE EndsArriving(u)
      <3>1. b[u] = Nothing
        BY <1>1, <2>5 DEF EndsArriving, EndInv
      <3> QED
        BY <1>1, <1>7, <2>5, <3>1, FollowsIs
    <2>6. CASE Upstream(u, d)
      <3>0. /\ decode[u] = (IF d = 0 THEN 0 ELSE d - 1)
            /\ b[u].admitted => d = 0 /\ b[u].tokens = 0 /\ b[u].end = "more"
            /\ b[u].tokens > 0 => d > 0
        BY <1>2, <2>6 DEF Upstream
      <3>1. Follows(d, A)
        BY <1>4, <3>0, FollowsIs
      <3>2. Follows(d + Len(A), D)
        <4>1. CASE b[u].tokens = 0
          BY <1>4, <4>1, FollowsIs
        <4>2. CASE b[u].tokens > 0
          <5>1. d > 0 /\ d + Len(A) = d
            BY <1>6, <3>0, <4>2
          <5>2. ASSUME NEW i \in DOMAIN D
                PROVE  D[i].kind = "text" /\ d + i # 1 /\ D[i].pos = d + i - 1 /\ (D[i].fin => i = Len(D))
            <6>1. i \in Nat /\ i >= 1 /\ D[i].kind = "text" /\ D[i].pos = decode[u] + i /\ (D[i].fin => i = Len(D))
              BY <1>3, <1>4
            <6>2. decode[u] = d - 1
              BY <3>0, <5>1
            <6> QED
              BY <5>1, <6>1, <6>2
          <5> QED
            BY <5>1, <5>2 DEF Follows
        <4> QED
          BY <1>3, <4>1, <4>2
      <3>3. CASE b[u].end # "more"
        BY <1>8, <3>1, <3>2, <3>3
      <3>4. CASE b[u].end = "more"
        <4>1. e = d + Len(A) + b[u].tokens
          <5>1. Len(E) = 0 /\ Len(D) = b[u].tokens
            BY <1>4, <1>5, <3>4
          <5> QED
            BY <1>3, <1>6, <2>1, <2>e, <5>1
        <4>2. decode'[u] = (IF e = 0 THEN 0 ELSE e - 1)
          <5>1. decode'[u] = decode[u] + b[u].tokens
            BY <1>1, <3>4
          <5>2. CASE b[u].admitted
            <6>1. d = 0 /\ b[u].tokens = 0 /\ Len(A) = 1 /\ decode[u] = 0
              BY <1>6, <3>0, <5>2
            <6>2. e = 1 /\ decode'[u] = 0
              BY <4>1, <5>1, <6>1
            <6> QED
              BY <6>2
          <5>3. CASE ~b[u].admitted
            <6>1. e = d + b[u].tokens
              BY <1>3, <1>6, <4>1, <5>3
            <6>2. CASE d = 0
              BY <1>3, <3>0, <5>1, <6>1, <6>2
            <6>3. CASE d > 0
              BY <1>3, <3>0, <5>1, <6>1, <6>3
            <6> QED
              BY <6>2, <6>3
          <5> QED
            BY <5>2, <5>3
        <4>3. e \in Nat /\ (d > 0 => e > 0) /\ (b[u].admitted => e > 0) /\ (b[u].tokens > 0 => e > 0)
          <5>1. d \in Nat /\ Len(A) \in Nat /\ b[u].tokens \in Nat
            BY <1>3, <1>6
          <5>2. \A x, y, z \in Nat : /\ x + y + z \in Nat /\ (x > 0 => x + y + z > 0)
                                      /\ (y = 1 => x + y + z > 0) /\ (z > 0 => x + y + z > 0)
            OBVIOUS
          <5>3. /\ d + Len(A) + b[u].tokens \in Nat /\ (d > 0 => d + Len(A) + b[u].tokens > 0)
                /\ (Len(A) = 1 => d + Len(A) + b[u].tokens > 0)
                /\ (b[u].tokens > 0 => d + Len(A) + b[u].tokens > 0)
            BY <5>1, <5>2
          <5> QED
            BY <1>6, <4>1, <5>3
        <4>4. b[u] # Nothing \/ e = d
          <5> QED
            BY <1>6, <4>1, NothingIs
        <4>5. b[u] # Nothing => e > 0
          <5>1. b[u] # Nothing => b[u].admitted \/ b[u].tokens # 0
            BY <1>3, <3>4, NothingIs
          <5> QED
            BY <1>3, <4>3, <5>1
        <4>6. ASSUME NEW j \in DOMAIN fromBack', fromBack'[j][u].admitted
              PROVE  /\ e = 0 /\ fromBack'[j][u].tokens = 0 /\ fromBack'[j][u].end = "more"
                     /\ \A k \in DOMAIN fromBack' : k < j => fromBack'[k][u] = Nothing
          <5>1. /\ d = 0 /\ fromBack'[j][u].tokens = 0 /\ fromBack'[j][u].end = "more"
                /\ \A k \in DOMAIN fromBack : k < j + 1 => fromBack[k][u] = Nothing
            BY <1>2, <2>6, <4>6 DEF Upstream
          <5>2. 1 < j + 1 /\ \A k \in DOMAIN fromBack' : k < j => k + 1 < j + 1
            BY <1>2
          <5>3. b[u] = Nothing
            BY <1>2, <5>1, <5>2
          <5> QED
            BY <1>2, <4>4, <5>1, <5>2, <5>3
        <4>7. ASSUME NEW j \in DOMAIN fromBack', fromBack'[j][u].tokens > 0
              PROVE  e > 0 \/ \E k \in DOMAIN fromBack' : k < j /\ fromBack'[k][u].admitted
          <5>1. d > 0 \/ \E k \in DOMAIN fromBack : k < j + 1 /\ fromBack[k][u].admitted
            BY <1>2, <2>6, <4>7 DEF Upstream
          <5>2. ASSUME NEW k \in DOMAIN fromBack, k < j + 1, fromBack[k][u].admitted, k # 1
                PROVE  \E l \in DOMAIN fromBack' : l < j /\ fromBack'[l][u].admitted
            <6>1. k - 1 \in DOMAIN fromBack' /\ k - 1 < j /\ (k - 1) + 1 = k
              BY <1>2, <5>2
            <6> QED
              BY <1>2, <5>2, <6>1
          <5> QED
            BY <1>2, <4>3, <5>1, <5>2
        <4>8. u \in active' => e > 0 \/ \E k \in DOMAIN fromBack' : fromBack'[k][u].admitted
          <5>1. u \in active' => d > 0 \/ \E k \in DOMAIN fromBack : fromBack[k][u].admitted
            BY <1>1, <2>6 DEF Upstream
          <5>2. ASSUME NEW k \in DOMAIN fromBack, fromBack[k][u].admitted, k # 1
                PROVE  \E l \in DOMAIN fromBack' : fromBack'[l][u].admitted
            <6>1. k - 1 \in DOMAIN fromBack' /\ (k - 1) + 1 = k
              BY <1>2, <5>2
            <6> QED
              BY <1>2, <5>2, <6>1
          <5> QED
            BY <1>2, <4>3, <5>1, <5>2
        <4>9. Upstream(u, e)'
          BY <4>2, <4>6, <4>7, <4>8 DEF Upstream
        <4> QED
          BY <3>1, <3>2, <4>9
      <3> QED
        BY <3>3, <3>4
    <2> QED
      BY <2>1, <2>5, <2>6
  <1> QED
    BY <1>9, <1>10

\* The scheduler opens with the admission.
LEMMA OrderReceive ==
    ASSUME TypeOK, AskInv, LifeInv, AbortInv, NEW u \in open, Ordered(u), Receive
    PROVE  Ordered(u)'
  <1>1. PICK starting \in SUBSET About(toBack, "user"), b \in Batch :
             /\ starting \subseteq Uid /\ b = Opening(starting)
             /\ fromBack \in Seq(Batch) /\ fromBack' = Put(fromBack, b, Nothing)
             /\ active' = (active \cup starting) \ About(toBack, "abort")
             /\ UNCHANGED <<inflight, toFront, decode, story>>
    BY MoveReceive
  <1>2. u \in Uid /\ active \subseteq ran /\ toFront \in Seq(Page)
    BY Known DEF TypeOK, Page
  <1>3. /\ b[u].admitted <=> u \in starting
        /\ b[u].tokens = 0
        /\ b[u].end = IF u \in About(toBack, "user") \ starting THEN "error" ELSE "more"
        /\ b[u] # Nothing => u \in starting \cup About(toBack, "user")
        /\ u \in starting => b[u] # Nothing
    BY <1>1, <1>2, OpeningSays
  <1>4. CASE u \in About(toBack, "user")
    <2>1. u \notin ran /\ ~Rising(u) /\ ~Arriving(u) /\ decode[u] = 0 /\ story[u] = <<>>
      BY <1>2, <1>4, UnheardIs DEF Asked
    <2>2. DOMAIN fromBack = 1..Len(fromBack) /\ Len(fromBack) \in Nat
      BY <1>1, Queue
    <2>3. /\ \A j \in DOMAIN fromBack' :
                \/ j \in DOMAIN fromBack /\ fromBack'[j][u] = Nothing
                \/ j = Len(fromBack) + 1 /\ fromBack'[j] = b
          /\ b[u] # Nothing => Len(fromBack) + 1 \in DOMAIN fromBack' /\ fromBack'[Len(fromBack) + 1] = b
      <3>1. /\ \A j \in DOMAIN fromBack' :
                  \/ j \in DOMAIN fromBack /\ fromBack'[j] = fromBack[j]
                  \/ j = Len(fromBack) + 1 /\ fromBack'[j] = b
            /\ b[u] # Nothing => Len(fromBack) + 1 \in DOMAIN fromBack' /\ fromBack'[Len(fromBack) + 1] = b
        BY <1>1, <1>2, PutQueue
      <3> QED
        BY <2>1, <3>1 DEF Rising
    <2>4. ASSUME NEW j \in DOMAIN fromBack', fromBack'[j][u].admitted
          PROVE  /\ fromBack'[j][u].tokens = 0 /\ fromBack'[j][u].end = "more"
                 /\ \A k \in DOMAIN fromBack' : k < j => fromBack'[k][u] = Nothing
      <3>1. j = Len(fromBack) + 1 /\ fromBack'[j] = b
        BY <2>3, <2>4, NothingIs
      <3>2. \A k \in DOMAIN fromBack' : k < j => fromBack'[k][u] = Nothing
        BY <2>3, <2>2, <3>1
      <3> QED
        BY <1>3, <2>4, <3>1, <3>2
    <2>5. \A j \in DOMAIN fromBack' : ~(fromBack'[j][u].tokens > 0)
      <3>1. ~(0 > 0)
        OBVIOUS
      <3> QED
        BY <1>3, <2>3, <3>1, NothingIs
    <2>6. u \in active' => \E k \in DOMAIN fromBack' : fromBack'[k][u].admitted
      BY <1>1, <1>2, <1>3, <2>1, <2>3
    <2>7. Upstream(u, 0)'
      BY <1>1, <2>1, <2>4, <2>5, <2>6 DEF Upstream
    <2> QED
      BY <1>1, <1>2, <2>1, <2>7, OrderedFresh
  <1>5. CASE u \notin About(toBack, "user")
    <2>1. ~b[u].admitted /\ ~(b[u].tokens > 0) /\ (u \in active' => u \in active)
      BY <1>1, <1>3, <1>5
    <2>2. \A d \in Nat : Upstream(u, d) => Upstream(u, d)'
      BY <1>1, <1>2, <2>1, UpstreamPut
    <2>3. EndsArriving(u) => EndsArriving(u)'
      BY <1>1 DEF EndsArriving
    <2> QED
      BY <1>1, <2>2, <2>3 DEF Ordered
  <1> QED
    BY <1>4, <1>5

LEMMA OrderStep ==
    ASSUME TypeOK, AskInv, LifeInv, EndInv, AbortInv, OrderInv, [Next]_vars
    PROVE  OrderInv'
  <1>0. /\ StreamOrdered /\ \A u \in open : Ordered(u)
        /\ story \in [Uid -> Seq(Reply)] /\ open \subseteq Uid /\ toFront \in Seq(Page)
    BY OrderIs, Known DEF TypeOK, Page
  <1> SUFFICES /\ \A u \in Uid : Follows(0, story'[u])
               /\ \A u \in open' : Ordered(u)'
    BY DEF OrderInv, Ordered, StreamOrdered
  <1>1. \A u \in Uid : Follows(0, story[u])
    BY <1>0 DEF StreamOrdered
  <1>2. CASE NewUser \/ NewUserUnsent
    <2>0. PICK n : n = next
      OBVIOUS
    <2>1. /\ n \in Uid /\ open' = open \cup {n} /\ inflight' = inflight \cup {n}
          /\ UNCHANGED <<fromBack, toFront, decode, active, story>>
      BY <1>2, <2>0, MoveNewUser, MoveUnsent
    <2>2. Ordered(n)'
      <3>1. n >= next
        BY <2>0, Known
      <3>2. n \notin ran /\ ~Rising(n) /\ ~Arriving(n) /\ decode[n] = 0 /\ story[n] = <<>>
        BY <2>1, <3>1, UnheardIs
      <3>3. \A j \in DOMAIN fromBack : ~fromBack[j][n].admitted /\ ~(fromBack[j][n].tokens > 0)
        <4>1. ~(0 > 0)
          OBVIOUS
        <4> QED
          BY <3>2, <4>1, NothingIs DEF Rising
      <3>4. n \notin active
        BY <3>2 DEF TypeOK
      <3>5. decode[n] = (IF 0 = 0 THEN 0 ELSE 0 - 1)
        BY <3>2
      <3>6. Upstream(n, 0)
        BY <3>3, <3>4, <3>5 DEF Upstream
      <3>7. Upstream(n, 0)'
        BY <2>1, <3>6, UpstreamKept
      <3> QED
        BY <1>0, <2>1, <3>2, <3>7, OrderedFresh
    <2>3. ASSUME NEW u \in open, u # n PROVE Ordered(u)'
      BY <1>0, <2>1, <2>3, OrderedKept
    <2> QED
      BY <1>1, <2>1, <2>2, <2>3
  <1>3. CASE Listen
    <2>1. \A u \in open : Ordered(u)' /\ Follows(0, story'[u])
      BY <1>0, <1>3, OrderListen
    <2>2. \A u \in Uid \ open : story'[u] = story[u]
      BY <1>3, MoveListen
    <2> QED
      BY <1>1, <1>3, <2>1, <2>2, MoveListen
  <1>4. ASSUME NEW v \in Uid, AbortUser(v)
        PROVE  /\ \A u \in Uid : Follows(0, story'[u])
               /\ \A u \in open' : Ordered(u)'
    <2>1. /\ open' = open \ {v} /\ \A u \in Uid : story'[u] = IF u = v THEN <<>> ELSE story[u]
          /\ UNCHANGED <<inflight, fromBack, toFront, decode, active>>
      BY <1>4, MoveAbortUser
    <2>2. \A u \in open' : Ordered(u)'
      BY <1>0, <2>1, OrderedKept
    <2> QED
      BY <1>1, <2>1, <2>2, FollowsIs
  <1>5. CASE Tokenize
    <2>0. PICK w : w = Head(fromFront).uid
      OBVIOUS
    <2>1. /\ w \in Uid /\ Refused(w) \in Page
          /\ toFront' = toFront \/ toFront' = Put(toFront, Refused(w), <<>>)
          /\ UNCHANGED <<open, inflight, fromBack, decode, active, story>>
      BY <1>5, <2>0, MoveTokenize
    <2>2. ASSUME toFront' = Put(toFront, Refused(w), <<>>), NEW u \in open PROVE Ordered(u)'
      <3>1. u \in Uid /\ Ordered(u)
        BY <1>0
      <3>2. /\ Refused(w)[u] = IF u = w THEN <<Say("error", 0, TRUE)>> ELSE <<>>
            /\ w \in Ended(Refused(w)) /\ Refused(w)[w] # <<>>
        <4>1. <<Say("error", 0, TRUE)>> # <<>>
          OBVIOUS
        <4>2. /\ \A v \in Uid : Refused(w)[v] = IF v = w THEN <<Say("error", 0, TRUE)>> ELSE <<>>
              /\ Ended(Refused(w)) = Uid \cap {w}
          BY RefusalSays
        <4> QED
          BY <2>1, <3>1, <4>1, <4>2
      <3>3. \A d : Follows(d, Refused(w)[u])
        BY <3>2, FollowsIs
      <3>4. /\ \A j \in DOMAIN toFront : j \in DOMAIN toFront' /\ toFront'[j] = toFront[j]
            /\ Len(toFront) + 1 \in DOMAIN toFront' /\ toFront'[Len(toFront) + 1] = Refused(w)
        BY <1>0, <2>1, <2>2, <3>2, PutQueue
      <3>5. EndsArriving(u) \/ u = w => EndsArriving(u)'
        BY <3>2, <3>4 DEF EndsArriving
      <3>6. \A d \in Nat : Upstream(u, d) => Upstream(u, d)'
        BY <2>1, <3>1, UpstreamKept
      <3>7. CASE u \notin inflight
        BY <2>1, <3>1, <3>7 DEF Ordered
      <3>8. CASE u \in inflight
        <4> DEFINE c == Len(story[u])
        <4>1. PICK d \in Nat : Chain(toFront, u, c, d) /\ (EndsArriving(u) \/ Upstream(u, d))
          BY <3>1, <3>8 DEF Ordered
        <4>2. c \in Nat
          BY <1>0, <3>1
        <4>3. Chain(toFront', u, c, d + Len(Refused(w)[u])) /\ d + Len(Refused(w)[u]) \in Nat
          BY <1>0, <2>1, <2>2, <3>1, <3>3, <4>1, <4>2, ChainPut
        <4>4. u # w => d + Len(Refused(w)[u]) = d
          <5>1. Len(<<>>) = 0
            OBVIOUS
          <5> QED
            BY <3>2, <5>1
        <4> QED
          BY <2>1, <3>1, <3>5, <3>6, <3>8, <4>1, <4>3, <4>4 DEF Ordered
      <3> QED
        BY <3>7, <3>8
    <2>3. ASSUME toFront' = toFront, NEW u \in open PROVE Ordered(u)'
      BY <1>0, <2>1, <2>3, OrderedKept
    <2> QED
      BY <1>1, <2>1, <2>2, <2>3
  <1>6. CASE PassAbort
    <2>0. PICK w : w = Head(fromFront).uid
      OBVIOUS
    <2>1. /\ w \in Uid /\ \A v \in Uid : decode'[v] = IF v = w THEN 0 ELSE decode[v]
          /\ About(fromFront, "abort") = About(fromFront', "abort") \cup {w}
          /\ UNCHANGED <<open, inflight, fromBack, toFront, active, story>>
      BY <1>6, <2>0, MovePassAbort
    <2>2. w \notin open
      BY <2>1 DEF AbortInv
    <2>3. \A u \in open : decode'[u] = decode[u]
      BY <1>0, <2>1, <2>2
    <2>4. \A u \in open : Ordered(u)'
      BY <1>0, <2>1, <2>3, OrderedKept
    <2> QED
      BY <1>1, <2>1, <2>4
  <1>7. CASE Detokenize
    <2>1. UNCHANGED <<open, story>>
      BY <1>7, MoveDetokenize
    <2> QED
      BY <1>0, <1>1, <1>7, <2>1, OrderDetokenize
  <1>8. CASE Receive
    <2>1. UNCHANGED <<open, story>>
      BY <1>8, MoveReceive
    <2> QED
      BY <1>0, <1>1, <1>8, <2>1, OrderReceive
  <1>9. CASE Step
    <2>1. PICK b \in Batch :
               /\ fromBack' = Put(fromBack, b, Nothing)
               /\ active' = {u \in active : b[u].end = "more"}
               /\ \A u \in Uid : ~b[u].admitted /\ (u \notin active => b[u] = Nothing)
               /\ UNCHANGED <<open, inflight, toFront, decode, story>>
      BY <1>9, MoveStep
    <2>2. ASSUME NEW u \in open PROVE Ordered(u)'
      <3>1. b[u].tokens > 0 => u \in active
        <4>1. ~(0 > 0)
          OBVIOUS
        <4> QED
          BY <1>0, <2>1, <4>1, NothingIs
      <3>2. \A d \in Nat : Upstream(u, d) => Upstream(u, d)'
        BY <1>0, <2>1, <3>1, UpstreamPut
      <3>3. EndsArriving(u) => EndsArriving(u)'
        BY <2>1 DEF EndsArriving
      <3> QED
        BY <1>0, <2>1, <3>2, <3>3 DEF Ordered
    <2> QED
      BY <1>1, <2>1, <2>2
  <1>10. CASE Quiet
    <2>1. /\ UNCHANGED <<inflight, fromBack, toFront, decode, active>> /\ open' \subseteq open
          /\ \A u \in Uid : story'[u] = story[u] \/ (u \notin open' /\ story'[u] = <<>>)
      BY <1>10 DEF Quiet
    <2>2. \A u \in open' : Ordered(u)'
      BY <1>0, <2>1, OrderedKept
    <2> QED
      BY <1>1, <2>1, <2>2, FollowsIs
  <1> QED
    BY <1>2, <1>3, <1>4, <1>5, <1>6, <1>7, <1>8, <1>9, <1>10, Steps

----------------------------------------------------------------------------
(* Theorems.                                                               *)

IInv ==
    /\ TypeOK /\ AskInv /\ LifeInv /\ EndInv /\ AbortInv
    /\ DecodeInv /\ SealInv /\ AccountingExact /\ OrderInv

LEMMA OrderInit == Init => OrderInv
  <1> SUFFICES ASSUME Init PROVE OrderInv
    OBVIOUS
  <1>1. open = {} /\ \A u \in Uid : story[u] = <<>>
    BY DEF Init
  <1> QED
    BY <1>1, FollowsIs DEF OrderInv, StreamOrdered

LEMMA Inductive ==
    ASSUME IInv, [Next]_vars
    PROVE  IInv'
  <1> USE DEF IInv
  <1>1. TypeOK'
    BY TypeStep
  <1>2. AskInv' /\ LifeInv'
    BY AskStep, LifeStep
  <1>3. EndInv' /\ AbortInv'
    BY EndStep, AbortStep
  <1>4. DecodeInv' /\ SealInv'
    BY <1>1, DecodeStep, SealStep
  <1>5. AccountingExact'
    BY AccountingStep
  <1>6. OrderInv'
    BY OrderStep
  <1> QED
    BY <1>1, <1>2, <1>3, <1>4, <1>5, <1>6

\* The invariant that all of the theorems below rest on.
LEMMA Invariant == Spec => []IInv
  <1>1. Init => IInv
    BY TypeInit, AskInit, AccountingInit, OrderInit DEF IInv
  <1>2. IInv /\ [Next]_vars => IInv'
    BY Inductive
  <1> QED
    BY <1>1, <1>2, PTL DEF Spec

\* Every variable of the frontend, of the queues and of the two workers stays in its type, and
\* with it what the code takes for granted of their maps: nothing is handed to a request that
\* is not in ack_map, an aborting request is in flight, what is active has been admitted.
THEOREM TypeCorrect == Spec => []TypeOK
  <1>1. IInv => TypeOK
    BY DEF IInv
  <1> QED
    BY <1>1, Invariant, PTL

\* listen() and the statistics count every prompt admitted and every token sampled once,
\* whatever the client did meanwhile, for every number of requests, clients and tokens.
THEOREM CountsExact == Spec => []AccountingExact
  <1>1. IInv => AccountingExact
    BY DEF IInv
  <1> QED
    BY <1>1, Invariant, PTL

\* When nothing is in flight nothing is at work, and no message holds anything.
LEMMA AtRest ==
    ASSUME IInv, inflight = {}
    PROVE  active = {} /\ completions = Cardinality(Sampled) /\ prompts = Cardinality(ran)
  <1>1. TypeOK /\ LifeInv /\ AccountingExact
    BY DEF IInv
  <1>2. active = {} /\ \A u \in Uid : ~Rising(u) /\ ~Arriving(u)
    BY <1>1, Known DEF LifeInv
  <1>3. RepliesIn(toFront, "text") = 0 /\ RepliesIn(toFront, "admit") = 0
    BY <1>2, NothingIn DEF Arriving
  <1>4. TokensIn(fromBack) = 0 /\ StartsIn(fromBack) = 0
    BY <1>2, NothingIn DEF Rising
  <1>5. prompts \in Nat /\ completions \in Nat
    BY <1>1 DEF TypeOK
  <1> QED
    BY <1>1, <1>2, <1>3, <1>4, <1>5, AccountIs

\* The totals prepare_stop_accounting() seals are the totals of all that was ever sampled and
\* admitted, and they stay so: nothing that happens after the seal adds to them.
THEOREM SealIsFinal == Spec => []SealedExact
  <1>1. ASSUME IInv PROVE SealedExact
    <2> SUFFICES ASSUME sealed.done
                 PROVE  /\ active = {} /\ sealed.completions = Cardinality(Sampled)
                        /\ sealed.prompts = Cardinality(ran)
      BY DEF SealedExact
    <2>1. inflight = {} /\ sealed.prompts = prompts /\ sealed.completions = completions
      BY <1>1 DEF IInv, SealInv
    <2> QED
      BY <1>1, <2>1, AtRest
  <1> QED
    BY <1>1, Invariant, PTL

\* A consumer gets the admission, then the text piece by piece, then one terminal reply and
\* nothing after it, and the scheduler never takes up again what it has aborted.
THEOREM OrderIsKept == Spec => []OrderKept
  <1>1. IInv => OrderKept
    BY DEF IInv, OrderInv, AbortInv, OrderKept, AbortSticks
  <1> QED
    BY <1>1, Invariant, PTL

\* The tokenizer worker keeps decode state for a request only while the scheduler works on it
\* or its tokens wait, unless the request was aborted.
THEOREM StateReleased == Spec => []DecodeReleased
  <1>1. ASSUME IInv PROVE DecodeReleased
    <2>1. \A u \in Uid : EndsRising(u) => Rising(u)
      BY NothingIs DEF EndsRising, Rising
    <2> QED
      BY <1>1, <2>1 DEF IInv, DecodeInv, DecodeReleased, Rising
  <1> QED
    BY <1>1, Invariant, PTL
=============================================================================
