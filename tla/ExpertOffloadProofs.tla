-------------------------- MODULE ExpertOffloadProofs --------------------------
(***************************************************************************)
(* Proofs about ExpertOffload, for every number of layers, experts and     *)
(* slots: the types and the slot table in any case; that host and device   *)
(* agree, that kept outputs are sound and that the redo loop ends when     *)
(* the experts of a token fit a layer.                                     *)
(***************************************************************************)
EXTENDS ExpertTableProofs

\* The table of every layer is in order.
Tables == DOMAIN cache = Layer /\ \A l \in Layer : Table(cache[l])

\* Every layer always has room for the experts of one token.
Fits ==
    /\ TopK <= InitialSlots /\ TopK <= Floor
    /\ \A total \in Totals : NumLayers * TopK <= total

Room ==
    /\ budget >= NumLayers * TopK
    /\ \A l \in Layer : cache[l].slots >= TopK

\* A step under way.  In attempt a the layers before a have the experts they should
\* route to, so the forward is right up to layer a: that layer routes as it should too,
\* and the commit leaves it its experts for attempt a + 1.
Running ==
    pc = "run" =>
       /\ allOk
       /\ layer <= attempt => sound
       /\ \A l \in Layer : l < attempt => want[l] \subseteq Resident(cache[l])
       /\ \A l \in Layer : l < layer =>
             /\ seen[l] \in Routes
             /\ l <= attempt => seen[l] = want[l]
             /\ sound => seen[l] = want[l]
       /\ (\A l \in Layer : l < layer => Right(cache[l], seen[l])) => sound

Committing ==
    pc = "commit" =>
       /\ attempt = NumLayers + 1 => allOk
       /\ \A l \in Layer :
             /\ seen[l] \in Routes
             /\ l <= attempt => seen[l] = want[l]
             /\ l < attempt => want[l] \subseteq Resident(cache[l])
             /\ l < layer => seen[l] \subseteq Resident(cache[l])
       /\ sound => seen = want
       /\ allOk /\ (\A l \in Layer : l >= layer => Right(cache[l], seen[l])) => sound

\* Between two forwards the scheduler's variables are as Return leaves them.
Rested == pc = "ready" => sound /\ allOk /\ attempt = 1 /\ layer = 1

Inv ==
    /\ TypeOK /\ Tables /\ Coherent /\ Room
    /\ Rested
    /\ pc = "serve" => sound
    /\ Running /\ Committing /\ Converges

-----------------------------------------------------------------------------
(* One access of the scheduler *)

\* An access changes the cache of the layer at hand only, and keeps it in order.
LEMMA UseKeeps ==
    ASSUME Tables, layer \in Layer, NEW S \in SUBSET Expert, NEW ord,
           BatchOrder(cache[layer], S, ord), Use(S, ord)
    PROVE  /\ Tables'
           /\ \A l \in Layer : cache'[l].slots = cache[l].slots
           /\ \A l \in Layer : l # layer => cache'[l] = cache[l]
           /\ Cardinality(S) <= cache[layer].slots => S \subseteq Resident(cache'[layer])
           /\ Cardinality(S \ Resident(cache[layer])) <= cache[layer].slots =>
                 (Coherent => Coherent')
<1> DEFINE c == cache[layer]
<1>1. PICK d \in Accessed(c, S, ord) : cache' = [cache EXCEPT ![layer] = d]
    BY DEF Use
<1>2. DOMAIN cache = Layer /\ \A l \in Layer : Table(cache[l])
    BY DEF Tables
<1>3. /\ DOMAIN cache' = Layer /\ cache'[layer] = d
      /\ \A l \in Layer : l # layer => cache'[l] = cache[l]
    BY <1>1, <1>2
<1>4. Table(c)
    BY <1>2
<1>5. Table(d) /\ d.slots = c.slots /\ Resident(d) = Stay(c, S, ord)
    BY <1>4, AccessedTable
<1>6. Tables'
    BY <1>2, <1>3, <1>5 DEF Tables
<1>7. \A l \in Layer : cache'[l].slots = cache[l].slots
    BY <1>3, <1>5
<1>8. Cardinality(S) <= c.slots => S \subseteq Resident(d)
  <2> HIDE DEF c
  <2>1. BatchOrder(c, S, ord)
      BY DEF c
  <2>2. Cardinality(S) <= c.slots => S \subseteq Stay(c, S, ord)
      BY <1>4, <2>1, BatchStays
  <2> QED
      BY <1>5, <2>2
<1>9. ASSUME Cardinality(S \ Resident(c)) <= c.slots, Coherent PROVE Coherent'
  <2>1. Agrees(d)
      BY <1>4, <1>9, AccessedAgrees DEF Coherent
  <2> QED
      BY <1>3, <1>9, <2>1 DEF Coherent
<1> QED
    BY <1>3, <1>6, <1>7, <1>8, <1>9

\* The cache of a layer whose experts are resident serves the right weights.
LEMMA ResidentIsRight ==
    ASSUME NEW c, Table(c), Agrees(c), NEW S \in SUBSET Resident(c)
    PROVE  Valid(c, S) /\ Right(c, S)
<1>1. c.slotOf \in [Resident(c) -> Slot(c)] /\ Resident(c) \subseteq Expert
    BY DEF Table, CacheType
<1>2. \A e \in S : e # Nobody
    BY <1>1, ShapeAssumption DEF Expert, Nobody
<1> QED
    BY <1>1, <1>2 DEF Agrees, Valid, Right

\* The owner check does not lie, and tells what the table tells.
LEMMA ValidIsRight ==
    ASSUME NEW c, Table(c), Agrees(c), NEW S \in SUBSET Expert, Valid(c, S)
    PROVE  Right(c, S) /\ S \subseteq Resident(c)
<1>1. c.lut \in [Expert -> Slot(c)]
    BY DEF Table, CacheType
<1>2. \A e \in S : e # Nobody
    BY ShapeAssumption DEF Expert, Nobody
<1> QED
    BY <1>1, <1>2 DEF Agrees, Valid, Right

\* A route has the number of experts a token is routed to.
LEMMA RouteSize ==
    ASSUME NEW S \in Routes
    PROVE  S \in SUBSET Expert /\ Cardinality(S) = TopK
    BY DEF Routes

\* Fewer misses than the batch has experts.
LEMMA FewerMisses ==
    ASSUME NEW S \in SUBSET Expert, NEW T
    PROVE  /\ Cardinality(S \ T) <= Cardinality(S) /\ Cardinality(S \cap T) <= Cardinality(S)
           /\ Cardinality(S \ T) \in Nat /\ Cardinality(S) \in Nat
<1>1. IsFiniteSet(S) /\ S \ T \in SUBSET Expert
    BY ExpertsFinite
<1>2. S \ T \in SUBSET S /\ S \cap T \in SUBSET S
    OBVIOUS
<1> QED
    BY <1>1, <1>2, ExpertsFinite, FS_Subset

-----------------------------------------------------------------------------
(* Types and tables, whatever the size of a layer *)

LEMMA InitTables == Init => TypeOK /\ Tables
<1> SUFFICES ASSUME Init PROVE TypeOK /\ Tables
    OBVIOUS
<1>1. DOMAIN cache = Layer /\ \A l \in Layer : cache[l] = Fresh(InitialSlots)
    BY DEF Init
<1>2. InitialSlots \in Nat \ {0} /\ NumLayers \in Nat \ {0} /\ 1 \in 1..(NumLayers + 1)
    BY ShapeAssumption
<1>3. Tables
    BY <1>1, <1>2, FreshKeeps DEF Tables
<1>4. \A l \in Layer : CacheType(cache[l])
    BY <1>3 DEF Tables, Table
<1>5. NumLayers * InitialSlots \in Nat
    BY <1>2
<1>6. NoRoute \in [Layer -> SUBSET Expert]
    BY DEF NoRoute
<1> QED
    BY <1>2, <1>3, <1>4, <1>5, <1>6 DEF Init, TypeOK

\* The accesses of prefill and of the sync mode.
LEMMA ServeBatches ==
    ASSUME NEW S \in SUBSET Expert
    PROVE  LET c == cache[layer]
           IN  /\ \A U \in SUBSET S : BatchOrder(c, U, Ascending(S))
               /\ \A hot \in SUBSET (S \ Resident(c)) : \A ord \in Orders(hot) :
                     LET hits == S \cap Resident(c)
                     IN  BatchOrder(c, hits \cup hot, Ascending(hits) \cup ord)
               /\ \A hot \in SUBSET S : \A ord \in Orders(hot) : BatchOrder(c, hot, ord)
<1>1. \A hot \in SUBSET S : hot \in SUBSET Expert
    OBVIOUS
<1> QED
    BY <1>1, AscendingBatch, BankedBatch, StreamedBatch

LEMMA ServeTables ==
    ASSUME TypeOK, Tables, Serve
    PROVE  TypeOK' /\ Tables'
<1>1. /\ layer \in 1..(NumLayers + 1) /\ (layer \in Layer => layer + 1 \in 1..(NumLayers + 1))
      /\ 1 \in 1..(NumLayers + 1) /\ NoRoute \in [Layer -> SUBSET Expert]
    BY ShapeAssumption DEF TypeOK, Layer, NoRoute
<1>2. Tables' => \A l \in Layer : CacheType(cache'[l])
    BY DEF Tables, Table
<1>3. CASE BeginServe
  <2>1. Tables'
      BY <1>3 DEF BeginServe, Tables
  <2> QED
      BY <1>1, <1>2, <1>3, <2>1 DEF BeginServe, TypeOK, step
<1>4. CASE EndServe
  <2>1. Tables'
      BY <1>4 DEF EndServe, Tables
  <2> QED
      BY <1>1, <1>2, <1>4, <2>1 DEF EndServe, Return, TypeOK
<1>5. ASSUME NEW S \in SUBSET Expert, ServeFails(S) PROVE TypeOK' /\ Tables'
  <2>1. BatchOrder(cache[layer], S \cap Resident(cache[layer]), Ascending(S))
      BY ServeBatches
  <2>2. Tables'
      BY <1>5, <2>1, UseKeeps DEF ServeFails
  <2> QED
      BY <1>1, <1>2, <1>5, <2>2 DEF ServeFails, Return, TypeOK
<1>6. ASSUME NEW S \in SUBSET Expert, NEW inline \in SUBSET S, ServeInstalled(S, inline)
      PROVE  TypeOK' /\ Tables'
  <2>1. BatchOrder(cache[layer], S \ inline, Ascending(S))
      BY ServeBatches
  <2>2. layer \in Layer /\ Use(S \ inline, Ascending(S))
      BY <1>6 DEF ServeInstalled, Serving
  <2>3. Tables'
      BY <2>1, <2>2, UseKeeps
  <2>4. sound' \in BOOLEAN
      BY <1>6 DEF ServeInstalled
  <2> QED
      BY <1>1, <1>2, <1>6, <2>3, <2>4 DEF ServeInstalled, Serving, TypeOK, step
<1>7. ASSUME NEW S \in SUBSET Expert, NEW hot \in SUBSET S, NEW ord \in Orders(hot),
             ServeBanked(S, hot, ord)
      PROVE  TypeOK' /\ Tables'
  <2> DEFINE hits == S \cap Resident(cache[layer])
  <2>1. /\ layer \in Layer /\ hot \in SUBSET (S \ Resident(cache[layer]))
        /\ Use(hits \cup hot, Ascending(hits) \cup ord)
      BY <1>7 DEF ServeBanked, Serving
  <2>2. BatchOrder(cache[layer], hits \cup hot, Ascending(hits) \cup ord)
      BY <2>1, BankedBatch
  <2>3. Tables'
      BY <2>1, <2>2, UseKeeps
  <2>4. sound' \in BOOLEAN
      BY <1>7 DEF ServeBanked
  <2> QED
      BY <1>1, <1>2, <1>7, <2>3, <2>4 DEF ServeBanked, Serving, TypeOK, step
<1>8. ASSUME NEW S \in SUBSET Expert, NEW hot \in SUBSET S, NEW ord \in Orders(hot),
             ServeStreamed(S, hot, ord)
      PROVE  TypeOK' /\ Tables'
  <2>1. layer \in Layer /\ Use(hot, ord)
      BY <1>8 DEF ServeStreamed, Serving
  <2>2. BatchOrder(cache[layer], hot, ord) /\ hot \in SUBSET Expert
      BY ServeBatches
  <2>3. Tables'
      BY <2>1, <2>2, UseKeeps
  <2> QED
      BY <1>1, <1>2, <1>8, <2>3 DEF ServeStreamed, Serving, TypeOK, step
<1> QED
    BY <1>3, <1>4, <1>5, <1>6, <1>7, <1>8 DEF Serve

LEMMA DecodeTables ==
    ASSUME TypeOK, Tables, Decode
    PROVE  TypeOK' /\ Tables'
<1>1. /\ layer \in 1..(NumLayers + 1) /\ (layer \in Layer => layer + 1 \in 1..(NumLayers + 1))
      /\ attempt \in 1..(NumLayers + 1)
      /\ (attempt <= NumLayers => attempt + 1 \in 1..(NumLayers + 1))
      /\ 1 \in 1..(NumLayers + 1) /\ NoRoute \in [Layer -> SUBSET Expert]
    BY ShapeAssumption DEF TypeOK, Layer, NoRoute
<1>2. Tables' => \A l \in Layer : CacheType(cache'[l])
    BY DEF Tables, Table
<1>3. UNCHANGED cache => Tables'
    BY DEF Tables
<1>4. ASSUME layer \in Layer
      PROVE  /\ seen[layer] \in SUBSET Expert
             /\ \A U \in SUBSET seen[layer] :
                   BatchOrder(cache[layer], U, Ascending(seen[layer]))
  <2>1. seen[layer] \in SUBSET Expert
      BY <1>4 DEF TypeOK
  <2> QED
      BY <2>1, AscendingBatch
<1>5. CASE BeginStep
  <2>1. want' \in [Layer -> SUBSET Expert]
      BY <1>5 DEF BeginStep, Routes
  <2> QED
      BY <1>1, <1>2, <1>3, <1>5, <2>1 DEF BeginStep, TypeOK
<1>6. CASE Speculate
  <2>1. seen' \in [Layer -> SUBSET Expert] /\ sound' \in BOOLEAN
      BY <1>6 DEF Speculate, Routes, TypeOK
  <2> QED
      BY <1>1, <1>2, <1>3, <1>6, <2>1 DEF Speculate, TypeOK
<1>7. CASE Evaluate
    BY <1>1, <1>2, <1>3, <1>7 DEF Evaluate, TypeOK, step
<1>8. CASE CommitHit
  <2>1. Tables'
      BY <1>4, <1>8, UseKeeps DEF CommitHit
  <2> QED
      BY <1>1, <1>2, <1>8, <2>1 DEF CommitHit, TypeOK, step
<1>9. CASE CommitMiss
  <2>1. Tables'
      BY <1>4, <1>9, UseKeeps DEF CommitMiss
  <2> QED
      BY <1>1, <1>2, <1>9, <2>1 DEF CommitMiss, TypeOK
<1>10. CASE CommitFails
  <2>1. Tables'
      BY <1>4, <1>10, UseKeeps DEF CommitFails
  <2> QED
      BY <1>1, <1>2, <1>10, <2>1 DEF CommitFails, Return, TypeOK
<1>11. CASE Emit
    BY <1>1, <1>2, <1>3, <1>11 DEF Emit, Return, TypeOK
<1>12. CASE Redo
    BY <1>1, <1>2, <1>3, <1>12 DEF Redo, TypeOK
<1>13. CASE Diverge
    BY <1>1, <1>2, <1>3, <1>13 DEF Diverge, Return, TypeOK
<1>14. CASE AfterDivergence
    BY <1>1, <1>2, <1>3, <1>14 DEF AfterDivergence, Return, TypeOK
<1> QED
    BY <1>5, <1>6, <1>7, <1>8, <1>9, <1>10, <1>11, <1>12, <1>13, <1>14 DEF Decode

\* What a resize does to each layer.
LEMMA RebuildShape ==
    ASSUME NEW total \in Totals, Rebuild(total)
    PROVE  \E n \in Nat \ {0} :
              /\ n = (IF total \div NumLayers = 0 THEN 1 ELSE total \div NumLayers)
              /\ cache' = [l \in Layer |-> Resized(cache[l], n)]
              /\ budget' = NumLayers * n
<1> DEFINE n == IF total \div NumLayers = 0 THEN 1 ELSE total \div NumLayers
<1>1. NumLayers \in Nat \ {0} /\ total \in Nat
    BY ShapeAssumption
<1>2. total \div NumLayers \in Nat
    BY <1>1
<1>3. n \in Nat \ {0}
    BY <1>2
<1> QED
    BY <1>3 DEF Rebuild

LEMMA ResizeTables ==
    ASSUME TypeOK, Tables, Resize
    PROVE  TypeOK' /\ Tables' /\ (Coherent => Coherent')
<1>1. \A l \in Layer : Table(cache[l])
    BY DEF Tables
<1>2. NumLayers \in Nat \ {0} /\ NumExperts \in Nat \ {0}
    BY ShapeAssumption
<1>3. ASSUME NEW n \in [Layer -> Nat \ {0}], DOMAIN cache' = Layer,
             \A l \in Layer : cache'[l] \in {cache[l], Resized(cache[l], n[l])},
             budget' \in Nat, UNCHANGED <<active, pc, layer, step, sound>>
      PROVE  TypeOK' /\ Tables' /\ (Coherent => Coherent')
  <2>1. ASSUME NEW l \in Layer
        PROVE  Table(cache'[l]) /\ (Agrees(cache[l]) => Agrees(cache'[l]))
      BY <1>1, <1>3, ResizedKeeps
  <2>2. Tables'
      BY <1>3, <2>1 DEF Tables
  <2>3. \A l \in Layer : CacheType(cache'[l])
      BY <2>1 DEF Table
  <2> QED
      BY <1>3, <2>1, <2>2, <2>3 DEF TypeOK, Coherent, step
<1>4. ASSUME NEW total \in Totals, Rebuild(total)
      PROVE  TypeOK' /\ Tables' /\ (Coherent => Coherent')
  <2>1. PICK n \in Nat \ {0} : /\ cache' = [l \in Layer |-> Resized(cache[l], n)]
                               /\ budget' = NumLayers * n
      BY <1>4, RebuildShape
  <2> DEFINE f == [l \in Layer |-> n]
  <2>2. budget' \in Nat
      BY <1>2, <2>1
  <2>3. f \in [Layer -> Nat \ {0}] /\ DOMAIN cache' = Layer
      BY <2>1
  <2>4. \A l \in Layer : cache'[l] \in {cache[l], Resized(cache[l], f[l])}
      BY <2>1
  <2>5. UNCHANGED <<active, pc, layer, step, sound>>
      BY <1>4 DEF Rebuild
  <2> HIDE DEF f
  <2> QED
      BY <1>3, <2>2, <2>3, <2>4, <2>5
<1>5. ASSUME NEW target \in [Layer -> 1..NumExperts], Rebalance(target)
      PROVE  TypeOK' /\ Tables' /\ (Coherent => Coherent')
  <2>1. target \in [Layer -> Nat \ {0}]
      BY <1>2
  <2>2. budget' \in Nat
      BY <1>2, <1>5 DEF Rebalance, TypeOK
  <2>3. /\ DOMAIN cache' = Layer
        /\ \A l \in Layer : cache'[l] \in {cache[l], Resized(cache[l], target[l])}
        /\ UNCHANGED <<active, pc, layer, step, sound>>
      BY <1>5 DEF Rebalance
  <2> QED
      BY <1>3, <2>1, <2>2, <2>3
<1> QED
    BY <1>4, <1>5 DEF Resize

LEMMA NextTables == TypeOK /\ Tables /\ [Next]_vars => TypeOK' /\ Tables'
<1> SUFFICES ASSUME TypeOK, Tables, [Next]_vars PROVE TypeOK' /\ Tables'
    OBVIOUS
<1>1. CASE Serve
    BY <1>1, ServeTables
<1>2. CASE Decode
    BY <1>2, DecodeTables
<1>3. CASE Idle
    BY <1>3 DEF Idle, TypeOK, Tables, step
<1>4. CASE Resize
    BY <1>4, ResizeTables
<1>5. CASE UNCHANGED vars
    BY <1>5 DEF vars, TypeOK, Tables, step
<1> QED
    BY <1>1, <1>2, <1>3, <1>4, <1>5 DEF Next

\* Whatever the sizes, also when a batch is larger than a layer, the tables and arrays
\* keep their shapes, and a lut never points past the slots of its layer.
THEOREM TypeCorrect == Spec => []TypeOK
<1>1. Init => TypeOK /\ Tables
    BY InitTables
<1>2. TypeOK /\ Tables /\ [Next]_vars => TypeOK' /\ Tables'
    BY NextTables
<1> QED
    BY <1>1, <1>2, PTL DEF Spec

\* Nor does a slot ever belong to two experts of the table.
THEOREM SlotsNeverShared == Spec => []NoSharedSlot
<1>1. Init => TypeOK /\ Tables
    BY InitTables
<1>2. TypeOK /\ Tables /\ [Next]_vars => TypeOK' /\ Tables'
    BY NextTables
<1>3. Tables => NoSharedSlot
    BY DEF Tables, Table, NoSharedSlot
<1> QED
    BY <1>1, <1>2, <1>3, PTL DEF Spec

-----------------------------------------------------------------------------
(* When a token's experts fit *)

LEMMA InitInv ==
    ASSUME Fits
    PROVE  Init => Inv
<1> SUFFICES ASSUME Init PROVE Inv
    OBVIOUS
<1>1. TypeOK /\ Tables
    BY InitTables
<1>2. \A l \in Layer : cache[l] = Fresh(InitialSlots)
    BY DEF Init
<1>3. /\ InitialSlots \in Nat \ {0} /\ NumLayers \in Nat \ {0} /\ TopK \in Nat
      /\ TopK <= InitialSlots
    BY ShapeAssumption DEF Fits
<1>4. Coherent
    BY <1>2, <1>3, FreshKeeps DEF Coherent
<1>5. \A l \in Layer : cache[l].slots >= TopK
    BY <1>2, <1>3, FreshKeeps
<1>6. NumLayers * InitialSlots >= NumLayers * TopK
    BY <1>3
<1>7. Room
    BY <1>5, <1>6 DEF Room, Init
<1> QED
    BY <1>1, <1>4, <1>7 DEF Init, Inv, Rested, Running, Committing, Converges

\* The sizes only matter between requests: any other step leaves them alone.
LEMMA RoomKept ==
    ASSUME Room, UNCHANGED budget,
           \A l \in Layer : cache'[l].slots = cache[l].slots
    PROVE  Room'
    BY DEF Room

\* While no step is under way only the tables and the outputs of prefill matter.
LEMMA Idling ==
    ASSUME TypeOK', Tables', Coherent', Room', pc' \in {"ready", "serve"},
           Rested', pc' = "serve" => sound'
    PROVE  Inv'
    BY DEF Inv, Running, Committing, Converges

\* And they are so after Return.
LEMMA Returned ==
    ASSUME NEW where, Return(where)
    PROVE  Rested' /\ UNCHANGED budget
    BY DEF Return, Rested

LEMMA ServeInv ==
    ASSUME Inv, Serve
    PROVE  Inv'
<1>1. TypeOK /\ Tables /\ Coherent /\ Room /\ Rested /\ (pc = "serve" => sound)
    BY DEF Inv
<1>2. TypeOK' /\ Tables'
    BY <1>1, ServeTables
<1>3. \A l \in Layer : Table(cache[l]) /\ Agrees(cache[l])
    BY <1>1 DEF Tables, Coherent
<1>4. \A l \in Layer : Table(cache'[l])
    BY <1>2 DEF Tables
<1>5. CASE BeginServe
  <2>1. Coherent' /\ Room' /\ Rested' /\ sound' /\ pc' = "serve"
      BY <1>1, <1>5 DEF BeginServe, Coherent, Room, Rested
  <2> QED
      BY <1>2, <2>1, Idling
<1>6. CASE EndServe
  <2>1. Coherent' /\ Room' /\ Rested' /\ pc' = "ready"
      BY <1>1, <1>6, Returned DEF EndServe, Return, Coherent, Room
  <2> QED
      BY <1>2, <2>1, Idling
<1>7. ASSUME NEW S \in SUBSET Expert, ServeFails(S) PROVE Inv'
  <2> DEFINE R == Resident(cache[layer])
  <2>1. /\ layer \in Layer /\ Use(S \cap R, Ascending(S)) /\ pc' = "ready" /\ UNCHANGED budget
        /\ Rested'
      BY <1>7, Returned DEF ServeFails, Return
  <2>2. BatchOrder(cache[layer], S \cap R, Ascending(S))
      BY ServeBatches
  <2>3. (S \cap R) \ R = {} /\ cache[layer].slots \in Nat
      BY <1>3, <2>1 DEF Table, CacheType
  <2>4. Cardinality((S \cap R) \ R) <= cache[layer].slots
      BY <2>3, FS_EmptySet
  <2>5. Coherent' /\ \A l \in Layer : cache'[l].slots = cache[l].slots
      BY <1>1, <2>1, <2>2, <2>4, UseKeeps
  <2>6. Room'
      BY <1>1, <2>1, <2>5, RoomKept
  <2> QED
      BY <1>2, <2>1, <2>5, <2>6, Idling
<1>8. ASSUME NEW S \in SUBSET Expert, NEW inline \in SUBSET S, ServeInstalled(S, inline)
      PROVE  Inv'
  <2> DEFINE c == cache[layer]
             U == S \ inline
  <2>1. /\ layer \in Layer /\ Use(U, Ascending(S)) /\ Cardinality(S) <= c.slots
        /\ pc = "serve" /\ pc' = "serve" /\ Rested' /\ UNCHANGED budget
      BY <1>8 DEF ServeInstalled, Serving, Rested
  <2>2. BatchOrder(c, U, Ascending(S)) /\ U \in SUBSET Expert
      BY ServeBatches
  <2>3. c.slots \in Nat /\ Cardinality(S) \in Nat
      BY <1>3, <2>1, ExpertsFinite DEF Table, CacheType
  <2>4. Cardinality(U) <= Cardinality(S) /\ Cardinality(U) \in Nat
      BY FewerMisses
  <2>5. Cardinality(U \ Resident(c)) <= Cardinality(U) /\ Cardinality(U \ Resident(c)) \in Nat
      BY <2>2, FewerMisses
  <2>6. Cardinality(U) <= c.slots /\ Cardinality(U \ Resident(c)) <= c.slots
      BY <2>1, <2>3, <2>4, <2>5
  <2>7. /\ Coherent' /\ \A l \in Layer : cache'[l].slots = cache[l].slots
        /\ U \subseteq Resident(cache'[layer])
      BY <1>1, <2>1, <2>2, <2>6, UseKeeps
  <2>8. Room'
      BY <1>1, <2>1, <2>7, RoomKept
  <2>9. Table(cache'[layer]) /\ Agrees(cache'[layer])
      BY <1>4, <2>1, <2>7 DEF Coherent
  <2>10. Valid(cache'[layer], U) /\ Right(cache'[layer], U)
      BY <2>7, <2>9, ResidentIsRight
  <2>11. sound'
      BY <1>1, <1>8, <2>1, <2>10 DEF ServeInstalled
  <2> QED
      BY <1>2, <2>1, <2>7, <2>8, <2>11, Idling
<1>9. ASSUME NEW S \in SUBSET Expert, NEW hot \in SUBSET S, NEW ord \in Orders(hot),
             ServeBanked(S, hot, ord)
      PROVE  Inv'
  <2> DEFINE c == cache[layer]
             hits == S \cap Resident(c)
             misses == S \ Resident(c)
  <2>1. /\ layer \in Layer /\ hot \in SUBSET misses
        /\ Use(hits \cup hot, Ascending(hits) \cup ord)
        /\ IF Cardinality(misses) <= c.slots THEN hot = misses
                                              ELSE Cardinality(hot) = c.slots
        /\ pc = "serve" /\ pc' = "serve" /\ Rested' /\ UNCHANGED budget
      BY <1>9 DEF ServeBanked, Serving, Rested
  <2>2. BatchOrder(c, hits \cup hot, Ascending(hits) \cup ord)
      BY <2>1, BankedBatch
  <2>3. c.slots \in Nat
      BY <1>3, <2>1 DEF Table, CacheType
  <2>4. (hits \cup hot) \ Resident(c) = hot /\ hits \cup hot \in SUBSET Expert
      BY <2>1
  <2>5. Cardinality(hot) <= c.slots
      BY <2>1, <2>3
  <2>6. Coherent' /\ \A l \in Layer : cache'[l].slots = cache[l].slots
      BY <1>1, <2>1, <2>2, <2>4, <2>5, UseKeeps
  <2>7. Room'
      BY <1>1, <2>1, <2>6, RoomKept
  <2>8. ASSUME NEW e \in S PROVE IF Valid(c, {e}) THEN Right(c, {e}) ELSE e \in misses
    <3>1. Table(c) /\ Agrees(c) /\ {e} \in SUBSET Expert
        BY <1>3, <2>1
    <3>2. Valid(c, {e}) => Right(c, {e})
        BY <3>1, ValidIsRight
    <3>3. e \in Resident(c) => Valid(c, {e})
        BY <3>1, ResidentIsRight
    <3> QED
        BY <3>2, <3>3
  <2>9. sound'
      BY <1>1, <1>9, <2>1, <2>8 DEF ServeBanked
  <2> QED
      BY <1>2, <2>1, <2>6, <2>7, <2>9, Idling
<1>10. ASSUME NEW S \in SUBSET Expert, NEW hot \in SUBSET S, NEW ord \in Orders(hot),
              ServeStreamed(S, hot, ord)
       PROVE  Inv'
  <2> DEFINE c == cache[layer]
  <2>1. /\ layer \in Layer /\ Use(hot, ord) /\ Cardinality(hot) = c.slots
        /\ pc = "serve" /\ pc' = "serve" /\ Rested' /\ UNCHANGED <<budget, sound>>
      BY <1>10 DEF ServeStreamed, Serving, Rested
  <2>2. BatchOrder(c, hot, ord) /\ hot \in SUBSET Expert
      BY ServeBatches
  <2>3. Cardinality(hot \ Resident(c)) <= c.slots
      BY <2>1, <2>2, FewerMisses
  <2>4. Coherent' /\ \A l \in Layer : cache'[l].slots = cache[l].slots
      BY <1>1, <2>1, <2>2, <2>3, UseKeeps
  <2>5. Room'
      BY <1>1, <2>1, <2>4, RoomKept
  <2> QED
      BY <1>1, <1>2, <2>1, <2>4, <2>5, Idling
<1> QED
    BY <1>5, <1>6, <1>7, <1>8, <1>9, <1>10 DEF Serve

\* The access of a commit: the layer's routes are in its table afterwards.
LEMMA CommitAccess ==
    ASSUME TypeOK, Tables, Coherent, Room, layer \in Layer, seen[layer] \in Routes,
           Use(seen[layer], Ascending(seen[layer]))
    PROVE  /\ Coherent' /\ seen[layer] \subseteq Resident(cache'[layer])
           /\ \A l \in Layer : cache'[l].slots = cache[l].slots
           /\ \A l \in Layer : l # layer => cache'[l] = cache[l]
<1> DEFINE S == seen[layer]
           c == cache[layer]
<1>1. S \in SUBSET Expert /\ Cardinality(S) = TopK
    BY RouteSize
<1>2. BatchOrder(c, S, Ascending(S))
    BY <1>1, AscendingBatch
<1>3. c.slots \in Nat /\ TopK \in Nat /\ c.slots >= TopK
    BY ShapeAssumption DEF Tables, Table, CacheType, Room
<1>4. Cardinality(S \ Resident(c)) <= Cardinality(S) /\ Cardinality(S \ Resident(c)) \in Nat
    BY <1>1, FewerMisses
<1>5. Cardinality(S) <= c.slots /\ Cardinality(S \ Resident(c)) <= c.slots
    BY <1>1, <1>3, <1>4
<1> QED
    BY <1>1, <1>2, <1>5, UseKeeps

\* A commit leaves the layer its experts, and spoils nothing for the others.
LEMMA CommitInv ==
    ASSUME Inv, pc = "commit", layer \in Layer, seen[layer] \in Routes,
           Use(seen[layer], Ascending(seen[layer])), TypeOK', Tables',
           layer' = layer + 1, UNCHANGED <<budget, pc, attempt, want, seen, sound>>,
           \/ UNCHANGED allOk /\ Valid(cache[layer], seen[layer])
           \/ ~allOk' /\ ~Valid(cache[layer], seen[layer])
    PROVE  Inv'
<1>1. /\ TypeOK /\ Tables /\ Coherent /\ Room /\ Committing /\ Converges
    BY DEF Inv
<1>2. /\ Coherent' /\ seen[layer] \subseteq Resident(cache'[layer])
      /\ \A l \in Layer : cache'[l].slots = cache[l].slots
      /\ \A l \in Layer : l # layer => cache'[l] = cache[l]
    BY <1>1, CommitAccess
<1>3. Room'
    BY <1>1, <1>2, RoomKept
<1>4. /\ Table(cache[layer]) /\ Agrees(cache[layer]) /\ seen[layer] \in SUBSET Expert
      /\ NumLayers \in Nat /\ layer \in 1..NumLayers /\ attempt \in Nat
    BY <1>1, RouteSize, ShapeAssumption DEF Tables, Coherent, TypeOK, Layer
<1>5. Committing'
  <2>1. attempt' = NumLayers + 1 => allOk'
    <3>1. ASSUME attempt = NumLayers + 1 PROVE Valid(cache[layer], seen[layer])
      <4>1. layer < attempt /\ layer <= attempt
          BY <1>4, <3>1
      <4>2. seen[layer] \subseteq Resident(cache[layer])
          BY <1>1, <4>1 DEF Committing
      <4> QED
          BY <1>4, <4>2, ResidentIsRight
    <3> QED
        BY <1>1, <3>1 DEF Committing
  <2>2. ASSUME NEW l \in Layer
        PROVE  /\ seen'[l] \in Routes
               /\ l <= attempt' => seen'[l] = want'[l]
               /\ l < attempt' => want'[l] \subseteq Resident(cache'[l])
               /\ l < layer' => seen'[l] \subseteq Resident(cache'[l])
    <3>1. CASE l = layer
      <4>1. l < attempt => l <= attempt
          BY <1>4, <3>1
      <4> QED
          BY <1>1, <1>2, <3>1, <4>1 DEF Committing
    <3>2. CASE l # layer
      <4>1. l < layer' => l < layer
          BY <1>4, <3>2 DEF Layer
      <4> QED
          BY <1>1, <1>2, <3>2, <4>1 DEF Committing
    <3> QED
        BY <3>1, <3>2
  <2>3. ASSUME allOk', \A l \in Layer : l >= layer' => Right(cache'[l], seen'[l])
        PROVE  sound'
    <3>1. allOk /\ Right(cache[layer], seen[layer])
        BY <1>4, <2>3, ValidIsRight
    <3>2. ASSUME NEW l \in Layer, l >= layer PROVE Right(cache[l], seen[l])
      <4>1. l = layer \/ (l # layer /\ l >= layer')
          BY <1>4, <3>2 DEF Layer
      <4> QED
          BY <1>2, <2>3, <3>1, <4>1
    <3> QED
        BY <1>1, <3>1, <3>2 DEF Committing
  <2>4. sound' => seen' = want'
      BY <1>1 DEF Committing
  <2> QED
      BY <2>1, <2>2, <2>3, <2>4 DEF Committing
<1> QED
    BY <1>1, <1>2, <1>3, <1>5 DEF Inv, Rested, Running, Converges

\* The forward, one layer further.
LEMMA SpeculateInv ==
    ASSUME Inv, Speculate, TypeOK', Tables'
    PROVE  Inv'
<1>1. TypeOK /\ Tables /\ Coherent /\ Room /\ Running /\ Converges
    BY DEF Inv
<1>2. /\ pc = "run" /\ pc' = "run" /\ layer \in Layer /\ layer' = layer + 1
      /\ UNCHANGED <<cache, budget, attempt, want, allOk>>
    BY DEF Speculate
<1>3. PICK S \in Routes : /\ sound => S = want[layer]
                          /\ seen' = [seen EXCEPT ![layer] = S]
                          /\ sound' = (sound /\ Right(cache[layer], S))
    BY DEF Speculate
<1>4. seen'[layer] = S /\ \A l \in Layer : l # layer => seen'[l] = seen[l]
    BY <1>1, <1>2, <1>3 DEF TypeOK
<1>5. layer \in 1..NumLayers /\ NumLayers \in Nat /\ attempt \in Nat
    BY <1>1, <1>2, ShapeAssumption DEF TypeOK, Layer
<1>6. Coherent' /\ Room'
    BY <1>1, <1>2 DEF Coherent, Room
<1>7. layer' <= attempt' => sound'
  <2> SUFFICES ASSUME layer' <= attempt' PROVE sound'
      OBVIOUS
  <2>1. layer < attempt /\ layer <= attempt
      BY <1>2, <1>5
  <2>2. sound /\ want[layer] \subseteq Resident(cache[layer])
      BY <1>1, <1>2, <2>1 DEF Running
  <2>3. Table(cache[layer]) /\ Agrees(cache[layer])
      BY <1>1, <1>2 DEF Tables, Coherent
  <2>4. Right(cache[layer], want[layer])
      BY <2>2, <2>3, ResidentIsRight
  <2> QED
      BY <1>3, <2>2, <2>4
<1>8. ASSUME NEW l \in Layer, l < layer'
      PROVE  /\ seen'[l] \in Routes
             /\ l <= attempt' => seen'[l] = want'[l]
             /\ sound' => seen'[l] = want'[l]
  <2>1. CASE l = layer
      BY <1>1, <1>2, <1>3, <1>4, <2>1 DEF Running
  <2>2. CASE l # layer
    <3>1. l < layer
        BY <1>2, <1>5, <1>8, <2>2 DEF Layer
    <3> QED
        BY <1>1, <1>2, <1>3, <1>4, <2>2, <3>1 DEF Running
  <2> QED
      BY <2>1, <2>2
<1>9. ASSUME \A l \in Layer : l < layer' => Right(cache'[l], seen'[l]) PROVE sound'
  <2>1. \A l \in Layer : l < layer => l < layer' /\ l # layer
      BY <1>2, <1>5 DEF Layer
  <2>2. \A l \in Layer : l < layer => Right(cache[l], seen[l])
      BY <1>2, <1>4, <1>9, <2>1
  <2>3. layer < layer'
      BY <1>2, <1>5
  <2>4. sound /\ Right(cache[layer], S)
      BY <1>1, <1>2, <1>4, <1>9, <2>2, <2>3 DEF Running
  <2> QED
      BY <1>3, <2>4
<1>10. Running'
    BY <1>1, <1>2, <1>7, <1>8, <1>9 DEF Running
<1> QED
    BY <1>1, <1>2, <1>6, <1>10 DEF Inv, Rested, Committing, Converges

LEMMA DecodeInv ==
    ASSUME Inv, Decode
    PROVE  Inv'
<1>1. /\ TypeOK /\ Tables /\ Coherent /\ Room /\ Rested /\ Running /\ Committing
      /\ Converges
    BY DEF Inv
<1>2. TypeOK' /\ Tables'
    BY <1>1, DecodeTables
<1>3. UNCHANGED <<cache, budget>> => Coherent' /\ Room'
    BY <1>1 DEF Coherent, Room
<1>4. NumLayers \in Nat \ {0} /\ layer \in 1..(NumLayers + 1) /\ attempt \in 1..(NumLayers + 1)
    BY <1>1, ShapeAssumption DEF TypeOK
<1>5. layer \notin Layer => \A l \in Layer : l < layer /\ ~(l >= layer)
    BY <1>4 DEF Layer
<1>6. CASE BeginStep
  <2>1. /\ pc' = "run" /\ UNCHANGED <<cache, budget, layer, attempt, seen, allOk, sound>>
        /\ allOk /\ sound /\ attempt = 1 /\ layer = 1
      BY <1>1, <1>6 DEF BeginStep, Rested
  <2>2. \A l \in Layer : ~(l < 1)
      BY DEF Layer
  <2> QED
      BY <1>1, <1>2, <1>3, <2>1, <2>2 DEF Inv, Rested, Running, Committing, Converges
<1>7. CASE Speculate
    BY <1>2, <1>7, SpeculateInv
<1>8. CASE Evaluate
  <2>1. /\ pc = "run" /\ pc' = "commit" /\ layer \notin Layer /\ layer' = 1
        /\ UNCHANGED <<cache, budget, attempt, want, seen, allOk, sound>>
      BY <1>8 DEF Evaluate, step
  <2>2. \A l \in Layer : /\ seen[l] \in Routes
                         /\ l <= attempt => seen[l] = want[l]
                         /\ l < attempt => want[l] \subseteq Resident(cache[l])
                         /\ sound => seen[l] = want[l]
      BY <1>1, <1>5, <2>1 DEF Running
  <2>3. \A l \in Layer : ~(l < 1) /\ l >= 1
      BY DEF Layer
  <2>4. sound => seen = want
      BY <1>1, <2>2 DEF TypeOK
  <2>5. Committing'
      BY <1>1, <2>1, <2>2, <2>3, <2>4 DEF Running, Committing
  <2> QED
      BY <1>1, <1>2, <1>3, <2>1, <2>5 DEF Inv, Rested, Running, Converges
<1>9. CASE CommitHit
  <2>1. seen[layer] \in Routes
      BY <1>1, <1>9 DEF CommitHit, Committing
  <2> QED
      BY <1>2, <1>9, <2>1, CommitInv DEF CommitHit, step
<1>10. CASE CommitMiss
  <2>1. seen[layer] \in Routes
      BY <1>1, <1>10 DEF CommitMiss, Committing
  <2> QED
      BY <1>2, <1>10, <2>1, CommitInv DEF CommitMiss
<1>11. CASE CommitFails
  <2> DEFINE R == Resident(cache[layer])
             S == seen[layer]
  <2>1. /\ layer \in Layer /\ Use(S \cap R, Ascending(S)) /\ pc' = "ready"
        /\ Rested' /\ UNCHANGED budget
      BY <1>11, Returned DEF CommitFails, Return
  <2>2. S \in SUBSET Expert
      BY <1>1, <2>1 DEF TypeOK
  <2>3. BatchOrder(cache[layer], S \cap R, Ascending(S)) /\ S \cap R \in SUBSET Expert
      BY <2>2, AscendingBatch
  <2>4. (S \cap R) \ R = {} /\ cache[layer].slots \in Nat
      BY <1>1, <2>1 DEF Tables, Table, CacheType
  <2>5. Cardinality((S \cap R) \ R) <= cache[layer].slots
      BY <2>4, FS_EmptySet
  <2>6. Coherent' /\ \A l \in Layer : cache'[l].slots = cache[l].slots
      BY <1>1, <2>1, <2>3, <2>5, UseKeeps
  <2>7. Room'
      BY <1>1, <2>1, <2>6, RoomKept
  <2> QED
      BY <1>2, <2>1, <2>6, <2>7, Idling
<1>12. CASE Emit
  <2>1. pc' = "ready" /\ Rested' /\ UNCHANGED <<cache, budget>>
      BY <1>12, Returned DEF Emit, Return
  <2> QED
      BY <1>2, <1>3, <2>1, Idling
<1>13. CASE Redo
  <2>1. /\ pc = "commit" /\ layer \notin Layer /\ attempt <= NumLayers
        /\ pc' = "run" /\ layer' = 1 /\ attempt' = attempt + 1 /\ allOk' /\ sound'
        /\ UNCHANGED <<cache, budget, want>>
      BY <1>13 DEF Redo
  <2>2. ASSUME NEW l \in Layer, l < attempt'
        PROVE  want'[l] \subseteq Resident(cache'[l])
    <3>1. l <= attempt
        BY <1>4, <2>1, <2>2 DEF Layer
    <3> QED
        BY <1>1, <1>5, <2>1, <3>1 DEF Committing
  <2>3. \A l \in Layer : ~(l < 1)
      BY DEF Layer
  <2>4. Running'
      BY <2>1, <2>2, <2>3 DEF Running
  <2> QED
      BY <1>1, <1>2, <1>3, <2>1, <2>4 DEF Inv, Rested, Committing, Converges
<1>14. CASE Diverge
    BY <1>1, <1>14 DEF Diverge, Committing
<1>15. CASE AfterDivergence
    BY <1>1, <1>15 DEF AfterDivergence, Converges
<1> QED
    BY <1>6, <1>7, <1>8, <1>9, <1>10, <1>11, <1>12, <1>13, <1>14, <1>15 DEF Decode

\* A resize leaves every layer room for the experts of one token.
LEMMA ResizeRoom ==
    ASSUME Fits, Room, Tables, TypeOK, Resize
    PROVE  Room'
<1>1. /\ NumLayers \in Nat \ {0} /\ NumExperts \in Nat \ {0} /\ TopK \in 1..NumExperts
      /\ Floor \in Nat \ {0} /\ TopK <= Floor
    BY ShapeAssumption DEF Fits
<1>2. ASSUME NEW total \in Totals, Rebuild(total) PROVE Room'
  <2>1. PICK n \in Nat \ {0} :
              /\ n = (IF total \div NumLayers = 0 THEN 1 ELSE total \div NumLayers)
              /\ cache' = [l \in Layer |-> Resized(cache[l], n)]
              /\ budget' = NumLayers * n
      BY <1>2, RebuildShape
  <2>2. total \in Nat /\ total >= NumLayers * TopK
      BY <1>1, ShapeAssumption DEF Fits
  <2>3. total \div NumLayers >= TopK
      BY <1>1, <2>2, DivAtLeast
  <2>4. n >= TopK
      BY <1>1, <2>1, <2>3
  <2>5. NumLayers * n >= NumLayers * TopK
      BY <1>1, <2>4
  <2>6. \A l \in Layer : cache'[l].slots = n
      BY <2>1 DEF Resized
  <2> QED
      BY <2>1, <2>4, <2>5, <2>6 DEF Room
<1>3. ASSUME NEW target \in [Layer -> 1..NumExperts], Rebalance(target) PROVE Room'
  <2> DEFINE even == budget \div NumLayers
             floor == IF Floor < even THEN Floor ELSE even
  <2>1. budget \in Nat /\ budget >= NumLayers * TopK
      BY DEF TypeOK, Room
  <2>2. even \in Nat /\ even >= TopK
      BY <1>1, <2>1, DivAtLeast
  <2>3. floor >= TopK
      BY <1>1, <2>2
  <2>4. \A l \in Layer : target[l] >= floor \/ target[l] = NumExperts
      BY <1>3 DEF Rebalance
  <2>5. \A l \in Layer : target[l] >= TopK
      BY <1>1, <2>2, <2>3, <2>4
  <2>6. budget' = budget \/ budget' = NumLayers * NumExperts
      BY <1>3 DEF Rebalance
  <2>7. NumLayers * NumExperts >= NumLayers * TopK
      BY <1>1
  <2>8. budget' >= NumLayers * TopK
      BY <2>1, <2>6, <2>7
  <2>9. \A l \in Layer : cache'[l].slots = target[l]
      BY <1>3 DEF Rebalance, Resized
  <2> QED
      BY <2>5, <2>8, <2>9 DEF Room
<1> QED
    BY <1>2, <1>3 DEF Resize

LEMMA NextInv ==
    ASSUME Fits
    PROVE  Inv /\ [Next]_vars => Inv'
<1> SUFFICES ASSUME Inv, [Next]_vars PROVE Inv'
    OBVIOUS
<1>1. CASE Serve
    BY <1>1, ServeInv
<1>2. CASE Decode
    BY <1>2, DecodeInv
<1>3. CASE Idle
    BY <1>3 DEF Idle, Inv, TypeOK, Tables, Coherent, Room, Rested, Running, Committing,
                Converges, step
<1>4. CASE Resize
  <2>1. TypeOK /\ Tables /\ Coherent /\ Room /\ Rested
      BY DEF Inv
  <2>2. TypeOK' /\ Tables' /\ Coherent' /\ Room'
      BY <1>4, <2>1, ResizeTables, ResizeRoom
  <2>3. pc' = "ready" /\ Rested'
      BY <1>4, <2>1 DEF Resize, Rebuild, Rebalance, Rested, step
  <2> QED
      BY <2>2, <2>3, Idling
<1>5. CASE UNCHANGED vars
    BY <1>5 DEF vars, Inv, TypeOK, Tables, Coherent, Room, Rested, Running, Committing,
                Converges, step
<1> QED
    BY <1>1, <1>2, <1>3, <1>4, <1>5 DEF Next

\* When the experts of a token fit a layer, host and device agree on every expert and
\* every slot, through accesses, failing reads, redos and resizes.
THEOREM Coherence == Fits => (Spec => []Coherent)
<1> SUFFICES ASSUME Fits PROVE Spec => []Coherent
    OBVIOUS
<1>1. Init => Inv
    BY InitInv
<1>2. Inv /\ [Next]_vars => Inv'
    BY NextInv
<1>3. Inv => Coherent
    BY DEF Inv
<1> QED
    BY <1>1, <1>2, <1>3, PTL DEF Spec

\* Then no output is kept of a forward that read a weight of another expert, or that
\* routed otherwise than with the right weights.
THEOREM KeptOutputsSound == Fits => (Spec => []KeptSound)
<1> SUFFICES ASSUME Fits PROVE Spec => []KeptSound
    OBVIOUS
<1>1. Init => Inv
    BY InitInv
<1>2. Inv /\ [Next]_vars => Inv'
    BY NextInv
<1>3. Inv => KeptSound
  <2> SUFFICES ASSUME Inv PROVE KeptSound
      OBVIOUS
  <2>1. ASSUME Emits PROVE sound /\ seen = want
    <3>1. layer \notin Layer /\ allOk /\ Committing /\ pc = "commit"
        BY <2>1 DEF Emits, Inv
    <3>2. layer \in 1..(NumLayers + 1) /\ NumLayers \in Nat
        BY ShapeAssumption DEF Inv, TypeOK
    <3>3. \A l \in Layer : ~(l >= layer)
        BY <3>1, <3>2 DEF Layer
    <3> QED
        BY <3>1, <3>3 DEF Committing
  <2> QED
      BY <2>1 DEF KeptSound, Inv
<1> QED
    BY <1>1, <1>2, <1>3, PTL DEF Spec

\* And the redo loop of a decode step ends with a token: as attempt a finds the experts
\* of the first a - 1 layers, one attempt more than there are layers is enough.
THEOREM RedoLoopConverges == Fits => (Spec => []Converges)
<1> SUFFICES ASSUME Fits PROVE Spec => []Converges
    OBVIOUS
<1>1. Init => Inv
    BY InitInv
<1>2. Inv /\ [Next]_vars => Inv'
    BY NextInv
<1>3. Inv => Converges
    BY DEF Inv
<1> QED
    BY <1>1, <1>2, <1>3, PTL DEF Spec

=============================================================================
