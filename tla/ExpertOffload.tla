----------------------------- MODULE ExpertOffload -----------------------------
(***************************************************************************)
(* Mixture-of-experts serving with a slot cache per layer                  *)
(* (src/python/maxtoken/mlx_backend/offload.py, driven by                  *)
(* _offload_prefill and _offload_generate of worker.py).                   *)
(*                                                                         *)
(* Each MoE layer keeps a few expert slots.  The host keeps an LRU table   *)
(* of the experts that have one; the device keeps lut (expert -> slot it   *)
(* would live in, stale allowed), owner (slot -> expert it holds) and the  *)
(* weight buffers.  A forward either serves layer by layer, installing     *)
(* what is missing before it computes, or SPECULATES: it runs every layer  *)
(* through the luts, checks the owners afterwards, and when a routed       *)
(* expert was not there installs it, rolls the KV caches back and runs     *)
(* again, at most once more than there are layers.                         *)
(*                                                                         *)
(* A forward is abstracted to the experts it routes to in each layer, a    *)
(* buffer row to the expert whose weights it holds.  Routing depends on    *)
(* the layers below: after a wrong weight it may be anything.              *)
(***************************************************************************)
EXTENDS Integers, FiniteSets, Functions

CONSTANTS
    NumLayers,    \* len(state.glus)
    NumExperts,   \* store.num_experts, the same in every layer
    TopK,         \* num_experts_per_tok
    InitialSlots, \* slots per layer the cache starts with
    Totals,       \* the sizes a rebuild may ask for (moe_cache_size)
    Floor,        \* the slots rebalance leaves a layer
    AdmitFilter,  \* MAXTOKEN_MLX_ADMIT_FILTER
    ReadsFail     \* expert reads may fail

Layer  == 1..NumLayers
Expert == 0..(NumExperts - 1)
Nobody == -1      \* owner of an empty slot, content of an unwritten row

ASSUME ShapeAssumption ==
    /\ NumLayers \in Nat \ {0} /\ NumExperts \in Nat \ {0}
    /\ TopK \in 1..NumExperts
    /\ InitialSlots \in Nat \ {0} /\ Totals \subseteq Nat \ {0} /\ Floor \in Nat \ {0}
    /\ AdmitFilter \in BOOLEAN /\ ReadsFail \in BOOLEAN

VARIABLES
    cache,     \* the SlotCache of each layer
    budget,    \* the slots of all layers together (totals())
    active,    \* some request is being served
    pc, layer, \* what the scheduler thread is doing, and at which layer
    attempt,   \* which run of the speculative step this is
    want,      \* what the step routes to when every weight is right
    seen,      \* state.pending: what the speculative forward routed to
    allOk,     \* commit_token's all_ok
    sound      \* the forward under way used the right weights so far

step == <<attempt, want, seen, allOk>>
vars == <<cache, budget, active, pc, layer, step, sound>>

-----------------------------------------------------------------------------
(* One layer's slot cache.  A cache c has                                  *)
(*    slots                 LruTracker.num_slots                           *)
(*    slotOf                LruTracker.slot_of, as a function              *)
(*    older                 its order: pairs of experts, the less recently *)
(*                          used one first                                 *)
(*    lut, owner, weight    the device's view and what the buffers hold    *)

Slot(c)     == 0..(c.slots - 1)
Resident(c) == DOMAIN c.slotOf

\* np.unique lists experts in ascending order; their frequency orders them anyhow.
Ascending(S) == {p \in S \X S : p[1] < p[2]}
Orders(S) ==
    {r \in SUBSET (S \X S) :
        /\ \A a, b \in S : <<a, b>> \in r <=> (a # b /\ <<b, a>> \notin r)
        /\ \A a, b, d \in S : <<a, b>> \in r /\ <<b, d>> \in r => <<a, d>> \in r}

\* How many experts are less, and how many more recently used.
Before(r, e) == Cardinality({x \in Expert : <<x, e>> \in r})
After(r, e)  == Cardinality({x \in Expert : <<e, x>> \in r})

\* The order once lookup() has moved the hits of S to the end and assign() has put
\* the misses behind them, what assign() evicts still in it.
Ordered(c, S, ord) ==
    LET rest   == Resident(c) \ S
        hits   == S \cap Resident(c)
        misses == S \ Resident(c)
    IN  (rest \X S) \cup (hits \X misses)
        \cup (c.older \cap (rest \X rest))
        \cup (ord \cap ((hits \X hits) \cup (misses \X misses)))

\* Mutant of Touched: lookup() leaves the hits where they are.
TouchedNot(c, S, ord) == Ordered(c, S \ Resident(c), ord)

Touched(c, S, ord) == Ordered(c, S, ord)

\* Mutant of SlotFor: the slot of the second oldest expert is taken.
SlotForNext(c, r, e) ==
    LET turn == (Before(r, e) + 1) % c.slots
    IN  IF \E x \in Resident(c) : Before(r, x) = turn
        THEN c.slotOf[CHOOSE x \in Resident(c) : Before(r, x) = turn]
        ELSE turn

\* Mutant of SlotFor: an eviction does not hand over the slot of the evicted expert.
SlotForTurn(c, r, e) == Before(r, e) % c.slots

\* assign() gives a missing expert the next free slot, in ascending order, and then
\* those of the experts it evicts from the old end.
SlotFor(c, r, e) ==
    LET turn == Before(r, e) % c.slots
    IN  IF \E x \in Resident(c) : Before(r, x) = turn
        THEN c.slotOf[CHOOSE x \in Resident(c) : Before(r, x) = turn]
        ELSE turn

\* The caches acquire(), touch() and the admissions of prefill may leave behind: the
\* hits of S are touched, its misses installed.  When one batch gives a slot out twice
\* the scatters write it twice, in no defined order, and each array for itself.
Accessed(c, S, ord) ==
    LET r         == Touched(c, S, ord)
        misses    == S \ Resident(c)
        stay      == {e \in Resident(c) \cup S : After(r, e) < c.slots}
        at        == [e \in misses |-> SlotFor(c, r, e)]
        claims(s) == {e \in misses : at[e] = s}
        taken     == {s \in Slot(c) : claims(s) # {}}
        writes    == {f \in [taken -> misses] : \A s \in taken : f[s] \in claims(s)}
        put(a, f) == [s \in Slot(c) |-> IF s \in taken THEN f[s] ELSE a[s]]
    IN  {[slots  |-> c.slots,
          slotOf |-> [e \in stay |-> IF e \in misses THEN at[e] ELSE c.slotOf[e]],
          older  |-> r \cap (stay \X stay),
          lut    |-> [e \in Expert |-> IF e \in misses THEN at[e] ELSE c.lut[e]],
          owner  |-> put(c.owner, w[1]),
          weight |-> put(c.weight, w[2])] : w \in writes \X writes}

\* Mutant of Resized: the lut is not rebuilt.
ResizedStale(c, n) ==
    LET keep == {e \in Resident(c) : After(c.older, e) < n}
        at(s) == CHOOSE e \in keep : After(c.older, e) = s
        used  == {After(c.older, e) : e \in keep}
    IN  [slots  |-> n,
         slotOf |-> [e \in keep |-> After(c.older, e)],
         older  |-> {p \in keep \X keep : <<p[2], p[1]>> \in c.older},
         lut    |-> c.lut,
         owner  |-> [s \in 0..(n - 1) |-> IF s \in used THEN at(s) ELSE Nobody],
         weight |-> [s \in 0..(n - 1) |->
                        IF s \in used THEN c.weight[c.slotOf[at(s)]] ELSE Nobody]]

\* resize(): fresh arrays, into which the n most recently used experts are put back,
\* the most recently used one first.
Resized(c, n) ==
    LET keep  == {e \in Resident(c) : After(c.older, e) < n}
        at(s) == CHOOSE e \in keep : After(c.older, e) = s
        used  == {After(c.older, e) : e \in keep}
    IN  [slots  |-> n,
         slotOf |-> [e \in keep |-> After(c.older, e)],
         older  |-> {p \in keep \X keep : <<p[2], p[1]>> \in c.older},
         lut    |-> [e \in Expert |-> IF e \in keep THEN After(c.older, e) ELSE 0],
         owner  |-> [s \in 0..(n - 1) |-> IF s \in used THEN at(s) ELSE Nobody],
         weight |-> [s \in 0..(n - 1) |->
                        IF s \in used THEN c.weight[c.slotOf[at(s)]] ELSE Nobody]]

\* _alloc() of an empty cache.
Fresh(n) ==
    [slots  |-> n,
     slotOf |-> [e \in {} |-> 0],
     older  |-> {},
     lut    |-> [e \in Expert |-> 0],
     owner  |-> [s \in 0..(n - 1) |-> Nobody],
     weight |-> [s \in 0..(n - 1) |-> Nobody]]

\* Mutant of Valid: the lut alone is trusted.
ValidLut(c, S) == \A e \in S : c.lut[e] \in Slot(c)

\* The validity check of a lazy forward, and what it stands for.
Valid(c, S) == \A e \in S : c.owner[c.lut[e]] = e
Right(c, S) == \A e \in S : c.weight[c.lut[e]] = e

-----------------------------------------------------------------------------

Routes == {S \in SUBSET Expert : Cardinality(S) = TopK}
NoRoute == [l \in Layer |-> {}]

Init ==
    /\ cache = [l \in Layer |-> Fresh(InitialSlots)]
    /\ budget = NumLayers * InitialSlots
    /\ active = FALSE
    /\ pc = "ready" /\ layer = 1 /\ sound = TRUE
    /\ attempt = 1 /\ want = NoRoute /\ seen = NoRoute /\ allOk = TRUE

\* The end of a forward or a step: the next one starts afresh.
Return(where) ==
    /\ pc' = where /\ layer' = 1 /\ sound' = TRUE
    /\ attempt' = 1 /\ want' = NoRoute /\ seen' = NoRoute /\ allOk' = TRUE
    /\ UNCHANGED <<budget, active>>

\* The cache of the layer at hand after an access.
Use(S, ord) ==
    \E d \in Accessed(cache[layer], S, ord) : cache' = [cache EXCEPT ![layer] = d]

-----------------------------------------------------------------------------
(* Serving layer by layer: a prefill chunk, a verify window, a decode step in *)
(* sync mode                                                                  *)

BeginServe ==
    /\ pc = "ready" /\ pc' = "serve"
    /\ active' = TRUE
    /\ UNCHANGED <<cache, budget, layer, step, sound>>

Serving(S) ==
    /\ pc = "serve" /\ layer \in Layer
    /\ Cardinality(S) >= TopK
    /\ layer' = layer + 1
    /\ UNCHANGED <<budget, pc, active, step>>

\* The experts fit: the missing ones are installed, then all are gathered by the lut.
\* With the admission filter a decode step may serve some misses inline instead.
ServeInstalled(S, inline) ==
    LET c == cache[layer] IN
    /\ Serving(S) /\ Cardinality(S) <= c.slots
    /\ inline \subseteq S \ Resident(c)
    /\ inline # {} => AdmitFilter /\ Cardinality(S) = TopK
    /\ Use(S \ inline, Ascending(S))
    /\ sound' = (/\ sound
                 /\ Right(cache'[layer], S \ inline)
                 /\ inline # {} => Valid(cache'[layer], S \ inline))

\* They do not fit, in a short chunk: the slots serve what the owners confirm, a bank
\* of the missing experts the rest; the hottest of the bank, hot, are installed.
ServeBanked(S, hot, ord) ==
    LET c      == cache[layer]
        hits   == S \cap Resident(c)
        misses == S \ Resident(c)
    IN  /\ Serving(S) /\ Cardinality(S) > c.slots
        /\ hot \subseteq misses
        /\ IF Cardinality(misses) <= c.slots THEN hot = misses
                                              ELSE Cardinality(hot) = c.slots
        /\ ord \in Orders(hot)
        /\ Use(hits \cup hot, Ascending(hits) \cup ord)
        /\ sound' = (/\ sound
                     /\ \A e \in S : IF Valid(c, {e}) THEN Right(c, {e}) ELSE e \in misses)

\* They do not fit, in a long chunk: the whole layer is streamed, and the hottest
\* experts of the chunk are installed from it.
ServeStreamed(S, hot, ord) ==
    /\ Serving(S) /\ Cardinality(S) > cache[layer].slots
    /\ hot \subseteq S /\ Cardinality(hot) = cache[layer].slots
    /\ ord \in Orders(hot)
    /\ Use(hot, ord)
    /\ UNCHANGED sound

EndServe ==
    /\ pc = "serve" /\ layer \notin Layer
    /\ Return("ready") /\ UNCHANGED cache

\* A read that fails fails the request; lookup() may have touched the hits before.
ServeFails(S) ==
    /\ pc = "serve" /\ layer \in Layer /\ ReadsFail
    /\ Use(S \cap Resident(cache[layer]), Ascending(S))
    /\ Return("ready")

-----------------------------------------------------------------------------
(* Speculative decoding: _offload_generate *)

BeginStep ==
    /\ pc = "ready" /\ active /\ pc' = "run"
    /\ want' \in [Layer -> Routes]
    /\ UNCHANGED <<cache, budget, active, layer, attempt, seen, allOk, sound>>

\* The lazy forward, layer by layer.  A layer routes as it should when the layers below
\* it were right.
Speculate ==
    /\ pc = "run" /\ layer \in Layer
    /\ \E S \in Routes :
          /\ sound => S = want[layer]
          /\ seen' = [seen EXCEPT ![layer] = S]
          /\ sound' = (sound /\ Right(cache[layer], S))
    /\ layer' = layer + 1
    /\ UNCHANGED <<cache, budget, active, pc, attempt, want, allOk>>

Evaluate ==
    /\ pc = "run" /\ layer \notin Layer
    /\ pc' = "commit" /\ layer' = 1
    /\ UNCHANGED <<cache, budget, active, step, sound>>

\* commit_token(), layer by layer.  No layer's cache has changed since the forward, so
\* ok is the check on the cache as it is.
CommitHit ==
    /\ pc = "commit" /\ layer \in Layer
    /\ Valid(cache[layer], seen[layer])
    /\ seen[layer] \subseteq Resident(cache[layer])   \* touch() asserts it
    /\ Use(seen[layer], Ascending(seen[layer]))
    /\ layer' = layer + 1
    /\ UNCHANGED <<budget, active, pc, step, sound>>

CommitMiss ==
    /\ pc = "commit" /\ layer \in Layer
    /\ ~Valid(cache[layer], seen[layer])
    /\ Use(seen[layer], Ascending(seen[layer]))
    /\ layer' = layer + 1 /\ allOk' = FALSE
    /\ UNCHANGED <<budget, active, pc, attempt, want, seen, sound>>

\* A read that fails fails the request, with the layers before already changed.
CommitFails ==
    /\ pc = "commit" /\ layer \in Layer /\ ReadsFail
    /\ ~Valid(cache[layer], seen[layer])
    /\ Use(seen[layer] \cap Resident(cache[layer]), Ascending(seen[layer]))
    /\ Return("ready")

Emits == pc = "commit" /\ layer \notin Layer /\ allOk

Emit == Emits /\ Return("ready") /\ UNCHANGED cache

\* The KV caches are rolled back and the step runs again.
Redo ==
    /\ pc = "commit" /\ layer \notin Layer /\ ~allOk
    /\ attempt <= NumLayers
    /\ pc' = "run" /\ layer' = 1 /\ attempt' = attempt + 1
    /\ seen' = NoRoute /\ allOk' = TRUE /\ sound' = TRUE
    /\ UNCHANGED <<cache, budget, active, want>>

\* "expert cache failed to converge on a decode step": the request fails.
Diverge ==
    /\ pc = "commit" /\ layer \notin Layer /\ ~allOk
    /\ attempt = NumLayers + 1
    /\ Return("diverged") /\ UNCHANGED cache

AfterDivergence == pc = "diverged" /\ Return("ready") /\ UNCHANGED cache

-----------------------------------------------------------------------------
(* Between requests *)

\* The last request ends.
Idle ==
    /\ pc = "ready" /\ active /\ active' = FALSE
    /\ UNCHANGED <<cache, budget, pc, layer, step, sound>>

\* resize_total(): the slots asked for, spread evenly.
Rebuild(total) ==
    LET even == total \div NumLayers
        n    == IF even = 0 THEN 1 ELSE even
    IN  /\ pc = "ready" /\ ~active
        /\ cache' = [l \in Layer |-> Resized(cache[l], n)]
        /\ budget' = NumLayers * n
        /\ UNCHANGED <<active, pc, layer, step, sound>>

\* rebalance(): the same slots spread by the misses of each layer, at least Floor for
\* each and never more than there are experts; which share a layer gets is left open.
Rebalance(target) ==
    LET even  == budget \div NumLayers
        floor == IF Floor < even THEN Floor ELSE even
        full  == \A l \in Layer : target[l] = NumExperts
    IN  /\ pc = "ready" /\ ~active
        /\ \A l \in Layer : target[l] >= floor \/ target[l] = NumExperts
        /\ \/ SumFunction(target) = budget /\ UNCHANGED budget
           \/ full /\ budget' = NumLayers * NumExperts /\ budget' < budget
        /\ cache' = [l \in Layer |-> IF target[l] = cache[l].slots THEN cache[l]
                                     ELSE Resized(cache[l], target[l])]
        /\ UNCHANGED <<active, pc, layer, step, sound>>

-----------------------------------------------------------------------------

Serve ==
    \/ BeginServe \/ EndServe
    \/ \E S \in SUBSET Expert :
          \/ ServeFails(S)
          \/ \E inline \in SUBSET S : ServeInstalled(S, inline)
          \/ \E hot \in SUBSET S : \E ord \in Orders(hot) :
                ServeBanked(S, hot, ord) \/ ServeStreamed(S, hot, ord)

Decode ==
    \/ BeginStep \/ Speculate \/ Evaluate
    \/ CommitHit \/ CommitMiss \/ CommitFails
    \/ Emit \/ Redo \/ Diverge \/ AfterDivergence

Resize ==
    \/ \E total \in Totals : Rebuild(total)
    \/ \E target \in [Layer -> 1..NumExperts] : Rebalance(target)

Next == Serve \/ Decode \/ Idle \/ Resize

Spec == Init /\ [][Next]_vars

-----------------------------------------------------------------------------
(* Properties *)

CacheType(c) ==
    /\ c.slots \in Nat \ {0}
    /\ Resident(c) \subseteq Expert /\ c.slotOf \in [Resident(c) -> Slot(c)]
    /\ c.older \subseteq Resident(c) \X Resident(c)
    /\ c.lut \in [Expert -> Slot(c)]
    /\ c.owner \in [Slot(c) -> Expert \cup {Nobody}]
    /\ c.weight \in [Slot(c) -> Expert \cup {Nobody}]

\* The tables and arrays keep their shapes: a lut never points past the slots of its
\* layer, also when they have just been resized.
TypeOK ==
    /\ \A l \in Layer : CacheType(cache[l])
    /\ budget \in Nat
    /\ pc \in {"ready", "serve", "run", "commit", "diverged"}
    /\ layer \in 1..(NumLayers + 1) /\ attempt \in 1..(NumLayers + 1)
    /\ want \in [Layer -> SUBSET Expert] /\ seen \in [Layer -> SUBSET Expert]
    /\ active \in BOOLEAN /\ allOk \in BOOLEAN /\ sound \in BOOLEAN

\* The host's table and the device agree: an expert in the table is where the lut and
\* the owner say, and a slot with an owner is the table's slot for that expert and
\* holds its weights.  The lut of an expert that was evicted may point anywhere.
Agrees(c) ==
    /\ \A e \in Resident(c) : c.lut[e] = c.slotOf[e] /\ c.owner[c.slotOf[e]] = e
    /\ \A s \in Slot(c) :
          c.owner[s] # Nobody =>
             /\ c.owner[s] \in Resident(c) /\ c.slotOf[c.owner[s]] = s
             /\ c.weight[s] = c.owner[s]
Coherent == \A l \in Layer : Agrees(cache[l])

\* No slot is given to two experts of the table, also when a batch is larger than the
\* table and evicts part of itself.
NoSharedSlot ==
    \A l \in Layer : \A e, f \in Resident(cache[l]) :
        cache[l].slotOf[e] = cache[l].slotOf[f] => e = f

\* A forward whose output is kept used the weights of the experts it routed to, in
\* every layer; and a speculative one routed as it should.
KeptSound ==
    /\ pc = "serve" => sound
    /\ Emits => sound /\ seen = want

\* A decode step never gives up: with one run more than there are layers, the last
\* one finds every expert.
Converges == pc # "diverged"

=============================================================================
