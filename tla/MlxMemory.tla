------------------------------ MODULE MlxMemory ------------------------------
(***************************************************************************)
(* What the MLX scheduler keeps between requests and how its loop          *)
(* (worker.py, run_forever) uses it: the RAM store of prefix snapshots     *)
(* while requests run, and the expert slots of the layers, spread anew     *)
(* whenever the loop is idle.                                              *)
(*                                                                         *)
(* A request looks its prompt up, prefills the rest along one of three     *)
(* paths with snapshots on the way, and donates its cache at the end.  A   *)
(* cache is abstracted to the tokens that were fed to it.  The disk tier   *)
(* (PrefixDisk) appears as the prefixes it may find and give back.         *)
(***************************************************************************)
EXTENDS PrefixStore, SlotShares

CONSTANTS
    Prompts, Outputs, \* the token sequences of prompts, and of answers
    Aheads,     \* tokens a speculative window or a pipeline is ahead of the answer
    Boundary,   \* BOUNDARY_TOKENS
    Chunk,      \* MAXTOKEN_MLX_OFFLOAD_PREFILL_CHUNK
    Wide, Narrow,     \* the chunk widths of a lone prefill, and of one among others
    DiskBlock,  \* block_tokens of the disk tier
    Models,     \* pairs: below which length all caches of a model can be trimmed; whether
                \* one of its layers attends to all tokens, and its cache always can
    MaxActive,  \* requests at a time
    NumLayers, NumExperts, InitialSlots,
    Floor,      \* floor of rebalance()
    Totals,     \* moe_cache_size of a rebuild
    MaxMisses   \* bound: misses of a layer between two rebalances

ASSUME WidthAssumption ==
    /\ {Boundary, Chunk, Wide, Narrow, DiskBlock} \subseteq Nat \ {0}
    /\ Narrow >= Boundary /\ Wide >= Narrow
ASSUME LayerAssumption ==
    /\ {NumLayers, NumExperts, InitialSlots, Floor, MaxActive} \subseteq Nat \ {0}
    /\ Totals \subseteq Nat \ {0} /\ MaxMisses \in Nat

Token == UNION {ToSet(p) : p \in Prompts \cup Outputs \cup Aheads}

ASSUME PromptAssumption == \A p \in Prompts : p \in Seq(Token) /\ p # <<>>
ASSUME OutputAssumption == \A o \in Outputs : o \in Seq(Token) /\ o # <<>>
ASSUME AheadAssumption  == \A a \in Aheads : a \in Seq(Token)
ASSUME ModelAssumption  == Models \subseteq Nat \X BOOLEAN

Slot  == 1..MaxActive
Layer == 1..NumLayers

VARIABLES
    path,       \* how the model prefills: "offload", "batched" or "chunked"
    window,     \* below which length all its caches can be trimmed
    attends,    \* one of its caches can be trimmed at any length
    store,      \* prefix_store
    req,        \* active: the requests, each with its cache
    slots,      \* the slots of each layer
    misses,     \* of each layer, since the base of the last rebalance
    based,      \* _rebalance_base is set
    rested      \* the loop waits for a message

vars == <<path, window, attends, store, req, slots, misses, based, rested>>

None == [prompt |-> <<>>, pos |-> 0, fed |-> <<>>]
Request == {r \in [prompt : Prompts, pos : Nat, fed : Seq(Token)] : r.pos <= Len(r.prompt)}
Active == {s \in Slot : req[s] # None}
Snapshot == [tokens : Seq(Token), fed : Seq(Token)]

\* The store keeps its budget unless the newest snapshot alone exceeds it, holds no prefix
\* twice, and what it would evict last is what was used last.
StoreSane ==
    /\ Total(store.entries) > MaxBytes => Len(store.entries) = 1
    /\ Len(store.entries) = Cardinality(Keys(store))
    /\ Len(store.recent) = Len(store.entries) /\ ToSet(store.recent) = Keys(store)

TypeOK ==
    /\ path \in {"offload", "batched", "chunked"} /\ <<window, attends>> \in Models
    /\ store \in [entries : Seq(Snapshot), recent : Seq(Seq(Token))]
    /\ req \in [Slot -> Request \cup {None}]
    /\ slots \in [Layer -> Nat \ {0}] /\ misses \in [Layer -> 0..MaxMisses]
    /\ {based, rested} \subseteq BOOLEAN
    /\ StoreSane

NoMisses == [l \in Layer |-> 0]

Init ==
    /\ path \in {"offload", "batched", "chunked"}
    /\ \E m \in Models : window = m[1] /\ attends = m[2]
    /\ store = Empty /\ req = [s \in Slot |-> None]
    /\ slots = [l \in Layer |-> InitialSlots] /\ misses = NoMisses
    /\ based = FALSE /\ rested = FALSE

----------------------------------------------------------------------------
(* The loop between requests.                                              *)

\* _maybe_rebalance(), before the loop waits.  The first call only takes the base.
Rest ==
    /\ Active = {} /\ ~rested
    /\ rested' = TRUE
    /\ IF path = "offload"
       THEN /\ slots' = IF based /\ misses # NoMisses
                        THEN Rebalanced(slots, misses, Floor, NumExperts) ELSE slots
            /\ based' = TRUE /\ misses' = NoMisses
       ELSE UNCHANGED <<slots, based, misses>>
    /\ UNCHANGED <<path, window, attends, store, req>>

Receives == rested \/ Active # {}

\* _handle_cache_rebuild(); with requests at work the answer is "busy".
Resize(total) ==
    /\ Receives /\ path = "offload" /\ Active = {}
    /\ slots' = Even(slots, total)
    /\ based' = FALSE /\ rested' = FALSE
    /\ UNCHANGED <<path, window, attends, store, req, misses>>

----------------------------------------------------------------------------
(* A request.                                                              *)

Begins(s, p, n, fed) == req' = [req EXCEPT ![s] = [prompt |-> p, pos |-> n, fed |-> fed]]

\* _lookup_prefix(): what RAM saves, or what the disk gives back when that reaches deeper;
\* RAM then holds it too.
Admit(s, p) ==
    /\ Receives /\ req[s] = None
    /\ rested' = FALSE
    /\ LET hit   == Best(store, p, window)
           found == {n \in 1..(Len(p) - 1) : n % DiskBlock = 0 /\ n > hit.n}
       IN  \/ Begins(s, p, hit.n, Restored(store, hit)) /\ store' = Touched(store, hit)
           \/ \E n \in found :
                 LET fed == SubSeq(p, 1, n)
                 IN  Begins(s, p, n, fed) /\ store' = Insert(Touched(store, hit), fed, fed)
    /\ UNCHANGED <<path, window, attends, slots, misses, based>>

\* The cache after the prompt up to n has been fed to it.
FedTo(r, n) == r.fed \o SubSeq(r.prompt, r.pos + 1, n)
Feeds(s, n) == req' = [req EXCEPT ![s].pos = n, ![s].fed = FedTo(req[s], n)]

\* MUTANT: chunks end on multiples of the chunk alone.
OffloadPlanEven(start, end) ==
    LET after[pos \in 0..end] ==
            IF pos >= end THEN <<>>
            ELSE LET n == Least(end, (pos \div Chunk + 1) * Chunk)
                 IN  (IF n % Boundary = 0 /\ n < end THEN <<n>> ELSE <<>>) \o after[n]
    IN  after[start]

\* offload_prefill_plan(): chunks that end on multiples of the chunk, and on the last
\* boundary before the end; the positions where it takes a snapshot.
OffloadPlan(start, end) ==
    LET last == (end \div Boundary) * Boundary
        after[pos \in 0..end] ==
            IF pos >= end THEN <<>>
            ELSE LET full == (pos \div Chunk + 1) * Chunk
                     stop == IF pos < last /\ last < full THEN last ELSE full
                     n    == Least(end, stop)
                 IN  (IF n % Boundary = 0 /\ n < end THEN <<n>> ELSE <<>>) \o after[n]
    IN  after[start]

\* _offload_prefill(): all but the last token in one go.
PrefillOffload(s) ==
    LET r   == req[s]
        end == Len(r.prompt) - 1
    IN  /\ path = "offload" /\ r # None /\ r.pos < end
        /\ Feeds(s, end)
        /\ store' = FoldLeft(LAMBDA st, n : Insert(st, SubSeq(r.prompt, 1, n), FedTo(r, n)),
                             store, OffloadPlan(r.pos, end))
        /\ UNCHANGED <<path, window, attends, slots, misses, based, rested>>

\* _batch_admit(): the next segment ends on the grid, or with the prompt.
SegmentEnd(pos, end) == Least(end, (pos \div Boundary + 1) * Boundary)

\* The batching engine ends a segment; a snapshot, unless it was the prompt's last.
PrefillBatched(s) ==
    LET r == req[s]
        n == SegmentEnd(r.pos, Len(r.prompt))
    IN  /\ path = "batched" /\ r # None /\ r.pos < Len(r.prompt)
        /\ Feeds(s, n)
        /\ store' = IF n < Len(r.prompt)
                    THEN Insert(store, SubSeq(r.prompt, 1, n), FedTo(r, n)) ELSE store
        /\ UNCHANGED <<path, window, attends, slots, misses, based, rested>>

\* _prefill_chunks(): the next chunk is as wide as the load allows, and ends on the grid
\* unless it is the last.
ChunkEnd(pos, end) ==
    LET width == IF Cardinality(Active) <= 1 THEN Wide ELSE Narrow
        grid  == (pos \div Boundary + 1) * Boundary
        full  == pos + width
    IN  IF full >= end THEN end
        ELSE IF full < grid THEN grid ELSE full - (full % Boundary)

\* It ends earlier where the disk tier wants a snapshot (cut_points()): after some full block.
ChunkEnds(pos, end) ==
    LET full == ChunkEnd(pos, end)
    IN  {full} \cup {cut \in (pos + 1)..(full - 1) : cut % DiskBlock = 0}

PrefillChunk(s) ==
    LET r   == req[s]
        end == Len(r.prompt) - 1
    IN  /\ path = "chunked" /\ r # None /\ r.pos < end
        /\ \E n \in ChunkEnds(r.pos, end) :
              /\ Feeds(s, n)
              /\ store' = IF n % Boundary = 0 /\ n < end
                          THEN Insert(store, SubSeq(r.prompt, 1, n), FedTo(r, n)) ELSE store
        /\ UNCHANGED <<path, window, attends, slots, misses, based, rested>>

Prefilled(r) == r.pos = Len(r.prompt) - (IF path = "batched" THEN 0 ELSE 1)

\* A layer that can be trimmed now tells how long the cache is; without one, nothing does.
Measured(n) == attends \/ Trimmable(n, window)

\* MUTANT: the answer is remembered with what the cache is ahead of it.
RememberedAhead(tokens, fed) ==
    IF Measured(Len(fed)) /\ Len(fed) < Len(tokens) THEN store ELSE Insert(store, tokens, fed)

\* _remember(): the cache of a request is donated.  What it is known to be ahead is trimmed,
\* or, where not every layer can be, the donation is dropped.
Remembered(tokens, fed) ==
    IF ~Measured(Len(fed)) \/ Len(fed) = Len(tokens) THEN Insert(store, tokens, fed)
    ELSE IF Len(fed) < Len(tokens) \/ ~Trimmable(Len(fed), window) THEN store
    ELSE Insert(store, tokens, SubSeq(fed, 1, Len(tokens)))

\* The request leaves the scheduler; what the layers missed while it was busy shows at last.
Ends(s) ==
    /\ req' = [req EXCEPT ![s] = None] /\ rested' = FALSE
    /\ misses' \in IF path = "offload" /\ Active = {s} THEN [Layer -> 0..MaxMisses] ELSE {misses}
    /\ UNCHANGED <<path, window, attends, slots, based>>

\* The last token of the answer was sampled and not fed.
Finish(s) ==
    LET r == req[s]
    IN  /\ r # None /\ Prefilled(r)
        /\ \E out \in Outputs, ahead \in Aheads :
              LET tokens == r.prompt \o Front(out)
              IN  store' = Remembered(tokens, FedTo(r, Len(r.prompt)) \o Front(out) \o ahead)
        /\ Ends(s)

\* An abort donates what there is, a failure nothing.
Abort(s) ==
    /\ req[s] # None
    /\ store' = Remembered(req[s].prompt, req[s].fed)
    /\ Ends(s)

Fail(s) ==
    /\ req[s] # None
    /\ store' = store
    /\ Ends(s)

Next ==
    \/ Rest
    \/ \E total \in Totals : Resize(total)
    \/ \E s \in Slot :
          \/ \E p \in Prompts : Admit(s, p)
          \/ PrefillOffload(s) \/ PrefillBatched(s) \/ PrefillChunk(s)
          \/ Finish(s) \/ Abort(s) \/ Fail(s)

Spec == Init /\ [][Next]_vars

----------------------------------------------------------------------------
(* Properties.                                                             *)

\* A snapshot's state is the state after exactly its tokens (the entry of prefix_cache.py:
\* "the exact tokens the states cover").
SnapshotExact == \A i \in DOMAIN store.entries : store.entries[i].fed = store.entries[i].tokens

\* With one layer that tells its length, that is so, and a request decodes from the state of
\* exactly its prompt, however much of it was restored, trimmed or taken over.  Without one it
\* is not so: an abort stores what there is under the whole prompt.
StateMatches ==
    attends => /\ SnapshotExact
               /\ \A s \in Active : req[s].fed = SubSeq(req[s].prompt, 1, req[s].pos)

\* The lengths at which one of the snapshots could serve a prompt.
Servable(p) ==
    {k \in MinMatch..(Len(p) - 1) : \E i \in DOMAIN store.entries :
        LET t == store.entries[i].tokens
        IN  /\ k <= Len(t) /\ SubSeq(p, 1, k) = SubSeq(t, 1, k)
            /\ k = Len(t) \/ Trimmable(Len(store.entries[i].fed), window)}

\* A request never starts behind what RAM could save it, and always has a token to process.
LongestReuse ==
    [][\A s \in Slot : req[s] = None /\ req'[s] # None =>
           /\ req'[s].pos < Len(req'[s].prompt)
           /\ \A k \in Servable(req'[s].prompt) : k <= req'[s].pos]_vars

\* After the prefill of an offloading or a batching scheduler the last boundary inside the
\* prompt is a point the next turn can be restored at, whatever else had to go.
RestorePointKept ==
    [][\A s \in Slot :
          LET r     == req[s]
              end   == Len(r.prompt) - (IF path = "batched" THEN 0 ELSE 1)
              point == ((end - 1) \div Boundary) * Boundary
          IN  /\ path # "chunked" /\ r # None /\ req'[s].prompt = r.prompt
              /\ r.pos < point /\ point <= req'[s].pos
              /\ point >= MinMatch /\ (end % Boundary # 0 \/ path = "batched")
              => SubSeq(r.prompt, 1, point) \in Keys(store')]_vars

\* A rebalance meets what ExpertOffload asks of it: no slot is lost unless every layer holds
\* all experts, nobody falls below the floor, and more misses never earn fewer slots.
SharesSane ==
    [][rested' /\ ~rested =>
        LET total == SumFunction(slots)
            low   == Least(Floor, total \div NumLayers)
        IN  /\ \/ SumFunction(slots') = total
               \/ SumFunction(slots') < total /\ \A l \in Layer : slots'[l] = NumExperts
            /\ \A l \in Layer : slots'[l] >= low \/ slots'[l] = NumExperts
            /\ slots' # slots => \A l \in Layer : slots'[l] <= NumExperts
            /\ slots' # slots =>
                 \A l, m \in Layer : misses[l] > misses[m] => slots'[l] >= slots'[m]]_vars
=============================================================================
