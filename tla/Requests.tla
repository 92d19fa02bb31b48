------------------------------ MODULE Requests ------------------------------
(***************************************************************************)
(* The life of a generation request: the API frontend (api_server.py,      *)
(* stats.py, accounting.py), the tokenizer worker (tokenizer/server.py,    *)
(* detokenize.py) and the MLX scheduler (mlx_backend/worker.py), three     *)
(* processes joined by ZMQ queues, and the barrier that seals the token    *)
(* totals before a stop.                                                   *)
(*                                                                         *)
(*   frontend --fromFront--> tokenizer --toBack--> scheduler               *)
(*   frontend <--toFront---- tokenizer <--fromBack-- scheduler             *)
(*                                                                         *)
(* The default deployment: one tokenizer worker (num_tokenizer = 0, and    *)
(* local_bs = 1, so it takes one queue element at a time).  A piece of     *)
(* text is the ordinal of the token it was decoded from.  A message of     *)
(* replies is a function from the requests to what it says to each: the    *)
(* order of replies to different requests plays no part.                   *)
(***************************************************************************)
EXTENDS Naturals, Sequences, FiniteSets

CONSTANTS
    MaxUids,    \* bound: requests
    MaxTokens,  \* max_tokens of every request
    Rounds,     \* DECODE_ROUNDS_WHILE_PREFILLING: tokens of one step
    Chunks,     \* prefill steps that give no token
    MaxLeavers, \* bound: clients that leave
    MaxStops    \* bound: calls of prepare-stop

ASSUME BoundsAssumption ==
    /\ {MaxUids, MaxTokens, Rounds} \subseteq Nat \ {0}
    /\ {Chunks, MaxLeavers, MaxStops} \subseteq Nat

Uid == 0..(MaxUids - 1)

VARIABLES
    gate,        \* maintenance_state, of "serving" and "stopping"
    next,        \* uid_counter
    open,        \* the keys of ack_map and event_map
    leaving,     \* abort_user calls in their sleep
    inflight, aborting,       \* StatsTracker._inflight, _aborting
    prompts, completions,     \* requests admitted and tokens sampled, as counted
    stop,        \* where prepare_stop_accounting is
    awaited,     \* the uids its gather() aborts
    sealed,      \* _sealed_accounting
    fromFront, fromBack, toBack, toFront,
    decode,      \* decode_map: pieces decoded, 0 when there is no state
    active,      \* the scheduler's requests
    left,        \* prefill chunks each still has
    out,         \* tokens sampled for each (output_ids)
    turn,        \* where run_forever is
    unsent,      \* history: requests whose message could not be sent
    story,       \* history: what the consumer of each request was handed
    ran, gone, dropped,       \* history: admitted, client left, abort handled
    stops                     \* counter of the bound

frontend == <<gate, next, open, leaving, inflight, aborting, prompts, completions, unsent>>
barrier == <<stop, awaited, sealed, stops>>
scheduler == <<active, left, out, turn, ran, dropped>>
vars == <<frontend, barrier, fromFront, fromBack, toBack, toFront, decode, scheduler, story, gone>>

NoSeal == [prompts |-> 0, completions |-> 0, done |-> FALSE]

\* What goes down to the scheduler.
Message == [kind : {"user", "abort"}, uid : Uid]
Msg(k, u) == [kind |-> k, uid |-> u]

\* What a message of the scheduler says to a request: that it is admitted, some tokens, and
\* whether it ended with the last of them or with an error.
Report == [admitted : BOOLEAN, tokens : 0..Rounds, end : {"more", "last", "error"}]
Nothing == [admitted |-> FALSE, tokens |-> 0, end |-> "more"]

\* What a message of the tokenizer says to a request is a sequence of these.
Reply == [kind : {"admit", "text", "error"}, pos : Nat, fin : BOOLEAN]
Say(k, p, f) == [kind |-> k, pos |-> p, fin |-> f]

\* The requests that messages of a kind in a queue are about.
About(queue, k) == {queue[i].uid : i \in {j \in DOMAIN queue : queue[j].kind = k}}

\* A message that says nothing to anybody is not sent.
Put(queue, batch, nothing) ==
    IF \A u \in Uid : batch[u] = nothing THEN queue ELSE Append(queue, batch)

\* The places in a message of the tokenizer that hold a reply of some kind, or an end; what a
\* message of the scheduler holds: tokens, admissions.
Said(batch, k) == {p \in Uid \X (1..Rounds) : p[2] \in DOMAIN batch[p[1]] /\ batch[p[1]][p[2]].kind = k}
Ended(batch) == {u \in Uid : \E i \in DOMAIN batch[u] : batch[u][i].fin}
Drawn(batch) == {p \in Uid \X (1..Rounds) : p[2] <= batch[p[1]].tokens}
Started(batch) == {p \in Uid \X {1} : batch[p[1]].admitted}

----------------------------------------------------------------------------
TypeOK ==
    /\ gate \in {"serving", "stopping"} /\ next \in 0..MaxUids
    /\ open \subseteq 0..(next - 1) /\ \A u \in Uid \ open : story[u] = <<>>
    /\ leaving \cup gone \cup unsent \subseteq 0..(next - 1)
    /\ aborting \subseteq inflight /\ inflight \subseteq 0..(next - 1)
    /\ prompts \in Nat /\ completions \in Nat
    /\ stop \in {"idle", "drain", "abort", "wait"} /\ awaited \subseteq Uid /\ stops \in 0..MaxStops
    /\ sealed \in [prompts : Nat, completions : Nat, done : BOOLEAN]
    /\ fromFront \in Seq(Message) /\ toBack \in Seq(Message)
    /\ fromBack \in Seq([Uid -> Report]) /\ toFront \in Seq([Uid -> Seq(Reply)])
    /\ decode \in [Uid -> Nat] /\ story \in [Uid -> Seq(Reply)]
    /\ active \subseteq ran /\ ran \cup dropped \subseteq 0..(next - 1)
    /\ left \in [Uid -> 0..Chunks] /\ out \in [Uid -> 0..MaxTokens]
    /\ turn \in {"recv", "step"}

Init ==
    /\ gate = "serving" /\ next = 0 /\ open = {} /\ leaving = {}
    /\ inflight = {} /\ aborting = {} /\ prompts = 0 /\ completions = 0
    /\ stop = "idle" /\ awaited = {} /\ sealed = NoSeal /\ stops = 0
    /\ fromFront = <<>> /\ fromBack = <<>> /\ toBack = <<>> /\ toFront = <<>>
    /\ decode = [u \in Uid |-> 0]
    /\ active = {} /\ left = [u \in Uid |-> Chunks] /\ out = [u \in Uid |-> 0]
    /\ turn = "recv" /\ ran = {} /\ dropped = {}
    /\ story = [u \in Uid |-> <<>>] /\ gone = {} /\ unsent = {}

----------------------------------------------------------------------------
(* The frontend's event loop.                                              *)

\* new_user(): the request is in flight.
Enters ==
    /\ gate = "serving" /\ next < MaxUids
    /\ next' = next + 1
    /\ open' = open \cup {next} /\ inflight' = inflight \cup {next}
    /\ aborting' = aborting \ {next}
    /\ UNCHANGED <<gate, leaving, prompts, completions, barrier, fromBack, toBack, toFront,
                   decode, scheduler, story, gone>>

\* Its TokenizeMsg follows at once (submit_generation()), ...
NewUser ==
    /\ Enters
    /\ fromFront' = Append(fromFront, Msg("user", next))
    /\ UNCHANGED unsent

\* ... or cannot be sent: the handler ends with the exception and takes nothing back.
NewUserUnsent ==
    /\ Enters
    /\ unsent' = unsent \cup {next}
    /\ UNCHANGED fromFront

\* MUTANT: an abort stays noted after its request has ended.
ListenStillAborting ==
    LET batch == Head(toFront)
    IN  /\ toFront # <<>>
        /\ toFront' = Tail(toFront)
        /\ prompts' = prompts + Cardinality(Said(batch, "admit"))
        /\ completions' = completions + Cardinality(Said(batch, "text"))
        /\ inflight' = inflight \ Ended(batch)
        /\ story' = [u \in Uid |-> IF u \in open THEN story[u] \o batch[u] ELSE story[u]]
        /\ UNCHANGED <<gate, next, open, leaving, aborting, unsent, barrier, fromFront, fromBack, toBack,
                       decode, scheduler, gone>>

\* MUTANT: replies of a request that is not open any more are not counted.
ListenOpen ==
    LET batch == Head(toFront)
        heard == [u \in Uid |-> IF u \in open THEN batch[u] ELSE <<>>]
    IN  /\ toFront # <<>>
        /\ toFront' = Tail(toFront)
        /\ prompts' = prompts + Cardinality(Said(heard, "admit"))
        /\ completions' = completions + Cardinality(Said(heard, "text"))
        /\ inflight' = inflight \ Ended(heard) /\ aborting' = aborting \ Ended(heard)
        /\ story' = [u \in Uid |-> IF u \in open THEN story[u] \o batch[u] ELSE story[u]]
        /\ UNCHANGED <<gate, next, open, leaving, unsent, barrier, fromFront, fromBack, toBack,
                       decode, scheduler, gone>>

\* listen(): count each reply of a message, then hand it to the request if it is still open.
Listen ==
    LET batch == Head(toFront)
    IN  /\ toFront # <<>>
        /\ toFront' = Tail(toFront)
        /\ prompts' = prompts + Cardinality(Said(batch, "admit"))
        /\ completions' = completions + Cardinality(Said(batch, "text"))
        /\ inflight' = inflight \ Ended(batch) /\ aborting' = aborting \ Ended(batch)
        /\ story' = [u \in Uid |-> IF u \in open THEN story[u] \o batch[u] ELSE story[u]]
        /\ UNCHANGED <<gate, next, open, leaving, unsent, barrier, fromFront, fromBack, toBack,
                       decode, scheduler, gone>>

\* The consumer's wait_for_ack() generator ends: the maps lose the request.
Close(u) ==
    /\ open' = open \ {u} /\ story' = [story EXCEPT ![u] = <<>>]
    /\ UNCHANGED <<gate, next, leaving, inflight, aborting, prompts, completions, unsent, barrier,
                   fromFront, fromBack, toBack, toFront, decode, scheduler, gone>>

\* ... at the terminal reply,
Finish(u) == u \in open /\ story[u] # <<>> /\ story[u][Len(story[u])].fin /\ Close(u)

\* ... or because the reasoning budget is spent, with the engine still at work.
BudgetSpent(u) ==
    u \in open /\ \E i \in DOMAIN story[u] : story[u][i].kind = "text" /\ Close(u)

\* stream_with_cancellation() or until_disconnect() sees the client gone: abort_user().
Disconnect(u) ==
    /\ u < next /\ u \notin gone \cup unsent /\ Cardinality(gone) < MaxLeavers
    /\ gone' = gone \cup {u} /\ leaving' = leaving \cup {u}
    /\ UNCHANGED <<gate, next, open, inflight, aborting, prompts, completions, unsent, barrier,
                   fromFront, fromBack, toBack, toFront, decode, scheduler, story>>

\* abort_user() after its sleep; the consumer's generator may have been closed meanwhile.
AbortUser(u) ==
    /\ u \in leaving
    /\ leaving' = leaving \ {u}
    /\ open' = open \ {u} /\ story' = [story EXCEPT ![u] = <<>>]
    /\ aborting' = aborting \cup ({u} \cap inflight)
    /\ fromFront' = Append(fromFront, Msg("abort", u))
    /\ UNCHANGED <<gate, next, inflight, prompts, completions, unsent, barrier, fromBack, toBack,
                   toFront, decode, scheduler, gone>>

----------------------------------------------------------------------------
(* prepare_stop_accounting(), one call at a time under its lock.           *)

Snapshot == [prompts |-> prompts, completions |-> completions, done |-> TRUE]

\* A call that finds no seal closes admission and waits for the requests to end.
PrepareStop ==
    /\ stop = "idle" /\ ~sealed.done /\ stops < MaxStops
    /\ stops' = stops + 1
    /\ gate' = "stopping" /\ stop' = "drain"
    /\ UNCHANGED <<next, open, leaving, inflight, aborting, prompts, completions, unsent, awaited, sealed,
                   fromFront, fromBack, toBack, toFront, decode, scheduler, story, gone>>

\* Nothing is in flight: seal.
Seal ==
    /\ stop \in {"drain", "wait"} /\ inflight = {}
    /\ sealed' = Snapshot /\ stop' = "idle"
    /\ UNCHANGED <<frontend, awaited, stops, fromFront, fromBack, toBack, toFront,
                   decode, scheduler, story, gone>>

\* The drain took too long: abort what is in flight,
DrainTimeout ==
    /\ stop = "drain" /\ inflight # {}
    /\ awaited' = inflight /\ leaving' = leaving \cup inflight
    /\ stop' = "abort"
    /\ UNCHANGED <<gate, next, open, inflight, aborting, prompts, completions, unsent, sealed, stops,
                   fromFront, fromBack, toBack, toFront, decode, scheduler, story, gone>>

\* ... and wait again once every abort has been sent.
AbortsSent ==
    /\ stop = "abort" /\ awaited \cap leaving = {}
    /\ awaited' = {} /\ stop' = "wait"
    /\ UNCHANGED <<frontend, sealed, stops, fromFront, fromBack, toBack, toFront,
                   decode, scheduler, story, gone>>

\* Still not idle: AccountingDrainError; admission stays closed.
AbortTimeout ==
    /\ stop = "wait" /\ inflight # {}
    /\ stop' = "idle"
    /\ UNCHANGED <<frontend, awaited, sealed, stops, fromFront, fromBack, toBack, toFront,
                   decode, scheduler, story, gone>>

----------------------------------------------------------------------------
(* tokenize_worker(): one queue element per turn.                          *)

\* A request from the frontend: tokenized for the scheduler, or refused.
Tokenize ==
    LET u == Head(fromFront).uid
    IN  /\ fromFront # <<>> /\ Head(fromFront).kind = "user"
        /\ fromFront' = Tail(fromFront)
        /\ \/ toBack' = Append(toBack, Head(fromFront)) /\ toFront' = toFront
           \/ /\ toFront' = Append(toFront, [v \in Uid |-> IF v = u THEN <<Say("error", 0, TRUE)>>
                                                           ELSE <<>>])
              /\ toBack' = toBack
        /\ UNCHANGED <<frontend, barrier, fromBack, decode, scheduler, story, gone>>

\* An abort: the decode state goes, the scheduler is told.
PassAbort ==
    /\ fromFront # <<>> /\ Head(fromFront).kind = "abort"
    /\ fromFront' = Tail(fromFront)
    /\ decode' = [decode EXCEPT ![Head(fromFront).uid] = 0]
    /\ toBack' = Append(toBack, Head(fromFront))
    /\ UNCHANGED <<frontend, barrier, fromBack, toFront, scheduler, story, gone>>

Admissions(batch) ==
    [u \in Uid |-> IF batch[u].admitted THEN <<Say("admit", 0, FALSE)>> ELSE <<>>]

\* MUTANT: all tokens of a batch are decoded from the state before it.
DetokenizedOnce(batch) ==
    [u \in Uid |-> [i \in 1..batch[u].tokens |->
        Say("text", decode[u] + 1, batch[u].end = "last" /\ i = batch[u].tokens)]]

\* detokenize(): the tokens of one request are decoded in turn (in waves), each from where
\* the one before left the state.
Detokenized(batch) ==
    [u \in Uid |-> [i \in 1..batch[u].tokens |->
        Say("text", decode[u] + i, batch[u].end = "last" /\ i = batch[u].tokens)]]

Errors(batch) ==
    [u \in Uid |-> IF batch[u].end = "error" THEN <<Say("error", 0, TRUE)>> ELSE <<>>]

\* MUTANT: an error reply does not release the state.
ReleasedByText(batch) == {u \in Uid : batch[u].end = "last"}

\* A state ends with the last token of its request, or with its error reply.
Released(batch) == {u \in Uid : batch[u].end # "more"}

\* MUTANT: terminal errors overtake the tokens sampled before them.
RegroupedErrorsFirst(queue, batch) ==
    Put(Put(Put(queue, Errors(batch), <<>>), Admissions(batch), <<>>), Detokenized(batch), <<>>)

\* _send_generation_replies(): admissions, then text, then terminal errors.
Regrouped(queue, batch) ==
    Put(Put(Put(queue, Admissions(batch), <<>>), Detokenized(batch), <<>>), Errors(batch), <<>>)

\* A message of the scheduler.
Detokenize ==
    LET batch == Head(fromBack)
    IN  /\ fromBack # <<>>
        /\ fromBack' = Tail(fromBack)
        /\ toFront' = Regrouped(toFront, batch)
        /\ decode' = [u \in Uid |-> IF u \in Released(batch) THEN 0
                                    ELSE decode[u] + batch[u].tokens]
        /\ UNCHANGED <<frontend, barrier, fromFront, toBack, scheduler, story, gone>>

----------------------------------------------------------------------------
(* run_forever() of the scheduler.                                         *)

\* _handle(), on all messages of a queue in turn: an abort takes its request out, unless the
\* request starts after it.
TakenOut(queue, starting, u) ==
    \E i \in DOMAIN queue :
        /\ queue[i] = Msg("abort", u)
        /\ u \in starting => \A j \in DOMAIN queue : j > i => queue[j] # Msg("user", u)

\* Every message that has arrived; with nothing active it blocks for one.  Some requests
\* cannot be started.
Receive ==
    /\ turn = "recv" /\ (toBack # <<>> \/ active # {})
    /\ \E starting \in SUBSET About(toBack, "user") :
        /\ ran' = ran \cup starting
        /\ active' = {u \in active \cup starting : ~TakenOut(toBack, starting, u)}
        /\ fromBack' = Put(fromBack, [u \in Uid |->
               [admitted |-> u \in starting, tokens |-> 0,
                end |-> IF u \in About(toBack, "user") \ starting THEN "error" ELSE "more"]], Nothing)
    /\ dropped' = dropped \cup About(toBack, "abort")
    /\ turn' = IF active' = {} THEN "recv" ELSE "step"
    /\ toBack' = <<>>
    /\ UNCHANGED <<frontend, barrier, fromFront, toFront, decode, left, out, story, gone>>

\* What a step may do for an active request: another chunk of the prompt, some tokens, the
\* last of its tokens, or a failure after some of them.
Outcome(u) ==
    {o \in Report :
        /\ ~o.admitted
        /\ out[u] + o.tokens <= MaxTokens
        /\ out[u] + o.tokens = MaxTokens => o.end = "last"
        /\ o.end = "more" /\ o.tokens = 0 => out[u] = 0 /\ left[u] > 0
        /\ o.end = "last" => o.tokens > 0
        /\ o.end = "error" => o.tokens < Rounds}

\* MUTANT: a failed request is dropped without a word.
ReportedSilent(o) ==
    [u \in Uid |-> IF u \in DOMAIN o /\ o[u].end # "error" THEN o[u] ELSE Nothing]

\* The replies of a step, of all its requests in one message.
Reported(o) == [u \in Uid |-> IF u \in DOMAIN o THEN o[u] ELSE Nothing]

\* _step(): every active request advances; one message carries all replies.  A batched step
\* gives a token to each at most and fails for all at once (_abort_batch): some of these.
Step ==
    /\ turn = "step"
    /\ \E o \in [active -> UNION {Outcome(u) : u \in active}] :
        /\ \A u \in active : o[u] \in Outcome(u)
        /\ out' = [u \in Uid |-> IF u \in active THEN out[u] + o[u].tokens ELSE out[u]]
        /\ left' = [u \in Uid |-> IF u \in active /\ o[u].end = "more" /\ o[u].tokens = 0
                                  THEN left[u] - 1 ELSE left[u]]
        /\ active' = {u \in active : o[u].end = "more"}
        /\ fromBack' = Put(fromBack, Reported(o), Nothing)
    /\ turn' = "recv"
    /\ UNCHANGED <<frontend, barrier, fromFront, toBack, toFront, decode, ran, dropped, story, gone>>

----------------------------------------------------------------------------
Consumer(u) == Finish(u) \/ BudgetSpent(u)
Stopping == Seal \/ DrainTimeout \/ AbortsSent \/ AbortTimeout
Tokenizer == Tokenize \/ PassAbort \/ Detokenize
Scheduler == Receive \/ Step

Next ==
    \/ NewUser \/ NewUserUnsent \/ Listen
    \/ \E u \in Uid : Consumer(u) \/ Disconnect(u) \/ AbortUser(u)
    \/ PrepareStop \/ Stopping
    \/ Tokenizer \/ Scheduler

\* What the loops of the three processes and the tasks and timeouts of the event loop do by
\* themselves.  No client has to come, to leave, or to ask for a stop.
Progress == Listen \/ Tokenizer \/ Scheduler \/ Stopping \/ \E u \in Uid : AbortUser(u)

\* They never all rest while one of them could go on; the work in them is finite, so no more
\* is needed.
Fairness == WF_vars(Progress)

Spec == Init /\ [][Next]_vars /\ Fairness

----------------------------------------------------------------------------
(* Properties.                                                             *)

\* The places of all that a queue's messages hold, and of all tokens sampled.
Places(contents) == UNION {{j} \X contents[j] : j \in DOMAIN contents}
Undelivered(k) == Places([j \in DOMAIN toFront |-> Said(toFront[j], k)])
Undecoded == Places([j \in DOMAIN fromBack |-> Drawn(fromBack[j])])
Unreported == Places([j \in DOMAIN fromBack |-> Started(fromBack[j])])
Sampled == {p \in Uid \X (1..MaxTokens) : p[2] <= out[p[1]]}

\* Every prompt admitted and every token sampled is counted once or on its way to be
\* counted, also for a request whose client has left (listen() counts before it delivers).
AccountingExact ==
    /\ completions + Cardinality(Undelivered("text")) + Cardinality(Undecoded) = Cardinality(Sampled)
    /\ prompts + Cardinality(Undelivered("admit")) + Cardinality(Unreported) = Cardinality(ran)

\* The sealed totals are final: the scheduler is at rest and nothing it sampled is missing
\* from them.
SealedExact ==
    sealed.done =>
        /\ active = {} /\ sealed.completions = Cardinality(Sampled)
        /\ sealed.prompts = Cardinality(ran)

\* What can follow c replies: the admission first, then the text piece by piece, nothing twice
\* and nothing left out, and nothing after the terminal reply.
Follows(c, replies) ==
    \A i \in DOMAIN replies :
        LET m == replies[i]
        IN  /\ m.kind = (IF c + i = 1 THEN "admit" ELSE "text") \/ m.kind = "error"
            /\ m.kind = "text" => m.pos = c + i - 1
            /\ m.fin => i = Len(replies)

\* That is what a consumer gets.
StreamOrdered == \A u \in Uid : Follows(0, story[u])

\* Once the scheduler has handled the abort of a request it never works on it again.
AbortSticks == active \cap dropped = {}

\* What the order of the queues and of each drain has to preserve.
OrderKept == StreamOrdered /\ AbortSticks

Aborted(u) == u \in dropped \/ \E i \in DOMAIN toBack : toBack[i] = Msg("abort", u)

\* The detokenizer keeps state only for a request the scheduler still works on or whose
\* tokens wait to be decoded.  A token that crosses an abort is the exception: it brings the
\* state back, and nothing takes it away again.
DecodeReleased ==
    \A u \in Uid : decode[u] > 0 =>
        \/ u \in active \/ Aborted(u)
        \/ \E j \in DOMAIN fromBack : fromBack[j][u] # Nothing

\* Every request that was sent ends in the statistics, whatever fails on the way, unless it is
\* aborted.
EveryRequestEnds ==
    \A u \in Uid : (u \in inflight) ~> (u \notin inflight \/ u \in unsent \cup aborting \cup leaving)

\* accounting.py: an aborted request ends too, when the scheduler acknowledges the abort.
AbortAnswered == \A u \in Uid : (u \in aborting) ~> (u \notin inflight)

----------------------------------------------------------------------------
(* What makes them inductive.                                              *)

Asked(u) == u \in About(fromFront, "user") \cup About(toBack, "user")
Rising(u) == \E j \in DOMAIN fromBack : fromBack[j][u] # Nothing
Arriving(u) == \E j \in DOMAIN toFront : toFront[j][u] # <<>>
EndsRising(u) == \E j \in DOMAIN fromBack : fromBack[j][u].end # "more"
EndsArriving(u) == \E j \in DOMAIN toFront : u \in Ended(toFront[j])

\* A request goes down once, and nothing has come of it before the scheduler takes it.
AskInv ==
    /\ \A queue \in {fromFront, toBack} : \A i, j \in DOMAIN queue :
           queue[i].kind = "user" /\ queue[i] = queue[j] => i = j
    /\ About(fromFront, "user") \cap About(toBack, "user") = {}
    /\ \A u \in Uid : Asked(u) \/ u >= next =>
           /\ u \notin ran /\ ~Rising(u) /\ ~Arriving(u)
           /\ decode[u] = 0 /\ story[u] = <<>>

\* Whatever is still done or said about a request, it is in flight.
LifeInv ==
    \A u \in Uid : Asked(u) \/ u \in active \/ Rising(u) \/ Arriving(u) => u \in inflight

\* Where a request ends, nothing comes after, and it is at work no more.
EndInv ==
    \A u \in Uid :
        /\ \A j \in DOMAIN fromBack : fromBack[j][u].end # "more" =>
               /\ u \notin active /\ \A k \in DOMAIN fromBack : k > j => fromBack[k][u] = Nothing
               /\ fromBack[j][u].end = "last" => fromBack[j][u].tokens > 0
        /\ \A j \in DOMAIN toFront : u \in Ended(toFront[j]) =>
               u \notin active /\ ~Rising(u) /\ \A k \in DOMAIN toFront : k > j => toFront[k][u] = <<>>

\* An abort goes down behind its request, whose consumer is gone.
AbortInv ==
    LET aborted == About(fromFront, "abort") \cup About(toBack, "abort") \cup dropped
    IN  /\ aborted \subseteq 0..(next - 1) /\ aborted \cap open = {}
        /\ \A queue \in {fromFront, toBack} : \A i, j \in DOMAIN queue :
               queue[i].kind = "abort" /\ queue[j] = Msg("user", queue[i].uid) => j < i
        /\ About(toBack, "abort") \cap About(fromFront, "user") = {}
        /\ \A u \in dropped : ~Asked(u) /\ u \notin active

\* What keeps a decode state alive is at work, has ended, or was aborted.
DecodeInv ==
    \A u \in Uid : Rising(u) \/ decode[u] > 0 => u \in active \/ EndsRising(u) \/ Aborted(u)

\* A seal is set at rest, behind closed doors.
SealInv ==
    /\ stop # "idle" \/ sealed.done => gate = "stopping"
    /\ sealed.done => /\ stop = "idle" /\ inflight = {}
                      /\ sealed.prompts = prompts /\ sealed.completions = completions

\* The messages of a queue follow c replies to a request one by one, and make them d.
Chain(queue, u, c, d) ==
    \E at \in [0..Len(queue) -> Nat] :
        /\ at[0] = c /\ at[Len(queue)] = d
        /\ \A j \in DOMAIN queue : /\ Follows(at[j - 1], queue[j][u])
                                   /\ at[j] = at[j - 1] + Len(queue[j][u])

\* What the scheduler still says to a request of which the tokenizer has said d replies: the
\* admission, unless that was said, before any token; the next piece is piece d.
Upstream(u, d) ==
    /\ decode[u] = (IF d = 0 THEN 0 ELSE d - 1)
    /\ \A j \in DOMAIN fromBack :
           /\ fromBack[j][u].admitted =>
                  /\ d = 0 /\ fromBack[j][u].tokens = 0 /\ fromBack[j][u].end = "more"
                  /\ \A k \in DOMAIN fromBack : k < j => fromBack[k][u] = Nothing
           /\ fromBack[j][u].tokens > 0 =>
                  d > 0 \/ \E k \in DOMAIN fromBack : k < j /\ fromBack[k][u].admitted
    /\ u \in active => d > 0 \/ \E k \in DOMAIN fromBack : fromBack[k][u].admitted

\* So the replies follow each other from the scheduler to the consumer; one that got the
\* terminal reply gets nothing more.
OrderInv ==
    /\ StreamOrdered
    /\ \A u \in open :
           /\ \A i \in DOMAIN story[u] : story[u][i].fin => u \notin inflight
           /\ u \in inflight =>
                 \E d \in Nat : /\ Chain(toFront, u, Len(story[u]), d)
                                /\ EndsArriving(u) \/ Upstream(u, d)
=============================================================================
