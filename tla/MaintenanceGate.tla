--------------------------- MODULE MaintenanceGate ---------------------------
(***************************************************************************)
(* The maintenance gate of the API frontend (api_server.py): the one word  *)
(* that decides whether generations, cache rebuilds, reloads and stops are *)
(* admitted, and everybody who writes it: the handlers of the event loop,  *)
(* the listener that resolves rebuilds, and the supervisor thread of each  *)
(* generation of backend workers (supervisor.py).                          *)
(*                                                                         *)
(* A handler runs to its next await without giving way to another handler, *)
(* but a supervisor thread may run between its check of the gate and its   *)
(* write of it: each check and each write is a step here.  The workers of  *)
(* one generation are modelled as one, with a queue of rebuild requests    *)
(* towards it and a queue of replies back.                                 *)
(***************************************************************************)
EXTENDS Naturals, Sequences, SequencesExt

CONSTANTS
    MaxRebuilds, \* bound: POST /admin/cache/rebuild admitted
    MaxReloads   \* bound: POST /admin/reload admitted

ASSUME BoundsAssumption == MaxRebuilds \in Nat /\ MaxReloads \in Nat

Rebuild == 1..MaxRebuilds
Generation == 0..MaxReloads

VARIABLES
    gate,       \* maintenance_state
    gen,        \* backend_generation
    fatal,      \* fatal_error is set
    hand,       \* the handler of the loop between its check and its write
    rebuilds,   \* rebuild requests dispatched so far
    waiters,    \* rebuild_futures
    sending,    \* their requests in send_one
    asked,      \* rebuild requests on their way to the scheduler
    answers,    \* their results on the way back
    worker,     \* the workers of each generation
    hung,       \* generations whose scheduler lives and does nothing more
    reaped,     \* generations whose processes a reload has taken over to terminate
    supervisor, \* where the supervisor thread of each generation is
    wake,       \* fail_pending_rebuilds has been scheduled on the loop
    exiting,    \* the timer of _exit_after_backend_death runs
    down,       \* the process is gone
    draining,   \* the generation whose gate a waiting prepare-stop closed, or none
    sealed,     \* the same of the stop that sealed the totals, or none
    torn,       \* history: somebody wrote the gate over a state it had not seen
    stale       \* history: the reply of an earlier generation resolved a rebuild

loop == <<hand, rebuilds, waiters, sending, draining, sealed>>
backend == <<asked, answers, worker, hung, reaped>>
threads == <<supervisor, wake, exiting, down>>
history == <<torn, stale>>
vars == <<gate, gen, fatal, loop, backend, threads, history>>

None == MaxReloads + 1

Idle == [at |-> "idle", saw |-> <<"serving", FALSE>>, to |-> "serving"]
Gates == {"loading", "serving", "rebuilding", "failed", "stopping"}
Request == [id : Rebuild, gen : Generation]
Result == [id : Rebuild, gen : Generation, status : {"ok", "busy", "failed"}]

TypeOK ==
    /\ gate \in Gates /\ gen \in Generation /\ fatal \in BOOLEAN
    /\ hand \in [at : {"idle", "rebuild", "reload", "stop", "resolve"}, saw : Gates \X BOOLEAN, to : Gates]
    /\ rebuilds \in 0..MaxRebuilds /\ waiters \subseteq 1..rebuilds /\ sending \subseteq Request
    /\ asked \in Seq(Request) /\ answers \in Seq(Result)
    /\ worker \in [Generation -> {"none", "pending", "loading", "ready", "dead"}]
    /\ reaped \subseteq 0..gen /\ hung \subseteq Generation
    /\ supervisor \in [Generation -> {"none", "drain", "ready", "watch", "died", "fatal", "failed", "done"}]
    /\ {wake, exiting, down, torn, stale} \subseteq BOOLEAN
    /\ {draining, sealed} \subseteq 0..gen \cup {None}

Init ==
    /\ gate = "loading" /\ gen = 0 /\ fatal = FALSE
    /\ hand = Idle /\ rebuilds = 0 /\ waiters = {} /\ sending = {}
    /\ draining = None /\ sealed = None
    /\ asked = <<>> /\ answers = <<>> /\ hung = {} /\ reaped = {}
    /\ worker = [g \in Generation |-> IF g = 0 THEN "loading" ELSE "none"]
    /\ supervisor = [g \in Generation |-> IF g = 0 THEN "drain" ELSE "none"]
    /\ wake = FALSE /\ exiting = FALSE /\ down = FALSE
    /\ torn = FALSE /\ stale = FALSE

----------------------------------------------------------------------------
(* The event loop.                                                         *)

\* The loop is free for another handler.  A callback a thread has scheduled runs before the
\* handlers that come later.
Free == hand = Idle /\ ~wake /\ ~down

\* A handler has decided what to write; a thread may move the gate before it does.
Decide(at, to) == hand' = [at |-> at, saw |-> <<gate, fatal>>, to |-> to]

\* The supervisor thread has found that the gate may open, or that its workers, still the
\* current ones, are dead, and has not yet written so.
Opening == supervisor[gen] = "ready"
Latching == supervisor[gen] \in {"died", "fatal"}

Writes(at) ==
    /\ hand.at = at /\ ~down
    /\ gate' = hand.to
    /\ torn' = (torn \/ <<gate, fatal>> # hand.saw \/ Opening \/ (at = "reload" /\ Latching))
    /\ hand' = Idle

\* MUTANT: a second rebuild is let in behind the first.
RebuildChecksQueueing ==
    /\ Free /\ gate \in {"serving", "rebuilding"} /\ rebuilds < MaxRebuilds
    /\ Decide("rebuild", "rebuilding")
    /\ rebuilds' = rebuilds + 1 /\ waiters' = waiters \cup {rebuilds + 1}
    /\ UNCHANGED <<gate, gen, fatal, sending, draining, sealed, backend, threads, history>>

\* cache_rebuild() and the first lines of dispatch_rebuild().
RebuildChecks ==
    /\ Free /\ gate = "serving" /\ rebuilds < MaxRebuilds
    /\ Decide("rebuild", "rebuilding")
    /\ rebuilds' = rebuilds + 1 /\ waiters' = waiters \cup {rebuilds + 1}
    /\ UNCHANGED <<gate, gen, fatal, sending, draining, sealed, backend, threads, history>>

RebuildSets ==
    /\ Writes("rebuild")
    /\ sending' = sending \cup {[id |-> rebuilds, gen |-> gen]}
    /\ UNCHANGED <<gen, fatal, rebuilds, waiters, draining, sealed, backend, threads, stale>>

RebuildSent(r) ==
    /\ Free /\ r \in sending
    /\ sending' = sending \ {r}
    /\ asked' = Append(asked, r)
    /\ UNCHANGED <<gate, gen, fatal, hand, rebuilds, waiters, draining, sealed,
                   answers, worker, hung, reaped, threads, history>>

\* The request could not be queued: the gate goes back to "serving", whatever it is now.
SendFails(r) ==
    /\ Free /\ r \in sending
    /\ sending' = sending \ {r} /\ waiters' = waiters \ {r.id}
    /\ gate' = "serving" /\ torn' = (torn \/ gate # "rebuilding" \/ r.gen # gen \/ Opening)
    /\ UNCHANGED <<gen, fatal, hand, rebuilds, draining, sealed, backend, threads, stale>>

\* MUTANT: the caller that gives up reopens the gate.
RebuildTimesOutReopening(r) ==
    /\ Free /\ r \in waiters /\ \A s \in sending : s.id # r
    /\ waiters' = waiters \ {r} /\ gate' = "serving"
    /\ UNCHANGED <<gen, fatal, hand, rebuilds, sending, draining, sealed, backend, threads, history>>

\* The HTTP caller gives up.  The scheduler has not, so the gate stays.
RebuildTimesOut(r) ==
    /\ Free /\ r \in waiters /\ \A s \in sending : s.id # r
    /\ waiters' = waiters \ {r}
    /\ UNCHANGED <<gate, gen, fatal, hand, rebuilds, sending, draining, sealed, backend, threads, history>>

\* MUTANT: a reply is believed although the backend has died since.
VerdictOptimistic(m) == IF m.status = "failed" THEN "failed" ELSE "serving"

Verdict(m) == IF fatal \/ m.status = "failed" THEN "failed" ELSE "serving"

\* MUTANT: a reply whose waiter has timed out is thrown away.
ResolveChecksWaited ==
    /\ Free /\ answers # <<>>
    /\ LET m == Head(answers)
       IN  /\ waiters' = waiters \ {m.id}
           /\ IF m.id \in waiters THEN Decide("resolve", Verdict(m)) ELSE UNCHANGED hand
           /\ stale' = (stale \/ m.gen # gen)
    /\ answers' = Tail(answers)
    /\ UNCHANGED <<gate, gen, fatal, rebuilds, sending, draining, sealed, asked, worker, hung, reaped,
                   threads, torn>>

\* _resolve_rebuild(): wakes the waiter, if it still waits, and decides the gate.
ResolveChecks ==
    /\ Free /\ answers # <<>>
    /\ LET m == Head(answers)
       IN  /\ waiters' = waiters \ {m.id}
           /\ Decide("resolve", Verdict(m))
           /\ stale' = (stale \/ m.gen # gen)
    /\ answers' = Tail(answers)
    /\ UNCHANGED <<gate, gen, fatal, rebuilds, sending, draining, sealed, asked, worker, hung, reaped,
                   threads, torn>>

ResolveSets ==
    /\ Writes("resolve")
    /\ UNCHANGED <<gen, fatal, rebuilds, waiters, sending, draining, sealed, backend, threads, stale>>

\* The callback of fail_pending_rebuilds().
WakePending ==
    /\ wake /\ hand = Idle /\ ~down
    /\ wake' = FALSE /\ waiters' = {}
    /\ UNCHANGED <<gate, gen, fatal, hand, rebuilds, sending, draining, sealed, backend,
                   supervisor, exiting, down, history>>

\* reload_backend(), up to its thread.
ReloadChecks ==
    /\ Free /\ gate \in {"serving", "failed"} /\ gen < MaxReloads
    /\ Decide("reload", "loading")
    /\ UNCHANGED <<gate, gen, fatal, rebuilds, waiters, sending, draining, sealed, backend, threads, history>>

ReloadSets ==
    /\ Writes("reload")
    /\ gen' = gen + 1 /\ fatal' = FALSE
    /\ reaped' = reaped \cup {g \in Generation : worker[g] # "none" /\ supervisor[g] # "none"}
    /\ worker' = [worker EXCEPT ![gen + 1] = "pending"]
    /\ UNCHANGED <<rebuilds, waiters, sending, draining, sealed, asked, answers, hung, threads, stale>>

\* prepare_stop_accounting() closes the gate; only a rebuild holds it off.
StopChecks ==
    /\ Free /\ draining = None /\ sealed = None
    /\ gate # "rebuilding"
    /\ Decide("stop", "stopping")
    /\ UNCHANGED <<gate, gen, fatal, rebuilds, waiters, sending, draining, sealed, backend, threads, history>>

StopSets ==
    /\ Writes("stop")
    /\ draining' = gen
    /\ UNCHANGED <<gen, fatal, rebuilds, waiters, sending, sealed, backend, threads, stale>>

\* Everything admitted has ended: the totals are sealed.
StopSeals ==
    /\ Free /\ draining # None
    /\ sealed' = draining /\ draining' = None
    /\ UNCHANGED <<gate, gen, fatal, hand, rebuilds, waiters, sending, backend, threads, history>>

\* AccountingDrainError: the stop failed, and the gate stays closed for the next try.
StopGivesUp ==
    /\ Free /\ draining # None
    /\ draining' = None
    /\ UNCHANGED <<gate, gen, fatal, hand, rebuilds, waiters, sending, sealed, backend, threads, history>>

----------------------------------------------------------------------------
(* The workers.                                                            *)

\* reload_backend()'s thread takes the old workers down, and with them what was on the way
\* through the tokenizer worker, or some of it; of its own generation, this is left running.
Replaces(g, running) ==
    /\ ~down /\ worker[g] = "pending"
    /\ worker' = [h \in Generation |->
           IF h = g THEN running ELSE IF h \in reaped THEN "dead" ELSE worker[h]]
    /\ hung' = hung \ reaped
    /\ asked' \in {<<>>, asked} /\ answers' \in {<<>>, answers}
    /\ UNCHANGED <<gate, gen, fatal, loop, reaped, wake, exiting, down, history>>

\* New workers are started and watched.
Restart(g) ==
    /\ Replaces(g, "loading")
    /\ supervisor' = [supervisor EXCEPT ![g] = "drain"]

\* start_backend() raises, before or after its scheduler was started.  The handler ends with
\* the exception, and what was started is watched by nobody.
RestartFails(g) ==
    /\ \E running \in {"dead", "loading"} : Replaces(g, running)
    /\ UNCHANGED supervisor

Loaded(g) ==
    /\ ~down /\ worker[g] = "loading" /\ g \notin hung
    /\ worker' = [worker EXCEPT ![g] = "ready"]
    /\ UNCHANGED <<gate, gen, fatal, loop, asked, answers, hung, reaped, threads, history>>

Dies(g) ==
    /\ ~down /\ worker[g] \in {"loading", "ready"}
    /\ worker' = [worker EXCEPT ![g] = "dead"] /\ hung' = hung \ {g}
    /\ UNCHANGED <<gate, gen, fatal, loop, asked, answers, reaped, threads, history>>

\* The scheduler wedges: its process stays alive.
Hangs(g) ==
    /\ ~down /\ worker[g] \in {"loading", "ready"} /\ g \notin hung
    /\ hung' = hung \cup {g}
    /\ UNCHANGED <<gate, gen, fatal, loop, asked, answers, worker, reaped, threads, history>>

\* _handle_cache_rebuild(): nothing to rebuild, a request in flight, or done.
Answers(g) ==
    /\ ~down /\ worker[g] = "ready" /\ g \notin hung /\ asked # <<>>
    /\ \E status \in {"ok", "busy", "failed"} :
           answers' = Append(answers, [id |-> Head(asked).id, gen |-> Head(asked).gen, status |-> status])
    /\ asked' = Tail(asked)
    /\ UNCHANGED <<gate, gen, fatal, loop, worker, hung, reaped, threads, history>>

----------------------------------------------------------------------------
(* The supervisor thread of a generation.                                  *)

Supervises(g, from, to) ==
    /\ ~down /\ supervisor[g] = from
    /\ supervisor' = [supervisor EXCEPT ![g] = to]

\* MUTANT: the supervisor opens the gate whatever has become of it.
ReadyChecksOnce(g) ==
    /\ Supervises(g, "drain", IF g = gen THEN "ready" ELSE "watch")
    /\ worker[g] = "ready"
    /\ UNCHANGED <<gate, gen, fatal, loop, backend, wake, exiting, down, history>>

\* drain_ready() returns; _on_ready() checks that nothing else has moved the gate, ...
ReadyChecks(g) ==
    /\ Supervises(g, "drain", IF g = gen /\ gate = "loading" THEN "ready" ELSE "watch")
    /\ worker[g] = "ready"
    /\ UNCHANGED <<gate, gen, fatal, loop, backend, wake, exiting, down, history>>

\* ... and opens it.
ReadySets(g) ==
    /\ Supervises(g, "ready", "watch")
    /\ gate' = "serving"
    /\ UNCHANGED <<gen, fatal, loop, backend, wake, exiting, down, history>>

\* The workers of this generation are dead: _on_failure() checks that it is the current one.
SeesDeath(g) ==
    /\ worker[g] = "dead"
    /\ \E from \in {"drain", "watch"} : Supervises(g, from, IF g = gen THEN "died" ELSE "done")
    /\ UNCHANGED <<gate, gen, fatal, loop, backend, wake, exiting, down, history>>

LatchesFatal(g) ==
    /\ Supervises(g, "died", "fatal")
    /\ fatal' = TRUE
    /\ UNCHANGED <<gate, gen, loop, backend, wake, exiting, down, history>>

LatchesFailed(g) ==
    /\ Supervises(g, "fatal", "failed")
    /\ gate' = "failed"
    /\ UNCHANGED <<gen, fatal, loop, backend, wake, exiting, down, history>>

WakesWaiters(g) ==
    /\ Supervises(g, "failed", "done")
    /\ wake' = TRUE /\ exiting' = TRUE
    /\ UNCHANGED <<gate, gen, fatal, loop, backend, down, history>>

\* The grace is over and the process stops itself.  Under the interactive shell it never does.
Exits ==
    /\ exiting /\ ~down
    /\ down' = TRUE
    /\ UNCHANGED <<gate, gen, fatal, loop, backend, supervisor, wake, exiting, history>>

----------------------------------------------------------------------------
Writing == RebuildSets \/ ResolveSets \/ ReloadSets \/ StopSets

Sending == \E r \in Request : RebuildSent(r) \/ SendFails(r)

Supervisor(g) ==
    \/ ReadyChecks(g) \/ ReadySets(g) \/ SeesDeath(g)
    \/ LatchesFatal(g) \/ LatchesFailed(g) \/ WakesWaiters(g)

Working(g) == Restart(g) \/ RestartFails(g) \/ Loaded(g) \/ Answers(g)

Next ==
    \/ RebuildChecks \/ ReloadChecks \/ StopChecks \/ StopSeals \/ StopGivesUp
    \/ Writing \/ Sending \/ ResolveChecks \/ WakePending \/ Exits
    \/ \E r \in Rebuild : RebuildTimesOut(r)
    \/ \E g \in Generation : Supervisor(g) \/ Working(g) \/ Dies(g) \/ Hangs(g)

\* A handler that runs gets to its end, and the loop takes what is ready in turn, so that no
\* stream of requests keeps the listener, a send or a callback from theirs.  The threads run,
\* and workers that live and do not hang load and answer; a relaunch gets to its end or fails.
\* No administrator has to ask for anything, nothing has to die, and no waiter has a timeout.
Fairness ==
    /\ WF_vars(Writing) /\ SF_vars(Sending) /\ SF_vars(ResolveChecks) /\ SF_vars(WakePending)
    /\ \A g \in Generation : WF_vars(Supervisor(g)) /\ WF_vars(Working(g))

Spec == Init /\ [][Next]_vars /\ Fairness

----------------------------------------------------------------------------
(* Properties.  Two excuses are named.  "torn": the gate is a plain        *)
(* attribute, checked and written by threads without a lock.  "stale": a   *)
(* reply carries no generation.                                            *)

\* A worker death outranks everything (the comments of _resolve_rebuild): once it is latched
\* the server refuses work until a reload.
FatalLatched ==
    fatal /\ (\A g \in Generation : supervisor[g] # "fatal") /\ ~torn
        => gate \in {"failed", "stopping"}

\* While the gate is open, the workers of this generation have loaded and its supervisor has
\* said so; a reload never opens for the workers it is about to replace.
ServingReady ==
    gate = "serving" /\ ~torn /\ ~stale =>
        worker[gen] \in {"ready", "dead"} /\ supervisor[gen] \notin {"none", "drain", "ready"}

\* A sealed engine admits nothing more: its totals are final until the workers are replaced.
SealedStaysClosed ==
    (sealed = gen \/ draining = gen) /\ ~torn /\ ~stale => gate # "serving"

\* The gate moved only under somebody who looked, and replies are of their generation.
Clean == ~torn /\ ~stale

\* The workers have loaded and the supervisor has said so.
Served == worker[gen] \in {"ready", "dead"} /\ supervisor[gen] \notin {"none", "drain", "ready"}

\* The rebuilds of this generation that are on their way, each in one place.
Current(q) == {i \in DOMAIN q : q[i].gen = gen}
Sent == {r \in sending : r.gen = gen}
Resolving == hand.at = "resolve"
Underway == Sent # {} \/ Current(asked) # {} \/ Current(answers) # {} \/ Resolving

AtMostOne(S) == \A x, y \in S : x = y

OneUnderway ==
    /\ AtMostOne(Sent) /\ AtMostOne(Current(asked)) /\ AtMostOne(Current(answers))
    /\ Sent # {} => Current(asked) = {} /\ Current(answers) = {} /\ ~Resolving
    /\ Current(asked) # {} => Current(answers) = {} /\ ~Resolving
    /\ Current(answers) # {} => ~Resolving

\* A rebuild of this generation was admitted by an open gate, which it holds at "rebuilding"
\* until its reply or a death; there is one at most.  So a reply needs no number: the listener
\* opens the gate for whichever comes.
OneRebuild ==
    /\ Clean /\ Underway => Served
    /\ Clean /\ Underway /\ ~fatal => gate = "rebuilding" /\ OneUnderway

----------------------------------------------------------------------------
(* What makes them inductive (the proofs are in MaintenanceGateProofs).    *)

\* A handler between its check and its write has seen what the write needs.
HandInv ==
    /\ hand.at = "rebuild" => hand.saw[1] = "serving" /\ hand.to = "rebuilding" /\ rebuilds > 0
    /\ hand.at = "reload" => hand.saw[1] \in {"serving", "failed"} /\ hand.to = "loading"
                              /\ gen < MaxReloads
    /\ hand.at = "stop" => hand.saw[1] # "rebuilding" /\ hand.to = "stopping"
    /\ hand.at = "resolve" => hand.to \in {"serving", "failed"} /\ (hand.saw[2] => hand.to = "failed")

\* Workers and threads exist up to the current generation; past its wait for the workers a
\* supervisor has seen them loaded or dead.
LifeInv ==
    /\ \A g \in Generation : g > gen => worker[g] = "none"
    /\ \A g \in Generation : worker[g] = "none" => supervisor[g] = "none"
    /\ \A g \in Generation :
          supervisor[g] \notin {"none", "drain"} => worker[g] \in {"ready", "dead"}

\* Only the supervisor of the current generation is about to write, and after a death it has
\* latched it.
ThreadInv ==
    ~torn => /\ \A g \in Generation : supervisor[g] \in {"ready", "died", "fatal"} => g = gen
             /\ fatal => supervisor[gen] \in {"fatal", "failed", "done"}
             /\ supervisor[gen] = "fatal" => fatal
             /\ supervisor[gen] = "ready" => gate = "loading"

\* Nothing on its way is of a later generation.
PastInv ==
    /\ \A r \in sending : r.gen <= gen
    /\ \A i \in DOMAIN asked : asked[i].gen <= gen
    /\ \A i \in DOMAIN answers : answers[i].gen <= gen

\* A stop that has closed the gate of this generation finds it closed, or failed.
StopInv == Clean /\ gen \in {sealed, draining} => gate \in {"stopping", "failed"}

----------------------------------------------------------------------------
(* Liveness.                                                               *)

\* Nobody is left to open the gate: the scheduler hangs, or the relaunch failed and what it
\* left behind has no supervisor.
Stuck ==
    \/ gen \in hung
    \/ worker[gen] \notin {"none", "pending"} /\ supervisor[gen] = "none"

\* dispatch_rebuild: a rebuild cannot wedge the server in "rebuilding", also when the caller
\* has timed out or the workers die under it; a boot, or a reload that got its workers
\* started, ends as well.  Not so when the gate is Stuck: a reload is refused then too.
GateReopens ==
    \A busy \in {"rebuilding", "loading"} :
        (gate = busy) ~> (gate # busy \/ Stuck \/ torn \/ stale \/ down)

\* Whoever waits for a rebuild hears of it, without the help of its own timeout, unless the
\* gate is Stuck.
WaiterWakes ==
    \A r \in Rebuild : (r \in waiters) ~> (r \notin waiters \/ Stuck \/ torn \/ stale \/ down)

\* While the gate is not Stuck, neither it nor a caller waits for ever.
NoWedge == GateReopens /\ WaiterWakes

=============================================================================
