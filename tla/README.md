# A TLA+ model of maxtoken

maxtoken serves language models on Apple silicon. This directory holds TLA+ modules
translated from its Python source (`src/python/maxtoken`), TLC configurations that
check them on small instances, and proofs for the TLA+ proof system.

## 1. The system

Four kinds of processes, connected by ZMQ queues that are FIFO per sender:

    client --HTTP--> API frontend --> tokenizer/detokenizer --> MLX scheduler
                        ^                    |      ^                |   \
                        +---- replies -------+      +--- tokens -----+    SSD writer thread
    mt daemon --spawns, watches, stops--> mt serve (all of the above)

| Component | Source | State | Operations | Talks to |
|---|---|---|---|---|
| SSD prefix tier | `mlx_backend/prefix_disk.py` | blocks with ready/pending flags, write queue, backlog counter, window of recurrent states, manifest and files | observe, harvest, done, lookup, restore, flush, close; writer loop; load/wipe | scheduler calls it; its own writer thread; the file system |
| RAM prefix store | `mlx_backend/prefix_cache.py` | list of snapshots with an LRU time | insert, evict, lookup, restore | scheduler |
| Expert slot cache | `mlx_backend/offload.py` | per layer: expert-to-slot LRU, device `lut`/`owner`, weights | lookup, assign, install, speculative forward, commit, resize, rebalance | scheduler, the model's forward pass |
| MLX scheduler | `mlx_backend/worker.py` | active requests, batch generator, window ceiling | admit, step, finish, abort, rebuild, idle rebalance | all of the above, tokenizer queue |
| Tokenizer worker | `tokenizer/server.py`, `detokenize.py` | decode state per uid | drain, tokenize, detokenize in waves, discard | frontend, scheduler |
| API frontend | `server/api_server.py` | ack queue and event per uid, maintenance gate, rebuild futures, backend generation | new_user, listen, wait_for_ack, abort_user, rebuild, reload | clients, tokenizer, supervisor threads |
| Supervisor | `server/supervisor.py` | one thread per backend generation | ready drain, death watch | frontend callbacks |
| Stop accounting | `server/accounting.py`, `stats.py` | in-flight uids, sealed totals | prepare_stop | frontend, daemon |
| Daemon | `daemon/serve_manager.py`, `accounting.py`, `pidfile.py` | child, lifecycle flags, state file, receipt outbox | start, stop, switch, shutdown, readopt, monitor/reap, auto-restart | the serve process |

What is hard in it, component by component, and what makes each correct:

* **SSD tier.** Two threads share the block table, the file is written outside the
  lock, a process can die between any two steps. Correct means: a pending flag always
  has its job; the backlog counter is exact; the budget holds; what is offered can be
  read or a queued write will make it so; after a drain a crash loses nothing; nothing
  stays pending and flush() returns.
* **RAM store.** Eviction against a budget that one entry may exceed; the longest match
  subject to what can be trimmed. Correct means: the best usable prefix is returned.
* **Expert cache.** A token is computed speculatively through `lut`, checked afterwards,
  and redone after installing what missed, while later layers were routed on garbage.
  Correct means: an emitted token only used the right weights; `lut`/`owner` agree with
  the LRU table; the redo loop ends within one attempt per layer plus one; a resize
  keeps the most recently used experts.
* **Request lifecycle** (frontend, tokenizer, scheduler). Aborts race the tokens of the
  same request; a drained batch is regrouped by message type; one failed step ends many
  requests. Correct means: one terminal reply per admitted request, no state left
  behind, every sampled token counted before the barrier of a stop.
* **Maintenance gate** (frontend, supervisor). Rebuilds that time out and answer late,
  reloads that replace the workers, callbacks from other threads. Correct means: the
  gate is open only for a live, ready, idle backend and never again after a sealed stop.
* **Daemon.** Calls, a monitor per child and auto-restarts interleave; the daemon may
  die at any point and re-adopts. Correct means: at most one serve; a running serve is
  always recorded; a stopped one is not resurrected; its receipt is durable before it
  is signalled.

`PROJECT.json` lists every hazard at its line, with the property that covers it. Some it
lists without one: there a property names the case as its exception, or the code has no
answer to it, and the note says which.

## 2. How the project is built

Eight modules model the code; each was chosen for the hazards its component carries.

| Module | Component | Composed with | Proofs |
|---|---|---|---|
| `PrefixDisk` | SSD tier and its writer thread, crashes | `DurableCache`, its abstract specification, by `INSTANCE` | `PrefixDiskProofs` |
| `ExpertOffload` | slot cache, speculate-verify-redo | | `ExpertTableProofs`, `ExpertOffloadProofs` |
| `ServeManager` | daemon, its outbox, state file and restart | | `ServeManagerProofs` |
| `LogStream` | log ring and SSE stream of the daemon | | `LogStreamProofs` |
| `Requests` | frontend, tokenizer worker, scheduler, stop accounting over four queues | the three processes and the barrier in one module | `RequestsProofs` |
| `MaintenanceGate` | gate of the frontend, supervisor threads, workers | frontend, supervisor and scheduler in one module | `MaintenanceGateProofs` |
| `PrefixStore`, `SlotShares` | RAM store and slot shares, as operators | used by `MlxMemory` | `MlxMemoryProofs` |
| `MlxMemory` | what the scheduler keeps between requests | extends `PrefixStore` and `SlotShares` | `MlxMemoryProofs` |

`MCPrefixDisk`, `MCExpertOffload` and `MCMlxMemory` hold the definitions their
configurations need; the other modules are checked as they are. A property of a run has a
mutant: a definition of the model, changed as a plausible bug would change the code, under
which TLC finds the property violated.

What would come next: the speculative decoding with a draft model as a protocol of caches
that are rolled back; several tokenizer workers in `Requests`.

## 3. The SSD tier: `PrefixDisk`

### State and actions

`known`, `kvReady`, `recReady`, `kvPending`, `recPending` are `self.blocks`, one set per
flag of `_Block`; `used` its LRU stamps, over a `clock` that may tie and never goes
back. `queue`, `pendingBytes`, `window`, `disabled`, `snap` are the other attributes.
`pc`, `after`, `scope`, `todo` say where the scheduler thread is in the operation it
runs; `wpc`, `wjob`, `wsize`, `dirty`, `image` say the same of the writer. `kvFile`,
`recFile` and `manifest` are the SSD.

| Code | Actions |
|---|---|
| `observe` / `_observe` | `Observe`, `ObserveFails` (decides what is missing, flushes the snapshot before, leaves its own in flight) |
| `finish` in `_flush_snapshot` | `BeginHarvest`, then per job `Evict`*, `Enqueue` or `SkipWrite`, then `EndHarvest`; `FlushFails` |
| `done` | `Done`, `WindowTake`, then `Evict`/`Enqueue`/`SkipWrite`, `WindowEnd` |
| `lookup`, `restore` | `Lookup`, then `RestoreOk` or `RestoreFails` (the lock is free in between) |
| `flush`, `close` | `Flush`, `PutSync`; `Close` |
| `_write_loop`, `_write_job` | `GetWrite`, `GetManifest`, `GetMarker`, `WriteFile`, `Commit`, `CheckLater` |
| `_persist` | `PersistRead` (under the lock), `Publish` (outside) |
| `__init__`, `_load_manifest`, `_wipe` | `Restart` with `Load` or `Wipe` |

The lock is `Locked`: the scheduler holds it from `BeginHarvest` to `EndHarvest` and
while `done` makes room; the writer's `Commit` and `PersistRead` wait for it. Every other
critical section is one action.

Abstractions. A hash stands for its contents; files of a kind have one size; a file
appears whole (`os.replace`), `.tmp` leftovers are not tracked. Of two equal stamps at
one depth the code takes the smaller hash: the model takes either. `cut_points` and
`restore_blocks` are abstracted: any block boundary of a prompt may be observed, in any
order. The writer's idle turn does nothing (it never waits on an empty queue with unsaved
changes, `SaveInv`) and is left out. A flush or close that times out is a scheduler that
goes on while the writer works: only shutdown does it, so it is covered by a crash. A
second process on the same directory stays disabled and does nothing.

### Runs

| Run | Instance | What it shows |
|---|---|---|
| `disk_kv` | two prompts with a common first block, every fault | `TypeOK`; `BacklogExact`: the counter is the payload outstanding; `ReadyHeals`: what lookup takes for readable is on disk or will be |
| `disk_rec` | recurrent layout, snapshots as big as the budget allows, headers counted, failed writes and crashes | `PendingBacked`, `BudgetHeld`, `RestDurable`, and `ImplementsDurable`: the store implements `DurableCache` |
| `disk_live` | one block, failed writes and reads, fairness | `ReadyGetsSaved`; `WritesEnd`: every pending flag is cleared and every flush returns |

Bounds. `MaxClock` saturates the clock. It is 0 in all three runs: every stamp ties and any
block that may be evicted may be the next victim. That includes the orders the code takes,
and more; nothing that depends on recency is checked here. `MaxQueue` holds off a new
*lookup*, and nothing else, while that many jobs are queued (each restore appends a marker
that nothing else bounds). It is 1: a lookup starts on an empty queue, though the writer may
still be at work on the job it took last. The backlog itself is
bounded by `MaxPending` as in the code. Two blocks of one prompt are needed for a chain, a
third for a block beside it. In `disk_kv` and `disk_rec` the budget fits fewer blocks than
there are, so these evict; in `disk_live`, with its one block, nothing has to go. `ReadyHeals` is
checked for the KV-only layout: with recurrent layers a block dropped after a snapshot of
its recurrent state was dispatched comes back without KV, and an older KV job still in
the writer's hands can then mark it ready without a file. The next restore drops it.

Fairness. `InOperation` is weakly fair: a scheduler thread finishes the call it is in.
Whether it calls again is left open. `Writer` is weakly fair: the thread loops for ever.
`Commit` and `PersistRead` are strongly fair: they wait for a lock which the scheduler
releases after every harvest, and `PersistRead` stands for the 5 s rule too: a loop that
reaches the check again and again finds it true in the end.

### Proofs

`PrefixDiskProofs` proves, for every set of blocks and prompts, every size, budget and fault
set satisfying the module's assumptions:

* `TypeCorrect`: `TypeOK` is inductive as it stands.
* `PendingAlwaysBacked`: `PendingBacked` is inductive together with `TypeOK`; the lemmas
  about `Outstanding` say which jobs a queue step keeps.
* `BacklogIsExact`: inductive with `TypeOK`. It needs the finiteness of the queued
  positions of a kind, and that appending or taking a job moves that number by one.
* `BudgetIsHeld`: `BudgetHeld` alone is not inductive. A restart takes over what the
  manifest lists, so the manifest, and the image about to replace it, must fit the budget
  (`BudgetInv`). An enqueue is safe because `_make_room` counts at least the payload; a
  commit moves bytes from the backlog to the store; everything else only drops.
* `SaveInvariant`, and from it `RestIsDurable`. `SaveInv` says that a writer with nothing
  unsaved has saved every ready block: a block only becomes ready in a `Commit`, which
  sets `dirty`. Between `PersistRead` and `Publish` the scheduler can drop blocks but
  nothing can become ready.
* `ReadyAlwaysHeals`, under the assumption of its run, `~NeedsRec` (with recurrent layers it
  fails, see the bounds). A block can be dropped while its file is written, and be known again
  at the commit, without a file: `HealInv` says that it then has a second job in the queue,
  because without recurrent layers (`KvOnly`) only a KV job makes a block known. TLC checked
  `HealInv` on the instance of `disk_kv` before.
* `Refinement`: a step of the store is a step of `DurableCache` or a stutter. The abstract
  cache has three sets: the blocks it offers (`kvReady`), those the process is writing
  (`Writing`, the KV jobs outstanding) and those saved (the manifest's). A block is only
  offered by finishing a write, and a new process starts with no write and offers only
  what was saved; `SaveInv` gives that a save leaves out nothing offered. A block may be
  written twice, so a finished write may leave it in `Writing`; and one dropped while
  written finishes without being offered.

Model-checked only: the liveness properties.


### Where code and documentation differ

None of these is a property of a run: the code does not promise what its comments say, and
the model, which follows the code, shows the comments wrong with any instance that evicts,
harvests or crashes.

* The module docstring (39-41) says eviction drops a chain's tail before its head.
  `finish()` reads the clock once per block (694), so a head is older than its tail, and is
  dropped first as soon as the clock moved in between.
* `observe()` writes "whatever the store lacks" (595-598): but what is missing is computed
  (619) before the snapshot of the previous boundary is harvested (640), so the blocks of
  that snapshot are written twice. Flags and bytes stay right (`BacklogExact`).
* `--prefix-cache-disk-gb` is the disk budget (`server/args.py:435`). A file in place but
  not in a manifest when the process dies is never read back and never deleted (358-369);
  the next process fills the whole budget beside it.

Also observed, without a run: `known_blocks` speaks of blocks "whose KV is on disk", which
a block whose second write is still queued after a failed restore is not; `close()` does
not harvest the snapshot dispatched last, though shutdown's comment says queued snapshots
are drained; a manifest that cannot be written clears the dirty flag. `total_bytes()`
counts file headers while room is made for payloads: the total may pass the budget by
the headers of the files committed since room was last made.

## 4. Expert offload: `ExpertOffload`

### State and actions

`cache[l]` is the `SlotCache` of layer l with its `LruTracker`: `slots`, `slotOf` and the
order `older` of its table (a set of pairs, less recently used first), the device arrays
`lut` and `owner`, and `weight`, the expert whose weights each row of the buffers really
holds. `pc`, `layer`, `attempt` say where the scheduler thread is; `want` is what the step
under way routes to in each layer when every weight is right, `seen` what the speculative
forward routed to (`state.pending`). `sound` is a history variable: the forward used the
weights of the experts it routed to, so far.

| Code | Actions and operators |
|---|---|
| `LruTracker.lookup`, `assign`, `most_recent`, `reset` | `Ordered`/`Touched`, `SlotFor`, `After` |
| `SlotCache.acquire`, `install`, `touch`, the two `_admit_from_*` | `Accessed`: one definition, since each does a lookup, assigns and scatters |
| `_alloc`, `resize` | `Fresh`, `Resized` |
| `OffloadSwitchGLU.__call__` when the experts fit | `ServeInstalled` (`inline` are the misses the admission filter gives no slot) |
| `_forward_banked`, `_forward_streamed` | `ServeBanked`, `ServeStreamed` |
| `_offload_prefill`, the sync branch of decode | `BeginServe`, one `Serve*` per layer, `EndServe`; `ServeFails` |
| `_offload_generate` | `BeginStep`; per attempt one `Speculate` per layer and `Evaluate`, then one `CommitHit` or `CommitMiss` per layer (`commit_token`), then `Emit`, `Redo` or `Diverge`; `CommitFails` |
| `_handle_cache_rebuild`, `_maybe_rebalance`, `run_forever` | `Rebuild`, `Rebalance`, `Idle` |

Abstractions. A forward is the set of experts each layer routes to. A layer routes as it
should when every layer below it used the right weights, and to anything otherwise: that
is all a wrong weight can do to the loop. The frequency order of an admission is any
order. Which misses of a decode step the admission filter serves inline is left open, and
so are the shares of a rebalance: any distribution that conserves the total, respects the
floor and caps a layer at the number of experts; when every layer has room for all its
experts, slots beyond them are given up. When one batch is larger than the layer,
`assign` gives a slot to two experts of the batch and the scatters write that row twice;
their order is not defined and may differ from array to array (`writes`). Read-ahead is
left out: it changes when bytes are read, not which. The choice between speculation and
the sync mode (`redo_ema`) is left open. `Rebuild` and `Rebalance` need an idle scheduler,
as `_handle_cache_rebuild` and `run_forever` check.

### Runs

| Run | Instance | What it shows |
|---|---|---|
| `expert_fits` | 2 layers, 3 experts, 2 per token, 2 slots; rebuilds to 2 and 3 slots a layer; admission filter, failed reads | `TypeOK`; `Coherent`: the host's table and the device agree; `KeptSound`: an emitted token and every layer of a prefill used the right weights; `Converges` |
| `expert_shrunk` | 1 layer, 4 experts, 3 per token, rebuilt from 3 slots to 2 | `NoSharedSlot`: also when a batch evicts part of itself |
| `expert_diverges` | as `expert_fits`, with a rebuild to 1 slot a layer | violation of `Converges` |

Bounds. With two layers a first forward routes the second on garbage; its miss evicts
with the garbage and the next run must repair it, which is the case the loop is about. One
expert more than there are slots makes every routing to a new expert evict; three experts
and two slots leave exactly one way to evict wrongly. The state space is closed: nothing is
cut off by a constraint. No fairness is assumed: `Converges` is a safety property, the loop
counts its attempts.

### Proofs

For every number of layers, experts and slots satisfying `ShapeAssumption`:

* `ExpertTableProofs` is about one table. A batch orders the experts by rank, oldest
  first; the table keeps the last `slots` ranks; and `assign` gives the expert of rank n
  the slot of rank n modulo `slots`: the next free one while there are some, then that of
  the expert it evicts (`SlotFollowsRank`). Ranks that stay are less than `slots` apart, so
  their slots differ (`StaySlots`, `AccessedTable`). An access whose misses fit the slots
  writes no slot twice, and leaves table, `lut`, `owner` and weights in agreement
  (`AccessedAgrees`); a resize does so in any case (`ResizedKeeps`).
* `TypeCorrect` and `SlotsNeverShared` follow for every step from `Tables`, the conjunction
  of `Table` over the layers. They need no assumption about sizes: they also hold where
  the redo loop diverges.
* `Coherence`, `KeptOutputsSound` and `RedoLoopConverges` assume `Fits`: the initial slots,
  the floor of a rebalance and the share of every rebuild are at least the experts of one
  token. The code guarantees it at start-up for models that route to at most 16 experts (16
  slots, and the same floor of a rebalance), not in a rebuild, which is the
  finding of `expert_diverges`. `Room` carries it through rebuilds and rebalances. The
  invariant is `Inv`; `Running` and `Committing` are the heart of it: when attempt a begins,
  the layers before a hold the experts they should route to, so the forward is right up
  to layer a, layer a routes as it should although its own experts may be missing, and the
  commit leaves them resident for attempt a + 1. Garbage routed by later layers is
  installed in those layers only. Attempt `NumLayers + 1` finds every layer right, and its
  commit cannot miss. Conversely the owner check does not lie (`ValidIsRight`), because an
  owner always names what the row holds.

Each theorem is about a property a run checks; `Inv` itself was checked by TLC on the
instance of `expert_fits` before it was proved. Model-checked only: nothing of this
module's passing runs.

### Where code and documentation differ

* `Converges`. The `else` of the redo loop is commented as unreachable, "each round
  installs at least one layer", and `commit_token` promises an all-hit re-run. A rebuild
  may leave a layer as little as one slot; below the number of experts a token routes to,
  `acquire` evicts experts of its own batch and no run is all-hit: every request fails at
  its first decode step, until the cache is rebuilt again. Start-up enforces 16 slots,
  and `_clamp_draft_k` keeps a draft window within the slots for this very reason.
* `resize` promises that the most recently used experts survive (22, 441). It re-inserts
  them most recent first (443, 448), which turns their order around (`Resized`): of a
  shrink followed by another, or by a miss, the expert used last is the first victim. No
  property of a run speaks of it.

Also observed, without a run: on the instance of `expert_diverges`, `KeptSound` fails too.
The batch that evicted part of itself leaves a row of `owner` and the row of the weights
to whichever duplicate the scatter wrote last; if they differ, the owner check passes on
the wrong weights. And with a draft model `_clamp_draft_k` never raises the window again
after a rebuild to more slots.

## 5. The daemon: `ServeManager`

### State and actions

A serve is a generation, the n-th process spawned; its number stands for the pid and start
time that identify it. `child`, `starting`, `stopping`, `stopRequested`,
`shutdownRequested` are the attributes of `ServeManager`; `durable` and `lastStats` its two
dictionaries of accounting; `file` is `serve.json`, `outbox` the receipts on disk, `proc`
the processes. `call[t]` is the lifecycle transaction of thread t: the pool's one worker
(HTTP calls), the exit hook, and one auto-restart thread per serve. `mon[s]` is where the
monitor of serve s is. `quiet` and `overtaken` are history variables.

| Code | Actions |
|---|---|
| `start` / `_start` | `ClientCalls` with `StartGate`, `Spawn` or `SpawnFails`, `Save` or `SaveRaises` |
| `stop`, `shutdown` / `_stop` | `ClientCalls` or `HookStops` with `StopGate`, `Prepare` or `PrepareRaises`, `Signal`, `Escalate`, `GiveUp` or `Stopped` |
| `switch` | a stop whose end is `SwitchStarts` |
| `_monitor`, `_reap` | `ReapReads`, `ReapWrites` or `ReapWriteFails`, `ReapForgets`, `ReapClears`, `ReapWakes`, `ReapDecides` |
| `_restart_async` | `AutoStarts`, then as a start |
| `engine_stats`, `observe_accounting` | `Observe` |
| `readopt`; the daemon's death or `detach` | `Boot`; `DaemonDies` |
| the process | `ServeDies` |

A step is a section the code runs under `_cond`, or one spawn, save, receipt, signal or
wait. The lifecycle lock is `LockFree`: a transaction begins when nobody else is in one.
The daemon may die at any step and comes back with `Boot`; the serve outlives it. The
totals a receipt carries are abstracted to the serve they came from.

### Run `serve_manager`

Two serves, two client calls, two daemon lives, auto-restart and stop-on-exit on, the state
file and the outbox may fail. A switch needs two serves, an auto-restart after a stop two
calls, a re-adoption a second life: each hazard of section 1 happens within these bounds.
About 316,000 states.

* `OneServe`: in the first daemon's life at most one serve runs, and it is the child.
* `StopHolds`: once a stop has returned nothing runs until a client starts something,
  whatever auto-restart was decided before; after a shutdown nothing runs again.
* `ReceiptsHold`: no signal before a receipt; a serve whose totals were sealed is never
  accounted for as a crash as well.
* `Recorded`: a watched child is on record for the next daemon, except when a start came
  between the two steps in which the monitor of a crashed serve forgets the child
  (`ReapForgets`) and clears the file (`ReapClears`): then the new serve's record goes too.
  That race is in the code (serve_manager.py:786-800); `overtaken` names it.
* `NothingStuck`: every call ends and every dead serve is forgotten.

Fairness. The thread that holds the lock, each monitor and each thread that waits for the
lock run on: they are Python threads that block only on waits with a timeout. Nobody is
obliged to call, and no serve to die: `GiveUp` ends the wait after SIGKILL.

The restriction to the first life in `OneServe`, and in parts of the others, is the code's:
a serve whose record was lost (a failed save, a death of the daemon between spawn and save,
the race above) is unknown to the next daemon, and what was made durable is remembered in
memory only.

### Proofs

`ServeManagerProofs` proves `TypeOK`, `OneServe`, `StopHolds`, `ReceiptsHold` and
`Recorded` for every number of serves, calls and daemon lives and every choice of the
switches. The invariant is built in layers:

* `TargetInv`: a stop past its gate names a serve.
* `LifeInv`: a dead daemon has no threads; what the monitors know of a serve (past its
  `wait`) is only true of a dead one; and the auto-restart thread of a serve runs only when
  that serve's monitor is through, so a later decision does not overwrite it.
* `LockInv`: at most one thread is inside a transaction.
* `ChildInv`: ties the fields to the transaction that owns them. A stop under way has the
  child it took or none; a spawn under way has none; `stopping` and `starting` are only
  set while such a transaction runs, so that `_start`'s test `child is not None and not
  stopping` is, at the gate, the same as `child is not None`; a reaped serve is not the
  child. Each part needs the others: a stop that ends finds its target reaped, hence no
  child, hence `stopping` already cleared by the monitor.
* `OneServe` is inductive with these: a spawn finds no child, hence nobody alive.
* `StopInv`: a stop that has returned leaves a latch, and an auto-restart that passes the
  gate has seen none. While a stop waits for its child `quiet` is "no": a failed shutdown,
  which reopens the latch, is never one after a successful stop.
* `RecordInv` and `ReceiptInv`: a monitor about to clear the file faces no child or an
  overtaken one; a crash receipt is of a dead serve and a sealed one is remembered as long
  as the daemon lives, so neither the stop nor the monitor contradicts the other's.

The lemma `Moves` splits the actions by what they do to the threads (one passes a gate, the
holder of the lock works, one comes to wait, all end, none moves), so that each layer is
shown for these kinds of step and not for every action. Model-checked only:
`NothingStuck`.

### Where code and documentation differ

Also observed, without a run: `observe_accounting` is documented to remember "the latest
validated totals for the current child" (422-427), but a poll asks whatever serve is on the
port, or takes the probe's cached answer, and credits it to the child it finds when it gets
there: after a switch the totals of the old serve can end in the crash receipt of the new
one (`Observe` allows it). A save that fails leaves a serve with no record and no monitor
(321-323): it runs, is stopped only by the next stop, and its death goes unnoticed. An
auto-restart that waits for the lock while a client starts another model is refused (the
serve is occupied), but one that gets the lock after that serve has crashed too brings the
old model back. A stop whose child was forgotten but whose file is not yet cleared returns
at once, before the clear.

## 6. The log stream: `LogStream`

`next` and the ring (`Held`) are `LogRing`; `hand[w]` is a record a writer has numbered
under the ring's lock and not yet pushed after it; `ready` are `call_soon_threadsafe`
callbacks; `pc`, `since`, `boundary`, `backlog`, `after`, `q` and `drop` are the locals of
one SSE handler. `seen`, `told` and `swapped` are history.

| Code | Actions |
|---|---|
| `LogRing.append` | `AppendRecord` (under the lock), `Push` (after it) |
| `_log_stream`: subscribe, `since()` | `Connect`, `Snapshot` |
| the generator's replay with its gap frames | `Replay` per frame, `GoesLive` |
| `_put` | `Put` |
| the live loop | `Deliver`, `Skip` |
| the client goes, `finally` | `Disconnect` |

Run `log_stream`: two writers, a ring and a queue of two records, five records, two
connections: the ring wraps, the queue overflows, the client resumes after the last record
it saw, and two writers push in the wrong order. About 267,000 states.

* `LossAnnounced`: below any record the client got, every record from its cursor on was
  delivered or covered by a gap frame, except those two writers swapped.
* `OnceInOrder`: a record comes once, in order, also across a reconnect, and not after a
  gap frame has written it off.
* `AllHeard`: a connected client hears of every record in the end. Fairness: the writers,
  the loop and a client that reads.

Also observed: records pushed in the wrong order are dropped in silence. The loop takes a
record below the last delivered for one of its replay (app.py:332); `swapped` is that
exception. A stream whose generator is never iterated never unsubscribes.

### Proofs

`LogStreamProofs` proves `TypeOK`, `LossAnnounced` and the action property `OnceInOrder`, for
every number of writers, records and connections and every size of the ring and the queue.
`LossAnnounced` says nothing of the records that are still on their way, so it is far from
inductive; what it needs are these layers (the section "What makes them inductive" of the
module, checked by TLC with two and with three writers before they were proved):

* `PlaceInv`: a number is handed out once and below `next`; what a client's handler holds goes
  with its place: a disconnected client has nothing in its queues.
* `SeenInv`: what the client has seen is below what its replay and then its live loop will
  accept (`boundary`, `after`). With the cursor of a reconnect, which is the last record seen
  and one more, this is half of `OnceInOrder`.
* `OrderInv`: in the queue, then the loop's callbacks, then the hands of the writers, a record
  that comes later is larger, unless it was swapped; so the range of the gap frame is below
  all that still comes.
* `BehindInv`, its converse: behind a record in that line are *all* larger ones that the client
  is to hear of. When the queue overflows, the records between the first and the last one
  dropped were therefore dropped too, and a gap frame that names only the ends is right.
* `CoverInv`: a record after the replay has come, is on its way, or falls in the next gap
  (`Flight`, `Gap`). At a delivery, what is smaller than the record is not on its way any more
  (`OrderInv`), and so has come or is in the gap frame sent with it: `LossAnnounced`.
* `ToldInv`: what a gap frame has written off is not on its way: the other half of
  `OnceInOrder`.

`swapped` is an exception in each of the last four, as it is in the property. In `TypeOK` the
count `drop.n` is any number: it is only tested for zero. The lemmas `Ends`, `AscendsEnds` and
`TrailsEnds` say what an append and a removal do to a line; `FirstRecord` gives the replay its
next record. Model-checked only: `AllHeard`.

## 7. Requests: frontend, tokenizer, scheduler and the stop barrier

### State and actions

Three processes over four FIFO queues, in the default deployment (one tokenizer worker
that takes one queue element per turn, `local_bs` = 1). `open` are the keys of `ack_map`;
`inflight`, `aborting`, `prompts`, `completions` are `StatsTracker`; `stop`, `awaited`,
`sealed` are `prepare_stop_accounting`; `decode` is the detokenizer's `decode_map`;
`active`, `left`, `out` are the scheduler's. `story[u]` is the list in `ack_map[u]`, kept
whole.

| Code | Actions |
|---|---|
| `new_user` with the send after it (`submit_generation`) | `NewUser`, or `NewUserUnsent` when the send fails (`Enters` is what they share) |
| `listen`, `wait_for_ack` | `Listen`, `Finish` |
| the reasoning budget's `break` | `BudgetSpent` |
| `stream_with_cancellation`, `until_disconnect`, `abort_user` | `Disconnect`, `AbortUser` |
| `prepare_stop_accounting` | `PrepareStop`, `Seal`, `DrainTimeout`, `AbortsSent`, `AbortTimeout` |
| `tokenize_worker` | `Tokenize`, `PassAbort`, `Detokenize` (`Detokenized` the waves, `Regrouped` the order of replies, `Released` the end of a state) |
| `run_forever`, `_handle`, `_step` / `_step_batched` / `_abort_batch` | `Receive`, `Step` |

A step of the scheduler gives each active request some tokens, its last, another chunk of
prefill or an error after some tokens (`Outcome`); a batched step is one of these. A uid is
never reused. The piece of text of a token is the ordinal the detokenizer gave it, which
is what the waves could get wrong. A batch of messages is one queue element: a function from
the uids to what it says to each (`Report` from the scheduler, a sequence of `Reply` to the
frontend), since only the order of the messages of one uid is observable.

### Runs

`requests`: two requests of two tokens, up to two tokens a step, one client that leaves, one
call of prepare-stop. `Chunks` is 0: the step that prefills a prompt gives its first token.
About 890,000 states. Beyond the run, the safety properties were checked once with two calls of
prepare-stop (5.2 million states), and `EveryRequestEnds` once with a step of prefill and
one token per request (384,000 states). `abort_answered` is the same instance.

* `AccountingExact`: every prompt admitted and token sampled is counted once or on its way.
* `SealedExact`: once sealed, the scheduler is at rest and the totals are all there is.
* `OrderKept`: the consumer sees the admission, then the pieces in order, then at most one
  terminal reply and nothing after; an aborted request is never worked on again.
* `DecodeReleased`: decode state only for requests at work, or aborted ones (below).
* `EveryRequestEnds`: under fairness every request that was sent ends in
  the statistics, whatever fails after the send, unless it is aborted.

`abort_answered`: the exception just made is the finding. A finding rather than a property:
accounting.py, stats.py and the tokenizer all speak of the scheduler's terminal
acknowledgement of an abort, and the scheduler sends none. The aborted uid stays in
`_inflight`; a stop that had to abort, or one after any client left early, always ends in
`AccountingDrainError`, and the daemon then needs a forced stop.

Fairness. `WF_vars(Progress)`: the three loops and the event loop's tasks never all rest
while one could go on. Their work is finite, so this weak form is enough. Clients come,
leave and stop as they like.

Also observed. `submit_generation` enters the request (`new_user()`) before it sends it: when
the send fails, nobody takes the uid back (generation.py:315-316), and it stays in `_inflight`
for ever, as an aborted one does. `NewUserUnsent` is that step, `unsent` the exception of
`EveryRequestEnds`. The reasoning budget's `break` (generation.py:755-758, 886-897) closes the
consumer without an abort: the engine generates to the end for nobody, and is counted. A
token that crosses an abort in the queues creates the decode state anew after `discard`
(detokenize.py:129) and nothing discards it again (the exception of `DecodeReleased`).
One reply of the scheduler is left out: when a generator ends by itself,
`_finish(next_token=None)` (worker.py:1263-1265, 1521-1533) sends an end-of-text token that was
never sampled, and the frontend would count it. The code calls that branch defensive, since
no generator has a limit of its own; reached, it would make the completions one too many.
`prepare_stop`'s own `abort_user` removes the maps of a consumer that still waits. A reload
retires only the uids in `ack_map`, and replies of the replaced workers are counted after
`reset_launch`. With several tokenizer workers an abort can overtake the request it aborts.

### Proofs

`RequestsProofs` proves `TypeOK`, `AccountingExact`, `SealedExact`, `OrderKept` and
`DecodeReleased`, for every number of requests, of tokens and prefill steps of each, of clients
that leave and of stops. Only the first two are near to inductive; `IInv` is the conjunction of
these layers (the section "What makes them inductive" of the module, checked by TLC on the
instance of `requests` before they were proved):

* `AskInv`: a request is in one place on its way down, once, and until the scheduler takes it
  nothing has been said of it: no report, no reply, no decode state.
* `LifeInv`: whatever is still at work or said about a request, the request is in flight. This
  is what lets the barrier look at `_inflight` alone.
* `EndInv`: behind the last report of a request, in either queue, nothing comes, and it is not
  active. It holds of a batch which ends one request in the middle of others because the
  regrouping keeps the order of each uid.
* `AbortInv`: an abort is behind its request on both queues down, so the scheduler never finds
  a request it has been told to drop; the consumer of an aborted request is gone.
* `DecodeInv`: a decode state belongs to a request that is active, whose end is coming up, or
  which was aborted; with `EndInv` that is `DecodeReleased`.
* `SealInv`: after a seal the gate stays closed, nothing is in flight and the totals have not
  moved. Then by `LifeInv` no queue holds anything that counts, and `AccountingExact` says that
  the totals are all there is (`AtRest`): `SealedExact`.
* `OrderInv`: the replies of one request form a chain through the queue to the frontend
  (`Chain`): each message follows what came before it, c replies at the consumer and d behind
  the last message. What the tokenizer will make of the next report is then fixed by d: the
  decode state is d - 1 pieces, the admission comes first, `Upstream`. A witness d per request
  makes the four queues one line.

The counting: what is undelivered is the set of *places* (queue position, uid, position in the
message) that hold a prompt or a token, so a total is a cardinality and no sum has to be
unfolded. A message appended adds its own places, a message taken from the head takes its own
along and shifts the others, which is a bijection (`PlacesGrow`, `PlacesShrink`, `CountPut`,
`CountTail`); `Detokenize` turns the tokens of a report into as many text replies
(`RegroupedHolds`), and a step of the scheduler that samples n tokens puts n in its report
(`SampledGrows`). The lemmas `Move...` say, action by action, what a step says to one request,
so that each layer is shown for these kinds of change. Model-checked only: `EveryRequestEnds`.

## 8. The gate: `MaintenanceGate`

### State and actions

`gate` is `maintenance_state`: a plain attribute, checked and written without a lock by the
event loop and by the supervisor threads. Therefore a handler's check and its write are two
steps, and `hand` is the handler in between. `gen`, `fatal`, `waiters` (rebuild futures),
`sending`, `asked`, `answers`, `worker`, `supervisor`, `wake` and `exiting` are the other
parts; `draining` and `sealed` the stop. `hung` are the generations whose scheduler lives and
does nothing more.

| Code | Actions |
|---|---|
| `cache_rebuild`, `dispatch_rebuild` | `RebuildChecks`, `RebuildSets`, `RebuildSent` or `SendFails`, `RebuildTimesOut` |
| `_resolve_rebuild`, `fail_pending_rebuilds` | `ResolveChecks`, `ResolveSets`, `WakePending` |
| `reload_backend` and its thread | `ReloadChecks`, `ReloadSets`, then `Restart`, or `RestartFails` when `start_backend()` raises |
| `prepare_stop_accounting` | `StopChecks`, `StopSets`, `StopSeals`, `StopGivesUp` |
| `_on_ready`, `_on_failure`, `drain_ready`, the death watch | `ReadyChecks`, `ReadySets`, `SeesDeath`, `LatchesFatal`, `LatchesFailed`, `WakesWaiters` |
| the workers | `Loaded`, `Dies`, `Hangs`, `Answers` |
| `_exit_after_backend_death` | `Exits` |

### Run `gate`

Two rebuilds and one reload (two generations of workers, two supervisor threads), one
stop after another. About 180,000 states.

* `FatalLatched`: after a worker's death the gate is "failed" or "stopping" until a reload.
* `ServingReady`: an open gate belongs to loaded workers of this generation.
* `SealedStaysClosed`: a sealed engine admits nothing until its workers are replaced.
* `OneRebuild`: at most one rebuild of the current workers is underway, it came through an open
  gate, and the gate stays at "rebuilding" until its reply or a death. A reply carries neither
  a number nor a generation, and the listener opens the gate for whichever comes: this is what
  makes that right.
* `NoWedge`: neither the gate nor a caller waits for ever, unless the gate is `Stuck`: the
  scheduler hangs, or a relaunch has failed and nobody supervises what it left. In both cases
  the property is false of the code (below).

Two excuses are named in the properties. `torn`: somebody wrote the gate over a state it
had not seen. Those races are in the code: `_on_ready` and `_on_failure` run in another
thread than the handlers, and a failed send writes "serving" whatever the gate has become
(597-603). `stale`: the reply of an earlier generation resolves a rebuild, since replies
carry no generation. Each property fails in TLC when its excuse is dropped: the properties do
not cover these races, they show that the rest of the code's ordering is right.

Fairness. Handlers run to their write; the threads run; workers that live and do not hang load
and answer; a relaunch gets to its end or fails. Nothing has to fail, to die or to hang.
`RebuildSent`/`SendFails`, `ResolveChecks` and `WakePending` are strongly fair: the event
loop takes what is ready in FIFO order, so a stream of other handlers, each of which
disables them for its one step, cannot hold them off. `Exits` is not fair: under the
interactive shell the process stays.

### Proofs

`MaintenanceGateProofs` proves `TypeOK`, which the run therefore leaves out, and the four safety
properties, for every number of rebuilds and reloads. None of the four is inductive: each
speaks of the gate, which a handler writes one step after it has looked. The layers (in the module, checked by TLC first):

* `HandInv`: a handler between its check and its write has seen a gate that allows the write. A
  write over a gate that has changed since sets `torn`, so a clean write overwrites what was
  seen.
* `LifeInv`, `ThreadInv`: workers and supervisor threads exist up to the current generation;
  one past its drain has seen its workers loaded or dead; only the current one is about to
  write, and after a death it has latched it.
* `PastInv`, and `OneRebuild` itself: nothing on its way is of a later generation, so what a
  reload finds on its way it leaves behind; a rebuild is in one place only, the hands of the
  sender, the queue to the workers, the queue of replies or the listener. Without it a second
  reply could open the gate over a stop (`StopInv`) or over workers that have not loaded
  (`ServingReady`).
* `StopInv`: a stop that has closed the gate finds it closed, or failed.

Model-checked only: `NoWedge`.

### Where code and documentation differ

Two documented promises the code does not keep. Both are behaviours of the model; `NoWedge`
without its exception `Stuck` fails in TLC with either of them.

* The docstring of `reload_backend` says what it is
  for: "a scheduler that has wedged or leaked" (640-641). A scheduler that wedges over a rebuild
  leaves the gate at "rebuilding", where `reload_backend` answers "busy" (649), and another
  rebuild and a stop are refused too. The caller's timeout leaves the gate alone (606-614), so
  nothing but the scheduler's own reply or death gets the server out of it.
* docs/mlx.md:73-76 describes the reload as walking
  "through `loading` back to `Running` without restarting the API server", and the docstring
  (646-648) has the new generation's supervisor reopen the gate. `start_backend()` may raise in
  `_restart` (688), before anything supervises the new generation: the gate stays "loading", no
  fatal error is set, and another reload is refused as busy.

Also observed. A sealed engine that fails and is reloaded opens again. A rebuild that the MLX
scheduler does not support is answered "failed" (worker.py:1694-1706) and latches the gate
"failed", although the docstring (281-283) and
`test_resolve_nonfatal_statuses_keep_serving` say that only a destructive failure does.

## 9. Between requests: `MlxMemory`, `PrefixStore`, `SlotShares`

`PrefixStore` is `prefix_cache.py` as operators on a record: `Insert`, `Evict`, `Best`
(lookup), `Touched`, `Restored`; a cache is the tokens that were fed to it and can be
trimmed below a length (always, never, or while the sliding window is not full). A pair of
`Models` says below which length *all* layers of a model can be trimmed, and whether *one* of
them always can (`attends`): a layer that attends to all tokens, whose `offset` tells how long
the cache is. `Measured` says when `_remember` has such a length to compare.
`SlotShares` is the arithmetic of `resize_total` and `rebalance`. `MlxMemory` is the
scheduler around both: `store` is `prefix_store`, `req` the active requests with position
and cache, `slots` and `misses` per layer.

| Code | Actions |
|---|---|
| `_lookup_prefix`, `_handle_user_msg` | `Admit` (from RAM, or from the disk tier when it reaches deeper) |
| `_offload_prefill` with `offload_prefill_plan`, `_step_batched`, `_prefill_chunks` | `PrefillOffload`, `PrefillBatched`, `PrefillChunk` |
| `_remember` at the end, at an abort; a failure | `Finish`, `Abort`, `Fail` |
| `_maybe_rebalance`, `_handle_cache_rebuild` | `Rest`, `Resize` |

Run `memory`: turns of one conversation and of a second one that leaves it after two
tokens, boundary 2 and chunk 4, a store that holds one or two snapshots, two requests at a
time, three layers of four experts with up to two misses each; four models: full attention, a
hybrid with recurrent layers, one with sliding windows among its layers, and one of sliding
windows alone. About 215,000 states. The
numbers are the code's scaled down; chunk and boundary keep their relation (a chunk is a
multiple of the boundary).

* `TypeOK` includes `StoreSane`: the budget is kept unless one entry alone exceeds it, no
  prefix is held twice, recency and entries agree.
* `StateMatches`: for a model with one layer that attends to all tokens, a snapshot is the state
  after exactly its tokens, and a request decodes from exactly its prompt. For others it is
  false (below).
* `LongestReuse`: no request starts behind what RAM could save it, and each has a token
  left to process; `Servable` is the reference definition.
* `RestorePointKept`: after an offloading or batched prefill the last boundary inside the
  prompt can be restored, whatever was evicted.
* `SharesSane`: a rebalance conserves the slots, respects floor and cap, and more misses
  never earn fewer slots: what `ExpertOffload` assumes of its `Rebalance`.

Also observed. The chunked path takes no snapshot at the last boundary and, for prompts
below its first chunk, none at all, against prefix_cache.py:37-41; the offload plan takes
none when the prompt ends on the boundary. `RestorePointKept` leaves these out by its
antecedent. Where the disk tier cuts a chunk (`cut_points`) depends on what it knows; here it
may cut after any full block (`ChunkEnds`), or not.

### Proofs

`MlxMemoryProofs` proves all five properties of the run, for every set of nonempty prompts and
answers, every budget, chunk, boundary, window, number of layers and experts that satisfies
the assumptions of `PrefixStore` and `MlxMemory`. The one with content: a narrow chunk is at
least a boundary wide (512 and 256 in the code).

**Recursion without an induction theorem.** The operators are recursive functions and folds.
The library's induction theorems take a predicate as an operator, which the provers cannot
instantiate, so the module states them for sets: `RankInduction` (what passes from the lower
ranks holds everywhere) follows from the well-foundedness of `<` on `Nat`, and `Recursion`
builds the function that a definition by recursion along a rank has, as the union of the
functions on the elements up to each rank. `SubsetInduction` and `SubsetRecursion` are the
same for the subsets of a finite set, which is how `FoldFunctionOnSet`, and with it every sum
over the layers, is reduced to "one element and the rest" (`SumOne`).

**The invariant.** `IInv` says, beside the types:

* `Good(store)`: entries and order of use name the same prefixes, each once (`Orderly`); the
  store fits its budget or holds one entry; each entry is the state after its tokens if the
  model `attends` (`Matching`).
  `StoreSane` counts (as many entries as prefixes), which no step can be argued about
  directly; `Orderly` says the same with injections.
* `Following`: a request's cache is its prompt up to its position, if the model `attends`.
* `Floored(slots)`: no layer is below the floor that a rebalance of what there is would use.
  `SharesSane` speaks also of a rest that leaves the shares alone, and is not inductive
  without it.

**Eviction.** `Left(st)` is what may be left of a store while `_evict()` runs: orderly, nothing
new in it, the entry used last still there. A turn of the loop stays in `Left` and, unless the
rest fits, shrinks it; after as many turns as there were entries the rest fits (`Evicts`).

**Lookup.** `UsableIs`: `Usable` is the longest prefix the entry can be cut back to that leaves
the prompt a token. `BestIs`: there is a first of the greatest, it saves a prefix, and nothing
saves more. `LongestReuse` follows, for the disk tier is only asked for more.

**The prefill.** `Wanted` says what the plan from a position on looks like; it passes from the
end of a chunk to its start (`PointIs`), because no chunk runs over the last boundary.
`SnapshotsAre` folds the snapshots into the store; the last one is the entry used last, so it
survives. In the batched path a segment ends on the first boundary ahead of it.

**The rebalance.** `Fair` is what a turn keeps: the slots add up or all layers are full, nobody
is below the floor, who was capped is full, more misses never earn fewer. Rounding down leaves
less than one slot each (`FloorsAre`), and `HandedOut` hands exactly that out, because ranks
are the numbers from 0 on (`RanksBelow`). A turn that leaves a layer above its cap caps one
that was not capped, so one turn more than there are layers is enough (`RebalancedIs`): the
bound of the loop in `rebalance()` is right.

### Where code and documentation differ

`StateMatches` does not hold of a model of recurrent layers alone. `_Entry.tokens` is documented as "the exact tokens the states cover"
(prefix_cache.py:78), and `_remember` means to skip the donation where a cache cannot be
trimmed to them: "skip donation where not (recurrent caches cannot rewind)"
(worker.py:1409-1412). Its check takes the length from the first layer that can be trimmed
and has an `offset` (1413-1416); where there is none (only recurrent layers, or sliding windows
that are all full), the donation is inserted unchecked. An abort before the prefill has ended
(1669-1676) then stores a partial or an empty state under the whole prompt, and the next
request with that prompt decodes from it. With `Models` = {<<0, FALSE>>} TLC finds `SnapshotExact`
violated by that abort after four states.

## 10. Not modelled

* **Output parsers, request adapters, reports, command line, shell.** Translations of text
  and configuration without state of their own between calls; their correctness is about
  characters. Together with the kernels they are most of the repository's lines, which is
  why the modules cover a small share of it, although they cover its stateful core.
* **Kernels, weight loading, sampling, drafting.** Statements about floating-point numbers
  and distributions. The redo loop that drafting shares is in `ExpertOffload`.
* **Encoding of messages, log and metrics formats, HTTP status codes, OOM scores, the tailer.**
* **Of the modelled components**: what the notes of `PROJECT.json` name as left out.

Out of the prover's reach, and so model-checked only: the liveness properties (`ReadyGetsSaved`,
`WritesEnd`, `NothingStuck`, `AllHeard`, `EveryRequestEnds`, `NoWedge`), which need fairness and
ENABLED. Every safety property and every action property of the passing runs is a theorem.
