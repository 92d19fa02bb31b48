------------------------------ MODULE PrefixDisk ------------------------------
(***************************************************************************)
(* The SSD tier of the prefix cache                                        *)
(* (src/python/maxtoken/mlx_backend/prefix_disk.py, DiskPrefixStore).      *)
(*                                                                         *)
(* Prompts are cut into blocks, a block's hash names the whole prefix up   *)
(* to it, and each block owns two files: <hash>.kv (attention KV) and,     *)
(* optionally, <hash>.rec (recurrent state).  Two threads work on the      *)
(* store: the SCHEDULER dispatches snapshots, harvests them one boundary   *)
(* later into write jobs, evicts, looks up and restores; the WRITER takes  *)
(* jobs from a FIFO queue, writes files outside the lock, commits each     *)
(* under the lock and persists a manifest.  A process may die at any step; *)
(* the next one starts from the manifest and the files.                    *)
(*                                                                         *)
(* A block is abstracted to its hash and a file to its presence: hashes    *)
(* determine contents, all KV files of a store have one size and so have   *)
(* all recurrent files, and os.replace makes a file appear whole.          *)
(***************************************************************************)
EXTENDS Integers, Sequences, FiniteSets

CONSTANTS
    Block,       \* block hashes
    NoBlock,     \* the block of a queue marker
    Chains,      \* the prompts: sequences of block hashes, the full blocks of each
    NeedsRec,    \* the layout has a recurrent layer
    KvBytes,     \* payload of a .kv file
    RecBytes,    \* payload of a .rec file
    HeaderBytes, \* what a file's header adds to its payload
    MaxBytes,    \* disk budget (max_bytes)
    MaxPending,  \* writer backlog cap (MAX_PENDING_BYTES)
    RecEvery,    \* REC_EVERY
    WindowBytes, \* WINDOW_BYTES
    Faults,      \* what may fail: subset of FaultKinds
    MaxClock,    \* bound: the clock saturates here, so that later stamps tie
    MaxQueue     \* bound: no new lookup while this many jobs are queued

FaultKinds == {"write", "persist", "snapshot", "read", "crash", "layout"}

ASSUME BlockAssumption == IsFiniteSet(Block)
ASSUME ChainsAssumption ==
    /\ NoBlock \notin Block
    /\ Chains \subseteq Seq(Block)
    /\ \A c \in Chains, d \in Chains : \A i \in DOMAIN c, j \in DOMAIN d :
           c[i] = d[j] => i = j /\ SubSeq(c, 1, i) = SubSeq(d, 1, j)
ASSUME SizesAssumption ==
    /\ NeedsRec \in BOOLEAN
    /\ KvBytes \in Nat \ {0} /\ RecBytes \in Nat \ {0}
    /\ HeaderBytes \in Nat
    /\ MaxBytes \in Nat /\ MaxPending \in Nat /\ WindowBytes \in Nat
    /\ RecEvery \in Nat \ {0}
ASSUME BoundsAssumption ==
    /\ Faults \subseteq FaultKinds
    /\ MaxClock \in Nat /\ MaxQueue \in Nat

VARIABLES
    \* self.blocks, one set per flag of _Block
    known, kvReady, recReady, kvPending, recPending,
    used,         \* LRU stamps
    clock,        \* the wall clock behind the stamps
    \* the rest of the store's memory
    queue, pendingBytes, window, disabled,
    snap,         \* _snapshot_pending: at most one dispatched snapshot
    \* the scheduler thread
    pc, after, scope, todo,
    \* the writer thread
    wpc, wjob, wsize, dirty, image,
    \* the SSD
    kvFile, recFile, manifest

blocks == <<known, kvReady, recReady, kvPending, recPending>>
store  == <<queue, pendingBytes, window, disabled, snap>>
sched  == <<pc, after, scope, todo>>
writer == <<wpc, wjob, wsize, dirty, image>>
files  == <<kvFile, recFile>>
vars   == <<blocks, used, clock, store, sched, writer, files, manifest>>

-----------------------------------------------------------------------------
(* Blocks, chains and sizes *)

\* The first i blocks of a prompt.
Prefix(c, i) == {c[j] : j \in 1..i}

\* _Block.index: the position of a block in every chain that holds it.
Depth(h) == CHOOSE i \in UNION {DOMAIN c : c \in Chains} :
                \E c \in Chains : i \in DOMAIN c /\ c[i] = h

kvKnown  == kvReady \cup kvPending
recKnown == recReady \cup recPending

\* total_bytes(): whole files, headers too, from the moment each is committed; the
\* backlog and _make_room's request count payloads only.
ReadyPayload == KvBytes * Cardinality(kvReady) + RecBytes * Cardinality(recReady)
TotalBytes   == ReadyPayload
                + HeaderBytes * (Cardinality(kvReady) + Cardinality(recReady))

Job      == [kind : {"kv", "rec"}, block : Block]
Marker   == [kind : {"manifest", "sync", "close"}, block : {NoBlock}]
Snapshot == [chain : SUBSET Block, kv : SUBSET Block, rec : SUBSET Block,
             win : SUBSET Block]
Image    == [kv : SUBSET Block, rec : SUBSET Block, used : [Block -> 0..MaxClock]]

Mark(kind) == [kind |-> kind, block |-> NoBlock]
Bytes(job) == IF job.kind = "kv" THEN KvBytes ELSE RecBytes
NoJob      == Mark("manifest")   \* wjob between two turns of the loop
NoSnap     == [chain |-> {}, kv |-> {}, rec |-> {}, win |-> {}]
Unused     == [h \in Block |-> 0]
NoImage    == [kv |-> {}, rec |-> {}, used |-> Unused]

\* The scheduler holds self._lock across the steps of these phases.
Locked == pc \in {"harvest", "room"}

\* time.time(): never goes back, may return the same value twice.
Stamp(now) == now \in {clock, clock + 1} /\ now <= MaxClock
Stamped(S, now) == [h \in Block |-> IF h \in S THEN now ELSE used[h]]

Init ==
    /\ known = {} /\ kvReady = {} /\ recReady = {}
    /\ kvPending = {} /\ recPending = {}
    /\ used = Unused /\ clock = 0
    /\ queue = <<>> /\ pendingBytes = 0 /\ window = <<>>
    /\ disabled = FALSE /\ snap = NoSnap
    /\ pc = "idle" /\ after = "idle" /\ scope = {} /\ todo = NoSnap
    /\ wpc = "get" /\ wjob = NoJob /\ wsize = FALSE
    /\ dirty = FALSE /\ image = NoImage
    /\ kvFile = {} /\ recFile = {} /\ manifest = NoImage

\* _drop: forget the blocks of S and unlink both files of each.
DropAll(S) ==
    /\ known' = known \ S
    /\ kvReady' = kvReady \ S /\ recReady' = recReady \ S
    /\ kvPending' = kvPending \ S /\ recPending' = recPending \ S
    /\ used' = [h \in Block |-> IF h \in S THEN 0 ELSE used[h]]
    /\ kvFile' = kvFile \ S /\ recFile' = recFile \ S

-----------------------------------------------------------------------------
(* Scheduler: dispatching a snapshot *)

\* What _observe decides to copy at block i of prompt c: every block whose KV
\* is not known, and the recurrent state at block i, for the disk when the
\* policy wants one there and for the window otherwise.
Dispatch(c, i, restorePoint) ==
    LET h       == c[i]
        needRec == NeedsRec /\ h \notin recKnown
        wanted  == restorePoint \/ h \in kvKnown \/ i % RecEvery = 0 \/ i = Len(c)
    IN  [chain |-> Prefix(c, i),
         kv    |-> Prefix(c, i) \ kvKnown,
         rec   |-> IF needRec /\ wanted THEN {h} ELSE {},
         win   |-> IF needRec /\ ~wanted THEN {h} ELSE {}]

\* _flush_snapshot: harvest the dispatched snapshot, if any, then go on to `next`.
FlushThen(next) ==
    /\ todo' = snap
    /\ IF snap = NoSnap THEN pc' = next /\ after' = "idle"
                        ELSE pc' = "flush" /\ after' = next

\* observe(): decides under the lock, flushes the snapshot dispatched before,
\* then leaves its own in flight.
Observe(c, i, restorePoint) ==
    /\ pc = "idle" /\ ~disabled
    /\ FlushThen("idle")
    /\ snap' = Dispatch(c, i, restorePoint)
    /\ UNCHANGED <<blocks, used, clock, queue, pendingBytes, window, disabled,
                   scope, writer, files, manifest>>

\* observe() whose cache has an unexpected shape: the flush happens, then the
\* tier turns itself off.
ObserveFails ==
    /\ pc = "idle" /\ ~disabled /\ "snapshot" \in Faults
    /\ FlushThen("idle")
    /\ snap' = NoSnap /\ disabled' = TRUE
    /\ UNCHANGED <<blocks, used, clock, queue, pendingBytes, window,
                   scope, writer, files, manifest>>

-----------------------------------------------------------------------------
(* Scheduler: harvesting it (finish() inside _flush_snapshot) *)

\* _window_put: the oldest entry goes while the window is over its bytes.
WindowPut(w, h) ==
    LET grown == Append(w, h)
    IN  IF \E k \in DOMAIN w : w[k] = h THEN w
        ELSE IF Len(grown) > 1 /\ Len(grown) * RecBytes > WindowBytes
             THEN Tail(grown) ELSE grown

\* Host copies are made, the lock is taken and the chain touched.
BeginHarvest(now) ==
    /\ pc = "flush" /\ Stamp(now)
    /\ \/ todo.win = {} /\ window' = window
       \/ \E h \in todo.win : window' = WindowPut(window, h)
    /\ clock' = now
    /\ used' = Stamped(todo.chain \cap known, now)
    /\ pc' = "harvest"
    /\ UNCHANGED <<blocks, queue, pendingBytes, disabled, snap, after, scope, todo,
                   writer, files, manifest>>

\* A copy that raises turns the tier off; the snapshot is lost.
FlushFails ==
    /\ pc = "flush" /\ "snapshot" \in Faults
    /\ disabled' = TRUE /\ pc' = after /\ after' = "idle" /\ todo' = NoSnap
    /\ UNCHANGED <<blocks, used, clock, queue, pendingBytes, window, snap,
                   scope, writer, files, manifest>>

\* The job finish() is at: KV in block order, then the recurrent state.
Current(job) ==
    /\ Locked
    /\ \/ /\ job.kind = "kv" /\ job.block \in todo.kv
          /\ \A g \in todo.kv : Depth(job.block) <= Depth(g)
       \/ job.kind = "rec" /\ todo.kv = {} /\ job.block \in todo.rec

Without(job) ==
    IF job.kind = "kv" THEN [todo EXCEPT !.kv = @ \ {job.block}]
                       ELSE [todo EXCEPT !.rec = @ \ {job.block}]

\* _make_room, in three outcomes: evict one more block, room, or no room.
BacklogFull(n) == pendingBytes + n > MaxPending
\* Mutant of OverBudget: the backlog is not counted.
OverBudgetOnDisk(n) == TotalBytes + n > MaxBytes
OverBudget(n)  == TotalBytes + pendingBytes + n > MaxBytes
Victims        == known \ (todo.chain \cup kvPending \cup recPending)

\* min over (used, -index, hash): the order among equal hashes is arbitrary.
Oldest(v) ==
    \A w \in Victims \ {v} :
        used[v] < used[w] \/ (used[v] = used[w] /\ Depth(v) >= Depth(w))

Evict(job, v) ==
    /\ Current(job)
    /\ ~BacklogFull(Bytes(job)) /\ OverBudget(Bytes(job))
    /\ v \in Victims /\ Oldest(v)
    /\ DropAll({v})
    /\ UNCHANGED <<clock, store, sched, writer, manifest>>

Enqueue(job, now) ==
    /\ Current(job) /\ Stamp(now)
    /\ ~BacklogFull(Bytes(job)) /\ ~OverBudget(Bytes(job))
    /\ known' = known \cup {job.block}
    /\ \/ job.kind = "kv" /\ kvPending' = kvPending \cup {job.block}
                          /\ UNCHANGED recPending
       \/ job.kind = "rec" /\ recPending' = recPending \cup {job.block}
                           /\ UNCHANGED kvPending
    /\ pendingBytes' = pendingBytes + Bytes(job)
    /\ queue' = Append(queue, job)
    /\ todo' = Without(job)
    /\ \/ pc = "harvest" /\ pc' = pc
          /\ clock' = now /\ used' = Stamped({job.block}, now)
       \/ pc = "room" /\ pc' = "forget" /\ now = clock /\ UNCHANGED <<clock, used>>
    /\ UNCHANGED <<kvReady, recReady, window, disabled, snap, after, scope,
                   writer, files, manifest>>

SkipWrite(job) ==
    /\ Current(job)
    /\ \/ BacklogFull(Bytes(job))
       \/ OverBudget(Bytes(job)) /\ Victims = {}
    /\ todo' = Without(job)
    /\ pc' = IF pc = "room" THEN "window" ELSE pc
    /\ UNCHANGED <<blocks, used, clock, store, after, scope, writer, files, manifest>>

EndHarvest ==
    /\ pc = "harvest" /\ todo.kv = {} /\ todo.rec = {}
    /\ pc' = after /\ after' = "idle" /\ todo' = NoSnap
    /\ UNCHANGED <<blocks, used, clock, store, scope, writer, files, manifest>>

-----------------------------------------------------------------------------
(* Scheduler: the end of a prompt *)

\* done(): flush, then persist the deepest windowed state of the chain that can
\* still be written and forget the chain's others.
Done(c) ==
    /\ pc = "idle" /\ ~disabled
    /\ FlushThen("window")
    /\ snap' = NoSnap
    /\ scope' = Prefix(c, Len(c))
    /\ UNCHANGED <<blocks, used, clock, queue, pendingBytes, window, disabled,
                   writer, files, manifest>>

Windowed == {k \in DOMAIN window : window[k] \in scope}

WindowTake(k) ==
    LET h == window[k] IN
    /\ pc \in {"window", "forget"}
    /\ k \in Windowed
    /\ \A m \in Windowed : Depth(window[m]) <= Depth(h)
    /\ window' = SubSeq(window, 1, k - 1) \o SubSeq(window, k + 1, Len(window))
    /\ IF pc = "window" /\ h \in kvKnown \ recKnown
       THEN pc' = "room" /\ todo' = [NoSnap EXCEPT !.chain = scope, !.rec = {h}]
       ELSE UNCHANGED <<pc, todo>>
    /\ UNCHANGED <<blocks, used, clock, queue, pendingBytes, disabled, snap, after,
                   scope, writer, files, manifest>>

WindowEnd ==
    /\ pc \in {"window", "forget"} /\ Windowed = {}
    /\ pc' = "idle" /\ scope' = {} /\ todo' = NoSnap
    /\ UNCHANGED <<blocks, used, clock, store, after, writer, files, manifest>>

-----------------------------------------------------------------------------
(* Scheduler: lookup, restore, flush and close *)

\* The positions of a prompt the store can resume at.
Resumable(c) ==
    {i \in DOMAIN c : Prefix(c, i) \subseteq kvReady /\ (NeedsRec => c[i] \in recReady)}

\* lookup(): the deepest of them, decided under the lock.
Lookup(c) ==
    /\ pc = "idle" /\ ~disabled /\ Len(queue) < MaxQueue
    /\ \E i \in Resumable(c) :
          /\ \A j \in Resumable(c) : j <= i
          /\ todo' = [NoSnap EXCEPT !.chain = Prefix(c, i),
                                    !.rec = IF NeedsRec THEN {c[i]} ELSE {}]
    /\ pc' = "restore"
    /\ UNCHANGED <<blocks, used, clock, store, after, scope, writer, files, manifest>>

Readable == todo.chain \subseteq kvFile /\ todo.rec \subseteq recFile

\* restore() reads the files without the lock, then touches the chain ...
RestoreOk(now) ==
    /\ pc = "restore" /\ Readable /\ Stamp(now)
    /\ clock' = now
    /\ used' = Stamped(todo.chain \cap known, now)
    /\ queue' = Append(queue, Mark("manifest"))
    /\ pc' = "idle" /\ todo' = NoSnap
    /\ UNCHANGED <<blocks, pendingBytes, window, disabled, snap, after, scope,
                   writer, files, manifest>>

\* ... or, when a file is missing or unreadable, drops the whole chain.
RestoreFails ==
    /\ pc = "restore" /\ (~Readable \/ "read" \in Faults)
    /\ DropAll(todo.chain)
    /\ queue' = Append(queue, Mark("manifest"))
    /\ pc' = "idle" /\ todo' = NoSnap
    /\ UNCHANGED <<clock, pendingBytes, window, disabled, snap, after, scope,
                   writer, manifest>>

\* flush(): harvest, queue a sync job and wait for the writer to reach it.
Flush ==
    /\ pc = "idle" /\ ~disabled
    /\ FlushThen("sync")
    /\ snap' = NoSnap
    /\ UNCHANGED <<blocks, used, clock, queue, pendingBytes, window, disabled,
                   scope, writer, files, manifest>>

PutSync ==
    /\ pc = "sync" /\ pc' = "wait"
    /\ queue' = Append(queue, Mark("sync"))
    /\ UNCHANGED <<blocks, used, clock, pendingBytes, window, disabled, snap, after,
                   scope, todo, writer, files, manifest>>

\* close(): the poison pill; a disabled store leaves its writer running.
Close ==
    /\ pc = "idle" /\ pc' = "closed"
    /\ queue' = IF disabled THEN queue ELSE Append(queue, Mark("close"))
    /\ UNCHANGED <<blocks, used, clock, pendingBytes, window, disabled, snap, after,
                   scope, todo, writer, files, manifest>>

-----------------------------------------------------------------------------
(* Writer thread: _write_loop, _write_job, _persist *)

\* The end of one turn of the loop: wake the flush, stop, or take the next job.
EndTurn(job) ==
    /\ wpc' = IF job.kind = "close" THEN "stopped" ELSE "get"
    /\ pc' = IF job.kind = "sync" THEN "idle" ELSE pc
    /\ wjob' = NoJob

TakeJob(kinds) ==
    /\ wpc = "get" /\ queue # <<>> /\ Head(queue).kind \in kinds
    /\ queue' = Tail(queue)
    /\ UNCHANGED <<blocks, used, clock, pendingBytes, window, disabled, snap, after,
                   scope, todo, wsize, image, files, manifest>>

GetWrite ==
    /\ TakeJob({"kv", "rec"})
    /\ wjob' = Head(queue) /\ wpc' = "write"
    /\ UNCHANGED <<dirty, pc>>

GetManifest ==
    /\ TakeJob({"manifest"})
    /\ dirty' = TRUE /\ wpc' = "check"
    /\ UNCHANGED <<wjob, pc>>

\* Mutant of GetMarker: persisting on a sync or close loses the marker.
GetMarkerForgetful ==
    /\ TakeJob({"sync", "close"})
    /\ IF dirty THEN wpc' = "persist" /\ wjob' = NoJob /\ UNCHANGED pc
                ELSE EndTurn(Head(queue))
    /\ UNCHANGED dirty

\* A sync or a close: persist first if anything changed since the last time.
GetMarker ==
    /\ TakeJob({"sync", "close"})
    /\ IF dirty THEN wpc' = "persist" /\ wjob' = Head(queue) /\ UNCHANGED pc
                ELSE EndTurn(Head(queue))
    /\ UNCHANGED dirty

\* write_safetensors, outside the lock; a failure leaves an older file in place.
WriteFile(ok) ==
    /\ wpc = "write" /\ (ok \/ "write" \in Faults)
    /\ wsize' = ok /\ wpc' = "commit"
    /\ kvFile' = IF ok /\ wjob.kind = "kv" THEN kvFile \cup {wjob.block} ELSE kvFile
    /\ recFile' = IF ok /\ wjob.kind = "rec" THEN recFile \cup {wjob.block} ELSE recFile
    /\ UNCHANGED <<blocks, used, clock, store, sched, wjob, dirty, image, manifest>>

\* Mutant of CommitGone: the file of a dropped block is offered.
CommitGoneOffered ==
    /\ wjob.block \notin known /\ wjob.kind = "kv"
    /\ kvReady' = kvReady \cup {wjob.block}
    /\ UNCHANGED <<known, recReady, kvPending, recPending, used, files>>

\* The block was dropped while its file was written: the file goes.
CommitGone ==
    /\ wjob.block \notin known
    /\ kvFile' = IF wjob.kind = "kv" THEN kvFile \ {wjob.block} ELSE kvFile
    /\ recFile' = IF wjob.kind = "rec" THEN recFile \ {wjob.block} ELSE recFile
    /\ UNCHANGED <<blocks, used>>

\* Mutant of CommitKvFailed: a failed KV write counts as written.
CommitKvUnchecked ==
    /\ wjob.block \in known /\ wjob.kind = "kv" /\ ~wsize
    /\ kvPending' = kvPending \ {wjob.block}
    /\ kvReady' = kvReady \cup {wjob.block}
    /\ UNCHANGED <<known, recReady, recPending, used, files>>

\* A failed KV write drops the block: nothing can resume through it.
CommitKvFailed ==
    /\ wjob.block \in known /\ wjob.kind = "kv" /\ ~wsize
    /\ DropAll({wjob.block})

CommitKv ==
    /\ wjob.block \in known /\ wjob.kind = "kv" /\ wsize
    /\ kvPending' = kvPending \ {wjob.block}
    /\ kvReady' = kvReady \cup {wjob.block}
    /\ UNCHANGED <<known, recReady, recPending, used, files>>

\* Mutant of CommitRec: the pending flag outlives a failed write.
CommitRecStuck ==
    /\ wjob.block \in known /\ wjob.kind = "rec"
    /\ recPending' = IF wsize THEN recPending \ {wjob.block} ELSE recPending
    /\ recReady' = IF wsize THEN recReady \cup {wjob.block} ELSE recReady
    /\ UNCHANGED <<known, kvReady, kvPending, used, files>>

CommitRec ==
    /\ wjob.block \in known /\ wjob.kind = "rec"
    /\ recPending' = recPending \ {wjob.block}
    /\ recReady' = IF wsize THEN recReady \cup {wjob.block} ELSE recReady
    /\ UNCHANGED <<known, kvReady, kvPending, used, files>>

\* Mutant of Commit: the bytes of a dropped block are not given back.
CommitLeaky ==
    /\ wpc = "commit" /\ ~Locked
    /\ \/ CommitGone /\ UNCHANGED pendingBytes
       \/ /\ CommitKvFailed \/ CommitKv \/ CommitRec
          /\ pendingBytes' = pendingBytes - Bytes(wjob)
    /\ dirty' = TRUE /\ wpc' = "check" /\ wsize' = FALSE
    /\ UNCHANGED <<clock, queue, window, disabled, snap, sched, wjob, image,
                   manifest>>

Commit ==
    /\ wpc = "commit" /\ ~Locked
    /\ CommitGone \/ CommitKvFailed \/ CommitKv \/ CommitRec
    /\ pendingBytes' = pendingBytes - Bytes(wjob)
    /\ dirty' = TRUE /\ wpc' = "check" /\ wsize' = FALSE
    /\ UNCHANGED <<clock, queue, window, disabled, snap, sched, wjob, image,
                   manifest>>

\* Mutant of CheckLater: the writer never persists between two jobs.
CheckLaterAlways ==
    /\ wpc = "check" /\ wpc' = "get"
    /\ wjob' = NoJob
    /\ UNCHANGED <<blocks, used, clock, store, sched, wsize, dirty, image,
                   files, manifest>>

\* The loop is dirty whenever it reaches its check: it persists when the queue has
\* drained or 5 s after the last time, and goes on otherwise.
CheckLater ==
    /\ wpc = "check" /\ queue # <<>> /\ wpc' = "get"
    /\ wjob' = NoJob
    /\ UNCHANGED <<blocks, used, clock, store, sched, wsize, dirty, image,
                   files, manifest>>

\* _persist collects the ready blocks under the lock ...
PersistRead ==
    /\ wpc \in {"check", "persist"} /\ ~Locked
    /\ image' = [kv |-> kvReady, rec |-> recReady \cap kvReady,
                 used |-> [h \in Block |-> IF h \in kvReady THEN used[h] ELSE 0]]
    /\ wpc' = "publish"
    /\ UNCHANGED <<blocks, used, clock, store, sched, wjob, wsize, dirty, files,
                   manifest>>

\* ... and replaces manifest.json outside it; an error is only logged.
Publish(ok) ==
    /\ wpc = "publish" /\ (ok \/ "persist" \in Faults)
    /\ manifest' = IF ok THEN image ELSE manifest
    /\ image' = NoImage /\ dirty' = FALSE
    /\ EndTurn(wjob)
    /\ UNCHANGED <<blocks, used, clock, store, after, scope, todo, wsize, files>>

-----------------------------------------------------------------------------
(* A new process on the same directory: after close(), or after a crash *)

\* Mutant of Load: a new process trusts the files and not the manifest.
LoadUnlisted ==
    LET rec == manifest.rec \cap recFile
    IN  /\ known' = kvFile /\ kvReady' = kvFile
        /\ recReady' = rec \cap kvFile
        /\ used' = [h \in Block |-> IF h \in kvFile THEN manifest.used[h] ELSE 0]
        /\ recFile' = recFile \ (rec \ kvFile)
        /\ UNCHANGED <<kvFile, manifest>>

\* _load_manifest: a listed block comes back if its files have the listed size.
Load ==
    LET kv  == manifest.kv \cap kvFile
        rec == manifest.rec \cap recFile
    IN  /\ known' = kv /\ kvReady' = kv
        /\ recReady' = rec \cap kv
        /\ used' = [h \in Block |-> IF h \in kv THEN manifest.used[h] ELSE 0]
        /\ recFile' = recFile \ (rec \ kv)
        /\ UNCHANGED <<kvFile, manifest>>

\* _wipe: another layout or block size discards everything.
Wipe ==
    /\ "layout" \in Faults
    /\ known' = {} /\ kvReady' = {} /\ recReady' = {} /\ used' = Unused
    /\ kvFile' = {} /\ recFile' = {} /\ manifest' = NoImage

Restart ==
    /\ "crash" \in Faults \/ (pc = "closed" /\ (wpc = "stopped" \/ disabled))
    /\ Load \/ Wipe
    /\ kvPending' = {} /\ recPending' = {}
    /\ queue' = <<>> /\ pendingBytes' = 0 /\ window' = <<>>
    /\ disabled' = FALSE /\ snap' = NoSnap
    /\ pc' = "idle" /\ after' = "idle" /\ scope' = {} /\ todo' = NoSnap
    /\ wpc' = "get" /\ wjob' = NoJob /\ wsize' = FALSE
    /\ dirty' = FALSE /\ image' = NoImage
    /\ UNCHANGED clock

-----------------------------------------------------------------------------

Scheduler ==
    \/ \E c \in Chains :
          \/ \E i \in DOMAIN c, restorePoint \in BOOLEAN : Observe(c, i, restorePoint)
          \/ Done(c)
          \/ Lookup(c)
    \/ ObserveFails \/ FlushFails \/ EndHarvest \/ WindowEnd
    \/ RestoreFails \/ Flush \/ PutSync \/ Close
    \/ \E job \in Job :
          \/ \E v \in Block : Evict(job, v)
          \/ \E now \in 0..MaxClock : Enqueue(job, now)
          \/ SkipWrite(job)
    \/ \E now \in 0..MaxClock : BeginHarvest(now) \/ RestoreOk(now)
    \/ \E k \in DOMAIN window : WindowTake(k)

Writer ==
    \/ GetWrite \/ GetManifest \/ GetMarker
    \/ Commit \/ CheckLater \/ PersistRead
    \/ \E ok \in BOOLEAN : WriteFile(ok) \/ Publish(ok)

Next == Scheduler \/ Writer \/ Restart

Spec == Init /\ [][Next]_vars

\* The scheduler thread finishes the operation it is in ...
InOperation ==
    \/ FlushFails \/ EndHarvest \/ WindowEnd \/ RestoreFails \/ PutSync
    \/ \E job \in Job :
          \/ \E v \in Block : Evict(job, v)
          \/ \E now \in 0..MaxClock : Enqueue(job, now)
          \/ SkipWrite(job)
    \/ \E now \in 0..MaxClock : BeginHarvest(now) \/ RestoreOk(now)
    \/ \E k \in DOMAIN window : WindowTake(k)

\* ... and the writer thread keeps running, gets the lock it waits for, and
\* persists once 5 s have gone by since the last time.
Fairness ==
    /\ WF_vars(InOperation) /\ WF_vars(Writer)
    /\ SF_vars(Commit) /\ SF_vars(PersistRead)

FairSpec == Spec /\ Fairness

-----------------------------------------------------------------------------
(* Properties *)

\* A write job that is queued or in the writer's hands.
InHand == wpc \in {"write", "commit"}
Outstanding(job) ==
    \/ InHand /\ wjob = job
    \/ \E k \in DOMAIN queue : queue[k] = job
KvJob(h)  == [kind |-> "kv", block |-> h]
RecJob(h) == [kind |-> "rec", block |-> h]

BlocksOK ==
    /\ known \in SUBSET Block /\ kvReady \in SUBSET known
    /\ recReady \in SUBSET known /\ kvPending \in SUBSET known
    /\ recPending \in SUBSET known
ClockOK == used \in [Block -> 0..MaxClock] /\ clock \in 0..MaxClock
StoreOK ==
    /\ queue \in Seq(Job \cup Marker) /\ pendingBytes \in Int
    /\ window \in Seq(Block) /\ disabled \in BOOLEAN /\ snap \in Snapshot
SchedOK ==
    /\ pc \in {"idle", "flush", "harvest", "window", "room", "forget", "restore",
               "sync", "wait", "closed"}
    /\ after \in {"idle", "window", "sync"}
    /\ scope \in SUBSET Block /\ todo \in Snapshot
WriterOK ==
    /\ wpc \in {"get", "write", "commit", "check", "persist", "publish", "stopped"}
    /\ wjob \in Job \cup Marker /\ wsize \in BOOLEAN /\ dirty \in BOOLEAN
    /\ InHand => wjob \in Job
    /\ image \in Image
DiskOK ==
    kvFile \in SUBSET Block /\ recFile \in SUBSET Block /\ manifest \in Image

\* The variables keep their types; the flags of a block are only set while the
\* store knows the block.
TypeOK == BlocksOK /\ ClockOK /\ StoreOK /\ SchedOK /\ WriterOK /\ DiskOK

\* A pending flag always has its job behind it, whatever was dropped, added again
\* or failed in between: _make_room never evicts a pending block, so a flag nobody
\* will clear would pin the block, and its share of the budget, for good.
PendingBacked ==
    \A h \in Block :
        /\ h \in kvPending  => Outstanding(KvJob(h))
        /\ h \in recPending => Outstanding(RecJob(h))

\* The jobs of a kind that are outstanding.
Queued(kind)  == {k \in DOMAIN queue : queue[k].kind = kind}
Holding(kind) == IF InHand /\ wjob.kind = kind THEN 1 ELSE 0
Backlog(kind) == Cardinality(Queued(kind)) + Holding(kind)

\* The backlog counter the scheduler raises and the writer lowers is the payload
\* of the jobs outstanding, also when a job's block was dropped meanwhile.
BacklogExact == pendingBytes = KvBytes * Backlog("kv") + RecBytes * Backlog("rec")

\* The payload accounted on disk and the payload on its way there stay within the
\* budget, over evictions, failed writes, restores that drop a chain, and restarts.
\* (The headers of the files committed since room was last made come on top.)
BudgetHeld == ReadyPayload + pendingBytes <= MaxBytes

\* BudgetHeld survives a restart because every manifest fits the budget too.
Payload(m) == KvBytes * Cardinality(m.kv) + RecBytes * Cardinality(m.rec)
BudgetInv ==
    /\ BudgetHeld
    /\ Payload(manifest) <= MaxBytes
    /\ wpc = "publish" => Payload(image) <= MaxBytes

Lists(m) == kvReady \subseteq m.kv /\ kvReady \cap recReady \subseteq m.rec

\* Once the queue is drained and the writer is back at its get(), the manifest on
\* disk lists everything the store offers: a crash there loses nothing.
RestDurable ==
    wpc = "get" /\ queue = <<>> /\ "persist" \notin Faults =>
        Lists(manifest)

\* What RestDurable rests on: what a writer without unsaved changes has saved and
\* what it is about to save lists every ready block, and it only waits on an
\* empty queue with nothing unsaved.
SaveInv ==
    /\ ~dirty /\ "persist" \notin Faults => Lists(manifest)
    /\ wpc = "publish" => Lists(image)
    /\ wpc \in {"check", "persist", "publish"} => dirty
    /\ wpc = "get" /\ queue = <<>> => ~dirty

\* What the store takes for readable is on disk, or will be when a job already
\* outstanding has run.
ReadyHeals ==
    /\ \A h \in kvReady \ kvFile : Outstanding(KvJob(h))
    /\ \A h \in recReady \ recFile : Outstanding(RecJob(h))

\* What ReadyHeals rests on in a layout without recurrent layers.  Nothing recurrent is
\* ever asked for ...
KvOnly ==
    /\ recReady = {} /\ manifest.rec = {} /\ image.rec = {}
    /\ snap.rec = {} /\ snap.win = {} /\ todo.rec = {} /\ todo.win = {} /\ window = <<>>
    /\ \A k \in DOMAIN queue : queue[k].kind # "rec"
    /\ wjob.kind # "rec"

\* ... so a block can be known again after it was dropped under the writer's hands only by a
\* job of its own, which is queued behind the one about to be committed.
HealInv ==
    /\ KvOnly
    /\ \A h \in kvReady \ kvFile : Outstanding(KvJob(h))
    /\ wpc = "commit" /\ wsize /\ wjob.block \in known \ kvFile =>
           \E k \in DOMAIN queue : queue[k] = wjob

\* The store implements the abstract durable cache: a process offers only what it
\* has written or found in a manifest, and no manifest leaves out a block offered
\* while it is put in place.
Writing == {h \in Block : Outstanding(KvJob(h))}
Durable == INSTANCE DurableCache
           WITH offered <- kvReady, writing <- Writing, saved <- manifest.kv
ImplementsDurable == Durable!Spec

\* A block that stays readable gets into the manifest, however busy the queue.
ReadyGetsSaved == Durable!EventuallySaved

\* No block stays pending for ever.
PendingClears ==
    \A h \in Block : /\ h \in kvPending ~> h \notin kvPending
                     /\ h \in recPending ~> h \notin recPending

\* flush() returns.
FlushReturns == pc = "wait" ~> pc # "wait"

\* Nobody waits for ever, neither a block for its write nor the scheduler for a flush.
WritesEnd == PendingClears /\ FlushReturns

=============================================================================
