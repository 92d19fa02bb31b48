-------------------------- MODULE PrefixDiskProofs --------------------------
(***************************************************************************)
(* What holds of the prefix cache's SSD tier for every set of blocks and   *)
(* prompts, every size and budget, and every combination of faults: its    *)
(* types, the jobs behind its flags, what a restart finds, that the        *)
(* backlog counter of the two threads is exact and the budget holds, and   *)
(* that the store implements DurableCache.                                 *)
(***************************************************************************)
EXTENDS PrefixDisk, FiniteSetTheorems, TLAPS

\* The parts of a prompt a snapshot or a lookup is about are blocks.
LEMMA PrefixInBlock ==
    ASSUME NEW c \in Chains, NEW i \in DOMAIN c
    PROVE  Prefix(c, i) \subseteq Block /\ c[i] \in Block
  BY ChainsAssumption DEF Prefix

\* So are all the blocks of a prompt, which done() scans the window for.
LEMMA WholePrefixInBlock ==
    ASSUME NEW c \in Chains
    PROVE  Prefix(c, Len(c)) \subseteq Block
  BY ChainsAssumption DEF Prefix

\* What _observe leaves in flight names blocks of the prompt only.
LEMMA DispatchType ==
    ASSUME NEW c \in Chains, NEW i \in DOMAIN c, NEW rp \in BOOLEAN
    PROVE  Dispatch(c, i, rp) \in Snapshot
  BY PrefixInBlock DEF Dispatch, Snapshot

\* The values variables are reset to have their types.
LEMMA ConstantTypes ==
    /\ NoSnap \in Snapshot /\ NoImage \in Image /\ NoJob \in Marker
    /\ Unused \in [Block -> 0..MaxClock]
    /\ \A kind \in {"manifest", "sync", "close"} : Mark(kind) \in Marker
  BY BoundsAssumption
     DEF NoSnap, Snapshot, NoImage, Image, Unused, NoJob, Mark, Marker

\* A store opened on an empty directory has its types.
LEMMA InitType == Init => TypeOK
  <1> SUFFICES ASSUME Init PROVE TypeOK
    OBVIOUS
  <1>1. BlocksOK /\ DiskOK
    BY ConstantTypes DEF Init, BlocksOK, DiskOK
  <1>2. ClockOK
    BY ConstantTypes, BoundsAssumption DEF Init, ClockOK
  <1>3. StoreOK
    <2>1. queue \in Seq(Job \cup Marker) /\ window \in Seq(Block)
      BY DEF Init
    <2>2. pendingBytes \in Int
      BY DEF Init
    <2>3. snap \in Snapshot
      BY ConstantTypes DEF Init
    <2>4. disabled \in BOOLEAN
      BY DEF Init
    <2> QED
      BY <2>1, <2>2, <2>3, <2>4 DEF StoreOK
  <1>4. SchedOK
    BY ConstantTypes DEF Init, SchedOK
  <1>5. WriterOK
    BY ConstantTypes DEF Init, WriterOK, InHand
  <1> QED
    BY <1>1, <1>2, <1>3, <1>4, <1>5 DEF TypeOK

\* Dropping blocks keeps what is known of the others.
LEMMA DropAllType ==
    ASSUME BlocksOK, ClockOK, NEW S, DropAll(S)
    PROVE  BlocksOK' /\ used' \in [Block -> 0..MaxClock]
  BY BoundsAssumption DEF BlocksOK, ClockOK, DropAll

\* _touch and the stamp of a new block stay within the clock's bound.
LEMMA StampType ==
    ASSUME ClockOK, NEW now, NEW S, Stamp(now)
    PROVE  now \in 0..MaxClock /\ Stamped(S, now) \in [Block -> 0..MaxClock]
  BY BoundsAssumption DEF ClockOK, Stamp, Stamped

\* The recurrent block a lookup sets out to read is one of the prompt.
LEMMA LookupType ==
    ASSUME NEW c \in Chains, SchedOK, Lookup(c)
    PROVE  todo' \in Snapshot
  <1>1. PICK i \in DOMAIN c :
            todo' = [NoSnap EXCEPT !.chain = Prefix(c, i),
                                   !.rec = IF NeedsRec THEN {c[i]} ELSE {}]
    BY DEF Lookup, Resumable
  <1> QED
    BY <1>1, PrefixInBlock DEF NoSnap, Snapshot

\* finish() forgets the job it has handled and nothing else.
LEMMA WithoutType ==
    ASSUME todo \in Snapshot, NEW job \in Job
    PROVE  Without(job) \in Snapshot
  BY DEF Without, Snapshot, Job

\* _window_put keeps a sequence of blocks, whether or not the oldest goes.
LEMMA WindowPutType ==
    ASSUME NEW w \in Seq(Block), NEW h \in Block
    PROVE  WindowPut(w, h) \in Seq(Block)
  BY DEF WindowPut

\* Taking one entry out of the window leaves a sequence of blocks.
LEMMA RemoveType ==
    ASSUME NEW w \in Seq(Block), NEW k \in DOMAIN w
    PROVE  SubSeq(w, 1, k - 1) \o SubSeq(w, k + 1, Len(w)) \in Seq(Block)
  <1>1. SubSeq(w, 1, k - 1) \in Seq(Block)
    OBVIOUS
  <1>2. SubSeq(w, k + 1, Len(w)) \in Seq(Block)
    OBVIOUS
  <1> QED
    BY <1>1, <1>2

\* Each action keeps the types.  The groups of variables an action leaves alone
\* are opened once, here.
LEMMA TypeStep == TypeOK /\ [Next]_vars => TypeOK'
  <1> SUFFICES ASSUME TypeOK, [Next]_vars PROVE TypeOK'
    OBVIOUS
  <1> USE DEF TypeOK, BlocksOK, ClockOK, StoreOK, SchedOK, WriterOK, DiskOK, InHand,
              blocks, store, sched, writer, files, vars
  <1>1. ASSUME NEW c \in Chains, NEW i \in DOMAIN c, NEW rp \in BOOLEAN, Observe(c, i, rp)
        PROVE  TypeOK'
    BY <1>1, DispatchType DEF Observe, FlushThen
  <1>2. ASSUME NEW c \in Chains, Done(c) PROVE TypeOK'
    BY <1>2, ConstantTypes, WholePrefixInBlock DEF Done, FlushThen
  <1>3. ASSUME NEW c \in Chains, Lookup(c) PROVE TypeOK'
    BY <1>3, LookupType DEF Lookup
  <1>4. CASE ObserveFails
    BY <1>4, ConstantTypes DEF ObserveFails, FlushThen
  <1>5. CASE FlushFails
    BY <1>5, ConstantTypes DEF FlushFails
  <1>6. CASE EndHarvest
    BY <1>6, ConstantTypes DEF EndHarvest
  <1>7. CASE WindowEnd
    BY <1>7, ConstantTypes DEF WindowEnd
  <1>8. CASE RestoreFails
    <2>1. BlocksOK' /\ ClockOK'
      BY <1>8, DropAllType DEF RestoreFails
    <2>2. StoreOK' /\ SchedOK' /\ WriterOK'
      BY <1>8, ConstantTypes DEF RestoreFails
    <2>3. DiskOK'
      BY <1>8 DEF RestoreFails, DropAll
    <2> QED
      BY <2>1, <2>2, <2>3
  <1>9. CASE Flush
    BY <1>9, ConstantTypes DEF Flush, FlushThen
  <1>10. CASE PutSync
    BY <1>10, ConstantTypes DEF PutSync
  <1>11. CASE Close
    BY <1>11, ConstantTypes DEF Close
  <1>12. ASSUME NEW job \in Job, NEW v \in Block, Evict(job, v) PROVE TypeOK'
    <2>1. BlocksOK' /\ ClockOK'
      BY <1>12, DropAllType DEF Evict
    <2>2. StoreOK' /\ SchedOK' /\ WriterOK'
      BY <1>12 DEF Evict
    <2>3. DiskOK'
      BY <1>12 DEF Evict, DropAll
    <2> QED
      BY <2>1, <2>2, <2>3
  <1>13. ASSUME NEW job \in Job, NEW now \in 0..MaxClock, Enqueue(job, now) PROVE TypeOK'
    <2>1. BlocksOK'
      BY <1>13 DEF Enqueue, Job
    <2>2. ClockOK'
      BY <1>13, StampType DEF Enqueue
    <2>3. StoreOK'
      BY <1>13, SizesAssumption DEF Enqueue, Bytes
    <2>4. SchedOK'
      BY <1>13, WithoutType DEF Enqueue
    <2>5. WriterOK' /\ DiskOK'
      BY <1>13 DEF Enqueue
    <2> QED
      BY <2>1, <2>2, <2>3, <2>4, <2>5
  <1>14. ASSUME NEW job \in Job, SkipWrite(job) PROVE TypeOK'
    BY <1>14, WithoutType DEF SkipWrite
  <1>15. ASSUME NEW now \in 0..MaxClock, BeginHarvest(now) PROVE TypeOK'
    <2>1. window' \in Seq(Block)
      BY <1>15, WindowPutType DEF BeginHarvest, Snapshot
    <2>2. ClockOK'
      BY <1>15, StampType DEF BeginHarvest
    <2> QED
      BY <1>15, <2>1, <2>2 DEF BeginHarvest
  <1>16. ASSUME NEW now \in 0..MaxClock, RestoreOk(now) PROVE TypeOK'
    BY <1>16, ConstantTypes, StampType DEF RestoreOk
  <1>17. ASSUME NEW k \in DOMAIN window, WindowTake(k) PROVE TypeOK'
    <2>1. window' \in Seq(Block) /\ window[k] \in Block
      BY SMTT(40), <1>17, RemoveType DEF WindowTake
    <2>2. [NoSnap EXCEPT !.chain = scope, !.rec = {window[k]}] \in Snapshot
      BY <2>1 DEF NoSnap, Snapshot
    <2>3. SchedOK'
      BY <1>17, <2>2 DEF WindowTake
    <2> QED
      BY <1>17, <2>1, <2>3 DEF WindowTake
  <1>18. CASE GetWrite
    BY <1>18 DEF GetWrite, TakeJob, Job, Marker
  <1>19. CASE GetManifest
    BY <1>19 DEF GetManifest, TakeJob
  <1>20. CASE GetMarker
    BY <1>20, ConstantTypes DEF GetMarker, TakeJob, EndTurn
  <1>21. CASE Commit
    <2>1. BlocksOK' /\ ClockOK' /\ DiskOK'
      <3>1. CASE CommitGone
        BY <1>21, <3>1 DEF Commit, CommitGone
      <3>2. CASE CommitKvFailed
        <4>1. BlocksOK' /\ ClockOK'
          BY <1>21, <3>2, DropAllType DEF Commit, CommitKvFailed
        <4> QED
          BY <1>21, <3>2, <4>1 DEF Commit, CommitKvFailed, DropAll
      <3>3. CASE CommitKv
        BY <1>21, <3>3 DEF Commit, CommitKv
      <3>4. CASE CommitRec
        BY <1>21, <3>4 DEF Commit, CommitRec
      <3> QED
        BY <1>21, <3>1, <3>2, <3>3, <3>4 DEF Commit
    <2>2. StoreOK'
      BY <1>21, SizesAssumption DEF Commit, Bytes
    <2>3. SchedOK' /\ WriterOK'
      BY <1>21 DEF Commit
    <2> QED
      BY <2>1, <2>2, <2>3
  <1>22. CASE CheckLater
    BY <1>22, ConstantTypes DEF CheckLater
  <1>23. CASE PersistRead
    BY <1>23, BoundsAssumption DEF PersistRead, Image
  <1>24. ASSUME NEW ok \in BOOLEAN, WriteFile(ok) PROVE TypeOK'
    BY <1>24 DEF WriteFile, Job
  <1>25. ASSUME NEW ok \in BOOLEAN, Publish(ok) PROVE TypeOK'
    BY <1>25, ConstantTypes DEF Publish, EndTurn
  <1>26. CASE Restart
    <2>1. BlocksOK' /\ ClockOK' /\ DiskOK'
      <3>1. CASE Load
        BY <1>26, <3>1, BoundsAssumption DEF Restart, Load, Image
      <3>2. CASE Wipe
        BY <1>26, <3>2, ConstantTypes DEF Restart, Wipe
      <3> QED
        BY <1>26, <3>1, <3>2 DEF Restart
    <2>2. StoreOK'
      <3>1. queue' \in Seq(Job \cup Marker) /\ window' \in Seq(Block)
        BY <1>26 DEF Restart
      <3>2. pendingBytes' \in Int /\ snap' \in Snapshot
        BY <1>26, ConstantTypes DEF Restart
      <3>3. disabled' \in BOOLEAN
        BY <1>26 DEF Restart
      <3> QED
        BY <3>1, <3>2, <3>3
    <2>3. SchedOK' /\ WriterOK'
      BY <1>26, ConstantTypes DEF Restart
    <2> QED
      BY <2>1, <2>2, <2>3
  <1>27. CASE UNCHANGED vars
    BY <1>27
  <1> QED
    BY <1>1, <1>2, <1>3, <1>4, <1>5, <1>6, <1>7, <1>8, <1>9, <1>10, <1>11, <1>12,
       <1>13, <1>14, <1>15, <1>16, <1>17, <1>18, <1>19, <1>20, <1>21, <1>22, <1>23,
       <1>24, <1>25, <1>26, <1>27 DEF Next, Scheduler, Writer

\* The flags, the queue, both threads and the files keep their types.
THEOREM TypeCorrect == Spec => []TypeOK
  BY InitType, TypeStep, PTL DEF Spec

-----------------------------------------------------------------------------
(* Pending flags have a job behind them *)

\* Steps that neither take a job nor touch a flag keep the invariant.
LEMMA BackedFrame ==
    ASSUME PendingBacked, TypeOK,
           kvPending' \subseteq kvPending, recPending' \subseteq recPending,
           \/ queue' = queue
           \/ \E job \in Job \cup Marker : queue' = Append(queue, job),
           wjob' = wjob, InHand => InHand'
    PROVE  PendingBacked'
  <1>1. ASSUME NEW job, Outstanding(job) PROVE Outstanding(job)'
    <2>1. CASE InHand /\ wjob = job
      BY <2>1 DEF Outstanding
    <2>2. ASSUME NEW k \in DOMAIN queue, queue[k] = job PROVE Outstanding(job)'
      <3>1. k \in DOMAIN queue' /\ queue'[k] = job
        BY <2>2 DEF TypeOK, StoreOK
      <3> QED
        BY <3>1 DEF Outstanding
    <2> QED
      BY <1>1, <2>1, <2>2 DEF Outstanding
  <1> QED
    BY <1>1 DEF PendingBacked, KvJob, RecJob

\* Taking a job that is not h's leaves h's outstanding.
LEMMA BackedTail ==
    ASSUME TypeOK, NEW job, queue # <<>>, queue' = Tail(queue), wpc = "get",
           Outstanding(job), Head(queue) # job
    PROVE  Outstanding(job)'
  <1>1. PICK k \in DOMAIN queue : queue[k] = job
    BY DEF Outstanding, InHand
  <1>2. k # 1
    BY <1>1 DEF TypeOK, StoreOK
  <1>3. k - 1 \in DOMAIN queue' /\ queue'[k - 1] = job
    BY <1>1, <1>2 DEF TypeOK, StoreOK
  <1> QED
    BY <1>3 DEF Outstanding

\* Taking a marker leaves every job outstanding.
LEMMA BackedMarker ==
    ASSUME TypeOK, PendingBacked, NEW kinds \in SUBSET {"manifest", "sync", "close"},
           TakeJob(kinds)
    PROVE  PendingBacked'
  <1>1. \A h \in Block : Head(queue) # KvJob(h) /\ Head(queue) # RecJob(h)
    BY DEF TakeJob, KvJob, RecJob
  <1> QED
    BY <1>1, BackedTail DEF TakeJob, PendingBacked, blocks, KvJob, RecJob

\* A job taken off the queue goes into the writer's hands.
LEMMA BackedGetWrite ==
    ASSUME TypeOK, PendingBacked, GetWrite
    PROVE  PendingBacked'
  <1>1. ASSUME NEW job, Outstanding(job) PROVE Outstanding(job)'
    <2>1. CASE Head(queue) = job
      BY <2>1 DEF Outstanding, GetWrite, InHand
    <2>2. CASE Head(queue) # job
      BY <1>1, <2>2, BackedTail DEF GetWrite, TakeJob
    <2> QED
      BY <2>1, <2>2
  <1> QED
    BY <1>1 DEF GetWrite, TakeJob, PendingBacked, blocks, KvJob, RecJob

\* finish() and done() set a flag in the step that queues its job.
LEMMA BackedEnqueue ==
    ASSUME TypeOK, PendingBacked, NEW job \in Job, NEW now, Enqueue(job, now)
    PROVE  PendingBacked'
  <1>1. ASSUME NEW other, Outstanding(other) \/ other = job PROVE Outstanding(other)'
    <2>1. CASE other = job
      <3>1. Len(queue) + 1 \in DOMAIN queue' /\ queue'[Len(queue) + 1] = job
        BY DEF Enqueue, TypeOK, StoreOK
      <3> QED
        BY <2>1, <3>1 DEF Outstanding
    <2>2. CASE InHand /\ wjob = other
      BY <2>2 DEF Outstanding, InHand, Enqueue, writer
    <2>3. ASSUME NEW k \in DOMAIN queue, queue[k] = other PROVE Outstanding(other)'
      <3>1. k \in DOMAIN queue' /\ queue'[k] = other
        BY <2>3 DEF Enqueue, TypeOK, StoreOK
      <3> QED
        BY <3>1 DEF Outstanding
    <2> QED
      BY <1>1, <2>1, <2>2, <2>3 DEF Outstanding
  <1>2. CASE job.kind = "kv"
    <2>1. job = KvJob(job.block)
      BY <1>2 DEF Job, KvJob
    <2> QED
      BY <1>1, <1>2, <2>1 DEF Enqueue, PendingBacked, KvJob, RecJob
  <1>3. CASE job.kind = "rec"
    <2>1. job = RecJob(job.block)
      BY <1>3 DEF Job, RecJob
    <2> QED
      BY <1>1, <1>3, <2>1 DEF Enqueue, PendingBacked, KvJob, RecJob
  <1> QED
    BY <1>2, <1>3 DEF Job

\* A commit clears the flag of the block whose job it is, or the block is gone.
LEMMA BackedCommit ==
    ASSUME TypeOK, PendingBacked, Commit
    PROVE  PendingBacked'
  <1>1. ASSUME NEW job, Outstanding(job), job # wjob PROVE Outstanding(job)'
    BY <1>1 DEF Outstanding, Commit
  <1>2. wjob \in Job
    BY DEF TypeOK, WriterOK, InHand, Commit
  <1>3. kvPending' \subseteq kvPending /\ recPending' \subseteq recPending
    BY DEF Commit, CommitGone, CommitKvFailed, CommitKv, CommitRec, DropAll, blocks
  <1>4. ASSUME NEW h \in kvPending' PROVE wjob # KvJob(h)
    BY <1>4 DEF Commit, CommitGone, CommitKvFailed, CommitKv, CommitRec, DropAll, blocks,
                KvJob, TypeOK, BlocksOK
  <1>5. ASSUME NEW h \in recPending' PROVE wjob # RecJob(h)
    BY <1>5 DEF Commit, CommitGone, CommitKvFailed, CommitKv, CommitRec, DropAll, blocks,
                RecJob, TypeOK, BlocksOK
  <1> QED
    BY <1>1, <1>3, <1>4, <1>5 DEF PendingBacked, KvJob, RecJob

\* No action leaves a pending flag without its job.
LEMMA BackedStep == TypeOK /\ PendingBacked /\ [Next]_vars => PendingBacked'
  <1> SUFFICES ASSUME TypeOK, PendingBacked, [Next]_vars PROVE PendingBacked'
    OBVIOUS
  <1> USE DEF blocks, store, sched, writer, files, vars, InHand
  <1>1. ASSUME NEW c \in Chains, NEW i \in DOMAIN c, NEW rp \in BOOLEAN, Observe(c, i, rp)
        PROVE  PendingBacked'
    BY <1>1, BackedFrame DEF Observe
  <1>2. ASSUME NEW c \in Chains, Done(c) PROVE PendingBacked'
    BY <1>2, BackedFrame DEF Done
  <1>3. ASSUME NEW c \in Chains, Lookup(c) PROVE PendingBacked'
    BY <1>3, BackedFrame DEF Lookup
  <1>4. CASE ObserveFails
    BY <1>4, BackedFrame DEF ObserveFails
  <1>5. CASE FlushFails \/ EndHarvest \/ WindowEnd
    BY <1>5, BackedFrame DEF FlushFails, EndHarvest, WindowEnd
  <1>6. CASE RestoreFails
    BY <1>6, BackedFrame, ConstantTypes DEF RestoreFails, DropAll
  <1>7. CASE Flush
    BY <1>7, BackedFrame DEF Flush
  <1>8. CASE PutSync
    BY <1>8, BackedFrame, ConstantTypes DEF PutSync
  <1>9. CASE Close
    BY <1>9, BackedFrame, ConstantTypes DEF Close
  <1>10. ASSUME NEW job \in Job, NEW v \in Block, Evict(job, v) PROVE PendingBacked'
    BY <1>10, BackedFrame DEF Evict, DropAll
  <1>11. ASSUME NEW job \in Job, NEW now \in 0..MaxClock, Enqueue(job, now)
         PROVE  PendingBacked'
    BY <1>11, BackedEnqueue
  <1>12. ASSUME NEW job \in Job, SkipWrite(job) PROVE PendingBacked'
    BY <1>12, BackedFrame DEF SkipWrite
  <1>13. ASSUME NEW now \in 0..MaxClock, BeginHarvest(now) \/ RestoreOk(now)
         PROVE  PendingBacked'
    BY <1>13, BackedFrame, ConstantTypes DEF BeginHarvest, RestoreOk
  <1>14. ASSUME NEW k \in DOMAIN window, WindowTake(k) PROVE PendingBacked'
    BY <1>14, BackedFrame DEF WindowTake
  <1>15. CASE GetWrite
    BY <1>15, BackedGetWrite
  <1>16. CASE GetManifest \/ GetMarker
    BY <1>16, BackedMarker DEF GetManifest, GetMarker
  <1>17. CASE Commit
    BY <1>17, BackedCommit
  <1>18. CASE CheckLater \/ PersistRead
    BY <1>18 DEF CheckLater, PersistRead, PendingBacked, Outstanding
  <1>19. ASSUME NEW ok \in BOOLEAN, WriteFile(ok) PROVE PendingBacked'
    BY <1>19, BackedFrame DEF WriteFile
  <1>20. ASSUME NEW ok \in BOOLEAN, Publish(ok) PROVE PendingBacked'
    BY <1>20 DEF Publish, PendingBacked, Outstanding
  <1>21. CASE Restart
    BY <1>21 DEF Restart, PendingBacked
  <1>22. CASE UNCHANGED vars
    BY <1>22 DEF PendingBacked, Outstanding
  <1> QED
    BY <1>1, <1>2, <1>3, <1>4, <1>5, <1>6, <1>7, <1>8, <1>9, <1>10, <1>11, <1>12,
       <1>13, <1>14, <1>15, <1>16, <1>17, <1>18, <1>19, <1>20, <1>21, <1>22
       DEF Next, Scheduler, Writer

\* A pending flag always has its job in the queue or in the writer's hands, so no
\* block is pinned in the store for good.
THEOREM PendingAlwaysBacked == Spec => []PendingBacked
  <1>1. Init => PendingBacked
    BY DEF Init, PendingBacked
  <1> QED
    BY <1>1, TypeCorrect, BackedStep, PTL DEF Spec

-----------------------------------------------------------------------------
(* What is offered has been, or is about to be, saved *)

\* Steps of the scheduler may withdraw blocks and queue jobs, nothing else matters.
LEMMA SaveFrame ==
    ASSUME SaveInv, TypeOK,
           kvReady' \subseteq kvReady, recReady' \subseteq recReady,
           \/ queue' = queue
           \/ \E job \in Job \cup Marker : queue' = Append(queue, job),
           wpc' = wpc, dirty' = dirty, image' = image, manifest' = manifest
    PROVE  SaveInv'
  <1>1. Lists(manifest) => Lists(manifest)'
    BY DEF Lists
  <1>2. Lists(image) => Lists(image)'
    BY DEF Lists
  <1>3. queue' = <<>> => queue = <<>>
    BY DEF TypeOK, StoreOK
  <1> QED
    BY <1>1, <1>2, <1>3 DEF SaveInv

\* No action leaves an offered block out of what will be saved.
LEMMA SaveStep == TypeOK /\ SaveInv /\ [Next]_vars => SaveInv'
  <1> SUFFICES ASSUME TypeOK, SaveInv, [Next]_vars PROVE SaveInv'
    OBVIOUS
  <1> USE DEF blocks, store, sched, writer, files, vars
  <1>1. ASSUME NEW c \in Chains, NEW i \in DOMAIN c, NEW rp \in BOOLEAN, Observe(c, i, rp)
        PROVE  SaveInv'
    BY <1>1, SaveFrame DEF Observe
  <1>2. ASSUME NEW c \in Chains, Done(c) \/ Lookup(c) PROVE SaveInv'
    BY <1>2, SaveFrame DEF Done, Lookup
  <1>3. CASE ObserveFails \/ FlushFails \/ EndHarvest \/ WindowEnd \/ Flush
    BY <1>3, SaveFrame DEF ObserveFails, FlushFails, EndHarvest, WindowEnd, Flush
  <1>4. CASE RestoreFails
    BY <1>4, SaveFrame, ConstantTypes DEF RestoreFails, DropAll
  <1>5. CASE PutSync \/ Close
    BY <1>5, SaveFrame, ConstantTypes DEF PutSync, Close
  <1>6. ASSUME NEW job \in Job, NEW v \in Block, Evict(job, v) PROVE SaveInv'
    BY <1>6, SaveFrame DEF Evict, DropAll
  <1>7. ASSUME NEW job \in Job, NEW now \in 0..MaxClock, Enqueue(job, now) PROVE SaveInv'
    BY <1>7, SaveFrame DEF Enqueue
  <1>8. ASSUME NEW job \in Job, SkipWrite(job) PROVE SaveInv'
    BY <1>8, SaveFrame DEF SkipWrite
  <1>9. ASSUME NEW now \in 0..MaxClock, BeginHarvest(now) \/ RestoreOk(now) PROVE SaveInv'
    BY <1>9, SaveFrame, ConstantTypes DEF BeginHarvest, RestoreOk
  <1>10. ASSUME NEW k \in DOMAIN window, WindowTake(k) PROVE SaveInv'
    BY <1>10, SaveFrame DEF WindowTake
  <1>11. CASE GetWrite \/ GetManifest
    BY <1>11 DEF GetWrite, GetManifest, TakeJob, SaveInv, Lists
  <1>12. CASE GetMarker
    BY <1>12 DEF GetMarker, TakeJob, EndTurn, SaveInv, Lists
  <1>13. CASE Commit
    BY <1>13 DEF Commit, SaveInv
  <1>14. CASE CheckLater
    BY <1>14 DEF CheckLater, SaveInv, Lists
  <1>15. CASE PersistRead
    BY <1>15 DEF PersistRead, SaveInv, Lists
  <1>16. ASSUME NEW ok \in BOOLEAN, WriteFile(ok) PROVE SaveInv'
    BY <1>16 DEF WriteFile, SaveInv, Lists
  <1>17. ASSUME NEW ok \in BOOLEAN, Publish(ok) PROVE SaveInv'
    <2>1. dirty /\ Lists(image)
      BY <1>17 DEF Publish, SaveInv
    <2>2. ok => Lists(manifest)'
      BY <1>17, <2>1 DEF Publish, Lists
    <2> QED
      BY <1>17, <2>2 DEF Publish, EndTurn, SaveInv
  <1>18. CASE Restart
    <2>1. Lists(manifest)'
      BY <1>18 DEF Restart, Load, Wipe, Lists
    <2> QED
      BY <1>18, <2>1 DEF Restart, SaveInv
  <1>19. CASE UNCHANGED vars
    BY <1>19 DEF SaveInv, Lists
  <1> QED
    BY <1>1, <1>2, <1>3, <1>4, <1>5, <1>6, <1>7, <1>8, <1>9, <1>10, <1>11, <1>12,
       <1>13, <1>14, <1>15, <1>16, <1>17, <1>18, <1>19 DEF Next, Scheduler, Writer

\* What a store opened on an empty directory offers, nothing, is saved.
LEMMA SaveInit == Init => SaveInv
  BY DEF Init, SaveInv, Lists, NoImage

\* The writer never forgets a change it has not saved.
THEOREM SaveInvariant == Spec => []SaveInv
  BY SaveInit, TypeCorrect, SaveStep, PTL DEF Spec

\* A process that dies while the writer waits on an empty queue loses no block.
THEOREM RestIsDurable == Spec => []RestDurable
  <1>1. SaveInv => RestDurable
    BY DEF SaveInv, RestDurable
  <1> QED
    BY <1>1, SaveInvariant, PTL

-----------------------------------------------------------------------------
(* Without recurrent layers, what is offered is on disk or on its way *)

\* A queue that gets another job, or gives its first one up, holds the others.
LEMMA QueueMoves ==
    ASSUME TypeOK
    PROVE  /\ \A job \in Job \cup Marker : queue' = Append(queue, job) =>
                  /\ \A k \in DOMAIN queue' :
                        queue'[k] = job \/ \E m \in DOMAIN queue : queue'[k] = queue[m]
                  /\ \A m \in DOMAIN queue : \E k \in DOMAIN queue' : queue'[k] = queue[m]
                  /\ \E k \in DOMAIN queue' : queue'[k] = job
           /\ queue # <<>> /\ queue' = Tail(queue) =>
                  /\ \A k \in DOMAIN queue' : \E m \in DOMAIN queue : queue'[k] = queue[m]
                  /\ \E m \in DOMAIN queue : queue[m] = Head(queue)
                  /\ \A m \in DOMAIN queue :
                        queue[m] = Head(queue) \/ \E k \in DOMAIN queue' : queue'[k] = queue[m]
  <1>1. queue \in Seq(Job \cup Marker)
    BY DEF TypeOK, StoreOK
  <1>2. ASSUME NEW job \in Job \cup Marker, queue' = Append(queue, job)
        PROVE  /\ \A k \in DOMAIN queue' :
                     queue'[k] = job \/ \E m \in DOMAIN queue : queue'[k] = queue[m]
               /\ \A m \in DOMAIN queue : \E k \in DOMAIN queue' : queue'[k] = queue[m]
               /\ \E k \in DOMAIN queue' : queue'[k] = job
    <2>1. /\ DOMAIN queue = 1..Len(queue) /\ DOMAIN queue' = 1..(Len(queue) + 1)
          /\ Len(queue) \in Nat
          /\ queue'[Len(queue) + 1] = job /\ \A m \in 1..Len(queue) : queue'[m] = queue[m]
      BY <1>1, <1>2
    <2>2. \A k \in 1..(Len(queue) + 1) : k \in 1..Len(queue) \/ k = Len(queue) + 1
      BY <2>1
    <2> QED
      BY <2>1, <2>2
  <1>3. ASSUME queue # <<>>, queue' = Tail(queue)
        PROVE  /\ \A k \in DOMAIN queue' : \E m \in DOMAIN queue : queue'[k] = queue[m]
               /\ \E m \in DOMAIN queue : queue[m] = Head(queue)
               /\ \A m \in DOMAIN queue :
                     queue[m] = Head(queue) \/ \E k \in DOMAIN queue' : queue'[k] = queue[m]
    <2>1. /\ DOMAIN queue = 1..Len(queue) /\ DOMAIN queue' = 1..(Len(queue) - 1)
          /\ Len(queue) \in Nat
          /\ Len(queue) > 0 /\ queue[1] = Head(queue)
          /\ \A k \in 1..(Len(queue) - 1) : queue'[k] = queue[k + 1]
      BY <1>1, <1>3
    <2>2. \A m \in 1..Len(queue) :
             m = 1 \/ (m - 1 \in 1..(Len(queue) - 1) /\ queue'[m - 1] = queue[m])
      BY <2>1
    <2>3. \A k \in 1..(Len(queue) - 1) : k + 1 \in 1..Len(queue)
      BY <2>1
    <2>4. \A k \in DOMAIN queue' : \E m \in DOMAIN queue : queue'[k] = queue[m]
      BY <2>1, <2>3
    <2>5. \A m \in DOMAIN queue :
             queue[m] = Head(queue) \/ \E k \in DOMAIN queue' : queue'[k] = queue[m]
      BY <2>1, <2>2
    <2>6. 1 \in DOMAIN queue /\ queue[1] = Head(queue)
      BY <2>1
    <2> QED
      BY <2>4, <2>5, <2>6
  <1> QED
    BY <1>2, <1>3

\* Steps that leave the recurrent side alone and queue at most a job of the other kind.
LEMMA KvOnlyFrame ==
    ASSUME TypeOK, KvOnly,
           recReady' \subseteq recReady,
           manifest'.rec \subseteq manifest.rec, image'.rec \subseteq image.rec,
           snap'.rec \cup todo'.rec \cup snap'.win \cup todo'.win = {},
           window' = window, wjob' = wjob,
           \/ queue' = queue
           \/ \E job \in Job \cup Marker : job.kind # "rec" /\ queue' = Append(queue, job)
    PROVE  KvOnly'
  <1>1. \A k \in DOMAIN queue' : queue'[k].kind # "rec"
    <2>1. \A k \in DOMAIN queue : queue[k].kind # "rec"
      BY DEF KvOnly
    <2>2. CASE queue' = queue
      BY <2>1, <2>2
    <2>3. ASSUME NEW job \in Job \cup Marker, job.kind # "rec", queue' = Append(queue, job)
          PROVE  \A k \in DOMAIN queue' : queue'[k].kind # "rec"
      <3>1. \A k \in DOMAIN queue' :
               queue'[k] = job \/ \E m \in DOMAIN queue : queue'[k] = queue[m]
        BY <2>3, QueueMoves
      <3> QED
        BY <2>1, <2>3, <3>1
    <2> QED
      BY <2>2, <2>3
  <1> QED
    BY <1>1 DEF KvOnly

\* The other steps of the writer.
LEMMA KvOnlyTake ==
    ASSUME TypeOK, KvOnly, NEW kinds, TakeJob(kinds), wjob' \in {wjob, Head(queue), NoJob}
    PROVE  KvOnly'
  <1>1. \A k \in DOMAIN queue' : queue'[k].kind # "rec"
    <2>1. \A k \in DOMAIN queue' : \E m \in DOMAIN queue : queue'[k] = queue[m]
      BY QueueMoves DEF TakeJob
    <2> QED
      BY <2>1 DEF KvOnly
  <1>2. Head(queue).kind # "rec" /\ NoJob.kind # "rec"
    BY QueueMoves DEF KvOnly, TakeJob, NoJob, Mark
  <1> QED
    BY <1>1, <1>2 DEF KvOnly, TakeJob, blocks

\* A layout without recurrent layers asks for nothing recurrent.
LEMMA KvOnlyStep == ~NeedsRec /\ TypeOK /\ KvOnly /\ [Next]_vars => KvOnly'
  <1> SUFFICES ASSUME ~NeedsRec, TypeOK, KvOnly, [Next]_vars PROVE KvOnly'
    OBVIOUS
  <1> USE DEF blocks, store, sched, writer, files, vars
  <1>k. /\ snap.rec = {} /\ snap.win = {} /\ todo.rec = {} /\ todo.win = {} /\ window = <<>>
        /\ NoSnap.rec = {} /\ NoSnap.win = {} /\ DOMAIN window = {}
    BY DEF KvOnly, NoSnap
  <1>1. ASSUME NEW c \in Chains, NEW i \in DOMAIN c, NEW rp \in BOOLEAN, Observe(c, i, rp)
        PROVE  KvOnly'
    <2>1. snap'.rec = {} /\ snap'.win = {}
      BY <1>1 DEF Observe, Dispatch
    <2> QED
      BY <1>k, <1>1, <2>1, KvOnlyFrame DEF Observe, FlushThen
  <1>2. ASSUME NEW c \in Chains, Done(c) PROVE KvOnly'
    BY <1>k, <1>2, KvOnlyFrame DEF Done, FlushThen
  <1>3. ASSUME NEW c \in Chains, Lookup(c) PROVE KvOnly'
    <2>1. todo'.rec = {} /\ todo'.win = {}
      BY <1>3 DEF Lookup, NoSnap
    <2> QED
      BY <1>k, <1>3, <2>1, KvOnlyFrame DEF Lookup
  <1>4. CASE ObserveFails \/ Flush
    BY <1>k, <1>4, KvOnlyFrame DEF ObserveFails, Flush, FlushThen
  <1>5. CASE FlushFails \/ EndHarvest \/ WindowEnd
    BY <1>k, <1>5, KvOnlyFrame DEF FlushFails, EndHarvest, WindowEnd
  <1>6. CASE RestoreFails
    <2>1. Mark("manifest") \in Marker /\ Mark("manifest").kind # "rec"
      BY ConstantTypes DEF Mark
    <2> QED
      BY <1>k, <1>6, <2>1, KvOnlyFrame DEF RestoreFails, DropAll
  <1>7. CASE PutSync \/ Close
    <2>1. /\ Mark("sync") \in Marker /\ Mark("sync").kind # "rec"
          /\ Mark("close") \in Marker /\ Mark("close").kind # "rec"
      BY ConstantTypes DEF Mark
    <2> QED
      BY <1>k, <1>7, <2>1, KvOnlyFrame DEF PutSync, Close
  <1>8. ASSUME NEW job \in Job, NEW v \in Block, Evict(job, v) PROVE KvOnly'
    BY <1>k, <1>8, KvOnlyFrame DEF Evict, DropAll
  <1>9. ASSUME NEW job \in Job, NEW now \in 0..MaxClock, Enqueue(job, now) PROVE KvOnly'
    <2>1. job.kind = "kv"
      BY <1>k, <1>9 DEF Enqueue, Current, Job
    <2>2. todo'.rec = {} /\ todo'.win = {}
      BY <1>k, <1>9, <2>1 DEF Enqueue, Without, TypeOK, SchedOK, Snapshot
    <2> QED
      BY <1>k, <1>9, <2>1, <2>2, KvOnlyFrame DEF Enqueue
  <1>10. ASSUME NEW job \in Job, SkipWrite(job) PROVE KvOnly'
    <2>1. job.kind = "kv"
      BY <1>k, <1>10 DEF SkipWrite, Current, Job
    <2>2. todo'.rec = {} /\ todo'.win = {}
      BY <1>k, <1>10, <2>1 DEF SkipWrite, Without, TypeOK, SchedOK, Snapshot
    <2> QED
      BY <1>k, <1>10, <2>2, KvOnlyFrame DEF SkipWrite
  <1>11. ASSUME NEW now \in 0..MaxClock, BeginHarvest(now) PROVE KvOnly'
    BY <1>k, <1>11, KvOnlyFrame DEF BeginHarvest
  <1>12. ASSUME NEW now \in 0..MaxClock, RestoreOk(now) PROVE KvOnly'
    <2>1. Mark("manifest") \in Marker /\ Mark("manifest").kind # "rec"
      BY ConstantTypes DEF Mark
    <2> QED
      BY <1>k, <1>12, <2>1, KvOnlyFrame DEF RestoreOk
  <1>13. ASSUME NEW k \in DOMAIN window, WindowTake(k) PROVE KvOnly'
    BY <1>k
  <1>14. CASE GetWrite \/ GetManifest
    BY <1>14, KvOnlyTake DEF GetWrite, GetManifest
  <1>15. CASE GetMarker
    BY <1>15, KvOnlyTake DEF GetMarker, EndTurn
  <1>16. CASE Commit
    <2>1. recReady' \subseteq recReady
      BY <1>16 DEF Commit, CommitGone, CommitKvFailed, CommitKv, CommitRec, DropAll, KvOnly
    <2> QED
      BY <1>k, <1>16, <2>1, KvOnlyFrame DEF Commit
  <1>17. CASE CheckLater
    BY <1>17 DEF CheckLater, KvOnly, NoJob, Mark
  <1>18. CASE PersistRead
    BY <1>18 DEF PersistRead, KvOnly
  <1>19. ASSUME NEW ok \in BOOLEAN, WriteFile(ok) PROVE KvOnly'
    BY <1>k, <1>19, KvOnlyFrame DEF WriteFile
  <1>20. ASSUME NEW ok \in BOOLEAN, Publish(ok) PROVE KvOnly'
    BY <1>20 DEF Publish, EndTurn, KvOnly, NoImage, NoJob, Mark
  <1>21. CASE Restart
    <2>1. recReady' = {} /\ manifest'.rec = {}
      BY <1>21 DEF Restart, Load, Wipe, KvOnly, NoImage
    <2> QED
      BY <1>k, <1>21, <2>1 DEF Restart, KvOnly, NoImage, NoJob, Mark
  <1>22. CASE UNCHANGED vars
    BY <1>22 DEF KvOnly
  <1> QED
    BY <1>1, <1>2, <1>3, <1>4, <1>5, <1>6, <1>7, <1>8, <1>9, <1>10, <1>11, <1>12, <1>13,
       <1>14, <1>15, <1>16, <1>17, <1>18, <1>19, <1>20, <1>21, <1>22
       DEF Next, Scheduler, Writer
\* Steps that leave the writer alone: a block is dropped with its file, and comes back with a
\* job of its own.
LEMMA HealFrame ==
    ASSUME TypeOK, HealInv, KvOnly',
           kvReady' \subseteq kvReady, kvReady' \cap kvFile \subseteq kvFile',
           \A h \in known' \cap kvFile : h \in kvFile' \/ h \notin known,
           \A h \in known' \ known : \E k \in DOMAIN queue' : queue'[k] = KvJob(h),
           wjob' = wjob, wpc' = wpc, wsize' = wsize,
           \/ queue' = queue
           \/ \E job \in Job \cup Marker : queue' = Append(queue, job)
    PROVE  HealInv'
  <1>1. ASSUME NEW m \in DOMAIN queue PROVE \E k \in DOMAIN queue' : queue'[k] = queue[m]
    BY QueueMoves
  <1>2. ASSUME NEW job, Outstanding(job) PROVE Outstanding(job)'
    BY <1>1, <1>2 DEF Outstanding, InHand
  <1>3. \A h \in kvReady' \ kvFile' : Outstanding(KvJob(h))'
    BY <1>2 DEF HealInv, KvJob
  <1>4. ASSUME wpc = "commit", wsize, wjob.block \in known' \ kvFile'
        PROVE  \E k \in DOMAIN queue' : queue'[k] = wjob
    <2>1. CASE wjob.block \in known
      <3>1. wjob.block \notin kvFile
        BY <1>4, <2>1
      <3> QED
        BY <1>1, <1>4, <2>1, <3>1 DEF HealInv
    <2>2. CASE wjob.block \notin known
      <3>1. wjob \in Job /\ wjob.kind = "kv"
        BY <1>4 DEF TypeOK, WriterOK, InHand, HealInv, KvOnly, Job
      <3>2. wjob = KvJob(wjob.block)
        BY <3>1 DEF Job, KvJob
      <3> QED
        BY <1>4, <2>2, <3>2
    <2> QED
      BY <2>1, <2>2
  <1> QED
    BY <1>3, <1>4 DEF HealInv

\* The writer's commit: of the blocks that stay ready its own has a file, or a job behind it.
LEMMA HealCommit ==
    ASSUME TypeOK, HealInv, Commit, KvOnly'
    PROVE  HealInv'
  <1> DEFINE b == wjob.block
  <1>1. /\ wjob \in Job /\ wjob = KvJob(b) /\ wjob.kind = "kv"
        /\ queue' = queue /\ kvReady \subseteq known
    <2>1. wjob \in Job /\ wjob.kind = "kv"
      BY DEF Commit, TypeOK, WriterOK, InHand, HealInv, KvOnly, Job
    <2>2. wjob = KvJob(b)
      BY <2>1 DEF Job, KvJob
    <2> QED
      BY <2>1, <2>2 DEF Commit, TypeOK, BlocksOK
  <1> HIDE DEF b
  <1>2. ASSUME NEW h, h # b, Outstanding(KvJob(h)) PROVE Outstanding(KvJob(h))'
    <2>1. KvJob(h) # wjob
      BY <1>1, <1>2 DEF KvJob
    <2> QED
      BY <1>1, <1>2, <2>1 DEF Outstanding, KvJob
  <1>3. SUFFICES ASSUME NEW h \in kvReady' \ kvFile' PROVE Outstanding(KvJob(h))'
    BY DEF HealInv, Commit
  <1>4. CASE CommitGone
    <2>1. h \in kvReady \ kvFile /\ h # b
      BY <1>1, <1>3, <1>4 DEF CommitGone, blocks, b
    <2> QED
      BY <1>2, <2>1 DEF HealInv
  <1>5. CASE CommitKvFailed
    <2>1. h \in kvReady \ kvFile /\ h # b
      BY <1>3, <1>5 DEF CommitKvFailed, DropAll, b
    <2> QED
      BY <1>2, <2>1 DEF HealInv
  <1>6. CASE CommitKv
    <2>1. kvReady' = kvReady \cup {b} /\ kvFile' = kvFile /\ b \in known /\ wsize /\ wpc = "commit"
      BY <1>6 DEF CommitKv, Commit, files, b
    <2>2. CASE h # b
      BY <1>2, <1>3, <2>1, <2>2 DEF HealInv
    <2>3. CASE h = b
      <3>1. \E k \in DOMAIN queue : queue[k] = wjob
        BY <1>3, <2>1, <2>3 DEF HealInv, b
      <3> QED
        BY <1>1, <2>3, <3>1 DEF Outstanding, KvJob
    <2> QED
      BY <2>2, <2>3
  <1>7. CASE CommitRec
    BY <1>1, <1>7 DEF CommitRec
  <1> QED
    BY <1>4, <1>5, <1>6, <1>7 DEF Commit

\* No step offers a block whose file is neither there nor on its way.
LEMMA HealStep == ~NeedsRec /\ TypeOK /\ HealInv /\ [Next]_vars => HealInv'
  <1> SUFFICES ASSUME ~NeedsRec, TypeOK, HealInv, [Next]_vars PROVE HealInv'
    OBVIOUS
  <1>k. KvOnly /\ KvOnly'
    BY KvOnlyStep DEF HealInv
  <1>s. ASSUME UNCHANGED <<blocks, queue, writer, files>> PROVE HealInv'
    BY <1>k, <1>s, HealFrame DEF blocks, writer, files
  <1>m. ASSUME UNCHANGED <<blocks, writer, files>>,
               NEW kind \in {"manifest", "sync", "close"}, queue' = Append(queue, Mark(kind))
        PROVE  HealInv'
    <2>1. Mark(kind) \in Job \cup Marker
      BY ConstantTypes
    <2> QED
      BY <1>k, <1>m, <2>1, HealFrame DEF blocks, writer, files
  <1>d. ASSUME NEW S, DropAll(S), UNCHANGED writer,
               queue' = queue \/ queue' = Append(queue, Mark("manifest"))
        PROVE  HealInv'
    <2>1. Mark("manifest") \in Job \cup Marker
      BY ConstantTypes
    <2> QED
      BY <1>k, <1>d, <2>1, HealFrame DEF DropAll, writer
  <1> USE DEF store, sched
  <1>1. ASSUME NEW c \in Chains, NEW i \in DOMAIN c, NEW rp \in BOOLEAN, Observe(c, i, rp)
        PROVE  HealInv'
    BY <1>1, <1>s DEF Observe
  <1>2. ASSUME NEW c \in Chains, Done(c) \/ Lookup(c) PROVE HealInv'
    BY <1>2, <1>s DEF Done, Lookup
  <1>3. CASE ObserveFails \/ FlushFails \/ EndHarvest \/ WindowEnd \/ Flush
    BY <1>3, <1>s DEF ObserveFails, FlushFails, EndHarvest, WindowEnd, Flush
  <1>4. CASE RestoreFails
    BY <1>4, <1>d DEF RestoreFails
  <1>5. CASE PutSync \/ Close
    BY <1>5, <1>s, <1>m DEF PutSync, Close
  <1>6. ASSUME NEW job \in Job, NEW v \in Block, Evict(job, v) PROVE HealInv'
    BY <1>6, <1>d DEF Evict
  <1>7. ASSUME NEW job \in Job, NEW now \in 0..MaxClock, Enqueue(job, now) PROVE HealInv'
    <2>1. job = KvJob(job.block)
      BY <1>7, <1>k DEF Enqueue, Current, Job, KvJob, KvOnly
    <2>2. queue' = Append(queue, job) /\ known' = known \cup {job.block}
          /\ kvReady' = kvReady /\ UNCHANGED <<writer, files>>
      BY <1>7 DEF Enqueue
    <2>3. \E k \in DOMAIN queue' : queue'[k] = job
      BY <2>2, QueueMoves
    <2>4. \A h \in known' \ known : h = job.block
      BY <2>2
    <2> QED
      BY <1>k, <2>1, <2>2, <2>3, <2>4, HealFrame DEF writer, files
  <1>8. ASSUME NEW job \in Job, SkipWrite(job) PROVE HealInv'
    BY <1>8, <1>s DEF SkipWrite
  <1>9. ASSUME NEW now \in 0..MaxClock, BeginHarvest(now) PROVE HealInv'
    BY <1>9, <1>s DEF BeginHarvest
  <1>10. ASSUME NEW now \in 0..MaxClock, RestoreOk(now) PROVE HealInv'
    BY <1>10, <1>m DEF RestoreOk
  <1>11. ASSUME NEW k \in DOMAIN window, WindowTake(k) PROVE HealInv'
    BY <1>11, <1>s DEF WindowTake
  <1>12. CASE GetWrite
    <2>1. ASSUME NEW job, Outstanding(job) PROVE Outstanding(job)'
      <3>1. CASE Head(queue) = job
        BY <1>12, <3>1 DEF Outstanding, GetWrite, InHand
      <3>2. CASE Head(queue) # job
        BY <1>12, <2>1, <3>2, BackedTail DEF GetWrite, TakeJob
      <3> QED
        BY <3>1, <3>2
    <2> QED
      BY <1>12, <1>k, <2>1 DEF GetWrite, TakeJob, HealInv, KvJob, blocks, files
  <1>13. CASE GetManifest \/ GetMarker
    <2>1. /\ wpc = "get" /\ queue # <<>> /\ queue' = Tail(queue) /\ UNCHANGED <<blocks, files>>
          /\ Head(queue).kind \in {"manifest", "sync", "close"} /\ wpc' # "commit"
      BY <1>13 DEF GetManifest, GetMarker, TakeJob, EndTurn
    <2>2. ASSUME NEW h, Outstanding(KvJob(h)) PROVE Outstanding(KvJob(h))'
      <3>1. Head(queue) # KvJob(h)
        BY <2>1 DEF KvJob
      <3> QED
        BY <2>1, <2>2, <3>1, BackedTail DEF KvJob
    <2> QED
      BY <1>k, <2>1, <2>2 DEF HealInv, blocks, files
  <1>14. CASE Commit
    BY <1>k, <1>14, HealCommit
  <1>15. CASE CheckLater \/ PersistRead
    <2>1. /\ UNCHANGED <<queue, blocks, files>> /\ ~InHand /\ wpc' # "commit"
      BY <1>15 DEF CheckLater, PersistRead, InHand
    <2> QED
      BY <1>k, <2>1 DEF HealInv, Outstanding, KvJob, blocks, files
  <1>16. ASSUME NEW ok \in BOOLEAN, WriteFile(ok) PROVE HealInv'
    <2>1. /\ wpc = "write" /\ wpc' = "commit" /\ wsize' = ok /\ UNCHANGED <<blocks, queue, wjob>>
          /\ kvFile \subseteq kvFile' /\ (ok => wjob.block \in kvFile')
      <3>1. wjob.kind = "kv"
        BY <1>k, <1>16 DEF WriteFile, TypeOK, WriterOK, InHand, KvOnly, Job
      <3> QED
        BY <1>16, <3>1 DEF WriteFile
    <2>2. ASSUME NEW job, Outstanding(job) PROVE Outstanding(job)'
      BY <2>1, <2>2 DEF Outstanding, InHand
    <2> QED
      BY <1>k, <2>1, <2>2 DEF HealInv, KvJob, blocks
  <1>17. ASSUME NEW ok \in BOOLEAN, Publish(ok) PROVE HealInv'
    <2>1. /\ UNCHANGED <<queue, blocks, files>> /\ ~InHand /\ wpc' # "commit"
      BY <1>17 DEF Publish, EndTurn, InHand
    <2> QED
      BY <1>k, <2>1 DEF HealInv, Outstanding, KvJob, blocks, files
  <1>18. CASE Restart
    <2>1. kvReady' \subseteq kvFile' /\ wpc' = "get"
      BY <1>18 DEF Restart, Load, Wipe
    <2> QED
      BY <1>k, <2>1 DEF HealInv
  <1>19. CASE UNCHANGED vars
    BY <1>19, <1>s DEF vars
  <1> QED
    BY <1>1, <1>2, <1>3, <1>4, <1>5, <1>6, <1>7, <1>8, <1>9, <1>10, <1>11, <1>12, <1>13,
       <1>14, <1>15, <1>16, <1>17, <1>18, <1>19 DEF Next, Scheduler, Writer

\* In a layout without recurrent layers, what lookup() takes for readable is on disk, or a job
\* in the queue or in the writer's hands will put it there.
THEOREM ReadyAlwaysHeals == ~NeedsRec => (Spec => []ReadyHeals)
  <1> SUFFICES ASSUME ~NeedsRec PROVE Spec => []ReadyHeals
    OBVIOUS
  <1>1. Init => HealInv
    BY DEF Init, HealInv, KvOnly, NoImage, NoSnap, NoJob, Mark
  <1>2. TypeOK /\ HealInv /\ [Next]_vars => HealInv'
    BY HealStep
  <1>3. HealInv => ReadyHeals
    BY DEF HealInv, KvOnly, ReadyHeals
  <1> QED
    BY <1>1, <1>2, <1>3, TypeCorrect, PTL DEF Spec

-----------------------------------------------------------------------------
(* Counting the jobs of a queue *)

\* The positions of a kind of job in the queue are finitely many.
LEMMA QueuedFinite ==
    ASSUME TypeOK, NEW kind
    PROVE  IsFiniteSet(Queued(kind)) /\ Cardinality(Queued(kind)) \in Nat
  <1>1. Queued(kind) \in SUBSET (1..Len(queue)) /\ Len(queue) \in Int
    BY DEF Queued, TypeOK, StoreOK
  <1>2. IsFiniteSet(1..Len(queue))
    BY <1>1, FS_Interval
  <1> QED
    BY <1>1, <1>2, FS_Subset, FS_CardinalityType

\* Appending a job adds one to its kind and nothing to the others.
LEMMA QueuedAppend ==
    ASSUME TypeOK, NEW kind, NEW job, queue' = Append(queue, job)
    PROVE  Cardinality(Queued(kind)') =
               Cardinality(Queued(kind)) + (IF job.kind = kind THEN 1 ELSE 0)
  <1>1. Len(queue) \in Nat /\ DOMAIN queue = 1..Len(queue)
        /\ DOMAIN queue' = 1..(Len(queue) + 1)
        /\ (\A k \in 1..Len(queue) : queue'[k] = queue[k]) /\ queue'[Len(queue) + 1] = job
    BY DEF TypeOK, StoreOK
  <1>2. CASE job.kind = kind
    <2>1. Queued(kind)' = Queued(kind) \cup {Len(queue) + 1}
      BY <1>1, <1>2 DEF Queued
    <2>2. Len(queue) + 1 \notin Queued(kind)
      BY <1>1 DEF Queued
    <2> QED
      BY <1>2, <2>1, <2>2, QueuedFinite, FS_AddElement
  <1>3. CASE job.kind # kind
    <2>1. Queued(kind)' = Queued(kind)
      BY <1>1, <1>3 DEF Queued
    <2> QED
      BY <1>3, <2>1, QueuedFinite
  <1> QED
    BY <1>2, <1>3

\* Taking the head off subtracts one from its kind and nothing from the others.
LEMMA QueuedTail ==
    ASSUME TypeOK, NEW kind, queue # <<>>, queue' = Tail(queue)
    PROVE  Cardinality(Queued(kind)) =
               Cardinality(Queued(kind)') + (IF Head(queue).kind = kind THEN 1 ELSE 0)
  <1> DEFINE Rest  == Queued(kind) \ {1}
             Shift == [k \in Rest |-> k - 1]
  <1>1. Len(queue) \in Nat \ {0} /\ DOMAIN queue = 1..Len(queue)
        /\ DOMAIN queue' = 1..(Len(queue) - 1)
        /\ (\A k \in 1..(Len(queue) - 1) : queue'[k] = queue[k + 1])
        /\ Head(queue) = queue[1]
    BY DEF TypeOK, StoreOK
  <1>2. IsFiniteSet(Rest)
        /\ Cardinality(Queued(kind)) =
               Cardinality(Rest) + (IF 1 \in Queued(kind) THEN 1 ELSE 0)
    <2>1. IsFiniteSet(Queued(kind)) /\ Cardinality(Queued(kind)) \in Nat
      BY QueuedFinite
    <2>2. /\ IsFiniteSet(Rest)
          /\ Cardinality(Rest) = IF 1 \in Queued(kind) THEN Cardinality(Queued(kind)) - 1
                                                      ELSE Cardinality(Queued(kind))
      BY <2>1, FS_RemoveElement
    <2> QED
      BY <2>1, <2>2
  <1>3. Shift \in Bijection(Rest, Queued(kind)')
    <2>1. Rest \subseteq 2..Len(queue)
      BY <1>1 DEF Queued
    <2>2. Shift \in [Rest -> Queued(kind)']
      BY <1>1, <2>1 DEF Queued
    <2>3. \A j, k \in Rest : Shift[j] = Shift[k] => j = k
      BY <2>1
    <2>4. ASSUME NEW k \in Queued(kind)' PROVE \E j \in Rest : Shift[j] = k
      <3>1. k \in 1..(Len(queue) - 1) /\ queue[k + 1].kind = kind
        BY <1>1 DEF Queued
      <3>2. k + 1 \in Rest /\ Shift[k + 1] = k
        BY <1>1, <3>1 DEF Queued
      <3> QED
        BY <3>2
    <2> QED
      BY <2>2, <2>3, <2>4 DEF Bijection, Injection, Surjection, IsInjective
  <1>4. Cardinality(Queued(kind)') = Cardinality(Rest)
    BY <1>2, <1>3, FS_Bijection DEF ExistsBijection
  <1>5. 1 \in Queued(kind) <=> Head(queue).kind = kind
    BY <1>1 DEF Queued
  <1> QED
    BY <1>2, <1>4, <1>5

-----------------------------------------------------------------------------
(* The backlog counter *)

\* A backlog is a number of jobs.
LEMMA BacklogType ==
    ASSUME TypeOK, NEW kind
    PROVE  Backlog(kind) \in Nat
  BY QueuedFinite DEF Backlog, Holding

\* Steps that queue at most a marker and leave the writer's job alone.
LEMMA BacklogFrame ==
    ASSUME TypeOK, BacklogExact, pendingBytes' = pendingBytes, wjob' = wjob, InHand' = InHand,
           \/ queue' = queue
           \/ \E job \in Marker : queue' = Append(queue, job)
    PROVE  BacklogExact'
  <1>1. ASSUME NEW kind \in {"kv", "rec"} PROVE Backlog(kind)' = Backlog(kind)
    <2>1. Holding(kind)' = Holding(kind)
      BY DEF Holding
    <2>2. Cardinality(Queued(kind)') = Cardinality(Queued(kind))
      <3>1. CASE queue' = queue
        BY <3>1 DEF Queued
      <3>2. ASSUME NEW job \in Marker, queue' = Append(queue, job)
            PROVE  Cardinality(Queued(kind)') = Cardinality(Queued(kind))
        <4>1. job.kind # kind
          BY DEF Marker
        <4> QED
          BY <3>2, <4>1, QueuedAppend, QueuedFinite
      <3> QED
        BY <3>1, <3>2
    <2> QED
      BY <2>1, <2>2 DEF Backlog
  <1> QED
    BY <1>1 DEF BacklogExact

\* The step that queues a job raises the counter by its payload.
LEMMA BacklogEnqueue ==
    ASSUME TypeOK, BacklogExact, NEW job \in Job, NEW now, Enqueue(job, now)
    PROVE  BacklogExact'
  <1>1. ASSUME NEW kind
        PROVE  Backlog(kind)' = Backlog(kind) + (IF job.kind = kind THEN 1 ELSE 0)
    <2>1. Holding(kind)' = Holding(kind) /\ Holding(kind) \in Nat
      BY DEF Holding, InHand, Enqueue, writer
    <2>2. Cardinality(Queued(kind)') =
              Cardinality(Queued(kind)) + (IF job.kind = kind THEN 1 ELSE 0)
      BY QueuedAppend DEF Enqueue
    <2>3. Cardinality(Queued(kind)) \in Nat
      BY QueuedFinite
    <2> QED
      BY <2>1, <2>2, <2>3 DEF Backlog
  <1>2. pendingBytes' = pendingBytes + Bytes(job)
    BY DEF Enqueue
  <1>3. Backlog("kv") \in Nat /\ Backlog("rec") \in Nat
    BY BacklogType
  <1>4. CASE job.kind = "kv"
    <2>1. Backlog("kv")' = Backlog("kv") + 1 /\ Backlog("rec")' = Backlog("rec")
      BY <1>1, <1>3, <1>4
    <2> QED
      BY <1>2, <1>3, <1>4, <2>1, SizesAssumption DEF BacklogExact, Bytes
  <1>5. CASE job.kind = "rec"
    <2>1. Backlog("rec")' = Backlog("rec") + 1 /\ Backlog("kv")' = Backlog("kv")
      BY <1>1, <1>3, <1>5
    <2> QED
      BY <1>2, <1>3, <1>5, <2>1, SizesAssumption DEF BacklogExact, Bytes
  <1> QED
    BY <1>4, <1>5 DEF Job

\* Taking a job moves it from the queue to the writer's hands.
LEMMA BacklogTake ==
    ASSUME TypeOK, BacklogExact, GetWrite \/ GetManifest \/ GetMarker
    PROVE  BacklogExact'
  <1>1. queue # <<>> /\ queue' = Tail(queue) /\ wpc = "get" /\ pendingBytes' = pendingBytes
    BY DEF GetWrite, GetManifest, GetMarker, TakeJob
  <1>2. ASSUME NEW kind \in {"kv", "rec"} PROVE Backlog(kind)' = Backlog(kind)
    <2>1. Holding(kind) = 0
      BY <1>1 DEF Holding, InHand
    <2>2. Holding(kind)' = IF Head(queue).kind = kind THEN 1 ELSE 0
      <3>1. CASE GetWrite
        BY <3>1 DEF GetWrite, Holding, InHand
      <3>2. CASE GetManifest \/ GetMarker
        BY <3>2 DEF GetManifest, GetMarker, TakeJob, EndTurn, Holding, InHand
      <3> QED
        BY <3>1, <3>2
    <2>3. Cardinality(Queued(kind)) =
              Cardinality(Queued(kind)') + (IF Head(queue).kind = kind THEN 1 ELSE 0)
      BY <1>1, QueuedTail
    <2> QED
      BY <2>1, <2>2, <2>3, QueuedFinite DEF Backlog
  <1> QED
    BY <1>1, <1>2 DEF BacklogExact

\* A commit lowers the counter by the payload of the job it ends, and by no other.
LEMMA BacklogCommit ==
    ASSUME TypeOK, BacklogExact, Commit
    PROVE  BacklogExact'
  <1>1. /\ wjob \in Job /\ wpc = "commit" /\ wpc' = "check" /\ queue' = queue
        /\ pendingBytes' = pendingBytes - Bytes(wjob)
    BY DEF Commit, TypeOK, WriterOK, InHand
  <1>2. ASSUME NEW kind
        PROVE  /\ Queued(kind)' = Queued(kind) /\ Cardinality(Queued(kind)) \in Nat
               /\ Holding(kind)' = 0
               /\ Holding(kind) = IF wjob.kind = kind THEN 1 ELSE 0
    BY <1>1, QueuedFinite DEF Queued, Holding, InHand
  <1>3. CASE wjob.kind = "kv"
    <2>1. /\ Backlog("kv") = Backlog("kv")' + 1 /\ Backlog("rec")' = Backlog("rec")
          /\ Backlog("kv")' \in Nat /\ Backlog("rec") \in Nat
      BY <1>2, <1>3 DEF Backlog
    <2> QED
      BY <1>1, <1>3, <2>1, SizesAssumption DEF BacklogExact, Bytes
  <1>4. CASE wjob.kind = "rec"
    <2>1. /\ Backlog("rec") = Backlog("rec")' + 1 /\ Backlog("kv")' = Backlog("kv")
          /\ Backlog("rec")' \in Nat /\ Backlog("kv") \in Nat
      BY <1>2, <1>4 DEF Backlog
    <2> QED
      BY <1>1, <1>4, <2>1, SizesAssumption DEF BacklogExact, Bytes
  <1> QED
    BY <1>1, <1>3, <1>4 DEF Job

\* No action makes the counter drift.
LEMMA BacklogStep == TypeOK /\ BacklogExact /\ [Next]_vars => BacklogExact'
  <1> SUFFICES ASSUME TypeOK, BacklogExact, [Next]_vars PROVE BacklogExact'
    OBVIOUS
  <1> USE DEF blocks, store, sched, writer, files, vars, InHand
  <1>1. ASSUME NEW c \in Chains, NEW i \in DOMAIN c, NEW rp \in BOOLEAN, Observe(c, i, rp)
        PROVE  BacklogExact'
    BY <1>1, BacklogFrame DEF Observe
  <1>2. ASSUME NEW c \in Chains, Done(c) \/ Lookup(c) PROVE BacklogExact'
    BY <1>2, BacklogFrame DEF Done, Lookup
  <1>3. CASE ObserveFails \/ FlushFails \/ EndHarvest \/ WindowEnd \/ Flush
    BY <1>3, BacklogFrame DEF ObserveFails, FlushFails, EndHarvest, WindowEnd, Flush
  <1>4. CASE RestoreFails \/ PutSync \/ Close
    BY <1>4, BacklogFrame, ConstantTypes DEF RestoreFails, PutSync, Close
  <1>5. ASSUME NEW job \in Job, NEW v \in Block, Evict(job, v) PROVE BacklogExact'
    BY <1>5, BacklogFrame DEF Evict
  <1>6. ASSUME NEW job \in Job, NEW now \in 0..MaxClock, Enqueue(job, now)
        PROVE  BacklogExact'
    BY <1>6, BacklogEnqueue
  <1>7. ASSUME NEW job \in Job, SkipWrite(job) PROVE BacklogExact'
    BY <1>7, BacklogFrame DEF SkipWrite
  <1>8. ASSUME NEW now \in 0..MaxClock, BeginHarvest(now) \/ RestoreOk(now)
        PROVE  BacklogExact'
    BY <1>8, BacklogFrame, ConstantTypes DEF BeginHarvest, RestoreOk
  <1>9. ASSUME NEW k \in DOMAIN window, WindowTake(k) PROVE BacklogExact'
    BY <1>9, BacklogFrame DEF WindowTake
  <1>10. CASE GetWrite \/ GetManifest \/ GetMarker
    BY <1>10, BacklogTake
  <1>11. CASE Commit
    BY <1>11, BacklogCommit
  <1>12. CASE CheckLater \/ PersistRead
    BY <1>12 DEF CheckLater, PersistRead, BacklogExact, Backlog, Queued, Holding
  <1>13. ASSUME NEW ok \in BOOLEAN, WriteFile(ok) PROVE BacklogExact'
    BY <1>13, BacklogFrame DEF WriteFile
  <1>14. ASSUME NEW ok \in BOOLEAN, Publish(ok) PROVE BacklogExact'
    BY <1>14 DEF Publish, EndTurn, BacklogExact, Backlog, Queued, Holding
  <1>15. CASE Restart
    <2>1. ASSUME NEW kind PROVE Backlog(kind)' = 0
      <3>1. Queued(kind)' = {} /\ Holding(kind)' = 0
        BY <1>15 DEF Restart, Queued, Holding
      <3> QED
        BY <3>1, FS_EmptySet DEF Backlog
    <2> QED
      BY <1>15, <2>1, SizesAssumption DEF Restart, BacklogExact
  <1>16. CASE UNCHANGED vars
    BY <1>16 DEF BacklogExact, Backlog, Queued, Holding
  <1> QED
    BY <1>1, <1>2, <1>3, <1>4, <1>5, <1>6, <1>7, <1>8, <1>9, <1>10, <1>11, <1>12,
       <1>13, <1>14, <1>15, <1>16 DEF Next, Scheduler, Writer

\* The counter behind MAX_PENDING_BYTES is the payload of the jobs outstanding,
\* whatever was dropped, failed or disabled meanwhile.
THEOREM BacklogIsExact == Spec => []BacklogExact
  <1>1. Init => BacklogExact
    <2> SUFFICES ASSUME Init PROVE BacklogExact
      OBVIOUS
    <2>1. ASSUME NEW kind PROVE Backlog(kind) = 0
      <3>1. Queued(kind) = {} /\ Holding(kind) = 0
        BY DEF Init, Queued, Holding, InHand
      <3> QED
        BY <3>1, FS_EmptySet DEF Backlog
    <2>2. pendingBytes = 0
      BY DEF Init
    <2> QED
      BY <2>1, <2>2, SizesAssumption DEF BacklogExact
  <1> QED
    BY <1>1, TypeCorrect, BacklogStep, PTL DEF Spec

-----------------------------------------------------------------------------
(* The disk budget *)

\* Fewer blocks, no more bytes.
LEMMA Payloads ==
    ASSUME NEW n \in Nat, NEW S \in SUBSET Block, NEW T \in SUBSET S
    PROVE  n * Cardinality(T) <= n * Cardinality(S)
           /\ n * Cardinality(S) \in Nat /\ n * Cardinality(T) \in Nat
  <1>1. IsFiniteSet(S)
    BY BlockAssumption, FS_Subset
  <1>2. /\ Cardinality(T) <= Cardinality(S)
        /\ Cardinality(S) \in Nat /\ Cardinality(T) \in Nat
    BY <1>1, FS_Subset, FS_CardinalityType
  <1> QED
    BY <1>2

\* One more block, at most its payload more.
LEMMA PayloadOfOneMore ==
    ASSUME NEW n \in Nat, NEW S \in SUBSET Block, NEW h
    PROVE  n * Cardinality(S \cup {h}) <= n * Cardinality(S) + n
           /\ n * Cardinality(S \cup {h}) \in Nat
  <1>1. IsFiniteSet(S)
    BY BlockAssumption, FS_Subset
  <1>2. /\ Cardinality(S) \in Nat
        /\ Cardinality(S \cup {h}) \in {Cardinality(S), Cardinality(S) + 1}
    BY <1>1, FS_AddElement, FS_CardinalityType
  <1> QED
    BY <1>2

\* The bytes on disk and the bytes on their way are never negative.
LEMMA BytesType ==
    ASSUME TypeOK, BacklogExact
    PROVE  /\ ReadyPayload \in Nat /\ pendingBytes \in Nat
           /\ TotalBytes \in Nat /\ ReadyPayload <= TotalBytes
  <1>1. pendingBytes \in Nat
    BY BacklogType, SizesAssumption DEF BacklogExact
  <1>2. kvReady \in SUBSET Block /\ recReady \in SUBSET Block
    BY DEF TypeOK, BlocksOK
  <1>3. KvBytes * Cardinality(kvReady) \in Nat /\ RecBytes * Cardinality(recReady) \in Nat
    BY <1>2, Payloads, SizesAssumption
  <1>4. ReadyPayload \in Nat
    BY <1>3 DEF ReadyPayload
  <1>5. HeaderBytes * (Cardinality(kvReady) + Cardinality(recReady)) \in Nat
    <2>1. IsFiniteSet(kvReady) /\ IsFiniteSet(recReady)
      BY <1>2, BlockAssumption, FS_Subset
    <2>2. Cardinality(kvReady) \in Nat /\ Cardinality(recReady) \in Nat
      BY <2>1, FS_CardinalityType
    <2> QED
      BY <2>2, SizesAssumption
  <1> QED
    BY <1>1, <1>4, <1>5 DEF TotalBytes

\* Steps that may drop blocks, and neither add any nor raise the backlog.
LEMMA BudgetFrame ==
    ASSUME TypeOK, BudgetInv, pendingBytes' = pendingBytes,
           kvReady' \subseteq kvReady, recReady' \subseteq recReady,
           manifest' = manifest, image' = image, wpc' = "publish" => wpc = "publish"
    PROVE  BudgetInv'
  <1>1. kvReady \in SUBSET Block /\ recReady \in SUBSET Block /\ pendingBytes \in Int
    BY DEF TypeOK, BlocksOK, StoreOK
  <1>2. /\ KvBytes * Cardinality(kvReady') <= KvBytes * Cardinality(kvReady)
        /\ KvBytes * Cardinality(kvReady') \in Nat /\ KvBytes * Cardinality(kvReady) \in Nat
    BY <1>1, Payloads, SizesAssumption
  <1>3. /\ RecBytes * Cardinality(recReady') <= RecBytes * Cardinality(recReady)
        /\ RecBytes * Cardinality(recReady') \in Nat /\ RecBytes * Cardinality(recReady) \in Nat
    BY <1>1, Payloads, SizesAssumption
  <1>4. BudgetHeld'
    BY <1>1, <1>2, <1>3, SizesAssumption DEF BudgetInv, BudgetHeld, ReadyPayload
  <1> QED
    BY <1>4 DEF BudgetInv, Payload

\* A block becomes ready with the bytes the backlog gives up.
LEMMA BudgetCommit ==
    ASSUME TypeOK, BudgetInv, Commit
    PROVE  BudgetInv'
  <1>1. /\ kvReady \in SUBSET Block /\ recReady \in SUBSET Block /\ pendingBytes \in Int
        /\ wjob \in Job
    BY DEF TypeOK, BlocksOK, StoreOK, WriterOK, InHand, Commit
  <1>2. /\ pendingBytes' = pendingBytes - Bytes(wjob)
        /\ manifest' = manifest /\ image' = image /\ wpc' = "check"
    BY DEF Commit
  <1> DEFINE kv  == KvBytes * Cardinality(kvReady)
             rec == RecBytes * Cardinality(recReady)
  <1>3. kv \in Nat /\ rec \in Nat
    BY <1>1, Payloads, SizesAssumption
  <1>4. /\ kv' \in Nat /\ rec' \in Nat
        /\ kv' + rec' <= kv + rec + Bytes(wjob)
    <2>1. CASE wjob.kind = "kv"
      <3>1. recReady' \subseteq recReady /\ kvReady' \subseteq kvReady \cup {wjob.block}
        BY <2>1 DEF Commit, CommitGone, CommitKvFailed, CommitKv, CommitRec, DropAll, blocks
      <3>2. wjob.block \in Block
        BY <1>1 DEF Job
      <3>3. kv' <= kv + KvBytes /\ kv' \in Nat
        <4>1. kv' <= KvBytes * Cardinality(kvReady \cup {wjob.block}) /\ kv' \in Nat
          BY <1>1, <3>1, <3>2, Payloads, SizesAssumption
        <4>2. KvBytes * Cardinality(kvReady \cup {wjob.block}) <= kv + KvBytes
              /\ KvBytes * Cardinality(kvReady \cup {wjob.block}) \in Nat
          BY <1>1, PayloadOfOneMore, SizesAssumption
        <4> QED
          BY <1>3, <4>1, <4>2, SizesAssumption
      <3>4. rec' <= rec /\ rec' \in Nat
        BY <1>1, <3>1, Payloads, SizesAssumption
      <3> QED
        BY <1>3, <2>1, <3>3, <3>4, SizesAssumption DEF Bytes
    <2>2. CASE wjob.kind = "rec"
      <3>1. kvReady' \subseteq kvReady /\ recReady' \subseteq recReady \cup {wjob.block}
        BY <2>2 DEF Commit, CommitGone, CommitKvFailed, CommitKv, CommitRec, DropAll, blocks
      <3>2. wjob.block \in Block
        BY <1>1 DEF Job
      <3>3. rec' <= rec + RecBytes /\ rec' \in Nat
        <4>1. rec' <= RecBytes * Cardinality(recReady \cup {wjob.block}) /\ rec' \in Nat
          BY <1>1, <3>1, <3>2, Payloads, SizesAssumption
        <4>2. RecBytes * Cardinality(recReady \cup {wjob.block}) <= rec + RecBytes
              /\ RecBytes * Cardinality(recReady \cup {wjob.block}) \in Nat
          BY <1>1, PayloadOfOneMore, SizesAssumption
        <4> QED
          BY <1>3, <4>1, <4>2, SizesAssumption
      <3>4. kv' <= kv /\ kv' \in Nat
        BY <1>1, <3>1, Payloads, SizesAssumption
      <3> QED
        BY <1>3, <2>2, <3>3, <3>4, SizesAssumption DEF Bytes
    <2> QED
      BY <1>1, <2>1, <2>2 DEF Job
  <1>5. Bytes(wjob) \in Nat
    BY SizesAssumption DEF Bytes
  <1>6. kv + rec + pendingBytes <= MaxBytes
    BY DEF BudgetInv, BudgetHeld, ReadyPayload
  <1>7. kv' + rec' + pendingBytes' <= MaxBytes
    <2> HIDE DEF kv, rec
    <2> QED
      BY <1>1, <1>2, <1>3, <1>4, <1>5, <1>6, SizesAssumption
  <1>8. BudgetHeld'
    BY <1>7 DEF BudgetHeld, ReadyPayload
  <1> QED
    BY <1>2, <1>8 DEF BudgetInv, Payload

\* What _persist collects is at most what is accounted for.
LEMMA BudgetPersistRead ==
    ASSUME TypeOK, BacklogExact, BudgetInv, PersistRead
    PROVE  BudgetInv'
  <1>1. /\ kvReady \in SUBSET Block /\ recReady \in SUBSET Block
        /\ image'.kv = kvReady /\ image'.rec = recReady \cap kvReady
    BY DEF TypeOK, BlocksOK, PersistRead
  <1>2. KvBytes * Cardinality(image'.kv) = KvBytes * Cardinality(kvReady)
        /\ KvBytes * Cardinality(kvReady) \in Nat
    BY <1>1, Payloads, SizesAssumption
  <1>3. /\ RecBytes * Cardinality(image'.rec) <= RecBytes * Cardinality(recReady)
        /\ RecBytes * Cardinality(image'.rec) \in Nat
        /\ RecBytes * Cardinality(recReady) \in Nat
    BY <1>1, Payloads, SizesAssumption
  <1>4. ReadyPayload <= MaxBytes
    BY BytesType, SizesAssumption DEF BudgetInv, BudgetHeld
  <1>5. Payload(image)' <= MaxBytes
    BY <1>2, <1>3, <1>4, SizesAssumption DEF Payload, ReadyPayload
  <1>6. BudgetHeld'
    BY DEF PersistRead, BudgetInv, BudgetHeld, ReadyPayload, blocks, store
  <1> QED
    BY <1>5, <1>6 DEF PersistRead, BudgetInv, Payload

\* What a new process takes over is at most what its manifest lists.
LEMMA BudgetRestart ==
    ASSUME TypeOK, BudgetInv, Restart
    PROVE  BudgetInv'
  <1>1. CASE Load
    <2>1. /\ manifest.kv \in SUBSET Block /\ manifest.rec \in SUBSET Block
          /\ kvReady' \subseteq manifest.kv /\ recReady' \subseteq manifest.rec
          /\ manifest' = manifest
      BY <1>1 DEF TypeOK, DiskOK, Image, Load
    <2>2. /\ KvBytes * Cardinality(kvReady') <= KvBytes * Cardinality(manifest.kv)
          /\ KvBytes * Cardinality(kvReady') \in Nat
          /\ KvBytes * Cardinality(manifest.kv) \in Nat
      BY <2>1, Payloads, SizesAssumption
    <2>3. /\ RecBytes * Cardinality(recReady') <= RecBytes * Cardinality(manifest.rec)
          /\ RecBytes * Cardinality(recReady') \in Nat
          /\ RecBytes * Cardinality(manifest.rec) \in Nat
      BY <2>1, Payloads, SizesAssumption
    <2>4. BudgetHeld'
      BY <2>2, <2>3, SizesAssumption DEF Restart, BudgetInv, BudgetHeld, ReadyPayload, Payload
    <2> QED
      BY <2>1, <2>4 DEF Restart, BudgetInv, Payload
  <1>2. CASE Wipe
    <2>1. /\ kvReady' = {} /\ recReady' = {} /\ manifest'.kv = {} /\ manifest'.rec = {}
          /\ Cardinality({}) = 0 /\ pendingBytes' = 0 /\ wpc' = "get"
      BY <1>2, FS_EmptySet DEF Restart, Wipe, NoImage
    <2> QED
      BY <2>1, SizesAssumption DEF BudgetInv, BudgetHeld, ReadyPayload, Payload
  <1> QED
    BY <1>1, <1>2 DEF Restart

\* No action takes the store over its budget.
LEMMA BudgetStep == TypeOK /\ BacklogExact /\ BudgetInv /\ [Next]_vars => BudgetInv'
  <1> SUFFICES ASSUME TypeOK, BacklogExact, BudgetInv, [Next]_vars PROVE BudgetInv'
    OBVIOUS
  <1> USE DEF blocks, store, sched, writer, files, vars
  <1>1. ASSUME NEW c \in Chains, NEW i \in DOMAIN c, NEW rp \in BOOLEAN, Observe(c, i, rp)
        PROVE  BudgetInv'
    BY <1>1, BudgetFrame DEF Observe
  <1>2. ASSUME NEW c \in Chains, Done(c) \/ Lookup(c) PROVE BudgetInv'
    BY <1>2, BudgetFrame DEF Done, Lookup
  <1>3. CASE ObserveFails \/ FlushFails \/ EndHarvest \/ WindowEnd \/ Flush
    BY <1>3, BudgetFrame DEF ObserveFails, FlushFails, EndHarvest, WindowEnd, Flush
  <1>4. CASE RestoreFails \/ PutSync \/ Close
    BY <1>4, BudgetFrame DEF RestoreFails, DropAll, PutSync, Close
  <1>5. ASSUME NEW job \in Job, NEW v \in Block, Evict(job, v) PROVE BudgetInv'
    BY <1>5, BudgetFrame DEF Evict, DropAll
  <1>6. ASSUME NEW job \in Job, NEW now \in 0..MaxClock, Enqueue(job, now) PROVE BudgetInv'
    <2>1. /\ ReadyPayload + pendingBytes + Bytes(job) <= MaxBytes
          /\ pendingBytes' = pendingBytes + Bytes(job)
      <3>1. ~(TotalBytes + pendingBytes + Bytes(job) > MaxBytes)
            /\ pendingBytes' = pendingBytes + Bytes(job)
        BY <1>6 DEF Enqueue, OverBudget
      <3> QED
        BY <3>1, BytesType, SizesAssumption DEF Bytes
    <2>2. /\ kvReady' = kvReady /\ recReady' = recReady
          /\ manifest' = manifest /\ image' = image /\ wpc' = wpc
      BY <1>6 DEF Enqueue
    <2>3. Bytes(job) \in Nat
      BY SizesAssumption DEF Bytes
    <2>4. ReadyPayload' = ReadyPayload /\ Payload(manifest)' = Payload(manifest)
          /\ Payload(image)' = Payload(image)
      BY <2>2 DEF ReadyPayload, Payload
    <2>5. BudgetHeld'
      BY <2>1, <2>3, <2>4, BytesType, SizesAssumption DEF BudgetHeld
    <2> QED
      BY <2>2, <2>4, <2>5 DEF BudgetInv
  <1>7. ASSUME NEW job \in Job, SkipWrite(job) PROVE BudgetInv'
    BY <1>7, BudgetFrame DEF SkipWrite
  <1>8. ASSUME NEW now \in 0..MaxClock, BeginHarvest(now) \/ RestoreOk(now) PROVE BudgetInv'
    BY <1>8, BudgetFrame DEF BeginHarvest, RestoreOk
  <1>9. ASSUME NEW k \in DOMAIN window, WindowTake(k) PROVE BudgetInv'
    BY <1>9, BudgetFrame DEF WindowTake
  <1>10. CASE GetWrite \/ GetManifest \/ GetMarker
    BY <1>10, BudgetFrame DEF GetWrite, GetManifest, GetMarker, TakeJob, EndTurn
  <1>11. CASE Commit
    BY <1>11, BudgetCommit
  <1>12. CASE CheckLater
    BY <1>12, BudgetFrame DEF CheckLater
  <1>13. CASE PersistRead
    BY <1>13, BudgetPersistRead
  <1>14. ASSUME NEW ok \in BOOLEAN, WriteFile(ok) PROVE BudgetInv'
    BY <1>14, BudgetFrame DEF WriteFile
  <1>15. ASSUME NEW ok \in BOOLEAN, Publish(ok) PROVE BudgetInv'
    BY <1>15 DEF Publish, EndTurn, BudgetInv, BudgetHeld, ReadyPayload, Payload
  <1>16. CASE Restart
    BY <1>16, BudgetRestart
  <1>17. CASE UNCHANGED vars
    BY <1>17, BudgetFrame
  <1> QED
    BY <1>1, <1>2, <1>3, <1>4, <1>5, <1>6, <1>7, <1>8, <1>9, <1>10, <1>11, <1>12,
       <1>13, <1>14, <1>15, <1>16, <1>17 DEF Next, Scheduler, Writer

\* What is accounted on disk and what is on its way there stay within the budget for
\* good, for every budget, every payload and every combination of faults.
THEOREM BudgetIsHeld == Spec => []BudgetHeld
  <1>1. Init => BudgetInv
    <2> SUFFICES ASSUME Init PROVE BudgetInv
      OBVIOUS
    <2>1. /\ kvReady = {} /\ recReady = {} /\ manifest.kv = {} /\ manifest.rec = {}
          /\ pendingBytes = 0 /\ wpc = "get" /\ Cardinality({}) = 0
      BY FS_EmptySet DEF Init, NoImage
    <2> QED
      BY <2>1, SizesAssumption DEF BudgetInv, BudgetHeld, ReadyPayload, Payload
  <1>2. BudgetInv => BudgetHeld
    BY DEF BudgetInv
  <1> QED
    BY <1>1, <1>2, TypeCorrect, BacklogIsExact, BudgetStep, PTL DEF Spec

----------------------------------------------------------------------------
(* The store implements the abstract durable cache.  The abstract state is *)
(* the blocks that are ready, those with a KV write outstanding and those  *)
(* the manifest lists; every step of the two threads, and every restart,   *)
(* is a step of DurableCache or leaves these three alone.                  *)

\* Where an appended job stands.
LEMMA AppendedAt ==
    ASSUME TypeOK, NEW job, NEW m \in Job \cup Marker, queue' = Append(queue, m)
    PROVE  (\E k \in DOMAIN queue' : queue'[k] = job)
               <=> (m = job \/ \E k \in DOMAIN queue : queue[k] = job)
  <1>1. queue \in Seq(Job \cup Marker)
    BY DEF TypeOK, StoreOK
  <1>2. Len(queue) + 1 \in DOMAIN queue' /\ queue'[Len(queue) + 1] = m
    BY <1>1
  <1>3. ASSUME NEW k \in DOMAIN queue PROVE k \in DOMAIN queue' /\ queue'[k] = queue[k]
    BY <1>1, <1>3
  <1>4. ASSUME NEW k \in DOMAIN queue' PROVE k = Len(queue) + 1 \/ k \in DOMAIN queue
    BY <1>1, <1>4
  <1> QED
    BY <1>2, <1>3, <1>4

\* Steps that neither start nor end a write leave the writes alone: the queue may only
\* receive a marker.
LEMMA WritingFrame ==
    ASSUME TypeOK,
           queue' = queue \/ \E m \in Marker : queue' = Append(queue, m),
           InHand' = InHand, InHand => wjob' = wjob
    PROVE  Writing' = Writing
  <1>1. ASSUME NEW h \in Block
        PROVE  (\E k \in DOMAIN queue' : queue'[k] = KvJob(h))
                   <=> \E k \in DOMAIN queue : queue[k] = KvJob(h)
    <2>1. ASSUME NEW m \in Marker, queue' = Append(queue, m)
          PROVE  (\E k \in DOMAIN queue' : queue'[k] = KvJob(h))
                     <=> \E k \in DOMAIN queue : queue[k] = KvJob(h)
      <3>1. m # KvJob(h)
        BY DEF Marker, KvJob
      <3> QED
        BY <2>1, <3>1, AppendedAt
    <2> QED
      BY <2>1
  <1> QED
    BY <1>1 DEF Writing, Outstanding

\* The queue holds its head and what the tail holds.
LEMMA TailHolds ==
    ASSUME TypeOK, NEW job, queue # <<>>, queue' = Tail(queue)
    PROVE  (\E k \in DOMAIN queue : queue[k] = job)
               <=> (Head(queue) = job \/ \E k \in DOMAIN queue' : queue'[k] = job)
  <1>1. queue \in Seq(Job \cup Marker)
    BY DEF TypeOK, StoreOK
  <1>2. 1 \in DOMAIN queue /\ queue[1] = Head(queue)
    BY <1>1
  <1>3. ASSUME NEW k \in DOMAIN queue, k # 1
        PROVE  k - 1 \in DOMAIN queue' /\ queue'[k - 1] = queue[k]
    BY <1>1, <1>3
  <1>4. ASSUME NEW k \in DOMAIN queue'
        PROVE  k + 1 \in DOMAIN queue /\ queue[k + 1] = queue'[k]
    BY <1>1, <1>4
  <1> QED
    BY SMTT(40), <1>2, <1>3, <1>4

\* Taking a marker leaves the writes alone.
LEMMA WritingMarker ==
    ASSUME TypeOK, NEW kinds \in SUBSET {"manifest", "sync", "close"},
           TakeJob(kinds), ~InHand'
    PROVE  Writing' = Writing
  <1>1. ASSUME NEW h \in Block PROVE Head(queue) # KvJob(h)
    BY DEF TakeJob, KvJob
  <1>2. ~InHand
    BY DEF TakeJob, InHand
  <1> QED
    BY <1>1, <1>2, TailHolds DEF TakeJob, Writing, Outstanding

\* A write taken off the queue is in the writer's hands.
LEMMA WritingGetWrite ==
    ASSUME TypeOK, GetWrite
    PROVE  Writing' = Writing
  <1>1. ~InHand /\ InHand' /\ wjob' = Head(queue)
    BY DEF GetWrite, TakeJob, InHand
  <1> QED
    BY <1>1, TailHolds DEF GetWrite, TakeJob, Writing, Outstanding

\* finish() and done() start the write of the job they queue.
LEMMA WritingEnqueue ==
    ASSUME TypeOK, NEW job \in Job, NEW now, Enqueue(job, now)
    PROVE  Writing' = IF job.kind = "kv" THEN Writing \cup {job.block} ELSE Writing
  <1>1. InHand' = InHand /\ wjob' = wjob /\ queue' = Append(queue, job)
    BY DEF Enqueue, writer, InHand
  <1>2. ASSUME NEW h \in Block
        PROVE  Outstanding(KvJob(h))' <=> (Outstanding(KvJob(h)) \/ job = KvJob(h))
    BY <1>1, AppendedAt DEF Outstanding, KvJob
  <1>3. CASE job.kind = "kv"
    <2>1. ASSUME NEW h \in Block PROVE job = KvJob(h) <=> h = job.block
      BY <1>3 DEF Job, KvJob
    <2>2. job.block \in Block
      BY DEF Job
    <2> QED
      BY <1>2, <1>3, <2>1, <2>2 DEF Writing
  <1>4. CASE job.kind # "kv"
    <2>1. ASSUME NEW h \in Block PROVE job # KvJob(h)
      BY <1>4 DEF KvJob
    <2> QED
      BY <1>2, <1>4, <2>1 DEF Writing
  <1> QED
    BY <1>3, <1>4

\* A commit ends one write of its block; another of the same block may be queued.
LEMMA WritingCommit ==
    ASSUME TypeOK, Commit
    PROVE  IF wjob.kind = "kv"
           THEN /\ wjob.block \in Writing
                /\ Writing' = Writing \/ Writing' = Writing \ {wjob.block}
           ELSE Writing' = Writing
  <1>1. InHand /\ ~InHand' /\ queue' = queue
    BY DEF Commit, InHand
  <1>2. wjob \in Job
    BY <1>1 DEF TypeOK, WriterOK
  <1>3. CASE wjob.kind = "kv"
    <2>1. wjob.block \in Block /\ wjob = KvJob(wjob.block)
      BY <1>2, <1>3 DEF Job, KvJob
    <2>2. wjob.block \in Writing
      BY <1>1, <2>1 DEF Writing, Outstanding
    <2>3. ASSUME NEW h \in Block, h # wjob.block
          PROVE  Outstanding(KvJob(h))' <=> Outstanding(KvJob(h))
      <3>1. wjob # KvJob(h)
        BY <2>3 DEF KvJob
      <3> QED
        BY <1>1, <3>1 DEF Outstanding
    <2>4. \A h \in Block : h # wjob.block => (h \in Writing' <=> h \in Writing)
      BY <2>3 DEF Writing
    <2>5. Writing \subseteq Block /\ Writing' \subseteq Block
      BY DEF Writing
    <2>6. CASE wjob.block \in Writing'
      BY <1>3, <2>2, <2>4, <2>5, <2>6
    <2>7. CASE wjob.block \notin Writing'
      BY <1>3, <2>2, <2>4, <2>5, <2>7
    <2> QED
      BY <2>6, <2>7
  <1>4. CASE wjob.kind # "kv"
    <2>1. ASSUME NEW h \in Block PROVE wjob # KvJob(h)
      BY <1>4 DEF KvJob
    <2> QED
      BY <1>1, <1>4, <2>1 DEF Writing, Outstanding
  <1> QED
    BY <1>3, <1>4

\* A new process has no write outstanding.
LEMMA WritingRestart ==
    ASSUME queue' = <<>>, wpc' = "get"
    PROVE  Writing' = {}
  <1>1. ~InHand' /\ DOMAIN queue' = {}
    BY DEF InHand
  <1> QED
    BY <1>1 DEF Writing, Outstanding

----------------------------------------------------------------------------
(* The refinement *)

\* Dropping blocks is a withdrawal.
LEMMA ShrinkWithdraws ==
    ASSUME TypeOK, kvReady' \subseteq kvReady, Writing' = Writing, manifest' = manifest
    PROVE  Durable!Next
  <1>1. kvReady \ kvReady' \in SUBSET Block
    BY DEF TypeOK, BlocksOK
  <1>2. Durable!Withdraw(kvReady \ kvReady')
    BY DEF Durable!Withdraw
  <1> QED
    BY <1>1, <1>2 DEF Durable!Next

\* Queueing a KV write starts one; queueing a recurrent state is a stutter.
LEMMA EnqueueWrites ==
    ASSUME TypeOK, NEW job \in Job, NEW now, Enqueue(job, now)
    PROVE  Durable!Next \/ UNCHANGED <<kvReady, Writing, manifest>>
  <1>1. kvReady' = kvReady /\ manifest' = manifest
    BY DEF Enqueue, files
  <1>2. CASE job.kind = "kv"
    <2>1. job.block \in Block
      BY DEF Job
    <2>2. Durable!Write(job.block)
      BY <1>1, <1>2, WritingEnqueue DEF Durable!Write
    <2> QED
      BY <2>1, <2>2 DEF Durable!Next
  <1>3. CASE job.kind # "kv"
    BY <1>1, <1>3, WritingEnqueue
  <1> QED
    BY <1>2, <1>3

\* A commit of a KV write finishes it, whatever became of the block meanwhile.
LEMMA CommitFinishes ==
    ASSUME TypeOK, Commit
    PROVE  Durable!Next \/ UNCHANGED <<kvReady, Writing, manifest>>
  <1>1. manifest' = manifest
    BY DEF Commit
  <1>2. CASE wjob.kind = "kv"
    <2>1. wjob.block \in Block
      BY <1>2, WritingCommit DEF Writing
    <2>2. kvReady' \in {kvReady, kvReady \cup {wjob.block}, kvReady \ {wjob.block}}
      BY <1>2 DEF Commit, CommitGone, CommitKvFailed, CommitKv, CommitRec, DropAll, blocks
    <2>3. Durable!Finish(wjob.block)
      BY <1>1, <1>2, <2>2, WritingCommit DEF Durable!Finish
    <2> QED
      BY <2>1, <2>3 DEF Durable!Next
  <1>3. CASE wjob.kind # "kv"
    <2>1. kvReady' = kvReady
      BY <1>3 DEF Commit, CommitGone, CommitKvFailed, CommitKv, CommitRec, blocks
    <2> QED
      BY <1>1, <1>3, <2>1, WritingCommit
  <1> QED
    BY <1>2, <1>3

\* Publishing a manifest saves all that is offered.
LEMMA PublishSaves ==
    ASSUME TypeOK, SaveInv, NEW ok \in BOOLEAN, Publish(ok)
    PROVE  Durable!Next \/ UNCHANGED <<kvReady, Writing, manifest>>
  <1>1. kvReady' = kvReady
    BY DEF Publish, blocks
  <1>2. Writing' = Writing
    BY WritingFrame DEF Publish, EndTurn, InHand, store
  <1>3. CASE ok
    <2>1. kvReady \subseteq image.kv /\ image.kv \subseteq Block
      BY DEF Publish, SaveInv, Lists, TypeOK, WriterOK, Image
    <2>2. Durable!Save
      BY <1>1, <1>2, <1>3, <2>1 DEF Publish, Durable!Save
    <2> QED
      BY <2>2 DEF Durable!Next
  <1>4. CASE ~ok
    BY <1>1, <1>2, <1>4 DEF Publish
  <1> QED
    BY <1>3, <1>4

\* A restart recovers what was saved, or discards it.
LEMMA RestartRecovers ==
    ASSUME Restart
    PROVE  Durable!Next
  <1>1. Writing' = {}
    BY WritingRestart DEF Restart
  <1>2. CASE Load
    <2>1. Durable!Recover
      BY <1>1, <1>2 DEF Load, Durable!Recover
    <2> QED
      BY <2>1 DEF Durable!Next
  <1>3. CASE Wipe
    <2>1. Durable!Discard
      BY <1>1, <1>3 DEF Wipe, NoImage, Durable!Discard
    <2> QED
      BY <2>1 DEF Durable!Next
  <1> QED
    BY <1>2, <1>3 DEF Restart

\* Every step is a step of the abstract cache or leaves it alone.
LEMMA DurableStep == TypeOK /\ SaveInv /\ [Next]_vars => [Durable!Next]_(Durable!avars)
  <1> SUFFICES ASSUME TypeOK, SaveInv, [Next]_vars
               PROVE  Durable!Next \/ UNCHANGED <<kvReady, Writing, manifest>>
    BY DEF Durable!avars
  <1> DEFINE Same == UNCHANGED <<kvReady, Writing, manifest>>
  <1> USE DEF blocks, store, sched, writer, files, vars, InHand
  <1>1. ASSUME NEW c \in Chains,
               \/ \E i \in DOMAIN c, rp \in BOOLEAN : Observe(c, i, rp)
               \/ Done(c) \/ Lookup(c)
        PROVE  Same
    BY <1>1, WritingFrame DEF Observe, Done, Lookup
  <1>2. CASE ObserveFails \/ FlushFails \/ EndHarvest \/ WindowEnd \/ Flush
    BY <1>2, WritingFrame DEF ObserveFails, FlushFails, EndHarvest, WindowEnd, Flush
  <1>3. CASE PutSync \/ Close
    <2>1. Mark("sync") \in Marker /\ Mark("close") \in Marker
      BY DEF Mark, Marker
    <2> QED
      BY <1>3, <2>1, WritingFrame DEF PutSync, Close
  <1>4. CASE RestoreFails
    <2>1. Mark("manifest") \in Marker
      BY DEF Mark, Marker
    <2> QED
      BY <1>4, <2>1, WritingFrame, ShrinkWithdraws DEF RestoreFails, DropAll
  <1>5. ASSUME NEW job \in Job, NEW v \in Block, Evict(job, v) PROVE Durable!Next
    BY <1>5, WritingFrame, ShrinkWithdraws DEF Evict, DropAll
  <1>6. ASSUME NEW job \in Job, NEW now \in 0..MaxClock, Enqueue(job, now)
        PROVE  Durable!Next \/ Same
    BY <1>6, EnqueueWrites
  <1>7. ASSUME NEW job \in Job, SkipWrite(job) PROVE Same
    BY <1>7, WritingFrame DEF SkipWrite
  <1>8. ASSUME NEW now \in 0..MaxClock, BeginHarvest(now) \/ RestoreOk(now) PROVE Same
    <2>1. Mark("manifest") \in Marker
      BY DEF Mark, Marker
    <2> QED
      BY <1>8, <2>1, WritingFrame DEF BeginHarvest, RestoreOk
  <1>9. ASSUME NEW k \in DOMAIN window, WindowTake(k) PROVE Same
    BY <1>9, WritingFrame DEF WindowTake
  <1>10. CASE GetWrite
    BY <1>10, WritingGetWrite DEF GetWrite, TakeJob
  <1>11. CASE GetManifest
    BY <1>11, WritingMarker DEF GetManifest, TakeJob
  <1>12. CASE GetMarker
    BY <1>12, WritingMarker DEF GetMarker, EndTurn, TakeJob
  <1>13. CASE CheckLater \/ PersistRead
    BY <1>13, WritingFrame DEF CheckLater, PersistRead
  <1>14. CASE Commit
    BY <1>14, CommitFinishes
  <1>15. ASSUME NEW ok \in BOOLEAN, WriteFile(ok) PROVE Same
    BY <1>15, WritingFrame DEF WriteFile
  <1>16. ASSUME NEW ok \in BOOLEAN, Publish(ok) PROVE Durable!Next \/ Same
    BY <1>16, PublishSaves
  <1>17. CASE Restart
    BY <1>17, RestartRecovers
  <1>18. CASE UNCHANGED vars
    BY <1>18, WritingFrame
  <1> QED
    BY <1>1, <1>2, <1>3, <1>4, <1>5, <1>6, <1>7, <1>8, <1>9, <1>10, <1>11, <1>12,
       <1>13, <1>14, <1>15, <1>16, <1>17, <1>18 DEF Next, Scheduler, Writer

\* What the tier offers is what an abstract durable cache offers: a process offers a
\* block only if it was writing it or a manifest listed it, and no manifest put in
\* place leaves out a block that is offered.
THEOREM Refinement == Spec => ImplementsDurable
  <1>1. Init => Durable!Init
    <2>1. Init => Writing = {}
      BY DEF Init, Writing, Outstanding, InHand
    <2> QED
      BY <2>1 DEF Init, NoImage, Durable!Init
  <1> QED
    BY <1>1, TypeCorrect, SaveInvariant, DurableStep, PTL
       DEF Spec, ImplementsDurable, Durable!Spec
=============================================================================
