---------------------------- MODULE ServeManager ----------------------------
(***************************************************************************)
(* daemon/serve_manager.py: the supervisor of one `mt serve` child, with   *)
(* its state file (daemon/pidfile.py), its receipt outbox                  *)
(* (daemon/accounting.py) and the daemon's own death and restart.          *)
(*                                                                         *)
(* A serve is a generation: the n-th process spawned.  Its number stands   *)
(* for the pid and start time that identify it.  Threads: the pool's one   *)
(* worker runs the HTTP calls, Hook the stop at exit, and thread s, for a  *)
(* serve s, the auto-restart decided when s died.  One monitor per watched *)
(* serve.  A lifecycle transaction is modelled from the step that takes    *)
(* the lifecycle lock; its steps are the sections the code runs under      *)
(* _cond, a spawn, a receipt, a signal or a wait.                          *)
(***************************************************************************)
EXTENDS Naturals, FiniteSets

CONSTANTS
    MaxServes,    \* bound: serves ever spawned
    MaxCalls,     \* bound: client calls
    MaxBoots,     \* bound: daemon lives
    AutoRestart,  \* --auto-restart
    StopOnExit,   \* --stop-serve-on-exit
    SaveFails,    \* may writing the state file fail
    OutboxFails   \* may writing a receipt fail

ASSUME BoundsAssumption == {MaxServes, MaxCalls, MaxBoots} \subseteq Nat \ {0}
ASSUME SwitchesAssumption == {AutoRestart, StopOnExit, SaveFails, OutboxFails} \subseteq BOOLEAN

Serve == 1..MaxServes
NoServe == 0
Pool == 0
Hook == MaxServes + 1
Thread == 0..Hook

Op == {"none", "start", "stop", "switch", "shutdown", "auto"}
Call == [op : Op, force : BOOLEAN, target : Serve \cup {NoServe},
         pc : {"idle", "lock", "spawn", "save", "prepare", "signal", "grace", "killed",
               "again", "exit"}]
Idle == [op |-> "none", force |-> FALSE, target |-> NoServe, pc |-> "idle"]

\* What a receipt says: of which serve, from which source, and whose totals it carries.
Receipt == [of : Serve, kind : {"sealed", "degraded", "crash"},
            from : Serve \cup {NoServe}]

VARIABLES
    up,                 \* the daemon runs
    boots, calls,       \* counters of the bounds
    child,              \* _child
    starting, stopping, \* _starting, _stopping
    stopRequested,      \* _stop_requested
    shutdownRequested,  \* _shutdown_requested
    call,               \* what each thread is doing
    mon,                \* where each serve's monitor is
    wasStopping,        \* a monitor's local was_stopping
    durable,            \* _durable_accounting
    lastStats,          \* _last_accounting: whose totals are on record for a serve
    reaped,             \* child.reaped
    proc,               \* the processes
    file,               \* serve.json: the serve it names
    outbox,             \* the receipts written
    quiet,              \* history: the last explicit call to return was a stop or a shutdown
    overtaken           \* history: serves spawned while a monitor was about to clear the file

memory == <<child, starting, stopping, stopRequested, shutdownRequested>>
accounts == <<durable, lastStats>>
watch == <<mon, wasStopping, reaped>>
world == <<proc, file>>
bounds == <<up, boots, calls>>
history == <<quiet, overtaken>>
vars == <<bounds, memory, call, watch, accounts, world, outbox, history>>

Receipted(s) == \E r \in outbox : r.of = s

----------------------------------------------------------------------------
TypeOK ==
    /\ up \in BOOLEAN /\ boots \in 1..MaxBoots /\ calls \in 0..MaxCalls
    /\ child \in Serve \cup {NoServe}
    /\ {starting, stopping, stopRequested, shutdownRequested} \subseteq BOOLEAN
    /\ call \in [Thread -> Call]
    /\ mon \in [Serve -> {"none", "wait", "receipt", "forget", "clear", "wake", "decide"}]
    /\ wasStopping \in [Serve -> BOOLEAN]
    /\ durable \subseteq Serve
    /\ lastStats \in [Serve -> Serve \cup {NoServe}]
    /\ reaped \subseteq Serve
    /\ proc \in [Serve -> {"unborn", "alive", "dead"}]
    /\ file \in Serve \cup {NoServe}
    /\ outbox \subseteq Receipt
    /\ quiet \in {"no", "stopped", "shutdown"}
    /\ overtaken \subseteq Serve

\* ServeManager.__init__ of the first daemon: it remembers nothing.
Init ==
    /\ up = TRUE /\ boots = 1 /\ calls = 0
    /\ child = NoServe /\ starting = FALSE /\ stopping = FALSE
    /\ stopRequested = FALSE /\ shutdownRequested = FALSE
    /\ call = [t \in Thread |-> Idle]
    /\ mon = [s \in Serve |-> "none"] /\ wasStopping = [s \in Serve |-> FALSE]
    /\ durable = {} /\ lastStats = [s \in Serve |-> NoServe]
    /\ reaped = {} /\ quiet = "no" /\ overtaken = {}
    /\ proc = [s \in Serve |-> "unborn"] /\ file = NoServe
    /\ outbox = {}

\* The lifecycle lock is free: every thread is outside a transaction.
LockFree == \A t \in Thread : call[t].pc \in {"idle", "lock", "exit"}

Goto(t, pc) == call' = [call EXCEPT ![t].pc = pc]
\* The call ends and the lock with it; the hook's thread then leaves the daemon.
Return(t) == call' = [call EXCEPT ![t] = IF t = Hook THEN [Idle EXCEPT !.pc = "exit"] ELSE Idle]

----------------------------------------------------------------------------
(* start(): the gate.  `c` is the call that thread t is making.            *)

\* Mutant of Refused: an auto-restart ignores the latch of a stop.
RefusedAtShutdown(auto) == shutdownRequested

\* The call is turned away: refused by a latch, or a serve already runs (the same one is
\* an idempotent success, another a Conflict: neither changes anything more).
Refused(auto) == shutdownRequested \/ (auto /\ stopRequested)
Occupied == child # NoServe /\ ~stopping

StartGate(t, c) ==
    LET auto == c.op = "auto"
    IN  /\ stopRequested' = (stopRequested /\ (auto \/ shutdownRequested))
        /\ quiet' = IF auto \/ quiet = "shutdown" THEN quiet ELSE "no"
        /\ IF Refused(auto) \/ Occupied
             THEN starting' = starting /\ Return(t)
             ELSE /\ starting' = TRUE
                  /\ call' = [call EXCEPT ![t] = [c EXCEPT !.pc = "spawn"]]
        /\ UNCHANGED <<child, stopping, shutdownRequested>>

\* The process is created and becomes the child.
Spawn(t) ==
    /\ call[t].pc = "spawn"
    /\ \E s \in Serve :
          /\ proc[s] = "unborn" /\ \A b \in 1..(s - 1) : proc[b] # "unborn"
          /\ proc' = [proc EXCEPT ![s] = "alive"]
          /\ child' = s
          /\ call' = [call EXCEPT ![t].pc = "save", ![t].target = s]
          /\ overtaken' = IF \E m \in Serve : mon[m] = "clear" THEN overtaken \cup {s} ELSE overtaken
    /\ starting' = FALSE /\ stopping' = FALSE
    /\ UNCHANGED <<bounds, stopRequested, shutdownRequested, watch, accounts, file, outbox, quiet>>

SpawnFails(t) ==
    /\ call[t].pc = "spawn"
    /\ starting' = FALSE
    /\ Return(t)
    /\ UNCHANGED <<bounds, child, stopping, stopRequested, shutdownRequested, watch, accounts,
                   world, outbox, history>>

\* _persist, then _begin_watch: the record is replaced and the monitor starts.
Save(t) ==
    /\ call[t].pc = "save"
    /\ file' = call[t].target
    /\ mon' = [mon EXCEPT ![call[t].target] = "wait"]
    /\ Return(t)
    /\ UNCHANGED <<bounds, memory, wasStopping, reaped, accounts, proc, outbox, history>>

\* The exception leaves the serve running without a record and without a monitor.
SaveRaises(t) ==
    /\ SaveFails /\ call[t].pc = "save"
    /\ Return(t)
    /\ UNCHANGED <<bounds, memory, watch, accounts, world, outbox, history>>

----------------------------------------------------------------------------
(* _stop(): latch, receipt, signal, wait.                                  *)

\* _stop returned: a switch goes on to start, the other calls are over.
StopReturns(t, c) ==
    IF c.op = "switch"
      THEN /\ call' = [call EXCEPT ![t] = [c EXCEPT !.pc = "again", !.target = NoServe]]
           /\ quiet' = quiet
      ELSE /\ Return(t)
           /\ quiet' = IF quiet = "shutdown" \/ c.op = "shutdown" THEN "shutdown" ELSE "stopped"

\* Mutant of StopRaises: a failed stop forgets the child.
StopRaisesBlind(t) ==
    /\ stopping' = FALSE /\ child' = NoServe
    /\ shutdownRequested' = (shutdownRequested /\ call[t].op # "shutdown")
    /\ Return(t)
    /\ UNCHANGED <<bounds, starting, stopRequested, watch, world, history>>

\* _stop raised: the child stays visible, and a failed shutdown reopens the daemon.
StopRaises(t) ==
    /\ stopping' = (stopping /\ child # call[t].target)
    /\ shutdownRequested' = (shutdownRequested /\ call[t].op # "shutdown")
    /\ Return(t)
    /\ UNCHANGED <<bounds, child, starting, stopRequested, watch, world, history>>

StopGate(t, c) ==
    /\ stopRequested' = TRUE
    /\ shutdownRequested' = (shutdownRequested \/ c.op = "shutdown")
    /\ IF child = NoServe
         THEN stopping' = stopping /\ StopReturns(t, c)
         ELSE /\ stopping' = TRUE
              /\ call' = [call EXCEPT ![t] = [c EXCEPT !.pc = "prepare", !.target = child]]
              /\ quiet' = quiet
    /\ UNCHANGED <<child, starting>>

\* Mutant of StopReceipts: the child is read again instead of the one the stop took.
StopReceiptsReread(s, force) ==
    IF force THEN {[of |-> child, kind |-> "degraded", from |-> NoServe]} ELSE {}

\* The receipts a stop of s may settle for: the totals the serve gives (sealed; an engine
\* too old to seal gives a snapshot), or none when it is forced.  A dead serve gives none.
StopReceipts(s, force) ==
    (IF proc[s] = "alive" THEN {[of |-> s, kind |-> "sealed", from |-> s]} ELSE {})
        \cup (IF force THEN {[of |-> s, kind |-> "degraded", from |-> NoServe]} ELSE {})

\* Under _accounting_guard: ask the serve, write the receipt, remember it is written.
Prepare(t) ==
    LET s == call[t].target
    IN  /\ call[t].pc = "prepare"
        /\ \E r \in StopReceipts(s, call[t].force) : outbox' = outbox \cup {r}
        /\ durable' = durable \cup {s}
        /\ lastStats' = [lastStats EXCEPT ![s] = NoServe]
        /\ call' = [call EXCEPT ![t].pc = "signal", ![t].force = FALSE]
        /\ UNCHANGED <<bounds, memory, watch, world, history>>

\* Mutant of PrepareRaises: a forced stop goes on without its receipt.
PrepareRaisesForced(t) ==
    /\ call[t].pc = "prepare"
    /\ IF call[t].force
         THEN Goto(t, "signal") /\ UNCHANGED <<bounds, memory, watch, world, history>>
         ELSE StopRaises(t)
    /\ UNCHANGED <<accounts, outbox>>

\* The serve fails to answer and the stop is not forced, or the outbox fails.
PrepareRaises(t) ==
    /\ call[t].pc = "prepare"
    /\ ~call[t].force \/ OutboxFails
    /\ StopRaises(t)
    /\ UNCHANGED <<accounts, outbox>>

\* SIGTERM, unless the monitor has already seen the serve die.
Signal(t) ==
    /\ call[t].pc = "signal" /\ call[t].target \notin reaped
    /\ Goto(t, "grace")
    /\ UNCHANGED <<bounds, memory, watch, accounts, world, outbox, history>>

\* The grace period passes: SIGKILL.
Escalate(t) ==
    /\ call[t].pc = "grace" /\ call[t].target \notin reaped
    /\ Goto(t, "killed")
    /\ UNCHANGED <<bounds, memory, watch, accounts, world, outbox, history>>

\* Mutant of GiveUp: the wait after SIGKILL has no end.
GiveUpNever(t) == FALSE

\* Even SIGKILL did not end it in time.
GiveUp(t) ==
    /\ call[t].pc = "killed" /\ call[t].target \notin reaped
    /\ StopRaises(t)
    /\ UNCHANGED <<accounts, outbox>>

\* The monitor has reaped the child.
Stopped(t) ==
    /\ call[t].pc \in {"signal", "grace", "killed"} /\ call[t].target \in reaped
    /\ StopReturns(t, call[t])
    /\ UNCHANGED <<bounds, memory, watch, accounts, world, outbox, overtaken>>

----------------------------------------------------------------------------
(* The calls.                                                              *)

\* An HTTP call gets the lifecycle lock.
ClientCalls ==
    /\ up /\ calls < MaxCalls /\ call[Pool] = Idle /\ LockFree
    /\ calls' = calls + 1
    /\ \E op \in {"start", "stop", "switch", "shutdown"}, force \in BOOLEAN :
          LET c == [Idle EXCEPT !.op = op, !.force = force]
          IN  IF op = "start" THEN StartGate(Pool, c) ELSE StopGate(Pool, c)
    /\ UNCHANGED <<up, boots, watch, accounts, world, outbox, overtaken>>

\* The second half of a switch, still under the lock.
SwitchStarts(t) ==
    /\ call[t].pc = "again"
    /\ StartGate(t, call[t])
    /\ UNCHANGED <<bounds, watch, accounts, world, outbox, overtaken>>

\* The exit hook stops the serve when the daemon was told to.
HookStops ==
    /\ up /\ StopOnExit /\ call[Hook] = Idle /\ LockFree
    /\ StopGate(Hook, [Idle EXCEPT !.op = "stop"])
    /\ UNCHANGED <<bounds, watch, accounts, world, outbox, overtaken>>

\* The auto-restart thread of a dead serve gets the lock.
AutoStarts(s) ==
    /\ call[s].pc = "lock" /\ LockFree
    /\ StartGate(s, call[s])
    /\ UNCHANGED <<bounds, watch, accounts, world, outbox, overtaken>>

----------------------------------------------------------------------------
(* _reap(): the monitor of serve s after its process ended.                *)

\* child.wait() returned; read was_stopping and whether this is still the child.
ReapReads(s) ==
    /\ mon[s] = "wait" /\ proc[s] = "dead"
    /\ wasStopping' = [wasStopping EXCEPT ![s] = stopping \/ stopRequested]
    /\ mon' = [mon EXCEPT ![s] = IF child = s THEN "receipt" ELSE "forget"]
    /\ UNCHANGED <<bounds, memory, call, reaped, accounts, world, outbox, history>>

\* One crash receipt, unless a stop has already written one for this serve.
ReapWrites(s) ==
    /\ mon[s] = "receipt"
    /\ outbox' = IF s \in durable THEN outbox
                 ELSE outbox \cup {[of |-> s, kind |-> "crash", from |-> lastStats[s]]}
    /\ durable' = durable \cup {s}
    /\ lastStats' = [lastStats EXCEPT ![s] = IF s \in durable THEN @ ELSE NoServe]
    /\ mon' = [mon EXCEPT ![s] = "forget"]
    /\ UNCHANGED <<bounds, memory, call, wasStopping, reaped, world, history>>

\* The outbox failed: no restart may hide the gap.
ReapWriteFails(s) ==
    /\ OutboxFails /\ mon[s] = "receipt" /\ s \notin durable
    /\ stopRequested' = TRUE
    /\ mon' = [mon EXCEPT ![s] = "forget"]
    /\ UNCHANGED <<bounds, child, starting, stopping, shutdownRequested, call, wasStopping, reaped,
                   accounts, world, outbox, history>>

\* Under _cond the child is forgotten, if it still is this one.
ReapForgets(s) ==
    /\ mon[s] = "forget"
    /\ IF child = s
         THEN /\ child' = NoServe /\ stopping' = FALSE
              /\ mon' = [mon EXCEPT ![s] = "clear"]
              /\ reaped' = reaped
         ELSE /\ UNCHANGED <<child, stopping>>
              /\ mon' = [mon EXCEPT ![s] = "none"] /\ reaped' = reaped \cup {s}
    /\ UNCHANGED <<bounds, starting, stopRequested, shutdownRequested, call, wasStopping, accounts,
                   world, outbox, history>>

\* The state file goes, whatever it names by now.
ReapClears(s) ==
    /\ mon[s] = "clear"
    /\ file' = NoServe
    /\ mon' = [mon EXCEPT ![s] = "wake"]
    /\ UNCHANGED <<bounds, memory, call, wasStopping, reaped, accounts, proc, outbox, history>>

\* Waiters wake.
ReapWakes(s) ==
    /\ mon[s] = "wake"
    /\ reaped' = reaped \cup {s}
    /\ mon' = [mon EXCEPT ![s] = "decide"]
    /\ UNCHANGED <<bounds, memory, call, wasStopping, accounts, world, outbox, history>>

\* A crash nobody asked for is followed by a restart, in a thread of its own.
ReapDecides(s) ==
    /\ mon[s] = "decide"
    /\ call' = IF ~wasStopping[s] /\ AutoRestart /\ ~stopRequested
                 THEN [call EXCEPT ![s] = [Idle EXCEPT !.op = "auto", !.pc = "lock"]]
                 ELSE call
    /\ mon' = [mon EXCEPT ![s] = "none"]
    /\ wasStopping' = [wasStopping EXCEPT ![s] = FALSE]
    /\ UNCHANGED <<bounds, memory, reaped, accounts, world, outbox, history>>

----------------------------------------------------------------------------
(* The statistics poll, the processes, the daemon's own life.              *)

\* engine_stats: a poll that asked the serve on the port, or took its answer from the
\* probe's cache, has it credited to whichever serve is the child when it gets there.
Observe(s) ==
    /\ child # NoServe /\ (s \in reaped \/ mon[s] # "none")
    /\ lastStats' = [lastStats EXCEPT ![child] = s]
    /\ UNCHANGED <<bounds, memory, call, watch, durable, world, outbox, history>>

\* A serve ends: a crash, or the answer to a signal.
ServeDies(s) ==
    /\ proc[s] = "alive"
    /\ proc' = [proc EXCEPT ![s] = "dead"]
    /\ UNCHANGED <<bounds, memory, call, watch, accounts, file, outbox, history>>

\* The daemon exits or is killed, at any step; the serve outlives it.
DaemonDies ==
    /\ up /\ up' = FALSE
    /\ child' = NoServe /\ starting' = FALSE /\ stopping' = FALSE
    /\ stopRequested' = FALSE /\ shutdownRequested' = FALSE
    /\ call' = [t \in Thread |-> Idle]
    /\ mon' = [s \in Serve |-> "none"] /\ wasStopping' = [s \in Serve |-> FALSE]
    /\ durable' = {} /\ lastStats' = [s \in Serve |-> NoServe]
    /\ reaped' = {} /\ quiet' = "no"
    /\ UNCHANGED <<boots, calls, world, outbox, overtaken>>

\* Mutant of Boot: the record is used up by the adoption.
BootConsumes ==
    /\ ~up /\ boots < MaxBoots
    /\ up' = TRUE /\ boots' = boots + 1 /\ calls' = calls
    /\ file' = NoServe
    /\ IF file # NoServe /\ proc[file] = "alive"
         THEN child' = file /\ mon' = [mon EXCEPT ![file] = "wait"]
         ELSE child' = child /\ mon' = mon
    /\ UNCHANGED <<starting, stopping, stopRequested, shutdownRequested, call, wasStopping, reaped,
                   accounts, proc, outbox, history>>

\* readopt(): a recorded serve that still runs becomes the child, a stale record goes.
Boot ==
    /\ ~up /\ boots < MaxBoots
    /\ up' = TRUE /\ boots' = boots + 1 /\ calls' = calls
    /\ IF file # NoServe /\ proc[file] = "alive"
         THEN child' = file /\ mon' = [mon EXCEPT ![file] = "wait"] /\ file' = file
         ELSE child' = child /\ mon' = mon /\ file' = NoServe
    /\ UNCHANGED <<starting, stopping, stopRequested, shutdownRequested, call, wasStopping, reaped,
                   accounts, proc, outbox, history>>

----------------------------------------------------------------------------
CallStep(t) ==
    \/ Spawn(t) \/ SpawnFails(t) \/ Save(t) \/ SaveRaises(t)
    \/ Prepare(t) \/ PrepareRaises(t)
    \/ Signal(t) \/ Escalate(t) \/ GiveUp(t) \/ Stopped(t)
    \/ SwitchStarts(t)

Monitor(s) ==
    \/ ReapReads(s) \/ ReapWrites(s) \/ ReapWriteFails(s) \/ ReapForgets(s)
    \/ ReapClears(s) \/ ReapWakes(s) \/ ReapDecides(s)

Next ==
    \/ ClientCalls \/ HookStops
    \/ \E t \in Thread : CallStep(t)
    \/ \E s \in Serve : AutoStarts(s) \/ Monitor(s) \/ Observe(s) \/ ServeDies(s)
    \/ DaemonDies \/ Boot

\* The one thread that holds the lock, the monitors and the threads that wait for the lock
\* run on; nothing obliges a client to call or a serve to end.
Fairness ==
    /\ WF_vars(\E t \in Thread : CallStep(t))
    /\ \A s \in Serve : WF_vars(Monitor(s)) /\ WF_vars(AutoStarts(s))

Spec == Init /\ [][Next]_vars /\ Fairness

----------------------------------------------------------------------------
(* Safety.                                                                 *)

\* At most one serve runs, and the daemon that started it knows it.  (A later daemon may
\* meet a serve whose record was lost, so this is about the first.)
OneServe ==
    up /\ boots = 1 => \A s \in Serve : proc[s] = "alive" => child = s

\* Once a stop has returned nothing runs until a client asks for it, whatever restarts
\* were decided before; after a shutdown nothing runs again.
StopHolds ==
    quiet # "no" => /\ child = NoServe /\ ~starting
                    /\ boots = 1 => \A s \in Serve : proc[s] # "alive"

\* No signal before a receipt.
ReceiptFirst ==
    \A t \in Thread : call[t].pc \in {"signal", "grace", "killed"} => Receipted(call[t].target)

\* A serve whose totals were sealed is not accounted for again as a crash, although its
\* monitor may see it die at any step of the stop.  (One daemon life: what is durable is
\* remembered in memory.)
SealedIsFinal ==
    \A s \in Serve, r \in outbox :
        boots = 1 /\ r.of = s /\ r.kind = "crash" => ~\E q \in outbox : q.of = s /\ q.kind = "sealed"

\* The contract of the outbox: no signal before a receipt, and one that sealed a serve stands.
ReceiptsHold == ReceiptFirst /\ SealedIsFinal

\* Whenever no lifecycle call is under way, a watched child is on record for the next
\* daemon.  The exception is a start that came between the two steps in which the monitor
\* of a crashed serve forgets the child and clears the file: its record is cleared too.
Recorded ==
    up /\ LockFree /\ child # NoServe /\ mon[child] = "wait" =>
        file = child \/ child \in overtaken

----------------------------------------------------------------------------
(* What makes them inductive (the proofs are in ServeManagerProofs).       *)

StopPc == {"prepare", "signal", "grace", "killed"}
Busy(t) == call[t].pc \notin {"idle", "lock", "exit"}

\* A stop that got past its gate has a target.
TargetInv == \A t \in Thread : call[t].pc \in StopPc => call[t].target # NoServe

\* A dead daemon has no threads; only a dead serve is past its monitor's wait; the thread
\* of an auto-restart runs when its monitor is through.
LifeInv ==
    /\ ~up => /\ child = NoServe /\ ~starting /\ ~stopping /\ quiet = "no" /\ reaped = {}
              /\ (\A t \in Thread : call[t] = Idle) /\ (\A s \in Serve : mon[s] = "none")
    /\ \A s \in Serve : mon[s] # "none" => proc[s] # "unborn"
    /\ \A s \in Serve : mon[s] \notin {"none", "wait"} \/ s \in reaped => proc[s] = "dead"
    /\ \A s \in Serve : mon[s] = "decide" => s \in reaped
    /\ \A s \in Serve : call[s] # Idle => s \in reaped /\ mon[s] = "none"

\* The lifecycle lock: one transaction at a time.
LockInv == \A t, u \in Thread : Busy(t) /\ Busy(u) => t = u

\* The fields belong to the transaction under way.
ChildInv ==
    /\ child # NoServe => proc[child] # "unborn"
    /\ \A s \in Serve : s \in reaped \/ mon[s] \in {"clear", "wake", "decide"} => child # s
    /\ \A t \in Thread :
          /\ call[t].pc \in StopPc => child \in {call[t].target, NoServe}
          /\ call[t].pc = "spawn" => child = NoServe
          /\ call[t].pc = "save" => child = call[t].target /\ child # NoServe /\ mon[child] = "none"
    /\ stopping => child # NoServe /\ \E t \in Thread : call[t].pc \in StopPc
    /\ starting => \E t \in Thread : call[t].pc = "spawn"

\* A stop that has returned left its latch, and none is under way.
StopInv ==
    /\ quiet # "no" => child = NoServe /\ ~starting /\ (stopRequested \/ shutdownRequested)
    /\ quiet = "shutdown" => shutdownRequested
    /\ \A t \in Thread :
          /\ call[t].pc = "spawn" => quiet = "no"
          /\ call[t].pc \in StopPc => quiet = "no" /\ stopRequested
          /\ call[t].pc \in StopPc /\ call[t].op = "shutdown" => shutdownRequested

\* A watched child is on record unless a monitor is about to clear the file, or has.
RecordInv ==
    /\ child # NoServe /\ mon[child] = "wait" => file = child \/ child \in overtaken
    /\ \A s \in Serve : mon[s] = "clear" => child = NoServe \/ child \in overtaken

\* A crash receipt is of a dead serve; this daemon remembers what it sealed.
ReceiptInv ==
    /\ \A r \in outbox : r.kind = "crash" => proc[r.of] = "dead"
    /\ up /\ boots = 1 => \A r \in outbox : r.kind = "sealed" => r.of \in durable

----------------------------------------------------------------------------
(* Steps and liveness.                                                     *)

\* Every call ends, however the serve, the monitor and the disk behave: again and again no
\* thread is in one.
CallsReturn == []<>(\A t \in Thread : call[t].pc \in {"idle", "exit"})

\* A watched serve that died is forgotten, also when its receipt cannot be written: the
\* daemon does not report it for ever.
DeadForgotten == []<>(\A s \in Serve : mon[s] # "none" => proc[s] # "dead")

\* Nobody is left stuck: no caller behind the lock, no dead child in the state.
NothingStuck == CallsReturn /\ DeadForgotten
=============================================================================
